------------------------------ MODULE InodeStore ------------------------------
(***************************************************************************)
(* S3FS_Store: how the nodes of a cluster share inodes through S3.         *)
(*                                                                         *)
(* A node edits its own copy of an inode and marks it; once a second every *)
(* marked inode is uploaded whole, as a new S3 object named by a revision  *)
(* the node makes up from its clock.  Nodes hear of revisions from SQS     *)
(* messages and from listings of the bucket; a higher revision than the    *)
(* one they know makes them drop their copy, which the next request then   *)
(* downloads.  S3FS_Store_InodeDoctor looks for another revision when a    *)
(* download finds nothing.                                                 *)
(*                                                                         *)
(* The local database survives a crash, everything else is in memory:      *)
(*   kv01 is prefix \x01, the copy (the set of its directory entries; the  *)
(*        attributes travel with them);                                    *)
(*   kv03 is prefix \x03, the latest revision known, 0 after storeInode;   *)
(*   list_ready is the key \xff.                                           *)
(* inodes_cache only saves decoding kv01 and is left out.  All the code    *)
(* runs on one main loop per node, so each handler is one step.  A GET     *)
(* reads S3 when its answer is handled (objects never change, see          *)
(* RevisionsImmutable); a listing is read when S3 answers and may be       *)
(* handled much later.  Every object holds a valid inode.  Two downloads   *)
(* of one revision by one node count as one.                               *)
(***************************************************************************)
EXTENDS NodeStamps, FiniteSets

CONSTANTS Nodes,
          NodeId,       \* the cluster id of each node
          Inodes,       \* inode numbers
          Root,         \* the number of the root directory, 1
          Initial,      \* the inodes that are on S3 from the beginning
          Entries,      \* what an inode may contain
          NotLocal,     \* stands for "no copy"
          Subscribed,   \* nodes with an SQS queue
          Listers,      \* nodes with a list fetch interval
          Epoch,        \* currentMSecsSinceEpoch() at the start, scaled down
          Hour,         \* an hour in the same scale
          PageSize,     \* objects in a page of a listing
          MaxClock,     \* bound: ms the clock of each node advances
          MaxEdits,     \* bound: edits, over all nodes
          MaxFaults     \* bound: crashes and inodes destroyed by fsck, together

NoRev == -1   \* no \x03 entry

ASSUME StoreAssumption ==
    /\ NodeId \in [Nodes -> Nat]
    /\ Inodes \subseteq Nat \ {0} /\ IsFiniteSet(Inodes) /\ Root \in Nat \ {0}
    /\ Initial \subseteq Inodes
    /\ \A c \in SUBSET Entries : c # NotLocal
    /\ Subscribed \subseteq Nodes /\ Listers \subseteq Nodes
    /\ Epoch \in Nat \ {0} /\ Hour \in Nat /\ PageSize \in Nat \ {0}
    /\ MaxClock \in [Nodes -> Nat]
    /\ MaxEdits \in Nat /\ MaxFaults \in Nat

VARIABLES clock,             \* ms since Epoch, as each node reads it
          last_inode_rev,
          kv01, kv03, list_ready,
          is_ready,          \* S3FS::is_ready: requests are served
          inodes_to_update,  \* marked for upload
          waiting,           \* inode_download_callback: requests wait for these
          gets,              \* downloads of inodes under way
          doctors,           \* S3FS_Store_InodeDoctor objects
          puts, deletes,     \* uploads and deletions under way
          objects,           \* the metadata objects on S3
          notes,             \* the SQS queue of each node
          listing,           \* the listing of the bucket each node is in
          used               \* edits and faults so far, inodes created

nodeVars == <<clock, last_inode_rev, kv01, kv03, list_ready, is_ready,
              inodes_to_update, waiting>>
wireVars == <<gets, doctors, puts, deletes>>
vars == <<nodeVars, wireVars, objects, notes, listing, used>>

Objects == [ino : Inodes, rev : Nat, body : SUBSET Entries]
Names == [ino : Inodes, rev : Nat]
Copies == {NotLocal} \cup SUBSET Entries
Listings == [stage : {"off", "asked", "answered"}, after : [ino : Nat, rev : Nat],
             page : SUBSET Names, more : BOOLEAN]

TypeOK ==
    /\ clock \in [Nodes -> Nat]
    /\ last_inode_rev \in [Nodes -> Nat]
    /\ kv01 \in [Nodes -> [Inodes -> Copies]]
    /\ kv03 \in [Nodes -> [Inodes -> Nat \cup {NoRev}]]
    /\ list_ready \in [Nodes -> BOOLEAN]
    /\ is_ready \in [Nodes -> BOOLEAN]
    /\ inodes_to_update \in [Nodes -> SUBSET Inodes]
    /\ waiting \in [Nodes -> SUBSET Inodes]
    /\ gets \in SUBSET [node : Nodes, ino : Inodes, rev : Nat]
    /\ doctors \in SUBSET [node : Nodes, ino : Inodes,
                           stage : {"list", "get"}, revs : SUBSET Nat]
    /\ puts \in SUBSET [node : Nodes, ino : Inodes, rev : Nat, body : SUBSET Entries]
    /\ deletes \in SUBSET [node : Nodes, ino : Inodes, rev : Nat]
    /\ objects \in SUBSET Objects
    /\ notes \in [Nodes -> SUBSET Names]
    /\ listing \in [Nodes -> Listings]
    /\ used \in [edits : Nat, faults : Nat, created : SUBSET Inodes]

FreshListing == [stage |-> "asked", after |-> [ino |-> 0, rev |-> 0],
                 page |-> {}, more |-> FALSE]

\* Nodes that never mounted the bucket before.
Init ==
    /\ clock = [n \in Nodes |-> 0]
    /\ last_inode_rev = [n \in Nodes |-> 0]
    /\ kv01 = [n \in Nodes |-> [i \in Inodes |-> NotLocal]]
    /\ kv03 = [n \in Nodes |-> [i \in Inodes |-> NoRev]]
    /\ list_ready = [n \in Nodes |-> FALSE]
    /\ is_ready = [n \in Nodes |-> FALSE]
    /\ inodes_to_update = [n \in Nodes |-> {}]
    /\ waiting = [n \in Nodes |-> {}]
    /\ gets = {} /\ doctors = {} /\ puts = {} /\ deletes = {}
    /\ objects = {[ino |-> i, rev |-> (Epoch - 1) * 1000, body |-> {}] : i \in Initial}
    /\ notes = [n \in Nodes |-> {}]
    /\ listing = [n \in Nodes |-> FreshListing]
    /\ used = [edits |-> 0, faults |-> 0, created |-> Initial]

-----------------------------------------------------------------------------

Has(n, i) == kv03[n][i] # NoRev        \* hasInode
Local(n, i) == kv01[n][i] # NotLocal   \* hasInodeLocally

\* Data is inserted key by key over what is there.
Over(copy, body) == IF copy = NotLocal THEN body ELSE copy \cup body

Earliest(R) == IF \E r \in R : \A q \in R : r <= q
               THEN CHOOSE r \in R : \A q \in R : r <= q ELSE NoRev
Latest(R) == IF \E r \in R : \A q \in R : q <= r
             THEN CHOOSE r \in R : \A q \in R : q <= r ELSE NoRev

\* The timer renews it every minute.
delete_ok_stamp(n) == Epoch + clock[n] - Hour

(***************************************************************************)
(* learnFile, for the revisions R of inode i on node n, in ascending order *)
(* as S3 lists them.  The first revision of an unknown inode is recorded   *)
(* as it is; an inode marked for upload learns nothing; a higher revision  *)
(* is recorded and the copy dropped; a lower one that is old enough is     *)
(* deleted from S3 when it was seen in a listing.                          *)
(***************************************************************************)

\* Slip: an inode marked for upload learns like any other.
NeverPending(n, i) == FALSE

Pending(n, i) == i \in inodes_to_update[n]

Base(n, i, R) == IF Has(n, i) THEN kv03[n][i] ELSE Earliest(R)

\* Slip: what is known already is kept.
KeepsKnown(n, i, R) == Base(n, i, R)

Learned(n, i, R) ==
    IF R = {} \/ Pending(n, i) THEN Base(n, i, R) ELSE Latest(R \cup {Base(n, i, R)})

DropsCopy(n, i, R) == ~Pending(n, i) /\ \E r \in R : r > Base(n, i, R)

\* Slip: the revision that is known is deleted with those before it.
AllListed(n, i, R) == IF Pending(n, i) THEN {} ELSE {r \in R : r <= kv03[n][i]}

TooOld(n, i, R) ==
    IF Pending(n, i) THEN {} ELSE {r \in R : r < kv03[n][i] /\ r < delete_ok_stamp(n)}

RevsIn(i, names) == {o.rev : o \in {x \in names : x.ino = i}}

\* Node n learns of these names, in a listing or from a message.
Learn(n, names, in_list) ==
    /\ kv03' = [kv03 EXCEPT ![n] =
                   [i \in Inodes |-> IF RevsIn(i, names) = {} THEN kv03[n][i]
                                     ELSE Learned(n, i, RevsIn(i, names))]]
    /\ kv01' = [kv01 EXCEPT ![n] =
                   [i \in Inodes |-> IF DropsCopy(n, i, RevsIn(i, names)) THEN NotLocal
                                     ELSE kv01[n][i]]]
    /\ deletes' = deletes \cup
           IF in_list /\ list_ready[n]
           THEN {[node |-> n, ino |-> o.ino, rev |-> o.rev] :
                    o \in {x \in names : x.rev \in TooOld(n, x.ino, RevsIn(x.ino, names))}}
           ELSE {}

-----------------------------------------------------------------------------

\* Time passes on node n; no two clocks agree.
Tick(n) ==
    /\ clock[n] < MaxClock[n]
    /\ clock' = [clock EXCEPT ![n] = @ + 1]
    /\ UNCHANGED <<last_inode_rev, kv01, kv03, list_ready, is_ready, inodes_to_update,
                   waiting, wireVars, objects, notes, listing, used>>

Before(o, p) == o.ino < p.ino \/ (o.ino = p.ino /\ o.rev < p.rev)

\* S3 answers with the page of the listing that follows the marker.
ListAnswer(n) ==
    /\ listing[n].stage = "asked"
    /\ LET rest == {[ino |-> o.ino, rev |-> o.rev] :
                       o \in {p \in objects : Before(listing[n].after, p)}}
           page == {o \in rest : Cardinality({p \in rest : Before(p, o)}) < PageSize}
       IN  listing' = [listing EXCEPT ![n].stage = "answered", ![n].page = page,
                                      ![n].more = (page # rest)]
    /\ UNCHANGED <<nodeVars, wireVars, objects, notes, used>>

\* Slip: the timer of the next listing is not started.
ListsOnce(n) == [FreshListing EXCEPT !.stage = "off"]

\* The timer cache_updater starts the next listing, if it is configured.
AfterListing(n) == [FreshListing EXCEPT !.stage = IF n \in Listers THEN "asked" ELSE "off"]

(***************************************************************************)
(* receivedInodeList: learn the page; ask for the next one after its last  *)
(* name, or mark the list as fetched and start over after the interval.    *)
(***************************************************************************)
ListReceive(n) ==
    /\ listing[n].stage = "answered"
    /\ Learn(n, listing[n].page, TRUE)
    /\ IF listing[n].more
       THEN /\ \E last \in listing[n].page :
                  /\ \A o \in listing[n].page : o = last \/ Before(o, last)
                  /\ listing' = [listing EXCEPT ![n] = [FreshListing EXCEPT !.after = last]]
            /\ UNCHANGED list_ready
       ELSE /\ listing' = [listing EXCEPT ![n] = AfterListing(n)]
            /\ list_ready' = [list_ready EXCEPT ![n] = TRUE]
    /\ UNCHANGED <<clock, last_inode_rev, is_ready, inodes_to_update, waiting,
                   gets, doctors, puts, objects, notes, used>>

\* gotNewFile: a message names an object that was written.  SQS delivers it
\* at least once, in any order: it may stay in the queue.
Notify(n, x, again) ==
    /\ x \in notes[n]
    /\ Learn(n, {x}, FALSE)
    /\ notes' = IF again THEN notes ELSE [notes EXCEPT ![n] = @ \ {x}]
    /\ UNCHANGED <<clock, last_inode_rev, list_ready, is_ready, inodes_to_update,
                   waiting, gets, doctors, puts, objects, listing, used>>

-----------------------------------------------------------------------------

\* Slip: a request that has to wait starts no download.
WaitOnly(n, i) ==
    /\ is_ready[n] /\ Has(n, i) /\ ~Local(n, i) /\ i \notin waiting[n]
    /\ waiting' = [waiting EXCEPT ![n] = @ \cup {i}]
    /\ UNCHANGED <<clock, last_inode_rev, kv01, kv03, list_ready, is_ready, inodes_to_update,
                   wireVars, objects, notes, listing, used>>

\* callbackOnInodeCached for a request of the kernel.  A second request for
\* the same inode joins the first.
NeedInode(n, i) ==
    /\ is_ready[n] /\ Has(n, i) /\ ~Local(n, i) /\ i \notin waiting[n]
    /\ waiting' = [waiting EXCEPT ![n] = @ \cup {i}]
    /\ gets' = gets \cup {[node |-> n, ino |-> i, rev |-> kv03[n][i]]}
    /\ UNCHANGED <<clock, last_inode_rev, kv01, kv03, list_ready, is_ready, inodes_to_update,
                   doctors, puts, deletes, objects, notes, listing, used>>

Found(i, r) == {o \in objects : o.ino = i /\ o.rev = r}

\* receivedInode, the object was there: its keys are inserted and the
\* requests that wait are triggered.
ReceiveInode(g) ==
    /\ g \in gets
    /\ \E o \in Found(g.ino, g.rev) :
          kv01' = [kv01 EXCEPT ![g.node][g.ino] = Over(@, o.body)]
    /\ gets' = gets \ {g}
    /\ waiting' = [waiting EXCEPT ![g.node] = @ \ {g.ino}]
    /\ UNCHANGED <<clock, last_inode_rev, kv03, list_ready, is_ready, inodes_to_update,
                   doctors, puts, deletes, objects, notes, listing, used>>

\* receivedInode, S3 has no such object (any more, or yet).
ReceiveNothing(g) ==
    /\ g \in gets
    /\ Found(g.ino, g.rev) = {}
    /\ gets' = gets \ {g}
    /\ doctors' = doctors \cup
           {[node |-> g.node, ino |-> g.ino, stage |-> "list", revs |-> {}]}
    /\ UNCHANGED <<nodeVars, puts, deletes, objects, notes, listing, used>>

\* Slip: nobody is told.
FailsQuietly(d) ==
    /\ doctors' = doctors \ {d}
    /\ UNCHANGED waiting

\* The doctor gives up: failed answers EIO to the requests that wait.
DoctorFails(d) ==
    /\ doctors' = doctors \ {d}
    /\ waiting' = [waiting EXCEPT ![d.node] = @ \ {d.ino}]

\* receivedRevisionsList
DoctorList(d) ==
    /\ d \in doctors /\ d.stage = "list"
    /\ LET revs == RevsIn(d.ino, objects)
       IN  IF revs = {}
           THEN DoctorFails(d)
           ELSE /\ doctors' = (doctors \ {d}) \cup {[d EXCEPT !.stage = "get", !.revs = revs]}
                /\ UNCHANGED waiting
    /\ UNCHANGED <<clock, last_inode_rev, kv01, kv03, list_ready, is_ready,
                   inodes_to_update, gets, puts, deletes, objects, notes, listing, used>>

\* receivedInode of the doctor, with the data of the last revision of its
\* list: storeInode makes it a new revision.
DoctorHeals(d) ==
    /\ d \in doctors /\ d.stage = "get"
    /\ \E o \in Found(d.ino, Latest(d.revs)) :
          kv01' = [kv01 EXCEPT ![d.node][d.ino] = Over(@, o.body)]
    /\ kv03' = [kv03 EXCEPT ![d.node][d.ino] = 0]
    /\ inodes_to_update' = [inodes_to_update EXCEPT ![d.node] = @ \cup {d.ino}]
    /\ doctors' = doctors \ {d}
    /\ waiting' = [waiting EXCEPT ![d.node] = @ \ {d.ino}]
    /\ UNCHANGED <<clock, last_inode_rev, list_ready, is_ready, gets, puts, deletes,
                   objects, notes, listing, used>>

\* The same without data: the revision before that one is next.
DoctorRetries(d) ==
    /\ d \in doctors /\ d.stage = "get"
    /\ Found(d.ino, Latest(d.revs)) = {}
    /\ LET left == d.revs \ {Latest(d.revs)}
       IN  IF left = {}
           THEN DoctorFails(d)
           ELSE /\ doctors' = (doctors \ {d}) \cup {[d EXCEPT !.revs = left]}
                /\ UNCHANGED waiting
    /\ UNCHANGED <<clock, last_inode_rev, kv01, kv03, list_ready, is_ready,
                   inodes_to_update, gets, puts, deletes, objects, notes, listing, used>>

-----------------------------------------------------------------------------

\* storeIsReady: the list is there.  Without a root directory the file
\* system is formatted; then the root is downloaded, whether or not there is
\* a copy, and nothing is registered in inode_download_callback.
StoreReady(n) ==
    /\ list_ready[n] /\ ~is_ready[n]
    /\ is_ready' = [is_ready EXCEPT ![n] = TRUE]
    /\ IF Root \notin Inodes
       THEN UNCHANGED <<kv01, kv03, inodes_to_update, gets>>
       ELSE /\ IF Has(n, Root)
               THEN UNCHANGED <<kv01, kv03, inodes_to_update>>
               ELSE /\ kv01' = [kv01 EXCEPT ![n][Root] = Over(@, {})]
                    /\ kv03' = [kv03 EXCEPT ![n][Root] = 0]
                    /\ inodes_to_update' = [inodes_to_update EXCEPT ![n] = @ \cup {Root}]
            /\ gets' = IF Root \in waiting[n] THEN gets
                       ELSE gets \cup {[node |-> n, ino |-> Root, rev |-> kv03'[n][Root]]}
    /\ UNCHANGED <<clock, last_inode_rev, list_ready, waiting, doctors, puts, deletes,
                   objects, notes, listing, used>>

CanEdit(n, i) ==
    /\ is_ready[n] /\ Has(n, i) /\ Local(n, i)
    /\ used.edits < MaxEdits

\* Slip: the inode is not marked for upload.
ChangeUnmarked(n, i, body) ==
    /\ kv01' = [kv01 EXCEPT ![n][i] = body]
    /\ used' = [used EXCEPT !.edits = @ + 1]
    /\ UNCHANGED inodes_to_update

\* An entry is added or removed (setInodeMeta, removeInodeMeta).
Change(n, i, body) ==
    /\ kv01' = [kv01 EXCEPT ![n][i] = body]
    /\ inodes_to_update' = [inodes_to_update EXCEPT ![n] = @ \cup {i}]
    /\ used' = [used EXCEPT !.edits = @ + 1]

Edited(n, i) ==
    {kv01[n][i] \cup {e} : e \in Entries} \cup {kv01[n][i] \ {e} : e \in Entries}

\* A request that changes the directory and stores its inode: the revision
\* becomes 0 until the upload.
EditInode(n, i) ==
    /\ CanEdit(n, i)
    /\ \E body \in Edited(n, i) : Change(n, i, body)
    /\ kv03' = [kv03 EXCEPT ![n][i] = 0]
    /\ UNCHANGED <<clock, last_inode_rev, list_ready, is_ready, waiting, wireVars,
                   objects, notes, listing>>

\* One that changes entries only: rename within its short path, lookup of an
\* entry whose inode is unknown.
EditMeta(n, i) ==
    /\ CanEdit(n, i)
    /\ \E body \in Edited(n, i) : Change(n, i, body)
    /\ UNCHANGED <<clock, last_inode_rev, kv03, list_ready, is_ready, waiting, wireVars,
                   objects, notes, listing>>

\* mkdir, symlink, create: a new inode, with a number never used before.
CreateInode(n, i) ==
    /\ is_ready[n]
    /\ i \notin used.created /\ i # Root
    /\ kv01' = [kv01 EXCEPT ![n][i] = {}]
    /\ kv03' = [kv03 EXCEPT ![n][i] = 0]
    /\ inodes_to_update' = [inodes_to_update EXCEPT ![n] = @ \cup {i}]
    /\ used' = [used EXCEPT !.created = @ \cup {i}]
    /\ UNCHANGED <<clock, last_inode_rev, list_ready, is_ready, waiting, wireVars,
                   objects, notes, listing>>

\* Slip: the revision is forgotten before it is read.
DestroyForgotten(n, i) ==
    /\ is_ready[n] /\ Has(n, i) /\ Local(n, i) /\ i # Root
    /\ used.faults < MaxFaults
    /\ used' = [used EXCEPT !.faults = @ + 1]
    /\ kv03' = [kv03 EXCEPT ![n][i] = NoRev]
    /\ deletes' = deletes \cup {[node |-> n, ino |-> i, rev |-> kv03'[n][i]]}
    /\ UNCHANGED <<clock, last_inode_rev, kv01, list_ready, is_ready, inodes_to_update,
                   waiting, gets, doctors, puts, objects, notes, listing>>

\* destroyInode, which fsck calls for an orphan it has loaded: forget the
\* revision and delete that one object.  The copy stays in the database, and
\* in the list of inodes to upload if it is there.
DestroyInode(n, i) ==
    /\ is_ready[n] /\ Has(n, i) /\ Local(n, i) /\ i # Root
    /\ used.faults < MaxFaults
    /\ used' = [used EXCEPT !.faults = @ + 1]
    /\ deletes' = deletes \cup {[node |-> n, ino |-> i, rev |-> kv03[n][i]]}
    /\ kv03' = [kv03 EXCEPT ![n][i] = NoRev]
    /\ UNCHANGED <<clock, last_inode_rev, kv01, list_ready, is_ready, inodes_to_update,
                   waiting, gets, doctors, puts, objects, notes, listing>>

(***************************************************************************)
(* updateInodes: every marked inode there is a copy of is uploaded under a *)
(* revision of its own, in the order of a hash set.  (The clock does not   *)
(* move within the step, so the revisions are 100 apart.)                  *)
(***************************************************************************)
First(n) == Stamp(Epoch + clock[n], NodeId[n], last_inode_rev[n])

Uploads(n, todo, rank) == [i \in todo |-> First(n) + 100 * rank[i]]

UpdateInodes(n) ==
    LET todo == {i \in inodes_to_update[n] : Local(n, i)}
        count == Cardinality(todo)
    IN  /\ inodes_to_update[n] # {}
        /\ \E rank \in [todo -> 0 .. count - 1] :
              /\ \A i, j \in todo : rank[i] = rank[j] => i = j
              /\ LET revs == Uploads(n, todo, rank)
                 IN  /\ puts' = puts \cup {[node |-> n, ino |-> i, rev |-> revs[i],
                                            body |-> kv01[n][i]] : i \in todo}
                     /\ kv03' = [kv03 EXCEPT ![n] =
                                    [i \in Inodes |-> IF i \in todo THEN revs[i] ELSE @[i]]]
                     /\ last_inode_rev' = [last_inode_rev EXCEPT ![n] =
                            IF todo = {} THEN @ ELSE First(n) + 100 * (count - 1)]
        /\ inodes_to_update' = [inodes_to_update EXCEPT ![n] = {}]
        /\ UNCHANGED <<clock, kv01, list_ready, is_ready, waiting, gets, doctors, deletes,
                       objects, notes, listing, used>>

-----------------------------------------------------------------------------

\* S3 stores an upload and SNS tells every subscribed node, the author too.
PutDone(p) ==
    /\ p \in puts
    /\ puts' = puts \ {p}
    /\ objects' = (objects \ Found(p.ino, p.rev)) \cup
                     {[ino |-> p.ino, rev |-> p.rev, body |-> p.body]}
    /\ notes' = [n \in Nodes |->
                    IF n \in Subscribed THEN notes[n] \cup {[ino |-> p.ino, rev |-> p.rev]}
                    ELSE notes[n]]
    /\ UNCHANGED <<nodeVars, gets, doctors, deletes, listing, used>>

DeleteDone(d) ==
    /\ d \in deletes
    /\ deletes' = deletes \ {d}
    /\ objects' = objects \ Found(d.ino, d.rev)
    /\ UNCHANGED <<nodeVars, gets, doctors, puts, notes, listing, used>>

Others(n, wire) == {x \in wire : x.node # n}

\* The process of node n dies and is started again, some milliseconds later.
\* What it had queued for S3 is lost.
Crash(n) ==
    /\ used.faults < MaxFaults
    /\ used' = [used EXCEPT !.faults = @ + 1]
    /\ clock' = [clock EXCEPT ![n] = @ + 1]
    /\ last_inode_rev' = [last_inode_rev EXCEPT ![n] = 0]
    /\ is_ready' = [is_ready EXCEPT ![n] = FALSE]
    /\ inodes_to_update' = [inodes_to_update EXCEPT ![n] = {}]
    /\ waiting' = [waiting EXCEPT ![n] = {}]
    /\ gets' = Others(n, gets) /\ doctors' = Others(n, doctors)
    /\ puts' = Others(n, puts) /\ deletes' = Others(n, deletes)
    /\ listing' = [listing EXCEPT ![n] = FreshListing]
    /\ UNCHANGED <<kv01, kv03, list_ready, objects, notes>>

S3Answers ==
    \/ \E g \in gets : ReceiveInode(g) \/ ReceiveNothing(g)
    \/ \E d \in doctors : DoctorList(d) \/ DoctorHeals(d) \/ DoctorRetries(d)
    \/ \E p \in puts : PutDone(p)
    \/ \E d \in deletes : DeleteDone(d)

Next ==
    \/ \E n \in Nodes :
        \/ Tick(n) \/ ListAnswer(n) \/ ListReceive(n)
        \/ \E x \in notes[n], again \in BOOLEAN : Notify(n, x, again)
        \/ StoreReady(n) \/ UpdateInodes(n) \/ Crash(n)
        \/ \E i \in Inodes :
            \/ NeedInode(n, i) \/ EditInode(n, i) \/ EditMeta(n, i)
            \/ CreateInode(n, i) \/ DestroyInode(n, i)
    \/ S3Answers

(***************************************************************************)
(* Timers fire, requests to S3 are answered in the end (AwsQueue), and SQS *)
(* gives up redelivering.  Time does not stop.  Nobody has to edit, look   *)
(* at or create anything.                                                  *)
(***************************************************************************)
Fairness ==
    /\ WF_vars(\E n \in Nodes : Tick(n))
    /\ \A n \in Nodes : /\ WF_vars(ListAnswer(n) \/ ListReceive(n))
                        /\ WF_vars(StoreReady(n) \/ UpdateInodes(n))
                        /\ WF_vars(\E x \in notes[n] : Notify(n, x, FALSE))
    /\ WF_vars(S3Answers)

Safety == Init /\ [][Next]_vars

Spec == Safety /\ Fairness

-----------------------------------------------------------------------------

(***************************************************************************)
(* An inode marked for upload has a copy to upload: sendInodeToAws never   *)
(* returns early and drops an edit, whatever a node hears in between.      *)
(***************************************************************************)
PendingIsLocal ==
    \A n \in Nodes : \A i \in inodes_to_update[n] : Local(n, i)

(***************************************************************************)
(* A request that waits for an inode waits for something: a download or a  *)
(* doctor for that inode is under way on its node.                         *)
(***************************************************************************)
WaitersHaveFetch ==
    \A n \in Nodes : \A i \in waiting[n] :
        \E x \in gets \cup doctors : x.node = n /\ x.ino = i

(***************************************************************************)
(* An object on S3 never changes: no node, restarted or with its clock     *)
(* behind, uploads under a revision that was used before.  Nodes compare   *)
(* revisions only, so they would never notice.                             *)
(***************************************************************************)
RevisionsImmutable ==
    [][\A o \in objects, p \in objects' :
          o.ino = p.ino /\ o.rev = p.rev => o.body = p.body]_vars

Written(i) == {[rev |-> o.rev, body |-> o.body] : o \in {x \in objects \cup puts : x.ino = i}}

(***************************************************************************)
(* What a node holds of an inode and is not about to upload is the whole   *)
(* content of one revision, uploaded or on its way, and no newer than the  *)
(* revision it knows: never a mixture of two, never an edit that will not  *)
(* reach S3.  (Not of the root directory, whose start-up download is not   *)
(* registered, and not across crashes or fsck.)                            *)
(***************************************************************************)
CopyIsARevision ==
    \A n \in Nodes : \A i \in Inodes \ (inodes_to_update[n] \cup {Root}) :
        Local(n, i) => \E w \in Written(i) : w.body = kv01[n][i] /\ w.rev <= kv03[n][i]

(***************************************************************************)
(* The revision a node knows exists, or is the one it is about to write:   *)
(* a download under that name finds it, now or once the upload is done.    *)
(***************************************************************************)
KnownRevisionExists ==
    \A n \in Nodes : \A i \in Inodes \ inodes_to_update[n] :
        Has(n, i) => \E w \in Written(i) : w.rev = kv03[n][i]

(***************************************************************************)
(* Once nobody edits any more, every node gets to know the highest         *)
(* revision of every inode and keeps knowing it, however far the clocks    *)
(* are apart, provided it lists the bucket from time to time.              *)
(***************************************************************************)
AllKnowLatest ==
    <>[](\A n \in Nodes, i \in Inodes : kv03[n][i] = Latest(RevsIn(i, objects)))

\* A request that waits for an inode is answered.
WaitersAnswered ==
    \A n \in Nodes, i \in Inodes : i \in waiting[n] ~> i \notin waiting[n]
=============================================================================

----------------------------- MODULE FuseRequests -----------------------------
(***************************************************************************)
(* The life of a kernel request in one process: the fuse thread makes an   *)
(* object of it (QtFuse, QtFuseRequest) and posts it to the main loop      *)
(* (S3Fuse), where a handler of S3FS answers it or leaves it in the hands  *)
(* of others until something it needs is there, and then runs again from   *)
(* its first line.                                                         *)
(*                                                                         *)
(* Three hold a request that waits: the signal ready of S3FS, its signal   *)
(* loadReduced, and the list of those who wait for the download of an      *)
(* inode.  A list is taken when the download ends; a connection to a       *)
(* signal stays until the object is deleted, and one made twice triggers   *)
(* twice.  An object is deleted some turns of the main loop after its      *)
(* answer.  Lists hold plain pointers, not objects.                        *)
(*                                                                         *)
(* Left open: in which order the requests of a list, of a signal or of the *)
(* event queue have their turn.  Waiting for blocks is in BlockFile.       *)
(***************************************************************************)
EXTENDS Integers, Sequences

CONSTANTS Requests,
          Inodes, Root,
          Needs,         \* the inodes a handler looks at, in its order
          Instant,       \* answered whatever the state (flush, release)
          Direct,        \* answered on the fuse thread (getxattr, whatever
                         \* S3Fuse does not implement)
          Nobody,        \* stands for "no request"
          MaxOverloads, MaxDrops   \* bounds

ASSUME FuseAssumption ==
    /\ Root \in Inodes
    /\ Needs \in [Requests -> Seq(Inodes)]
    /\ Instant \subseteq Requests /\ Direct \subseteq Requests
    /\ Nobody \notin Requests
    /\ MaxOverloads \in Nat /\ MaxDrops \in Nat

VARIABLES stage,          \* where the object of each request is
          thread,         \* the request the fuse thread is answering
          is_ready, is_overloaded,
          local,          \* inodes with a copy in the database
          broken,         \* inodes S3 has nothing of
          gets,           \* downloads of each inode under way
          waits,          \* inode_download_callback: how often each request
                          \* is in the list of each inode
          ready_conns,    \* connections of each request to ready()
          load_conns,     \* and to loadReduced()
          running,        \* how often the loop or the signal the main loop is
                          \* in has still to trigger each request
          prefetch,       \* storeIsReady has the root directory still to get
          overloads, drops,   \* so far
          exposed         \* for the properties: requests that lost an inode
                          \* while connected to loadReduced()

objects == <<stage, thread>>
flags == <<is_ready, is_overloaded, overloads>>
store == <<local, broken, gets, drops>>
vars == <<objects, flags, store, waits, ready_conns, load_conns, running, prefetch, exposed>>

\* "kernel": not made yet; "posted": its event is in the queue; "answered":
\* its deletion is in the queue.
Stages == {"kernel", "posted", "open", "answered", "deleted"}

Counts == [Requests -> Nat]
None == [r \in Requests |-> 0]

TypeOK ==
    /\ stage \in [Requests -> Stages]
    /\ thread \in Requests \cup {Nobody}
    /\ is_ready \in BOOLEAN /\ is_overloaded \in BOOLEAN /\ prefetch \in BOOLEAN
    /\ local \subseteq Inodes /\ broken \subseteq Inodes
    /\ gets \in [Inodes -> Nat]
    /\ waits \in [Inodes -> Counts]
    /\ ready_conns \in Counts /\ load_conns \in Counts /\ running \in Counts
    /\ overloads \in Nat /\ drops \in Nat
    /\ exposed \subseteq Requests

\* The process has started; the database has kept some inodes.
Init ==
    /\ stage = [r \in Requests |-> "kernel"] /\ thread = Nobody
    /\ is_ready = FALSE /\ is_overloaded = FALSE /\ prefetch = FALSE
    /\ local \in SUBSET Inodes
    /\ broken \in SUBSET (Inodes \ local)
    /\ gets = [i \in Inodes |-> 0]
    /\ waits = [i \in Inodes |-> None]
    /\ ready_conns = None /\ load_conns = None /\ running = None
    /\ overloads = 0 /\ drops = 0
    /\ exposed = {}

\* One more of r in a list or among connections.
Plus(count, r) == [count EXCEPT ![r] = @ + 1]

Listed(i) == \E r \in Requests : waits[i][r] > 0

\* The main loop is in the middle of a handler.
Busy == prefetch \/ \E r \in Requests : running[r] > 0

-----------------------------------------------------------------------------

\* The kernel's request is made an object and posted to the main loop.
Issue(r) ==
    /\ thread = Nobody
    /\ r \notin Direct /\ stage[r] = "kernel"
    /\ stage' = [stage EXCEPT ![r] = "posted"]
    /\ UNCHANGED <<thread, flags, store, waits, ready_conns, load_conns, running, prefetch,
                   exposed>>

\* One the fuse thread answers itself: the object belongs to the main loop,
\* and its deletion is posted before the reply is sent.
IssueDirect(r) ==
    /\ thread = Nobody
    /\ r \in Direct /\ stage[r] = "kernel"
    /\ stage' = [stage EXCEPT ![r] = "answered"]
    /\ thread' = r
    /\ UNCHANGED <<flags, store, waits, ready_conns, load_conns, running, prefetch, exposed>>

\* fuse_reply_*, with the handle the object keeps.
ReplyDirect ==
    /\ thread # Nobody
    /\ thread' = Nobody
    /\ UNCHANGED <<stage, flags, store, waits, ready_conns, load_conns, running, prefetch,
                   exposed>>

-----------------------------------------------------------------------------

\* Slip: the object is deleted by its answer.
DeletedAtOnce(R) ==
    stage' = [r \in Requests |-> IF r \in R /\ stage[r] = "open" THEN "deleted" ELSE stage[r]]

\* The requests R are answered.  CHECK_ANSWER: all but the first answer of a
\* request is ignored.
Answer(R) ==
    stage' = [r \in Requests |-> IF r \in R /\ stage[r] = "open" THEN "answered" ELSE stage[r]]

\* Slip: a request that finds a list is not added to it.
ListsFirst(i, r) ==
    waits' = IF Listed(i) THEN waits ELSE [waits EXCEPT ![i] = Plus(@, r)]

AddToList(i, r) == waits' = [waits EXCEPT ![i] = Plus(@, r)]

\* A download is asked for; the queue of S3FS_Aws may be over its limit.
AskFor(i) ==
    /\ gets' = [gets EXCEPT ![i] = @ + 1]
    /\ \E high \in BOOLEAN :
          /\ high => overloads < MaxOverloads
          /\ is_overloaded' = (is_overloaded \/ high)
          /\ overloads' = IF high THEN overloads + 1 ELSE overloads
    /\ UNCHANGED <<is_ready, local, broken, drops>>

\* callbackOnInodeCached: one download for all who wait.
CallbackOnInodeCached(i, r) ==
    /\ AddToList(i, r)
    /\ IF Listed(i) THEN UNCHANGED <<flags, store>> ELSE AskFor(i)

Missing(r) == {k \in DOMAIN Needs[r] : Needs[r][k] \notin local}

\* A handler, from its first line: WAIT_READY, GET_INODE for each inode it
\* needs, the answer.  It runs to its end also when it has answered before.
Run(r) ==
    IF r \in Instant
    THEN Answer({r}) /\ UNCHANGED <<flags, store, waits, ready_conns, load_conns>>
    ELSE IF ~is_ready
    THEN /\ ready_conns' = Plus(ready_conns, r)
         /\ UNCHANGED <<flags, store, waits, load_conns, stage>>
    ELSE IF is_overloaded
    THEN /\ load_conns' = Plus(load_conns, r)
         /\ UNCHANGED <<flags, store, waits, ready_conns, stage>>
    ELSE IF Missing(r) = {}
    THEN Answer({r}) /\ UNCHANGED <<flags, store, waits, ready_conns, load_conns>>
    ELSE /\ \E k \in Missing(r) :
               /\ \A m \in Missing(r) : k <= m
               /\ CallbackOnInodeCached(Needs[r][k], r)
         /\ UNCHANGED <<ready_conns, load_conns, stage>>

\* customEvent: the main loop takes the posted event.
Begin(r) ==
    /\ ~Busy
    /\ stage[r] = "posted"
    /\ stage' = [stage EXCEPT ![r] = "open"]
    /\ running' = Plus(running, r)
    /\ UNCHANGED <<thread, flags, store, waits, ready_conns, load_conns, prefetch, exposed>>

\* trigger(), of the event, of a signal or from a list.
Trigger(r) ==
    /\ running[r] > 0
    /\ Run(r)
    /\ running' = [running EXCEPT ![r] = @ - 1]
    /\ UNCHANGED <<thread, prefetch, exposed>>

\* The zero timer of CHECK_ANSWER has called deleteLater and the deletion was
\* posted and taken in turn.  With the object go its connections.
Delete(r) ==
    /\ ~Busy
    /\ stage[r] = "answered"
    /\ stage' = [stage EXCEPT ![r] = "deleted"]
    /\ ready_conns' = [ready_conns EXCEPT ![r] = 0]
    /\ load_conns' = [load_conns EXCEPT ![r] = 0]
    /\ UNCHANGED <<thread, flags, store, waits, running, prefetch, exposed>>

-----------------------------------------------------------------------------

\* storeIsReady: ready() triggers every connection there is, then the root
\* directory is asked for.
StoreIsReady ==
    /\ ~Busy /\ ~is_ready
    /\ is_ready' = TRUE
    /\ running' = ready_conns
    /\ prefetch' = TRUE
    /\ UNCHANGED <<objects, is_overloaded, overloads, store, waits, ready_conns, load_conns,
                   exposed>>

\* callbackOnInodeCached(1, NULL): nobody is added to a list.
Prefetch ==
    /\ prefetch /\ running = None
    /\ prefetch' = FALSE
    /\ IF Listed(Root) THEN UNCHANGED <<flags, store>> ELSE AskFor(Root)
    /\ UNCHANGED <<objects, waits, ready_conns, load_conns, running, exposed>>

\* setOverload(true), when something other than a handler queues a request.
Overload ==
    /\ ~Busy /\ ~is_overloaded
    /\ overloads < MaxOverloads
    /\ is_overloaded' = TRUE /\ overloads' = overloads + 1
    /\ UNCHANGED <<objects, is_ready, store, waits, ready_conns, load_conns, running, prefetch,
                   exposed>>

\* Slip: the waiting requests are not told.
LoadReducedQuietly == None

\* The connections loadReduced() triggers.
ToldOfLoad == load_conns

\* setOverload(false).
LoadReduced ==
    /\ ~Busy /\ is_overloaded
    /\ is_overloaded' = FALSE
    /\ running' = ToldOfLoad
    /\ UNCHANGED <<objects, is_ready, overloads, store, waits, ready_conns, load_conns, prefetch,
                   exposed>>

\* Slip: the list is read, not taken.
ListKept(i) == waits

\* take(i)
Taken(i) == [waits EXCEPT ![i] = None]

\* Slip: a download ends twice.
EndsTwice(i) == [gets EXCEPT ![i] = @ - 2]

Ended(i) == [gets EXCEPT ![i] = @ - 1]

\* receivedInode, or the doctor that found another revision.
ReceivedInode(i) ==
    /\ ~Busy
    /\ gets[i] > 0 /\ i \notin broken
    /\ local' = local \cup {i}
    /\ gets' = Ended(i)
    /\ running' = waits[i]
    /\ waits' = Taken(i)
    /\ UNCHANGED <<objects, flags, broken, drops, ready_conns, load_conns, prefetch, exposed>>

\* Those that need the inode i and that loadReduced() can still trigger.
Exposed(i) == {r \in Requests : load_conns[r] > 0 /\ \E k \in DOMAIN Needs[r] : Needs[r][k] = i}

\* Slip: the list is dropped.
NobodyTold(i) == UNCHANGED stage

\* Everybody in the list is answered EIO.
AllTold(i) == Answer({r \in Requests : waits[i][r] > 0})

\* The doctor gives up.
DoctorFailed(i) ==
    /\ ~Busy
    /\ gets[i] > 0 /\ i \in broken
    /\ gets' = Ended(i)
    /\ AllTold(i)
    /\ waits' = Taken(i)
    /\ exposed' = exposed \cup Exposed(i)
    /\ UNCHANGED <<thread, flags, local, broken, drops, ready_conns, load_conns, running, prefetch>>

\* learnFile drops the copy of an inode another node has changed.
DropCopy(i) ==
    /\ ~Busy
    /\ i \in local
    /\ drops < MaxDrops
    /\ local' = local \ {i}
    /\ drops' = drops + 1
    /\ exposed' = exposed \cup Exposed(i)
    /\ UNCHANGED <<objects, flags, broken, gets, waits, ready_conns, load_conns, running, prefetch>>

\* The fuse thread takes one request after the other from the kernel.
FuseThread(r) == Issue(r) \/ IssueDirect(r)

MainLoop(r) == Begin(r) \/ Trigger(r) \/ Delete(r)

Download(i) == ReceivedInode(i) \/ DoctorFailed(i)

Next ==
    \/ \E r \in Requests : FuseThread(r) \/ MainLoop(r)
    \/ ReplyDirect
    \/ StoreIsReady \/ Prefetch \/ Overload \/ LoadReduced
    \/ \E i \in Inodes : Download(i) \/ DropCopy(i)

(***************************************************************************)
(* The main loop gets to every event and goes on with what it is doing;    *)
(* the store becomes ready, downloads end and the load is reduced again    *)
(* (InodeStore, AwsQueue).  The kernel need not ask for anything.          *)
(***************************************************************************)
Fairness ==
    /\ \A r \in Requests : WF_vars(MainLoop(r))
    /\ WF_vars(ReplyDirect)
    /\ WF_vars(StoreIsReady) /\ WF_vars(Prefetch) /\ WF_vars(LoadReduced)
    /\ \A i \in Inodes : WF_vars(Download(i))

Spec == Init /\ [][Next]_vars /\ Fairness

-----------------------------------------------------------------------------

(***************************************************************************)
(* What holds a plain pointer to a request, a list or the loop over one    *)
(* that was taken, holds one to an object that is not deleted, although a  *)
(* request can be there twice and be answered the first time.  Except for  *)
(* one that was connected to loadReduced() when an inode it needs went: a  *)
(* signal then puts it into a list although it is answered.                *)
(***************************************************************************)
Live(r) == stage[r] \notin {"kernel", "deleted"}

Held(r) == running[r] > 0 \/ \E i \in Inodes : waits[i][r] > 0

NoDanglingCallback == \A r \in Requests \ exposed : Held(r) => Live(r)

(***************************************************************************)
(* A request that has been answered is in no list, with the same           *)
(* exception: however often signals triggered it while it waited, its      *)
(* answer comes after its last wait.                                       *)
(***************************************************************************)
Answered(r) == stage[r] \in {"answered", "deleted"}

AnsweredWaitsNowhere ==
    \A r \in Requests \ exposed, i \in Inodes : Answered(r) => waits[i][r] = 0

(***************************************************************************)
(* An unanswered request is never forgotten: it is about to run, or waits  *)
(* in a list whose inode is being downloaded, or is connected to a signal  *)
(* that is still to come.                                                  *)
(***************************************************************************)
NobodyForgotten ==
    \A r \in Requests : stage[r] = "open" =>
        \/ running[r] > 0
        \/ \E i \in Inodes : waits[i][r] > 0 /\ gets[i] > 0
        \/ ready_conns[r] > 0 /\ ~is_ready
        \/ load_conns[r] > 0 /\ is_overloaded

(***************************************************************************)
(* "Qt event loop with thread-safe FUSE integration" (README.md): the      *)
(* object whose handle the fuse thread replies with is still there.  The   *)
(* main loop may delete it between the posting of its deletion and the     *)
(* reply.                                                                  *)
(***************************************************************************)
RepliesFromLiveRequest == thread # Nobody => stage[thread] # "deleted"

(***************************************************************************)
(* Every request the kernel makes is answered, or the process is about to  *)
(* call an object that was deleted, after which it may do anything.        *)
(***************************************************************************)
EveryRequestAnswered ==
    \A r \in Requests : stage[r] # "kernel" ~>
        Answered(r) \/ \E q \in Requests : running[q] > 0 /\ stage[q] = "deleted"
===============================================================================

---------------------------- MODULE FsckInvariant ----------------------------
(***************************************************************************)
(* Why fsck and the requests lose nothing: the inductive invariant of      *)
(* FsckSpec.  It says, besides types, what every write still to be made    *)
(* relies on; that what is not known has no names in it; how far the walk  *)
(* of fsck has come; and that the running handler either adds to the tree, *)
(* or removes leaves from it, or moves a part of it.                       *)
(* Two more invariants rest on it: what the walk has left behind, and that *)
(* directories have one name.                                              *)
(***************************************************************************)
EXTENDS Fsck

Elements(s) == {s[j] : j \in DOMAIN s}

\* The elements of a sequence, each with those before it.
Before(s, j) == {s[l] : l \in 1 .. j - 1}
Placed(s) == {<<Before(s, j), s[j]>> : j \in 1 .. Len(s)}

-----------------------------------------------------------------------------
(***************************************************************************)
(* Graphs: what can be reached from a set is the least closed set above it.*)
(***************************************************************************)
Graphs == [Inodes -> SUBSET Inodes]

Closed(g, T) == \A d \in T : g[d] \subseteq T

Reach(g, S) ==
    {i \in Inodes : \A T \in SUBSET Inodes : S \subseteq T /\ Closed(g, T) => i \in T}

-----------------------------------------------------------------------------
(***************************************************************************)
(* The types.  A handler's writes are typed in their order: a write relies *)
(* on what is there or on one before it.                                   *)
(***************************************************************************)
WriteKeys == Keys \cup Names \cup Kinds \cup {"", "block", "target"}

Writes == [what : {"data", "rev", "set", "remove", "destroy", "grant"},
           ino : Inodes, key : WriteKeys, to : Inodes \cup {NoInode}]

DataOf(i, k) == WriteOf("data", i, k, NoInode)
Rev(i) == WriteOf("rev", i, "", NoInode)

\* The inode i is of kind k when the writes in `done' are.
WillBe(done, i, k) == kind[i] = k \/ DataOf(i, k) \in done
WillExist(done, i) == \E k \in Kinds \ {"none"} : WillBe(done, i, k)

TypedData(done, w) ==
    /\ w = DataOf(w.ino, w.key) /\ w.key \in Kinds \ {"none"}
    /\ kind[w.ino] = "none" /\ w.ino \notin Foreign /\ w.ino <= last_inode
    /\ \A b \in done : b.ino # w.ino /\ b.to # w.ino

TypedEntry(done, w) ==
    /\ WillBe(done, w.ino, "dir")
    /\ w.key \in Keys
    /\ w.to \in Inodes /\ WillExist(done, w.to)
    /\ w.key = "lost+found" => WillBe(done, w.to, "dir")

TypedContent(done, w) ==
    /\ WillBe(done, w.ino, "file") \/ WillBe(done, w.ino, "link")
    /\ w.to = NoInode

Typed(done, w) ==
    /\ w.what = "data" => TypedData(done, w)
    /\ w.what = "rev" => WillExist(done, w.ino)
    /\ w.what = "set" => TypedEntry(done, w) \/ TypedContent(done, w)

TypedTodo == \A p \in Placed(todo) : Typed(p[1], p[2])

LostFoundIsDir ==
    "lost+found" \in DOMAIN meta[Root] => kind[meta[Root]["lost+found"]] = "dir"

DirKeys == \A d \in Inodes : kind[d] = "dir" => DOMAIN meta[d] \subseteq Keys

\* FsckTypeOK but for the history.
FsckTypes ==
    /\ TypeOK
    /\ status \in 1 .. Idle
    /\ scan_inode \in Inodes /\ fsck_ino \in Inodes
    /\ scan_inode_queue \in Seq(Inodes)
    /\ known_inodes \subseteq Inodes
    /\ fsck_ino_max \in 0 .. MaxInode
    /\ fscks \in 0 .. MaxFscks

TypeInv ==
    /\ FsckTypes
    /\ DOMAIN meta = Inodes
    /\ todo \in Seq(Writes) /\ TypedTodo
    /\ kind[Root] = "dir"
    /\ \A i \in Inodes : i > last_inode => kind[i] = "none"
    /\ \A i \in Foreign : i <= last_inode /\ kind[i] \in {"none", "file"}
    /\ LostFoundIsDir /\ DirKeys
    /\ status # Idle => WillBe(Elements(todo), fsck_ino, "dir")

-----------------------------------------------------------------------------
(***************************************************************************)
(* The tree.                                                               *)
(***************************************************************************)
R == Reach(Kids, {Root})

\* The entry n of d leads to i.
Leads(d, n, i) == kind[d] = "dir" /\ n \in NamesIn(d) /\ meta[d][n] = i

Removes(d, n) == removeInodeMeta(d, n) \in Elements(todo)

OrphanNamesGiven ==
    \A d, i \in Inodes : kind[d] = "dir" /\ OrphanName[i] \in DOMAIN meta[d] => i <= last_inode

(***************************************************************************)
(* What is owed and known can be reached; what is not known has no keys,   *)
(* so that nothing is lost with it.                                        *)
(***************************************************************************)
TreeInv ==
    /\ Root \in known
    /\ \A i \in Inodes \ known : DOMAIN meta[i] = {}
    /\ \A i \in owed : kind[i] # "none"
    /\ \A i \in remote : kind[i] = "none"
    /\ owed \cap known \subseteq R
    /\ owed \ known # {} => fscks > 0
    /\ OrphanNamesGiven

Walking == status \in {1, 2}

\* The directory for orphans is a new one, and no orphan is in it yet.
WalkInv ==
    /\ Root \in known_inodes
    /\ fsck_ino_max < fsck_ino /\ fsck_ino <= last_inode
    /\ fsck_ino \in known \/ Rev(fsck_ino) \in Elements(todo)
    /\ \A i \in Inodes : OrphanName[i] \notin DOMAIN meta[fsck_ino]

-----------------------------------------------------------------------------
(***************************************************************************)
(* What is still to be written.                                            *)
(***************************************************************************)
WillBeKnown(done, i) == i \in known \/ Rev(i) \in done

IsName(w) == w.what = "set" /\ w.key \notin Dots /\ w.to # NoInode

GivesName(w, i) == IsName(w) /\ w.to = i /\ w.ino \in R /\ kind[w.ino] = "dir"

SoundName(w) ==
    \A i \in Inodes : w.key = OrphanName[i] => i <= last_inode /\ (Walking => w.ino # fsck_ino)

SoundRev(w) == w.ino \in owed => w.ino \in known

SoundSet(done, w) == WillBeKnown(done, w.ino) /\ (IsName(w) => SoundName(w))

SoundGrant(done, w) ==
    /\ WillBeKnown(done, w.ino)
    /\ w.ino \in R \/ \E b \in done : GivesName(b, w.ino)

SoundDestroy(w) ==
    /\ w = destroyInode(w.ino)
    /\ ~ Walking /\ fscks > 0
    /\ w.ino # Root /\ DOMAIN meta[w.ino] = {}
    /\ \A b \in Elements(todo) : b.ino = w.ino => b = w

Sound(done, w) ==
    /\ w.what = "rev" => SoundRev(w)
    /\ w.what = "set" => SoundSet(done, w)
    /\ w.what = "grant" => SoundGrant(done, w)
    /\ w.what = "destroy" => SoundDestroy(w)

SoundTodo == \A p \in Placed(todo) : Sound(p[1], p[2])

(***************************************************************************)
(* A handler only adds to the tree, or only removes, and what is owed can  *)
(* be reached without what it removes, or it moves one name.               *)
(***************************************************************************)
Growing ==
    \A b \in Elements(todo) :
        /\ b.what # "remove"
        /\ IsName(b) =>
              /\ \A i \in Inodes : Leads(b.ino, b.key, i) => i = b.to
              /\ \A c \in Elements(todo) :
                    IsName(c) /\ c.ino = b.ino /\ c.key = b.key => c.to = b.to

\* The names that stay, as a graph.
Left ==
    [d \in Inodes |-> {i \in Inodes : \E n \in Keys : Leads(d, n, i) /\ ~ Removes(d, n)}]

Removing ==
    /\ \A b \in Elements(todo) : b = removeInodeMeta(b.ino, b.key)
    /\ owed \cap known \subseteq Reach(Left, {Root})

\* The graph when the name n of p is the name m of q.
MovedGraph(p, n, q, m, i) ==
    [d \in Inodes |->
        {c \in Inodes : \/ d = q /\ c = i
                        \/ \E k \in Keys : /\ Leads(d, k, c)
                                           /\ ~ (d = p /\ k = n) /\ ~ (d = q /\ k = m)}]

Moves(p, n, q, m, i) ==
    /\ todo = <<setInodeMeta(q, m, i), removeInodeMeta(p, n)>>
    /\ Leads(p, n, i) /\ kind[q] = "dir" /\ ~ (p = q /\ n = m)
    /\ owed \cap known \subseteq Reach(MovedGraph(p, n, q, m, i), {Root})

Moving == \E p, q, i \in Inodes : \E n \in Keys, m \in Names : Moves(p, n, q, m, i)

FsckInv ==
    /\ TypeInv
    /\ TreeInv
    /\ Walking => WalkInv
    /\ status # Idle => fscks > 0
    /\ SoundTodo
    /\ Growing \/ Removing \/ Moving

-----------------------------------------------------------------------------
(***************************************************************************)
(* What fsck walks past.  Below what the walk has left behind, and below   *)
(* what is new, there is nothing that is known and old but what the walk   *)
(* has come to and what was moved; nor is any such name still to be        *)
(* written, or such an inode to become known.                              *)
(***************************************************************************)
\* Part of the walk has still to be done below these.
Waiting == IF status = 1 THEN {scan_inode} \cup Elements(scan_inode_queue) ELSE {}

Walked ==
    /\ \A d \in known_inodes \ Waiting : \A c \in Kids[d] :
          c \in known /\ c <= fsck_ino_max => c \in known_inodes \cup moved
    /\ \A d \in Inodes : d > fsck_ino_max => \A c \in Kids[d] : c > fsck_ino_max \/ c \in moved
    /\ \A w \in Elements(todo) :
          /\ IsName(w) => w.to > fsck_ino_max \/ w.to \in moved
          /\ w.what = "rev" => w.ino > fsck_ino_max

WalkedInv == Walking => Walked

-----------------------------------------------------------------------------
(***************************************************************************)
(* A directory has one name, but for those that are about to go, and is    *)
(* given one only when it has no other.                                    *)
(***************************************************************************)
Stays(d, n, i) == Leads(d, n, i) /\ ~ Removes(d, n)

\* What w names has no other name then.
NamedOnce(w) ==
    /\ \A d \in Inodes : \A n \in Keys : Stays(d, n, w.to) => d = w.ino /\ n = w.key
    /\ \A b \in Elements(todo) : IsName(b) /\ b.to = w.to => b.ino = w.ino /\ b.key = w.key

OneName ==
    \A d, e, i \in Inodes : \A m, n \in Keys :
        /\ Stays(d, m, i) /\ Stays(e, n, i)
        /\ kind[i] = "dir" /\ i \notin doubled
        => d = e /\ m = n

NamesOnce ==
    \A w \in Elements(todo) :
       IsName(w) => kind[w.to] \in {"file", "link"} \/ w.to \in doubled \/ NamedOnce(w)

OneNameInv == crashes = 0 => OneName /\ NamesOnce
=============================================================================

------------------------------ MODULE Namespace ------------------------------
(***************************************************************************)
(* The directory operations of S3FS on the database of one node whose      *)
(* inodes are all local.  Of other nodes there is the one thing that       *)
(* matters to the handlers: a directory may arrive with an entry before    *)
(* this node hears of the inode it leads to.                               *)
(*                                                                         *)
(* A handler runs undisturbed by other handlers, but every key it writes   *)
(* is a transaction of LMDB: it decides on the state it finds (`todo'      *)
(* becomes the list of its writes) and then makes one write after the      *)
(* other.  The process may die between any two.                            *)
(*                                                                         *)
(* Keys of a directory are names, including . and .., with the inode they  *)
(* lead to; a file has one key per block, a symbolic link one for its      *)
(* target.  The type in an entry is that of the inode and never changes,   *)
(* nor do the attributes matter here.  Numbering is RevisionClock's        *)
(* matter, downloads and uploads are InodeStore's.                         *)
(***************************************************************************)
EXTENDS Integers, Sequences

CONSTANTS MaxInode,             \* bound: inodes are 1..MaxInode
          Names,                \* names the user gives
          InitKind, InitMeta,   \* the tree in the beginning
          Foreign,              \* inodes that other nodes will create
          MaxRequests, MaxCrashes   \* bounds; entries that arrive are requests too

Root == 1
Inodes == 1 .. MaxInode
Kinds == {"none", "dir", "file", "link"}
NoInode == 0                    \* what a block or a target "leads to"

ASSUME NamespaceAssumption ==
    /\ MaxInode \in Nat \ {0}
    /\ InitKind \in [Inodes -> Kinds] /\ InitKind[Root] = "dir"
    /\ DOMAIN InitMeta = Inodes
    /\ Foreign \subseteq {i \in Inodes : InitKind[i] = "none"}
    /\ MaxRequests \in Nat /\ MaxCrashes \in Nat

Dots == {".", ".."}

(***************************************************************************)
(* The numbers of other nodes are not those this node gives.  The tree in  *)
(* the beginning has in it all that is known, and leads nowhere else; its  *)
(* directories have one name.  The kernel does not ask for a dot to be     *)
(* made.                                                                   *)
(***************************************************************************)
ASSUME TreeAssumption ==
    /\ \A f \in Foreign : \E i \in Inodes : f < i /\ InitKind[i] # "none"
    /\ \A i \in Inodes : \A k \in DOMAIN InitMeta[i] :
          \/ /\ InitKind[i] = "dir"
             /\ InitMeta[i][k] \in Inodes /\ InitKind[InitMeta[i][k]] # "none"
          \/ InitKind[i] \in {"file", "link"} /\ InitMeta[i][k] = NoInode
    /\ \A T \in SUBSET Inodes :
          /\ Root \in T
          /\ \A d \in T : InitKind[d] = "dir" =>
                \A k \in DOMAIN InitMeta[d] \ Dots : InitMeta[d][k] \in T
          => \A i \in Inodes : InitKind[i] # "none" => i \in T
    /\ \A d, e \in Inodes :
          \A m \in DOMAIN InitMeta[d] \ Dots, n \in DOMAIN InitMeta[e] \ Dots :
             /\ InitKind[d] = "dir" /\ InitKind[e] = "dir"
             /\ InitMeta[d][m] = InitMeta[e][n] /\ InitKind[InitMeta[d][m]] = "dir"
             => d = e /\ m = n
    /\ Names \cap Dots = {}

VARIABLES kind,         \* the key \x01: the inode, here its type, or "none"
          known,        \* the inodes with a key \x03: hasInode
          meta,         \* the other keys of each inode
          todo,         \* writes of the running handler still to be made
          last_inode,
          remote,       \* inodes that have a name but are not known yet
          owed,         \* for the property: what the user may rely on
          requests, crashes

vars == <<kind, known, meta, todo, last_inode, remote, owed, requests, crashes>>

\* The entries of the inode d but the dots.
NamesIn(d) == DOMAIN meta[d] \ Dots

\* The inodes that each inode leads to by a name.
Kids == [d \in Inodes |-> IF kind[d] = "dir" THEN {meta[d][n] : n \in NamesIn(d)} ELSE {}]

\* What can be reached in the graph g from the inodes in S.
Closure(g, S) ==
    LET From[T \in SUBSET Inodes] ==
            LET further == T \cup UNION {g[d] : d \in T}
            IN  IF further = T THEN T ELSE From[further]
    IN  From[S]

Below(S) == Closure(Kids, S)

Reachable == Below({Root})

\* All names, each with the directory it is in.
AllNames ==
    UNION {{<<d, n>> : n \in NamesIn(d)} : d \in {e \in Reachable : kind[e] = "dir"}}

-----------------------------------------------------------------------------

\* The writes, one transaction each.
WriteOf(what, i, key, to) == [what |-> what, ino |-> i, key |-> key, to |-> to]

setInodeMeta(i, key, to) == WriteOf("set", i, key, to)
removeInodeMeta(i, key) == WriteOf("remove", i, key, NoInode)
storeInode(i, k) == <<WriteOf("data", i, k, NoInode), WriteOf("rev", i, "", NoInode)>>
\* An upload of i that is still due is left out: it would record a revision
\* again.
destroyInode(i) == WriteOf("destroy", i, "", NoInode)

\* No write: the request is answered and the user may rely on i.
Grant(i) == WriteOf("grant", i, "", NoInode)

\* clearInodeMeta: . and .. of an empty directory, or the block of a file.
clearInodeMeta(i) ==
    LET Clear(key) == IF key \in DOMAIN meta[i] THEN <<removeInodeMeta(i, key)>> ELSE <<>>
    IN  Clear(".") \o Clear("..") \o Clear("block")

Write ==
    /\ todo # <<>>
    /\ todo' = Tail(todo)
    /\ LET w == Head(todo)
           entries == meta[w.ino]
       IN  /\ kind' = IF w.what = "data" THEN [kind EXCEPT ![w.ino] = w.key] ELSE kind
           /\ known' = IF w.what = "rev" THEN known \cup {w.ino}
                       ELSE IF w.what = "destroy" THEN known \ {w.ino} ELSE known
           /\ meta' =
                IF w.what = "set"
                THEN [meta EXCEPT ![w.ino] =
                        [k \in DOMAIN entries \cup {w.key} |->
                            IF k = w.key THEN w.to ELSE entries[k]]]
                ELSE IF w.what = "remove"
                THEN [meta EXCEPT ![w.ino] = [k \in DOMAIN entries \ {w.key} |-> entries[k]]]
                ELSE meta
           /\ owed' = IF w.what = "grant" THEN owed \cup {w.ino} ELSE owed
    /\ UNCHANGED <<last_inode, remote, requests, crashes>>

-----------------------------------------------------------------------------

(***************************************************************************)
(* The requests.  The kernel resolves paths from the root, looks names up  *)
(* before it touches them, and checks itself that a directory is replaced  *)
(* by a directory only and never by one it holds, that none is moved below *)
(* itself, and that a name does not replace another of the same inode.     *)
(***************************************************************************)
Ready == todo = <<>> /\ requests < MaxRequests

Dirs == {d \in Reachable : kind[d] = "dir" /\ d \in known}

Handle(writes, newly_owed) ==
    /\ requests' = requests + 1
    /\ todo' = writes
    /\ owed' = newly_owed
    /\ UNCHANGED <<kind, known, meta, remote, crashes>>

\* What is still owed when the name n of the directory p goes, with all that
\* can only be reached through it.
KidsBut(p, n) == [Kids EXCEPT ![p] = {meta[p][k] : k \in NamesIn(p) \ {n}}]

Without(p, n) == owed \cap Closure(KidsBut(p, n), {Root})

\* makeInode
NewInode ==
    /\ last_inode < MaxInode
    /\ last_inode' = last_inode + 1

\* An entry that leads to an inode nobody knows is removed.
Lookup(p, n) ==
    /\ n \in NamesIn(p) /\ meta[p][n] \notin known
    /\ Handle(<<removeInodeMeta(p, n)>>, owed)
    /\ UNCHANGED last_inode

\* A file that is there is opened, or emptied (O_TRUNC).
Create(p, n) ==
    \/ /\ n \notin DOMAIN meta[p]
       /\ NewInode
       /\ Handle(storeInode(last_inode', "file") \o <<setInodeMeta(p, n, last_inode'),
                   Grant(last_inode')>>, owed)
    \/ /\ n \in DOMAIN meta[p] /\ meta[p][n] \in known /\ kind[meta[p][n]] = "file"
       /\ Handle(clearInodeMeta(meta[p][n]), owed)
       /\ UNCHANGED last_inode

\* Slip: the entry first, then the inode it leads to.
MkdirEntryFirst(p, n, i) ==
    <<setInodeMeta(p, n, i)>> \o storeInode(i, "dir")
        \o <<setInodeMeta(i, ".", i), setInodeMeta(i, "..", p), Grant(i)>>

MkdirWrites(p, n, i) ==
    storeInode(i, "dir")
        \o <<setInodeMeta(i, ".", i), setInodeMeta(p, n, i), setInodeMeta(i, "..", p), Grant(i)>>

Mkdir(p, n) ==
    /\ n \notin DOMAIN meta[p]
    /\ NewInode
    /\ Handle(MkdirWrites(p, n, last_inode'), owed)

Symlink(p, n) ==
    /\ n \notin DOMAIN meta[p]
    /\ NewInode
    /\ Handle(storeInode(last_inode', "link")
                \o <<setInodeMeta(last_inode', "target", NoInode),
                     setInodeMeta(p, n, last_inode'), Grant(last_inode')>>, owed)

Link(i, p, n) ==
    /\ kind[i] = "file" /\ i \in known
    /\ n \notin DOMAIN meta[p]
    /\ Handle(<<setInodeMeta(p, n, i)>>, owed)
    /\ UNCHANGED last_inode

\* The first block of a file.
FirstWrite(i) ==
    /\ kind[i] = "file" /\ i \in known /\ DOMAIN meta[i] = {}
    /\ Handle(<<setInodeMeta(i, "block", NoInode)>>, owed)
    /\ UNCHANGED last_inode

\* The inode stays.
Unlink(p, n) ==
    /\ n \in NamesIn(p) /\ kind[meta[p][n]] # "dir" /\ meta[p][n] \in known
    /\ Handle(<<removeInodeMeta(p, n)>>, Without(p, n))
    /\ UNCHANGED last_inode

Rmdir(p, n) ==
    /\ n \in NamesIn(p)
    /\ LET d == meta[p][n]
       IN  /\ kind[d] = "dir" /\ d \in known /\ NamesIn(d) = {}
           /\ Handle(<<removeInodeMeta(p, n)>> \o clearInodeMeta(d), Without(p, n))
    /\ UNCHANGED last_inode

\* Slips: the old name goes before the new one is there; or it stays.
OldNameFirst(p, n, q, m) == <<removeInodeMeta(p, n), setInodeMeta(q, m, meta[p][n])>>
OldNameStays(p, n, q, m) == <<setInodeMeta(q, m, meta[p][n])>>

RenameWrites(p, n, q, m) == <<setInodeMeta(q, m, meta[p][n]), removeInodeMeta(p, n)>>

(***************************************************************************)
(* The types of the two files are read as 64 bits from an entry that holds *)
(* 32, so both are zero and the handler's own checks never answer.  "TODO: *)
(* if both are directories, check that target dir is empty": what a full   *)
(* one holds goes with it.                                                 *)
(***************************************************************************)
Rename(p, n, q, m) ==
    /\ n \in NamesIn(p) /\ meta[p][n] \in known
    /\ LET i == meta[p][n]
           replaced == IF m \in DOMAIN meta[q] THEN {meta[q][m]} ELSE {}
       IN  /\ kind[i] = "dir" => q \notin Below({i})
           /\ \A j \in replaced :
                 /\ j \in known /\ i # j /\ p \notin Below({j})
                 /\ kind[i] = "dir" <=> kind[j] = "dir"
           /\ Handle(RenameWrites(p, n, q, m), IF replaced = {} THEN owed ELSE Without(q, m))
    /\ UNCHANGED last_inode

\* Those which change the tree without moving or adding a name of an inode
\* that had one.
PlainRequest ==
    /\ Ready
    /\ \/ \E p \in Dirs, n \in Names : Create(p, n) \/ Mkdir(p, n) \/ Symlink(p, n)
       \/ \E p \in Dirs : \E n \in NamesIn(p) : Lookup(p, n) \/ Unlink(p, n) \/ Rmdir(p, n)
       \/ \E i \in Reachable : FirstWrite(i)

MovingRequest ==
    /\ Ready
    /\ \/ \E i \in Reachable, p \in Dirs, n \in Names : Link(i, p, n)
       \/ \E p, q \in Dirs, m \in Names : \E n \in NamesIn(p) : Rename(p, n, q, m)

\* Another node's revision of the directory p, with an entry more ...
RemoteEntry(i, p, n) ==
    /\ Ready
    /\ i \in Foreign \ remote /\ kind[i] = "none"
    /\ n \notin DOMAIN meta[p]
    /\ meta' = [meta EXCEPT ![p] = [k \in DOMAIN meta[p] \cup {n} |->
                                      IF k = n THEN i ELSE meta[p][k]]]
    /\ remote' = remote \cup {i}
    /\ requests' = requests + 1
    /\ UNCHANGED <<kind, known, todo, last_inode, owed, crashes>>

\* ... and the first revision of the inode, a file.
RemoteInode(i) ==
    /\ i \in remote
    /\ todo = <<>>
    /\ remote' = remote \ {i}
    /\ known' = known \cup {i}
    /\ kind' = [kind EXCEPT ![i] = "file"]
    /\ owed' = owed \cup ({i} \cap Reachable)
    /\ UNCHANGED <<meta, todo, last_inode, requests, crashes>>

Arrival ==
    \/ \E i \in Foreign, p \in Dirs, n \in Names : RemoteEntry(i, p, n)
    \/ \E i \in remote : RemoteInode(i)

\* The process dies after any write and starts again.
Crash ==
    /\ crashes < MaxCrashes
    /\ crashes' = crashes + 1
    /\ todo' = <<>>
    /\ UNCHANGED <<kind, known, meta, last_inode, remote, owed, requests>>

Init ==
    /\ kind = InitKind
    /\ meta = InitMeta
    /\ known = {i \in Inodes : kind[i] # "none"}
    /\ last_inode \in known /\ \A i \in known : i <= last_inode
    /\ remote = {} /\ owed = known
    /\ todo = <<>>
    /\ requests = 0 /\ crashes = 0

TypeOK ==
    /\ kind \in [Inodes -> Kinds]
    /\ known \subseteq {i \in Inodes : kind[i] # "none"}
    /\ \A i \in Inodes : \A k \in DOMAIN meta[i] :
          /\ kind[i] # "none"
          /\ meta[i][k] \in IF kind[i] = "dir" THEN Inodes ELSE {NoInode}
          /\ kind[i] = "dir" => kind[meta[i][k]] # "none" \/ meta[i][k] \in remote
    /\ \A j \in DOMAIN todo : todo[j].ino \in Inodes
    /\ last_inode \in Inodes
    /\ remote \subseteq Foreign /\ owed \subseteq Inodes
    /\ requests \in 0 .. MaxRequests /\ crashes \in 0 .. MaxCrashes
===============================================================================

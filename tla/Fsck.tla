-------------------------------- MODULE Fsck --------------------------------
(***************************************************************************)
(* S3FS_fsck over Namespace: it makes a directory for what it finds, walks *)
(* the tree from the root, one directory per turn of the main loop, and    *)
(* then goes through all inodes at once.  The requests go on meanwhile.    *)
(***************************************************************************)
EXTENDS Namespace

CONSTANTS NameOrder,         \* all names and the dots, in the order of their keys
          OrphanName,        \* the name fsck gives to each inode
          MaxFscks           \* bound

ASSUME FsckAssumption == MaxFscks \in Nat

Keys == {NameOrder[j] : j \in DOMAIN NameOrder}

(***************************************************************************)
(* No two inodes have the same orphan name, and only fsck gives names of   *)
(* its own: one there in the beginning is of an earlier fsck, and so is a  *)
(* lost+found.                                                             *)
(***************************************************************************)
ASSUME NamesAssumption ==
    /\ NameOrder \in Seq(Keys)
    /\ Names \cup Dots \cup {"lost+found"} \subseteq Keys
    /\ \A i \in Inodes : InitKind[i] = "dir" => DOMAIN InitMeta[i] \subseteq Keys
    /\ \A i \in Inodes : OrphanName[i] \in Keys \ (Names \cup Dots \cup {"lost+found"})
    /\ \A i, j \in Inodes : OrphanName[i] = OrphanName[j] => i = j
    /\ \A d, i \in Inodes :
          InitKind[d] = "dir" /\ OrphanName[i] \in DOMAIN InitMeta[d] =>
             \E j \in Inodes : i <= j /\ InitKind[j] # "none"
    /\ "lost+found" \notin Names
    /\ "lost+found" \in DOMAIN InitMeta[Root] => InitKind[InitMeta[Root]["lost+found"]] = "dir"

VARIABLES status,        \* the pass, or Idle
          scan_inode, scan_inode_queue,
          known_inodes,  \* those the walk has come to
          fsck_ino,      \* where orphans go
          fsck_ino_max,  \* the highest inode when it started
          fscks,
          moved,         \* for the properties: inodes that were given a name,
                         \* or arrived, since fsck started
          doubled        \* and directories fsck gave a name besides another

fsckVars == <<status, scan_inode, scan_inode_queue, known_inodes, fsck_ino, fsck_ino_max, fscks>>
history == <<moved, doubled>>
allVars == <<vars, fsckVars, history>>

Idle == 6

FsckInit ==
    /\ Init
    /\ status = Idle /\ scan_inode = Root /\ scan_inode_queue = <<>>
    /\ known_inodes = {} /\ fsck_ino = Root /\ fsck_ino_max = 0
    /\ fscks = 0
    /\ moved = {} /\ doubled = {}

\* The object is gone, and what it knew.
Ended ==
    /\ status' = Idle /\ scan_inode' = Root /\ scan_inode_queue' = <<>>
    /\ known_inodes' = {} /\ fsck_ino' = Root /\ fsck_ino_max' = 0
    /\ moved' = {}
    /\ UNCHANGED <<fscks, doubled>>

\* What fsck writes in one turn.
Turn(writes) ==
    /\ todo = <<>>
    /\ todo' = writes
    /\ UNCHANGED <<kind, known, meta, remote, owed, requests, crashes>>

DirectoryWrites(i, p, n) ==
    storeInode(i, "dir")
        \o <<setInodeMeta(i, ".", i), setInodeMeta(p, n, i), setInodeMeta(i, "..", p)>>

\* The constructor, and process_0, which gives up where it cannot have the
\* inode of lost+found.
Process0 ==
    /\ status = Idle /\ fscks < MaxFscks
    /\ fscks' = fscks + 1
    /\ fsck_ino_max' = last_inode + 1
    /\ LET there == "lost+found" \in DOMAIN meta[Root]
           lost_found == IF there THEN meta[Root]["lost+found"] ELSE last_inode + 2
       IN  /\ there => lost_found \in known
           /\ fsck_ino' = IF there THEN last_inode + 2 ELSE last_inode + 3
           /\ fsck_ino' \in Inodes
           /\ last_inode' = fsck_ino'
           /\ Turn((IF there THEN <<>> ELSE DirectoryWrites(lost_found, Root, "lost+found"))
                     \o DirectoryWrites(fsck_ino', lost_found, OrphanName[fsck_ino']))
    /\ status' = 1
    /\ scan_inode' = Root /\ scan_inode_queue' = <<>> /\ known_inodes' = {Root}
    /\ UNCHANGED history

\* What of s is in T, in its order.
Only(s, T) ==
    LET taken[k \in 0 .. Len(s)] ==
            IF k = 0 THEN <<>>
            ELSE IF s[k] \in T THEN Append(taken[k - 1], s[k]) ELSE taken[k - 1]
    IN  taken[Len(s)]

\* Slip: the next inode is looked at but not taken.
QueueStays(queue) == queue

TakenFirst(queue) == Tail(queue)

\* process_1, for one inode; pass 3 is called a re-scan and goes on with the
\* inode where pass 1 stopped.
Process1 ==
    /\ status \in {1, 3}
    /\ LET keys == IF kind[scan_inode] = "dir" THEN DOMAIN meta[scan_inode] ELSE {}
           entry(n) == meta[scan_inode][n]
           gone == Only(NameOrder, {n \in keys : entry(n) \notin known})
           names == Only(NameOrder, {n \in keys \ Dots : entry(n) \in known})
           dirs == Only(names, {n \in keys : kind[entry(n)] = "dir"})
           queue == scan_inode_queue \o [j \in DOMAIN dirs |-> entry(dirs[j])]
       IN  /\ Turn([j \in DOMAIN gone |-> removeInodeMeta(scan_inode, gone[j])])
           /\ known_inodes' = known_inodes \cup {entry(names[j]) : j \in DOMAIN names}
           /\ IF queue # <<>>
              THEN /\ scan_inode' = Head(queue) /\ scan_inode_queue' = TakenFirst(queue)
                   /\ UNCHANGED status
              ELSE status' = status + 1 /\ UNCHANGED <<scan_inode, scan_inode_queue>>
    /\ UNCHANGED <<last_inode, fsck_ino, fsck_ino_max, fscks, history>>

\* Slip: inodes made since the walk began are orphans too.
AnyOrphan(i) == i \in known \ known_inodes

Orphan(i) == i \in known \ known_inodes /\ i <= fsck_ino_max

\* Slip: a directory that has only its dots counts as empty.
DotsDoNotCount == {i \in Inodes : Orphan(i) /\ NamesIn(i) = {}}

\* Orphans without any key are destroyed, in the order of their numbers.
Dropped == {i \in Inodes : Orphan(i) /\ DOMAIN meta[i] = {}}

\* Symbolic links, and directories whose parent is in the tree or is gone,
\* get a name.  Files are left alone (fsck_found_files is 0).
Connected ==
    {i \in Inodes : /\ Orphan(i) /\ DOMAIN meta[i] # {}
                    /\ \/ kind[i] = "link"
                       \/ /\ kind[i] = "dir" /\ ".." \in DOMAIN meta[i]
                          /\ \/ meta[i][".."] \in known_inodes
                             \/ meta[i][".."] \notin known \ {j \in Dropped : j < i}}

\* process_2.
Process2 ==
    /\ status = 2
    /\ LET found == Only([i \in Inodes |-> i], Dropped \cup Connected)
       IN  Turn([j \in DOMAIN found |->
                   IF found[j] \in Dropped THEN destroyInode(found[j])
                   ELSE setInodeMeta(fsck_ino, OrphanName[found[j]], found[j])])
    /\ status' = 3
    /\ doubled' = doubled \cup {i \in Connected : kind[i] = "dir" /\ \E d \in Inodes : i \in Kids[d]}
    /\ UNCHANGED <<last_inode, scan_inode, scan_inode_queue, known_inodes, fsck_ino,
                   fsck_ino_max, fscks, moved>>

\* process_2 again, with the iterator that has already come to its end, and
\* the end.
Process3 ==
    /\ status = 4
    /\ Turn(<<>>)
    /\ Ended
    /\ UNCHANGED last_inode

\* Inodes that get a name from the next writes, or by a revision.
Named == {todo'[j].to : j \in {k \in DOMAIN todo' : todo'[k].what = "set"}}
Arrived == (remote' \ remote) \cup (remote \ remote')

FsckNext ==
    \/ (PlainRequest \/ Write) /\ UNCHANGED <<fsckVars, history>>
    \/ /\ MovingRequest \/ Arrival
       /\ moved' = IF status = Idle THEN {} ELSE moved \cup Named \cup Arrived
       /\ UNCHANGED <<fsckVars, doubled>>
    \/ Process0 \/ Process1 \/ Process2 \/ Process3
    \/ Crash /\ Ended

(***************************************************************************)
(* The main loop runs: a handler gets to its end, and the timer of fsck    *)
(* fires.                                                                  *)
(***************************************************************************)
FsckFairness == WF_allVars(Write /\ UNCHANGED <<fsckVars, history>>)
                /\ WF_allVars(Process1 \/ Process2 \/ Process3)

FsckSpec == FsckInit /\ [][FsckNext]_allVars /\ FsckFairness

-----------------------------------------------------------------------------

FsckTypeOK ==
    /\ TypeOK
    /\ status \in 1 .. Idle
    /\ scan_inode \in Inodes /\ fsck_ino \in Inodes
    /\ scan_inode_queue \in Seq(Inodes)
    /\ known_inodes \subseteq Inodes
    /\ fsck_ino_max \in 0 .. MaxInode
    /\ fscks \in 0 .. MaxFscks
    /\ moved \subseteq Inodes /\ doubled \subseteq Inodes

(***************************************************************************)
(* What was created and answered, and neither removed nor replaced, can be *)
(* reached from the root and is known, after every write of every handler: *)
(* a crash in the middle of a rename or a removal loses nothing, and fsck  *)
(* takes away, or forgets, nothing that has content: only what it dropped, *)
(* an inode without any key, can be missing.                               *)
(***************************************************************************)
NothingIsLost ==
    \A i \in owed : \/ i \in Reachable \cap known
                    \/ fscks > 0 /\ i \notin known /\ DOMAIN meta[i] = {}

(***************************************************************************)
(* Unless a rename was cut short by a crash, a directory has one name      *)
(* between handlers, whatever moves it and whatever fsck walks meanwhile;  *)
(* but for the directories fsck connected although they had a name.        *)
(***************************************************************************)
DirectoriesHaveOneName ==
    crashes = 0 /\ todo = <<>> =>
        LET ofDirs == {a \in AllNames : /\ kind[meta[a[1]][a[2]]] = "dir"
                                        /\ meta[a[1]][a[2]] \notin doubled}
        IN  \A a, b \in ofDirs : meta[a[1]][a[2]] = meta[b[1]][b[2]] => a = b

(***************************************************************************)
(* fsck comes to its end, although directories are made, moved and removed *)
(* while it walks.                                                         *)
(***************************************************************************)
FsckEnds == status # Idle ~> status = Idle

Orphans == {i \in Inodes : Orphan(i)}

(***************************************************************************)
(* When process_2 comes to judge, what it takes for an orphan and has a    *)
(* name nevertheless was moved, linked or received since the walk began,   *)
(* or is below such a directory: the walk misses nothing else, whatever is *)
(* created, written and removed around it.                                 *)
(***************************************************************************)
OrphansWereMoved == status = 2 /\ todo = <<>> => Orphans \cap Reachable \subseteq Below(moved)

(***************************************************************************)
(* "Found orphan inode": process_2 then drops it or gives it a name.  What *)
(* it says so of is in the tree, when it was moved behind the walk.        *)
(***************************************************************************)
OrphansHaveNoName == status = 2 /\ todo = <<>> => Orphans \cap Reachable = {}
===============================================================================

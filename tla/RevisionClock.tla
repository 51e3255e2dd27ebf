---------------------------- MODULE RevisionClock ----------------------------
(***************************************************************************)
(* How a node of the cluster numbers things without asking anyone.         *)
(* S3FS_Store::makeInodeRev numbers the revisions of inodes and            *)
(* S3FS::makeInode numbers the inodes.  Both run the same few lines: take  *)
(* the wall clock in milliseconds, times 1000, plus the node id; when that *)
(* is not above the last number handed out, take that one plus 100.  They  *)
(* differ in what "last" holds when the process starts: the store sets     *)
(* last_inode_rev to 0, S3FS never initialises last_inode.                 *)
(*                                                                         *)
(* Wall clocks are not trusted at all: each moves anywhere at any moment,  *)
(* and a process may be restarted.  quint64 does not wrap for any clock    *)
(* before the year 500,000, so the numbers are naturals.                   *)
(***************************************************************************)
EXTENDS NodeStamps, Sequences

CONSTANTS Nodes,       \* the nodes mounting the bucket
          NodeId,      \* the cluster id each node is started with
          Garbage,     \* what the uninitialised last_inode may hold
          MaxClock,    \* bound: the wall clocks stay in 0..MaxClock
          MaxIssued,   \* bound: numbers per node and life
          MaxRestarts  \* bound: restarts per node

(***************************************************************************)
(* Within one millisecond numbers advance by 100, so what has to differ    *)
(* between two nodes is the node id modulo 100 ("1-100 nodes with unique   *)
(* node IDs", README.md:36; ids 0 and 100 together would not do).          *)
(***************************************************************************)
ASSUME NodeIdAssumption ==
    /\ NodeId \in [Nodes -> Nat]
    /\ \A m, n \in Nodes : m # n => NodeId[m] % 100 # NodeId[n] % 100

ASSUME BoundsAssumption ==
    /\ Garbage \subseteq Nat
    /\ MaxClock \in Nat /\ MaxIssued \in Nat /\ MaxRestarts \in Nat

VARIABLES clock,           \* currentMSecsSinceEpoch() as each node reads it
          last_inode_rev,  \* S3FS_Store::last_inode_rev of each node
          last_inode,      \* S3FS::last_inode of each node
          revs,            \* revisions each node's process issued, in order
          inodes,          \* inode numbers each node's process issued, in order
          oldRevs,         \* revisions issued by earlier processes of the node
          oldInodes,       \* inode numbers issued by earlier processes
          restarts         \* how often each node was restarted

vars == <<clock, last_inode_rev, last_inode, revs, inodes,
          oldRevs, oldInodes, restarts>>

TypeOK ==
    /\ clock \in [Nodes -> Nat]
    /\ last_inode_rev \in [Nodes -> Nat]
    /\ last_inode \in [Nodes -> Nat]
    /\ revs \in [Nodes -> Seq(Nat)]
    /\ inodes \in [Nodes -> Seq(Nat)]
    /\ oldRevs \in [Nodes -> SUBSET Nat]
    /\ oldInodes \in [Nodes -> SUBSET Nat]
    /\ restarts \in [Nodes -> Nat]

Init ==
    /\ clock = [n \in Nodes |-> 0]
    /\ last_inode_rev = [n \in Nodes |-> 0]
    /\ last_inode \in [Nodes -> Garbage]
    /\ revs = [n \in Nodes |-> <<>>]
    /\ inodes = [n \in Nodes |-> <<>>]
    /\ oldRevs = [n \in Nodes |-> {}]
    /\ oldInodes = [n \in Nodes |-> {}]
    /\ restarts = [n \in Nodes |-> 0]

-----------------------------------------------------------------------------

MakeInodeRev(n) ==
    LET rev == Stamp(clock[n], NodeId[n], last_inode_rev[n])
    IN  /\ Len(revs[n]) + Len(inodes[n]) < MaxIssued
        /\ last_inode_rev' = [last_inode_rev EXCEPT ![n] = rev]
        /\ revs' = [revs EXCEPT ![n] = Append(@, rev)]
        /\ UNCHANGED <<clock, last_inode, inodes, oldRevs, oldInodes, restarts>>

MakeInode(n) ==
    LET ino == Stamp(clock[n], NodeId[n], last_inode[n])
    IN  /\ Len(revs[n]) + Len(inodes[n]) < MaxIssued
        /\ last_inode' = [last_inode EXCEPT ![n] = ino]
        /\ inodes' = [inodes EXCEPT ![n] = Append(@, ino)]
        /\ UNCHANGED <<clock, last_inode_rev, revs, oldRevs, oldInodes, restarts>>

\* Time passes on n, or its clock is set forwards or back.
ClockMoves(n) ==
    /\ \E ms \in 0 .. MaxClock : clock' = [clock EXCEPT ![n] = ms]
    /\ UNCHANGED <<last_inode_rev, last_inode, revs, inodes, oldRevs, oldInodes, restarts>>

\* A new process on n: both counters live in the process only.
Restart(n) ==
    /\ restarts[n] < MaxRestarts
    /\ restarts' = [restarts EXCEPT ![n] = @ + 1]
    /\ last_inode_rev' = [last_inode_rev EXCEPT ![n] = 0]
    /\ \E g \in Garbage : last_inode' = [last_inode EXCEPT ![n] = g]
    /\ oldRevs' = [oldRevs EXCEPT ![n] = @ \cup {revs[n][i] : i \in DOMAIN revs[n]}]
    /\ oldInodes' = [oldInodes EXCEPT ![n] = @ \cup {inodes[n][i] : i \in DOMAIN inodes[n]}]
    /\ revs' = [revs EXCEPT ![n] = <<>>]
    /\ inodes' = [inodes EXCEPT ![n] = <<>>]
    /\ UNCHANGED clock

Next == \E n \in Nodes :
    MakeInodeRev(n) \/ MakeInode(n) \/ ClockMoves(n) \/ Restart(n)

Spec == Init /\ [][Next]_vars

-----------------------------------------------------------------------------

RevsOf(n) == oldRevs[n] \cup {revs[n][i] : i \in DOMAIN revs[n]}
InodesOf(n) == oldInodes[n] \cup {inodes[n][i] : i \in DOMAIN inodes[n]}

Increasing(s) == \A i, j \in DOMAIN s : i < j => s[i] < s[j]

(***************************************************************************)
(* Two nodes never give the same number to two revisions, wherever their   *)
(* clocks stand and however often they restart: two revisions of an inode  *)
(* are two S3 objects, and a PUT never replaces the revision of another    *)
(* node.                                                                   *)
(***************************************************************************)
RevisionsCollisionFree ==
    \A m, n \in Nodes : m # n => RevsOf(m) \cap RevsOf(n) = {}

(***************************************************************************)
(* One process never issues a number twice and never goes back, even when  *)
(* the clock is set back under it or it issues many numbers within one     *)
(* millisecond: of two revisions one process wrote, the later one wins.    *)
(***************************************************************************)
NumbersIncreaseWithinLife ==
    \A n \in Nodes : Increasing(revs[n]) /\ Increasing(inodes[n])

(***************************************************************************)
(* The claim of README.md:16 for inode numbers: no two inodes of the       *)
(* cluster get the same number.                                            *)
(***************************************************************************)
InodesCollisionFree ==
    \A m, n \in Nodes : m # n => InodesOf(m) \cap InodesOf(n) = {}
=============================================================================

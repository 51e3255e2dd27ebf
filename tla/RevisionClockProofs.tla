------------------------ MODULE RevisionClockProofs ------------------------
(***************************************************************************)
(* Proofs about RevisionClock, for any nodes, ids, clocks and bounds.      *)
(***************************************************************************)
EXTENDS RevisionClock, NumberProofs

\* What one process issued, seen as a sequence: it grows strictly, and the
\* counter holds its last and largest number.
Tracks(s, last) == Increasing(s) /\ \A i \in DOMAIN s : s[i] <= last

LEMMA AppendTracks ==
    ASSUME NEW s \in Seq(Nat), NEW last \in Nat, NEW new \in Nat,
           Tracks(s, last), new > last
    PROVE  Tracks(Append(s, new), new)
<1> DEFINE t == Append(s, new)
<1>1. DOMAIN t = 1 .. Len(s) + 1 /\ DOMAIN s = 1 .. Len(s)
  OBVIOUS
<1>2. \A i \in 1 .. Len(s) : t[i] = s[i] /\ s[i] \in Nat
  OBVIOUS
<1>3. t[Len(s) + 1] = new
  OBVIOUS
<1>4. \A i \in 1 .. Len(s) : s[i] < new
  BY <1>1, <1>2 DEF Tracks
<1>5. \A i, j \in DOMAIN t : i < j => t[i] < t[j]
  <2> SUFFICES ASSUME NEW i \in DOMAIN t, NEW j \in DOMAIN t, i < j
               PROVE  t[i] < t[j]
    OBVIOUS
  <2>1. CASE j \in DOMAIN s
    BY <1>1, <1>2, <2>1 DEF Tracks, Increasing
  <2>2. CASE j = Len(s) + 1
    BY <1>1, <1>2, <1>3, <1>4, <2>2
  <2> QED
    BY <1>1, <2>1, <2>2
<1>6. \A i \in DOMAIN t : t[i] <= new
  BY <1>1, <1>2, <1>3, <1>4
<1> QED
  BY <1>5, <1>6 DEF Tracks, Increasing

-----------------------------------------------------------------------------

\* Numbers, clocks and counters stay naturals, also when the inode counter
\* starts as garbage: makeInode and makeInodeRev never go through a number
\* below the one they found.
THEOREM ClockTypeCorrect == Spec => []TypeOK
<1>1. Init => TypeOK
  <2> SUFFICES ASSUME Init
               PROVE  TypeOK
    OBVIOUS
  <2>1. last_inode \in [Nodes -> Nat]
    BY BoundsAssumption DEF Init
  <2>2. <<>> \in Seq(Nat)
    OBVIOUS
  <2> QED
    BY <2>1, <2>2 DEF Init, TypeOK
<1>2. TypeOK /\ [Next]_vars => TypeOK'
  <2> SUFFICES ASSUME TypeOK, [Next]_vars
               PROVE  TypeOK'
    OBVIOUS
  <2> USE DEF TypeOK
  <2>1. ASSUME NEW n \in Nodes, MakeInodeRev(n)
        PROVE  TypeOK'
    <3> DEFINE rev == Stamp(clock[n], NodeId[n], last_inode_rev[n])
    <3>1. rev \in Nat
      BY StampGrows, NodeIdAssumption
    <3> HIDE DEF rev
    <3>2. Append(revs[n], rev) \in Seq(Nat)
      BY <3>1
    <3> QED
      BY <2>1, <3>1, <3>2 DEF MakeInodeRev, rev
  <2>2. ASSUME NEW n \in Nodes, MakeInode(n)
        PROVE  TypeOK'
    <3> DEFINE ino == Stamp(clock[n], NodeId[n], last_inode[n])
    <3>1. ino \in Nat
      BY StampGrows, NodeIdAssumption
    <3> HIDE DEF ino
    <3>2. Append(inodes[n], ino) \in Seq(Nat)
      BY <3>1
    <3> QED
      BY <2>2, <3>1, <3>2 DEF MakeInode, ino
  <2>3. ASSUME NEW n \in Nodes, ClockMoves(n)
        PROVE  TypeOK'
    <3>1. PICK ms \in 0 .. MaxClock : clock' = [clock EXCEPT ![n] = ms]
      BY <2>3 DEF ClockMoves
    <3>2. ms \in Nat
      BY <3>1, BoundsAssumption
    <3> QED
      BY <2>3, <3>1, <3>2 DEF ClockMoves
  <2>4. ASSUME NEW n \in Nodes, Restart(n)
        PROVE  TypeOK'
    <3>1. PICK g \in Nat : last_inode' = [last_inode EXCEPT ![n] = g]
      BY <2>4, BoundsAssumption DEF Restart
    <3>2. /\ {revs[n][i] : i \in DOMAIN revs[n]} \subseteq Nat
          /\ {inodes[n][i] : i \in DOMAIN inodes[n]} \subseteq Nat
      <4>1. \A t \in Seq(Nat) : {t[i] : i \in DOMAIN t} \subseteq Nat
        <5> SUFFICES ASSUME NEW t \in Seq(Nat)
                     PROVE  \A i \in DOMAIN t : t[i] \in Nat
          OBVIOUS
        <5> QED
          OBVIOUS
      <4> QED
        BY <4>1
    <3>3. oldRevs' \in [Nodes -> SUBSET Nat] /\ oldInodes' \in [Nodes -> SUBSET Nat]
      BY <2>4, <3>2 DEF Restart
    <3>4. revs' \in [Nodes -> Seq(Nat)] /\ inodes' \in [Nodes -> Seq(Nat)]
      BY <2>4 DEF Restart
    <3>5. last_inode' \in [Nodes -> Nat]
      BY <3>1
    <3>6. /\ last_inode_rev' \in [Nodes -> Nat]
          /\ restarts' \in [Nodes -> Nat]
          /\ clock' \in [Nodes -> Nat]
      BY <2>4 DEF Restart
    <3> QED
      BY <3>3, <3>4, <3>5, <3>6
  <2>5. CASE UNCHANGED vars
    BY <2>5 DEF vars
  <2> QED
    BY <2>1, <2>2, <2>3, <2>4, <2>5 DEF Next
<1> QED
  BY <1>1, <1>2, PTL DEF Spec

-----------------------------------------------------------------------------

\* The strengthening of RevisionsCollisionFree: what the counter of a node
\* holds, and all it ever issued, is congruent to the id of the node.
ResidueInv ==
    \A n \in Nodes :
        /\ last_inode_rev[n] = 0 \/ LowDigits(last_inode_rev[n]) = LowDigits(NodeId[n])
        /\ \A r \in oldRevs[n] : LowDigits(r) = LowDigits(NodeId[n])
        /\ \A i \in DOMAIN revs[n] : LowDigits(revs[n][i]) = LowDigits(NodeId[n])

LEMMA ResidueInvariant == Spec => []ResidueInv
<1>1. Init => ResidueInv
  <2>1. DOMAIN <<>> = {}
    OBVIOUS
  <2> QED
    BY <2>1 DEF Init, ResidueInv
<1>2. TypeOK /\ ResidueInv /\ [Next]_vars => ResidueInv'
  <2> SUFFICES ASSUME TypeOK, ResidueInv, [Next]_vars
               PROVE  ResidueInv'
    OBVIOUS
  <2> USE NodeIdAssumption DEF ResidueInv
  <2>1. ASSUME NEW n \in Nodes, MakeInodeRev(n)
        PROVE  ResidueInv'
    <3> DEFINE rev == Stamp(clock[n], NodeId[n], last_inode_rev[n])
    <3>1. rev \in Nat /\ LowDigits(rev) = LowDigits(NodeId[n])
      <4>1. clock[n] \in Nat /\ NodeId[n] \in Nat /\ last_inode_rev[n] \in Nat
        BY DEF TypeOK
      <4>2. last_inode_rev[n] = 0 \/ LowDigits(last_inode_rev[n]) = LowDigits(NodeId[n])
        OBVIOUS
      <4>3. rev \in Nat
        BY <4>1, StampGrows
      <4>4. LowDigits(rev) = LowDigits(NodeId[n])
        BY <4>1, <4>2, StampResidue
      <4> QED
        BY <4>3, <4>4
    <3> HIDE DEF rev
    <3>2. /\ last_inode_rev' = [last_inode_rev EXCEPT ![n] = rev]
          /\ revs' = [revs EXCEPT ![n] = Append(@, rev)]
          /\ oldRevs' = oldRevs
      BY <2>1 DEF MakeInodeRev, rev
    <3>3. \A i \in DOMAIN revs'[n] : LowDigits(revs'[n][i]) = LowDigits(NodeId[n])
      <4>1. revs[n] \in Seq(Nat) /\ revs'[n] = Append(revs[n], rev)
        BY <3>2 DEF TypeOK
      <4> QED
        BY <3>1, <4>1
    <3> QED
      BY <3>1, <3>2, <3>3 DEF TypeOK
  <2>2. ASSUME NEW n \in Nodes, MakeInode(n)
        PROVE  ResidueInv'
    BY <2>2 DEF MakeInode
  <2>3. ASSUME NEW n \in Nodes, ClockMoves(n)
        PROVE  ResidueInv'
    BY <2>3 DEF ClockMoves
  <2>4. ASSUME NEW n \in Nodes, Restart(n)
        PROVE  ResidueInv'
    <3>1. DOMAIN <<>> = {}
      OBVIOUS
    <3>2. /\ last_inode_rev' = [last_inode_rev EXCEPT ![n] = 0]
          /\ oldRevs' = [oldRevs EXCEPT ![n] = @ \cup {revs[n][i] : i \in DOMAIN revs[n]}]
          /\ revs' = [revs EXCEPT ![n] = <<>>]
      BY <2>4 DEF Restart
    <3>3. \A r \in oldRevs'[n] : LowDigits(r) = LowDigits(NodeId[n])
      <4>1. oldRevs'[n] = oldRevs[n] \cup {revs[n][i] : i \in DOMAIN revs[n]}
        BY <3>2 DEF TypeOK
      <4> QED
        BY <4>1
    <3> QED
      BY <3>1, <3>2, <3>3 DEF TypeOK
  <2>5. CASE UNCHANGED vars
    BY <2>5 DEF vars
  <2> QED
    BY <2>1, <2>2, <2>3, <2>4, <2>5 DEF Next
<1> QED
  BY <1>1, <1>2, ClockTypeCorrect, PTL DEF Spec

(***************************************************************************)
(* Revision numbers of different nodes never collide, for every set of     *)
(* nodes whose ids differ modulo 100, whatever their clocks do and however *)
(* often makeInodeRev starts again from 0.                                 *)
(***************************************************************************)
THEOREM RevisionsNeverCollide == Spec => []RevisionsCollisionFree
<1>1. ResidueInv => RevisionsCollisionFree
  BY NodeIdAssumption DEF ResidueInv, LowDigits, RevisionsCollisionFree, RevsOf
<1> QED
  BY <1>1, ResidueInvariant, PTL

-----------------------------------------------------------------------------

\* The strengthening of NumbersIncreaseWithinLife.
TrackInv == \A n \in Nodes : /\ Tracks(revs[n], last_inode_rev[n])
                             /\ Tracks(inodes[n], last_inode[n])

(***************************************************************************)
(* Within one process both makeInodeRev and makeInode issue strictly       *)
(* increasing numbers, for every behaviour of the clock and every value    *)
(* last_inode happened to hold at the start.                               *)
(***************************************************************************)
THEOREM NumbersIncrease == Spec => []NumbersIncreaseWithinLife
<1>1. Init => TrackInv
  <2>1. \A k \in Nat : Tracks(<<>>, k)
    BY DEF Tracks, Increasing
  <2>2. Init => last_inode \in [Nodes -> Nat]
    BY BoundsAssumption DEF Init
  <2> SUFFICES ASSUME Init, NEW n \in Nodes
               PROVE  Tracks(revs[n], last_inode_rev[n]) /\ Tracks(inodes[n], last_inode[n])
    BY DEF TrackInv
  <2>3. revs[n] = <<>> /\ inodes[n] = <<>> /\ last_inode_rev[n] = 0 /\ last_inode[n] \in Nat
    BY <2>2 DEF Init
  <2> QED
    BY <2>1, <2>3
<1>2. TypeOK /\ TrackInv /\ [Next]_vars => TrackInv'
  <2> SUFFICES ASSUME TypeOK, TrackInv, [Next]_vars
               PROVE  TrackInv'
    OBVIOUS
  <2> USE DEF TrackInv
  <2>1. ASSUME NEW n \in Nodes, MakeInodeRev(n)
        PROVE  TrackInv'
    <3> DEFINE rev == Stamp(clock[n], NodeId[n], last_inode_rev[n])
    <3>1. Tracks(Append(revs[n], rev), rev)
      <4>1. rev \in Nat /\ rev > last_inode_rev[n]
        BY StampGrows, NodeIdAssumption DEF TypeOK
      <4>2. revs[n] \in Seq(Nat) /\ last_inode_rev[n] \in Nat
        BY DEF TypeOK
      <4> HIDE DEF rev
      <4> QED
        BY <4>1, <4>2, AppendTracks
    <3> QED
      BY <2>1, <3>1 DEF MakeInodeRev, TypeOK
  <2>2. ASSUME NEW n \in Nodes, MakeInode(n)
        PROVE  TrackInv'
    <3> DEFINE ino == Stamp(clock[n], NodeId[n], last_inode[n])
    <3>1. Tracks(Append(inodes[n], ino), ino)
      <4>1. ino \in Nat /\ ino > last_inode[n]
        BY StampGrows, NodeIdAssumption DEF TypeOK
      <4>2. inodes[n] \in Seq(Nat) /\ last_inode[n] \in Nat
        BY DEF TypeOK
      <4> HIDE DEF ino
      <4> QED
        BY <4>1, <4>2, AppendTracks
    <3> QED
      BY <2>2, <3>1 DEF MakeInode, TypeOK
  <2>3. ASSUME NEW n \in Nodes, ClockMoves(n)
        PROVE  TrackInv'
    BY <2>3 DEF ClockMoves
  <2>4. ASSUME NEW n \in Nodes, Restart(n)
        PROVE  TrackInv'
    <3>1. \A k \in Nat : Tracks(<<>>, k)
      BY DEF Tracks, Increasing
    <3>2. /\ revs' = [revs EXCEPT ![n] = <<>>]
          /\ inodes' = [inodes EXCEPT ![n] = <<>>]
          /\ last_inode_rev' = [last_inode_rev EXCEPT ![n] = 0]
          /\ \E g \in Nat : last_inode' = [last_inode EXCEPT ![n] = g]
      BY <2>4, BoundsAssumption DEF Restart
    <3> QED
      BY <3>1, <3>2 DEF TypeOK
  <2>5. CASE UNCHANGED vars
    BY <2>5 DEF vars
  <2> QED
    BY <2>1, <2>2, <2>3, <2>4, <2>5 DEF Next
<1>3. TrackInv => NumbersIncreaseWithinLife
  BY DEF TrackInv, NumbersIncreaseWithinLife, Tracks
<1> QED
  BY <1>1, <1>2, <1>3, ClockTypeCorrect, PTL DEF Spec
=============================================================================

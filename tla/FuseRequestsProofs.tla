-------------------------- MODULE FuseRequestsProofs --------------------------
(***************************************************************************)
(* Theorems about FuseRequests, for any requests, inodes and needs.        *)
(*                                                                         *)
(* The inductive invariant FuseInv says what is true of every request, and *)
(* what is true of one that is not exposed.  As long as such a request is  *)
(* not connected to loadReduced it is in one place at most (Once).  When   *)
(* it is, it may be in several places and run after its answer; but what   *)
(* it needs does not go away any more, so that after its answer it finds   *)
(* nothing to wait for (AnswersStand).                                     *)
(***************************************************************************)
EXTENDS FuseRequests, TLAPS

\* Who can be triggered is with the main loop, or was once.
HeldIsBegun ==
    \A r \in Requests :
        (running[r] > 0 \/ ready_conns[r] > 0 \/ load_conns[r] > 0) =>
            stage[r] \notin {"kernel", "posted"} /\ r \notin Direct

\* Who is in a list needs what is being downloaded.
ListedWaits ==
    \A i \in Inodes, r \in Requests : waits[i][r] > 0 =>
        /\ stage[r] \notin {"kernel", "posted"} /\ r \notin Direct /\ is_ready
        /\ r \notin Instant /\ i \notin local /\ gets[i] > 0
        /\ \E k \in DOMAIN Needs[r] : Needs[r][k] = i

DirectIsAlone == \A r \in Direct : stage[r] \notin {"posted", "open"}

HeldIsLive ==
    \A r \in Requests \ exposed :
        (running[r] > 0 \/ ready_conns[r] > 0 \/ load_conns[r] > 0) =>
            stage[r] \in {"open", "answered"}

ListedIsOpen ==
    \A i \in Inodes, r \in Requests \ exposed : waits[i][r] > 0 => stage[r] = "open"

AnswersStand ==
    \A r \in Requests \ exposed :
        Answered(r) /\ load_conns[r] > 0 /\ r \notin Instant => Missing(r) = {}

InOnePlace(r) ==
    /\ running[r] <= 1
    /\ running[r] > 0 => /\ stage[r] = "open"
                         /\ \A i \in Inodes : waits[i][r] = 0
                         /\ ~is_ready => ready_conns[r] = 0
    /\ ready_conns[r] > 0 /\ ~is_ready => ready_conns[r] <= 1 /\ stage[r] = "open"
    /\ \A i \in Inodes : waits[i][r] <= 1
    /\ \A i, j \in Inodes : waits[i][r] > 0 /\ waits[j][r] > 0 => i = j

Once == \A r \in Requests \ exposed : load_conns[r] = 0 => InOnePlace(r)

FuseInv ==
    /\ TypeOK
    /\ HeldIsBegun /\ ListedWaits /\ DirectIsAlone
    /\ HeldIsLive /\ ListedIsOpen /\ AnswersStand /\ Once
    /\ NobodyForgotten

-----------------------------------------------------------------------------

LEMMA PlusFacts ==
    ASSUME NEW c \in Counts, NEW r \in Requests
    PROVE  /\ Plus(c, r) \in Counts
           /\ Plus(c, r)[r] = c[r] + 1
           /\ \A x \in Requests : x # r => Plus(c, r)[x] = c[x]
  BY DEF Counts, Plus

LEMMA NoneFacts == None \in Counts /\ \A r \in Requests : None[r] = 0
  BY DEF None, Counts

\* Between two handlers nobody is being triggered.
LEMMA IdleFacts ==
    ASSUME TypeOK, ~Busy
    PROVE  \A r \in Requests : running[r] = 0
<1> SUFFICES ASSUME NEW r \in Requests PROVE running[r] = 0
  OBVIOUS
<1>1. ~(running[r] > 0)
  BY Zenon DEF Busy
<1>2. running[r] \in Nat
  BY DEF TypeOK, Counts
<1>3. QED
  BY <1>1, <1>2

LEMMA InitEstablishes == Init => FuseInv
<1> SUFFICES ASSUME Init PROVE FuseInv
  OBVIOUS
<1> USE FuseAssumption, NoneFacts
<1>1. TypeOK
  <2>1. stage \in [Requests -> Stages]
    BY DEF Init, Stages
  <2>2. gets \in [Inodes -> Nat] /\ waits \in [Inodes -> Counts]
    BY DEF Init
  <2>3. QED
    BY <2>1, <2>2 DEF Init, TypeOK
<1>2. \A r \in Requests : stage[r] = "kernel" /\ running[r] = 0 /\ ready_conns[r] = 0 /\ load_conns[r] = 0
  BY DEF Init
<1>3. \A i \in Inodes, r \in Requests : waits[i][r] = 0
  BY DEF Init
<1>4. HeldIsBegun /\ ListedWaits /\ DirectIsAlone /\ HeldIsLive /\ ListedIsOpen
  BY <1>2, <1>3 DEF HeldIsBegun, ListedWaits, DirectIsAlone, HeldIsLive, ListedIsOpen
<1>5. AnswersStand
  BY <1>2 DEF AnswersStand, Answered
<1>6. Once
  <2>1. ASSUME NEW r \in Requests PROVE InOnePlace(r)
    <3>1. /\ running[r] <= 1 /\ ~(running[r] > 0) /\ ~(ready_conns[r] > 0)
          /\ \A i \in Inodes : waits[i][r] <= 1 /\ ~(waits[i][r] > 0)
      BY <1>2, <1>3
    <3>2. QED
      BY <1>2, <3>1, Zenon DEF InOnePlace
  <2>2. QED
    BY <2>1 DEF Once
<1>7. NobodyForgotten
  BY <1>2 DEF NobodyForgotten
<1>8. QED
  BY <1>1, <1>4, <1>5, <1>6, <1>7 DEF FuseInv

\* What a step that touches stages and threads only may do to the stages.
LEMMA StagesMove ==
    ASSUME FuseInv, NEW r \in Requests, NEW s \in Stages,
           stage' = [stage EXCEPT ![r] = s],
           UNCHANGED <<flags, store, waits, ready_conns, load_conns, running, prefetch, exposed>>,
           thread' \in Requests \cup {Nobody},
           \/ s = "posted" /\ stage[r] = "kernel" /\ r \notin Direct
           \/ s = "answered" /\ stage[r] = "kernel" /\ r \in Direct
    PROVE  FuseInv'
<1> USE DEF FuseInv
<1>1. TypeOK'
  BY DEF TypeOK, flags, store, Stages
<1>2. /\ stage'[r] = s
      /\ \A x \in Requests : x # r => stage'[x] = stage[x]
  BY DEF TypeOK
<1>3. /\ ~(running[r] > 0) /\ ~(ready_conns[r] > 0) /\ ~(load_conns[r] > 0)
      /\ \A i \in Inodes : ~(waits[i][r] > 0)
  BY DEF HeldIsBegun, ListedWaits
<1> USE DEF flags, store
<1>4. HeldIsBegun' /\ HeldIsLive'
  BY <1>2, <1>3 DEF HeldIsBegun, HeldIsLive
<1>5. ListedWaits' /\ ListedIsOpen'
  BY <1>2, <1>3 DEF ListedWaits, ListedIsOpen
<1>6. DirectIsAlone'
  BY <1>2, FuseAssumption DEF DirectIsAlone
<1>7. AnswersStand'
  BY <1>2, <1>3 DEF AnswersStand, Answered, Missing
<1>8. Once'
  BY <1>2, <1>3 DEF Once, InOnePlace
<1>9. NobodyForgotten'
  BY <1>2 DEF NobodyForgotten
<1>10. QED
  BY <1>1, <1>4, <1>5, <1>6, <1>7, <1>8, <1>9

LEMMA IssueStep ==
    ASSUME FuseInv, NEW r \in Requests, Issue(r) \/ IssueDirect(r)
    PROVE  FuseInv'
<1>1. CASE Issue(r)
  <2>1. "posted" \in Stages /\ thread' \in Requests \cup {Nobody}
    BY <1>1 DEF Issue, Stages, FuseInv, TypeOK
  <2>2. QED
    BY <1>1, <2>1, StagesMove DEF Issue
<1>2. CASE IssueDirect(r)
  <2>1. "answered" \in Stages /\ thread' \in Requests \cup {Nobody}
    BY <1>2 DEF IssueDirect, Stages
  <2>2. QED
    BY <1>2, <2>1, StagesMove DEF IssueDirect
<1>3. QED
  BY <1>1, <1>2

\* A step that changes nothing the invariant speaks of but the thread.
LEMMA ReplyStep ==
    ASSUME FuseInv, ReplyDirect
    PROVE  FuseInv'
<1> USE DEF FuseInv, ReplyDirect, flags, store
<1>1. TypeOK'
  BY DEF TypeOK
<1>2. HeldIsBegun' /\ ListedWaits' /\ DirectIsAlone'
  BY DEF HeldIsBegun, ListedWaits, DirectIsAlone
<1>3. HeldIsLive' /\ ListedIsOpen' /\ AnswersStand'
  BY DEF HeldIsLive, ListedIsOpen, AnswersStand, Answered, Missing
<1>4. Once' /\ NobodyForgotten'
  BY DEF Once, InOnePlace, NobodyForgotten
<1>5. QED
  BY <1>1, <1>2, <1>3, <1>4

LEMMA BeginStep ==
    ASSUME FuseInv, NEW r \in Requests, Begin(r)
    PROVE  FuseInv'
<1> USE DEF FuseInv, Begin, flags, store
<1>1. \A x \in Requests : running[x] = 0
  BY IdleFacts
<1>2. /\ running' \in Counts /\ running'[r] = 1
      /\ \A x \in Requests : x # r => running'[x] = 0
  <2>1. running \in Counts
    BY DEF TypeOK
  <2>2. QED
    BY <1>1, <2>1, PlusFacts
<1>3. stage'[r] = "open" /\ \A x \in Requests : x # r => stage'[x] = stage[x]
  BY DEF TypeOK
<1>4. stage[r] = "posted" /\ r \notin Direct
  BY DEF DirectIsAlone
<1>5. TypeOK'
  BY <1>2 DEF TypeOK, Stages
<1>6. HeldIsBegun' /\ HeldIsLive'
  BY <1>1, <1>2, <1>3, <1>4 DEF HeldIsBegun, HeldIsLive
<1>7. ListedWaits' /\ ListedIsOpen'
  BY <1>3, <1>4 DEF ListedWaits, ListedIsOpen
<1>8. DirectIsAlone'
  BY <1>3, <1>4, FuseAssumption DEF DirectIsAlone
<1>9. AnswersStand'
  BY <1>3 DEF AnswersStand, Answered, Missing
<1>10. Once'
  <2>1. ASSUME NEW x \in Requests \ exposed, load_conns[x] = 0 PROVE InOnePlace(x)'
    <3>1. InOnePlace(x)
      BY <2>1 DEF Once
    <3>2. CASE x # r
      <4>1. running'[x] <= 1 /\ ~(running'[x] > 0) /\ stage'[x] = stage[x]
        BY <3>2, <1>2, <1>3
      <4>2. QED
        BY <3>1, <4>1, Zenon DEF InOnePlace
    <3>3. CASE x = r
      <4>1. ready_conns[r] = 0
        BY <1>4 DEF HeldIsBegun, TypeOK, Counts
      <4>2. \A i \in Inodes : waits[i][r] = 0
        BY <1>4 DEF ListedWaits, TypeOK, Counts
      <4>3. QED
        BY <3>1, <3>3, <4>1, <4>2, <1>2, <1>3 DEF InOnePlace
    <3>4. QED
      BY <3>2, <3>3
  <2>2. QED
    BY <2>1 DEF Once
<1>11. NobodyForgotten'
  <2>1. running'[r] > 0
    BY <1>2
  <2>2. ASSUME NEW x \in Requests, x # r PROVE ~(running[x] > 0)
    BY <1>1, <2>2
  <2>3. QED
    BY <2>1, <2>2, <1>3, ZenonT(40) DEF NobodyForgotten
<1>12. QED
  BY <1>5, <1>6, <1>7, <1>8, <1>9, <1>10, <1>11

LEMMA DeleteStep ==
    ASSUME FuseInv, NEW r \in Requests, Delete(r)
    PROVE  FuseInv'
<1> USE DEF FuseInv, Delete, flags, store
<1>1. \A x \in Requests : running[x] = 0
  BY IdleFacts
<1>2. /\ stage'[r] = "deleted" /\ ready_conns'[r] = 0 /\ load_conns'[r] = 0
      /\ \A x \in Requests : x # r => /\ stage'[x] = stage[x]
                                     /\ ready_conns'[x] = ready_conns[x]
                                     /\ load_conns'[x] = load_conns[x]
  BY DEF TypeOK, Counts
<1>3. TypeOK'
  BY DEF TypeOK, Stages, Counts
<1>4. HeldIsBegun' /\ HeldIsLive'
  BY <1>1, <1>2 DEF HeldIsBegun, HeldIsLive
<1>5. ListedWaits' /\ ListedIsOpen'
  BY <1>2 DEF ListedWaits, ListedIsOpen
<1>6. DirectIsAlone'
  BY <1>2, FuseAssumption DEF DirectIsAlone
<1>7. AnswersStand'
  BY <1>2 DEF AnswersStand, Answered, Missing
<1>8. Once'
  <2>1. ASSUME NEW x \in Requests \ exposed, load_conns'[x] = 0 PROVE InOnePlace(x)'
    <3>1. CASE x # r
      <4>1. stage'[x] = stage[x] /\ ready_conns'[x] = ready_conns[x] /\ load_conns[x] = 0
        BY <2>1, <3>1, <1>2
      <4>2. InOnePlace(x)
        BY <2>1, <4>1 DEF Once
      <4>3. QED
        BY <4>1, <4>2, Zenon DEF InOnePlace
    <3>2. CASE x = r
      <4>1. \A i \in Inodes : waits[i][r] = 0
        BY <2>1, <3>2 DEF ListedIsOpen, TypeOK, Counts
      <4>2. QED
        BY <3>2, <4>1, <1>1, <1>2 DEF InOnePlace
    <3>3. QED
      BY <3>1, <3>2
  <2>2. QED
    BY <2>1 DEF Once
<1>9. NobodyForgotten'
  BY <1>2 DEF NobodyForgotten
<1>10. QED
  BY <1>3, <1>4, <1>5, <1>6, <1>7, <1>8, <1>9

LEMMA StoreIsReadyStep ==
    ASSUME FuseInv, StoreIsReady
    PROVE  FuseInv'
<1> USE DEF FuseInv, StoreIsReady, objects, store
<1>1. \A x \in Requests : running[x] = 0
  BY IdleFacts
<1>2. TypeOK'
  BY DEF TypeOK
<1>3. HeldIsBegun' /\ HeldIsLive' /\ DirectIsAlone'
  BY DEF HeldIsBegun, HeldIsLive, DirectIsAlone
<1>4. ListedWaits' /\ ListedIsOpen'
  BY DEF ListedWaits, ListedIsOpen
<1>5. AnswersStand'
  BY DEF AnswersStand, Answered, Missing
<1>6. Once'
  <2>1. ASSUME NEW x \in Requests \ exposed, load_conns[x] = 0 PROVE InOnePlace(x)'
    <3>1. InOnePlace(x)
      BY <2>1 DEF Once
    <3>2. \A i \in Inodes : waits[i][x] = 0
      BY DEF ListedWaits, TypeOK, Counts
    <3>3. ready_conns[x] \in Nat
      BY DEF TypeOK, Counts
    <3>4. ready_conns[x] <= 1
      <4>1. ready_conns[x] > 0 => ready_conns[x] <= 1
        BY <3>1, Zenon DEF InOnePlace
      <4>2. QED
        BY <3>3, <4>1
    <3>5. ready_conns[x] > 0 => stage[x] = "open"
      BY <3>1, Zenon DEF InOnePlace
    <3>6. QED
      BY <3>1, <3>2, <3>4, <3>5, Zenon DEF InOnePlace
  <2>2. QED
    BY <2>1 DEF Once
<1>7. NobodyForgotten'
  <2>1. \A x \in Requests : ~(running[x] > 0)
    BY <1>1
  <2>2. QED
    BY <2>1, Zenon DEF NobodyForgotten
<1>8. QED
  BY <1>2, <1>3, <1>4, <1>5, <1>6, <1>7

LEMMA OverloadStep ==
    ASSUME FuseInv, Overload
    PROVE  FuseInv'
<1> USE DEF FuseInv, Overload, objects, store
<1>1. TypeOK'
  BY DEF TypeOK
<1>2. HeldIsBegun' /\ ListedWaits' /\ DirectIsAlone'
  BY DEF HeldIsBegun, ListedWaits, DirectIsAlone
<1>3. HeldIsLive' /\ ListedIsOpen' /\ AnswersStand'
  BY DEF HeldIsLive, ListedIsOpen, AnswersStand, Answered, Missing
<1>4. Once'
  BY DEF Once, InOnePlace
<1>5. NobodyForgotten'
  BY Zenon DEF NobodyForgotten
<1>6. QED
  BY <1>1, <1>2, <1>3, <1>4, <1>5

LEMMA LoadReducedStep ==
    ASSUME FuseInv, LoadReduced
    PROVE  FuseInv'
<1> USE DEF FuseInv, LoadReduced, ToldOfLoad, objects, store
<1>1. \A x \in Requests : ~(running[x] > 0)
  BY IdleFacts
<1>2. TypeOK'
  BY DEF TypeOK
<1>3. HeldIsBegun' /\ HeldIsLive' /\ DirectIsAlone'
  BY DEF HeldIsBegun, HeldIsLive, DirectIsAlone
<1>4. ListedWaits' /\ ListedIsOpen'
  BY DEF ListedWaits, ListedIsOpen
<1>5. AnswersStand'
  BY DEF AnswersStand, Answered, Missing
<1>6. Once'
  <2>1. ASSUME NEW x \in Requests \ exposed, load_conns[x] = 0 PROVE InOnePlace(x)'
    <3>1. running'[x] <= 1 /\ ~(running'[x] > 0)
      BY <2>1
    <3>2. InOnePlace(x)
      BY <2>1 DEF Once
    <3>3. QED
      BY <3>1, <3>2, Zenon DEF InOnePlace
  <2>2. QED
    BY <2>1 DEF Once
<1>7. NobodyForgotten'
  BY <1>1, Zenon DEF NobodyForgotten
<1>8. QED
  BY <1>2, <1>3, <1>4, <1>5, <1>6, <1>7

\* The list of i is taken and its download is over.
LEMMA TakenFacts ==
    ASSUME TypeOK, NEW i \in Inodes, gets[i] > 0
    PROVE  /\ Taken(i) \in [Inodes -> Counts] /\ Ended(i) \in [Inodes -> Nat]
           /\ \A r \in Requests : Taken(i)[i][r] = 0
           /\ \A j \in Inodes : j # i => Taken(i)[j] = waits[j] /\ Ended(i)[j] = gets[j]
<1>1. waits \in [Inodes -> Counts] /\ gets \in [Inodes -> Nat]
  BY DEF TypeOK
<1>2. gets[i] - 1 \in Nat
  BY <1>1
<1>3. QED
  BY <1>1, <1>2, NoneFacts DEF Taken, Ended

LEMMA ReceivedInodeStep ==
    ASSUME FuseInv, NEW i \in Inodes, ReceivedInode(i)
    PROVE  FuseInv'
<1> USE DEF FuseInv, ReceivedInode, objects, flags
<1>1. \A x \in Requests : ~(running[x] > 0)
  BY IdleFacts
<1>2. /\ waits' \in [Inodes -> Counts] /\ gets' \in [Inodes -> Nat]
      /\ \A x \in Requests : waits'[i][x] = 0
      /\ \A j \in Inodes : j # i => waits'[j] = waits[j] /\ gets'[j] = gets[j]
  BY TakenFacts
<1>3. TypeOK'
  BY <1>2 DEF TypeOK
<1>4. HeldIsBegun'
  <2>1. ASSUME NEW x \in Requests, waits[i][x] > 0
        PROVE  stage[x] \notin {"kernel", "posted"} /\ x \notin Direct
    BY <2>1 DEF ListedWaits
  <2>2. QED
    BY <2>1, Zenon DEF HeldIsBegun
<1>5. HeldIsLive'
  <2>1. ASSUME NEW x \in Requests \ exposed, waits[i][x] > 0
        PROVE  stage[x] = "open"
    BY <2>1 DEF ListedIsOpen
  <2>2. QED
    BY <2>1 DEF HeldIsLive
<1>6. DirectIsAlone'
  BY DEF DirectIsAlone
<1>7. ASSUME NEW j \in Inodes, NEW x \in Requests, waits'[j][x] > 0
      PROVE  j # i /\ waits[j][x] > 0 /\ gets'[j] = gets[j]
  BY <1>2, <1>7
<1>8. ListedWaits' /\ ListedIsOpen'
  BY <1>7 DEF ListedWaits, ListedIsOpen
<1>9. AnswersStand'
  BY DEF AnswersStand, Answered, Missing
<1>10. Once'
  <2>1. ASSUME NEW x \in Requests \ exposed, load_conns[x] = 0 PROVE InOnePlace(x)'
    <3>1. InOnePlace(x)
      BY <2>1 DEF Once
    <3>2. ASSUME waits[i][x] > 0
          PROVE  is_ready /\ stage[x] = "open" /\ \A j \in Inodes : waits'[j][x] = 0
      <4>1. is_ready
        BY <3>2, Zenon DEF ListedWaits
      <4>2. stage[x] = "open"
        BY <3>2, <2>1 DEF ListedIsOpen
      <4>3. ASSUME NEW j \in Inodes, j # i PROVE waits'[j][x] = 0
        <5>1. ~(waits[j][x] > 0)
          BY <3>1, <3>2, <4>3, Zenon DEF InOnePlace
        <5>2. waits'[j] \in Counts
          BY <1>2
        <5>3. QED
          BY <5>1, <5>2, <4>3, <1>2 DEF Counts
      <4>4. QED
        BY <4>1, <4>2, <4>3, <1>2
    <3>3. \A j \in Inodes : waits'[j][x] <= 1
      <4>1. \A j \in Inodes : waits[j][x] <= 1
        BY <3>1 DEF InOnePlace
      <4>2. QED
        BY <4>1, <1>2
    <3>4. \A j, k \in Inodes : waits'[j][x] > 0 /\ waits'[k][x] > 0 => j = k
      <4>1. \A j \in Inodes : waits'[j][x] > 0 => waits[j][x] > 0
        BY <1>2
      <4>2. QED
        BY <4>1, <3>1, Zenon DEF InOnePlace
    <3>5. running'[x] <= 1 /\ running'[x] = waits[i][x]
      BY <3>1 DEF InOnePlace
    <3>6. QED
      BY <3>1, <3>2, <3>3, <3>4, <3>5, Zenon DEF InOnePlace
  <2>2. QED
    BY <2>1 DEF Once
<1>11. NobodyForgotten'
  <2>1. ASSUME NEW x \in Requests, NEW j \in Inodes, waits[j][x] > 0, gets[j] > 0
        PROVE  running'[x] > 0 \/ (waits'[j][x] > 0 /\ gets'[j] > 0)
    BY <2>1, <1>2
  <2>2. QED
    BY <2>1, <1>1, Zenon DEF NobodyForgotten
<1>12. QED
  BY <1>3, <1>4, <1>5, <1>6, <1>8, <1>9, <1>10, <1>11

\* Who is not exposed when i goes needs something else or is not connected.
LEMMA ExposedFacts ==
    ASSUME TypeOK, NEW i \in Inodes, exposed' = exposed \cup Exposed(i)
    PROVE  /\ exposed' \subseteq Requests
           /\ \A x \in Requests \ exposed' :
                 /\ x \notin exposed
                 /\ load_conns[x] = 0 \/ \A k \in DOMAIN Needs[x] : Needs[x][k] # i
  BY DEF TypeOK, Exposed, Counts

LEMMA DoctorFailedStep ==
    ASSUME FuseInv, NEW i \in Inodes, DoctorFailed(i)
    PROVE  FuseInv'
<1> USE DEF FuseInv, DoctorFailed, AllTold, Answer, flags
<1>1. \A x \in Requests : running[x] = 0
  BY IdleFacts
<1>2. /\ waits' \in [Inodes -> Counts] /\ gets' \in [Inodes -> Nat]
      /\ \A x \in Requests : waits'[i][x] = 0
      /\ \A j \in Inodes : j # i => waits'[j] = waits[j] /\ gets'[j] = gets[j]
  BY TakenFacts
<1>3. /\ exposed' \subseteq Requests
      /\ \A x \in Requests \ exposed' :
            /\ x \notin exposed
            /\ load_conns[x] = 0 \/ \A k \in DOMAIN Needs[x] : Needs[x][k] # i
  BY ExposedFacts
<1>4. \A x \in Requests : stage'[x] = IF waits[i][x] > 0 /\ stage[x] = "open"
                                      THEN "answered" ELSE stage[x]
  OBVIOUS
<1>5. TypeOK'
  <2>1. stage' \in [Requests -> Stages]
    BY DEF TypeOK, Stages
  <2>2. QED
    BY <1>2, <1>3, <2>1 DEF TypeOK
<1>6. HeldIsBegun'
  BY <1>4 DEF HeldIsBegun
<1>7. HeldIsLive'
  BY <1>3, <1>4 DEF HeldIsLive
<1>8. DirectIsAlone'
  BY <1>4, FuseAssumption DEF DirectIsAlone
<1>9. ASSUME NEW j \in Inodes, NEW x \in Requests, waits'[j][x] > 0
      PROVE  j # i /\ waits[j][x] > 0 /\ gets'[j] = gets[j]
  BY <1>2, <1>9
<1>10. ListedWaits'
  BY <1>4, <1>9 DEF ListedWaits
<1>11. ListedIsOpen'
  <2>1. ASSUME NEW j \in Inodes, NEW x \in Requests \ exposed', waits'[j][x] > 0
        PROVE  stage'[x] = "open"
    <3>1. stage[x] = "open" /\ j # i /\ waits[j][x] > 0
      BY <2>1, <1>3, <1>9 DEF ListedIsOpen
    <3>2. ~(waits[i][x] > 0)
      <4>1. CASE load_conns[x] = 0
        <5>1. InOnePlace(x)
          BY <4>1, <2>1, <1>3 DEF Once
        <5>2. QED
          BY <5>1, <3>1, Zenon DEF InOnePlace
      <4>2. CASE load_conns[x] # 0
        BY <4>2, <2>1, <1>3 DEF ListedWaits
      <4>3. QED
        BY <4>1, <4>2
    <3>3. QED
      BY <3>1, <3>2, <1>4
  <2>2. QED
    BY <2>1 DEF ListedIsOpen
<1>12. AnswersStand'
  <2>1. ASSUME NEW x \in Requests \ exposed', Answered(x)', load_conns[x] > 0, x \notin Instant
        PROVE  Missing(x)' = {}
    <3>1. ~(waits[i][x] > 0)
      BY <2>1, <1>3 DEF ListedWaits
    <3>2. Answered(x)
      BY <2>1, <3>1, <1>4 DEF Answered
    <3>3. Missing(x) = {}
      BY <2>1, <3>2, <1>3 DEF AnswersStand
    <3>4. QED
      BY <3>3 DEF Missing
  <2>2. QED
    BY <2>1 DEF AnswersStand
<1>13. Once'
  <2>1. ASSUME NEW x \in Requests \ exposed', load_conns[x] = 0 PROVE InOnePlace(x)'
    <3>0. InOnePlace(x)
      BY <2>1, <1>3 DEF Once
    <3>1. /\ \A j \in Inodes : waits'[j][x] <= 1
          /\ \A j \in Inodes : waits'[j][x] > 0 => waits[j][x] > 0
      BY <1>2, <3>0 DEF InOnePlace
    <3>2. running'[x] <= 1 /\ ~(running'[x] > 0)
      BY <1>1
    <3>3. ready_conns[x] > 0 /\ ~is_ready => stage'[x] = "open"
      <4>1. waits[i][x] > 0 => is_ready
        BY Zenon DEF ListedWaits
      <4>2. ready_conns[x] > 0 /\ ~is_ready => stage[x] = "open"
        BY <3>0, Zenon DEF InOnePlace
      <4>3. QED
        BY <4>1, <4>2, <1>4, Zenon
    <3>4. QED
      BY <3>0, <3>1, <3>2, <3>3, Zenon DEF InOnePlace
  <2>2. QED
    BY <2>1 DEF Once
<1>14. NobodyForgotten'
  <2>1. ASSUME NEW x \in Requests, stage'[x] = "open"
        PROVE  stage[x] = "open" /\ ~(waits[i][x] > 0)
    BY <1>4, <2>1
  <2>2. ASSUME NEW x \in Requests, NEW j \in Inodes, waits[j][x] > 0, gets[j] > 0,
               ~(waits[i][x] > 0)
        PROVE  waits'[j][x] > 0 /\ gets'[j] > 0
    BY <2>2, <1>2
  <2>3. QED
    BY <2>1, <2>2, Zenon DEF NobodyForgotten
<1>15. QED
  BY <1>5, <1>6, <1>7, <1>8, <1>10, <1>11, <1>12, <1>13, <1>14

LEMMA DropCopyStep ==
    ASSUME FuseInv, NEW i \in Inodes, DropCopy(i)
    PROVE  FuseInv'
<1> USE DEF FuseInv, DropCopy, objects, flags
<1>1. /\ exposed' \subseteq Requests
      /\ \A x \in Requests \ exposed' :
            /\ x \notin exposed
            /\ load_conns[x] = 0 \/ \A k \in DOMAIN Needs[x] : Needs[x][k] # i
  BY ExposedFacts
<1>2. TypeOK'
  BY <1>1 DEF TypeOK
<1>3. HeldIsBegun' /\ DirectIsAlone' /\ HeldIsLive'
  BY <1>1 DEF HeldIsBegun, DirectIsAlone, HeldIsLive
<1>4. ListedWaits' /\ ListedIsOpen'
  BY <1>1 DEF ListedWaits, ListedIsOpen
<1>5. AnswersStand'
  BY <1>1 DEF AnswersStand, Answered, Missing
<1>6. Once'
  BY <1>1 DEF Once, InOnePlace
<1>7. NobodyForgotten'
  BY DEF NobodyForgotten
<1>8. QED
  BY <1>2, <1>3, <1>4, <1>5, <1>6, <1>7

\* Asking for i adds a download of it, and may raise the overload.
LEMMA AskForFacts ==
    ASSUME TypeOK, NEW i \in Inodes, AskFor(i)
    PROVE  /\ gets' \in [Inodes -> Nat] /\ gets'[i] > 0
           /\ \A j \in Inodes : gets[j] > 0 => gets'[j] > 0
           /\ is_overloaded' \in BOOLEAN /\ overloads' \in Nat
           /\ is_overloaded => is_overloaded'
           /\ is_ready' = is_ready /\ local' = local /\ broken' = broken /\ drops' = drops
<1>1. PICK high \in BOOLEAN :
          /\ is_overloaded' = (is_overloaded \/ high)
          /\ overloads' = IF high THEN overloads + 1 ELSE overloads
  BY DEF AskFor
<1>2. gets' \in [Inodes -> Nat] /\ gets'[i] > 0 /\ \A j \in Inodes : gets[j] > 0 => gets'[j] > 0
  BY DEF AskFor, TypeOK
<1>3. overloads' \in Nat
  BY <1>1 DEF TypeOK
<1>4. is_overloaded' \in BOOLEAN /\ (is_overloaded => is_overloaded')
  BY <1>1, Zenon DEF TypeOK
<1>5. QED
  BY <1>2, <1>3, <1>4 DEF AskFor

LEMMA PrefetchStep ==
    ASSUME FuseInv, Prefetch
    PROVE  FuseInv'
<1> USE DEF FuseInv, Prefetch, objects
<1>1. /\ gets' \in [Inodes -> Nat]
      /\ \A j \in Inodes : gets[j] > 0 => gets'[j] > 0
      /\ is_overloaded' \in BOOLEAN /\ overloads' \in Nat
      /\ is_overloaded => is_overloaded'
      /\ is_ready' = is_ready /\ local' = local /\ broken' = broken /\ drops' = drops
  <2>1. CASE Listed(Root)
    BY <2>1 DEF flags, store, TypeOK
  <2>2. CASE ~Listed(Root)
    BY <2>2, AskForFacts, FuseAssumption
  <2>3. QED
    BY <2>1, <2>2
<1>2. TypeOK'
  BY <1>1 DEF TypeOK
<1>3. HeldIsBegun' /\ HeldIsLive' /\ DirectIsAlone'
  BY DEF HeldIsBegun, HeldIsLive, DirectIsAlone
<1>4. ListedWaits' /\ ListedIsOpen'
  BY <1>1 DEF ListedWaits, ListedIsOpen
<1>5. AnswersStand'
  BY <1>1 DEF AnswersStand, Answered, Missing
<1>6. Once'
  BY <1>1 DEF Once, InOnePlace
<1>7. NobodyForgotten'
  BY <1>1, Zenon DEF NobodyForgotten
<1>8. QED
  BY <1>2, <1>3, <1>4, <1>5, <1>6, <1>7

\* What every run of r does: one turn less, the others as they were.
LEMMA TriggerFacts ==
    ASSUME TypeOK, NEW r \in Requests, Trigger(r)
    PROVE  /\ running[r] > 0 /\ thread' = thread /\ prefetch' = prefetch /\ exposed' = exposed
           /\ running' \in Counts /\ running'[r] = running[r] - 1
           /\ \A x \in Requests : x # r => running'[x] = running[x]
  BY DEF Trigger, TypeOK, Counts

\* The handler answers: it looked at nothing, or all it looks at is there.
LEMMA AnswerStep ==
    ASSUME FuseInv, NEW r \in Requests, Trigger(r), Answer({r}),
           UNCHANGED <<flags, store, waits, ready_conns, load_conns>>,
           r \in Instant \/ Missing(r) = {}
    PROVE  FuseInv'
<1> USE DEF FuseInv, flags, store
<1> USE TriggerFacts
<1>1. stage[r] \notin {"kernel", "posted"} /\ r \notin Direct
  BY DEF HeldIsBegun
<1>2. /\ stage'[r] \notin {"kernel", "posted", "open"}
      /\ stage[r] \in {"open", "answered"} => stage'[r] = "answered"
      /\ \A x \in Requests : x # r => stage'[x] = stage[x]
  BY <1>1 DEF Answer
<1>3. \A i \in Inodes : ~(waits[i][r] > 0)
  BY DEF ListedWaits, Missing
<1>4. TypeOK'
  <2>1. stage' \in [Requests -> Stages]
    BY DEF Answer, Stages, TypeOK
  <2>2. QED
    BY <2>1 DEF TypeOK
<1>5. HeldIsBegun' /\ DirectIsAlone'
  BY <1>1, <1>2, FuseAssumption DEF HeldIsBegun, DirectIsAlone
<1>6. HeldIsLive'
  BY <1>2 DEF HeldIsLive
<1>7. ListedWaits' /\ ListedIsOpen'
  BY <1>2, <1>3 DEF ListedWaits, ListedIsOpen
<1>8. AnswersStand'
  BY <1>2 DEF AnswersStand, Answered, Missing
<1>9. Once'
  <2>1. ASSUME NEW x \in Requests \ exposed, load_conns[x] = 0 PROVE InOnePlace(x)'
    <3>1. InOnePlace(x)
      BY <2>1 DEF Once
    <3>2. CASE x # r
      BY <3>1, <3>2, <1>2 DEF InOnePlace
    <3>3. CASE x = r
      <4>1. running'[r] <= 1 /\ ~(running'[r] > 0)
        BY <3>1, <3>3 DEF InOnePlace, TypeOK, Counts
      <4>2. ~is_ready => ~(ready_conns[r] > 0)
        <5>1. ~is_ready => ready_conns[r] = 0
          BY <3>1, <3>3, Zenon DEF InOnePlace
        <5>2. ready_conns[r] = 0 => ~(ready_conns[r] > 0)
          OBVIOUS
        <5>3. QED
          BY <5>1, <5>2, Zenon
      <4>3. QED
        BY <3>1, <3>3, <4>1, <4>2, Zenon DEF InOnePlace
    <3>4. QED
      BY <3>2, <3>3
  <2>2. QED
    BY <2>1 DEF Once
<1>10. NobodyForgotten'
  BY <1>2 DEF NobodyForgotten
<1>11. QED
  BY <1>4, <1>5, <1>6, <1>7, <1>8, <1>9, <1>10

\* Who is triggered and would still wait has not been answered.
LEMMA WaitingIsOpen ==
    ASSUME FuseInv, NEW r \in Requests \ exposed, running[r] > 0, r \notin Instant,
           load_conns[r] = 0 \/ Missing(r) # {}
    PROVE  stage[r] = "open"
<1> USE DEF FuseInv
<1>1. stage[r] \in {"open", "answered"}
  BY DEF HeldIsLive
<1>2. CASE load_conns[r] = 0
  BY <1>2, Zenon DEF Once, InOnePlace
<1>3. CASE load_conns[r] > 0 /\ Missing(r) # {}
  BY <1>1, <1>3 DEF AnswersStand, Answered
<1>4. load_conns[r] = 0 \/ load_conns[r] > 0
  BY DEF TypeOK, Counts
<1>5. QED
  BY <1>2, <1>3, <1>4

\* The handler connects to ready or to loadReduced.
LEMMA ConnectStep ==
    ASSUME FuseInv, NEW r \in Requests, Trigger(r), r \notin Instant,
           UNCHANGED <<stage, flags, store, waits>>,
           \/ ~is_ready /\ ready_conns' = Plus(ready_conns, r) /\ load_conns' = load_conns
           \/ is_overloaded /\ load_conns' = Plus(load_conns, r) /\ ready_conns' = ready_conns
    PROVE  FuseInv'
<1> USE DEF FuseInv, flags, store
<1> USE TriggerFacts
<1>1. stage[r] \notin {"kernel", "posted"} /\ r \notin Direct
  BY DEF HeldIsBegun
<1>2. /\ ready_conns \in Counts /\ ready_conns' \in Counts
      /\ load_conns \in Counts /\ load_conns' \in Counts
      /\ \A x \in Requests : x # r => /\ ready_conns'[x] = ready_conns[x]
                                     /\ load_conns'[x] = load_conns[x]
  <2>1. ready_conns \in Counts /\ load_conns \in Counts
    BY DEF TypeOK
  <2>2. CASE ready_conns' = Plus(ready_conns, r) /\ load_conns' = load_conns
    BY <2>1, <2>2, PlusFacts
  <2>3. CASE load_conns' = Plus(load_conns, r) /\ ready_conns' = ready_conns
    BY <2>1, <2>3, PlusFacts
  <2>4. QED
    BY <2>2, <2>3
<1>3. TypeOK'
  BY <1>2 DEF TypeOK
<1>4. HeldIsBegun' /\ DirectIsAlone'
  BY <1>1, <1>2 DEF HeldIsBegun, DirectIsAlone
<1>5. HeldIsLive'
  BY <1>2 DEF HeldIsLive
<1>6. ListedWaits' /\ ListedIsOpen'
  BY DEF ListedWaits, ListedIsOpen
<1>7. AnswersStand'
  <2>1. ASSUME NEW x \in Requests \ exposed, Answered(x), load_conns'[x] > 0, x \notin Instant
        PROVE  Missing(x) = {}
    <3>1. CASE x # r
      BY <2>1, <3>1, <1>2 DEF AnswersStand
    <3>2. CASE x = r
      BY <2>1, <3>2, WaitingIsOpen DEF Answered
    <3>3. QED
      BY <3>1, <3>2
  <2>2. QED
    BY <2>1 DEF AnswersStand, Answered, Missing
<1>8. Once'
  <2>1. ASSUME NEW x \in Requests \ exposed, load_conns'[x] = 0 PROVE InOnePlace(x)'
    <3>1. load_conns[x] = 0
      BY <2>1, <1>2, PlusFacts DEF Counts
    <3>2. InOnePlace(x)
      BY <2>1, <3>1 DEF Once
    <3>3. CASE x # r
      BY <3>2, <3>3, <1>2 DEF InOnePlace
    <3>4. CASE x = r
      <4>1. ready_conns' = Plus(ready_conns, r) /\ load_conns' = load_conns /\ ~is_ready
        <5>1. Plus(load_conns, r)[r] # 0
          BY <1>2, PlusFacts DEF Counts
        <5>2. QED
          BY <5>1, <2>1, <3>4
      <4>2. ready_conns[r] = 0 /\ stage[r] = "open"
        BY <3>2, <3>4, <4>1, Zenon DEF InOnePlace
      <4>3. ready_conns'[r] <= 1
        BY <4>1, <4>2, <1>2, PlusFacts
      <4>4. running'[r] <= 1 /\ ~(running'[r] > 0)
        BY <3>2, <3>4 DEF InOnePlace, TypeOK, Counts
      <4>5. QED
        BY <3>2, <3>4, <4>1, <4>2, <4>3, <4>4, Zenon DEF InOnePlace
    <3>5. QED
      BY <3>3, <3>4
  <2>2. QED
    BY <2>1 DEF Once
<1>9. NobodyForgotten'
  <2>1. \/ ~is_ready /\ ready_conns'[r] > 0
        \/ is_overloaded /\ load_conns'[r] > 0
    <3>1. Plus(ready_conns, r)[r] > 0 /\ Plus(load_conns, r)[r] > 0
      BY <1>2, PlusFacts DEF Counts
    <3>2. QED
      BY <3>1
  <2>2. ASSUME NEW x \in Requests, x # r
        PROVE  /\ ready_conns'[x] = ready_conns[x] /\ load_conns'[x] = load_conns[x]
               /\ running'[x] = running[x]
    BY <1>2, <2>2
  <2>3. QED
    BY <2>1, <2>2, Zenon DEF NobodyForgotten
<1>10. QED
  BY <1>3, <1>4, <1>5, <1>6, <1>7, <1>8, <1>9

\* The handler misses inode i and enters the list of it.
LEMMA WaitStep ==
    ASSUME FuseInv, NEW r \in Requests, Trigger(r), is_ready, r \notin Instant,
           NEW k \in Missing(r), CallbackOnInodeCached(Needs[r][k], r),
           UNCHANGED <<stage, ready_conns, load_conns>>
    PROVE  FuseInv'
<1> DEFINE i == Needs[r][k]
<1> USE DEF FuseInv
<1> USE TriggerFacts
<1>1. i \in Inodes /\ i \notin local
  BY FuseAssumption DEF Missing
<1>2. /\ stage[r] \notin {"kernel", "posted"} /\ r \notin Direct
      /\ r \notin exposed => stage[r] = "open"
  <2>1. stage[r] \notin {"kernel", "posted"} /\ r \notin Direct
    BY DEF HeldIsBegun
  <2>2. r \notin exposed => stage[r] = "open"
    BY WaitingIsOpen
  <2>3. QED
    BY <2>1, <2>2
<1>3. waits' = [waits EXCEPT ![i] = Plus(waits[i], r)]
  BY DEF CallbackOnInodeCached, AddToList
<1> HIDE DEF i
<1>4. /\ waits' \in [Inodes -> Counts]
      /\ waits'[i][r] = waits[i][r] + 1
      /\ \A j \in Inodes, x \in Requests : j # i \/ x # r => waits'[j][x] = waits[j][x]
  <2>1. waits \in [Inodes -> Counts]
    BY DEF TypeOK
  <2>2. waits' \in [Inodes -> Counts] /\ waits'[i] = Plus(waits[i], r)
        /\ \A j \in Inodes : j # i => waits'[j] = waits[j]
    BY <1>1, <1>3, <2>1, PlusFacts
  <2>3. QED
    BY <1>1, <2>1, <2>2, PlusFacts
<1>5. /\ gets' \in [Inodes -> Nat] /\ gets'[i] > 0
      /\ \A j \in Inodes : gets[j] > 0 => gets'[j] > 0
      /\ is_overloaded' \in BOOLEAN /\ overloads' \in Nat
      /\ is_overloaded => is_overloaded'
      /\ is_ready' = is_ready /\ local' = local /\ broken' = broken /\ drops' = drops
  <2>1. CASE Listed(i)
    <3>1. UNCHANGED <<flags, store>>
      BY <2>1 DEF CallbackOnInodeCached, i
    <3>2. gets[i] > 0
      BY <1>1, <2>1 DEF Listed, ListedWaits
    <3>3. QED
      BY <3>1, <3>2 DEF flags, store, TypeOK
  <2>2. CASE ~Listed(i)
    <3>1. AskFor(i)
      BY <2>2 DEF CallbackOnInodeCached, i
    <3>2. QED
      BY <1>1, <3>1, AskForFacts
  <2>3. QED
    BY <2>1, <2>2
<1>6. TypeOK'
  BY <1>4, <1>5 DEF TypeOK
<1>7. HeldIsBegun' /\ HeldIsLive' /\ DirectIsAlone'
  BY DEF HeldIsBegun, HeldIsLive, DirectIsAlone
<1>8. ListedWaits'
  <2>1. ASSUME NEW j \in Inodes, NEW x \in Requests, waits'[j][x] > 0
        PROVE  /\ stage[x] \notin {"kernel", "posted"} /\ x \notin Direct
               /\ x \notin Instant /\ j \notin local /\ gets'[j] > 0
               /\ \E n \in DOMAIN Needs[x] : Needs[x][n] = j
    <3>1. CASE j = i /\ x = r
      <4>1. k \in DOMAIN Needs[r] /\ Needs[r][k] = i
        BY DEF Missing, i
      <4>2. QED
        BY <3>1, <4>1, <1>1, <1>2, <1>5
    <3>2. CASE j # i \/ x # r
      <4>1. waits[j][x] > 0
        BY <3>2, <2>1, <1>4
      <4>2. QED
        BY <4>1, <1>5, Zenon DEF ListedWaits
    <3>3. QED
      BY <3>1, <3>2
  <2>2. QED
    BY <2>1, <1>5, Zenon DEF ListedWaits
<1>9. ListedIsOpen'
  BY <1>2, <1>4 DEF ListedIsOpen
<1>10. AnswersStand'
  BY <1>5 DEF AnswersStand, Answered, Missing
<1>11. Once'
  <2>1. ASSUME NEW x \in Requests \ exposed, load_conns[x] = 0 PROVE InOnePlace(x)'
    <3>1. InOnePlace(x)
      BY <2>1 DEF Once
    <3>2. CASE x # r
      <4>1. /\ running'[x] = running[x]
            /\ \A j \in Inodes : waits'[j][x] = waits[j][x]
        BY <3>2, <1>4
      <4>2. QED
        BY <3>1, <4>1, <1>5, Zenon DEF InOnePlace
    <3>3. CASE x = r
      <4>1. \A j \in Inodes : waits[j][r] = 0
        BY <3>1, <3>3 DEF InOnePlace
      <4>2. /\ waits'[i][r] <= 1
            /\ \A j \in Inodes : j # i => waits'[j][r] <= 1 /\ ~(waits'[j][r] > 0)
        BY <4>1, <1>1, <1>4
      <4>3. running'[r] <= 1 /\ ~(running'[r] > 0)
        BY <3>1, <3>3 DEF InOnePlace, TypeOK, Counts
      <4>4. QED
        BY <3>1, <3>3, <4>2, <4>3, <1>5, Zenon DEF InOnePlace
    <3>4. QED
      BY <3>2, <3>3
  <2>2. QED
    BY <2>1, <1>5 DEF Once
<1>12. NobodyForgotten'
  <2>1. waits'[i][r] > 0 /\ gets'[i] > 0
    <3>1. waits[i][r] \in Nat
      BY <1>1 DEF TypeOK, Counts
    <3>2. QED
      BY <3>1, <1>4, <1>5
  <2>2. ASSUME NEW x \in Requests, x # r, stage[x] = "open"
        PROVE  \/ running'[x] > 0
               \/ \E j \in Inodes : waits'[j][x] > 0 /\ gets'[j] > 0
               \/ ready_conns[x] > 0 /\ ~is_ready
               \/ load_conns[x] > 0 /\ is_overloaded'
    <3>1. /\ running'[x] = running[x]
          /\ \A j \in Inodes : waits'[j][x] = waits[j][x]
      BY <2>2, <1>4
    <3>2. QED
      BY <2>2, <3>1, <1>5, Zenon DEF NobodyForgotten
  <2>3. QED
    BY <2>1, <2>2, <1>1, <1>5, Zenon DEF NobodyForgotten
<1>13. QED
  BY <1>6, <1>7, <1>8, <1>9, <1>10, <1>11, <1>12

LEMMA TriggerStep ==
    ASSUME FuseInv, NEW r \in Requests, Trigger(r)
    PROVE  FuseInv'
<1>1. CASE r \in Instant
  BY <1>1, AnswerStep DEF Trigger, Run
<1>2. CASE r \notin Instant /\ ~is_ready
  BY <1>2, ConnectStep DEF Trigger, Run
<1>3. CASE r \notin Instant /\ is_ready /\ is_overloaded
  BY <1>3, ConnectStep DEF Trigger, Run
<1>4. CASE r \notin Instant /\ is_ready /\ ~is_overloaded /\ Missing(r) = {}
  BY <1>4, AnswerStep DEF Trigger, Run
<1>5. CASE r \notin Instant /\ is_ready /\ ~is_overloaded /\ Missing(r) # {}
  <2>1. PICK k \in Missing(r) : CallbackOnInodeCached(Needs[r][k], r)
    BY <1>5 DEF Trigger, Run
  <2>2. UNCHANGED <<stage, ready_conns, load_conns>>
    BY <1>5 DEF Trigger, Run
  <2>3. QED
    BY <1>5, <2>1, <2>2, WaitStep
<1>6. QED
  BY <1>1, <1>2, <1>3, <1>4, <1>5

LEMMA NextPreserves == FuseInv /\ [Next]_vars => FuseInv'
<1> SUFFICES ASSUME FuseInv, [Next]_vars PROVE FuseInv'
  OBVIOUS
<1>1. ASSUME NEW r \in Requests, Issue(r) \/ IssueDirect(r) PROVE FuseInv'
  BY <1>1, IssueStep
<1>2. ASSUME NEW r \in Requests, MainLoop(r) PROVE FuseInv'
  BY <1>2, BeginStep, TriggerStep, DeleteStep DEF MainLoop
<1>3. CASE ReplyDirect
  BY <1>3, ReplyStep
<1>4. CASE StoreIsReady
  BY <1>4, StoreIsReadyStep
<1>5. CASE Prefetch
  BY <1>5, PrefetchStep
<1>6. CASE Overload
  BY <1>6, OverloadStep
<1>7. CASE LoadReduced
  BY <1>7, LoadReducedStep
<1>8. ASSUME NEW i \in Inodes, Download(i) PROVE FuseInv'
  BY <1>8, ReceivedInodeStep, DoctorFailedStep DEF Download
<1>9. ASSUME NEW i \in Inodes, DropCopy(i) PROVE FuseInv'
  BY <1>9, DropCopyStep
<1>10. CASE UNCHANGED vars
  <2> USE <1>10 DEF FuseInv, vars, objects, flags, store
  <2>1. TypeOK'
    BY DEF TypeOK
  <2>2. HeldIsBegun' /\ ListedWaits' /\ DirectIsAlone'
    BY DEF HeldIsBegun, ListedWaits, DirectIsAlone
  <2>3. HeldIsLive' /\ ListedIsOpen' /\ AnswersStand'
    BY DEF HeldIsLive, ListedIsOpen, AnswersStand, Answered, Missing
  <2>4. Once' /\ NobodyForgotten'
    BY DEF Once, InOnePlace, NobodyForgotten
  <2>5. QED
    BY <2>1, <2>2, <2>3, <2>4
<1>11. QED
  BY <1>1, <1>2, <1>3, <1>4, <1>5, <1>6, <1>7, <1>8, <1>9, <1>10 DEF Next, FuseThread

LEMMA FuseInvHolds == Spec => []FuseInv
  BY InitEstablishes, NextPreserves, PTL DEF Spec

-----------------------------------------------------------------------------

\* Type correctness: no count of downloads or turns goes below zero.
THEOREM RequestsTypeCorrect == Spec => []TypeOK
<1>1. FuseInv => TypeOK
  BY DEF FuseInv
<1>2. QED
  BY <1>1, FuseInvHolds, PTL

\* Neither a list nor the loop over one ever holds a deleted object, for any
\* requests and needs, and whenever the load is high, copies vanish and
\* downloads fail; but for the requests that lost an inode while connected to
\* loadReduced.
THEOREM CallbacksNeverDangle == Spec => []NoDanglingCallback
<1>1. FuseInv => NoDanglingCallback
  <2>1. ASSUME HeldIsLive, ListedIsOpen PROVE NoDanglingCallback
    BY <2>1 DEF HeldIsLive, ListedIsOpen, NoDanglingCallback, Held, Live
  <2>2. QED
    BY <2>1 DEF FuseInv
<1>2. QED
  BY <1>1, FuseInvHolds, PTL

\* With the same exception, a request that has been answered waits in no list.
THEOREM AnswersComeLast == Spec => []AnsweredWaitsNowhere
<1>1. FuseInv => AnsweredWaitsNowhere
  <2>1. ASSUME TypeOK, ListedIsOpen, NEW r \in Requests \ exposed, NEW i \in Inodes, Answered(r)
        PROVE  waits[i][r] = 0
    <3>1. ~(waits[i][r] > 0)
      BY <2>1 DEF ListedIsOpen, Answered
    <3>2. waits[i][r] \in Nat
      BY <2>1 DEF TypeOK, Counts
    <3>3. QED
      BY <3>1, <3>2
  <2>2. QED
    BY <2>1 DEF FuseInv, AnsweredWaitsNowhere
<1>2. QED
  BY <1>1, FuseInvHolds, PTL

\* Whoever is not answered is in the hands of somebody who will trigger it.
THEOREM RequestsNotForgotten == Spec => []NobodyForgotten
<1>1. FuseInv => NobodyForgotten
  BY DEF FuseInv
<1>2. QED
  BY <1>1, FuseInvHolds, PTL
===============================================================================

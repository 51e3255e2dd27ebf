---------------------------- MODULE AwsQueueProofs ----------------------------
(***************************************************************************)
(* Proofs about AwsQueue, for any requests, any queue length and any       *)
(* thresholds.                                                             *)
(***************************************************************************)
EXTENDS AwsQueue, FiniteSetTheorems, TLAPS

Replies == Requests \X {"live", "old"}

\* One more reply raises the number by at most one.
LEMMA AddReply ==
    ASSUME NEW S, IsFiniteSet(S), NEW x
    PROVE  /\ IsFiniteSet(S \cup {x})
           /\ Cardinality(S) \in Nat
           /\ Cardinality(S \cup {x}) \in Nat
           /\ Cardinality(S \cup {x}) <= Cardinality(S) + 1
  BY FS_AddElement, FS_CardinalityType

\* One reply less never raises it.
LEMMA DropReply ==
    ASSUME NEW S, IsFiniteSet(S), NEW x
    PROVE  /\ IsFiniteSet(S \ {x})
           /\ Cardinality(S \ {x}) \in Nat
           /\ Cardinality(S \ {x}) <= Cardinality(S)
           /\ x \in S => Cardinality(S \ {x}) = Cardinality(S) - 1
<1>1. /\ IsFiniteSet(S \ {x})
      /\ Cardinality(S \ {x}) = IF x \in S THEN Cardinality(S) - 1 ELSE Cardinality(S)
  BY FS_RemoveElement
<1>2. Cardinality(S) \in Nat /\ Cardinality(S \ {x}) \in Nat
  BY <1>1, FS_CardinalityType
<1> QED
  BY <1>1, <1>2

\* The reply a retry abandons takes the place of the live one.
LEMMA SwapReply ==
    ASSUME NEW S, IsFiniteSet(S), NEW x \in S, NEW y
    PROVE  /\ IsFiniteSet((S \ {x}) \cup {y})
           /\ Cardinality((S \ {x}) \cup {y}) <= Cardinality(S)
<1> DEFINE T == S \ {x}
<1>1. IsFiniteSet(T) /\ Cardinality(T) \in Nat /\ Cardinality(T) = Cardinality(S) - 1
  BY DropReply
<1>2. IsFiniteSet(T \cup {y}) /\ Cardinality(T \cup {y}) <= Cardinality(T) + 1
      /\ Cardinality(T \cup {y}) \in Nat
  BY <1>1, AddReply
<1>3. Cardinality(S) \in Nat
  BY FS_CardinalityType
<1> QED
  BY <1>1, <1>2, <1>3

\* A queue with an entry gives a request, and stays a queue of requests.
LEMMA TakeFirst ==
    ASSUME NEW q \in Seq(Requests), q # <<>>
    PROVE  Head(q) \in Requests /\ Tail(q) \in Seq(Requests)
  OBVIOUS

-----------------------------------------------------------------------------

(***************************************************************************)
(* The inductive invariant.  A request on the wire, in back-off or         *)
(* finished has a live reply (so a retry frees the slot it takes); before  *)
(* the first credentials nothing runs, and overload means that something   *)
(* is queued.                                                              *)
(***************************************************************************)
LiveReplies ==
    \A r \in Requests :
        phase[r] \in {"sent", "backoff", "finished"} => <<r, "live">> \in http_running

IdleBeforeReady == ~is_ready /\ overload_status => Queued > 0

QueueInv ==
    /\ TypeOK
    /\ IsFiniteSet(http_running)
    /\ RunningBounded
    /\ LiveReplies
    /\ IdleBeforeReady
    /\ NeverStalled

LEMMA InitQueueInv == Init => QueueInv
<1> SUFFICES ASSUME Init
             PROVE  QueueInv
  OBVIOUS
<1>1. IsFiniteSet({}) /\ Cardinality({}) = 0
  BY FS_EmptySet
<1>2. <<>> \in Seq(Requests) /\ Len(<<>>) = 0
  OBVIOUS
<1>3. TypeOK
  BY <1>2 DEF Init, TypeOK, Phases
<1>4. RunningBounded
  BY <1>1, QueueAssumption DEF Init, RunningBounded
<1> QED
  BY <1>1, <1>2, <1>3, <1>4
     DEF Init, QueueInv, LiveReplies, IdleBeforeReady, NeverStalled, Queued

\* The numbers behind the guards.
LEMMA QueueNumbers ==
    ASSUME QueueInv
    PROVE  /\ Cardinality(http_running) \in Nat
           /\ Queued \in Nat
           /\ Cardinality(http_running) > 0 => http_running # {}
<1>1. Cardinality(http_running) \in Nat
  BY FS_CardinalityType DEF QueueInv
<1>2. Queued \in Nat
  BY DEF QueueInv, TypeOK, Queued
<1>3. Cardinality({}) = 0
  BY FS_EmptySet
<1> QED
  BY <1>1, <1>2, <1>3

\* A request started or queued beside `replies' leaves the invariant intact.
LEMMA HttpV4Step ==
    ASSUME QueueInv,
           NEW r \in Requests, NEW replies \in SUBSET Replies,
           IsFiniteSet(replies), Cardinality(replies) <= Cardinality(http_running),
           replies = {} => http_running = {},
           \A s \in Requests \ {r} : <<s, "live">> \in http_running => <<s, "live">> \in replies,
           httpV4(r, replies), UNCHANGED <<iam, is_ready, fails>>
    PROVE  QueueInv'
<1> USE QueueAssumption
<1>1. Cardinality(replies) \in Nat /\ Cardinality(http_running) \in Nat /\ Queued \in Nat
  BY QueueNumbers, FS_CardinalityType
<1>2. CASE Free
  <2>1. /\ http_running' = replies \cup {<<r, "live">>}
        /\ phase' = [phase EXCEPT ![r] = "sent"]
        /\ UNCHANGED <<overload_status, http_queue, http_slow_queue>>
    BY <1>2 DEF httpV4, Start
  <2>2. TypeOK'
    BY <2>1 DEF QueueInv, TypeOK, Phases, Replies
  <2>3. IsFiniteSet(http_running)' /\ RunningBounded'
    <3> DEFINE more == replies \cup {<<r, "live">>}
    <3>1. IsFiniteSet(more) /\ Cardinality(more) \in Nat
          /\ Cardinality(more) <= Cardinality(replies) + 1
      BY AddReply
    <3>2. Cardinality(http_running) < QueueLength
      BY <1>2 DEF Free, HasSlot
    <3>3. Cardinality(more) <= QueueLength
      BY <1>1, <3>1, <3>2
    <3> QED
      BY <2>1, <3>1, <3>3 DEF RunningBounded
  <2>4. LiveReplies'
    BY <2>1 DEF QueueInv, TypeOK, LiveReplies
  <2>5. IdleBeforeReady' /\ NeverStalled'
    BY <1>2, <2>1 DEF Free, IdleBeforeReady, NeverStalled
  <2> QED
    BY <2>2, <2>3, <2>4, <2>5 DEF QueueInv
<1>3. CASE ~Free
  <2>1. /\ overload_status' = (overload_status \/ Queued > High)
        /\ http_running' = replies
        /\ http_queue' = Append(http_queue, r)
        /\ phase' = [phase EXCEPT ![r] = "queued"]
        /\ UNCHANGED http_slow_queue
    BY <1>3 DEF httpV4, Enqueue, CheckOverload
  <2>2. TypeOK'
    BY <2>1 DEF QueueInv, TypeOK, Phases, Replies
  <2>3. IsFiniteSet(http_running)' /\ RunningBounded'
    BY <1>1, <2>1 DEF QueueInv, RunningBounded
  <2>4. LiveReplies'
    BY <2>1 DEF QueueInv, TypeOK, LiveReplies
  <2>5. Queued' > 0
    BY <1>1, <2>1 DEF QueueInv, TypeOK, Queued
  <2>6. is_ready' => http_running' # {}
    BY <1>1, <1>3, <2>1, QueueNumbers DEF Free, HasSlot
  <2> QED
    BY <2>2, <2>3, <2>4, <2>5, <2>6 DEF QueueInv, IdleBeforeReady, NeverStalled
<1> QED
  BY <1>2, <1>3

\* runQueue beside `replies' keeps the limit, and leaves an entry waiting only
\* when a reply is alive to wake it.
LEMMA RunQueueStep ==
    ASSUME QueueInv,
           NEW ready \in BOOLEAN, NEW replies \in SUBSET Replies,
           NEW ph \in [Requests -> Phases],
           IsFiniteSet(replies), Cardinality(replies) <= QueueLength,
           \A s \in Requests :
               ph[s] \in {"sent", "backoff", "finished"} => <<s, "live">> \in replies,
           runQueue(ready, replies, ph)
    PROVE  /\ IsFiniteSet(http_running') /\ RunningBounded' /\ LiveReplies'
           /\ http_running' \in SUBSET Replies
           /\ phase' \in [Requests -> Phases]
           /\ http_queue' \in Seq(Requests) /\ http_slow_queue' \in Seq(Requests)
           /\ ready /\ Queued > 0 => http_running' # {}
           /\ ~ready => Queued' = Queued
           /\ Queued = 0 => Queued' = 0
<1> USE QueueAssumption
<1>1. /\ Cardinality(replies) \in Nat /\ Queued \in Nat
      /\ Len(http_queue) \in Nat /\ Len(http_slow_queue) \in Nat
      /\ http_queue \in Seq(Requests) /\ http_slow_queue \in Seq(Requests)
  BY QueueNumbers, FS_CardinalityType DEF QueueInv, TypeOK
<1>2. ASSUME NEW r \in Requests, HasSlot(replies), StartQueued(r, replies, ph)
      PROVE  /\ IsFiniteSet(http_running') /\ RunningBounded' /\ LiveReplies'
             /\ http_running' \in SUBSET Replies /\ http_running' # {}
             /\ phase' \in [Requests -> Phases]
  <2> DEFINE more == replies \cup {<<r, "live">>}
  <2>1. http_running' = more /\ phase' = [ph EXCEPT ![r] = "sent"]
    BY <1>2 DEF StartQueued
  <2>2. IsFiniteSet(more) /\ Cardinality(more) \in Nat
        /\ Cardinality(more) <= Cardinality(replies) + 1
    BY AddReply
  <2>3. Cardinality(more) <= QueueLength
    BY <1>1, <1>2, <2>2 DEF HasSlot
  <2>4. LiveReplies'
    BY <2>1 DEF LiveReplies
  <2>5. phase' \in [Requests -> Phases] /\ more \in SUBSET Replies
    BY <2>1 DEF Phases, Replies
  <2> QED
    BY <2>1, <2>2, <2>3, <2>4, <2>5 DEF RunningBounded
<1>3. CASE ready /\ HasSlot(replies) /\ Queued > 0
  <2>1. CASE RunFast(replies, ph)
    <3>1. Head(http_queue) \in Requests /\ Tail(http_queue) \in Seq(Requests)
      BY <1>1, <2>1, TakeFirst DEF RunFast
    <3>2. /\ StartQueued(Head(http_queue), replies, ph)
          /\ http_queue' = Tail(http_queue) /\ http_slow_queue' = http_slow_queue
      BY <2>1 DEF RunFast
    <3> QED
      BY <1>1, <1>2, <1>3, <3>1, <3>2
  <2>2. CASE RunSlow(replies, ph)
    <3>1. Head(http_slow_queue) \in Requests /\ Tail(http_slow_queue) \in Seq(Requests)
      BY <1>1, <2>2, TakeFirst DEF RunSlow
    <3>2. /\ StartQueued(Head(http_slow_queue), replies, ph)
          /\ http_slow_queue' = Tail(http_slow_queue) /\ http_queue' = http_queue
      BY <2>2 DEF RunSlow
    <3> QED
      BY <1>1, <1>2, <1>3, <3>1, <3>2
  <2> QED
    BY <1>3, <2>1, <2>2 DEF runQueue
<1>4. CASE ~(ready /\ HasSlot(replies) /\ Queued > 0)
  <2>1. /\ http_running' = replies /\ phase' = ph
        /\ http_queue' = http_queue /\ http_slow_queue' = http_slow_queue
    BY <1>4 DEF runQueue, RunNothing
  <2>2. Queued' = Queued
    BY <2>1 DEF Queued
  <2>3. RunningBounded' /\ LiveReplies'
    BY <2>1 DEF RunningBounded, LiveReplies
  <2>4. ready /\ Queued > 0 => replies # {}
    <3>1. ~HasSlot(replies) => Cardinality(replies) # 0
      BY <1>1 DEF HasSlot
    <3>2. replies = {} => Cardinality(replies) = 0
      BY FS_EmptySet, Zenon
    <3> QED
      BY <1>4, <3>1, <3>2, Zenon
  <2> QED
    BY <1>1, <2>1, <2>2, <2>3, <2>4
<1> QED
  BY <1>3, <1>4

\* A dying reply leaves the invariant intact.
LEMMA DestroyedStep ==
    ASSUME QueueInv,
           NEW reply \in Replies, NEW ph \in [Requests -> Phases],
           \A s \in Requests :
               ph[s] \in {"sent", "backoff", "finished"}
               => <<s, "live">> \in http_running \ {reply},
           replyDestroyed(reply, ph), UNCHANGED <<iam, is_ready, fails>>
    PROVE  QueueInv'
<1> USE QueueAssumption
<1> DEFINE rest == http_running \ {reply}
<1>1. IsFiniteSet(rest) /\ Cardinality(rest) <= QueueLength
  <2>1. IsFiniteSet(http_running) /\ Cardinality(http_running) <= QueueLength
    BY DEF QueueInv, RunningBounded
  <2>2. IsFiniteSet(rest) /\ Cardinality(rest) \in Nat
        /\ Cardinality(rest) <= Cardinality(http_running)
    BY <2>1, DropReply
  <2> QED
    BY <2>1, <2>2, QueueNumbers
<1>2. rest \in SUBSET Replies /\ is_ready \in BOOLEAN /\ overload_status \in BOOLEAN
  BY DEF QueueInv, TypeOK, Replies
<1>3. runQueue(is_ready, rest, ph) /\ overload_status' = (overload_status /\ Queued >= Low)
  BY DEF replyDestroyed, ClearOverload
<1>4. /\ IsFiniteSet(http_running') /\ RunningBounded' /\ LiveReplies'
      /\ http_running' \in SUBSET Replies
      /\ phase' \in [Requests -> Phases]
      /\ http_queue' \in Seq(Requests) /\ http_slow_queue' \in Seq(Requests)
      /\ is_ready /\ Queued > 0 => http_running' # {}
      /\ ~is_ready => Queued' = Queued
      /\ Queued = 0 => Queued' = 0
  <2> HIDE DEF rest
  <2> QED
    BY <1>1, <1>2, <1>3, RunQueueStep DEF rest
<1>5. TypeOK'
  BY <1>2, <1>3, <1>4 DEF QueueInv, TypeOK, Replies
<1>6. Queued \in Nat
  BY QueueNumbers
<1>7. Queued >= Low => Queued > 0
  BY <1>6
<1>8. IdleBeforeReady'
  BY <1>3, <1>4, <1>7 DEF IdleBeforeReady
<1>9. NeverStalled'
  <2>1. Queued' > 0 => Queued > 0
    BY <1>4, <1>6
  <2>2. is_ready' = is_ready
    OBVIOUS
  <2>3. overload_status' => Queued > 0
    BY <1>3, <1>7
  <2>4. (Queued > 0)' => Queued > 0
    BY <2>1
  <2> QED
    BY <1>4, <2>2, <2>3, <2>4 DEF NeverStalled
<1> QED
  BY <1>4, <1>5, <1>8, <1>9 DEF QueueInv

-----------------------------------------------------------------------------

\* Every step of the queue preserves the invariant.
LEMMA NextQueueInv == QueueInv /\ [Next]_vars => QueueInv'
<1> SUFFICES ASSUME QueueInv, [Next]_vars
             PROVE  QueueInv'
  OBVIOUS
<1>0. IsFiniteSet(http_running) /\ http_running \in SUBSET Replies
      /\ phase \in [Requests -> Phases]
      /\ Cardinality(http_running) \in Nat
  BY QueueNumbers DEF QueueInv, TypeOK, Replies
<1>1. ASSUME NEW r \in Requests, Issue(r)
      PROVE  QueueInv'
  <2>1. httpV4(r, http_running) /\ UNCHANGED <<iam, is_ready, fails>>
    BY <1>1 DEF Issue
  <2> QED
    BY <1>0, <2>1, HttpV4Step
<1>2. ASSUME NEW r \in Requests, IssuePut(r)
      PROVE  QueueInv'
  <2>1. httpSlowV4(r) /\ UNCHANGED <<iam, is_ready, fails>>
    BY <1>2 DEF IssuePut
  <2>2. CASE Free
    <3>1. httpV4(r, http_running)
      BY <2>1, <2>2 DEF httpSlowV4
    <3> QED
      BY <1>0, <2>1, <3>1, HttpV4Step
  <2>3. CASE ~Free
    <3>1. /\ overload_status' = (overload_status \/ Queued > High)
          /\ http_slow_queue' = Append(http_slow_queue, r)
          /\ phase' = [phase EXCEPT ![r] = "queued"]
          /\ UNCHANGED <<http_running, http_queue>>
      BY <2>1, <2>3 DEF httpSlowV4, EnqueueSlow, CheckOverload
    <3>2. TypeOK'
      BY <2>1, <3>1 DEF QueueInv, TypeOK, Phases
    <3>3. LiveReplies' /\ RunningBounded' /\ IsFiniteSet(http_running)'
      BY <1>0, <3>1 DEF QueueInv, LiveReplies, RunningBounded
    <3>4. Queued' > 0
      BY <3>1 DEF QueueInv, TypeOK, Queued
    <3>5. is_ready => http_running # {}
      <4>1. ~HasSlot(http_running) => Cardinality(http_running) > 0
        BY <1>0, QueueAssumption DEF HasSlot
      <4>2. ~HasSlot(http_running) => http_running # {}
        BY <4>1, QueueNumbers
      <4> QED
        BY <2>3, <4>2 DEF Free
    <3> QED
      BY <2>1, <3>1, <3>2, <3>3, <3>4, <3>5 DEF QueueInv, IdleBeforeReady, NeverStalled
  <2> QED
    BY <2>2, <2>3
<1>3. ASSUME NEW r \in Requests, Finish(r) \/ Fail(r)
      PROVE  QueueInv'
  <2>1. /\ phase[r] = "sent"
        /\ phase' = [phase EXCEPT ![r] = "finished"] \/ phase' = [phase EXCEPT ![r] = "backoff"]
        /\ UNCHANGED <<iam, is_ready, overload_status, http_running, http_queue, http_slow_queue>>
    BY <1>3 DEF Finish, Fail
  <2>2. fails' \in Nat
    BY <1>3 DEF Finish, Fail, QueueInv, TypeOK
  <2>3. TypeOK'
    BY <2>1, <2>2 DEF QueueInv, TypeOK, Phases
  <2>4. LiveReplies'
    BY <1>0, <2>1 DEF QueueInv, LiveReplies
  <2> QED
    BY <2>1, <2>3, <2>4
       DEF QueueInv, RunningBounded, IdleBeforeReady, NeverStalled, Queued
<1>4. ASSUME NEW r \in Requests, Retry(r)
      PROVE  QueueInv'
  <2> DEFINE left == (http_running \ {<<r, "live">>}) \cup {<<r, "old">>}
  <2>1. phase[r] = "backoff" /\ httpV4(r, left) /\ UNCHANGED <<iam, is_ready, fails>>
    BY <1>4 DEF Retry
  <2>2. <<r, "live">> \in http_running
    BY <2>1 DEF QueueInv, LiveReplies
  <2>3. IsFiniteSet(left) /\ Cardinality(left) <= Cardinality(http_running)
    BY <1>0, <2>2, SwapReply
  <2>4. left \in SUBSET Replies /\ left # {}
    <3>1. <<r, "old">> \in Replies /\ <<r, "old">> \in left
      BY DEF Replies
    <3> QED
      BY <1>0, <3>1
  <2>5. \A s \in Requests \ {r} : <<s, "live">> \in http_running => <<s, "live">> \in left
    OBVIOUS
  <2> HIDE DEF left
  <2> QED
    BY <2>1, <2>3, <2>4, <2>5, HttpV4Step
<1>5. ASSUME NEW r \in Requests, Destroy(r)
      PROVE  QueueInv'
  <2> DEFINE ph == [phase EXCEPT ![r] = "gone"]
  <2>1. replyDestroyed(<<r, "live">>, ph) /\ UNCHANGED <<iam, is_ready, fails>>
    BY <1>5 DEF Destroy
  <2>2. ph \in [Requests -> Phases] /\ <<r, "live">> \in Replies
    BY <1>0 DEF Phases, Replies
  <2>3. \A s \in Requests : ph[s] \in {"sent", "backoff", "finished"}
            => <<s, "live">> \in http_running \ {<<r, "live">>}
    BY <1>0 DEF QueueInv, LiveReplies
  <2> HIDE DEF ph
  <2> QED
    BY <2>1, <2>2, <2>3, DestroyedStep
<1>6. ASSUME NEW r \in Requests, DestroyOld(r)
      PROVE  QueueInv'
  <2>1. replyDestroyed(<<r, "old">>, phase) /\ UNCHANGED <<iam, is_ready, fails>>
    BY <1>6 DEF DestroyOld
  <2>2. <<r, "old">> \in Replies
    BY DEF Replies
  <2>3. \A s \in Requests : phase[s] \in {"sent", "backoff", "finished"}
            => <<s, "live">> \in http_running \ {<<r, "old">>}
    BY DEF QueueInv, LiveReplies
  <2> QED
    BY <1>0, <2>1, <2>2, <2>3, DestroyedStep
<1>7. CASE Credentials
  <2>1. is_ready' = TRUE /\ runQueue(TRUE, http_running, phase)
        /\ UNCHANGED <<iam, overload_status, fails>>
    BY <1>7 DEF Credentials
  <2>2. \A s \in Requests : phase[s] \in {"sent", "backoff", "finished"}
            => <<s, "live">> \in http_running
    BY DEF QueueInv, LiveReplies
  <2>3. Cardinality(http_running) <= QueueLength
    BY DEF QueueInv, RunningBounded
  <2>4. /\ IsFiniteSet(http_running') /\ RunningBounded' /\ LiveReplies'
        /\ http_running' \in SUBSET Replies
        /\ phase' \in [Requests -> Phases]
        /\ http_queue' \in Seq(Requests) /\ http_slow_queue' \in Seq(Requests)
        /\ Queued > 0 => http_running' # {}
        /\ Queued = 0 => Queued' = 0
    BY <1>0, <2>1, <2>2, <2>3, RunQueueStep
  <2>5. TypeOK'
    BY <2>1, <2>4 DEF QueueInv, TypeOK, Replies
  <2>6. NeverStalled'
    <3>1. CASE Queued > 0
      BY <2>4, <3>1 DEF NeverStalled
    <3>2. CASE ~(Queued > 0)
      <4>1. Queued = 0 /\ ~(Queued' > 0)
        BY <2>4, <3>2, QueueNumbers
      <4>2. CASE is_ready /\ overload_status
        <5>1. http_running # {}
          BY <4>2 DEF QueueInv, NeverStalled
        <5>2. http_running \subseteq http_running'
          BY <2>1, <3>2 DEF runQueue, RunNothing
        <5> QED
          BY <5>1, <5>2 DEF NeverStalled
      <4>3. CASE ~(is_ready /\ overload_status)
        <5>1. ~overload_status
          BY <3>2, <4>3 DEF QueueInv, IdleBeforeReady
        <5>2. ~overload_status' /\ ~(Queued > 0)'
          BY <2>1, <4>1, <5>1
        <5> QED
          BY <5>2 DEF NeverStalled
      <4> QED
        BY <4>2, <4>3
    <3> QED
      BY <3>1, <3>2
  <2> QED
    BY <2>1, <2>4, <2>5, <2>6 DEF QueueInv, IdleBeforeReady
<1>8. CASE UNCHANGED vars
  BY <1>8 DEF vars, QueueInv, TypeOK, RunningBounded, LiveReplies,
              IdleBeforeReady, NeverStalled, Queued
<1> QED
  BY <1>1, <1>2, <1>3, <1>4, <1>5, <1>6, <1>7, <1>8 DEF Next

LEMMA QueueInvariant == Spec => []QueueInv
  BY InitQueueInv, NextQueueInv, PTL DEF Spec

(***************************************************************************)
(* The state of S3FS_Aws is well typed in every reachable state.           *)
(***************************************************************************)
THEOREM QueueTypeCorrect == Spec => []TypeOK
<1>1. QueueInv => TypeOK
  BY DEF QueueInv
<1> QED
  BY <1>1, QueueInvariant, PTL

(***************************************************************************)
(* At most S3FS_AWS_QUEUE_LENGTH replies are ever alive, for every number  *)
(* of requests, failures and retries.                                      *)
(***************************************************************************)
THEOREM RunningStaysBounded == Spec => []RunningBounded
<1>1. QueueInv => RunningBounded
  BY DEF QueueInv
<1> QED
  BY <1>1, QueueInvariant, PTL

(***************************************************************************)
(* A ready queue with entries, or with overload flagged, always has a      *)
(* reply alive whose end will run it again, whatever the thresholds.       *)
(***************************************************************************)
THEOREM QueueNeverStalls == Spec => []NeverStalled
<1>1. QueueInv => NeverStalled
  BY DEF QueueInv
<1> QED
  BY <1>1, QueueInvariant, PTL

-----------------------------------------------------------------------------

\* A request is in a queue; no request is there twice.
In(q, r) == \E i \in 1 .. Len(q) : q[i] = r
Once(q) == \A i, j \in 1 .. Len(q) : q[i] = q[j] => i = j

\* Where the requests are, with these queues, phases and replies.
Places(q, s, ph, replies) ==
    /\ Once(q) /\ Once(s)
    /\ \A r \in Requests :
          /\ ph[r] = "queued" <=> In(q, r) \/ In(s, r)
          /\ ~(In(q, r) /\ In(s, r))
          /\ <<r, "live">> \in replies <=> ph[r] \in {"sent", "backoff", "finished"}

PlacesNow == Places(http_queue, http_slow_queue, phase, http_running)

LEMMA AppendPlaces ==
    ASSUME NEW q \in Seq(Requests), NEW r \in Requests
    PROVE  /\ \A o : In(Append(q, r), o) <=> In(q, o) \/ o = r
           /\ Once(q) /\ ~In(q, r) => Once(Append(q, r))
<1>1. /\ Len(q) \in Nat /\ Len(Append(q, r)) = Len(q) + 1
      /\ \A i \in 1 .. Len(q) : Append(q, r)[i] = q[i]
      /\ Append(q, r)[Len(q) + 1] = r
  OBVIOUS
<1>2. \A i \in 1 .. Len(q) + 1 : i \in 1 .. Len(q) \/ i = Len(q) + 1
  BY <1>1
<1>3. 1 .. Len(q) \subseteq 1 .. Len(q) + 1 /\ Len(q) + 1 \in 1 .. Len(q) + 1
  BY <1>1
<1>4. \A o : In(Append(q, r), o) <=> In(q, o) \/ o = r
  BY <1>1, <1>2, <1>3 DEF In
<1>5. Once(q) /\ ~In(q, r) => Once(Append(q, r))
  BY <1>1, <1>2 DEF In, Once
<1> QED
  BY <1>4, <1>5

LEMMA TailPlaces ==
    ASSUME NEW q \in Seq(Requests), q # <<>>, Once(q)
    PROVE  /\ \A o : In(q, o) <=> In(Tail(q), o) \/ o = Head(q)
           /\ Once(Tail(q)) /\ ~In(Tail(q), Head(q))
<1>1. /\ Len(q) \in Nat /\ Len(q) >= 1 /\ Len(Tail(q)) = Len(q) - 1 /\ Head(q) = q[1]
      /\ \A i \in 1 .. Len(q) - 1 : Tail(q)[i] = q[i + 1]
  OBVIOUS
<1>2. \A i \in 1 .. Len(q) : i = 1 \/ (i - 1 \in 1 .. Len(q) - 1 /\ q[i] = Tail(q)[i - 1])
  BY <1>1
<1>3. \A i \in 1 .. Len(q) - 1 : i + 1 \in 1 .. Len(q) /\ i + 1 # 1
  BY <1>1
<1>4. \A o : In(q, o) => In(Tail(q), o) \/ o = Head(q)
  BY <1>1, <1>2 DEF In
<1>5. \A o : In(Tail(q), o) \/ o = Head(q) => In(q, o)
  BY <1>1, <1>3 DEF In
<1>6. Once(Tail(q))
  <2> SUFFICES ASSUME NEW i \in 1 .. Len(q) - 1, NEW j \in 1 .. Len(q) - 1,
                      Tail(q)[i] = Tail(q)[j]
               PROVE  i = j
    BY <1>1 DEF Once
  <2>1. i + 1 = j + 1
    BY <1>1, <1>3 DEF Once
  <2> QED
    BY <2>1
<1>7. ~In(Tail(q), Head(q))
  <2> SUFFICES ASSUME NEW i \in 1 .. Len(q) - 1, Tail(q)[i] = q[1] PROVE FALSE
    BY <1>1 DEF In
  <2>1. i + 1 \in 1 .. Len(q) /\ 1 \in 1 .. Len(q) /\ q[i + 1] = q[1] /\ i + 1 # 1
    BY <1>1, <1>3
  <2> QED
    BY <2>1 DEF Once
<1> QED
  BY <1>4, <1>5, <1>6, <1>7

LEMMA InitPlaces == Init => PlacesNow
<1> SUFFICES ASSUME Init PROVE PlacesNow
  OBVIOUS
<1>1. Once(<<>>) /\ \A o : ~In(<<>>, o)
  BY DEF Once, In
<1> QED
  BY <1>1 DEF Init, PlacesNow, Places

\* The request is started, or put at the end of the queue.
LEMMA HttpV4Places ==
    ASSUME QueueInv, PlacesNow, NEW r \in Requests, phase[r] \in {"new", "backoff"},
           NEW replies, <<r, "live">> \notin replies,
           \A o \in Requests : o # r =>
               (<<o, "live">> \in replies <=> <<o, "live">> \in http_running),
           httpV4(r, replies)
    PROVE  PlacesNow'
<1>1. /\ phase \in [Requests -> Phases]
      /\ http_queue \in Seq(Requests) /\ http_slow_queue \in Seq(Requests)
  BY DEF QueueInv, TypeOK
<1>2. ~In(http_queue, r) /\ ~In(http_slow_queue, r)
  BY DEF PlacesNow, Places
<1>3. CASE Free
  <2>1. /\ http_running' = replies \cup {<<r, "live">>}
        /\ phase' = [phase EXCEPT ![r] = "sent"]
        /\ http_queue' = http_queue /\ http_slow_queue' = http_slow_queue
    BY <1>3 DEF httpV4, Start
  <2>2. \A o \in Requests :
            <<o, "live">> \in http_running' <=> o = r \/ <<o, "live">> \in http_running
    BY <2>1
  <2> QED
    BY <1>1, <1>2, <2>1, <2>2 DEF PlacesNow, Places
<1>4. CASE ~Free
  <2>1. /\ http_running' = replies
        /\ http_queue' = Append(http_queue, r)
        /\ phase' = [phase EXCEPT ![r] = "queued"]
        /\ http_slow_queue' = http_slow_queue
    BY <1>4 DEF httpV4, Enqueue
  <2>2. /\ \A o : In(http_queue', o) <=> In(http_queue, o) \/ o = r
        /\ Once(http_queue')
    BY <1>1, <1>2, <2>1, AppendPlaces DEF PlacesNow, Places
  <2> QED
    BY <1>1, <1>2, <2>1, <2>2 DEF PlacesNow, Places
<1> QED
  BY <1>3, <1>4

\* One request at most leaves its queue for the wire.
LEMMA RunQueuePlaces ==
    ASSUME QueueInv, NEW ready, NEW replies, NEW ph \in [Requests -> Phases],
           Places(http_queue, http_slow_queue, ph, replies),
           runQueue(ready, replies, ph)
    PROVE  PlacesNow'
<1>1. http_queue \in Seq(Requests) /\ http_slow_queue \in Seq(Requests)
  BY DEF QueueInv, TypeOK
<1>2. CASE RunFast(replies, ph)
  <2> DEFINE r == Head(http_queue)
  <2>1. /\ http_queue # <<>> /\ r \in Requests
        /\ http_running' = replies \cup {<<r, "live">>}
        /\ phase' = [ph EXCEPT ![r] = "sent"]
        /\ http_queue' = Tail(http_queue) /\ http_slow_queue' = http_slow_queue
    BY <1>1, <1>2 DEF RunFast, StartQueued
  <2>2. /\ \A o : In(http_queue, o) <=> In(http_queue', o) \/ o = r
        /\ Once(http_queue') /\ ~In(http_queue', r)
    BY <1>1, <2>1, TailPlaces DEF Places
  <2> HIDE DEF r
  <2> QED
    BY <2>1, <2>2 DEF PlacesNow, Places
<1>3. CASE RunSlow(replies, ph)
  <2> DEFINE r == Head(http_slow_queue)
  <2>1. /\ http_slow_queue # <<>> /\ r \in Requests
        /\ http_running' = replies \cup {<<r, "live">>}
        /\ phase' = [ph EXCEPT ![r] = "sent"]
        /\ http_slow_queue' = Tail(http_slow_queue) /\ http_queue' = http_queue
    BY <1>1, <1>3 DEF RunSlow, StartQueued
  <2>2. /\ \A o : In(http_slow_queue, o) <=> In(http_slow_queue', o) \/ o = r
        /\ Once(http_slow_queue') /\ ~In(http_slow_queue', r)
    BY <1>1, <2>1, TailPlaces DEF Places
  <2> HIDE DEF r
  <2> QED
    BY <2>1, <2>2 DEF PlacesNow, Places
<1>4. CASE RunNothing(replies, ph)
  BY <1>4 DEF RunNothing, PlacesNow
<1> QED
  BY <1>2, <1>3, <1>4 DEF runQueue

LEMMA NextPlaces == QueueInv /\ PlacesNow /\ [Next]_vars => PlacesNow'
<1> SUFFICES ASSUME QueueInv, PlacesNow, [Next]_vars PROVE PlacesNow'
  OBVIOUS
<1>0. phase \in [Requests -> Phases]
  BY DEF QueueInv, TypeOK
<1>1. ASSUME NEW r \in Requests, Issue(r) PROVE PlacesNow'
  <2>1. httpV4(r, http_running) /\ phase[r] = "new"
    BY <1>1 DEF Issue
  <2>2. <<r, "live">> \notin http_running
    BY <2>1 DEF PlacesNow, Places
  <2> QED
    BY <2>1, <2>2, HttpV4Places
<1>2. ASSUME NEW r \in Requests, IssuePut(r) PROVE PlacesNow'
  <2>1. httpSlowV4(r) /\ phase[r] = "new"
    BY <1>2 DEF IssuePut
  <2>2. <<r, "live">> \notin http_running /\ ~In(http_queue, r) /\ ~In(http_slow_queue, r)
    BY <2>1 DEF PlacesNow, Places
  <2>3. CASE Free
    BY <2>1, <2>2, <2>3, HttpV4Places DEF httpSlowV4
  <2>4. CASE ~Free
    <3>1. /\ http_slow_queue' = Append(http_slow_queue, r)
          /\ phase' = [phase EXCEPT ![r] = "queued"]
          /\ http_running' = http_running /\ http_queue' = http_queue
      BY <2>1, <2>4 DEF httpSlowV4, EnqueueSlow
    <3>2. /\ \A o : In(http_slow_queue', o) <=> In(http_slow_queue, o) \/ o = r
          /\ Once(http_slow_queue')
      BY <2>2, <3>1, AppendPlaces DEF PlacesNow, Places, QueueInv, TypeOK
    <3> QED
      BY <1>0, <2>2, <3>1, <3>2 DEF PlacesNow, Places
  <2> QED
    BY <2>3, <2>4
<1>3. ASSUME NEW r \in Requests, Finish(r) \/ Fail(r) PROVE PlacesNow'
  <2>1. /\ phase[r] = "sent"
        /\ phase' = [phase EXCEPT ![r] = "finished"] \/ phase' = [phase EXCEPT ![r] = "backoff"]
        /\ UNCHANGED <<http_running, http_queue, http_slow_queue>>
    BY <1>3 DEF Finish, Fail
  <2> QED
    BY <1>0, <2>1 DEF PlacesNow, Places
<1>4. ASSUME NEW r \in Requests, Retry(r) PROVE PlacesNow'
  <2> DEFINE kept == (http_running \ {<<r, "live">>}) \cup {<<r, "old">>}
  <2>1. phase[r] = "backoff" /\ httpV4(r, kept)
    BY <1>4 DEF Retry
  <2>2. <<r, "live">> \notin kept
    OBVIOUS
  <2>3. \A o \in Requests : o # r =>
            (<<o, "live">> \in kept <=> <<o, "live">> \in http_running)
    OBVIOUS
  <2> HIDE DEF kept
  <2> QED
    BY <2>1, <2>2, <2>3, HttpV4Places
<1>5. ASSUME NEW r \in Requests, Destroy(r) PROVE PlacesNow'
  <2> DEFINE ph == [phase EXCEPT ![r] = "gone"]
             rest == http_running \ {<<r, "live">>}
  <2>1. phase[r] = "finished" /\ runQueue(is_ready, rest, ph)
    BY <1>5 DEF Destroy, replyDestroyed
  <2>2. ph \in [Requests -> Phases]
    BY <1>0 DEF Phases
  <2>3. Places(http_queue, http_slow_queue, ph, rest)
    BY <1>0, <2>1 DEF PlacesNow, Places
  <2> HIDE DEF ph, rest
  <2> QED
    BY <2>1, <2>2, <2>3, RunQueuePlaces
<1>6. ASSUME NEW r \in Requests, DestroyOld(r) PROVE PlacesNow'
  <2> DEFINE rest == http_running \ {<<r, "old">>}
  <2>1. runQueue(is_ready, rest, phase)
    BY <1>6 DEF DestroyOld, replyDestroyed
  <2>2. Places(http_queue, http_slow_queue, phase, rest)
    BY DEF PlacesNow, Places
  <2> HIDE DEF rest
  <2> QED
    BY <1>0, <2>1, <2>2, RunQueuePlaces
<1>7. CASE Credentials
  BY <1>0, <1>7, RunQueuePlaces DEF Credentials, PlacesNow
<1>8. CASE UNCHANGED vars
  BY <1>8 DEF vars, PlacesNow
<1> QED
  BY <1>1, <1>2, <1>3, <1>4, <1>5, <1>6, <1>7, <1>8 DEF Next

LEMMA PlacesAlways == Spec => [](QueueInv /\ PlacesNow)
<1>1. Init => QueueInv /\ PlacesNow
  BY InitQueueInv, InitPlaces
<1>2. QueueInv /\ PlacesNow /\ [Next]_vars => (QueueInv /\ PlacesNow)'
  BY NextQueueInv, NextPlaces
<1> QED
  BY <1>1, <1>2, PTL DEF Spec

\* How often a request is in a queue that has none twice.
LEMMA CountedOnce ==
    ASSUME NEW q \in Seq(Requests), Once(q), NEW r \in Requests
    PROVE  Cardinality({i \in DOMAIN q : q[i] = r}) = IF In(q, r) THEN 1 ELSE 0
<1>1. DOMAIN q = 1 .. Len(q)
  OBVIOUS
<1>2. CASE In(q, r)
  <2>1. PICK k \in 1 .. Len(q) : q[k] = r
    BY <1>2 DEF In
  <2>2. {i \in DOMAIN q : q[i] = r} = {k}
    BY <1>1, <2>1 DEF Once
  <2>3. Cardinality({k}) = 1
    BY FS_Singleton
  <2> QED
    BY <1>2, <2>2, <2>3
<1>3. CASE ~In(q, r)
  <2>1. {i \in DOMAIN q : q[i] = r} = {}
    BY <1>1, <1>3 DEF In
  <2> QED
    BY <1>3, <2>1, FS_EmptySet
<1> QED
  BY <1>2, <1>3

(***************************************************************************)
(* No request is ever lost, queued twice or on the wire twice, for every   *)
(* number of requests, failures, retries and late deletions.               *)
(***************************************************************************)
THEOREM RequestsInOnePlace == Spec => []RequestInOnePlace
<1>1. QueueInv /\ PlacesNow => RequestInOnePlace
  <2> SUFFICES ASSUME QueueInv, PlacesNow, NEW r \in Requests
               PROVE  /\ Occurrences(r) = IF phase[r] = "queued" THEN 1 ELSE 0
                      /\ <<r, "live">> \in http_running
                            <=> phase[r] \in {"sent", "backoff", "finished"}
    BY DEF RequestInOnePlace
  <2>1. http_queue \in Seq(Requests) /\ http_slow_queue \in Seq(Requests)
    BY DEF QueueInv, TypeOK
  <2>2. /\ Cardinality({i \in DOMAIN http_queue : http_queue[i] = r})
              = IF In(http_queue, r) THEN 1 ELSE 0
        /\ Cardinality({i \in DOMAIN http_slow_queue : http_slow_queue[i] = r})
              = IF In(http_slow_queue, r) THEN 1 ELSE 0
    BY <2>1, CountedOnce DEF PlacesNow, Places
  <2>3. /\ phase[r] = "queued" <=> In(http_queue, r) \/ In(http_slow_queue, r)
        /\ ~(In(http_queue, r) /\ In(http_slow_queue, r))
        /\ <<r, "live">> \in http_running <=> phase[r] \in {"sent", "backoff", "finished"}
    BY DEF PlacesNow, Places
  <2> QED
    BY <2>2, <2>3 DEF Occurrences
<1> QED
  BY <1>1, PlacesAlways, PTL
-----------------------------------------------------------------------------

(***************************************************************************)
(* With credentials from the file the queue is ready from the start, and   *)
(* an entry waits only beside a full set of replies.                       *)
(***************************************************************************)
Full == Queued > 0 => Cardinality(http_running) = QueueLength
FullInv == ~iam => is_ready /\ Full

\* A request is queued only when no slot is left.
LEMMA HttpV4Full ==
    ASSUME QueueInv, is_ready, Full, NEW r, NEW replies,
           Cardinality(replies) = Cardinality(http_running),
           httpV4(r, replies)
    PROVE  Full'
<1>1. /\ Cardinality(http_running) \in Nat /\ Queued \in Nat
      /\ Cardinality(http_running) <= QueueLength /\ QueueLength \in Nat
  BY QueueNumbers, QueueAssumption DEF QueueInv, RunningBounded
<1>2. CASE Free
  <2>1. Queued' = Queued
    BY <1>2 DEF httpV4, Start, Queued
  <2>2. ~(Queued > 0)
    BY <1>1, <1>2 DEF Free, HasSlot, Full
  <2> QED
    BY <2>1, <2>2 DEF Full
<1>3. CASE ~Free
  <2>1. http_running' = replies
    BY <1>3 DEF httpV4, Enqueue
  <2>2. Cardinality(http_running) = QueueLength
    BY <1>1, <1>3 DEF Free, HasSlot
  <2> QED
    BY <2>1, <2>2 DEF Full
<1> QED
  BY <1>2, <1>3

\* The slot a reply leaves is taken by a request that waits.
LEMMA RunQueueFull ==
    ASSUME QueueInv, NEW ready, ready, NEW replies, IsFiniteSet(replies), NEW ph,
           Places(http_queue, http_slow_queue, ph, replies),
           Queued > 0 => Cardinality(replies) = QueueLength - 1,
           runQueue(ready, replies, ph)
    PROVE  Full'
<1>1. /\ Queued \in Nat /\ QueueLength \in Nat
      /\ http_queue \in Seq(Requests) /\ http_slow_queue \in Seq(Requests)
  BY QueueNumbers, QueueAssumption DEF QueueInv, TypeOK
<1>2. CASE Queued > 0
  <2>1. ready /\ HasSlot(replies) /\ Queued > 0
    BY <1>1, <1>2 DEF HasSlot
  <2>2. ASSUME NEW q \in Seq(Requests), q # <<>>, StartQueued(Head(q), replies, ph),
               q = http_queue \/ q = http_slow_queue
        PROVE  Cardinality(http_running') = QueueLength
    <3> DEFINE r == Head(q)
    <3>1. r \in Requests /\ In(q, r)
      <4>1. Len(q) \in Nat /\ Len(q) >= 1 /\ r = q[1]
        BY <2>2
      <4> QED
        BY <2>2, <4>1, TakeFirst DEF In
    <3>2. <<r, "live">> \notin replies
      BY <2>2, <3>1 DEF Places
    <3>3. Cardinality(replies \cup {<<r, "live">>}) = Cardinality(replies) + 1
      BY <3>2, FS_AddElement
    <3> QED
      BY <1>1, <1>2, <2>2, <3>3 DEF StartQueued
  <2>3. RunFast(replies, ph) \/ RunSlow(replies, ph)
    BY <2>1 DEF runQueue
  <2>4. Cardinality(http_running') = QueueLength
    BY <1>1, <2>2, <2>3 DEF RunFast, RunSlow
  <2> QED
    BY <2>4 DEF Full
<1>3. CASE ~(Queued > 0)
  <2>1. http_queue' = http_queue /\ http_slow_queue' = http_slow_queue
    BY <1>3 DEF runQueue, RunNothing
  <2>2. Queued' = Queued
    BY <2>1 DEF Queued
  <2> QED
    BY <1>3, <2>2 DEF Full
<1> QED
  BY <1>2, <1>3

LEMMA InitFull == Init => FullInv
<1> SUFFICES ASSUME Init PROVE FullInv
  OBVIOUS
<1>1. ~(Queued > 0)
  BY DEF Init, Queued
<1>2. ~iam => is_ready
  BY DEF Init
<1> QED
  BY <1>1, <1>2 DEF FullInv, Full

LEMMA NextFull == QueueInv /\ PlacesNow /\ FullInv /\ [Next]_vars => FullInv'
<1> SUFFICES ASSUME QueueInv, PlacesNow, FullInv, [Next]_vars PROVE FullInv'
  OBVIOUS
<1>0. /\ IsFiniteSet(http_running) /\ Cardinality(http_running) \in Nat
      /\ phase \in [Requests -> Phases]
      /\ iam \in BOOLEAN /\ is_ready \in BOOLEAN
  BY QueueNumbers DEF QueueInv, TypeOK
<1>1. CASE iam
  <2>1. iam' = iam
    BY <1>1 DEF Next, Issue, IssuePut, Finish, Fail, Retry, Destroy, DestroyOld,
                Credentials, vars
  <2> QED
    BY <1>1, <2>1 DEF FullInv
<1>2. CASE ~iam
  <2>0. is_ready /\ Full
    BY <1>2 DEF FullInv
  <2> SUFFICES is_ready' /\ Full'
    BY DEF FullInv
  <2>1. ASSUME NEW r \in Requests, Issue(r) PROVE is_ready' /\ Full'
    BY <2>0, <2>1, HttpV4Full DEF Issue
  <2>2. ASSUME NEW r \in Requests, IssuePut(r) PROVE is_ready' /\ Full'
    <3>1. httpSlowV4(r) /\ is_ready' = is_ready
      BY <2>2 DEF IssuePut
    <3>2. CASE Free
      <4>1. httpV4(r, http_running)
        BY <3>1, <3>2 DEF httpSlowV4
      <4> QED
        BY <2>0, <3>1, <4>1, HttpV4Full
    <3>3. CASE ~Free
      <4>1. http_running' = http_running
        BY <3>1, <3>3 DEF httpSlowV4, EnqueueSlow
      <4>2. Cardinality(http_running) = QueueLength
        BY <1>0, <2>0, <3>3, QueueAssumption DEF Free, HasSlot, QueueInv, RunningBounded
      <4> QED
        BY <2>0, <3>1, <4>1, <4>2 DEF Full
    <3> QED
      BY <3>2, <3>3
  <2>3. ASSUME NEW r \in Requests, Finish(r) \/ Fail(r) PROVE is_ready' /\ Full'
    BY <2>0, <2>3 DEF Finish, Fail, Full, Queued
  <2>4. ASSUME NEW r \in Requests, Retry(r) PROVE is_ready' /\ Full'
    <3> DEFINE rest == http_running \ {<<r, "live">>}
               kept == rest \cup {<<r, "old">>}
    <3>1. /\ phase[r] = "backoff" /\ <<r, "old">> \notin http_running
          /\ httpV4(r, kept) /\ is_ready' = is_ready
      BY <2>4 DEF Retry
    <3>2. <<r, "live">> \in http_running
      BY <3>1 DEF PlacesNow, Places
    <3>3. /\ IsFiniteSet(rest)
          /\ Cardinality(rest) = Cardinality(http_running) - 1
      BY <1>0, <3>2, DropReply
    <3>4. Cardinality(kept) = Cardinality(rest) + 1
      BY <3>1, <3>3, FS_AddElement
    <3>5. Cardinality(kept) = Cardinality(http_running)
      BY <1>0, <3>3, <3>4
    <3> HIDE DEF rest, kept
    <3> QED
      BY <2>0, <3>1, <3>5, HttpV4Full
  <2>5. ASSUME NEW r \in Requests, Destroy(r) PROVE is_ready' /\ Full'
    <3> DEFINE ph == [phase EXCEPT ![r] = "gone"]
               rest == http_running \ {<<r, "live">>}
    <3>1. /\ phase[r] = "finished" /\ runQueue(is_ready, rest, ph)
          /\ is_ready' = is_ready
      BY <2>5 DEF Destroy, replyDestroyed
    <3>2. <<r, "live">> \in http_running
      BY <3>1 DEF PlacesNow, Places
    <3>3. IsFiniteSet(rest) /\ Cardinality(rest) = Cardinality(http_running) - 1
      BY <1>0, <3>2, DropReply
    <3>4. Queued > 0 => Cardinality(rest) = QueueLength - 1
      BY <2>0, <3>3 DEF Full
    <3>5. Places(http_queue, http_slow_queue, ph, rest)
      BY <1>0, <3>1 DEF PlacesNow, Places
    <3> HIDE DEF ph, rest
    <3> QED
      BY <2>0, <3>1, <3>3, <3>4, <3>5, RunQueueFull
  <2>6. ASSUME NEW r \in Requests, DestroyOld(r) PROVE is_ready' /\ Full'
    <3> DEFINE rest == http_running \ {<<r, "old">>}
    <3>1. /\ <<r, "old">> \in http_running /\ runQueue(is_ready, rest, phase)
          /\ is_ready' = is_ready
      BY <2>6 DEF DestroyOld, replyDestroyed
    <3>2. IsFiniteSet(rest) /\ Cardinality(rest) = Cardinality(http_running) - 1
      BY <1>0, <3>1, DropReply
    <3>3. Queued > 0 => Cardinality(rest) = QueueLength - 1
      BY <2>0, <3>2 DEF Full
    <3>4. Places(http_queue, http_slow_queue, phase, rest)
      BY DEF PlacesNow, Places
    <3> HIDE DEF rest
    <3> QED
      BY <2>0, <3>1, <3>2, <3>3, <3>4, RunQueueFull
  <2>7. CASE Credentials
    BY <1>2, <2>7 DEF Credentials
  <2>8. CASE UNCHANGED vars
    BY <2>0, <2>8 DEF vars, Full, Queued
  <2> QED
    BY <2>1, <2>2, <2>3, <2>4, <2>5, <2>6, <2>7, <2>8 DEF Next
<1> QED
  BY <1>0, <1>1, <1>2

(***************************************************************************)
(* With credentials from the file no slot is ever idle while a request     *)
(* waits, for any queue length: each reply that dies, abandoned by a retry *)
(* or not, hands its slot on at once.                                      *)
(***************************************************************************)
THEOREM SlotsAreNeverIdle == Spec => []WaitsOnlyWhenFull
<1>1. Init => QueueInv /\ PlacesNow /\ FullInv
  BY InitQueueInv, InitPlaces, InitFull
<1>2. QueueInv /\ PlacesNow /\ FullInv /\ [Next]_vars => (QueueInv /\ PlacesNow /\ FullInv)'
  BY NextQueueInv, NextPlaces, NextFull
<1>3. FullInv => WaitsOnlyWhenFull
  BY DEF FullInv, Full, WaitsOnlyWhenFull
<1> QED
  BY <1>1, <1>2, <1>3, PTL DEF Spec
=============================================================================

------------------------------- MODULE AwsQueue -------------------------------
(***************************************************************************)
(* S3FS_Aws: the request queue all traffic to S3 goes through, with the    *)
(* life of the requests of S3FS_Aws_S3 that sit in it.                     *)
(*                                                                         *)
(* At most QueueLength replies are alive at a time.  Two queues wait for a *)
(* free slot: http_queue, and http_slow_queue for uploads.  Nothing looks  *)
(* at the queues periodically: a queued request starts only because some   *)
(* reply object was destroyed, or because credentials arrived.             *)
(*                                                                         *)
(* Everything runs on the one Qt main loop, so each handler is one step.   *)
(* A reply that gave way to a retry (deleteLater) lives on, and keeps its  *)
(* slot, until the loop gets to it: <<r, "old">> beside <<r, "live">>.     *)
(***************************************************************************)
EXTENDS Naturals, Sequences, FiniteSets

CONSTANTS Fast,         \* GET, LIST and DELETE requests of S3FS_Aws_S3
          Slow,         \* PUT requests of S3FS_Aws_S3
          Acks,         \* DeleteMessage requests of S3FS_Aws_SQS
          QueueLength,  \* S3FS_AWS_QUEUE_LENGTH, 8
          High,         \* overload is flagged beyond this many queued, 10000
          Low,          \* and cleared below this many, 9000
          MaxFails      \* bound: answers that are errors, in all

Requests == Fast \cup Slow \cup Acks

ASSUME QueueAssumption ==
    /\ QueueLength \in Nat \ {0}
    /\ High \in Nat /\ Low \in Nat \ {0}
    /\ MaxFails \in Nat

ASSUME KindsAssumption ==
    Fast \cap Slow = {} /\ Fast \cap Acks = {} /\ Slow \cap Acks = {}

VARIABLES iam,              \* credentials come from awsCredentialsUrl()
          is_ready,
          overload_status,
          http_running,     \* the replies alive, as <<request, "live" | "old">>
          http_queue,
          http_slow_queue,
          phase,            \* where each request is in its life
          fails             \* error answers so far

vars == <<iam, is_ready, overload_status, http_running, http_queue,
          http_slow_queue, phase, fails>>

Phases == {"new", "queued", "sent", "backoff", "finished", "gone"}

TypeOK ==
    /\ iam \in BOOLEAN /\ is_ready \in BOOLEAN /\ overload_status \in BOOLEAN
    /\ http_running \in SUBSET (Requests \X {"live", "old"})
    /\ http_queue \in Seq(Requests)
    /\ http_slow_queue \in Seq(Requests)
    /\ phase \in [Requests -> Phases]
    /\ fails \in Nat

Init ==
    /\ iam \in BOOLEAN
    /\ is_ready = ~iam
    /\ overload_status = FALSE
    /\ http_running = {}
    /\ http_queue = <<>> /\ http_slow_queue = <<>>
    /\ phase = [r \in Requests |-> "new"]
    /\ fails = 0

-----------------------------------------------------------------------------

Queued == Len(http_queue) + Len(http_slow_queue)

\* Slips the properties have to notice: the limit off by one either way, the
\* wrong object in the set of running replies.
OneTooMany(replies) == Cardinality(replies) <= QueueLength
OneTooFew(replies) == Cardinality(replies) + 1 < QueueLength
StartBare(r, replies, ph) ==
    /\ http_running' = replies \cup {r}
    /\ phase' = [ph EXCEPT ![r] = "sent"]

\* There is a slot left beside these replies.
HasSlot(replies) == Cardinality(replies) < QueueLength

\* A request need not wait.
Free == is_ready /\ HasSlot(http_running)

\* Request r goes on the wire beside these replies.
Start(r, replies) ==
    /\ http_running' = replies \cup {<<r, "live">>}
    /\ phase' = [phase EXCEPT ![r] = "sent"]
    /\ UNCHANGED <<overload_status, http_queue, http_slow_queue>>

\* The overload check looks at the queues before the append.
CheckOverload == overload_status' = (overload_status \/ Queued > High)

Enqueue(r, replies) ==
    /\ CheckOverload
    /\ http_running' = replies
    /\ http_queue' = Append(http_queue, r)
    /\ phase' = [phase EXCEPT ![r] = "queued"]
    /\ UNCHANGED http_slow_queue

EnqueueSlow(r) ==
    /\ CheckOverload
    /\ http_slow_queue' = Append(http_slow_queue, r)
    /\ phase' = [phase EXCEPT ![r] = "queued"]
    /\ UNCHANGED <<http_running, http_queue>>

httpV4(r, replies) == IF Free THEN Start(r, replies) ELSE Enqueue(r, replies)

httpSlowV4(r) == IF Free THEN httpV4(r, http_running) ELSE EnqueueSlow(r)

\* runQueue starts at most one request, and one of the slow queue only when
\* the other is empty.  `replies' are alive, `ph' is where the requests are.
StartQueued(r, replies, ph) ==
    /\ http_running' = replies \cup {<<r, "live">>}
    /\ phase' = [ph EXCEPT ![r] = "sent"]

RunFast(replies, ph) ==
    /\ http_queue # <<>>
    /\ StartQueued(Head(http_queue), replies, ph)
    /\ http_queue' = Tail(http_queue)
    /\ UNCHANGED http_slow_queue

RunSlow(replies, ph) ==
    /\ http_queue = <<>> /\ http_slow_queue # <<>>
    /\ StartQueued(Head(http_slow_queue), replies, ph)
    /\ http_slow_queue' = Tail(http_slow_queue)
    /\ UNCHANGED http_queue

RunNothing(replies, ph) ==
    /\ http_running' = replies
    /\ phase' = ph
    /\ UNCHANGED <<http_queue, http_slow_queue>>

\* Slip: the slow queue is never looked at.
runFastOnly(ready, replies, ph) ==
    IF ready /\ HasSlot(replies) /\ http_queue # <<>>
    THEN RunFast(replies, ph)
    ELSE RunNothing(replies, ph)

runQueue(ready, replies, ph) ==
    IF ready /\ HasSlot(replies) /\ Queued > 0
    THEN RunFast(replies, ph) \/ RunSlow(replies, ph)
    ELSE RunNothing(replies, ph)

\* Slips: overload stays on for good; a dying reply wakes nobody.
KeepOverload == UNCHANGED overload_status
DestroyedSilently(reply, ph) ==
    /\ UNCHANGED overload_status
    /\ RunNothing(http_running \ {reply}, ph)

ClearOverload == overload_status' = (overload_status /\ Queued >= Low)

\* A reply object dies: the only wake-up the queues get.
replyDestroyed(reply, ph) ==
    /\ ClearOverload
    /\ runQueue(is_ready, http_running \ {reply}, ph)

-----------------------------------------------------------------------------

\* getFile, listFiles, deleteFile, or the acknowledgement of a message.
Issue(r) ==
    /\ r \in Fast \cup Acks /\ phase[r] = "new"
    /\ httpV4(r, http_running)
    /\ UNCHANGED <<iam, is_ready, fails>>

\* putFile
IssuePut(r) ==
    /\ r \in Slow /\ phase[r] = "new"
    /\ httpSlowV4(r)
    /\ UNCHANGED <<iam, is_ready, fails>>

(***************************************************************************)
(* requestFinished, on success or "not found": the answer is handed over,  *)
(* the request object waits for deleteLater with its reply alive.  An      *)
(* acknowledgement has no requestFinished: any answer ends it.             *)
(***************************************************************************)
Finish(r) ==
    /\ phase[r] = "sent"
    /\ phase' = [phase EXCEPT ![r] = "finished"]
    /\ UNCHANGED <<iam, is_ready, overload_status, http_running,
                   http_queue, http_slow_queue, fails>>

\* requestFinished, on any other error or a redirection: wait one second.
\* The reply stays where it is, so the slot stays taken.
Fail(r) ==
    /\ phase[r] = "sent" /\ r \notin Acks
    /\ fails < MaxFails
    /\ fails' = fails + 1
    /\ phase' = [phase EXCEPT ![r] = "backoff"]
    /\ UNCHANGED <<iam, is_ready, overload_status, http_running,
                   http_queue, http_slow_queue>>

\* Slip: the request goes back to the queue and keeps its reply.
RetryKeepingReply(r) ==
    /\ phase[r] = "backoff"
    /\ httpV4(r, http_running)
    /\ UNCHANGED <<iam, is_ready, fails>>

(***************************************************************************)
(* retry, a second later: the reply is told to die but still counts, and   *)
(* the request - a PUT too - goes through httpV4.  (The main loop deletes  *)
(* the reply of an earlier retry long before the next second is over.)     *)
(***************************************************************************)
Retry(r) ==
    /\ phase[r] = "backoff"
    /\ <<r, "old">> \notin http_running
    /\ httpV4(r, (http_running \ {<<r, "live">>}) \cup {<<r, "old">>})
    /\ UNCHANGED <<iam, is_ready, fails>>

\* The main loop deletes a finished request, and its reply with it.
Destroy(r) ==
    /\ phase[r] = "finished"
    /\ replyDestroyed(<<r, "live">>, [phase EXCEPT ![r] = "gone"])
    /\ UNCHANGED <<iam, is_ready, fails>>

\* The main loop deletes the reply that a retry left behind.
DestroyOld(r) ==
    /\ <<r, "old">> \in http_running
    /\ replyDestroyed(<<r, "old">>, phase)
    /\ UNCHANGED <<iam, is_ready, fails>>

\* receiveAwsCredentials: the first ones make the queue ready; later ones,
\* fetched before they expire, run the queue once more.  (Credentials that
\* do not parse or expire at once change nothing and are asked for again.)
Credentials ==
    /\ iam
    /\ is_ready' = TRUE
    /\ runQueue(TRUE, http_running, phase)
    /\ UNCHANGED <<iam, overload_status, fails>>

Next ==
    \/ \E r \in Requests :
        \/ Issue(r) \/ IssuePut(r) \/ Finish(r) \/ Fail(r)
        \/ Retry(r) \/ Destroy(r) \/ DestroyOld(r)
    \/ Credentials

(***************************************************************************)
(* The main loop gets to every timer and every deferred deletion, every    *)
(* request on the wire is answered some day, and credentials are asked for *)
(* until they arrive.  Nobody has to issue a request.                      *)
(***************************************************************************)
Fairness ==
    /\ \A r \in Requests : /\ WF_vars(Finish(r))
                           /\ WF_vars(Retry(r))
                           /\ WF_vars(Destroy(r))
                           /\ WF_vars(DestroyOld(r))
    /\ WF_vars(Credentials)

Spec == Init /\ [][Next]_vars /\ Fairness

-----------------------------------------------------------------------------

(***************************************************************************)
(* Never more than S3FS_AWS_QUEUE_LENGTH replies are alive, retries and    *)
(* the replies they abandon included.                                      *)
(***************************************************************************)
RunningBounded == Cardinality(http_running) <= QueueLength

(***************************************************************************)
(* The queues are woken by dying replies only, so a queue with entries and *)
(* no reply alive would wait for ever; so would the fuse requests that     *)
(* wait for the overload to end (S3FS::loadReduced).                       *)
(***************************************************************************)
NeverStalled ==
    is_ready /\ (Queued > 0 \/ overload_status) => http_running # {}

(***************************************************************************)
(* With credentials from the file a request waits only while every slot is *)
(* taken.  (With credentials from a URL the backlog of the start-up is     *)
(* worked off one request at a time: receiveAwsCredentials runs the queue  *)
(* once, and every reply that dies starts one more.)                       *)
(***************************************************************************)
WaitsOnlyWhenFull ==
    ~iam /\ Queued > 0 => Cardinality(http_running) = QueueLength

Occurrences(r) ==
    Cardinality({i \in DOMAIN http_queue : http_queue[i] = r}) +
    Cardinality({i \in DOMAIN http_slow_queue : http_slow_queue[i] = r})

(***************************************************************************)
(* A request is queued once or has one live reply, never both and never    *)
(* neither until it is gone: none is lost, none is sent twice at a time,   *)
(* across queueing, retries and late deletions.                            *)
(***************************************************************************)
RequestInOnePlace ==
    \A r \in Requests :
        /\ Occurrences(r) = IF phase[r] = "queued" THEN 1 ELSE 0
        /\ <<r, "live">> \in http_running <=> phase[r] \in {"sent", "backoff", "finished"}

(***************************************************************************)
(* Every request is answered and freed, uploads behind a busy queue and    *)
(* failed ones included, as long as failures end.                          *)
(***************************************************************************)
AllServed == \A r \in Requests : phase[r] # "new" ~> phase[r] = "gone"

(***************************************************************************)
(* Overload ends: the fuse requests held back by it get to run.            *)
(***************************************************************************)
OverloadEnds == overload_status ~> ~overload_status
=============================================================================

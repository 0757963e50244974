---------------------------- MODULE WebhookRetry ----------------------------
(***************************************************************************)
(* pkg/notification/webhook/dispatcher.go, internal/tasks/webhook_retry.go *)
(* and pkg/utils/redislock: an event is posted at once and its outcome     *)
(* recorded in a row; a pending row is posted again by the retry worker,   *)
(* one in each replica, of which a Redis lock with a time to live is to    *)
(* let one work at a time.  The rows are written without a look at what    *)
(* they say, and a write that fails is not noticed.                        *)
(***************************************************************************)
EXTENDS Naturals

CONSTANTS Replicas, Deliveries, NoOne,
          MaxAttempts,  \* max_attempts of a delivery
          MaxCrashes    \* bound: replicas that crash

ASSUME WebhookAssumption == /\ NoOne \notin Replicas
                            /\ MaxAttempts \in Nat \ {0} /\ MaxCrashes \in Nat

VARIABLES
  rows,      \* the delivery rows
  first,     \* where the first attempt of each delivery is, and in which replica
  replica,   \* where each retry worker is, the jobs it read and the one it is at
  lock,      \* who holds the lock in Redis
  crashes,
  doubtful   \* workers that lost the lock, or read while one that had was working

webhookVars == <<rows, first, replica, lock, crashes, doubtful>>

Attempts == 0..MaxAttempts
Status == {"none", "pending", "success", "dlq"}
WebhookJob == Deliveries \X Attempts

WebhookTypeOK ==
  /\ rows \in [Deliveries -> [status : Status, attempt : Attempts, due : BOOLEAN]]
  /\ first \in [Deliveries -> [pc : {"waiting", "posting", "over"}, by : Replicas \cup {NoOne}]]
  /\ replica \in [Replicas -> [pc : {"idle", "locked", "working", "posting", "down"},
                               todo : SUBSET WebhookJob, at : SUBSET WebhookJob]]
  /\ lock \in Replicas \cup {NoOne}
  /\ crashes \in 0..MaxCrashes
  /\ doubtful \subseteq Replicas

AtRest(pc) == [pc |-> pc, todo |-> {}, at |-> {}]

WebhookInit ==
  /\ rows = [d \in Deliveries |-> [status |-> "none", attempt |-> 0, due |-> FALSE]]
  /\ first = [d \in Deliveries |-> [pc |-> "waiting", by |-> NoOne]]
  /\ replica = [r \in Replicas |-> AtRest("idle")]
  /\ lock = NoOne /\ crashes = 0 /\ doubtful = {}

-----------------------------------------------------------------------------
(* Posting and recording.                                                  *)

Success(n) == [status |-> "success", attempt |-> n, due |-> FALSE]

\* A slip: one attempt too many.
RetryPastLimit(n) == [status |-> IF n > MaxAttempts THEN "dlq" ELSE "pending",
                      attempt |-> n, due |-> FALSE]

\* scheduleRetryOrDLQ.
RetryOrDLQ(n) == [status |-> IF n >= MaxAttempts THEN "dlq" ELSE "pending",
                  attempt |-> n, due |-> FALSE]

\* An address that may not be posted to.
Blocked(n) == [status |-> "dlq", attempt |-> n, due |-> FALSE]

\* recordOrUpdateDelivery, after the n-th attempt.
RecordDelivery(d, n) ==
  \E outcome \in {Success(n), RetryOrDLQ(n), Blocked(n)} : rows' = [rows EXCEPT ![d] = outcome]

Dispatch(d) ==
  /\ first[d].pc = "waiting"
  /\ \E r \in Replicas : /\ replica[r].pc # "down"
                         /\ first' = [first EXCEPT ![d] = [pc |-> "posting", by |-> r]]
  /\ UNCHANGED <<rows, replica, lock, crashes, doubtful>>

\* There is no row before the first attempt is over, and none if it cannot be
\* created then.
FirstAttempt(d) ==
  /\ first[d].pc = "posting"
  /\ RecordDelivery(d, 1) \/ UNCHANGED rows
  /\ first' = [first EXCEPT ![d].pc = "over"]
  /\ UNCHANGED <<replica, lock, crashes, doubtful>>

BecomesDue(d) ==
  /\ rows[d].status = "pending" /\ ~rows[d].due
  /\ rows' = [rows EXCEPT ![d].due = TRUE]
  /\ UNCHANGED <<first, replica, lock, crashes, doubtful>>

-----------------------------------------------------------------------------
(* The retry worker of a replica.                                          *)

TryLock(r) ==
  /\ replica[r].pc = "idle"
  /\ lock = NoOne
  /\ lock' = r
  /\ replica' = [replica EXCEPT ![r].pc = "locked"]
  /\ UNCHANGED <<rows, first, crashes, doubtful>>

Due == {d \in Deliveries : rows[d].status = "pending" /\ rows[d].due}

ReadDue(r) ==
  /\ replica[r].pc = "locked"
  /\ replica' = [replica EXCEPT ![r] = [pc |-> "working", at |-> {},
                                        todo |-> {<<d, rows[d].attempt>> : d \in Due}]]
  /\ doubtful' = IF doubtful = {} THEN {} ELSE doubtful \cup {r}
  /\ UNCHANGED <<rows, first, lock, crashes>>

PollFails(r) ==
  /\ replica[r].pc = "locked"
  /\ replica' = [replica EXCEPT ![r] = AtRest("working")]
  /\ UNCHANGED <<rows, first, lock, crashes, doubtful>>

\* One job after the other.
Post(r) ==
  /\ replica[r].pc = "working"
  /\ \E job \in replica[r].todo :
       replica' = [replica EXCEPT ![r] = [pc |-> "posting", at |-> {job},
                                          todo |-> replica[r].todo \ {job}]]
  /\ UNCHANGED <<rows, first, lock, crashes, doubtful>>

Worked(r) == replica' = [replica EXCEPT ![r].pc = "working", ![r].at = {}]

\* The attempt is counted from the row as it was read.
Record(r) ==
  /\ replica[r].pc = "posting"
  /\ \E job \in replica[r].at : RecordDelivery(job[1], job[2] + 1)
  /\ Worked(r)
  /\ UNCHANGED <<first, lock, crashes, doubtful>>

\* A lookup of the webhook that fails, for whatever reason, ends the delivery.
WebhookMissing(r) ==
  /\ replica[r].pc = "posting"
  /\ \E job \in replica[r].at : rows' = [rows EXCEPT ![job[1]].status = "dlq"]
  /\ Worked(r)
  /\ UNCHANGED <<first, lock, crashes, doubtful>>

\* The row stays as it was, and the post is made again.
WriteLost(r) ==
  /\ replica[r].pc = "posting"
  /\ Worked(r)
  /\ UNCHANGED <<rows, first, lock, crashes, doubtful>>

\* A slip: the key is deleted whoever holds it.
UnlockAnyone(r) ==
  /\ replica[r].pc = "working" /\ replica[r].todo = {}
  /\ replica' = [replica EXCEPT ![r] = AtRest("idle")]
  /\ lock' \in {lock, NoOne}
  /\ doubtful' = doubtful \ {r}
  /\ UNCHANGED <<rows, first, crashes>>

\* The key is deleted if it is still this worker's and Redis answers.
Unlock(r) ==
  /\ replica[r].pc = "working" /\ replica[r].todo = {}
  /\ replica' = [replica EXCEPT ![r] = AtRest("idle")]
  /\ lock' \in {lock, IF lock = r THEN NoOne ELSE lock}
  /\ doubtful' = doubtful \ {r}
  /\ UNCHANGED <<rows, first, crashes>>

\* A slip: the lock has no time to live.
NeverExpires == FALSE /\ UNCHANGED webhookVars

\* The time to live is over, also while its holder works.
Expire ==
  /\ lock # NoOne
  /\ lock' = NoOne
  /\ doubtful' = IF replica[lock].pc \in {"idle", "down"} THEN doubtful ELSE doubtful \cup {lock}
  /\ UNCHANGED <<rows, first, replica, crashes>>

-----------------------------------------------------------------------------
(* A replica goes down and comes back; its first attempts are lost.        *)

Crash(r) ==
  /\ replica[r].pc # "down" /\ crashes < MaxCrashes
  /\ crashes' = crashes + 1
  /\ replica' = [replica EXCEPT ![r] = AtRest("down")]
  /\ first' = [d \in Deliveries |-> IF first[d] = [pc |-> "posting", by |-> r]
                                    THEN [first[d] EXCEPT !.pc = "over"] ELSE first[d]]
  /\ doubtful' = doubtful \ {r}
  /\ UNCHANGED <<rows, lock>>

StartAgain(r) ==
  /\ replica[r].pc = "down"
  /\ replica' = [replica EXCEPT ![r] = AtRest("idle")]
  /\ UNCHANGED <<rows, first, lock, crashes, doubtful>>

WorkSteps(r) == ReadDue(r) \/ PollFails(r) \/ Post(r) \/ Record(r) \/ WebhookMissing(r) \/ WriteLost(r)
                \/ Unlock(r)
WebhookNext == \/ \E d \in Deliveries : Dispatch(d) \/ FirstAttempt(d) \/ BecomesDue(d)
               \/ \E r \in Replicas : TryLock(r) \/ WorkSteps(r) \/ Crash(r) \/ StartAgain(r)
               \/ Expire

WebhookSpec == WebhookInit /\ [][WebhookNext]_webhookVars

(* Rows become due, and a ticker ticks while one is; posts time out and    *)
(* keys expire; what is read or written again and again succeeds.          *)
WebhookFairness ==
  /\ \A d \in Deliveries : WF_webhookVars(BecomesDue(d))
  /\ WF_webhookVars(Due # {} /\ \E r \in Replicas : TryLock(r) \/ StartAgain(r))
  /\ WF_webhookVars(Expire) /\ WF_webhookVars(\E r \in Replicas : WorkSteps(r))
  /\ SF_webhookVars(\E r \in Replicas : ReadDue(r)) /\ SF_webhookVars(\E r \in Replicas : Record(r))

FairWebhookSpec == WebhookSpec /\ WebhookFairness

-----------------------------------------------------------------------------
(* Properties.                                                             *)

\* A delivered event is not made pending or dead again, except by a worker that
\* lost the lock or worked beside one that had.
SuccessIsKept ==
  [][\A d \in Deliveries : rows[d].status = "success" /\ rows'[d].status # "success" =>
       \E r \in doubtful : replica[r].pc = "posting" /\ \E n \in Attempts : <<d, n>> \in replica[r].at
    ]_webhookVars

\* Every delivery that waits for a retry is delivered or given up, also when the
\* replica that holds the lock goes down.
PendingSettles == \A d \in Deliveries : rows[d].status = "pending" ~> rows[d].status \in {"success", "dlq"}

=============================================================================

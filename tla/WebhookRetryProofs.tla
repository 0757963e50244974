------------------------- MODULE WebhookRetryProofs -------------------------
(***************************************************************************)
(* Webhook retries with any number of replicas and deliveries: what a      *)
(* worker that still has the lock has read is still so.                    *)
(***************************************************************************)
EXTENDS WebhookRetry, TLAPS

-----------------------------------------------------------------------------
(* The inductive invariant.                                                *)

Working(r) == replica[r].pc \in {"locked", "working", "posting"}
Jobs(r) == replica[r].todo \cup replica[r].at

\* A row is there once its first attempt is over, and is not retried at the limit.
RowsKnown ==
  \A d \in Deliveries : /\ first[d].pc # "over" => rows[d].status = "none"
                        /\ rows[d].status = "pending" => rows[d].attempt < MaxAttempts

\* A worker has at most one job for a delivery.
JobsApart ==
  \A r \in Replicas :
    /\ Jobs(r) \subseteq Deliveries \X Attempts
    /\ \A job \in Jobs(r) : first[job[1]].pc = "over" /\ job[2] < MaxAttempts
    /\ \A j, k \in replica[r].todo : j[1] = k[1] => j = k
    /\ \A j \in replica[r].at, k \in replica[r].todo : j[1] # k[1]
    /\ replica[r].pc \notin {"working", "posting"} => Jobs(r) = {}
    /\ replica[r].pc = "posting" => replica[r].at # {}

\* A worker in good faith has the lock, and while it has jobs nobody else works.
LockHeld == \A r \in Replicas \ doubtful : Working(r) => lock = r
Alone ==
  \A r \in Replicas \ doubtful : Jobs(r) # {} => \A q \in Replicas \ {r} : ~Working(q)

\* What it has read is still so.
JobsPending ==
  \A r \in Replicas \ doubtful : \A job \in Jobs(r) : rows[job[1]].status = "pending"

WebhookInv == WebhookTypeOK /\ RowsKnown /\ JobsApart /\ LockHeld /\ Alone /\ JobsPending

-----------------------------------------------------------------------------
(* The steps.                                                              *)

Row == [status : Status, attempt : Attempts, due : BOOLEAN]

\* The invariant holds initially.
LEMMA WebhookInitInv == WebhookInit => WebhookInv
<1> SUFFICES ASSUME WebhookInit PROVE WebhookInv
  OBVIOUS
<1>1. 0 \in Attempts
  BY WebhookAssumption DEF Attempts
<1>2. \A r \in Replicas : replica[r] = AtRest("idle") /\ Jobs(r) = {} /\ ~Working(r)
  BY DEF WebhookInit, Jobs, Working, AtRest
<1>3. rows \in [Deliveries -> Row]
  BY <1>1 DEF WebhookInit, Row, Status
<1>4. replica \in [Replicas -> [pc : {"idle", "locked", "working", "posting", "down"},
                                todo : SUBSET WebhookJob, at : SUBSET WebhookJob]]
  BY DEF WebhookInit, AtRest
<1>5. WebhookTypeOK
  BY <1>3, <1>4, WebhookAssumption DEF WebhookInit, WebhookTypeOK, Row
<1>6. RowsKnown
  BY DEF WebhookInit, RowsKnown
<1>7. JobsApart
  <2>1. \A r \in Replicas : /\ replica[r].pc = "idle" /\ Jobs(r) = {}
                            /\ replica[r].todo = {} /\ replica[r].at = {}
    BY DEF WebhookInit, AtRest, Jobs
  <2> QED BY <2>1 DEF JobsApart
<1>8. LockHeld /\ Alone /\ JobsPending
  BY <1>2 DEF LockHeld, Alone, JobsPending
<1> QED BY <1>5, <1>6, <1>7, <1>8 DEF WebhookInv

\* What an attempt leaves in the row is well typed, and pending only below the
\* limit.
LEMMA WriteRecorded ==
  ASSUME WebhookInv, NEW d \in Deliveries, NEW n \in Attempts, n # 0, RecordDelivery(d, n)
  PROVE  /\ rows' \in [Deliveries -> Row]
         /\ \A e \in Deliveries : e # d => rows'[e] = rows[e]
         /\ rows'[d].status = "pending" => rows'[d].attempt < MaxAttempts
<1>1. PICK outcome \in {Success(n), RetryOrDLQ(n), Blocked(n)} :
        rows' = [rows EXCEPT ![d] = outcome]
  BY DEF RecordDelivery
<1>2. outcome \in Row /\ (outcome.status = "pending" => outcome.attempt < MaxAttempts)
  <2>1. CASE outcome = Success(n)
    BY <2>1 DEF Success, Row, Status
  <2>2. CASE outcome = RetryOrDLQ(n)
    BY <2>2, WebhookAssumption DEF RetryOrDLQ, Row, Status, Attempts
  <2>3. CASE outcome = Blocked(n)
    BY <2>3 DEF Blocked, Row, Status
  <2> QED BY <1>1, <2>1, <2>2, <2>3
<1> QED BY <1>1, <1>2 DEF WebhookInv, WebhookTypeOK, Row

\* A worker whose row was written is back at its list; the others stand where
\* they stood.
LEMMA WorkedOn ==
  ASSUME WebhookInv, NEW r \in Replicas, Worked(r), UNCHANGED <<first, lock, crashes, doubtful>>
  PROVE  /\ replica' \in [Replicas -> [pc : {"idle", "locked", "working", "posting", "down"},
                                       todo : SUBSET WebhookJob, at : SUBSET WebhookJob]]
         /\ replica'[r] = [replica[r] EXCEPT !.pc = "working", !.at = {}]
         /\ \A q \in Replicas : q # r => replica'[q] = replica[q]
<1> USE DEF WebhookInv, WebhookTypeOK
<1>1. [replica[r] EXCEPT !.pc = "working", !.at = {}]
        \in [pc : {"idle", "locked", "working", "posting", "down"},
             todo : SUBSET WebhookJob, at : SUBSET WebhookJob]
  OBVIOUS
<1>2. replica' = [replica EXCEPT ![r] = [replica[r] EXCEPT !.pc = "working", !.at = {}]]
  BY DEF Worked
<1> QED BY <1>1, <1>2

\* A job at hand is written, and nothing else: the invariant holds after it.
LEMMA WrittenInv ==
  ASSUME WebhookInv, NEW r \in Replicas, replica[r].pc = "posting", Worked(r),
         UNCHANGED <<first, lock, crashes, doubtful>>,
         NEW job \in replica[r].at,
         rows' \in [Deliveries -> Row],
         \A e \in Deliveries : e # job[1] => rows'[e] = rows[e],
         rows'[job[1]].status = "pending" => rows'[job[1]].attempt < MaxAttempts
  PROVE  WebhookInv'
<1>1. WebhookTypeOK'
  BY WorkedOn DEF WebhookInv, WebhookTypeOK, Row
<1>2. /\ replica'[r] = [replica[r] EXCEPT !.pc = "working", !.at = {}]
      /\ \A q \in Replicas : q # r => replica'[q] = replica[q]
  BY WorkedOn
<1>3. /\ replica'[r].pc = "working" /\ replica'[r].at = {} /\ replica'[r].todo = replica[r].todo
      /\ Jobs(r)' = replica[r].todo
  BY <1>2 DEF WebhookInv, WebhookTypeOK, Jobs
<1>4. \A q \in Replicas : q # r => Jobs(q)' = Jobs(q) /\ (Working(q)' <=> Working(q))
  BY <1>2 DEF Jobs, Working
<1>5. job[1] \in Deliveries /\ first[job[1]].pc = "over" /\ job \in Jobs(r)
  BY DEF WebhookInv, JobsApart, Jobs
<1>6. Working(r) /\ Working(r)' /\ Jobs(r) # {} /\ Jobs(r)' \subseteq Jobs(r)
  BY <1>3, <1>5 DEF Working, Jobs
<1>7. RowsKnown'
  BY <1>5 DEF WebhookInv, RowsKnown
<1>8. JobsApart'
  <2>1. ASSUME NEW q \in Replicas, q # r
        PROVE  replica'[q] = replica[q] /\ Jobs(q)' = Jobs(q)
    BY <1>2, <1>4, <2>1
  <2>2. first' = first
    OBVIOUS
  <2> QED BY <1>3, <1>6, <2>1, <2>2 DEF WebhookInv, JobsApart
<1>9. LockHeld' /\ Alone'
  BY <1>4, <1>6 DEF WebhookInv, LockHeld, Alone
<1>10. JobsPending'
  <2> SUFFICES ASSUME NEW q \in Replicas \ doubtful, NEW k \in Jobs(q)'
               PROVE  rows'[k[1]].status = "pending"
    BY DEF JobsPending
  <2>1. q = r
    BY <1>4, <1>6 DEF WebhookInv, Alone
  <2>2. k \in Jobs(r) /\ k[1] # job[1] /\ k[1] \in Deliveries
    BY <2>1, <1>3, <1>6 DEF WebhookInv, JobsApart
  <2> QED BY <2>1, <2>2 DEF WebhookInv, JobsPending
<1> QED BY <1>1, <1>7, <1>8, <1>9, <1>10 DEF WebhookInv

\* A job of a worker that was read names a delivery and an attempt below the
\* limit.
LEMMA JobTyped ==
  ASSUME WebhookInv, NEW r \in Replicas, NEW job \in replica[r].at
  PROVE  job[1] \in Deliveries /\ job[2] \in Attempts /\ job[2] + 1 \in Attempts /\ job[2] + 1 # 0
<1>1. job \in Deliveries \X Attempts /\ job[2] < MaxAttempts
  BY DEF WebhookInv, JobsApart, Jobs
<1> QED BY <1>1, WebhookAssumption DEF Attempts

\* A step of the delivery itself.
LEMMA DeliveryInv ==
  ASSUME WebhookInv, NEW d \in Deliveries, Dispatch(d) \/ FirstAttempt(d) \/ BecomesDue(d)
  PROVE  WebhookInv'
<1> USE DEF WebhookInv
<1>2. CASE Dispatch(d)
  <2>1. /\ first' \in [Deliveries -> [pc : {"waiting", "posting", "over"}, by : Replicas \cup {NoOne}]]
        /\ \A e \in Deliveries : first'[e].pc = "over" <=> first[e].pc = "over"
    BY <1>2 DEF Dispatch, WebhookTypeOK
  <2>2. WebhookTypeOK' /\ RowsKnown'
    BY <1>2, <2>1 DEF Dispatch, WebhookTypeOK, RowsKnown
  <2>3. JobsApart'
    BY <1>2, <2>1 DEF Dispatch, JobsApart, Jobs
  <2>4. LockHeld' /\ Alone' /\ JobsPending'
    BY <1>2 DEF Dispatch, LockHeld, Alone, JobsPending, Jobs, Working
  <2> QED BY <2>2, <2>3, <2>4
<1>3. CASE FirstAttempt(d)
  <2>1. /\ rows' \in [Deliveries -> Row]
        /\ \A e \in Deliveries : e # d => rows'[e] = rows[e]
        /\ rows'[d].status = "pending" => rows'[d].attempt < MaxAttempts
    <3>1. CASE RecordDelivery(d, 1)
      BY <3>1, WriteRecorded, WebhookAssumption DEF Attempts
    <3>2. CASE UNCHANGED rows
      BY <3>2 DEF WebhookTypeOK, RowsKnown, Row
    <3> QED BY <1>3, <3>1, <3>2 DEF FirstAttempt
  <2>2. /\ first' \in [Deliveries -> [pc : {"waiting", "posting", "over"}, by : Replicas \cup {NoOne}]]
        /\ first'[d].pc = "over" /\ \A e \in Deliveries : e # d => first'[e] = first[e]
    BY <1>3 DEF FirstAttempt, WebhookTypeOK
  <2>3. WebhookTypeOK' /\ RowsKnown'
    BY <1>3, <2>1, <2>2 DEF FirstAttempt, WebhookTypeOK, RowsKnown, Row
  <2>4. JobsApart'
    BY <1>3, <2>2 DEF FirstAttempt, JobsApart, Jobs
  <2>5. LockHeld' /\ Alone'
    BY <1>3 DEF FirstAttempt, LockHeld, Alone, Jobs, Working
  <2>6. JobsPending'
    <3> SUFFICES ASSUME NEW r \in Replicas \ doubtful, NEW job \in Jobs(r)
                 PROVE  rows'[job[1]].status = "pending"
      BY <1>3 DEF FirstAttempt, JobsPending, Jobs
    <3>1. job[1] \in Deliveries /\ job[1] # d
      BY <1>3 DEF FirstAttempt, JobsApart
    <3> QED BY <2>1, <3>1 DEF JobsPending
  <2> QED BY <2>3, <2>4, <2>5, <2>6
<1>4. CASE BecomesDue(d)
  <2>1. /\ rows' \in [Deliveries -> Row]
        /\ \A e \in Deliveries : rows'[e].status = rows[e].status /\ rows'[e].attempt = rows[e].attempt
    <3>1. rows \in [Deliveries -> Row]
      BY DEF WebhookTypeOK, Row
    <3>2. rows' = [rows EXCEPT ![d] = [rows[d] EXCEPT !.due = TRUE]]
      BY <1>4 DEF BecomesDue
    <3>3. rows[d] \in Row /\ [rows[d] EXCEPT !.due = TRUE] \in Row
      BY <3>1 DEF Row
    <3> QED BY <3>1, <3>2, <3>3 DEF Row
  <2>2. WebhookTypeOK' /\ RowsKnown'
    BY <1>4, <2>1 DEF BecomesDue, WebhookTypeOK, RowsKnown, Row
  <2>3. JobsApart' /\ LockHeld' /\ Alone'
    BY <1>4 DEF BecomesDue, JobsApart, LockHeld, Alone, Jobs, Working
  <2>4. JobsPending'
    BY <1>4, <2>1 DEF BecomesDue, JobsPending, JobsApart, Jobs
  <2> QED BY <2>2, <2>3, <2>4
<1> QED BY <1>2, <1>3, <1>4

\* The worker and its lock: what changes is one worker, and the lock in its favour.
LEMMA LockInv ==
  ASSUME WebhookInv, NEW r \in Replicas, TryLock(r) \/ PollFails(r) \/ Unlock(r)
  PROVE  WebhookInv'
<1> USE DEF WebhookInv
<1>1. CASE TryLock(r)
  <2>1. /\ replica' \in [Replicas -> [pc : {"idle", "locked", "working", "posting", "down"},
                                      todo : SUBSET WebhookJob, at : SUBSET WebhookJob]]
        /\ replica'[r].pc = "locked" /\ Jobs(r)' = Jobs(r)
        /\ replica'[r].todo = replica[r].todo /\ replica'[r].at = replica[r].at
        /\ \A q \in Replicas : q # r => replica'[q] = replica[q]
    BY <1>1 DEF TryLock, WebhookTypeOK, Jobs
  <2>2. \A q \in Replicas : Jobs(q)' = Jobs(q)
    BY <2>1 DEF Jobs
  <2>3. \A q \in Replicas \ doubtful : ~Working(q)
    BY <1>1, WebhookAssumption DEF TryLock, LockHeld
  <2>4. \A q \in Replicas \ doubtful : Jobs(q) = {}
    BY <2>3 DEF JobsApart, Working
  <2>5. WebhookTypeOK' /\ RowsKnown'
    BY <1>1, <2>1 DEF TryLock, WebhookTypeOK, RowsKnown
  <2>6. JobsApart'
    BY <1>1, <2>1, <2>2 DEF TryLock, JobsApart
  <2>7. LockHeld'
    BY <1>1, <2>1, <2>3 DEF TryLock, LockHeld, Working
  <2>8. Alone' /\ JobsPending'
    BY <1>1, <2>2, <2>4 DEF TryLock, Alone, JobsPending
  <2> QED BY <2>5, <2>6, <2>7, <2>8
<1>2. CASE PollFails(r) \/ Unlock(r)
  <2>1. /\ replica' \in [Replicas -> [pc : {"idle", "locked", "working", "posting", "down"},
                                      todo : SUBSET WebhookJob, at : SUBSET WebhookJob]]
        /\ Jobs(r)' = {} /\ replica'[r].todo = {} /\ replica'[r].at = {}
        /\ replica'[r].pc # "posting" /\ (Working(r)' => Working(r))
        /\ \A q \in Replicas : q # r => replica'[q] = replica[q]
    BY <1>2 DEF PollFails, Unlock, WebhookTypeOK, Jobs, AtRest, Working
  <2>2. \A q \in Replicas : q # r => Jobs(q)' = Jobs(q) /\ (Working(q)' <=> Working(q))
    BY <2>1 DEF Jobs, Working
  <2>3. /\ lock' \in {lock, NoOne} /\ (lock' # lock => lock = r)
        /\ doubtful' \in {doubtful, doubtful \ {r}}
        /\ (doubtful' # doubtful => ~Working(r)')
        /\ UNCHANGED <<rows, first, crashes>>
    BY <1>2, <2>1 DEF PollFails, Unlock, AtRest, Working, WebhookTypeOK
  <2>4. WebhookTypeOK' /\ RowsKnown'
    BY <2>1, <2>3 DEF WebhookTypeOK, RowsKnown
  <2>5. JobsApart'
    BY <2>1, <2>2, <2>3 DEF JobsApart
  <2>6. LockHeld'
    <3> SUFFICES ASSUME NEW q \in Replicas \ doubtful', Working(q)' PROVE lock' = q
      BY DEF LockHeld
    <3>1. CASE q = r
      BY <1>2, <2>1, <2>3, <3>1 DEF PollFails, Unlock, LockHeld, AtRest, Working, WebhookTypeOK
    <3>2. CASE q # r
      BY <2>2, <2>3, <3>2 DEF LockHeld
    <3> QED BY <3>1, <3>2
  <2>7. Alone'
    BY <2>1, <2>2, <2>3 DEF Alone
  <2>8. JobsPending'
    BY <2>1, <2>2, <2>3 DEF JobsPending
  <2> QED BY <2>4, <2>5, <2>6, <2>7, <2>8
<1> QED BY <1>1, <1>2

\* A worker reads the rows that are due.
LEMMA ReadInv == ASSUME WebhookInv, NEW r \in Replicas, ReadDue(r) PROVE WebhookInv'
<1> USE DEF WebhookInv
<1> DEFINE due == {<<d, rows[d].attempt>> : d \in Due}
<1>1. due \subseteq Deliveries \X Attempts
  BY DEF Due, WebhookTypeOK
<1>2. replica' = [replica EXCEPT ![r] = [pc |-> "working", at |-> {}, todo |-> due]]
  BY DEF ReadDue
<1>3. /\ replica' \in [Replicas -> [pc : {"idle", "locked", "working", "posting", "down"},
                                    todo : SUBSET WebhookJob, at : SUBSET WebhookJob]]
      /\ replica'[r] = [pc |-> "working", at |-> {}, todo |-> due]
      /\ \A q \in Replicas : q # r => replica'[q] = replica[q]
  BY <1>1, <1>2 DEF WebhookTypeOK, WebhookJob
<1>4. Jobs(r)' = due /\ Working(r)' /\ Working(r)
  BY <1>3 DEF Jobs, Working, ReadDue
<1>5. \A q \in Replicas : q # r => Jobs(q)' = Jobs(q) /\ (Working(q)' <=> Working(q))
  BY <1>3 DEF Jobs, Working
<1>6. /\ doubtful \subseteq doubtful' /\ doubtful' \subseteq doubtful \cup {r}
      /\ (r \notin doubtful' => doubtful = {})
      /\ UNCHANGED <<rows, first, lock, crashes>>
  BY DEF ReadDue, WebhookTypeOK
<1>7. \A job \in due : /\ job[1] \in Deliveries /\ rows[job[1]].status = "pending"
                       /\ first[job[1]].pc = "over"
                       /\ job[2] < MaxAttempts /\ job = <<job[1], rows[job[1]].attempt>>
  BY DEF Due, RowsKnown
<1> HIDE DEF due
<1>8. WebhookTypeOK' /\ RowsKnown'
  BY <1>3, <1>6 DEF WebhookTypeOK, RowsKnown
<1>9. JobsApart'
  BY <1>1, <1>3, <1>4, <1>5, <1>6, <1>7 DEF JobsApart
<1>10. LockHeld'
  BY <1>4, <1>5, <1>6 DEF LockHeld
<1>11. Alone'
  <2>1. r \notin doubtful' => \A q \in Replicas \ {r} : ~Working(q)
    BY <1>4, <1>6 DEF LockHeld
  <2>2. \A q \in Replicas \ doubtful : q # r => Jobs(q) = {}
    BY <1>4 DEF Alone
  <2> QED BY <1>4, <1>5, <1>6, <2>1, <2>2 DEF Alone
<1>12. JobsPending'
  BY <1>4, <1>5, <1>6, <1>7 DEF JobsPending
<1> QED BY <1>8, <1>9, <1>10, <1>11, <1>12

\* A worker takes up its next job.
LEMMA PostInv == ASSUME WebhookInv, NEW r \in Replicas, Post(r) PROVE WebhookInv'
<1> USE DEF WebhookInv
<1>1. PICK job \in replica[r].todo :
        replica' = [replica EXCEPT ![r] = [pc |-> "posting", at |-> {job},
                                           todo |-> replica[r].todo \ {job}]]
  BY DEF Post
<1>2. /\ replica' \in [Replicas -> [pc : {"idle", "locked", "working", "posting", "down"},
                                    todo : SUBSET WebhookJob, at : SUBSET WebhookJob]]
      /\ replica'[r] = [pc |-> "posting", at |-> {job}, todo |-> replica[r].todo \ {job}]
      /\ \A q \in Replicas : q # r => replica'[q] = replica[q]
  BY <1>1 DEF WebhookTypeOK, WebhookJob
<1>3. Jobs(r)' \subseteq Jobs(r) /\ Jobs(r) # {} /\ Working(r) /\ Working(r)'
  BY <1>2 DEF Jobs, Working, Post
<1>4. \A q \in Replicas : q # r => Jobs(q)' = Jobs(q) /\ (Working(q)' <=> Working(q))
  BY <1>2 DEF Jobs, Working
<1>5. UNCHANGED <<rows, first, lock, crashes, doubtful>>
  BY DEF Post
<1>6. WebhookTypeOK' /\ RowsKnown'
  BY <1>2, <1>5 DEF WebhookTypeOK, RowsKnown
<1>7. JobsApart'
  BY <1>2, <1>3, <1>4, <1>5 DEF JobsApart
<1>8. LockHeld' /\ Alone'
  BY <1>3, <1>4, <1>5 DEF LockHeld, Alone
<1>9. JobsPending'
  BY <1>3, <1>4, <1>5 DEF JobsPending
<1> QED BY <1>6, <1>7, <1>8, <1>9

\* The lock expires, a replica crashes or starts again.
LEMMA FaultInv ==
  ASSUME WebhookInv, Expire \/ \E r \in Replicas : Crash(r) \/ StartAgain(r)
  PROVE  WebhookInv'
<1> USE DEF WebhookInv
<1>1. CASE Expire
  <2>1. /\ lock \in Replicas /\ lock' = NoOne /\ UNCHANGED <<rows, first, replica, crashes>>
        /\ doubtful \subseteq doubtful' /\ doubtful' \subseteq doubtful \cup {lock}
        /\ (Working(lock) => lock \in doubtful')
    BY <1>1 DEF Expire, WebhookTypeOK, Working
  <2>2. \A q \in Replicas : Jobs(q)' = Jobs(q) /\ (Working(q)' <=> Working(q))
    BY <2>1 DEF Jobs, Working
  <2>3. WebhookTypeOK' /\ RowsKnown'
    BY <2>1 DEF WebhookTypeOK, RowsKnown
  <2>4. JobsApart'
    BY <2>1, <2>2 DEF JobsApart
  <2>5. LockHeld'
    BY <2>1, <2>2 DEF LockHeld
  <2>6. Alone' /\ JobsPending'
    BY <2>1, <2>2 DEF Alone, JobsPending
  <2> QED BY <2>3, <2>4, <2>5, <2>6
<1>2. ASSUME NEW r \in Replicas, Crash(r) \/ StartAgain(r) PROVE WebhookInv'
  <2>1. /\ replica' \in [Replicas -> [pc : {"idle", "locked", "working", "posting", "down"},
                                      todo : SUBSET WebhookJob, at : SUBSET WebhookJob]]
        /\ replica'[r].pc \in {"idle", "down"} /\ replica'[r].todo = {} /\ replica'[r].at = {}
        /\ \A q \in Replicas : q # r => replica'[q] = replica[q]
    BY <1>2 DEF Crash, StartAgain, AtRest, WebhookTypeOK
  <2>2. Jobs(r)' = {} /\ ~Working(r)'
        /\ \A q \in Replicas : q # r => Jobs(q)' = Jobs(q) /\ (Working(q)' <=> Working(q))
    BY <2>1 DEF Jobs, Working
  <2>3. /\ doubtful' \in {doubtful, doubtful \ {r}} /\ UNCHANGED <<rows, lock>>
        /\ crashes' \in 0..MaxCrashes
    BY <1>2, WebhookAssumption DEF Crash, StartAgain, WebhookTypeOK
  <2>4. /\ first' \in [Deliveries -> [pc : {"waiting", "posting", "over"}, by : Replicas \cup {NoOne}]]
        /\ \A d \in Deliveries : first[d].pc = "over" => first'[d].pc = "over"
        /\ \A d \in Deliveries : first'[d].pc # "over" => first[d].pc # "over"
    BY <1>2 DEF Crash, StartAgain, WebhookTypeOK
  <2>5. WebhookTypeOK' /\ RowsKnown'
    BY <2>1, <2>3, <2>4 DEF WebhookTypeOK, RowsKnown
  <2>6. JobsApart'
    BY <2>1, <2>2, <2>4 DEF JobsApart
  <2>7. LockHeld' /\ Alone'
    BY <2>2, <2>3 DEF LockHeld, Alone
  <2>8. JobsPending'
    BY <2>2, <2>3 DEF JobsPending
  <2> QED BY <2>5, <2>6, <2>7, <2>8
<1> QED BY <1>1, <1>2

\* No step breaks the invariant.
LEMMA WebhookStepInv == WebhookInv /\ [WebhookNext]_webhookVars => WebhookInv'
<1> SUFFICES ASSUME WebhookInv, [WebhookNext]_webhookVars PROVE WebhookInv'
  OBVIOUS
<1>1. ASSUME NEW r \in Replicas, Record(r) PROVE WebhookInv'
  <2>1. PICK job \in replica[r].at : RecordDelivery(job[1], job[2] + 1)
    BY <1>1 DEF Record
  <2> QED BY <1>1, <2>1, JobTyped, WriteRecorded, WrittenInv DEF Record
<1>2. ASSUME NEW r \in Replicas, WebhookMissing(r) PROVE WebhookInv'
  <2>1. PICK job \in replica[r].at : rows' = [rows EXCEPT ![job[1]].status = "dlq"]
    BY <1>2 DEF WebhookMissing
  <2>2. /\ rows' \in [Deliveries -> Row] /\ rows'[job[1]].status = "dlq"
        /\ \A e \in Deliveries : e # job[1] => rows'[e] = rows[e]
    BY <2>1, JobTyped DEF WebhookInv, WebhookTypeOK, Row, Status
  <2> QED BY <1>2, <2>2, WrittenInv DEF WebhookMissing
<1>3. ASSUME NEW r \in Replicas, WriteLost(r) PROVE WebhookInv'
  <2>1. PICK job \in replica[r].at : TRUE
    BY <1>3 DEF WriteLost, WebhookInv, JobsApart
  <2>2. job[1] \in Deliveries /\ UNCHANGED rows
    BY <1>3, JobTyped DEF WriteLost
  <2>3. rows' \in [Deliveries -> Row]
        /\ (rows'[job[1]].status = "pending" => rows'[job[1]].attempt < MaxAttempts)
    BY <2>2 DEF WebhookInv, WebhookTypeOK, RowsKnown, Row
  <2> QED BY <1>3, <2>2, <2>3, WrittenInv DEF WriteLost
<1>4. CASE UNCHANGED webhookVars
  BY <1>4 DEF webhookVars, WebhookInv, WebhookTypeOK, RowsKnown, JobsApart, LockHeld, Alone, JobsPending,
              Jobs, Working
<1> QED BY <1>1, <1>2, <1>3, <1>4, DeliveryInv, LockInv, ReadInv, PostInv, FaultInv
        DEF WebhookNext, WorkSteps

-----------------------------------------------------------------------------
(* The theorems.                                                           *)

\* The inductive invariant holds whatever expires, crashes or is lost.
THEOREM WebhookInvariance == WebhookSpec => []WebhookInv
BY WebhookInitInv, WebhookStepInv, PTL DEF WebhookSpec

\* A delivery that succeeded is undone only by a worker that lost the lock or
\* read while one that had was working.
THEOREM WebhookSuccessIsKept == WebhookSpec => SuccessIsKept
<1>1. ASSUME WebhookInv, [WebhookNext]_webhookVars,
             NEW d \in Deliveries, rows[d].status = "success", rows'[d].status # "success"
      PROVE  \E r \in doubtful : replica[r].pc = "posting"
                                 /\ \E n \in Attempts : <<d, n>> \in replica[r].at
  <2>1. ASSUME NEW r \in Replicas, NEW job \in replica[r].at, replica[r].pc = "posting",
               \A e \in Deliveries : e # job[1] => rows'[e] = rows[e]
        PROVE  \E q \in doubtful : replica[q].pc = "posting"
                                   /\ \E n \in Attempts : <<d, n>> \in replica[q].at
    <3>1. job[1] = d
      BY <1>1, <2>1
    <3>2. job \in Jobs(r) /\ job \in Deliveries \X Attempts
      BY <1>1, <2>1 DEF WebhookInv, JobsApart, Jobs
    <3>3. r \in doubtful
      BY <1>1, <3>1, <3>2 DEF WebhookInv, JobsPending
    <3>4. job = <<d, job[2]>> /\ job[2] \in Attempts
      BY <3>1, <3>2
    <3> QED BY <2>1, <3>3, <3>4
  <2>2. ASSUME NEW e \in Deliveries, FirstAttempt(e) \/ BecomesDue(e) PROVE FALSE
    BY <1>1, <2>2 DEF FirstAttempt, BecomesDue, RecordDelivery, WebhookInv, RowsKnown, WebhookTypeOK
  <2>3. ASSUME NEW r \in Replicas, Record(r) \/ WebhookMissing(r)
        PROVE  \E job \in replica[r].at : \A e \in Deliveries : e # job[1] => rows'[e] = rows[e]
    BY <1>1, <2>3 DEF Record, WebhookMissing, RecordDelivery, WebhookInv, WebhookTypeOK
  <2>4. CASE UNCHANGED rows
    BY <1>1, <2>4
  <2> QED BY <1>1, <2>1, <2>2, <2>3, <2>4
          DEF WebhookNext, WorkSteps, Dispatch, TryLock, ReadDue, PollFails, Post, Record,
              WebhookMissing, WriteLost, Unlock, Expire, Crash, StartAgain, webhookVars
<1>2. WebhookInv /\ [WebhookNext]_webhookVars =>
        [\A d \in Deliveries : rows[d].status = "success" /\ rows'[d].status # "success" =>
           \E r \in doubtful : replica[r].pc = "posting"
                               /\ \E n \in Attempts : <<d, n>> \in replica[r].at]_webhookVars
  BY <1>1
<1> QED BY <1>2, WebhookInvariance, PTL DEF SuccessIsKept, WebhookSpec
=============================================================================

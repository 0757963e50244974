--------------------------- MODULE CircuitBreaker ---------------------------
(***************************************************************************)
(* pkg/middleware/timeout_circuit.go: the breaker of one endpoint and the  *)
(* requests that pass it.  It opens at a number of failures, lets one      *)
(* request through when its wait is over (half open), and closes after a   *)
(* number of successes.  Requests outlive the state they were let through  *)
(* in, and their results count in the state they come back to.             *)
(***************************************************************************)
EXTENDS Integers, FiniteSets

CONSTANTS Requests,
          FailureThreshold, SuccessThreshold, MaxConcurrent,
          MaxPeriods,   \* bound: times the breaker becomes half open
          MaxForgotten  \* bound: requests that end without a verdict

ASSUME BreakerAssumption ==
  /\ IsFiniteSet(Requests)
  /\ {FailureThreshold, SuccessThreshold, MaxConcurrent} \subseteq Nat \ {0}
  /\ {MaxPeriods, MaxForgotten} \subseteq Nat

VARIABLES
  state, failureCount, successCount,
  concurrentCount,
  waited,     \* nextAttemptTime has passed
  request,    \* the half-open period a request was let through in, or Outside
  period,     \* how often the breaker has become half open
  forgotten   \* requests whose slot was never given back

breakerVars == <<state, failureCount, successCount, concurrentCount, waited, request, period,
                 forgotten>>

Outside == -1
Inside == {r \in Requests : request[r] # Outside}

BreakerTypeOK ==
  /\ state \in {"closed", "open", "halfOpen"}
  /\ failureCount \in 0..FailureThreshold /\ successCount \in 0..SuccessThreshold
  /\ concurrentCount \in Nat
  /\ waited \in BOOLEAN
  /\ request \in [Requests -> 0..MaxPeriods \cup {Outside}]
  /\ period \in 0..MaxPeriods /\ forgotten \in 0..MaxForgotten

BreakerInit ==
  /\ state = "closed" /\ failureCount = 0 /\ successCount = 0 /\ concurrentCount = 0
  /\ waited = FALSE
  /\ request = [r \in Requests |-> Outside]
  /\ period = 0 /\ forgotten = 0

-----------------------------------------------------------------------------
(* Allow.                                                                  *)

Enter(r, n) ==
  /\ request[r] = Outside
  /\ request' = [request EXCEPT ![r] = n]
  /\ concurrentCount' = concurrentCount + 1

AllowClosed(r) ==
  /\ state = "closed" /\ concurrentCount < MaxConcurrent
  /\ Enter(r, period)
  /\ UNCHANGED <<state, failureCount, successCount, waited, period, forgotten>>

\* The first request after the wait; those let through before are not waited for.
AllowOpen(r) ==
  /\ state = "open" /\ waited /\ period < MaxPeriods
  /\ state' = "halfOpen" /\ successCount' = 0
  /\ period' = period + 1
  /\ Enter(r, period + 1)
  /\ UNCHANGED <<failureCount, waited, forgotten>>

\* A slip: one more than the one that is under way.
AllowHalfOpenBeside(r) ==
  /\ state = "halfOpen" /\ concurrentCount <= 1
  /\ Enter(r, period)
  /\ UNCHANGED <<state, failureCount, successCount, waited, period, forgotten>>

AllowHalfOpen(r) ==
  /\ state = "halfOpen" /\ concurrentCount < 1
  /\ Enter(r, period)
  /\ UNCHANGED <<state, failureCount, successCount, waited, period, forgotten>>

Allow(r) == AllowClosed(r) \/ AllowOpen(r) \/ AllowHalfOpen(r)

WaitEnds ==
  /\ state = "open" /\ ~waited
  /\ waited' = TRUE
  /\ UNCHANGED <<state, failureCount, successCount, concurrentCount, request, period, forgotten>>

-----------------------------------------------------------------------------
(* The end of a request.                                                   *)

\* A slip: a failure frees no slot.
LeaveKeepingSlot(r) ==
  /\ request[r] # Outside
  /\ request' = [request EXCEPT ![r] = Outside]
  /\ concurrentCount' = IF state = "open" \/ concurrentCount = 0 THEN concurrentCount
                                                                  ELSE concurrentCount - 1

Leave(r) ==
  /\ request[r] # Outside
  /\ request' = [request EXCEPT ![r] = Outside]
  /\ concurrentCount' = IF concurrentCount = 0 THEN 0 ELSE concurrentCount - 1

RecordSuccess(r) ==
  /\ Leave(r)
  /\ \/ /\ state = "closed"
        /\ failureCount' = 0
        /\ UNCHANGED <<state, successCount>>
     \/ /\ state = "halfOpen"
        /\ successCount' = successCount + 1
        /\ IF successCount' >= SuccessThreshold THEN state' = "closed" /\ failureCount' = 0
                                                ELSE UNCHANGED <<state, failureCount>>
     \/ state = "open" /\ UNCHANGED <<state, failureCount, successCount>>
  /\ UNCHANGED <<waited, period, forgotten>>

\* A 5xx, a panic or a timeout.  Beyond its threshold failureCount says nothing more.
RecordFailure(r) ==
  /\ Leave(r)
  /\ failureCount' = IF failureCount < FailureThreshold THEN failureCount + 1 ELSE failureCount
  /\ LET opens == state = "halfOpen" \/ (state = "closed" /\ failureCount' >= FailureThreshold)
     IN  /\ state' = IF opens THEN "open" ELSE state
         /\ waited' = (waited /\ ~opens)
  /\ UNCHANGED <<successCount, period, forgotten>>

\* Any other answer, such as a 4xx, is not recorded.
NoVerdict(r) ==
  /\ request[r] # Outside /\ forgotten < MaxForgotten
  /\ request' = [request EXCEPT ![r] = Outside]
  /\ forgotten' = forgotten + 1
  /\ UNCHANGED <<state, failureCount, successCount, concurrentCount, waited, period>>

RequestSteps(r) == Allow(r) \/ RecordSuccess(r) \/ RecordFailure(r) \/ NoVerdict(r)
BreakerNext == WaitEnds \/ \E r \in Requests : RequestSteps(r)

BreakerSpec == BreakerInit /\ [][BreakerNext]_breakerVars

-----------------------------------------------------------------------------
(* Properties.                                                             *)

\* concurrentCount counts the requests inside and those that left without a
\* verdict, over whichever states they were let through and came back in; it
\* is never clipped at zero.
SlotsAccounted == concurrentCount = Cardinality(Inside) + forgotten

\* While half open, the breaker tries the endpoint with one request at a time.
OneProbe ==
  state = "halfOpen" =>
    \A r, q \in Inside : request[r] = period /\ request[q] = period => r = q
=============================================================================

------------------------------- MODULE TaskPool -------------------------------
(***************************************************************************)
(* What pkg/task promises its callers, with no queue, lock or condition    *)
(* variable in sight: a submitted task is refused, withdrawn before it     *)
(* starts, or handed to exactly one worker slot, whose handler runs once   *)
(* and settles it; a verdict, once given, is final.                        *)
(***************************************************************************)
CONSTANTS Task, Worker, Idle   \* Idle is not in Task

VARIABLES phase,    \* absent, waiting, executing or settled
          slot,     \* the task whose handler a worker is running, or Idle
          verdict   \* what Wait() returns once the task is settled

vars == <<phase, slot, verdict>>

Verdict == {"success", "failed", "canceled"}

Init == /\ phase = [t \in Task |-> "absent"]
        /\ slot = [w \in Worker |-> Idle]
        /\ verdict = [t \in Task |-> "none"]

Settle(t, v) == /\ phase' = [phase EXCEPT ![t] = "settled"]
                /\ verdict' = [verdict EXCEPT ![t] = v]

Admit(t) == /\ phase[t] = "absent"
            /\ phase' = [phase EXCEPT ![t] = "waiting"]
            /\ UNCHANGED <<slot, verdict>>

\* Without running: refused on submission, cancelled, or context ended.
Withdraw(t) == /\ phase[t] \in {"absent", "waiting"}
               /\ \E v \in {"failed", "canceled"} : Settle(t, v)
               /\ UNCHANGED slot

\* A stopping scheduler refuses everything that waits, at once.
WithdrawAll(S) == /\ \A t \in S : phase[t] = "waiting"
                  /\ phase' = [t \in Task |-> IF t \in S THEN "settled" ELSE phase[t]]
                  /\ verdict' = [t \in Task |-> IF t \in S THEN "failed" ELSE verdict[t]]
                  /\ UNCHANGED slot

Dispatch(w, t) == /\ slot[w] = Idle
                  /\ phase[t] = "waiting"
                  /\ slot' = [slot EXCEPT ![w] = t]
                  /\ phase' = [phase EXCEPT ![t] = "executing"]
                  /\ UNCHANGED verdict

Finish(w, t) == /\ slot[w] = t
                /\ phase[t] = "executing"
                /\ slot' = [slot EXCEPT ![w] = Idle]
                /\ \E v \in Verdict : Settle(t, v)

Next == \/ \E t \in Task : Admit(t) \/ Withdraw(t)
        \/ \E S \in SUBSET Task : WithdrawAll(S)
        \/ \E w \in Worker, t \in Task : Dispatch(w, t) \/ Finish(w, t)

Spec == Init /\ [][Next]_vars
=============================================================================

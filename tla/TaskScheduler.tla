---------------------------- MODULE TaskScheduler ----------------------------
(***************************************************************************)
(* pkg/task: a priority waiting list, a fixed pool of workers that sleep   *)
(* on one condition variable, and, when durable, one execution_tasks row   *)
(* per task ID.  Every critical section of s.mu is one action; so is every *)
(* stretch of code between two of them that touches shared state once.     *)
(***************************************************************************)
EXTENDS TaskQueue, FiniteSets

CONSTANTS Worker,      \* goroutines running workerLoop
          MayEnd,      \* the objects submitted with a context that can end
          Unreliable,  \* the IDs whose row writes may fail (errors are only logged)
          Outcome,     \* how handlers end: nil, an error, context.Canceled
          NoTask       \* what a worker without a task holds

ASSUME SchedulerAssumption == /\ MayEnd \subseteq Task
                              /\ Unreliable \subseteq Job
                              /\ Outcome \subseteq {"success", "failed", "canceled"}
                              /\ NoTask \notin Task
                              /\ IsFiniteSet(Worker)

VARIABLES
  queue,      \* the waiting list: a sequence of task objects
  status,     \* Task.Status
  settled,    \* the objects whose finishOnce has run: done is closed
  ended,      \* the objects whose context has ended (cancelled or timed out)
  invoked,    \* how often the handler was called for the object
  pc,         \* where the goroutine submitting the object is
  cancelPc,   \* where the CancelTaskByID call that removed it is
  worker,     \* what each worker does, and with which task
  running,    \* the atomic counter of busy workers
  stopping,   \* the atomic stop flag
  stopPc,     \* where the Stop call is
  row,        \* the status column of the durable rows
  durable     \* s.db is set: the pool was made by NewPersistentScheduler

objVars == <<status, settled, ended, invoked>>
vars == <<queue, objVars, pc, cancelPc, worker, running, stopping, stopPc, row, durable>>

Verdict == {"success", "failed", "canceled"}
RowStatus == {"none", "pending", "running", "deleted"} \cup Verdict
Holding == {"taken", "marking", "executing", "saving", "closing"}
WorkerPc == {"looking", "asleep", "exited"} \cup Holding
Free(p) == [pc |-> p, task |-> NoTask]

TypeOK ==
  /\ queue \in Seq(Task)
  /\ status \in [Task -> {"absent", "pending", "running"} \cup Verdict]
  /\ settled \subseteq Task
  /\ ended \subseteq Task
  /\ invoked \in [Task -> Nat]
  /\ pc \in [Task -> {"none", "saving", "pushing", "pushed", "returned"}]
  /\ cancelPc \in [Task -> {"none", "removed", "saving", "returned"}]
  /\ worker \in [Worker -> [pc : WorkerPc, task : Task \cup {NoTask}]]
  /\ running \in Nat
  /\ stopping \in BOOLEAN
  /\ stopPc \in {"none", "draining", "joining", "returned"}
  /\ row \in [Job -> RowStatus]
  /\ durable \in BOOLEAN

Init ==
  /\ queue = <<>>
  /\ status = [t \in Task |-> "absent"]
  /\ settled = {}
  /\ ended = {}
  /\ invoked = [t \in Task |-> 0]
  /\ pc = [t \in Task |-> "none"]
  /\ cancelPc = [t \in Task |-> "none"]
  /\ worker = [w \in Worker |-> Free("looking")]
  /\ running = 0
  /\ stopping = FALSE
  /\ stopPc = "none"
  /\ row = [j \in Job |-> "none"]
  /\ durable \in BOOLEAN

-----------------------------------------------------------------------------
(* Steps several operations share.                                         *)

\* Task.deliver: the verdict and the closing of done happen once.
Deliver(t, v) ==
  /\ settled' = settled \cup {t}
  /\ status' = IF t \in settled THEN status ELSE [status EXCEPT ![t] = v]

\* cond.Signal and cond.Broadcast, as the workers' states they may lead to.
Signalled(wk) ==
  LET asleep == {w \in Worker : wk[w].pc = "asleep"}
  IN  IF asleep = {} THEN {wk} ELSE {[wk EXCEPT ![w] = Free("looking")] : w \in asleep}

\* A slip: Stop signals instead of broadcasting.
SignalOnStop(wk) == CHOOSE r \in Signalled(wk) : TRUE

Broadcast(wk) ==
  [w \in Worker |-> IF wk[w].pc = "asleep" THEN Free("looking") ELSE wk[w]]

\* persistRunning, persistFinished: a soft-deleted row matches no update.
WriteRow(j, s) ==
  \/ row' = IF ~durable \/ row[j] \in {"none", "deleted"}
            THEN row ELSE [row EXCEPT ![j] = s]
  \/ durable /\ j \in Unreliable /\ row' = row

-----------------------------------------------------------------------------
(* SubmitTask, up to the lock.                                             *)

\* gonanoid makes a fresh ID.
Fresh(t) == /\ row[IdOf[t]] = "none"
            /\ \A u \in Task : IdOf[u] = IdOf[t] => pc[u] = "none"

SubmitRefused(t) ==
  /\ pc[t] = "none" /\ Fresh(t)
  /\ stopping
  /\ Deliver(t, "failed")
  /\ pc' = [pc EXCEPT ![t] = "returned"]
  /\ UNCHANGED <<queue, ended, invoked, cancelPc, worker, running, stopping,
                 stopPc, row, durable>>

SubmitAccepted(t) ==
  /\ pc[t] = "none" /\ Fresh(t)
  /\ ~stopping
  /\ status' = [status EXCEPT ![t] = "pending"]
  /\ pc' = [pc EXCEPT ![t] = IF durable THEN "saving" ELSE "pushing"]
  /\ UNCHANGED <<queue, settled, ended, invoked, cancelPc, worker, running,
                 stopping, stopPc, row, durable>>

\* RequeueExisting: a new object for an ID that has a row already.
Requeue(t) ==
  /\ pc[t] = "none"
  /\ IF stopping
     THEN /\ Deliver(t, "failed")
          /\ pc' = [pc EXCEPT ![t] = "returned"]
     ELSE /\ status' = [status EXCEPT ![t] = "pending"]
          /\ pc' = [pc EXCEPT ![t] = "pushing"]
          /\ UNCHANGED settled
  /\ UNCHANGED <<queue, ended, invoked, cancelPc, worker, running, stopping, stopPc, durable>>

\* persistPending: a failed insert fails the task.
PersistPending(t) ==
  /\ pc[t] = "saving"
  /\ \/ /\ row' = [row EXCEPT ![IdOf[t]] = "pending"]
        /\ pc' = [pc EXCEPT ![t] = "pushing"]
        /\ UNCHANGED <<status, settled>>
     \/ /\ IdOf[t] \in Unreliable
        /\ Deliver(t, "failed")
        /\ pc' = [pc EXCEPT ![t] = "returned"]
        /\ row' = row
  /\ UNCHANGED <<queue, ended, invoked, cancelPc, worker, running, stopping,
                 stopPc, durable>>

(* pushQueuedTask: the second look at the stop flag is under the lock.     *)
PushRefused(t) ==
  /\ pc[t] = "pushing"
  /\ stopping
  /\ Deliver(t, "failed")
  /\ pc' = [pc EXCEPT ![t] = "returned"]
  /\ UNCHANGED <<queue, ended, invoked, cancelPc, worker, running, stopping,
                 stopPc, row, durable>>

Enqueue(t) ==
  /\ queue' = Push(queue, t)
  /\ pc' = [pc EXCEPT ![t] = "pushed"]
  /\ UNCHANGED <<objVars, cancelPc, worker, running, stopping, stopPc, row, durable>>

\* A slip: the stop flag is not looked at again under the lock.
PushWithoutSecondLook(t) == pc[t] = "pushing" /\ Enqueue(t)

PushTask(t) == pc[t] = "pushing" /\ ~stopping /\ Enqueue(t)

\* A slip: the pusher unlocks without a Signal.
SignalNobody(t) ==
  /\ pc[t] = "pushed"
  /\ pc' = [pc EXCEPT ![t] = "returned"]
  /\ UNCHANGED <<queue, objVars, cancelPc, worker, running, stopping, stopPc, row, durable>>

SignalPushed(t) ==
  /\ pc[t] = "pushed"
  /\ worker' \in Signalled(worker)
  /\ pc' = [pc EXCEPT ![t] = "returned"]
  /\ UNCHANGED <<queue, objVars, cancelPc, running, stopping, stopPc, row, durable>>

\* Task.Cancel by whoever holds the object, or its parent context ends.  Once
\* the handler has been called that only shows in how it returns: Outcome.
ContextEnds(t) ==
  /\ t \in MayEnd
  /\ pc[t] # "none" /\ invoked[t] = 0 /\ t \notin settled \cup ended
  /\ ended' = ended \cup {t}
  /\ UNCHANGED <<queue, status, settled, invoked, pc, cancelPc, worker, running,
                 stopping, stopPc, row, durable>>

-----------------------------------------------------------------------------
(* CancelTaskByID.                                                         *)

\* A slip: the entry is marked but left in the list.
CancelWithoutRemove(j) ==
  /\ Positions(queue, j) # {}
  /\ cancelPc' = [cancelPc EXCEPT ![queue[FirstPosition(queue, j)]] = "removed"]
  /\ UNCHANGED <<queue, objVars, pc, worker, running, stopping, stopPc, row, durable>>

CancelTaskByID(j) ==
  /\ Positions(queue, j) # {}
  /\ LET i == FirstPosition(queue, j)
     IN  /\ queue' = RemoveAt(queue, i)
         /\ cancelPc' = [cancelPc EXCEPT ![queue[i]] = "removed"]
  /\ UNCHANGED <<objVars, pc, worker, running, stopping, stopPc, row, durable>>

CancelDeliver(t) ==
  /\ cancelPc[t] = "removed"
  /\ worker' \in Signalled(worker)
  /\ ended' = ended \cup {t}
  /\ Deliver(t, "canceled")
  /\ cancelPc' = [cancelPc EXCEPT ![t] = IF durable THEN "saving" ELSE "returned"]
  /\ UNCHANGED <<queue, invoked, pc, running, stopping, stopPc, row, durable>>

CancelSave(t) ==
  /\ cancelPc[t] = "saving"
  /\ WriteRow(IdOf[t], status[t])
  /\ cancelPc' = [cancelPc EXCEPT ![t] = "returned"]
  /\ UNCHANGED <<queue, objVars, pc, worker, running, stopping, stopPc, durable>>

-----------------------------------------------------------------------------
(* workerLoop and acquireTask.                                             *)

\* A slip: the entry is read but not taken off the list.
AcquirePeek(w) ==
  /\ worker[w].pc = "looking"
  /\ queue # <<>>
  /\ worker' = [worker EXCEPT ![w] = [pc |-> "taken", task |-> Head(queue)]]
  /\ running' = running + 1
  /\ UNCHANGED <<queue, objVars, pc, cancelPc, stopping, stopPc, row, durable>>

AcquireTask(w) ==
  /\ worker[w].pc = "looking"
  /\ queue # <<>>
  /\ worker' = [worker EXCEPT ![w] = [pc |-> "taken", task |-> Head(queue)]]
  /\ queue' = Tail(queue)
  /\ running' = running + 1
  /\ UNCHANGED <<objVars, pc, cancelPc, stopping, stopPc, row, durable>>

Sleep(w) ==
  /\ worker[w].pc = "looking"
  /\ queue = <<>> /\ ~stopping
  /\ worker' = [worker EXCEPT ![w] = Free("asleep")]
  /\ UNCHANGED <<queue, objVars, pc, cancelPc, running, stopping, stopPc, row, durable>>

Exit(w) ==
  /\ worker[w].pc = "looking"
  /\ queue = <<>> /\ stopping
  /\ worker' = [worker EXCEPT ![w] = Free("exited")]
  /\ UNCHANGED <<queue, objVars, pc, cancelPc, running, stopping, stopPc, row, durable>>

\* A slip: the row is not written.
ForgetRow == "closing"

\* persistFinished comes next; without rows it does nothing.
AfterVerdict == IF durable THEN "saving" ELSE "closing"

\* A task whose context ended while it waited is settled without a call.
SkipEnded(w) ==
  LET t == worker[w].task
  IN  /\ worker[w].pc = "taken"
      /\ t \in ended
      /\ \E v \in {"failed", "canceled"} : Deliver(t, v)
      /\ worker' = [worker EXCEPT ![w].pc = AfterVerdict]
      /\ UNCHANGED <<queue, ended, invoked, pc, cancelPc, running, stopping,
                     stopPc, row, durable>>

MarkTask(w) ==
  LET t == worker[w].task
  IN  /\ worker[w].pc = "taken"
      /\ t \notin ended
      /\ status' = [status EXCEPT ![t] = "running"]
      /\ worker' = [worker EXCEPT ![w].pc = "marking"]
      /\ UNCHANGED <<queue, settled, ended, invoked, pc, cancelPc, running,
                     stopping, stopPc, row, durable>>

\* persistRunning, then the call of the handler.
CallHandler(w) ==
  LET t == worker[w].task
  IN  /\ worker[w].pc = "marking"
      /\ WriteRow(IdOf[t], "running")
      /\ invoked' = [invoked EXCEPT ![t] = @ + 1]
      /\ worker' = [worker EXCEPT ![w].pc = "executing"]
      /\ UNCHANGED <<queue, status, settled, ended, pc, cancelPc, running,
                     stopping, stopPc, durable>>

HandlerReturns(w) ==
  LET t == worker[w].task
  IN  /\ worker[w].pc = "executing"
      /\ \E v \in Outcome : Deliver(t, v)
      /\ worker' = [worker EXCEPT ![w].pc = AfterVerdict]
      /\ UNCHANGED <<queue, ended, invoked, pc, cancelPc, running, stopping,
                     stopPc, row, durable>>

PersistFinished(w) ==
  LET t == worker[w].task
  IN  /\ worker[w].pc = "saving"
      /\ WriteRow(IdOf[t], status[t])
      /\ worker' = [worker EXCEPT ![w].pc = "closing"]
      /\ UNCHANGED <<queue, objVars, pc, cancelPc, running, stopping, stopPc, durable>>

\* A slip: the counter is given back here and in a deferred call.
FreeTwice(w) ==
  /\ worker[w].pc = "closing"
  /\ running' = running - 2
  /\ worker' \in Signalled([worker EXCEPT ![w] = Free("looking")])
  /\ UNCHANGED <<queue, objVars, pc, cancelPc, stopping, stopPc, row, durable>>

\* A slip: the counter is left as it is.
FreeWithoutCount(w) ==
  /\ worker[w].pc = "closing"
  /\ worker' \in Signalled([worker EXCEPT ![w] = Free("looking")])
  /\ UNCHANGED <<queue, objVars, pc, cancelPc, running, stopping, stopPc, row, durable>>

\* running is given back and afterTaskLocked signals.
AfterTask(w) ==
  /\ worker[w].pc = "closing"
  /\ running' = running - 1
  /\ worker' \in Signalled([worker EXCEPT ![w] = Free("looking")])
  /\ UNCHANGED <<queue, objVars, pc, cancelPc, stopping, stopPc, row, durable>>

-----------------------------------------------------------------------------
(* Stop.                                                                   *)

StopBegin ==
  /\ ~stopping
  /\ stopping' = TRUE
  /\ stopPc' = "draining"
  /\ UNCHANGED <<queue, objVars, pc, cancelPc, worker, running, row, durable>>

\* With rows the list is dropped; without, everything in it fails.
StopDrain ==
  /\ stopPc = "draining"
  /\ queue' = <<>>
  /\ IF durable
     THEN UNCHANGED <<status, settled>>
     ELSE /\ settled' = settled \cup Waiting(queue)
          /\ status' = [t \in Task |-> IF t \in Waiting(queue) \ settled
                                       THEN "failed" ELSE status[t]]
  /\ worker' = Broadcast(worker)
  /\ stopPc' = "joining"
  /\ UNCHANGED <<ended, invoked, pc, cancelPc, running, stopping, row, durable>>

StopReturn ==
  /\ stopPc = "joining"
  /\ \A w \in Worker : worker[w].pc = "exited"
  /\ stopPc' = "returned"
  /\ UNCHANGED <<queue, objVars, pc, cancelPc, worker, running, stopping, row, durable>>

-----------------------------------------------------------------------------
Submit(t) == SubmitRefused(t) \/ SubmitAccepted(t)
SubmitSteps(t) == PersistPending(t) \/ PushRefused(t) \/ PushTask(t) \/ SignalPushed(t)
CancelSteps(t) == CancelDeliver(t) \/ CancelSave(t)
WorkerSteps(w) == \/ AcquireTask(w) \/ Sleep(w) \/ Exit(w)
                  \/ SkipEnded(w) \/ MarkTask(w) \/ CallHandler(w)
                  \/ HandlerReturns(w) \/ PersistFinished(w) \/ AfterTask(w)
StopSteps == StopDrain \/ StopReturn

Next == \/ \E t \in Task : Submit(t) \/ SubmitSteps(t) \/ CancelSteps(t) \/ ContextEnds(t)
        \/ \E j \in Job : CancelTaskByID(j)
        \/ \E w \in Worker : WorkerSteps(w)
        \/ StopBegin \/ StopSteps

Spec == Init /\ [][Next]_vars

\* Goroutines are scheduled, and handlers return.
Fairness == /\ \A t \in Task : WF_vars(SubmitSteps(t)) /\ WF_vars(CancelSteps(t))
            /\ \A w \in Worker : WF_vars(WorkerSteps(w))
            /\ WF_vars(StopSteps)

FairSpec == Spec /\ Fairness

-----------------------------------------------------------------------------
(* Properties.                                                             *)

Submitting(t) == pc[t] \in {"saving", "pushing"} /\ t \notin settled
InList(t) == \E i \in 1..Len(queue) : queue[i] = t
Working == {"taken", "marking", "executing"}
AtWorker(w, t) == worker[w].task = t /\ worker[w].pc \in Working
AtCanceler(t) == cancelPc[t] = "removed"
Live(t) == pc[t] # "none" /\ t \notin settled

\* A task object that is neither settled nor dropped by a durable Stop is in
\* exactly one pair of hands - its submitter, the waiting list (once), one
\* worker, or the CancelTaskByID call that took it off the list - and a
\* settled one in none: no push, pop, removal or drain loses or doubles a task.
Custody ==
  /\ \A i, k \in 1..Len(queue) : queue[i] = queue[k] => i = k
  /\ \A v, w \in Worker, t \in Task : AtWorker(v, t) /\ AtWorker(w, t) => v = w
  /\ \A t \in Task :
       /\ Submitting(t) => ~InList(t) /\ ~AtCanceler(t) /\ \A w \in Worker : ~AtWorker(w, t)
       /\ InList(t) => ~AtCanceler(t) /\ \A w \in Worker : ~AtWorker(w, t)
       /\ AtCanceler(t) => \A w \in Worker : ~AtWorker(w, t)
       /\ InList(t) \/ AtCanceler(t) \/ (\E w \in Worker : AtWorker(w, t)) => Live(t)
       /\ Live(t) /\ ~(durable /\ stopPc \in {"joining", "returned"})
            => Submitting(t) \/ InList(t) \/ AtCanceler(t) \/ \E w \in Worker : AtWorker(w, t)

\* However submitters, workers, cancellers and Stop interleave, the handler of
\* an object is called at most once, and never after CancelTaskByID took the
\* object (its caller was told TRUE, "removed").
HandlerOnce ==
  \A t \in Task : invoked[t] <= IF cancelPc[t] = "none" THEN 1 ELSE 0

\* The list is what Pop relies on: nothing of higher priority waits behind.
Sorted == \A i, k \in 1..Len(queue) : i < k => Prio[queue[i]] >= Prio[queue[k]]

\* Of two waiting tasks of one priority, the one pushed first stays in front,
\* and a newcomer starts behind its equals, whatever is pushed, popped or
\* removed around them: equal priorities are served in submission order.
FifoAmongEquals ==
  [][\A t, u \in Task :
       /\ Prio[t] = Prio[u] /\ InList(t) /\ InList(t)' /\ InList(u)'
       /\ InList(u) => \E i, k \in 1..Len(queue) : i < k /\ queue[i] = t /\ queue[k] = u
       => t = u \/ \E i, k \in 1..Len(queue') : i < k /\ queue'[i] = t /\ queue'[k] = u]_vars

\* RunningCount and Stats: the atomic counter, changed outside the lock on one
\* side, is the number of workers between their pop and their release.
RunningCounts == running = Cardinality({w \in Worker : worker[w].pc \in Holding})

\* When nobody is about to write it any more, the row of a settled task says the
\* verdict its caller got, whoever gave it; only a task that Stop refused after
\* its row was saved is left pending, for the next process.
RowsAgree ==
  \A t \in Task :
    /\ durable /\ t \in settled /\ IdOf[t] \notin Unreliable
    /\ cancelPc[t] # "saving" /\ \A w \in Worker : worker[w] # [pc |-> "saving", task |-> t]
    => row[IdOf[t]] \in {status[t], "none"} \/ (stopping /\ row[IdOf[t]] = "pending")

Asleep == {w \in Worker : worker[w].pc = "asleep"}
Looking == {w \in Worker : worker[w].pc = "looking"}
SignalDue == {t \in Task : pc[t] = "pushed"}

\* While a worker sleeps, every waiting task has a worker of its own on the way
\* to the list, or a Signal still to be sent; and once Stop has broadcast,
\* nobody sleeps and nothing waits. One condition variable serves pushes,
\* cancels, finished tasks and Stop, and a Signal may find a worker that has
\* nothing to do: none of them is lost to a task that needed it.
NoLostWakeup ==
  /\ Asleep # {} => Len(queue) <= Cardinality(Looking) + Cardinality(SignalDue)
  /\ stopPc \in {"joining", "returned"} => Asleep = {} /\ queue = <<>>

\* The abstract pool, seen through the scheduler's state.
Phase == [t \in Task |-> IF t \in settled THEN "settled"
                         ELSE IF pc[t] = "none" THEN "absent"
                         ELSE IF invoked[t] = 0 THEN "waiting" ELSE "executing"]
Slot == [w \in Worker |-> IF worker[w].pc = "executing" THEN worker[w].task ELSE NoTask]
Answer == [t \in Task |-> IF t \in settled THEN status[t] ELSE "none"]

Pool == INSTANCE TaskPool WITH Idle <- NoTask, phase <- Phase, slot <- Slot, verdict <- Answer

\* The scheduler implements the pool: a verdict is final, a settled task is
\* never dispatched, a slot runs one handler at a time, each handler once.
ImplementsPool == Pool!Spec

\* Without rows, every task a caller submitted is settled, so every Wait()
\* returns: no wakeup is lost between Signal, Broadcast and the sleepers, and
\* a Stop in the middle fails what it drains or refuses.
EverySubmissionSettles == \A t \in Task : ~durable /\ pc[t] # "none" ~> t \in settled

\* Stop returns: every worker sees the flag, also one about to sleep.
StopCompletes == stopPc = "draining" ~> stopPc = "returned"
=============================================================================

-------------------------- MODULE TaskSchedulerProofs --------------------------
(***************************************************************************)
(* pkg/task with any number of tasks and workers, durable or not: the      *)
(* inductive invariant behind the safety properties of TaskScheduler.      *)
(***************************************************************************)
EXTENDS TaskScheduler, TaskQueueProofs, FiniteSetTheorems

-----------------------------------------------------------------------------
(* The inductive invariant.                                                *)

AtNoWorker(t) == \A w \in Worker : worker[w].task # t

\* Before it is pushed, an object is its submitter's alone.
Unpushed(t) ==
  pc[t] \in {"none", "saving", "pushing"} =>
    t \notin settled /\ cancelPc[t] = "none" /\ invoked[t] = 0
    /\ t \notin Waiting(queue) /\ AtNoWorker(t)

\* In the list it is nobody else's.
InListAlone(t) ==
  t \in Waiting(queue) =>
    t \notin settled /\ cancelPc[t] = "none" /\ invoked[t] = 0 /\ AtNoWorker(t)

\* Once taken off by CancelTaskByID it never reaches a worker.
Cancelling(t) ==
  /\ cancelPc[t] # "none" => invoked[t] = 0 /\ AtNoWorker(t)
  /\ cancelPc[t] = "removed" => t \notin settled
  /\ cancelPc[t] \in {"saving", "returned"} => t \in settled

\* A pushed object that is not settled is somewhere, unless Stop dropped it.
Somewhere(t) ==
  pc[t] \in {"pushed", "returned"} /\ t \notin settled
  /\ ~(durable /\ stopPc \in {"joining", "returned"})
    => t \in Waiting(queue) \/ cancelPc[t] = "removed"
       \/ \E w \in Worker : worker[w].task = t /\ worker[w].pc \in Working

ObjectInv == \A t \in Task : /\ Unpushed(t) /\ InListAlone(t) /\ Cancelling(t) /\ Somewhere(t)
                             /\ invoked[t] <= 1
                             /\ t \in settled => status[t] \in Verdict

\* What the place of a worker in workerLoop says of its task.
WorkerInv ==
  /\ \A w \in Worker : worker[w].pc \in Holding <=> worker[w].task # NoTask
  /\ \A v, w \in Worker : worker[v].task = worker[w].task /\ worker[v].task # NoTask => v = w
  /\ \A w \in Worker :
       LET t == worker[w].task
       IN  /\ worker[w].pc \in {"taken", "marking"} => t \notin settled /\ invoked[t] = 0
           /\ worker[w].pc = "executing" => t \notin settled /\ invoked[t] = 1
           /\ worker[w].pc \in {"saving", "closing"} => t \in settled

StopInv == stopPc = "none" <=> ~stopping

\* The list is in dispatch order and holds no object twice.
QueueInv == NoTwice(queue) /\ InOrder(queue)

IInv == /\ TypeOK /\ RunningCounts
        /\ QueueInv
        /\ ObjectInv /\ WorkerInv /\ StopInv

-----------------------------------------------------------------------------
(* Waking a sleeper moves no task from hand to hand.                       *)

WorkerState == [pc : WorkerPc, task : Task \cup {NoTask}]

SameHands(old, new) ==
  \A w \in Worker : /\ new[w].task = old[w].task
                    /\ new[w].pc = old[w].pc \/ (new[w].pc \notin Holding /\ old[w].pc \notin Holding)

AsleepHoldNothing(wk) == \A w \in Worker : wk[w].pc = "asleep" => wk[w].task = NoTask

\* cond.Signal wakes at most one worker and changes nothing a task sees.
LEMMA SignalledHands ==
  ASSUME NEW wk \in [Worker -> WorkerState], AsleepHoldNothing(wk), NEW r \in Signalled(wk)
  PROVE  r \in [Worker -> WorkerState] /\ SameHands(wk, r)
<1>1. r = wk \/ \E w \in Worker : wk[w].pc = "asleep" /\ r = [wk EXCEPT ![w] = Free("looking")]
  BY DEF Signalled
<1>2. Free("looking") \in WorkerState /\ Free("looking").task = NoTask /\ Free("looking").pc = "looking"
  BY DEF Free, WorkerState, WorkerPc
<1>3. "asleep" \notin Holding /\ "looking" \notin Holding
  BY DEF Holding
<1>4. CASE r = wk
  BY <1>4 DEF SameHands
<1>5. ASSUME NEW w \in Worker, wk[w].pc = "asleep", r = [wk EXCEPT ![w] = Free("looking")]
      PROVE  r \in [Worker -> WorkerState] /\ SameHands(wk, r)
  BY <1>2, <1>3, <1>5 DEF SameHands, AsleepHoldNothing
<1> QED BY <1>1, <1>4, <1>5

\* cond.Broadcast wakes them all, to the same effect.
LEMMA BroadcastHands ==
  ASSUME NEW wk \in [Worker -> WorkerState], AsleepHoldNothing(wk)
  PROVE  Broadcast(wk) \in [Worker -> WorkerState] /\ SameHands(wk, Broadcast(wk))
<1>2. Free("looking") \in WorkerState /\ Free("looking").task = NoTask /\ Free("looking").pc = "looking"
  BY DEF Free, WorkerState, WorkerPc
<1>3. "asleep" \notin Holding /\ "looking" \notin Holding
  BY DEF Holding
<1> QED BY <1>2, <1>3 DEF SameHands, AsleepHoldNothing, Broadcast

\* Workers that hold the same tasks count the same.
Busy(wk) == {w \in Worker : wk[w].pc \in Holding}

\* Hence RunningCount() does not notice a wakeup.
LEMMA SameHandsSameBusy ==
  ASSUME NEW old, NEW new, SameHands(old, new)
  PROVE  Busy(new) = Busy(old)
BY DEF SameHands, Busy

\* Two ways to say that an object waits.
LEMMA InListIsWaiting == \A t : InList(t) <=> t \in Waiting(queue)
BY DEF InList, Waiting

\* A worker moving on with its task keeps its type and the others' state.
LEMMA WorkerMovesOn ==
  ASSUME NEW wk \in [Worker -> WorkerState], NEW w \in Worker, NEW p \in WorkerPc
  PROVE  /\ [wk EXCEPT ![w].pc = p] \in [Worker -> WorkerState]
         /\ [wk EXCEPT ![w].pc = p][w] = [pc |-> p, task |-> wk[w].task]
         /\ \A v \in Worker \ {w} : [wk EXCEPT ![w].pc = p][v] = wk[v]
<1>1. wk[w] \in WorkerState
  OBVIOUS
<1>2. [wk[w] EXCEPT !.pc = p] = [pc |-> p, task |-> wk[w].task]
  BY <1>1 DEF WorkerState
<1>3. [pc |-> p, task |-> wk[w].task] \in WorkerState
  BY <1>1 DEF WorkerState
<1> QED BY <1>2, <1>3

\* What the invariant says of the sleepers.
LEMMA WorkersTyped ==
  ASSUME IInv
  PROVE  worker \in [Worker -> WorkerState] /\ AsleepHoldNothing(worker)
BY DEF IInv, TypeOK, WorkerState, WorkerInv, AsleepHoldNothing, Holding

-----------------------------------------------------------------------------
(* What each step does to the workers, in one place.                       *)

\* cond.Signal by SubmitTask and CancelTaskByID, cond.Broadcast by Stop.
LEMMA WakingHands ==
  ASSUME IInv,
         \/ \E t \in Task : SignalPushed(t) \/ CancelDeliver(t)
         \/ StopDrain
  PROVE  worker' \in [Worker -> WorkerState] /\ SameHands(worker, worker')
<1>1. worker' \in Signalled(worker) \/ worker' = Broadcast(worker)
  BY DEF SignalPushed, CancelDeliver, StopDrain
<1> QED BY <1>1, WorkersTyped, SignalledHands, BroadcastHands

\* afterTaskLocked: the worker has let go of its task, then one is woken.
LEMMA AfterTaskHands ==
  ASSUME IInv, NEW w \in Worker, AfterTask(w)
  PROVE  LET freed == [worker EXCEPT ![w] = Free("looking")]
         IN  worker' \in [Worker -> WorkerState] /\ SameHands(freed, worker')
<1> DEFINE freed == [worker EXCEPT ![w] = Free("looking")]
<1>1. worker \in [Worker -> WorkerState] /\ AsleepHoldNothing(worker)
  BY WorkersTyped
<1>2. Free("looking") \in WorkerState /\ Free("looking").pc # "asleep"
  BY DEF Free, WorkerState, WorkerPc
<1>3. freed \in [Worker -> WorkerState] /\ AsleepHoldNothing(freed)
  BY <1>1, <1>2 DEF AsleepHoldNothing
<1>4. worker' \in Signalled(freed)
  BY DEF AfterTask
<1> HIDE DEF freed
<1>5. worker' \in [Worker -> WorkerState] /\ SameHands(freed, worker')
  BY <1>3, <1>4, SignalledHands
<1> QED BY <1>5 DEF freed

-----------------------------------------------------------------------------
(* Type correctness is inductive under the whole invariant.                *)

\* Every step keeps the types: verdicts and row statuses are written with
\* values of their own, and the busy counter is positive when it is given back.
LEMMA TypeInductive == IInv /\ [Next]_vars => TypeOK'
<1> SUFFICES ASSUME IInv, [Next]_vars PROVE TypeOK'
  OBVIOUS
<1>0. TypeOK /\ worker \in [Worker -> WorkerState]
  BY WorkersTyped DEF IInv
<1> USE SchedulerAssumption DEF TypeOK, objVars
<1>1. ASSUME NEW t \in Task, Submit(t) PROVE TypeOK'
  BY <1>0, <1>1 DEF Submit, SubmitRefused, SubmitAccepted, Deliver, Verdict
<1>2. ASSUME NEW t \in Task, PersistPending(t) PROVE TypeOK'
  <2>1. row' \in [Job -> RowStatus]
    BY <1>0, <1>2 DEF PersistPending, RowStatus
  <2>2. status' \in [Task -> {"absent", "pending", "running"} \cup Verdict] /\ settled' \subseteq Task
    BY <1>0, <1>2 DEF PersistPending, Deliver, Verdict
  <2>3. pc' \in [Task -> {"none", "saving", "pushing", "pushed", "returned"}]
    BY <1>0, <1>2 DEF PersistPending
  <2> QED BY <1>0, <1>2, <2>1, <2>2, <2>3 DEF PersistPending
<1>3. ASSUME NEW t \in Task, PushRefused(t) PROVE TypeOK'
  BY <1>0, <1>3 DEF PushRefused, Deliver, Verdict
<1>4. ASSUME NEW t \in Task, PushTask(t) PROVE TypeOK'
  <2>1. queue' \in Seq(Task)
    BY <1>0, <1>4, PushProperties DEF PushTask, Enqueue
  <2> QED BY <1>0, <1>4, <2>1 DEF PushTask, Enqueue
<1>5. ASSUME NEW t \in Task, SignalPushed(t) PROVE TypeOK'
  <2>1. worker' \in [Worker -> WorkerState]
    BY <1>5, WakingHands
  <2> QED BY <1>0, <1>5, <2>1 DEF SignalPushed, WorkerState
<1>6. ASSUME NEW t \in Task, CancelDeliver(t) PROVE TypeOK'
  <2>1. worker' \in [Worker -> WorkerState]
    BY <1>6, WakingHands
  <2>2. status' \in [Task -> {"absent", "pending", "running"} \cup Verdict] /\ settled' \subseteq Task
    BY <1>0, <1>6 DEF CancelDeliver, Deliver, Verdict
  <2>3. cancelPc' \in [Task -> {"none", "removed", "saving", "returned"}] /\ ended' \subseteq Task
    BY <1>0, <1>6 DEF CancelDeliver
  <2> QED BY <1>0, <1>6, <2>1, <2>2, <2>3 DEF CancelDeliver, WorkerState
<1>7. ASSUME NEW t \in Task, CancelSave(t) PROVE TypeOK'
  <2>1. t \in settled /\ status[t] \in Verdict
    BY <1>0, <1>7 DEF IInv, ObjectInv, Cancelling, CancelSave
  <2>2. row' \in [Job -> RowStatus]
    BY <1>0, <1>7, <2>1 DEF CancelSave, WriteRow, RowStatus
  <2> QED BY <1>0, <1>7, <2>2 DEF CancelSave
<1>8. ASSUME NEW t \in Task, ContextEnds(t) PROVE TypeOK'
  BY <1>0, <1>8 DEF ContextEnds
<1>9. ASSUME NEW j \in Job, CancelTaskByID(j) PROVE TypeOK'
  <2> DEFINE i == FirstPosition(queue, j)
  <2>1. i \in 1..Len(queue)
    BY <1>0, <1>9, FirstPositionProperties DEF CancelTaskByID
  <2>2. RemoveAt(queue, i) \in Seq(Task) /\ queue[i] \in Task
    BY <1>0, <2>1, RemoveProperties, ElementOfSeq
  <2> QED BY <1>0, <1>9, <2>2 DEF CancelTaskByID
<1>10. ASSUME NEW w \in Worker, AcquireTask(w) PROVE TypeOK'
  <2>1. Head(queue) \in Task /\ Tail(queue) \in Seq(Task)
    BY <1>0, <1>10, HeadTailProperties DEF AcquireTask
  <2> QED BY <1>0, <1>10, <2>1 DEF AcquireTask, WorkerPc, Holding
<1>11. ASSUME NEW w \in Worker, Sleep(w) \/ Exit(w) PROVE TypeOK'
  <2>1. Free("asleep") \in WorkerState /\ Free("exited") \in WorkerState
    BY DEF Free, WorkerState, WorkerPc
  <2>2. worker' \in [Worker -> WorkerState]
    BY <1>0, <1>11, <2>1 DEF Sleep, Exit
  <2> QED BY <1>0, <1>11, <2>2 DEF Sleep, Exit, WorkerState
<1>12. ASSUME NEW w \in Worker, worker[w].pc \in Holding, NEW p \in WorkerPc,
              worker' = [worker EXCEPT ![w].pc = p]
       PROVE  worker' \in [Worker -> [pc : WorkerPc, task : Task \cup {NoTask}]]
  BY <1>0, <1>12, WorkerMovesOn DEF WorkerState
<1>13. ASSUME NEW w \in Worker, worker[w].pc \in Holding PROVE worker[w].task \in Task
  BY <1>0, <1>13 DEF IInv, WorkerInv
<1>14. Holding \subseteq WorkerPc /\ AfterVerdict \in Holding
  BY DEF Holding, WorkerPc, AfterVerdict
<1>15. ASSUME NEW w \in Worker, SkipEnded(w) PROVE TypeOK'
  <2>1. worker' \in [Worker -> [pc : WorkerPc, task : Task \cup {NoTask}]]
    BY <1>12, <1>14, <1>15 DEF SkipEnded, Holding
  <2> QED BY <1>0, <1>13, <1>15, <2>1 DEF SkipEnded, Deliver, Verdict, Holding
<1>16. ASSUME NEW w \in Worker, MarkTask(w) PROVE TypeOK'
  <2>1. worker' \in [Worker -> [pc : WorkerPc, task : Task \cup {NoTask}]]
    BY <1>12, <1>16 DEF MarkTask, Holding, WorkerPc
  <2> QED BY <1>0, <1>16, <2>1 DEF MarkTask
<1>17. ASSUME NEW w \in Worker, CallHandler(w) PROVE TypeOK'
  <2>1. worker' \in [Worker -> [pc : WorkerPc, task : Task \cup {NoTask}]]
    BY <1>12, <1>17 DEF CallHandler, Holding, WorkerPc
  <2>2. row' = row \/ row' = [row EXCEPT ![IdOf[worker[w].task]] = "running"]
    BY <1>17 DEF CallHandler, WriteRow
  <2>3. row' \in [Job -> RowStatus]
    BY <1>0, <2>2 DEF RowStatus
  <2> QED BY <1>0, <1>13, <1>17, <2>1, <2>3 DEF CallHandler, Holding
<1>18. ASSUME NEW w \in Worker, HandlerReturns(w) PROVE TypeOK'
  <2>1. worker' \in [Worker -> [pc : WorkerPc, task : Task \cup {NoTask}]]
    BY <1>12, <1>14, <1>18 DEF HandlerReturns, Holding
  <2> QED BY <1>0, <1>13, <1>18, <2>1 DEF HandlerReturns, Deliver, Verdict, Holding
<1>19. ASSUME NEW w \in Worker, PersistFinished(w) PROVE TypeOK'
  <2>1. worker' \in [Worker -> [pc : WorkerPc, task : Task \cup {NoTask}]]
    BY <1>12, <1>19 DEF PersistFinished, Holding, WorkerPc
  <2>2. status[worker[w].task] \in Verdict
    BY <1>0, <1>13, <1>19 DEF PersistFinished, Holding, IInv, ObjectInv, WorkerInv
  <2>3. row' \in [Job -> RowStatus]
    BY <1>0, <1>19, <2>2 DEF PersistFinished, WriteRow, RowStatus
  <2> QED BY <1>0, <1>19, <2>1, <2>3 DEF PersistFinished
<1>20. ASSUME NEW w \in Worker, AfterTask(w) PROVE TypeOK'
  <2>1. worker' \in [Worker -> WorkerState]
    BY <1>20, AfterTaskHands
  <2>2. running \in Nat \ {0}
    <3>1. IsFiniteSet(Busy(worker)) /\ w \in Busy(worker)
      BY <1>20, FS_Subset DEF Busy, AfterTask, Holding
    <3>2. running = Cardinality(Busy(worker))
      BY DEF IInv, RunningCounts, Busy
    <3> QED BY <3>1, <3>2, FS_EmptySet, FS_CardinalityType
  <2> QED BY <1>0, <1>20, <2>1, <2>2 DEF AfterTask, WorkerState
<1>21. CASE StopBegin
  BY <1>0, <1>21 DEF StopBegin
<1>22. CASE StopDrain
  <2>1. worker' \in [Worker -> WorkerState]
    BY <1>22, WakingHands
  <2>2. queue' \in Seq(Task) /\ Waiting(queue) \subseteq Task
    BY <1>0, <1>22, EmptySeq, ElementOfSeq DEF StopDrain, Waiting
  <2> QED BY <1>0, <1>22, <2>1, <2>2 DEF StopDrain, WorkerState, Verdict
<1>23. CASE StopReturn
  BY <1>0, <1>23 DEF StopReturn
<1>24. CASE UNCHANGED vars
  BY <1>0, <1>24 DEF vars
<1> QED BY <1>1, <1>2, <1>3, <1>4, <1>5, <1>6, <1>7, <1>8, <1>9, <1>10, <1>11, <1>15, <1>16,
           <1>17, <1>18, <1>19, <1>20, <1>21, <1>22, <1>23, <1>24
        DEF Next, SubmitSteps, CancelSteps, WorkerSteps, StopSteps

-----------------------------------------------------------------------------
(* The counter, the list and the stop flag.                                *)

\* acquireTask adds the worker it serves, afterTaskLocked takes it out again,
\* and no other step of pkg/task changes who is busy.
LEMMA CountInductive == IInv /\ [Next]_vars => RunningCounts'
<1> SUFFICES ASSUME IInv, [Next]_vars PROVE RunningCounts'
  OBVIOUS
<1>0. running = Cardinality(Busy(worker)) /\ IsFiniteSet(Busy(worker))
  BY SchedulerAssumption, FS_Subset DEF IInv, RunningCounts, Busy
<1>1. worker \in [Worker -> WorkerState]
  BY WorkersTyped
<1>2. SUFFICES running' = Cardinality(Busy(worker'))
  BY DEF RunningCounts, Busy
<1>3. ASSUME NEW w \in Worker, AcquireTask(w) PROVE running' = Cardinality(Busy(worker'))
  <2>1. Busy(worker') = Busy(worker) \cup {w} /\ w \notin Busy(worker)
    BY <1>1, <1>3 DEF AcquireTask, Busy, Holding
  <2>2. running' = running + 1
    BY <1>3 DEF AcquireTask
  <2> QED BY <1>0, <2>1, <2>2, FS_AddElement
<1>4. ASSUME NEW w \in Worker, AfterTask(w) PROVE running' = Cardinality(Busy(worker'))
  <2> DEFINE freed == [worker EXCEPT ![w] = Free("looking")]
  <2>1. Busy(freed) = Busy(worker) \ {w} /\ w \in Busy(worker)
    BY <1>1, <1>4 DEF AfterTask, Busy, Holding, Free
  <2>2. Busy(worker') = Busy(freed)
    BY <1>4, AfterTaskHands, SameHandsSameBusy
  <2>3. running' = running - 1
    BY <1>4 DEF AfterTask
  <2> QED BY <1>0, <2>1, <2>2, <2>3, FS_RemoveElement
<1>5. CASE (\E t \in Task : SignalPushed(t) \/ CancelDeliver(t)) \/ StopDrain
  <2>1. Busy(worker') = Busy(worker)
    BY <1>5, WakingHands, SameHandsSameBusy
  <2>2. running' = running
    BY <1>5 DEF SignalPushed, CancelDeliver, StopDrain
  <2> QED BY <1>0, <2>1, <2>2
<1>6. ASSUME NEW w \in Worker, Sleep(w) \/ Exit(w) PROVE running' = Cardinality(Busy(worker'))
  <2>1. Busy(worker') = Busy(worker)
    BY <1>1, <1>6 DEF Sleep, Exit, Busy, Holding, Free
  <2> QED BY <1>0, <1>6, <2>1 DEF Sleep, Exit
<1>7. ASSUME NEW w \in Worker, NEW p \in Holding, worker[w].pc \in Holding,
             worker' = [worker EXCEPT ![w].pc = p]
      PROVE  Busy(worker') = Busy(worker)
  <2>1. p \in WorkerPc
    BY DEF WorkerPc
  <2>2. worker'[w].pc = p /\ \A v \in Worker \ {w} : worker'[v] = worker[v]
    BY <1>1, <1>7, <2>1, WorkerMovesOn
  <2> QED BY <1>7, <2>2 DEF Busy
<1>8. ASSUME NEW w \in Worker, SkipEnded(w) \/ HandlerReturns(w)
      PROVE  running' = Cardinality(Busy(worker'))
  <2>1. AfterVerdict \in Holding /\ worker[w].pc \in Holding
    BY <1>8 DEF AfterVerdict, Holding, SkipEnded, HandlerReturns
  <2> QED BY <1>0, <1>7, <1>8, <2>1 DEF SkipEnded, HandlerReturns
<1>9. ASSUME NEW w \in Worker, MarkTask(w) \/ CallHandler(w) \/ PersistFinished(w)
      PROVE  running' = Cardinality(Busy(worker'))
  <2>1. {"taken", "marking", "executing", "saving", "closing"} = Holding
    BY DEF Holding
  <2> QED BY <1>0, <1>7, <1>9, <2>1 DEF MarkTask, CallHandler, PersistFinished
<1>10. CASE UNCHANGED <<worker, running>>
  BY <1>0, <1>10
<1> QED BY <1>3, <1>4, <1>5, <1>6, <1>8, <1>9, <1>10
        DEF Next, Submit, SubmitSteps, CancelSteps, WorkerSteps, StopSteps, vars, objVars,
            SubmitRefused, SubmitAccepted, PersistPending, PushRefused, PushTask, Enqueue,
            ContextEnds, CancelSave, CancelTaskByID, StopBegin, StopReturn

\* Push, Pop, Remove and the drain are all that touch the list.
LEMMA QueueInductive == IInv /\ [Next]_vars => QueueInv'
<1> SUFFICES ASSUME IInv, [Next]_vars PROVE NoTwice(queue') /\ InOrder(queue')
  BY DEF QueueInv, NoTwice, InOrder
<1>0. queue \in Seq(Task) /\ NoTwice(queue) /\ InOrder(queue)
  BY DEF IInv, TypeOK, QueueInv
<1>1. ASSUME NEW t \in Task, PushTask(t) PROVE NoTwice(queue') /\ InOrder(queue')
  <2>1. t \notin Waiting(queue)
    BY <1>1 DEF IInv, ObjectInv, Unpushed, PushTask
  <2> QED BY <1>0, <1>1, <2>1, PushContents, PushKeepsOrder DEF PushTask, Enqueue
<1>2. ASSUME NEW j \in Job, CancelTaskByID(j) PROVE NoTwice(queue') /\ InOrder(queue')
  BY <1>0, <1>2, FirstPositionProperties, RemoveProperties DEF CancelTaskByID
<1>3. ASSUME NEW w \in Worker, AcquireTask(w) PROVE NoTwice(queue') /\ InOrder(queue')
  BY <1>0, <1>3, PopProperties DEF AcquireTask
<1>4. CASE StopDrain
  BY <1>4, EmptySeq DEF StopDrain, NoTwice, InOrder
<1>5. CASE queue' = queue
  BY <1>0, <1>5
<1> QED BY <1>1, <1>2, <1>3, <1>4, <1>5
        DEF Next, Submit, SubmitSteps, CancelSteps, WorkerSteps, StopSteps, vars,
            SubmitRefused, SubmitAccepted, PersistPending, PushRefused, SignalPushed,
            ContextEnds, CancelDeliver, CancelSave, Sleep, Exit, SkipEnded, MarkTask,
            CallHandler, HandlerReturns, PersistFinished, AfterTask, StopBegin, StopReturn

\* The stop flag is set by the one Stop call that drains and joins.
LEMMA StopInductive == IInv /\ [Next]_vars => StopInv'
<1> SUFFICES ASSUME IInv, [Next]_vars PROVE StopInv'
  OBVIOUS
<1>0. StopInv
  BY DEF IInv
<1>1. CASE StopBegin \/ StopDrain \/ StopReturn
  BY <1>0, <1>1 DEF StopInv, StopBegin, StopDrain, StopReturn
<1>2. CASE UNCHANGED <<stopping, stopPc>>
  BY <1>0, <1>2 DEF StopInv
<1> QED BY <1>1, <1>2
        DEF Next, Submit, SubmitSteps, CancelSteps, WorkerSteps, StopSteps, vars,
            SubmitRefused, SubmitAccepted, PersistPending, PushRefused, PushTask, Enqueue,
            SignalPushed, ContextEnds, CancelTaskByID, CancelDeliver, CancelSave, AcquireTask,
            Sleep, Exit, SkipEnded, MarkTask, CallHandler, HandlerReturns, PersistFinished,
            AfterTask

-----------------------------------------------------------------------------
(* Hand to hand.                                                           *)

\* No two workers hold one object, and where a worker is in workerLoop tells
\* whether its object has been called and settled.
LEMMA WorkerInductive == IInv /\ [Next]_vars => WorkerInv'
<1> SUFFICES ASSUME IInv, [Next]_vars PROVE WorkerInv'
  OBVIOUS
<1>0. TypeOK /\ WorkerInv /\ ObjectInv /\ QueueInv /\ worker \in [Worker -> WorkerState]
  BY WorkersTyped DEF IInv
<1>1. ASSUME SameHands(worker, worker'), invoked' = invoked,
             \A w \in Worker : worker[w].task # NoTask => (worker[w].task \in settled' <=> worker[w].task \in settled)
      PROVE  WorkerInv'
  BY <1>0, <1>1 DEF WorkerInv, SameHands, Holding
<1>2. ASSUME NEW t \in Task, SignalPushed(t) PROVE WorkerInv'
  BY <1>1, <1>2, WakingHands DEF SignalPushed, objVars
<1>3. ASSUME NEW t \in Task, CancelDeliver(t) PROVE WorkerInv'
  <2>1. settled' = settled \cup {t} /\ AtNoWorker(t)
    BY <1>0, <1>3 DEF CancelDeliver, Deliver, ObjectInv, Cancelling
  <2> QED BY <1>1, <1>3, <2>1, WakingHands DEF CancelDeliver, AtNoWorker
<1>4. CASE StopDrain
  <2>1. settled' \subseteq settled \cup Waiting(queue) /\ settled \subseteq settled'
    BY <1>4 DEF StopDrain
  <2>2. \A w \in Worker : worker[w].task # NoTask => worker[w].task \notin Waiting(queue)
    BY <1>0 DEF ObjectInv, InListAlone, AtNoWorker, TypeOK
  <2> QED BY <1>1, <1>4, <2>1, <2>2, WakingHands DEF StopDrain
<1>5. ASSUME NEW w \in Worker, AcquireTask(w) PROVE WorkerInv'
  <2> DEFINE t == Head(queue)
  <2>1. t \in Waiting(queue) /\ t \in Task
    BY <1>0, <1>5, PopProperties, HeadTailProperties DEF AcquireTask, TypeOK
  <2>2. t \notin settled /\ invoked[t] = 0 /\ AtNoWorker(t) /\ t # NoTask
    BY <1>0, <2>1, SchedulerAssumption DEF ObjectInv, InListAlone
  <2>3. worker' = [worker EXCEPT ![w] = [pc |-> "taken", task |-> t]] /\ UNCHANGED <<settled, invoked>>
    BY <1>5 DEF AcquireTask, objVars
  <2> HIDE DEF t
  <2> QED BY <1>0, <2>2, <2>3 DEF WorkerInv, AtNoWorker, Holding
<1>6. ASSUME NEW w \in Worker, AfterTask(w) PROVE WorkerInv'
  <2> DEFINE freed == [worker EXCEPT ![w] = Free("looking")]
  <2>1. SameHands(freed, worker') /\ UNCHANGED <<settled, invoked>>
    BY <1>6, AfterTaskHands DEF AfterTask, objVars
  <2>2. /\ freed[w].pc = "looking" /\ freed[w].task = NoTask
        /\ \A v \in Worker \ {w} : freed[v] = worker[v]
    BY <1>0 DEF Free
  <2> HIDE DEF freed
  <2> QED BY <1>0, <2>1, <2>2 DEF WorkerInv, SameHands, Holding
<1>7. ASSUME NEW w \in Worker, Sleep(w) \/ Exit(w) PROVE WorkerInv'
  BY <1>0, <1>7 DEF Sleep, Exit, WorkerInv, Holding, Free, objVars
<1>8. ASSUME NEW w \in Worker, MarkTask(w) \/ PersistFinished(w) PROVE WorkerInv'
  <2>1. CASE MarkTask(w)
    BY <1>0, <2>1 DEF MarkTask, WorkerInv, TypeOK, Holding
  <2>2. CASE PersistFinished(w)
    BY <1>0, <2>2 DEF PersistFinished, WorkerInv, TypeOK, Holding, objVars
  <2> QED BY <1>8, <2>1, <2>2
<1>9. ASSUME NEW w \in Worker, CallHandler(w) PROVE WorkerInv'
  BY <1>0, <1>9 DEF CallHandler, WorkerInv, TypeOK, Holding
<1>10. ASSUME NEW w \in Worker, SkipEnded(w) \/ HandlerReturns(w) PROVE WorkerInv'
  <2>1. CASE SkipEnded(w)
    BY <1>0, <2>1 DEF SkipEnded, Deliver, AfterVerdict, WorkerInv, TypeOK, Holding
  <2>2. CASE HandlerReturns(w)
    BY <1>0, <2>2 DEF HandlerReturns, Deliver, AfterVerdict, WorkerInv, TypeOK, Holding
  <2> QED BY <1>10, <2>1, <2>2
<1>11. ASSUME NEW t \in Task, UNCHANGED <<worker, invoked>>,
              settled' \subseteq settled \cup {t}, settled \subseteq settled',
              settled' = settled \/ AtNoWorker(t)
       PROVE  WorkerInv'
  BY <1>0, <1>11 DEF WorkerInv, AtNoWorker
<1>12. ASSUME NEW t \in Task, Submit(t) \/ PersistPending(t) \/ PushRefused(t) PROVE WorkerInv'
  <2>1. AtNoWorker(t)
    BY <1>0, <1>12 DEF ObjectInv, Unpushed, Submit, SubmitRefused, SubmitAccepted, PersistPending, PushRefused
  <2> QED BY <1>11, <1>12, <2>1
          DEF Submit, SubmitRefused, SubmitAccepted, PersistPending, PushRefused, Deliver
<1>13. CASE UNCHANGED <<worker, invoked, settled>>
  BY <1>0, <1>13 DEF WorkerInv
<1> QED BY <1>2, <1>3, <1>4, <1>5, <1>6, <1>7, <1>8, <1>9, <1>10, <1>12, <1>13
        DEF Next, SubmitSteps, CancelSteps, WorkerSteps, StopSteps, vars, objVars,
            PushTask, Enqueue, ContextEnds, CancelSave, CancelTaskByID, StopBegin, StopReturn

\* Submission, list, canceller and workers pass an object on; none keeps it.
LEMMA ObjectInductive == IInv /\ [Next]_vars => ObjectInv'
<1> SUFFICES ASSUME IInv, [Next]_vars PROVE ObjectInv'
  OBVIOUS
<1>0. TypeOK /\ WorkerInv /\ ObjectInv /\ QueueInv /\ StopInv /\ worker \in [Worker -> WorkerState]
  BY WorkersTyped DEF IInv
<1> USE SchedulerAssumption
<1> USE DEF ObjectInv, Unpushed, InListAlone, Cancelling, Somewhere, AtNoWorker
<1>1. ASSUME NEW t \in Task, Submit(t) \/ PersistPending(t) \/ PushRefused(t) PROVE ObjectInv'
  BY <1>0, <1>1 DEF Submit, SubmitRefused, SubmitAccepted, PersistPending, PushRefused, Deliver, Verdict, TypeOK
<1>2. ASSUME NEW t \in Task, PushTask(t) PROVE ObjectInv'
  <2>1. Waiting(queue') = Waiting(queue) \cup {t}
    BY <1>0, <1>2, PushContents DEF PushTask, Enqueue, TypeOK
  <2>2. pc[t] = "pushing" /\ \A u \in Task : pc'[u] = IF u = t THEN "pushed" ELSE pc[u]
    BY <1>0, <1>2 DEF PushTask, Enqueue, TypeOK
  <2>3. UNCHANGED <<status, settled, invoked, cancelPc, worker, stopPc, durable>>
    BY <1>2 DEF PushTask, Enqueue, objVars
  <2> QED BY <1>0, <2>1, <2>2, <2>3
<1>3. ASSUME NEW t \in Task, SignalPushed(t) PROVE ObjectInv'
  <2>1. SameHands(worker, worker')
    BY <1>3, WakingHands
  <2>2. pc[t] = "pushed" /\ \A u \in Task : pc'[u] = IF u = t THEN "returned" ELSE pc[u]
    BY <1>0, <1>3 DEF SignalPushed, TypeOK
  <2>3. UNCHANGED <<queue, status, settled, invoked, cancelPc, stopPc, durable>>
    BY <1>3 DEF SignalPushed, objVars
  <2> QED BY <1>0, <2>1, <2>2, <2>3 DEF SameHands, Working, Holding
<1>4. ASSUME NEW j \in Job, CancelTaskByID(j) PROVE ObjectInv'
  <2> DEFINE i == FirstPosition(queue, j)
             t == queue[i]
  <2>1. i \in 1..Len(queue)
    BY <1>0, <1>4, FirstPositionProperties DEF CancelTaskByID, TypeOK
  <2>2. t \in Task /\ t \in Waiting(queue) /\ Waiting(RemoveAt(queue, i)) = Waiting(queue) \ {t}
    BY <1>0, <2>1, RemoveProperties, ElementOfSeq DEF TypeOK, QueueInv
  <2>3. queue' = RemoveAt(queue, i) /\ \A u \in Task : cancelPc'[u] = IF u = t THEN "removed" ELSE cancelPc[u]
    BY <1>0, <1>4 DEF CancelTaskByID, TypeOK
  <2>4. UNCHANGED <<status, settled, invoked, pc, worker, stopPc, durable>>
    BY <1>4 DEF CancelTaskByID, objVars
  <2> HIDE DEF i, t
  <2> QED BY <1>0, <2>2, <2>3, <2>4
<1>5. ASSUME NEW t \in Task, CancelDeliver(t) PROVE ObjectInv'
  <2>1. SameHands(worker, worker')
    BY <1>5, WakingHands
  <2>2. /\ cancelPc[t] = "removed"
        /\ \A u \in Task : cancelPc'[u] = IF u = t THEN IF durable THEN "saving" ELSE "returned"
                                          ELSE cancelPc[u]
    BY <1>0, <1>5 DEF CancelDeliver, TypeOK
  <2>3. settled' = settled \cup {t} /\ \A u \in Task : status'[u] = IF u = t THEN "canceled" ELSE status[u]
    BY <1>0, <1>5, <2>2 DEF CancelDeliver, Deliver, TypeOK, Verdict
  <2>4. UNCHANGED <<queue, invoked, pc, stopPc, durable>>
    BY <1>5 DEF CancelDeliver
  <2>5. pc[t] \notin {"none", "saving", "pushing"} /\ t \notin Waiting(queue)
    BY <1>0, <2>2
  <2> QED BY <1>0, <2>1, <2>2, <2>3, <2>4, <2>5 DEF SameHands, Working, Holding, Verdict
<1>6. ASSUME NEW t \in Task, CancelSave(t) PROVE ObjectInv'
  BY <1>0, <1>6 DEF CancelSave, TypeOK, objVars
<1>7. ASSUME NEW w \in Worker, AcquireTask(w) PROVE ObjectInv'
  <2> DEFINE t == Head(queue)
  <2>1. t \in Task /\ t \in Waiting(queue) /\ Waiting(queue') = Waiting(queue) \ {t}
    BY <1>0, <1>7, PopProperties, HeadTailProperties DEF AcquireTask, TypeOK, QueueInv
  <2>2. worker[w].pc = "looking" /\ worker' = [worker EXCEPT ![w] = [pc |-> "taken", task |-> t]]
    BY <1>7 DEF AcquireTask
  <2>3. UNCHANGED <<status, settled, invoked, cancelPc, pc, stopPc, durable>>
    BY <1>7 DEF AcquireTask, objVars
  <2>4. pc[t] \notin {"none", "saving", "pushing"} /\ cancelPc[t] = "none"
    BY <1>0, <2>1
  <2> HIDE DEF t
  <2>5. \A v \in Worker : worker'[v] = IF v = w THEN [pc |-> "taken", task |-> t] ELSE worker[v]
    BY <1>0, <2>2
  <2> QED BY <1>0, <2>1, <2>2, <2>3, <2>4, <2>5 DEF Working, WorkerInv, Holding
<1>8. ASSUME NEW w \in Worker, Sleep(w) \/ Exit(w) PROVE ObjectInv'
  BY <1>0, <1>8 DEF Sleep, Exit, Free, Working, WorkerInv, Holding, objVars
<1>9. ASSUME NEW w \in Worker, SkipEnded(w) \/ HandlerReturns(w) PROVE ObjectInv'
  <2>1. CASE SkipEnded(w)
    BY <1>0, <2>1 DEF SkipEnded, Deliver, Verdict, AfterVerdict, Working, WorkerInv, Holding, TypeOK
  <2>2. CASE HandlerReturns(w)
    BY <1>0, <2>2 DEF HandlerReturns, Deliver, Verdict, AfterVerdict, Working, WorkerInv, Holding, TypeOK
  <2> QED BY <1>9, <2>1, <2>2
<1>10. ASSUME NEW w \in Worker, MarkTask(w) \/ PersistFinished(w) PROVE ObjectInv'
  <2>1. CASE MarkTask(w)
    BY <1>0, <2>1 DEF MarkTask, Working, WorkerInv, Holding, TypeOK
  <2>2. CASE PersistFinished(w)
    BY <1>0, <2>2 DEF PersistFinished, Working, WorkerInv, Holding, TypeOK, objVars
  <2> QED BY <1>10, <2>1, <2>2
<1>11. ASSUME NEW w \in Worker, CallHandler(w) PROVE ObjectInv'
  BY <1>0, <1>11 DEF CallHandler, Working, WorkerInv, Holding, TypeOK
<1>12. ASSUME NEW w \in Worker, AfterTask(w) PROVE ObjectInv'
  <2> DEFINE freed == [worker EXCEPT ![w] = Free("looking")]
  <2>1. SameHands(freed, worker') /\ UNCHANGED <<queue, status, settled, invoked, cancelPc, pc, stopPc, durable>>
    BY <1>12, AfterTaskHands DEF AfterTask, objVars
  <2>2. /\ freed[w].pc = "looking" /\ freed[w].task = NoTask
        /\ \A v \in Worker \ {w} : freed[v] = worker[v]
    BY <1>0 DEF Free
  <2>3. worker[w].pc = "closing" /\ worker[w].task \in settled
    BY <1>0, <1>12 DEF AfterTask, WorkerInv
  <2> HIDE DEF freed
  <2> QED BY <1>0, <2>1, <2>2, <2>3 DEF SameHands, Working, Holding
<1>13. CASE StopDrain
  <2>1. SameHands(worker, worker') /\ UNCHANGED <<invoked, pc, cancelPc, durable>> /\ stopPc' = "joining"
    BY <1>13, WakingHands DEF StopDrain
  <2>2. Waiting(queue') = {}
    BY <1>13, EmptySeq DEF StopDrain, Waiting
  <2>3. /\ settled' = IF durable THEN settled ELSE settled \cup Waiting(queue)
        /\ \A t \in Task : status'[t] = IF ~durable /\ t \in Waiting(queue) \ settled
                                        THEN "failed" ELSE status[t]
    BY <1>13 DEF StopDrain
  <2> QED BY <1>0, <1>13, <2>1, <2>2, <2>3 DEF SameHands, Working, Holding, Verdict, StopDrain
<1>14. CASE StopBegin \/ StopReturn
  <2>1. stopPc' \in {"joining", "returned"} => stopPc \in {"joining", "returned"}
    BY <1>14 DEF StopBegin, StopReturn
  <2>2. CASE stopPc \in {"joining", "returned"} /\ stopPc' \notin {"joining", "returned"}
    BY <1>0, <1>14, <2>2 DEF StopBegin, StopReturn, StopInv
  <2>3. CASE stopPc' \in {"joining", "returned"} <=> stopPc \in {"joining", "returned"}
    BY <1>0, <1>14, <2>3 DEF StopBegin, StopReturn, objVars
  <2> QED BY <2>1, <2>2, <2>3
<1>15. CASE UNCHANGED <<queue, status, settled, invoked, pc, cancelPc, worker, stopPc, durable>>
  BY <1>0, <1>15
<1> QED BY <1>1, <1>2, <1>3, <1>4, <1>5, <1>6, <1>7, <1>8, <1>9, <1>10, <1>11, <1>12, <1>13, <1>14, <1>15
        DEF Next, SubmitSteps, CancelSteps, WorkerSteps, StopSteps, vars, objVars, ContextEnds

-----------------------------------------------------------------------------
(* The theorems.                                                           *)

\* The invariant holds initially.
LEMMA InitInv == Init => IInv
<1> SUFFICES ASSUME Init PROVE IInv
  OBVIOUS
<1> USE SchedulerAssumption
<1>1. worker \in [Worker -> WorkerState] /\ \A w \in Worker : worker[w].pc = "looking" /\ worker[w].task = NoTask
  BY DEF Init, Free, WorkerState, WorkerPc
<1>2. TypeOK
  BY <1>1, EmptySeq DEF Init, TypeOK, WorkerState, RowStatus
<1>3. RunningCounts
  <2>1. {w \in Worker : worker[w].pc \in Holding} = {}
    BY <1>1 DEF Holding
  <2> QED BY <2>1, FS_EmptySet DEF Init, RunningCounts
<1>4. QueueInv /\ Waiting(queue) = {}
  BY EmptySeq DEF Init, QueueInv, NoTwice, InOrder, Waiting
<1>5. ObjectInv
  BY <1>1, <1>4 DEF Init, ObjectInv, Unpushed, InListAlone, Cancelling, Somewhere, AtNoWorker
<1>6. WorkerInv /\ StopInv
  BY <1>1 DEF Init, WorkerInv, StopInv, Holding
<1> QED BY <1>2, <1>3, <1>4, <1>5, <1>6 DEF IInv

\* Every step keeps the invariant.
LEMMA StepInv == IInv /\ [Next]_vars => IInv'
BY TypeInductive, CountInductive, QueueInductive, WorkerInductive, ObjectInductive, StopInductive
   DEF IInv

\* Every state pkg/task can reach satisfies the inductive invariant.
THEOREM Invariance == Spec => []IInv
BY InitInv, StepInv, PTL DEF Spec

\* Variables keep their types; the busy counter in particular never goes
\* negative, although workers give it back outside the scheduler's lock.
THEOREM TypeCorrect == Spec => []TypeOK
<1>1. IInv => TypeOK
  BY DEF IInv
<1> QED BY <1>1, Invariance, PTL

\* RunningCount() is the number of workers that hold a task.
THEOREM CounterIsExact == Spec => []RunningCounts
<1>1. IInv => RunningCounts
  BY DEF IInv
<1> QED BY <1>1, Invariance, PTL

\* The list Pop takes the head of is in dispatch order.
THEOREM DispatchOrder == Spec => []Sorted
<1>1. IInv => Sorted
  BY DEF IInv, QueueInv, InOrder, Sorted
<1> QED BY <1>1, Invariance, PTL

\* No handler runs twice for an object, and none after CancelTaskByID
\* reported the object removed.
THEOREM AtMostOneCall == Spec => []HandlerOnce
<1>1. IInv => HandlerOnce
  BY DEF IInv, ObjectInv, Cancelling, HandlerOnce
<1> QED BY <1>1, Invariance, PTL

\* Who holds what, as Custody says it, follows from where everything is.
LEMMA CustodyFromInv == IInv => Custody
<1> SUFFICES ASSUME IInv PROVE Custody
  OBVIOUS
<1>0. ObjectInv /\ WorkerInv /\ QueueInv /\ TypeOK
  BY DEF IInv
<1>1. \A t : InList(t) <=> t \in Waiting(queue)
  BY InListIsWaiting
<1>2. \A i, k \in 1..Len(queue) : queue[i] = queue[k] => i = k
  BY <1>0 DEF QueueInv, NoTwice
<1>3. \A v, w \in Worker, t \in Task : AtWorker(v, t) /\ AtWorker(w, t) => v = w
  BY <1>0, SchedulerAssumption DEF WorkerInv, AtWorker
<1>4. ASSUME NEW t \in Task
      PROVE  /\ Submitting(t) => ~InList(t) /\ ~AtCanceler(t) /\ \A w \in Worker : ~AtWorker(w, t)
             /\ InList(t) => ~AtCanceler(t) /\ \A w \in Worker : ~AtWorker(w, t)
             /\ AtCanceler(t) => \A w \in Worker : ~AtWorker(w, t)
  BY <1>0, <1>1 DEF ObjectInv, Unpushed, InListAlone, Cancelling, AtNoWorker, Submitting,
                    AtCanceler, AtWorker
<1>5. ASSUME NEW t \in Task
      PROVE  InList(t) \/ AtCanceler(t) \/ (\E w \in Worker : AtWorker(w, t)) => Live(t)
  BY <1>0, <1>1 DEF ObjectInv, WorkerInv, Unpushed, InListAlone, Cancelling, AtNoWorker,
                    AtCanceler, AtWorker, Working, Live
<1>6. ASSUME NEW t \in Task, Live(t), ~(durable /\ stopPc \in {"joining", "returned"})
      PROVE  Submitting(t) \/ InList(t) \/ AtCanceler(t) \/ \E w \in Worker : AtWorker(w, t)
  <2>1. pc[t] \in {"saving", "pushing", "pushed", "returned"} /\ t \notin settled
    BY <1>0, <1>6 DEF Live, TypeOK
  <2> QED BY <1>0, <1>1, <1>6, <2>1 DEF ObjectInv, Somewhere, Submitting, AtCanceler, AtWorker
<1> QED BY <1>2, <1>3, <1>4, <1>5, <1>6 DEF Custody

\* Push, Pop, Remove, the drain and the verdicts neither lose nor double a task.
THEOREM CustodyKept == Spec => []Custody
BY CustodyFromInv, Invariance, PTL

-----------------------------------------------------------------------------
(* The durable rows.                                                       *)

\* gonanoid's IDs are fresh: of the objects of one ID one is ever submitted.
OneObject ==
  \A t, u \in Task : IdOf[t] = IdOf[u] /\ pc[t] # "none" /\ pc[u] # "none" => t = u

\* SubmitTask saves the row before it pushes, and Stop refuses a push only then.
SavedBeforePush == durable => \A t \in Task : pc[t] = "pushing" => row[IdOf[t]] = "pending"

NoneDeleted == \A j \in Job : row[j] # "deleted"

RowInv == OneObject /\ SavedBeforePush /\ NoneDeleted /\ RowsAgree

\* Somebody is at persistFinished with this task, or at the canceller's save.
AboutToWrite(t) ==
  cancelPc[t] = "saving" \/ \E w \in Worker : worker[w] = [pc |-> "saving", task |-> t]

\* What RowsAgree asks of one task.
Agrees(t) ==
  durable /\ t \in settled /\ IdOf[t] \notin Unreliable /\ ~AboutToWrite(t)
    => row[IdOf[t]] \in {status[t], "none"} \/ (stopping /\ row[IdOf[t]] = "pending")

\* RowsAgree, task by task.
LEMMA RowsAgreeEach == RowsAgree <=> \A t \in Task : Agrees(t)
BY DEF RowsAgree, Agrees, AboutToWrite

\* A step that neither settles the task nor changes its row, its verdict or
\* who is about to write leaves the agreement as it was.
LEMMA StillAgrees ==
  ASSUME NEW t \in Task, Agrees(t), t \in settled' => t \in settled,
         t \in settled => status'[t] = status[t],
         row'[IdOf[t]] = row[IdOf[t]], stopping => stopping', durable' = durable,
         AboutToWrite(t) => AboutToWrite(t)'
  PROVE  Agrees(t)'
BY DEF Agrees

\* persistFinished and the canceller's save write the verdict.
LEMMA WrittenAgrees ==
  ASSUME IInv, RowInv, NEW t \in Task, t \in settled, WriteRow(IdOf[t], status[t]),
         UNCHANGED <<settled, status, stopping, durable>>
  PROVE  Agrees(t)'
<1>1. IdOf[t] \in Job /\ row \in [Job -> RowStatus] /\ row[IdOf[t]] # "deleted"
  BY QueueAssumption DEF IInv, TypeOK, RowInv, NoneDeleted
<1>2. IdOf[t] \notin Unreliable /\ durable => row'[IdOf[t]] \in {status[t], "none"}
  BY <1>1 DEF WriteRow
<1> QED BY <1>2 DEF Agrees

\* The row of another task is not touched by a write.
LEMMA OtherRows ==
  ASSUME IInv, RowInv, NEW t \in Task, NEW u \in Task, t # u, pc[t] # "none", pc[u] # "none",
         NEW s, WriteRow(IdOf[t], s)
  PROVE  row'[IdOf[u]] = row[IdOf[u]]
<1>1. IdOf[t] # IdOf[u] /\ IdOf[u] \in Job /\ row \in [Job -> RowStatus]
  BY QueueAssumption DEF RowInv, OneObject, IInv, TypeOK
<1> QED BY <1>1 DEF WriteRow

\* What is settled, cancelled or at a worker was submitted.
LEMMA Submitted ==
  ASSUME IInv, NEW t \in Task,
         t \in settled \/ cancelPc[t] # "none" \/ \E w \in Worker : worker[w].task = t
  PROVE  pc[t] # "none"
BY DEF IInv, ObjectInv, Unpushed, AtNoWorker

\* Steps that write no row and settle nobody whose write is not still to come.
LEMMA RowsUntouched ==
  ASSUME IInv, RowInv, row' = row, pc' = pc, durable' = durable, stopping => stopping',
         \A t \in Task : t \in settled' => t \in settled \/ AboutToWrite(t)' \/ ~durable,
         \A t \in settled : status'[t] = status[t],
         \A t \in Task : AboutToWrite(t) => AboutToWrite(t)'
  PROVE  RowInv'
<1>1. \A t \in Task : Agrees(t)
  BY RowsAgreeEach DEF RowInv
<1>2. ASSUME NEW t \in Task PROVE Agrees(t)'
  <2>1. CASE t \in settled' => t \in settled
    BY <1>1, <2>1, StillAgrees
  <2>2. CASE AboutToWrite(t)' \/ ~durable
    BY <2>2 DEF Agrees
  <2> QED BY <2>1, <2>2
<1>3. RowsAgree'
  BY <1>2 DEF RowsAgree, Agrees, AboutToWrite
<1>4. OneObject' /\ SavedBeforePush' /\ NoneDeleted'
  BY DEF RowInv, OneObject, SavedBeforePush, NoneDeleted
<1> QED BY <1>3, <1>4 DEF RowInv

\* A step by which one object moves on in submission, its row aside.
LEMMA SubmittingAgrees ==
  ASSUME IInv, RowInv, NEW t \in Task, Submit(t) \/ PersistPending(t) \/ PushRefused(t)
  PROVE  RowInv'
<1>0. TypeOK /\ ObjectInv /\ OneObject /\ SavedBeforePush /\ NoneDeleted /\ QueueAssumption
  BY QueueAssumption DEF IInv, RowInv
<1>1. t \notin settled /\ UNCHANGED <<cancelPc, worker, stopping, durable>>
  BY <1>0 DEF ObjectInv, Unpushed, Submit, SubmitRefused, SubmitAccepted, PersistPending, PushRefused
<1>2. settled' \subseteq settled \cup {t} /\ \A u \in Task \ {t} : status'[u] = status[u] /\ pc'[u] = pc[u]
  BY <1>0 DEF TypeOK, Submit, SubmitRefused, SubmitAccepted, PersistPending, PushRefused, Deliver
<1>3. \A u \in Task \ {t} : IdOf[u] = IdOf[t] => pc[u] = "none"
  BY <1>0 DEF OneObject, Submit, SubmitRefused, SubmitAccepted, PersistPending, PushRefused, Fresh
<1>4. \A j \in Job \ {IdOf[t]} : row'[j] = row[j]
  BY <1>0 DEF TypeOK, Submit, SubmitRefused, SubmitAccepted, PersistPending, PushRefused
<1>5. OneObject'
  BY <1>0, <1>2, <1>3 DEF OneObject
<1>6. ASSUME NEW u \in Task, u # t PROVE Agrees(u)'
  <2>1. CASE u \in settled
    <3>1. pc[u] # "none"
      BY <2>1, Submitted
    <3>2. row'[IdOf[u]] = row[IdOf[u]]
      BY <1>0, <1>3, <1>4, <1>6, <3>1
    <3> QED BY <1>1, <1>2, <1>6, <3>2, RowsAgreeEach, StillAgrees DEF RowInv, AboutToWrite
  <2>2. CASE u \notin settled
    BY <1>2, <1>6, <2>2 DEF Agrees
  <2> QED BY <2>1, <2>2
<1>7. Agrees(t)'
  <2>1. CASE SubmitRefused(t)
    BY <2>1 DEF SubmitRefused, Fresh, Agrees
  <2>2. CASE PushRefused(t)
    BY <1>0, <2>2 DEF PushRefused, SavedBeforePush, Agrees
  <2>3. CASE SubmitAccepted(t) \/ PersistPending(t)
    BY <1>1, <2>3 DEF SubmitAccepted, PersistPending, Agrees
  <2> QED BY <2>1, <2>2, <2>3 DEF Submit
<1>8. SavedBeforePush'
  <2>1. ASSUME durable, NEW u \in Task, pc'[u] = "pushing" PROVE row'[IdOf[u]] = "pending"
    <3>1. CASE u # t
      BY <1>0, <1>2, <1>3, <1>4, <2>1, <3>1 DEF SavedBeforePush
    <3>2. CASE u = t
      BY <1>0, <2>1, <3>2 DEF TypeOK, Submit, SubmitRefused, SubmitAccepted, PersistPending, PushRefused
    <3> QED BY <3>1, <3>2
  <2> QED BY <1>1, <2>1 DEF SavedBeforePush
<1>9. NoneDeleted'
  BY <1>0 DEF NoneDeleted, TypeOK, Submit, SubmitRefused, SubmitAccepted, PersistPending, PushRefused
<1>10. RowsAgree'
  BY <1>6, <1>7 DEF RowsAgree, Agrees, AboutToWrite
<1> QED BY <1>5, <1>8, <1>9, <1>10 DEF RowInv

\* A step that writes the row of a submitted task and leaves pc alone.
LEMMA WritingAgrees ==
  ASSUME IInv, RowInv, NEW t \in Task, pc[t] \notin {"none", "saving", "pushing"},
         NEW s, s # "deleted", WriteRow(IdOf[t], s),
         pc' = pc, stopping' = stopping, durable' = durable, settled' = settled, status' = status,
         \A u \in Task \ {t} : AboutToWrite(u) => AboutToWrite(u)',
         t \in settled => s = status[t]
  PROVE  RowInv'
<1>1. ASSUME NEW u \in Task PROVE Agrees(u)'
  <2>1. CASE u = t /\ t \in settled
    BY <2>1, WrittenAgrees
  <2>2. CASE u # t /\ u \in settled
    BY <2>2, Submitted, OtherRows, RowsAgreeEach, StillAgrees DEF RowInv
  <2>3. CASE u \notin settled
    BY <2>3 DEF Agrees
  <2> QED BY <2>1, <2>2, <2>3
<1>2. RowsAgree'
  BY <1>1 DEF RowsAgree, Agrees, AboutToWrite
<1>3. OneObject'
  BY DEF RowInv, OneObject
<1>4. SavedBeforePush'
  <2>1. ASSUME durable, NEW u \in Task, pc'[u] = "pushing" PROVE row'[IdOf[u]] = "pending"
    <3>1. u # t /\ pc[u] = "pushing" /\ row[IdOf[u]] = "pending"
      BY <2>1 DEF RowInv, SavedBeforePush
    <3>2. row'[IdOf[u]] = row[IdOf[u]]
      BY <3>1, OtherRows
    <3> QED BY <3>1, <3>2
  <2> QED BY <2>1 DEF SavedBeforePush
<1>5. NoneDeleted'
  <2>1. row' = row \/ row' = [row EXCEPT ![IdOf[t]] = s]
    BY DEF WriteRow
  <2>2. row \in [Job -> RowStatus]
    BY DEF IInv, TypeOK
  <2> QED BY <2>1, <2>2 DEF RowInv, NoneDeleted
<1> QED BY <1>2, <1>3, <1>4, <1>5 DEF RowInv

\* A scheduler does not change its kind while it lives.
LEMMA DurableStays == [Next]_vars => durable' = durable
BY DEF Next, vars, Submit, SubmitSteps, CancelSteps, WorkerSteps, StopSteps,
       SubmitRefused, SubmitAccepted, PersistPending, PushRefused, PushTask, Enqueue,
       SignalPushed, ContextEnds, CancelTaskByID, CancelDeliver, CancelSave, AcquireTask,
       Sleep, Exit, SkipEnded, MarkTask, CallHandler, HandlerReturns, PersistFinished,
       AfterTask, StopBegin, StopDrain, StopReturn

\* Every step of pkg/task keeps the rows and the verdicts together.
LEMMA RowInductive == IInv /\ RowInv /\ [Next]_vars => RowInv'
<1> SUFFICES ASSUME IInv, RowInv, [Next]_vars PROVE RowInv'
  OBVIOUS
<1>0. /\ TypeOK /\ WorkerInv /\ ObjectInv /\ worker \in [Worker -> WorkerState]
      /\ durable' = durable
  BY WorkersTyped, DurableStays DEF IInv
<1>1. ASSUME NEW t \in Task, Submit(t) \/ PersistPending(t) \/ PushRefused(t) PROVE RowInv'
  BY <1>1, SubmittingAgrees
<1>2. ASSUME NEW w \in Worker, NEW p \in WorkerPc, worker' = [worker EXCEPT ![w].pc = p],
             worker[w].pc # "saving", NEW t \in Task
      PROVE  (\E v \in Worker : worker[v] = [pc |-> "saving", task |-> t])
             => \E v \in Worker : worker'[v] = [pc |-> "saving", task |-> t]
  <2>1. \A v \in Worker \ {w} : worker'[v] = worker[v]
    BY <1>0, <1>2, WorkerMovesOn
  <2> QED BY <1>2, <2>1
<1>3. ASSUME SameHands(worker, worker'), worker' \in [Worker -> WorkerState], NEW t \in Task
      PROVE  (\E v \in Worker : worker[v] = [pc |-> "saving", task |-> t])
             => \E v \in Worker : worker'[v] = [pc |-> "saving", task |-> t]
  <2> SUFFICES ASSUME NEW v \in Worker, worker[v] = [pc |-> "saving", task |-> t]
               PROVE  worker'[v] = [pc |-> "saving", task |-> t]
    OBVIOUS
  <2>1. worker'[v].pc = "saving" /\ worker'[v].task = t
    BY <1>3 DEF SameHands, Holding
  <2>2. worker'[v] \in WorkerState
    BY <1>3
  <2> QED BY <2>1, <2>2 DEF WorkerState
<1>4. ASSUME NEW t \in Task, PushTask(t) \/ SignalPushed(t) PROVE RowInv'
  <2>1. pc[t] \in {"pushing", "pushed"} /\ pc'[t] # "pushing" /\ \A u \in Task \ {t} : pc'[u] = pc[u]
    BY <1>0, <1>4 DEF PushTask, Enqueue, SignalPushed, TypeOK
  <2>2. UNCHANGED <<status, settled, cancelPc, stopping, row>>
    BY <1>4 DEF PushTask, Enqueue, SignalPushed, objVars
  <2>3. ASSUME NEW u \in Task, AboutToWrite(u) PROVE AboutToWrite(u)'
    BY <1>3, <1>4, <2>2, <2>3, WakingHands DEF PushTask, Enqueue, AboutToWrite
  <2>4. \A u \in Task : Agrees(u)'
    BY <1>0, <2>2, <2>3, RowsAgreeEach, StillAgrees DEF RowInv
  <2>5. RowsAgree'
    BY <2>4 DEF RowsAgree, Agrees, AboutToWrite
  <2>6. OneObject' /\ SavedBeforePush' /\ NoneDeleted'
    BY <1>0, <2>1, <2>2 DEF RowInv, OneObject, SavedBeforePush, NoneDeleted
  <2> QED BY <2>5, <2>6 DEF RowInv
<1>5. ASSUME NEW t \in Task, CancelDeliver(t) PROVE RowInv'
  <2>1. /\ settled' = settled \cup {t} /\ cancelPc[t] = "removed"
        /\ cancelPc' = [cancelPc EXCEPT ![t] = IF durable THEN "saving" ELSE "returned"]
        /\ \A u \in settled : status'[u] = status[u]
        /\ UNCHANGED <<row, pc, stopping>>
    BY <1>0, <1>5 DEF CancelDeliver, Deliver, TypeOK
  <2>2. \A u \in Task : AboutToWrite(u) => AboutToWrite(u)'
    BY <1>0, <1>3, <1>5, <2>1, WakingHands DEF AboutToWrite, TypeOK
  <2>3. durable => AboutToWrite(t)'
    BY <1>0, <2>1 DEF AboutToWrite, TypeOK
  <2> QED BY <1>0, <2>1, <2>2, <2>3, RowsUntouched
<1>6. ASSUME NEW t \in Task, CancelSave(t) PROVE RowInv'
  <2>1. t \in settled /\ status[t] # "deleted" /\ pc[t] \notin {"none", "saving", "pushing"}
    BY <1>0, <1>6 DEF CancelSave, ObjectInv, Cancelling, Unpushed, Verdict
  <2>2. \A u \in Task \ {t} : AboutToWrite(u) => AboutToWrite(u)'
    BY <1>0, <1>6 DEF CancelSave, AboutToWrite, TypeOK
  <2> QED BY <1>0, <1>6, <2>1, <2>2, WritingAgrees DEF CancelSave, objVars
<1>7. ASSUME NEW j \in Job, CancelTaskByID(j) PROVE RowInv'
  <2> DEFINE i == FirstPosition(queue, j)
  <2>1. queue[i] \in Waiting(queue) /\ queue[i] \in Task
    BY <1>0, <1>7, FirstPositionProperties, ElementOfSeq DEF CancelTaskByID, TypeOK, Waiting
  <2>2. cancelPc[queue[i]] = "none"
    BY <1>0, <2>1 DEF ObjectInv, InListAlone
  <2>3. cancelPc' = [cancelPc EXCEPT ![queue[i]] = "removed"] /\ UNCHANGED <<status, settled, pc, worker, stopping, row>>
    BY <1>7 DEF CancelTaskByID, objVars
  <2>4. \A u \in Task : AboutToWrite(u) => AboutToWrite(u)'
    BY <1>0, <2>1, <2>2, <2>3 DEF AboutToWrite, TypeOK
  <2> QED BY <1>0, <2>3, <2>4, RowsUntouched
<1>8. ASSUME NEW w \in Worker, AcquireTask(w) \/ Sleep(w) \/ Exit(w) \/ AfterTask(w) PROVE RowInv'
  <2>1. UNCHANGED <<status, settled, pc, cancelPc, stopping, row>>
    BY <1>8 DEF AcquireTask, Sleep, Exit, AfterTask, objVars
  <2>2. ASSUME NEW u \in Task, NEW v \in Worker, worker[v] = [pc |-> "saving", task |-> u]
        PROVE  worker'[v] = [pc |-> "saving", task |-> u]
    <3>1. v # w
      BY <1>8, <2>2 DEF AcquireTask, Sleep, Exit, AfterTask
    <3>2. CASE AcquireTask(w) \/ Sleep(w) \/ Exit(w)
      BY <1>0, <2>2, <3>1, <3>2 DEF AcquireTask, Sleep, Exit
    <3>3. CASE AfterTask(w)
      <4> DEFINE freed == [worker EXCEPT ![w] = Free("looking")]
      <4>1. SameHands(freed, worker') /\ worker' \in [Worker -> WorkerState]
        BY <3>3, AfterTaskHands
      <4>2. freed[v] = [pc |-> "saving", task |-> u]
        BY <1>0, <2>2, <3>1
      <4> HIDE DEF freed
      <4>3. worker'[v].pc = "saving" /\ worker'[v].task = u
        BY <4>1, <4>2 DEF SameHands, Holding
      <4> QED BY <4>1, <4>3 DEF WorkerState
    <3> QED BY <1>8, <3>2, <3>3
  <2>3. \A u \in Task : AboutToWrite(u) => AboutToWrite(u)'
    BY <2>1, <2>2 DEF AboutToWrite
  <2> QED BY <1>0, <2>1, <2>3, RowsUntouched
<1>9. ASSUME NEW w \in Worker, SkipEnded(w) \/ HandlerReturns(w) PROVE RowInv'
  <2> DEFINE t == worker[w].task
  <2>1. /\ t \in Task /\ settled' = settled \cup {t} /\ \A u \in settled : status'[u] = status[u]
        /\ worker' = [worker EXCEPT ![w].pc = AfterVerdict] /\ worker[w].pc # "saving"
        /\ UNCHANGED <<row, pc, cancelPc, stopping>>
    BY <1>0, <1>9 DEF SkipEnded, HandlerReturns, Deliver, TypeOK, WorkerInv, Holding, WorkerState
  <2>2. AfterVerdict \in WorkerPc
    BY DEF AfterVerdict, WorkerPc, Holding
  <2>3. worker'[w] = [pc |-> AfterVerdict, task |-> t]
    BY <1>0, <2>1, <2>2, WorkerMovesOn
  <2>4. durable => AboutToWrite(t)'
    BY <2>3 DEF AboutToWrite, AfterVerdict
  <2>5. \A u \in Task : AboutToWrite(u) => AboutToWrite(u)'
    BY <1>2, <2>1, <2>2 DEF AboutToWrite
  <2> QED BY <1>0, <2>1, <2>4, <2>5, RowsUntouched
<1>10. ASSUME NEW w \in Worker, MarkTask(w) PROVE RowInv'
  <2>1. /\ worker' = [worker EXCEPT ![w].pc = "marking"] /\ worker[w].pc # "saving" /\ "marking" \in WorkerPc
        /\ \A u \in settled : status'[u] = status[u]
        /\ UNCHANGED <<row, pc, cancelPc, stopping, settled>>
    BY <1>0, <1>10 DEF MarkTask, WorkerInv, TypeOK, WorkerPc, Holding
  <2>2. \A u \in Task : AboutToWrite(u) => AboutToWrite(u)'
    BY <1>2, <2>1 DEF AboutToWrite
  <2> QED BY <1>0, <2>1, <2>2, RowsUntouched
<1>11. ASSUME NEW w \in Worker, CallHandler(w) PROVE RowInv'
  <2> DEFINE t == worker[w].task
  <2>1. /\ t \in Task /\ t \notin settled /\ pc[t] \notin {"none", "saving", "pushing"}
        /\ WriteRow(IdOf[t], "running")
        /\ worker' = [worker EXCEPT ![w].pc = "executing"] /\ worker[w].pc # "saving" /\ "executing" \in WorkerPc
        /\ UNCHANGED <<pc, cancelPc, stopping, settled, status>>
    BY <1>0, <1>11 DEF CallHandler, WorkerInv, WorkerPc, Holding, WorkerState, ObjectInv, Unpushed, AtNoWorker
  <2>2. \A u \in Task : AboutToWrite(u) => AboutToWrite(u)'
    BY <1>2, <2>1 DEF AboutToWrite
  <2> QED BY <1>0, <2>1, <2>2, WritingAgrees
<1>12. ASSUME NEW w \in Worker, PersistFinished(w) PROVE RowInv'
  <2> DEFINE t == worker[w].task
  <2>1. /\ t \in Task /\ t \in settled /\ pc[t] \notin {"none", "saving", "pushing"} /\ status[t] # "deleted"
        /\ WriteRow(IdOf[t], status[t])
        /\ worker' = [worker EXCEPT ![w].pc = "closing"] /\ "closing" \in WorkerPc
        /\ UNCHANGED <<pc, cancelPc, stopping, settled, status>>
    BY <1>0, <1>12 DEF PersistFinished, objVars, WorkerInv, WorkerPc, Holding, WorkerState, ObjectInv,
                       Unpushed, AtNoWorker, Verdict
  <2>2. \A v \in Worker \ {w} : worker'[v] = worker[v]
    BY <1>0, <2>1, WorkerMovesOn
  <2>3. \A u \in Task \ {t} : AboutToWrite(u) => AboutToWrite(u)'
    BY <2>1, <2>2 DEF AboutToWrite
  <2> QED BY <1>0, <2>1, <2>3, WritingAgrees
<1>13. CASE StopDrain
  <2>1. durable => settled' = settled
    BY <1>13 DEF StopDrain
  <2>2. UNCHANGED <<row, pc, cancelPc, stopping>> /\ \A u \in settled : status'[u] = status[u]
    BY <1>0, <1>13 DEF StopDrain, TypeOK
  <2>3. \A u \in Task : AboutToWrite(u) => AboutToWrite(u)'
    BY <1>3, <1>13, <2>2, WakingHands DEF AboutToWrite
  <2> QED BY <1>0, <2>1, <2>2, <2>3, RowsUntouched
<1>14. CASE StopBegin \/ StopReturn \/ (\E t \in Task : ContextEnds(t)) \/ UNCHANGED vars
  <2>1. UNCHANGED <<row, pc, cancelPc, settled, status, worker>> /\ (stopping => stopping')
    BY <1>14 DEF StopBegin, StopReturn, ContextEnds, vars, objVars
  <2>2. \A u \in Task : AboutToWrite(u) => AboutToWrite(u)'
    BY <2>1 DEF AboutToWrite
  <2> QED BY <1>0, <2>1, <2>2, RowsUntouched
<1> QED BY <1>1, <1>4, <1>5, <1>6, <1>7, <1>8, <1>9, <1>10, <1>11, <1>12, <1>13, <1>14
        DEF Next, SubmitSteps, CancelSteps, WorkerSteps, StopSteps

\* The durable row of a settled task says its verdict once those who write it
\* have written; only a push that Stop refused leaves it pending.
THEOREM RowsFollowVerdicts == Spec => []RowsAgree
<1>1. Init => RowInv
  BY QueueAssumption DEF Init, RowInv, OneObject, SavedBeforePush, NoneDeleted, RowsAgree
<1>2. IInv /\ RowInv /\ [Next]_vars => RowInv'
  BY RowInductive
<1>3. RowInv => RowsAgree
  BY DEF RowInv
<1> QED BY <1>1, <1>2, <1>3, Invariance, PTL DEF Spec

-----------------------------------------------------------------------------
(* The refinement of TaskPool.                                             *)


\* A step that gives t the verdict v, as the pool sees it.
LEMMA SettleStep ==
  ASSUME IInv, NEW t \in Task, NEW v, t \notin settled,
         settled' = settled \cup {t}, status' = [status EXCEPT ![t] = v],
         \A u \in Task \ {t} : pc'[u] = pc[u] /\ invoked'[u] = invoked[u]
  PROVE  Phase' = [Phase EXCEPT ![t] = "settled"] /\ Answer' = [Answer EXCEPT ![t] = v]
<1>1. status'[t] = v /\ \A u \in Task \ {t} : status'[u] = status[u]
  BY DEF IInv, TypeOK
<1>2. \A u \in Task : Phase'[u] = IF u = t THEN "settled" ELSE Phase[u]
  BY DEF Phase
<1>3. \A u \in Task : Answer'[u] = IF u = t THEN v ELSE Answer[u]
  BY <1>1 DEF Answer
<1>4. Phase' = [Phase EXCEPT ![t] = "settled"]
  BY <1>2 DEF Phase
<1>5. Answer' = [Answer EXCEPT ![t] = v]
  BY <1>3 DEF Answer
<1> QED BY <1>4, <1>5

\* Changes of hands the pool does not see.
LEMMA UnseenStep ==
  ASSUME UNCHANGED <<settled, invoked>>,
         \A t \in Task : (pc'[t] = "none") <=> (pc[t] = "none"),
         \A t \in settled : status'[t] = status[t]
  PROVE  Phase' = Phase /\ Answer' = Answer
BY DEF Phase, Answer

\* The pool sees a worker only while it runs a handler.
LEMMA SlotsUnseen ==
  ASSUME \A w \in Worker : /\ (worker'[w].pc = "executing") <=> (worker[w].pc = "executing")
                           /\ worker'[w].pc = "executing" => worker'[w].task = worker[w].task
  PROVE  Slot' = Slot
BY DEF Slot

\* Waking sleepers starts and ends no handler.
LEMMA SameHandsSameSlot ==
  ASSUME NEW old, NEW new, SameHands(old, new)
  PROVE  \A w \in Worker : /\ (new[w].pc = "executing") <=> (old[w].pc = "executing")
                           /\ new[w].task = old[w].task
BY DEF SameHands, Holding

\* Every step of pkg/task is one of the pool or none the pool sees.
LEMMA PoolStep == IInv /\ [Next]_vars => [Pool!Next]_(Pool!vars)
<1> SUFFICES ASSUME IInv, [Next]_vars PROVE Pool!Next \/ UNCHANGED <<Phase, Slot, Answer>>
  BY DEF Pool!vars
<1>0. TypeOK /\ WorkerInv /\ ObjectInv /\ QueueInv /\ worker \in [Worker -> WorkerState]
  BY WorkersTyped DEF IInv
<1>1. ASSUME NEW t \in Task, Phase[t] \in {"absent", "waiting"},
             NEW v \in {"failed", "canceled"}, Phase' = [Phase EXCEPT ![t] = "settled"],
             Answer' = [Answer EXCEPT ![t] = v], Slot' = Slot
      PROVE  Pool!Next
  BY <1>1 DEF Pool!Next, Pool!Withdraw, Pool!Settle
<1>2. ASSUME NEW t \in Task, SubmitRefused(t) \/ PushRefused(t)
                             \/ (PersistPending(t) /\ Deliver(t, "failed") /\ pc' = [pc EXCEPT ![t] = "returned"])
      PROVE  Pool!Next
  <2>1. t \notin settled /\ invoked[t] = 0 /\ UNCHANGED <<worker, invoked>> /\ pc' = [pc EXCEPT ![t] = "returned"]
        /\ Deliver(t, "failed")
    BY <1>0, <1>2 DEF ObjectInv, Unpushed, SubmitRefused, PushRefused, PersistPending
  <2>2. Phase' = [Phase EXCEPT ![t] = "settled"] /\ Answer' = [Answer EXCEPT ![t] = "failed"]
    BY <1>0, <2>1, SettleStep DEF Deliver, TypeOK
  <2>3. Slot' = Slot /\ Phase[t] \in {"absent", "waiting"}
    BY <2>1 DEF Slot, Phase
  <2> QED BY <1>1, <2>2, <2>3
<1>3. ASSUME NEW t \in Task, SubmitAccepted(t) PROVE Pool!Next
  <2>1. /\ t \notin settled /\ invoked[t] = 0 /\ pc[t] = "none"
        /\ UNCHANGED <<worker, invoked, settled>>
        /\ pc'[t] # "none" /\ \A u \in Task \ {t} : pc'[u] = pc[u] /\ status'[u] = status[u]
    BY <1>0, <1>3 DEF SubmitAccepted, ObjectInv, Unpushed, TypeOK
  <2>2. \A u \in Task : Phase'[u] = IF u = t THEN "waiting" ELSE Phase[u]
    BY <2>1 DEF Phase
  <2>3. Phase' = [Phase EXCEPT ![t] = "waiting"] /\ Phase[t] = "absent"
    BY <2>1, <2>2 DEF Phase
  <2>4. Answer' = Answer /\ Slot' = Slot
    BY <2>1 DEF Answer, Slot
  <2> QED BY <2>3, <2>4 DEF Pool!Next, Pool!Admit
<1>4. ASSUME NEW t \in Task, PushTask(t) PROVE UNCHANGED <<Phase, Slot, Answer>>
  <2>1. UNCHANGED <<worker, invoked, settled, status>> /\ pc[t] = "pushing" /\ pc' = [pc EXCEPT ![t] = "pushed"]
    BY <1>4 DEF PushTask, Enqueue, objVars
  <2> QED BY <1>0, <2>1, UnseenStep, SlotsUnseen DEF TypeOK
<1>5. ASSUME NEW t \in Task, SignalPushed(t) PROVE UNCHANGED <<Phase, Slot, Answer>>
  <2>1. UNCHANGED <<invoked, settled, status>> /\ pc[t] = "pushed" /\ pc' = [pc EXCEPT ![t] = "returned"]
    BY <1>5 DEF SignalPushed, objVars
  <2>2. Slot' = Slot
    BY <1>5, WakingHands, SameHandsSameSlot, SlotsUnseen
  <2> QED BY <1>0, <2>1, <2>2, UnseenStep DEF TypeOK
<1>6. ASSUME NEW t \in Task, CancelDeliver(t) PROVE Pool!Next
  <2>1. t \notin settled /\ invoked[t] = 0 /\ UNCHANGED <<pc, invoked>> /\ Deliver(t, "canceled")
    BY <1>0, <1>6 DEF ObjectInv, Cancelling, CancelDeliver
  <2>2. Phase' = [Phase EXCEPT ![t] = "settled"] /\ Answer' = [Answer EXCEPT ![t] = "canceled"]
    BY <2>1, SettleStep DEF Deliver
  <2>3. Slot' = Slot
    BY <1>6, WakingHands, SameHandsSameSlot, SlotsUnseen
  <2>4. Phase[t] \in {"absent", "waiting"}
    BY <2>1 DEF Phase
  <2> QED BY <1>1, <2>2, <2>3, <2>4
<1>7. ASSUME NEW w \in Worker, SkipEnded(w) PROVE Pool!Next
  <2> DEFINE t == worker[w].task
  <2>1. t \in Task /\ t \notin settled /\ invoked[t] = 0 /\ UNCHANGED <<pc, invoked>>
    BY <1>0, <1>7 DEF WorkerInv, Holding, SkipEnded, WorkerState
  <2>2. PICK v \in {"failed", "canceled"} : Deliver(t, v)
    BY <1>7 DEF SkipEnded
  <2>3. Phase' = [Phase EXCEPT ![t] = "settled"] /\ Answer' = [Answer EXCEPT ![t] = v]
    BY <2>1, <2>2, SettleStep DEF Deliver
  <2>4. Slot' = Slot
    BY <1>0, <1>7, SlotsUnseen DEF SkipEnded, AfterVerdict, WorkerState
  <2>5. Phase[t] \in {"absent", "waiting"}
    BY <2>1 DEF Phase
  <2> QED BY <1>1, <2>1, <2>3, <2>4, <2>5
<1>8. ASSUME NEW w \in Worker, CallHandler(w) PROVE Pool!Next
  <2> DEFINE t == worker[w].task
  <2>1. t \in Task /\ t \notin settled /\ invoked[t] = 0 /\ pc[t] # "none" /\ worker[w].pc = "marking"
    BY <1>0, <1>8 DEF WorkerInv, ObjectInv, Unpushed, AtNoWorker, Holding, CallHandler, WorkerState
  <2>2. UNCHANGED <<pc, settled, status>> /\ invoked' = [invoked EXCEPT ![t] = @ + 1]
        /\ worker' = [worker EXCEPT ![w].pc = "executing"]
    BY <1>8 DEF CallHandler
  <2>3. Phase[t] = "waiting" /\ Phase' = [Phase EXCEPT ![t] = "executing"]
    <3>1. invoked'[t] = 1 /\ \A u \in Task \ {t} : invoked'[u] = invoked[u]
      BY <1>0, <2>1, <2>2 DEF TypeOK
    <3>2. \A u \in Task : Phase'[u] = IF u = t THEN "executing" ELSE Phase[u]
      BY <2>1, <2>2, <3>1 DEF Phase
    <3> QED BY <2>1, <3>2 DEF Phase
  <2>4. Slot[w] = NoTask /\ Slot' = [Slot EXCEPT ![w] = t]
    <3>1. worker'[w].pc = "executing" /\ worker'[w].task = t /\ \A v \in Worker \ {w} : worker'[v] = worker[v]
      BY <1>0, <2>2, WorkerMovesOn DEF WorkerPc, Holding
    <3>2. \A v \in Worker : Slot'[v] = IF v = w THEN t ELSE Slot[v]
      BY <3>1 DEF Slot
    <3> QED BY <2>1, <3>2 DEF Slot
  <2>5. Answer' = Answer
    BY <2>2 DEF Answer
  <2> QED BY <2>1, <2>3, <2>4, <2>5 DEF Pool!Next, Pool!Dispatch
<1>9. ASSUME NEW w \in Worker, HandlerReturns(w) PROVE Pool!Next
  <2> DEFINE t == worker[w].task
  <2>1. t \in Task /\ t \notin settled /\ invoked[t] = 1 /\ pc[t] # "none" /\ worker[w].pc = "executing"
    BY <1>0, <1>9 DEF WorkerInv, ObjectInv, Unpushed, AtNoWorker, Holding, HandlerReturns, WorkerState
  <2>2. PICK v \in Outcome : Deliver(t, v)
    BY <1>9 DEF HandlerReturns
  <2>3. UNCHANGED <<pc, invoked>> /\ worker' = [worker EXCEPT ![w].pc = AfterVerdict]
    BY <1>9 DEF HandlerReturns
  <2>4. Phase' = [Phase EXCEPT ![t] = "settled"] /\ Answer' = [Answer EXCEPT ![t] = v]
    BY <2>1, <2>2, <2>3, SettleStep DEF Deliver
  <2>7. Phase[t] = "executing"
    BY <2>1 DEF Phase
  <2>5. Slot[w] = t /\ Slot' = [Slot EXCEPT ![w] = NoTask]
    <3>1. worker'[w].pc # "executing" /\ \A u \in Worker \ {w} : worker'[u] = worker[u]
      BY <1>0, <2>3, WorkerMovesOn DEF AfterVerdict, WorkerPc, Holding
    <3>2. \A u \in Worker : Slot'[u] = IF u = w THEN NoTask ELSE Slot[u]
      BY <3>1 DEF Slot
    <3> QED BY <2>1, <3>2 DEF Slot
  <2>6. v \in Pool!Verdict
    BY SchedulerAssumption DEF Pool!Verdict
  <2> QED BY <2>1, <2>4, <2>5, <2>6, <2>7 DEF Pool!Next, Pool!Finish, Pool!Settle
<1>10. CASE StopDrain
  <2>1. Slot' = Slot
    BY <1>10, WakingHands, SameHandsSameSlot, SlotsUnseen
  <2>2. CASE durable
    BY <1>10, <2>1, <2>2, UnseenStep DEF StopDrain
  <2>3. CASE ~durable
    <3> DEFINE S == Waiting(queue)
    <3>1. S \subseteq Task /\ \A t \in S : t \notin settled /\ pc[t] # "none" /\ invoked[t] = 0
      <4>1. S \subseteq Task
        BY <1>0, ElementOfSeq DEF Waiting, TypeOK
      <4> QED BY <1>0, <4>1 DEF ObjectInv, InListAlone, Unpushed
    <3>2. settled' = settled \cup S /\ UNCHANGED <<pc, invoked>>
          /\ \A t \in Task : status'[t] = IF t \in S THEN "failed" ELSE status[t]
      BY <1>10, <2>3, <3>1 DEF StopDrain
    <3> HIDE DEF S
    <3>3. \A t \in S : Phase[t] = "waiting"
      BY <3>1 DEF Phase
    <3>4. Phase' = [t \in Task |-> IF t \in S THEN "settled" ELSE Phase[t]]
      BY <3>1, <3>2 DEF Phase
    <3>5. Answer' = [t \in Task |-> IF t \in S THEN "failed" ELSE Answer[t]]
      BY <3>1, <3>2 DEF Answer
    <3> QED BY <2>1, <3>1, <3>3, <3>4, <3>5 DEF Pool!Next, Pool!WithdrawAll
  <2> QED BY <2>2, <2>3
<1>11. ASSUME NEW t \in Task, PersistPending(t)
       PROVE  Pool!Next \/ UNCHANGED <<Phase, Slot, Answer>>
  <2>1. CASE Deliver(t, "failed") /\ pc' = [pc EXCEPT ![t] = "returned"]
    BY <1>2, <1>11, <2>1
  <2>2. CASE UNCHANGED <<status, settled>> /\ pc' = [pc EXCEPT ![t] = "pushing"]
    <3>1. UNCHANGED <<worker, invoked>> /\ pc[t] = "saving"
      BY <1>11 DEF PersistPending
    <3> QED BY <1>0, <2>2, <3>1, UnseenStep, SlotsUnseen DEF TypeOK
  <2> QED BY <1>11, <2>1, <2>2 DEF PersistPending
<1>12. ASSUME NEW w \in Worker, AcquireTask(w) \/ Sleep(w) \/ Exit(w)
       PROVE  UNCHANGED <<Phase, Slot, Answer>>
  <2>1. UNCHANGED <<pc, status, settled, invoked>>
    BY <1>12 DEF AcquireTask, Sleep, Exit, objVars
  <2>2. Slot' = Slot
    BY <1>0, <1>12, SlotsUnseen DEF AcquireTask, Sleep, Exit, Free
  <2> QED BY <2>1, <2>2, UnseenStep
<1>13. ASSUME NEW w \in Worker, MarkTask(w) \/ PersistFinished(w)
       PROVE  UNCHANGED <<Phase, Slot, Answer>>
  <2>1. UNCHANGED <<pc, settled, invoked>>
    BY <1>13 DEF MarkTask, PersistFinished, objVars
  <2>2. \A t \in settled : status'[t] = status[t]
    BY <1>0, <1>13 DEF MarkTask, PersistFinished, objVars, WorkerInv, TypeOK
  <2>3. Slot' = Slot
    <3>1. PICK p \in {"marking", "closing"} : worker' = [worker EXCEPT ![w].pc = p]
      BY <1>13 DEF MarkTask, PersistFinished
    <3>2. worker'[w].pc = p /\ \A v \in Worker \ {w} : worker'[v] = worker[v]
      BY <1>0, <3>1, WorkerMovesOn DEF WorkerPc, Holding
    <3>3. worker[w].pc # "executing"
      BY <1>13 DEF MarkTask, PersistFinished
    <3> QED BY <3>2, <3>3, SlotsUnseen
  <2> QED BY <2>1, <2>2, <2>3, UnseenStep
<1>14. ASSUME NEW w \in Worker, AfterTask(w) PROVE UNCHANGED <<Phase, Slot, Answer>>
  <2> DEFINE freed == [worker EXCEPT ![w] = Free("looking")]
  <2>1. UNCHANGED <<pc, status, settled, invoked>> /\ worker[w].pc = "closing"
    BY <1>14 DEF AfterTask, objVars
  <2>2. freed[w].pc = "looking" /\ \A v \in Worker \ {w} : freed[v] = worker[v]
    BY <1>0 DEF Free
  <2>3. SameHands(freed, worker')
    BY <1>14, AfterTaskHands
  <2> HIDE DEF freed
  <2>4. Slot' = Slot
    BY <2>1, <2>2, <2>3, SameHandsSameSlot, SlotsUnseen
  <2> QED BY <2>1, <2>4, UnseenStep
<1>15. CASE UNCHANGED <<pc, settled, status, invoked, worker>>
  BY <1>15, UnseenStep, SlotsUnseen
<1> QED BY <1>2, <1>3, <1>4, <1>5, <1>6, <1>7, <1>8, <1>9, <1>10, <1>11, <1>12, <1>13, <1>14, <1>15
        DEF Next, Submit, SubmitSteps, CancelSteps, WorkerSteps, StopSteps, vars, objVars,
            ContextEnds, CancelSave, CancelTaskByID, StopBegin, StopReturn

\* pkg/task keeps the pool's promise for any number of tasks and workers.
THEOREM Refinement == Spec => ImplementsPool
<1>1. Init => Pool!Init
  BY DEF Init, Pool!Init, Phase, Slot, Answer, Free
<1>2. IInv /\ [Next]_vars => [Pool!Next]_(Pool!vars)
  BY PoolStep
<1> QED BY <1>1, <1>2, Invariance, PTL DEF Spec, ImplementsPool, Pool!Spec

-----------------------------------------------------------------------------
\* Among equal priorities pkg/task is first come, first served: a newcomer
\* waits behind its equals and no pop, removal or drain reorders those left.
THEOREM FirstComeFirstServed == Spec => FifoAmongEquals
<1> DEFINE Kept(t, u) ==
      /\ Prio[t] = Prio[u] /\ InList(t) /\ InList(t)' /\ InList(u)'
      /\ InList(u) => \E i, k \in 1..Len(queue) : i < k /\ queue[i] = t /\ queue[k] = u
      => t = u \/ \E i, k \in 1..Len(queue') : i < k /\ queue'[i] = t /\ queue'[k] = u
<1>1. ASSUME IInv, [Next]_vars, NEW t \in Task, NEW u \in Task PROVE Kept(t, u)
  <2> SUFFICES ASSUME Prio[t] = Prio[u], t # u, t \in Waiting(queue), t \in Waiting(queue'),
                      u \in Waiting(queue'), u \in Waiting(queue) => Before(queue, t, u)
               PROVE  Before(queue', t, u)
    BY DEF Before, InList, Waiting
  <2>0. queue \in Seq(Task) /\ NoTwice(queue) /\ InOrder(queue)
    BY <1>1 DEF IInv, TypeOK, QueueInv
  <2>1. ASSUME NEW x \in Task, PushTask(x) PROVE Before(queue', t, u)
    BY <2>0, <2>1, PushContents, PushKeepsBefore DEF PushTask, Enqueue
  <2>2. ASSUME NEW j \in Job, CancelTaskByID(j) PROVE Before(queue', t, u)
    <3> DEFINE i == FirstPosition(queue, j)
    <3>1. i \in 1..Len(queue) /\ queue' = RemoveAt(queue, i)
      BY <2>0, <2>2, FirstPositionProperties DEF CancelTaskByID
    <3>2. u \in Waiting(queue)
      BY <2>0, <3>1, RemoveProperties
    <3> QED BY <2>0, <3>1, <3>2, RemoveKeepsBefore
  <2>3. ASSUME NEW w \in Worker, AcquireTask(w) PROVE Before(queue', t, u)
    BY <2>0, <2>3, PopProperties, PopKeepsBefore DEF AcquireTask
  <2>4. CASE StopDrain
    BY <2>4, EmptySeq DEF StopDrain, Waiting
  <2>5. CASE queue' = queue
    BY <2>5
  <2> QED BY <1>1, <2>1, <2>2, <2>3, <2>4, <2>5
          DEF Next, Submit, SubmitSteps, CancelSteps, WorkerSteps, StopSteps, vars,
              SubmitRefused, SubmitAccepted, PersistPending, PushRefused, SignalPushed,
              ContextEnds, CancelDeliver, CancelSave, Sleep, Exit, SkipEnded, MarkTask,
              CallHandler, HandlerReturns, PersistFinished, AfterTask, StopBegin, StopReturn
<1>2. IInv /\ [Next]_vars => [\A t, u \in Task : Kept(t, u)]_vars
  BY <1>1
<1> QED BY <1>2, Invariance, PTL DEF Spec, FifoAmongEquals

-----------------------------------------------------------------------------
(* Sleepers and the tasks that wait for them.                              *)

\* SignalDue is finite whatever Task is: each step adds at most one task.
WakeInv == IsFiniteSet(SignalDue) /\ NoLostWakeup

\* The three counts are natural numbers, and no worker is counted twice.
LEMMA WakeCounts ==
  ASSUME TypeOK, WakeInv
  PROVE  /\ Len(queue) \in Nat /\ IsFiniteSet(Looking)
         /\ Cardinality(Looking) \in Nat /\ Cardinality(SignalDue) \in Nat
<1>1. IsFiniteSet(Looking)
  BY SchedulerAssumption, FS_Subset DEF Looking
<1> QED BY <1>1, FS_CardinalityType, LenProperties DEF TypeOK, WakeInv

\* A step after which no more tasks wait, no fewer workers look and no more
\* sleep, and every due Signal is still due, keeps the balance.
LEMMA BalanceKept ==
  ASSUME TypeOK, TypeOK', WakeInv, SignalDue' = SignalDue, Len(queue') <= Len(queue),
         Looking \subseteq Looking', Asleep' \subseteq Asleep
  PROVE  /\ IsFiniteSet(SignalDue')
         /\ Asleep' # {} => Len(queue') <= Cardinality(Looking') + Cardinality(SignalDue')
<1>1. IsFiniteSet(Looking') /\ Cardinality(Looking') \in Nat
  BY SchedulerAssumption, FS_Subset, FS_CardinalityType DEF Looking
<1>2. Cardinality(Looking) <= Cardinality(Looking')
  BY <1>1, FS_Subset
<1>3. Len(queue') \in Nat
  BY LenProperties DEF TypeOK
<1> QED BY <1>1, <1>2, <1>3, WakeCounts DEF WakeInv, NoLostWakeup

\* What a Signal does to the sleepers: nothing when there is none, else one of
\* them goes to look at the list.
LEMMA SignalledSleepers ==
  ASSUME NEW wk \in [Worker -> WorkerState], NEW r \in Signalled(wk)
  PROVE  LET asleep(x) == {w \in Worker : x[w].pc = "asleep"}
             looking(x) == {w \in Worker : x[w].pc = "looking"}
         IN  \/ r = wk /\ asleep(wk) = {}
             \/ \E w \in asleep(wk) : /\ asleep(r) = asleep(wk) \ {w}
                                      /\ looking(r) = looking(wk) \cup {w}
<1>1. Free("looking").pc = "looking"
  BY DEF Free
<1>2. CASE {w \in Worker : wk[w].pc = "asleep"} = {}
  BY <1>2 DEF Signalled
<1>3. CASE {w \in Worker : wk[w].pc = "asleep"} # {}
  <2>1. PICK w \in Worker : wk[w].pc = "asleep" /\ r = [wk EXCEPT ![w] = Free("looking")]
    BY <1>3 DEF Signalled
  <2>2. r[w].pc = "looking" /\ \A v \in Worker \ {w} : r[v] = wk[v]
    BY <1>1, <2>1
  <2> QED BY <2>1, <2>2
<1> QED BY <1>2, <1>3

\* A step that neither touches the list nor the workers owes no Signal.
LEMMA WakeUntouched ==
  ASSUME WakeInv, UNCHANGED <<queue, stopPc, worker>>, SignalDue' = SignalDue
  PROVE  WakeInv'
BY DEF WakeInv, NoLostWakeup, Looking, Asleep

\* The balance is kept by every step of pkg/task.
LEMMA WakeInductive == IInv /\ IInv' /\ WakeInv /\ [Next]_vars => WakeInv'
<1> SUFFICES ASSUME IInv, IInv', WakeInv, [Next]_vars PROVE WakeInv'
  OBVIOUS
<1>0. /\ TypeOK /\ TypeOK' /\ StopInv /\ StopInv' /\ worker \in [Worker -> WorkerState]
      /\ IsFiniteSet(SignalDue) /\ NoLostWakeup
  BY WorkersTyped DEF IInv, WakeInv
<1> DEFINE AfterStop == stopPc \in {"joining", "returned"} => Asleep = {} /\ queue = <<>>
<1>1. ASSUME UNCHANGED <<queue, stopPc>>, SignalDue' = SignalDue,
             Looking \subseteq Looking', Asleep' \subseteq Asleep
      PROVE  WakeInv'
  <2>1. AfterStop'
    BY <1>0, <1>1 DEF NoLostWakeup
  <2>2. Len(queue') <= Len(queue)
    BY <1>0, <1>1, WakeCounts
  <2> QED BY <1>0, <1>1, <2>1, <2>2, BalanceKept DEF WakeInv, NoLostWakeup
<1>3. ASSUME NEW t \in Task, PushTask(t) PROVE WakeInv'
  <2>1. SignalDue' = SignalDue \cup {t} /\ t \notin SignalDue
    BY <1>0, <1>3 DEF PushTask, Enqueue, SignalDue, TypeOK
  <2>2. IsFiniteSet(SignalDue') /\ Cardinality(SignalDue') = Cardinality(SignalDue) + 1
    BY <1>0, <2>1, FS_AddElement
  <2>3. Len(queue') = Len(queue) + 1
    BY <1>0, <1>3, PushProperties DEF PushTask, Enqueue, TypeOK
  <2>4. Looking' = Looking /\ Asleep' = Asleep
    BY <1>3 DEF PushTask, Enqueue, Looking, Asleep
  <2>5. stopPc' = "none"
    BY <1>0, <1>3 DEF PushTask, Enqueue, StopInv
  <2> QED BY <1>0, <2>2, <2>3, <2>4, <2>5, WakeCounts DEF WakeInv, NoLostWakeup
<1>4. ASSUME NEW t \in Task, SignalPushed(t) PROVE WakeInv'
  <2>1. SignalDue' = SignalDue \ {t} /\ t \in SignalDue
    BY <1>0, <1>4 DEF SignalPushed, SignalDue, TypeOK
  <2>2. IsFiniteSet(SignalDue') /\ Cardinality(SignalDue') = Cardinality(SignalDue) - 1
    BY <1>0, <2>1, FS_RemoveElement
  <2>3. UNCHANGED <<queue, stopPc>> /\ worker' \in Signalled(worker)
    BY <1>4 DEF SignalPushed
  <2>4. CASE Asleep = {} /\ worker' = worker
    BY <1>0, <2>2, <2>3, <2>4 DEF WakeInv, NoLostWakeup, Asleep
  <2>5. ASSUME NEW w \in Asleep, Asleep' = Asleep \ {w}, Looking' = Looking \cup {w} PROVE WakeInv'
    <3>1. w \notin Looking
      BY DEF Asleep, Looking
    <3>2. Cardinality(Looking') = Cardinality(Looking) + 1
      BY <2>5, <3>1, WakeCounts, <1>0, FS_AddElement DEF WakeInv
    <3> QED BY <1>0, <2>2, <2>3, <2>5, <3>2, WakeCounts DEF WakeInv, NoLostWakeup
  <2> QED BY <1>0, <2>3, <2>4, <2>5, SignalledSleepers DEF Asleep, Looking
<1>5. ASSUME NEW t \in Task, CancelDeliver(t) PROVE WakeInv'
  <2>1. Looking \subseteq Looking' /\ Asleep' \subseteq Asleep
    BY <1>0, <1>5, SignalledSleepers DEF CancelDeliver, Asleep, Looking
  <2> QED BY <1>1, <1>5, <2>1 DEF CancelDeliver, SignalDue
<1>6. ASSUME NEW w \in Worker, AfterTask(w) PROVE WakeInv'
  <2> DEFINE freed == [worker EXCEPT ![w] = Free("looking")]
  <2>1. freed \in [Worker -> WorkerState]
    BY <1>0 DEF Free, WorkerState, WorkerPc
  <2>2. /\ Looking \subseteq {v \in Worker : freed[v].pc = "looking"}
        /\ {v \in Worker : freed[v].pc = "asleep"} \subseteq Asleep
    BY <1>0 DEF Free, Looking, Asleep
  <2>3. worker' \in Signalled(freed)
    BY <1>6 DEF AfterTask
  <2> HIDE DEF freed
  <2>4. Looking \subseteq Looking' /\ Asleep' \subseteq Asleep
    BY <2>1, <2>2, <2>3, SignalledSleepers DEF Looking, Asleep
  <2> QED BY <1>1, <1>6, <2>4 DEF AfterTask, SignalDue
<1>7. ASSUME NEW w \in Worker, AcquireTask(w) PROVE WakeInv'
  <2>1. Looking' = Looking \ {w} /\ w \in Looking /\ Asleep' = Asleep
    BY <1>0, <1>7 DEF AcquireTask, Looking, Asleep
  <2>2. Cardinality(Looking') = Cardinality(Looking) - 1
    BY <1>0, <2>1, WakeCounts, FS_RemoveElement DEF WakeInv
  <2>3. Len(queue') = Len(queue) - 1 /\ queue # <<>>
    BY <1>0, <1>7, HeadTailProperties DEF AcquireTask, TypeOK
  <2>4. SignalDue' = SignalDue /\ stopPc' = stopPc
    BY <1>7 DEF AcquireTask, SignalDue
  <2> QED BY <1>0, <2>1, <2>2, <2>3, <2>4, WakeCounts DEF WakeInv, NoLostWakeup
<1>8. ASSUME NEW w \in Worker, Sleep(w) PROVE WakeInv'
  <2>1. queue' = <<>> /\ Len(queue') = 0
    BY <1>8, EmptySeq DEF Sleep
  <2>2. stopPc' = "none" /\ SignalDue' = SignalDue
    BY <1>0, <1>8 DEF Sleep, StopInv, SignalDue
  <2>3. Cardinality(Looking') \in Nat
    BY SchedulerAssumption, FS_Subset, FS_CardinalityType DEF Looking
  <2> QED BY <1>0, <2>1, <2>2, <2>3, WakeCounts DEF WakeInv, NoLostWakeup
<1>9. ASSUME NEW w \in Worker, Exit(w) PROVE WakeInv'
  <2>1. queue' = <<>> /\ Len(queue') = 0
    BY <1>9, EmptySeq DEF Exit
  <2>2. stopPc' = stopPc /\ SignalDue' = SignalDue
    BY <1>9 DEF Exit, SignalDue
  <2>3. Cardinality(Looking') \in Nat
    BY SchedulerAssumption, FS_Subset, FS_CardinalityType DEF Looking
  <2>4. Asleep' \subseteq Asleep
    BY <1>0, <1>9 DEF Exit, Free, Asleep
  <2> QED BY <1>0, <2>1, <2>2, <2>3, <2>4, WakeCounts DEF WakeInv, NoLostWakeup
<1>10. ASSUME NEW j \in Job, CancelTaskByID(j) PROVE WakeInv'
  <2> DEFINE i == FirstPosition(queue, j)
  <2>1. i \in 1..Len(queue) /\ queue' = RemoveAt(queue, i)
    BY <1>0, <1>10, FirstPositionProperties DEF CancelTaskByID, TypeOK
  <2>2. Len(queue') = Len(queue) - 1 /\ Len(queue) \in Nat
    BY <1>0, <2>1, RemoveAtProperties, LenProperties DEF TypeOK
  <2>3. Looking' = Looking /\ Asleep' = Asleep /\ SignalDue' = SignalDue /\ stopPc' = stopPc
    BY <1>10 DEF CancelTaskByID, Looking, Asleep, SignalDue
  <2>4. queue # <<>>
    BY <2>1, EmptySeq
  <2> QED BY <1>0, <2>2, <2>3, <2>4, BalanceKept DEF WakeInv, NoLostWakeup
<1>11. ASSUME NEW w \in Worker, NEW p \in Holding, worker[w].pc \in Holding,
              worker' = [worker EXCEPT ![w].pc = p]
       PROVE  Looking' = Looking /\ Asleep' = Asleep
  <2>1. p \in WorkerPc
    BY DEF WorkerPc
  <2>2. worker'[w].pc = p /\ \A v \in Worker \ {w} : worker'[v] = worker[v]
    BY <1>0, <1>11, <2>1, WorkerMovesOn
  <2> QED BY <1>11, <2>2 DEF Looking, Asleep, Holding
<1>12. ASSUME NEW w \in Worker, SkipEnded(w) \/ HandlerReturns(w) PROVE WakeInv'
  <2>1. AfterVerdict \in Holding /\ worker[w].pc \in Holding
    BY <1>12 DEF AfterVerdict, Holding, SkipEnded, HandlerReturns
  <2>2. Looking' = Looking /\ Asleep' = Asleep
    BY <1>11, <1>12, <2>1 DEF SkipEnded, HandlerReturns
  <2> QED BY <1>1, <1>12, <2>2 DEF SkipEnded, HandlerReturns, SignalDue
<1>13. ASSUME NEW w \in Worker, MarkTask(w) \/ CallHandler(w) \/ PersistFinished(w) PROVE WakeInv'
  <2>1. {"taken", "marking", "executing", "saving", "closing"} = Holding
    BY DEF Holding
  <2>2. Looking' = Looking /\ Asleep' = Asleep
    BY <1>11, <1>13, <2>1 DEF MarkTask, CallHandler, PersistFinished
  <2> QED BY <1>1, <1>13, <2>2 DEF MarkTask, CallHandler, PersistFinished, SignalDue, objVars
<1>14. ASSUME NEW t \in Task, Submit(t) \/ PersistPending(t) \/ PushRefused(t) PROVE WakeInv'
  <2>1. SignalDue' = SignalDue
    BY <1>0, <1>14 DEF Submit, SubmitRefused, SubmitAccepted, PersistPending, PushRefused,
                       SignalDue, TypeOK
  <2> QED BY WakeUntouched, <1>14, <2>1 DEF Submit, SubmitRefused, SubmitAccepted, PersistPending, PushRefused
<1>15. ASSUME NEW t \in Task, ContextEnds(t) \/ CancelSave(t) PROVE WakeInv'
  BY WakeUntouched, <1>15 DEF ContextEnds, CancelSave, SignalDue, objVars
<1>16. CASE StopBegin
  <2>1. stopPc' = "draining"
    BY <1>16 DEF StopBegin
  <2> QED BY <1>0, <1>16, <2>1 DEF StopBegin, objVars, WakeInv, NoLostWakeup, Looking, Asleep, SignalDue
<1>17. CASE StopDrain
  <2>1. worker' = Broadcast(worker) /\ queue' = <<>> /\ SignalDue' = SignalDue
    BY <1>17 DEF StopDrain, SignalDue
  <2>2. Asleep' = {}
    BY <1>0, <2>1 DEF Broadcast, Asleep, Free
  <2> QED BY <1>0, <2>1, <2>2 DEF WakeInv, NoLostWakeup
<1>18. CASE StopReturn
  BY <1>0, <1>18 DEF StopReturn, objVars, WakeInv, NoLostWakeup, Looking, Asleep, SignalDue
<1>19. CASE UNCHANGED vars
  BY WakeUntouched, <1>19 DEF vars, SignalDue
<1> QED BY <1>3, <1>4, <1>5, <1>6, <1>7, <1>8, <1>9, <1>10, <1>12, <1>13, <1>14, <1>15, <1>16,
           <1>17, <1>18, <1>19
        DEF Next, SubmitSteps, CancelSteps, WorkerSteps, StopSteps

\* A new scheduler's workers all look at an empty list.
LEMMA WakeInit == Init => WakeInv
<1> SUFFICES ASSUME Init PROVE WakeInv
  OBVIOUS
<1>1. SignalDue = {} /\ Asleep = {}
  BY DEF Init, SignalDue, Asleep, Free
<1> QED BY <1>1, FS_EmptySet DEF Init, WakeInv, NoLostWakeup

\* No wakeup is lost between Signal, Broadcast and the sleepers, with any
\* number of workers and tasks.
THEOREM NoWakeupIsLost == Spec => []NoLostWakeup
<1>1. WakeInv => NoLostWakeup
  BY DEF WakeInv
<1> QED BY <1>1, WakeInit, Invariance, WakeInductive, PTL DEF Spec
=============================================================================

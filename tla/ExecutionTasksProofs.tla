------------------------- MODULE ExecutionTasksProofs -------------------------
(***************************************************************************)
(* The durable tasks with any number of tasks, workers, operator requests  *)
(* and restarts: no race between them strands a row.                       *)
(***************************************************************************)
EXTENDS ExecutionTasks, TaskSchedulerProofs

-----------------------------------------------------------------------------
(* The inductive invariant.                                                *)

\* Finitely many IDs were submitted, among them those of all objects and rows.
BornInv ==
  /\ IsFiniteSet({j \in Job : born[j] > 0})
  /\ \A t \in Task : pc[t] # "none" => born[IdOf[t]] > 0
  /\ \A j \in Job : row[j] # "none" => born[j] > 0 /\ \E t \in Task : IdOf[t] = j

\* recoverPending has each row once, and no object for it exists yet.
ReloadInv ==
  /\ \A i, k \in 1..Len(reload) : reload[i] = reload[k] => i = k
  /\ \A i \in 1..Len(reload) :
       /\ row[reload[i]] # "none"
       /\ \A t \in Task : IdOf[t] = reload[i] => pc[t] = "none"
  /\ reload # <<>> => loading

\* A request is about a row that exists, and has counted its retry when it
\* comes to requeue.
RequestInv ==
  \A r \in Request :
    request[r].pc \notin {"idle", "done"} =>
      /\ request[r].id \in Job /\ row[request[r].id] # "none"
      /\ request[r].pc = "requeue" => retries[request[r].id] > 0

\* Two objects of one ID are in use only after a retry.
RetryInv ==
  \A t, u \in Task : IdOf[t] = IdOf[u] /\ pc[t] # "none" /\ pc[u] # "none"
                     => t = u \/ retries[IdOf[t]] > 0

\* The type invariant of the variables the restart and the requests add.
RequestState == [pc : RequestPc, id : Job \cup {"none"}]
ExtTypeOK ==
  /\ reload \in Seq(Job) /\ loading \in BOOLEAN
  /\ born \in [Job -> Nat] /\ retries \in [Job -> Nat]
  /\ request \in [Request -> RequestState]

ExecInv == IInv /\ ExtTypeOK /\ BornInv /\ ReloadInv /\ RequestInv /\ RetryInv /\ NothingStranded

\* The parts of Carried, and of ExecutedNow.
Reloaded(j) == \E i \in 1..Len(reload) : reload[i] = j
Retried(j) == \E r \in Request : request[r].id = j /\ request[r].pc = "requeue"
Cares(t) ==
  \/ pc[t] = "pushing"
  \/ t \in Waiting(queue)
  \/ cancelPc[t] \in {"removed", "saving"}
  \/ \E w \in Worker : worker[w].task = t /\ worker[w].pc \in {"taken", "marking", "saving"}
Executes(w, j) ==
  /\ worker[w].task # NoTask /\ IdOf[worker[w].task] = j
  /\ worker[w].pc \in {"executing", "saving"}

\* What NothingStranded asks of one ID.
Safe(j) ==
  durable => /\ row[j] = "pending" /\ ~stopping => Carried(j)
             /\ row[j] = "running" => ExecutedNow(j)

\* The definitions above take Carried and ExecutedNow apart.
LEMMA CarriedParts ==
  ASSUME NEW j
  PROVE  /\ Carried(j) <=> Reloaded(j) \/ Retried(j) \/ \E t \in Task : IdOf[t] = j /\ Cares(t)
         /\ ExecutedNow(j) <=> \E w \in Worker : Executes(w, j)
BY InListIsWaiting DEF Carried, ExecutedNow, Reloaded, Retried, Cares, Executes

\* NothingStranded, ID by ID.
LEMMA StrandedEach == NothingStranded <=> \A j \in Job \ Unreliable : Safe(j)
BY DEF NothingStranded, Safe

\* A step that leaves the row, and takes it out of nobody's hands, strands nothing.
LEMMA StillSafe ==
  ASSUME NEW j, Safe(j), row'[j] = row[j], stopping => stopping', durable' = durable,
         Reloaded(j) => Reloaded(j)', Retried(j) => Retried(j)',
         \A t \in Task : ~stopping' /\ IdOf[t] = j /\ Cares(t) => Cares(t)',
         \A w \in Worker : Executes(w, j) => Executes(w, j)'
  PROVE  Safe(j)'
<1>1. ~stopping' /\ Carried(j) => Carried(j)'
  <2>1. Carried(j)' <=> Reloaded(j)' \/ Retried(j)' \/ \E t \in Task : IdOf[t] = j /\ Cares(t)'
    BY InListIsWaiting DEF Carried, Reloaded, Retried, Cares, InList, Waiting
  <2> QED BY <2>1, CarriedParts
<1>2. ExecutedNow(j) => ExecutedNow(j)'
  <2>1. ExecutedNow(j)' <=> \E w \in Worker : Executes(w, j)'
    BY DEF ExecutedNow, Executes
  <2> QED BY <2>1, CarriedParts
<1> QED BY <1>1, <1>2 DEF Safe

\* A row that was written is not waiting for anybody.
LEMMA WrittenSafe == ASSUME NEW j, row'[j] \notin {"pending", "running"} PROVE Safe(j)'
BY DEF Safe

-----------------------------------------------------------------------------
(* The scheduler's own steps.                                              *)

OwnSteps == \/ \E t \in Task : SubmitSteps(t) \/ CancelSteps(t) \/ ContextEnds(t)
            \/ \E j \in Job : CancelTaskByID(j)
            \/ \E w \in Worker : WorkerSteps(w)
            \/ StopBegin \/ StopSteps

\* They are steps of pkg/task.
LEMMA OwnIsNext == OwnSteps => [Next]_vars /\ durable' = durable
<1>1. OwnSteps => [Next]_vars
  BY DEF OwnSteps, Next
<1> QED BY <1>1, DurableStays

\* A worker that moves on with its task takes no other worker's.
LEMMA MovesOnKeeps ==
  ASSUME IInv, NEW w \in Worker, NEW p \in WorkerPc, worker' = [worker EXCEPT ![w].pc = p]
  PROVE  /\ worker'[w].pc = p /\ worker'[w].task = worker[w].task
         /\ \A v \in Worker \ {w} : worker'[v] = worker[v]
<1>1. worker'[w] = [pc |-> p, task |-> worker[w].task] /\ \A v \in Worker \ {w} : worker'[v] = worker[v]
  BY WorkersTyped, WorkerMovesOn
<1> QED BY <1>1

\* What a submitter does strands nothing: a row that becomes pending has the
\* object that is about to be pushed.
LEMMA SubmittingSafe ==
  ASSUME IInv, NEW t \in Task, SubmitSteps(t), NEW j \in Job \ Unreliable, Safe(j),
         Reloaded(j) => Reloaded(j)', Retried(j) => Retried(j)'
  PROVE  Safe(j)'
<1>0. TypeOK /\ IdOf[t] \in Job /\ durable' = durable
  BY QueueAssumption, OwnIsNext DEF IInv, OwnSteps
<1>1. CASE PersistPending(t)
  <2>0. /\ UNCHANGED <<queue, cancelPc, worker, stopping>> /\ pc[t] = "saving"
        /\ \A u \in Task \ {t} : pc'[u] = pc[u]
    BY <1>0, <1>1 DEF PersistPending, TypeOK
  <2>1. \A u \in Task : Cares(u) => Cares(u)'
    BY <2>0 DEF Cares
  <2>2. \A w \in Worker : Executes(w, j) => Executes(w, j)'
    BY <2>0 DEF Executes
  <2>3. CASE row'[j] = row[j]
    BY <1>0, <2>0, <2>1, <2>2, <2>3, StillSafe
  <2>4. CASE row'[j] # row[j]
    <3>1. IdOf[t] = j /\ row'[j] = "pending" /\ pc'[t] = "pushing"
      BY <1>0, <1>1, <2>4 DEF PersistPending, TypeOK
    <3>2. Carried(j)'
      BY <3>1 DEF Carried
    <3> QED BY <3>1, <3>2 DEF Safe
  <2> QED BY <2>3, <2>4
<1>2. CASE PushRefused(t)
  <2>0. UNCHANGED <<worker, stopping, row>> /\ stopping
    BY <1>2 DEF PushRefused
  <2>1. \A w \in Worker : Executes(w, j) => Executes(w, j)'
    BY <2>0 DEF Executes
  <2> QED BY <1>0, <2>0, <2>1, StillSafe
<1>3. CASE PushTask(t)
  <2>0. /\ UNCHANGED <<cancelPc, worker, stopping, row>> /\ Waiting(queue') = Waiting(queue) \cup {t}
        /\ \A u \in Task \ {t} : pc'[u] = pc[u]
    BY <1>0, <1>3, PushContents DEF PushTask, Enqueue, TypeOK
  <2>1. \A u \in Task : Cares(u) => Cares(u)'
    BY <2>0 DEF Cares, Waiting
  <2>2. \A w \in Worker : Executes(w, j) => Executes(w, j)'
    BY <2>0 DEF Executes
  <2> QED BY <1>0, <2>0, <2>1, <2>2, StillSafe
<1>4. CASE SignalPushed(t)
  <2>0. /\ UNCHANGED <<queue, cancelPc, stopping, row>> /\ pc[t] = "pushed"
        /\ \A u \in Task \ {t} : pc'[u] = pc[u]
    BY <1>0, <1>4 DEF SignalPushed, TypeOK
  <2>1. SameHands(worker, worker')
    BY <1>4, WakingHands
  <2>2. \A u \in Task : Cares(u) => Cares(u)'
    BY <2>0, <2>1 DEF Cares, SameHands, Holding
  <2>3. \A w \in Worker : Executes(w, j) => Executes(w, j)'
    BY <2>1 DEF Executes, SameHands, Holding
  <2> QED BY <1>0, <2>0, <2>2, <2>3, StillSafe
<1> QED BY <1>1, <1>2, <1>3, <1>4 DEF SubmitSteps

\* CancelTaskByID keeps the object it took off the list until its row is written.
LEMMA CancellingSafe ==
  ASSUME IInv, (\E t \in Task : CancelSteps(t)) \/ (\E i \in Job : CancelTaskByID(i)),
         NEW j \in Job \ Unreliable, Safe(j),
         Reloaded(j) => Reloaded(j)', Retried(j) => Retried(j)'
  PROVE  Safe(j)'
<1> SUFFICES ASSUME durable PROVE Safe(j)'
  BY OwnIsNext DEF OwnSteps, Safe
<1>0. TypeOK /\ ObjectInv /\ QueueInv /\ durable' = durable
  BY OwnIsNext DEF IInv, OwnSteps
<1>1. ASSUME NEW t \in Task, CancelDeliver(t) PROVE Safe(j)'
  <2>0. /\ UNCHANGED <<queue, pc, stopping, row>>
        /\ cancelPc[t] = "removed" /\ cancelPc' = [cancelPc EXCEPT ![t] = "saving"]
    BY <1>0, <1>1 DEF CancelDeliver
  <2>1. SameHands(worker, worker')
    BY <1>1, WakingHands
  <2>2. \A u \in Task : Cares(u) => Cares(u)'
    BY <1>0, <2>0, <2>1 DEF Cares, SameHands, Holding, TypeOK
  <2>3. \A w \in Worker : Executes(w, j) => Executes(w, j)'
    BY <2>1 DEF Executes, SameHands, Holding
  <2> QED BY <1>0, <2>0, <2>2, <2>3, StillSafe
<1>2. ASSUME NEW t \in Task, CancelSave(t) PROVE Safe(j)'
  <2>0. /\ UNCHANGED <<queue, pc, worker, stopping>> /\ status[t] \in Verdict
        /\ \A u \in Task \ {t} : cancelPc'[u] = cancelPc[u]
    BY <1>0, <1>2 DEF CancelSave, TypeOK, ObjectInv, Cancelling
  <2>1. CASE IdOf[t] = j
    <3>1. row'[j] \in {"none", "deleted"} \cup Verdict
      BY <1>0, <1>2, <2>0, <2>1 DEF CancelSave, WriteRow, TypeOK
    <3> QED BY <3>1, WrittenSafe DEF Verdict
  <2>2. CASE IdOf[t] # j
    <3>1. row'[j] = row[j]
      BY <1>0, <1>2, <2>2, QueueAssumption DEF CancelSave, WriteRow, TypeOK
    <3>2. \A u \in Task : IdOf[u] = j /\ Cares(u) => Cares(u)'
      BY <2>0, <2>2 DEF Cares
    <3>3. \A w \in Worker : Executes(w, j) => Executes(w, j)'
      BY <2>0 DEF Executes
    <3> QED BY <1>0, <2>0, <3>1, <3>2, <3>3, StillSafe
  <2> QED BY <2>1, <2>2
<1>3. ASSUME NEW i \in Job, CancelTaskByID(i) PROVE Safe(j)'
  <2> DEFINE k == FirstPosition(queue, i)
  <2>1. k \in 1..Len(queue)
    BY <1>0, <1>3, FirstPositionProperties DEF CancelTaskByID, TypeOK
  <2>2. /\ Waiting(queue') = Waiting(queue) \ {queue[k]} /\ queue[k] \in Task
        /\ cancelPc' = [cancelPc EXCEPT ![queue[k]] = "removed"]
        /\ UNCHANGED <<pc, worker, stopping, row>>
    BY <1>0, <1>3, <2>1, RemoveProperties, ElementOfSeq DEF CancelTaskByID, TypeOK, QueueInv
  <2> HIDE DEF k
  <2>3. \A u \in Task : Cares(u) => Cares(u)'
    BY <1>0, <2>2 DEF Cares, TypeOK, Waiting
  <2>4. \A w \in Worker : Executes(w, j) => Executes(w, j)'
    BY <2>2 DEF Executes
  <2> QED BY <1>0, <2>2, <2>3, <2>4, StillSafe
<1> QED BY <1>1, <1>2, <1>3 DEF CancelSteps

\* From the list to the end of its handler an object is in a worker's hands, and
\* a row that says "running" has that worker.
LEMMA WorkingSafe ==
  ASSUME IInv, NEW w \in Worker, WorkerSteps(w), NEW j \in Job \ Unreliable, Safe(j),
         Reloaded(j) => Reloaded(j)', Retried(j) => Retried(j)'
  PROVE  Safe(j)'
<1> DEFINE t == worker[w].task
<1> SUFFICES ASSUME durable PROVE Safe(j)'
  BY OwnIsNext DEF OwnSteps, Safe
<1>0. /\ TypeOK /\ ObjectInv /\ WorkerInv /\ QueueInv /\ worker \in [Worker -> WorkerState]
      /\ durable' = durable
  BY WorkersTyped, OwnIsNext DEF IInv, OwnSteps
<1>1. CASE AcquireTask(w)
  <2>0. /\ UNCHANGED <<pc, cancelPc, stopping, row>>
        /\ Waiting(queue') = Waiting(queue) \ {Head(queue)}
        /\ worker'[w] = [pc |-> "taken", task |-> Head(queue)]
        /\ \A v \in Worker \ {w} : worker'[v] = worker[v]
        /\ worker[w].pc = "looking"
    BY <1>0, <1>1, PopProperties DEF AcquireTask, TypeOK, QueueInv
  <2>1. ASSUME NEW u \in Task, Cares(u) PROVE Cares(u)'
    <3>1. CASE u = Head(queue)
      BY <2>0, <3>1 DEF Cares
    <3>2. CASE u # Head(queue)
      <4>1. u \in Waiting(queue) => u \in Waiting(queue)'
        BY <2>0, <3>2 DEF Waiting
      <4> QED BY <2>0, <2>1, <4>1 DEF Cares
    <3> QED BY <3>1, <3>2
  <2>2. \A v \in Worker : Executes(v, j) => Executes(v, j)'
    BY <2>0 DEF Executes
  <2> QED BY <1>0, <2>0, <2>1, <2>2, StillSafe
<1>2. CASE Sleep(w) \/ Exit(w)
  <2>0. /\ UNCHANGED <<queue, pc, cancelPc, stopping, row>> /\ worker[w].pc = "looking"
        /\ \A v \in Worker \ {w} : worker'[v] = worker[v]
    BY <1>0, <1>2 DEF Sleep, Exit
  <2>1. \A u \in Task : Cares(u) => Cares(u)'
    BY <2>0 DEF Cares
  <2>2. \A v \in Worker : Executes(v, j) => Executes(v, j)'
    BY <2>0 DEF Executes
  <2> QED BY <1>0, <2>0, <2>1, <2>2, StillSafe
<1>3. CASE SkipEnded(w) \/ MarkTask(w) \/ HandlerReturns(w)
  <2>0. /\ UNCHANGED <<queue, pc, cancelPc, stopping, row>>
        /\ \/ worker[w].pc = "taken" /\ worker' = [worker EXCEPT ![w].pc = "marking"]
           \/ worker[w].pc \in {"taken", "executing"} /\ worker' = [worker EXCEPT ![w].pc = "saving"]
    BY <1>0, <1>3 DEF SkipEnded, MarkTask, HandlerReturns, AfterVerdict
  <2>1. /\ worker'[w].task = t /\ \A v \in Worker \ {w} : worker'[v] = worker[v]
        /\ \/ worker[w].pc = "taken" /\ worker'[w].pc = "marking"
           \/ worker[w].pc \in {"taken", "executing"} /\ worker'[w].pc = "saving"
    BY <2>0, MovesOnKeeps DEF WorkerPc, Holding
  <2>2. \A u \in Task : Cares(u) => Cares(u)'
    BY <2>0, <2>1 DEF Cares
  <2>3. \A v \in Worker : Executes(v, j) => Executes(v, j)'
    BY <2>1 DEF Executes
  <2> QED BY <1>0, <2>0, <2>2, <2>3, StillSafe
<1>4. CASE CallHandler(w) \/ PersistFinished(w)
  <2>0. /\ UNCHANGED <<queue, pc, cancelPc, stopping>> /\ t \in Task
        /\ \/ /\ worker[w].pc = "marking" /\ worker' = [worker EXCEPT ![w].pc = "executing"]
              /\ WriteRow(IdOf[t], "running")
           \/ /\ worker[w].pc = "saving" /\ worker' = [worker EXCEPT ![w].pc = "closing"]
              /\ WriteRow(IdOf[t], status[t]) /\ status[t] \in Verdict
    BY <1>0, <1>4 DEF CallHandler, PersistFinished, objVars, WorkerInv, ObjectInv, WorkerState, Holding
  <2>1. /\ worker'[w].task = t /\ \A v \in Worker \ {w} : worker'[v] = worker[v]
        /\ worker[w].pc = "marking" => worker'[w].pc = "executing"
    BY <2>0, MovesOnKeeps DEF WorkerPc, Holding
  <2>2. CASE IdOf[t] # j
    <3>1. row'[j] = row[j]
      BY <1>0, <2>0, <2>2, QueueAssumption DEF WriteRow, TypeOK
    <3>2. \A u \in Task : IdOf[u] = j /\ Cares(u) => Cares(u)'
      BY <2>0, <2>1, <2>2 DEF Cares
    <3>3. \A v \in Worker : Executes(v, j) => Executes(v, j)'
      BY <2>1, <2>2 DEF Executes
    <3> QED BY <1>0, <2>0, <3>1, <3>2, <3>3, StillSafe
  <2>3. CASE IdOf[t] = j /\ worker[w].pc = "saving"
    <3>1. row'[j] \in {"none", "deleted"} \cup Verdict
      BY <1>0, <2>0, <2>3 DEF WriteRow, TypeOK
    <3> QED BY <3>1, WrittenSafe DEF Verdict
  <2>4. CASE IdOf[t] = j /\ worker[w].pc = "marking"
    <3>1. row'[j] \in {"none", "deleted", "running"}
      BY <1>0, <2>0, <2>4 DEF WriteRow, TypeOK
    <3>2. ExecutedNow(j)'
      BY <2>0, <2>1, <2>4, SchedulerAssumption DEF ExecutedNow
    <3> QED BY <3>1, <3>2 DEF Safe
  <2> QED BY <2>0, <2>2, <2>3, <2>4
<1>5. CASE AfterTask(w)
  <2> DEFINE freed == [worker EXCEPT ![w] = Free("looking")]
  <2>1. SameHands(freed, worker')
    BY <1>5, AfterTaskHands
  <2>2. /\ UNCHANGED <<queue, pc, cancelPc, stopping, row>> /\ worker[w].pc = "closing"
        /\ \A v \in Worker \ {w} : freed[v] = worker[v]
    BY <1>0, <1>5 DEF AfterTask
  <2> HIDE DEF freed
  <2>3. \A v \in Worker : worker[v].pc \in Holding \ {"closing"} =>
                            worker'[v].pc = worker[v].pc /\ worker'[v].task = worker[v].task
    BY <2>1, <2>2 DEF SameHands
  <2>4. \A u \in Task : Cares(u) => Cares(u)'
    BY <2>2, <2>3 DEF Cares, Holding
  <2>5. \A v \in Worker : Executes(v, j) => Executes(v, j)'
    BY <2>3 DEF Executes, Holding
  <2> QED BY <1>0, <2>2, <2>4, <2>5, StillSafe
<1> QED BY <1>1, <1>2, <1>3, <1>4, <1>5 DEF WorkerSteps

\* Stop drops the list, but only with the flag set.
LEMMA StoppingSafe ==
  ASSUME IInv, StopBegin \/ StopSteps, NEW j, Safe(j),
         Reloaded(j) => Reloaded(j)', Retried(j) => Retried(j)'
  PROVE  Safe(j)'
<1>1. stopping' /\ row' = row /\ durable' = durable
  BY DEF StopBegin, StopSteps, StopDrain, StopReturn, IInv, StopInv
<1>2. worker' = worker \/ SameHands(worker, worker')
  BY WakingHands DEF StopBegin, StopSteps, StopReturn
<1>3. \A w \in Worker : Executes(w, j) => Executes(w, j)'
  BY <1>2 DEF Executes, SameHands, Holding
<1> QED BY <1>1, <1>3, StillSafe

\* A context that ends takes no object out of anybody's hands.
LEMMA ContextSafe ==
  ASSUME NEW t \in Task, ContextEnds(t), NEW j, Safe(j),
         Reloaded(j) => Reloaded(j)', Retried(j) => Retried(j)'
  PROVE  Safe(j)'
<1>1. UNCHANGED <<queue, pc, cancelPc, worker, stopping, row, durable>>
  BY DEF ContextEnds
<1>2. (\A u \in Task : Cares(u) => Cares(u)') /\ \A w \in Worker : Executes(w, j) => Executes(w, j)'
  BY <1>1 DEF Cares, Executes
<1> QED BY <1>1, <1>2, StillSafe

\* Together: whatever the scheduler does, no row is stranded by it.
LEMMA OwnSafe ==
  ASSUME IInv, OwnSteps, NEW j \in Job \ Unreliable, Safe(j),
         Reloaded(j) => Reloaded(j)', Retried(j) => Retried(j)'
  PROVE  Safe(j)'
BY SubmittingSafe, CancellingSafe, WorkingSafe, StoppingSafe, ContextSafe DEF OwnSteps

\* The scheduler uses no new object, drops no row, and makes one only for an
\* object that was submitted.
LEMMA OwnEffect ==
  ASSUME IInv, OwnSteps
  PROVE  /\ \A t \in Task : pc'[t] = "none" <=> pc[t] = "none"
         /\ \A j \in Job : row[j] # "none" => row'[j] # "none"
         /\ \A j \in Job : row'[j] # "none" =>
              row[j] # "none" \/ \E t \in Task : IdOf[t] = j /\ pc[t] # "none"
<1>0. TypeOK /\ ObjectInv /\ WorkerInv
  BY DEF IInv
<1>1. ASSUME NEW t \in Task, SubmitSteps(t)
      PROVE  /\ pc[t] # "none" /\ pc'[t] # "none" /\ \A u \in Task \ {t} : pc'[u] = pc[u]
             /\ row' = row \/ row' = [row EXCEPT ![IdOf[t]] = "pending"]
  BY <1>0, <1>1 DEF SubmitSteps, PersistPending, PushRefused, PushTask, Enqueue, SignalPushed, TypeOK
<1>2. ASSUME ~ \E t \in Task : SubmitSteps(t) PROVE pc' = pc
  BY <1>2 DEF OwnSteps, CancelSteps, CancelDeliver, CancelSave, CancelTaskByID, WorkerSteps, AcquireTask,
              Sleep, Exit, SkipEnded, MarkTask, CallHandler, HandlerReturns, PersistFinished, AfterTask,
              StopBegin, StopSteps, StopDrain, StopReturn, ContextEnds
<1>3. ASSUME ~ \E t \in Task : SubmitSteps(t)
      PROVE  row' = row \/ \E i, s : s # "none" /\ WriteRow(i, s)
  <2>1. ASSUME NEW t \in Task, CancelSave(t) PROVE status[t] # "none"
    BY <1>0, <2>1 DEF CancelSave, ObjectInv, Cancelling, Verdict
  <2>2. ASSUME NEW w \in Worker, PersistFinished(w) PROVE status[worker[w].task] # "none"
    BY <1>0, <2>2 DEF PersistFinished, ObjectInv, WorkerInv, Verdict, TypeOK, Holding
  <2>3. (\E t \in Task : CancelSave(t)) \/ (\E w \in Worker : CallHandler(w) \/ PersistFinished(w)) \/ row' = row
    BY <1>3 DEF OwnSteps, CancelSteps, CancelDeliver, CancelTaskByID, WorkerSteps, AcquireTask,
                Sleep, Exit, SkipEnded, MarkTask, HandlerReturns, AfterTask,
                StopBegin, StopSteps, StopDrain, StopReturn, ContextEnds
  <2> QED BY <2>1, <2>2, <2>3 DEF CancelSave, CallHandler, PersistFinished
<1>4. ASSUME NEW i, NEW s, s # "none", WriteRow(i, s), NEW j \in Job
      PROVE  row[j] # "none" <=> row'[j] # "none"
  BY <1>0, <1>4 DEF WriteRow, TypeOK
<1>5. CASE \E t \in Task : SubmitSteps(t)
  <2>1. PICK t \in Task : SubmitSteps(t)
    BY <1>5
  <2>2. \A j \in Job : row'[j] = row[j] \/ (j = IdOf[t] /\ row'[j] = "pending")
    BY <1>0, <1>1, <2>1 DEF TypeOK
  <2> QED BY <1>1, <2>1, <2>2
<1>6. CASE ~ \E t \in Task : SubmitSteps(t)
  BY <1>2, <1>3, <1>4, <1>6
<1> QED BY <1>5, <1>6

-----------------------------------------------------------------------------
(* What the restart and the requests do to the scheduler's invariant.      *)

\* A write to a row from outside does not touch the scheduler.
LEMMA RowOnlyInv ==
  ASSUME IInv, UNCHANGED schedVars, row' \in [Job -> RowStatus]
  PROVE  IInv'
<1>1. UNCHANGED <<queue, status, settled, ended, invoked, pc, cancelPc, worker, running, stopping, stopPc, durable>>
  BY DEF schedVars, objVars
<1>2. TypeOK'
  BY <1>1 DEF IInv, TypeOK
<1>3. RunningCounts' /\ QueueInv' /\ StopInv'
  BY <1>1 DEF IInv, RunningCounts, QueueInv, StopInv
<1>4. ObjectInv'
  BY <1>1 DEF IInv, ObjectInv, Unpushed, InListAlone, Cancelling, Somewhere, AtNoWorker
<1>5. WorkerInv'
  BY <1>1 DEF IInv, WorkerInv
<1> QED BY <1>2, <1>3, <1>4, <1>5 DEF IInv

\* Requeueing takes an object nobody knows yet.
LEMMA RequeueInv ==
  ASSUME IInv, NEW t \in Task, Requeue(t), row' = row
  PROVE  /\ IInv' /\ pc[t] = "none" /\ pc'[t] \in {"returned", "pushing"}
         /\ \A u \in Task \ {t} : pc'[u] = pc[u]
         /\ ~stopping => pc'[t] = "pushing"
         /\ UNCHANGED <<queue, cancelPc, worker, stopping, durable>>
<1>0. TypeOK /\ ObjectInv /\ WorkerInv
  BY DEF IInv
<1>1. /\ pc[t] = "none" /\ pc'[t] \in {"returned", "pushing"} /\ \A u \in Task \ {t} : pc'[u] = pc[u]
      /\ ~stopping => pc'[t] = "pushing"
      /\ UNCHANGED <<queue, ended, invoked, cancelPc, worker, running, stopping, stopPc, durable>>
  BY <1>0 DEF Requeue, TypeOK
<1>2. TypeOK'
  <2>1. settled' \subseteq Task /\ status' \in [Task -> {"absent", "pending", "running"} \cup Verdict]
    BY <1>0 DEF Requeue, Deliver, TypeOK, Verdict
  <2>2. pc' \in [Task -> {"none", "saving", "pushing", "pushed", "returned"}]
    BY <1>0 DEF Requeue, TypeOK
  <2> QED BY <1>0, <1>1, <2>1, <2>2 DEF TypeOK
<1>3. RunningCounts' /\ QueueInv' /\ StopInv'
  BY <1>1 DEF IInv, RunningCounts, QueueInv, StopInv
<1>4. AtNoWorker(t) /\ settled' \in {settled, settled \cup {t}}
  BY <1>0, <1>1 DEF ObjectInv, Unpushed, Requeue, Deliver
<1>5. WorkerInv'
  BY <1>0, <1>1, <1>4 DEF WorkerInv, AtNoWorker
<1>6. ObjectInv'
  BY <1>0 DEF Requeue, Deliver, Verdict, TypeOK, ObjectInv, Unpushed, InListAlone, Cancelling, Somewhere, AtNoWorker
<1> QED BY <1>1, <1>2, <1>3, <1>5, <1>6 DEF IInv

\* A new process starts from nothing but the rows.
LEMMA RestartIInv == ASSUME IInv, Restart PROVE IInv'
<1> USE SchedulerAssumption
<1>1. worker' \in [Worker -> WorkerState] /\ \A w \in Worker : worker'[w].pc = "looking" /\ worker'[w].task = NoTask
  BY DEF Restart, Free, WorkerState, WorkerPc
<1>2. row' \in [Job -> RowStatus]
  BY DEF IInv, TypeOK, Restart, Recover, InterruptedToPending, RowStatus
<1>3. TypeOK'
  BY <1>1, <1>2, EmptySeq DEF Restart, Recover, TypeOK, WorkerState
<1>4. RunningCounts'
  <2>1. {w \in Worker : worker'[w].pc \in Holding} = {}
    BY <1>1 DEF Holding
  <2> QED BY <2>1, FS_EmptySet DEF Restart, RunningCounts
<1>5. QueueInv' /\ Waiting(queue') = {}
  BY EmptySeq DEF Restart, QueueInv, NoTwice, InOrder, Waiting
<1>6. ObjectInv'
  BY <1>1, <1>5 DEF Restart, ObjectInv, Unpushed, InListAlone, Cancelling, Somewhere, AtNoWorker
<1>7. WorkerInv' /\ StopInv'
  BY <1>1 DEF Restart, WorkerInv, StopInv, Holding
<1> QED BY <1>3, <1>4, <1>5, <1>6, <1>7 DEF IInv

\* A list of a finite set without repetitions has all its members.
LEMMA ListOfAll ==
  ASSUME NEW S, IsFiniteSet(S), NEW s \in SetToSeqs(S)
  PROVE  /\ s \in Seq(S)
         /\ \A i, k \in 1..Len(s) : s[i] = s[k] => i = k
         /\ \A x \in S : \E i \in 1..Len(s) : s[i] = x
<1> DEFINE n == Cardinality(S)
<1>1. n \in Nat
  BY FS_CardinalityType
<1>2. s \in [1..n -> S] /\ \A i, k \in 1..n : i # k => s[i] # s[k]
  BY DEF SetToSeqs
<1>3. IsFiniteSet(1..n) /\ Cardinality(1..n) = n
  BY <1>1, FS_Interval
<1>4. s \in Injection(1..n, S)
  BY <1>2 DEF Injection, IsInjective
<1>5. s \in Surjection(1..n, S)
  BY <1>3, <1>4, FS_Injection
<1>6. s \in Seq(S) /\ Len(s) = n
  BY <1>1, <1>2
<1> QED BY <1>2, <1>5, <1>6 DEF Surjection

-----------------------------------------------------------------------------
(* The parts about requests, reload and retries.                           *)

\* A request that goes on stays the request it was.
LEMMA RequestGoes ==
  ASSUME ExtTypeOK, NEW r \in Request, NEW p \in RequestPc, Goto(r, p)
  PROVE  /\ request' \in [Request -> RequestState] /\ request'[r].pc = p
         /\ p # "done" => request'[r].id = request[r].id
         /\ \A q \in Request \ {r} : request'[q] = request[q]
<1>1. request[r] \in RequestState /\ request \in [Request -> RequestState]
  BY DEF ExtTypeOK
<1>2. Done \in RequestState /\ Done.pc = "done"
  BY DEF Done, Idle, RequestState, RequestPc
<1>3. [request[r] EXCEPT !.pc = p] = [pc |-> p, id |-> request[r].id]
  BY <1>1 DEF RequestState
<1>4. [pc |-> p, id |-> request[r].id] \in RequestState
  BY <1>1 DEF RequestState
<1> QED BY <1>1, <1>2, <1>3, <1>4 DEF Goto

\* Steps that use no new object, drop no row, and leave the requests they touch
\* with a row and, before they requeue, a retry counted.
LEMMA PartsKept ==
  ASSUME ExecInv, UNCHANGED <<reload, born>>, reload # <<>> => loading',
         \A t \in Task : pc'[t] = "none" <=> pc[t] = "none",
         \A j \in Job : row[j] # "none" => row'[j] # "none",
         \A j \in Job : row'[j] # "none" =>
            row[j] # "none" \/ \E t \in Task : IdOf[t] = j /\ pc[t] # "none",
         \A j \in Job : retries[j] > 0 => retries'[j] > 0,
         \A r \in Request : \/ request'[r] = request[r] \/ request'[r].pc = "done"
                            \/ /\ request'[r].id \in Job /\ row[request'[r].id] # "none"
                               /\ request'[r].pc = "requeue" => retries'[request'[r].id] > 0
  PROVE  BornInv' /\ ReloadInv' /\ RequestInv' /\ RetryInv'
<1>0. BornInv /\ ReloadInv /\ RequestInv /\ RetryInv /\ reload \in Seq(Job)
      /\ \A i \in 1..Len(reload) : reload[i] \in Job
  BY ElementOfSeq DEF ExecInv, ExtTypeOK
<1>1. BornInv'
  BY <1>0 DEF BornInv
<1>2. ReloadInv'
  BY <1>0 DEF ReloadInv
<1>3. RequestInv'
  BY <1>0 DEF RequestInv
<1>4. RetryInv'
  BY <1>0, QueueAssumption DEF RetryInv
<1> QED BY <1>1, <1>2, <1>3, <1>4

\* Steps of the scheduler, whoever takes them.
LEMMA OwnInv ==
  ASSUME ExecInv, OwnSteps, UNCHANGED <<reload, loading, born, retries>>,
         request' \in [Request -> RequestState],
         \A r \in Request : \/ request'[r] = request[r]
                            \/ /\ request[r].pc \in {"dequeue"} /\ request'[r].pc \in {"mark", "withdrawing"}
                               /\ request'[r].id = request[r].id
  PROVE  ExecInv'
<1>0. IInv /\ ExtTypeOK /\ RequestInv
  BY DEF ExecInv
<1>1. IInv'
  BY <1>0, OwnIsNext, StepInv
<1>2. ExtTypeOK'
  BY <1>0 DEF ExtTypeOK
<1>3. BornInv' /\ ReloadInv' /\ RequestInv' /\ RetryInv'
  <2>1. reload # <<>> => loading'
    BY DEF ExecInv, ReloadInv
  <2>2. \A r \in Request : request'[r] # request[r] =>
          request'[r].id \in Job /\ row[request'[r].id] # "none" /\ request'[r].pc # "requeue"
    BY <1>0 DEF RequestInv
  <2> QED BY <1>0, <2>1, <2>2, OwnEffect, PartsKept
<1>4. ASSUME NEW j \in Job \ Unreliable PROVE Safe(j)'
  <2>1. Safe(j) /\ (Reloaded(j) => Reloaded(j)')
    BY StrandedEach DEF ExecInv, Reloaded
  <2>2. Retried(j) => Retried(j)'
    BY DEF Retried
  <2> QED BY <1>0, <2>1, <2>2, OwnSafe
<1>5. NothingStranded'
  BY <1>4 DEF NothingStranded, Safe
<1> QED BY <1>1, <1>2, <1>3, <1>5 DEF ExecInv

-----------------------------------------------------------------------------
(* The requests' steps.                                                    *)

\* Requests that read, wait or write a row leave everything else as it is.
LEMMA QuietInv ==
  ASSUME ExecInv, UNCHANGED <<schedVars, reload, born>>,
         loading' \in BOOLEAN, reload # <<>> => loading',
         row' \in [Job -> RowStatus], retries' \in [Job -> Nat],
         request' \in [Request -> RequestState],
         \A j \in Job : row[j] # "none" <=> row'[j] # "none",
         \A j \in Job : retries[j] > 0 => retries'[j] > 0,
         \A r \in Request : \/ request'[r] = request[r] \/ request'[r].pc = "done"
                            \/ /\ request'[r].id \in Job /\ row[request'[r].id] # "none"
                               /\ request'[r].pc = "requeue" => retries'[request'[r].id] > 0,
         \A r \in Request : request[r].pc = "requeue" => request'[r] = request[r],
         \A j \in Job : row'[j] # row[j] =>
            row'[j] # "running" /\ (row'[j] = "pending" => Retried(j)')
  PROVE  ExecInv'
<1>0. IInv /\ ExtTypeOK
  BY DEF ExecInv
<1>1. IInv' /\ UNCHANGED <<queue, pc, cancelPc, worker, stopping, durable>>
  BY <1>0, RowOnlyInv DEF schedVars
<1>2. ExtTypeOK'
  BY <1>0 DEF ExtTypeOK
<1>3. BornInv' /\ ReloadInv' /\ RequestInv' /\ RetryInv'
  BY <1>1, PartsKept
<1>4. ASSUME NEW j \in Job \ Unreliable PROVE Safe(j)'
  <2>1. Safe(j) /\ (Reloaded(j) => Reloaded(j)') /\ (Retried(j) => Retried(j)')
    BY StrandedEach DEF ExecInv, Reloaded, Retried
  <2>2. (\A t \in Task : Cares(t) => Cares(t)') /\ \A w \in Worker : Executes(w, j) => Executes(w, j)'
    BY <1>1 DEF Cares, Executes
  <2>3. CASE row'[j] = row[j]
    BY <1>1, <2>1, <2>2, <2>3, StillSafe
  <2>4. CASE row'[j] # row[j]
    BY <2>4 DEF Safe, Carried, Retried
  <2> QED BY <2>3, <2>4
<1>5. NothingStranded'
  BY <1>4 DEF NothingStranded, Safe
<1> QED BY <1>1, <1>2, <1>3, <1>5 DEF ExecInv

\* The read finds a row, in the state its handler asks for.
LEMMA ReadRowInv == ASSUME ExecInv, NEW r \in Request, NEW j \in Job, ReadRow(r, j) PROVE ExecInv'
<1>0. /\ UNCHANGED <<vars, reload, loading, born, retries>> /\ row[j] # "none"
      /\ request[r].pc = "idle"
      /\ \E p \in {"dequeue", "mark", "reset", "delete"} :
           request' = [request EXCEPT ![r] = [pc |-> p, id |-> j]]
  BY DEF ReadRow, At
<1>1. PICK p \in {"dequeue", "mark", "reset", "delete"} :
        request' = [request EXCEPT ![r] = [pc |-> p, id |-> j]]
  BY <1>0
<1>2. [pc |-> p, id |-> j] \in RequestState
  BY DEF RequestState, RequestPc
<1>3. /\ request' \in [Request -> RequestState] /\ request'[r] = [pc |-> p, id |-> j]
      /\ \A q \in Request \ {r} : request'[q] = request[q]
  BY <1>1, <1>2 DEF ExecInv, ExtTypeOK
<1>4. UNCHANGED <<schedVars, row, reload, loading, born, retries>>
  BY <1>0 DEF vars, schedVars, objVars
<1>5. /\ row' \in [Job -> RowStatus] /\ retries' \in [Job -> Nat] /\ loading' \in BOOLEAN
      /\ reload # <<>> => loading'
  BY <1>4 DEF ExecInv, ExtTypeOK, ReloadInv, IInv, TypeOK
<1>6. \A q \in Request : \/ request'[q] = request[q]
                         \/ /\ request'[q].id \in Job /\ row[request'[q].id] # "none"
                            /\ request'[q].pc # "requeue" /\ request[q].pc # "requeue"
  BY <1>0, <1>3
<1> QED BY <1>3, <1>4, <1>5, <1>6, QuietInv

\* CancelTaskByID is the scheduler's; without an object in the list nothing happens.
LEMMA DequeueInv == ASSUME ExecInv, NEW r \in Request, Dequeue(r) \/ Withdrawn(r) PROVE ExecInv'
<1>0. ExtTypeOK /\ RequestInv
  BY DEF ExecInv
<1>1. /\ UNCHANGED <<reload, loading, born, retries>>
      /\ request[r].pc \in {"dequeue", "withdrawing"}
      /\ Goto(r, "withdrawing") \/ Goto(r, "mark")
      /\ request[r].id \in Job /\ row[request[r].id] # "none"
  BY <1>0 DEF Dequeue, Withdrawn, At, RequestInv
<1>2. /\ request' \in [Request -> RequestState]
      /\ request'[r].pc \in {"withdrawing", "mark"} /\ request'[r].id = request[r].id
      /\ \A q \in Request \ {r} : request'[q] = request[q]
  BY <1>0, <1>1, RequestGoes DEF RequestPc
<1>3. CASE Dequeue(r) /\ CancelTaskByID(request[r].id)
  <2>1. OwnSteps /\ request[r].pc = "dequeue"
    BY <1>1, <1>3 DEF OwnSteps, Dequeue, At
  <2> QED BY <1>1, <1>2, <2>1, OwnInv
<1>4. CASE UNCHANGED vars
  <2>1. UNCHANGED <<schedVars, row>>
    BY <1>4 DEF vars, schedVars, objVars
  <2>2. /\ row' \in [Job -> RowStatus] /\ retries' \in [Job -> Nat] /\ loading' \in BOOLEAN
        /\ reload # <<>> => loading'
    BY <1>1, <2>1 DEF ExecInv, ExtTypeOK, ReloadInv, IInv, TypeOK
  <2>3. \A q \in Request : \/ request'[q] = request[q]
                           \/ /\ request'[q].id \in Job /\ row[request'[q].id] # "none"
                              /\ request'[q].pc # "requeue" /\ request[q].pc # "requeue"
    BY <1>1, <1>2
  <2> QED BY <1>1, <1>2, <2>1, <2>2, <2>3, QuietInv
<1> QED BY <1>3, <1>4 DEF Dequeue, Withdrawn

\* Writing a verdict over a row, deleting it, or resetting it for a retry.
LEMMA RowStepsInv ==
  ASSUME ExecInv, NEW r \in Request, MarkCanceled(r) \/ ResetRow(r) \/ DeleteRow(r)
  PROVE  ExecInv'
<1> DEFINE j == request[r].id
<1>0. ExtTypeOK /\ RequestInv /\ IInv /\ TypeOK /\ reload = <<>> /\ j \in Job /\ row[j] # "none"
      /\ request[r].pc \in {"mark", "reset", "delete"}
  BY DEF ExecInv, IInv, MarkCanceled, ResetRow, DeleteRow, At, RequestInv, ReloadInv
<1>1. /\ UNCHANGED <<schedVars, reload, loading, born>>
      /\ \/ /\ row' \in {row, [row EXCEPT ![j] = "canceled"], [row EXCEPT ![j] = "deleted"]}
            /\ retries' = retries /\ Goto(r, "done")
         \/ /\ row' = [row EXCEPT ![j] = "pending"] /\ retries' = [retries EXCEPT ![j] = @ + 1]
            /\ Goto(r, "requeue")
  BY DEF MarkCanceled, ResetRow, DeleteRow
<1>2. /\ request' \in [Request -> RequestState]
      /\ \/ request'[r].pc = "done" /\ retries' = retries
         \/ /\ request'[r].pc = "requeue" /\ request'[r].id = j
            /\ retries' = [retries EXCEPT ![j] = @ + 1]
      /\ \A q \in Request \ {r} : request'[q] = request[q]
  BY <1>0, <1>1, RequestGoes DEF RequestPc
<1>3. row' \in [Job -> RowStatus] /\ \A i \in Job : row[i] # "none" <=> row'[i] # "none"
  BY <1>0, <1>1 DEF TypeOK, RowStatus, Verdict
<1>4. /\ retries' \in [Job -> Nat] /\ \A i \in Job : retries[i] > 0 => retries'[i] > 0
      /\ request'[r].pc = "requeue" => retries'[j] > 0
  <2>1. retries \in [Job -> Nat] /\ j \in Job
    BY <1>0 DEF ExtTypeOK
  <2> HIDE DEF j
  <2>2. CASE retries' = retries /\ request'[r].pc = "done"
    BY <2>1, <2>2
  <2>3. CASE retries' = [retries EXCEPT ![j] = @ + 1]
    <3>1. \A i \in Job : retries'[i] = IF i = j THEN retries[i] + 1 ELSE retries[i]
      BY <2>1, <2>3
    <3>2. retries' \in [Job -> Nat]
      BY <2>1, <2>3
    <3> QED BY <2>1, <3>1, <3>2
  <2> QED BY <1>2, <2>2, <2>3
<1>5. loading' \in BOOLEAN
  BY <1>0, <1>1 DEF ExtTypeOK
<1>6. \A q \in Request : \/ request'[q] = request[q] \/ request'[q].pc = "done"
                         \/ /\ request'[q].id \in Job /\ row[request'[q].id] # "none"
                            /\ request'[q].pc = "requeue" => retries'[request'[q].id] > 0
  BY <1>0, <1>2, <1>4
<1>7. \A q \in Request : request[q].pc = "requeue" => request'[q] = request[q]
  BY <1>0, <1>2
<1>8. ASSUME NEW i \in Job, row'[i] # row[i]
      PROVE  row'[i] # "running" /\ (row'[i] = "pending" => Retried(i)')
  <2>1. i = j /\ row'[i] \in {"canceled", "deleted", "pending"}
    BY <1>0, <1>1, <1>8 DEF TypeOK
  <2>2. row'[i] = "pending" => Goto(r, "requeue")
    BY <1>0, <1>1, <1>8, <2>1 DEF TypeOK
  <2>3. row'[i] = "pending" => request'[r].pc = "requeue" /\ request'[r].id = i
    BY <1>0, <2>1, <2>2, RequestGoes DEF RequestPc
  <2> QED BY <2>1, <2>3 DEF Retried
<1> HIDE DEF j
<1> QED BY <1>0, <1>1, <1>2, <1>3, <1>4, <1>5, <1>6, <1>7, <1>8, QuietInv

-----------------------------------------------------------------------------
(* New objects.                                                            *)

\* CHOOSE finds an unused object if there is one.
LEMMA NewObjectProperties ==
  ASSUME NEW j, Unused(j) # {}
  PROVE  NewObject(j) \in Task /\ IdOf[NewObject(j)] = j /\ pc[NewObject(j)] = "none"
<1>1. NewObject(j) \in Unused(j)
  BY DEF NewObject
<1> QED BY <1>1 DEF Unused

\* One object comes into use and no row changes: who had a row in hand still has.
LEMMA NewObjectSafe ==
  ASSUME NEW t \in Task, UNCHANGED <<queue, cancelPc, worker, row>>, stopping' = stopping,
         durable' = durable,
         pc[t] = "none", \A u \in Task \ {t} : pc'[u] = pc[u],
         NEW j, Safe(j),
         Reloaded(j) => Reloaded(j)' \/ (IdOf[t] = j /\ (~stopping => pc'[t] = "pushing")),
         Retried(j) => Retried(j)' \/ (IdOf[t] = j /\ (~stopping => pc'[t] = "pushing"))
  PROVE  Safe(j)'
<1>1. \A u \in Task : Cares(u) => Cares(u)'
  BY DEF Cares
<1>2. \A w \in Worker : Executes(w, j) => Executes(w, j)'
  BY DEF Executes
<1>3. CASE (Reloaded(j) => Reloaded(j)') /\ (Retried(j) => Retried(j)')
  BY <1>1, <1>2, <1>3, StillSafe
<1>4. CASE IdOf[t] = j /\ (~stopping => pc'[t] = "pushing")
  <2>1. ~stopping' => Carried(j)'
    BY <1>4 DEF Carried
  <2>2. ExecutedNow(j) => ExecutedNow(j)'
    BY DEF ExecutedNow
  <2> QED BY <2>1, <2>2 DEF Safe
<1> QED BY <1>3, <1>4

\* A submission takes a fresh ID.
LEMMA SubmitNewInv == ASSUME ExecInv, NEW j \in Job, SubmitNew(j) PROVE ExecInv'
<1> DEFINE t == NewObject(j)
<1>0. IInv /\ ExtTypeOK /\ BornInv /\ ReloadInv /\ RequestInv /\ RetryInv /\ TypeOK
  BY DEF ExecInv, IInv
<1>1. /\ t \in Task /\ IdOf[t] = j /\ pc[t] = "none" /\ Submit(t) /\ ~loading
      /\ UNCHANGED <<reload, loading, retries, request>>
  BY NewObjectProperties DEF SubmitNew
<1> HIDE DEF t
<1>2. IInv'
  <2>1. [Next]_vars
    BY <1>1 DEF Next
  <2> QED BY <1>0, <2>1, StepInv
<1>3. /\ UNCHANGED <<queue, cancelPc, worker, row, durable>> /\ stopping' = stopping
      /\ pc'[t] # "none" /\ \A u \in Task \ {t} : pc'[u] = pc[u]
      /\ \A u \in Task : IdOf[u] = j => pc[u] = "none"
  BY <1>0, <1>1 DEF Submit, SubmitRefused, SubmitAccepted, Fresh, TypeOK
<1>4. /\ born' \in [Job -> Nat] /\ born'[j] > 0 /\ \A i \in Job \ {j} : born'[i] = born[i]
  <2>1. Cardinality({i \in Job : born[i] > 0}) \in Nat
    BY <1>0, FS_CardinalityType DEF BornInv
  <2>2. born' = [born EXCEPT ![j] = 1 + Cardinality({i \in Job : born[i] > 0})]
    BY DEF SubmitNew
  <2> QED BY <1>0, <2>1, <2>2 DEF ExtTypeOK
<1>5. BornInv'
  <2>1. {i \in Job : born'[i] > 0} = {i \in Job : born[i] > 0} \cup {j}
    BY <1>0, <1>4 DEF ExtTypeOK
  <2>2. IsFiniteSet({i \in Job : born'[i] > 0})
    BY <1>0, <2>1, FS_AddElement DEF BornInv
  <2>3. ASSUME NEW u \in Task, pc'[u] # "none" PROVE born'[IdOf[u]] > 0
    BY <1>0, <1>1, <1>3, <1>4, <2>3, QueueAssumption DEF BornInv
  <2>4. ASSUME NEW i \in Job, row'[i] # "none" PROVE born'[i] > 0 /\ \E u \in Task : IdOf[u] = i
    BY <1>0, <1>3, <1>4, <2>4 DEF BornInv
  <2> QED BY <2>2, <2>3, <2>4 DEF BornInv
<1>6. ReloadInv' /\ reload' = <<>>
  BY <1>0, <1>1, EmptySeq DEF ReloadInv
<1>7. RequestInv'
  BY <1>0, <1>1, <1>3 DEF RequestInv
<1>8. RetryInv'
  BY <1>0, <1>1, <1>3 DEF RetryInv
<1>9. ExtTypeOK'
  BY <1>0, <1>1, <1>4 DEF ExtTypeOK
<1>10. ASSUME NEW i \in Job \ Unreliable PROVE Safe(i)'
  <2>1. Safe(i) /\ (Reloaded(i) => Reloaded(i)') /\ (Retried(i) => Retried(i)')
    BY <1>1, StrandedEach DEF ExecInv, Reloaded, Retried
  <2> QED BY <1>1, <1>3, <2>1, NewObjectSafe
<1>11. NothingStranded'
  BY <1>10 DEF NothingStranded, Safe
<1> QED BY <1>2, <1>5, <1>6, <1>7, <1>8, <1>9, <1>11 DEF ExecInv

\* A retry may use a second object, and has been counted by then.
LEMMA RetryTaskByIDInv == ASSUME ExecInv, NEW r \in Request, RetryTaskByID(r) PROVE ExecInv'
<1> DEFINE j == request[r].id
           t == NewObject(j)
<1>0. IInv /\ ExtTypeOK /\ BornInv /\ ReloadInv /\ RequestInv /\ RetryInv
  BY DEF ExecInv
<1>1. /\ t \in Task /\ IdOf[t] = j /\ Requeue(t) /\ ~loading /\ Goto(r, "done")
      /\ request[r].pc = "requeue" /\ UNCHANGED <<row, reload, loading, born, retries>>
  BY NewObjectProperties DEF RetryTaskByID, At
<1>2. j \in Job /\ row[j] # "none" /\ retries[j] > 0
  BY <1>0, <1>1 DEF RequestInv
<1> HIDE DEF t
<1>3. /\ IInv' /\ pc[t] = "none" /\ pc'[t] \in {"returned", "pushing"}
      /\ \A u \in Task \ {t} : pc'[u] = pc[u]
      /\ ~stopping => pc'[t] = "pushing"
      /\ UNCHANGED <<queue, cancelPc, worker, stopping, durable>>
  BY <1>0, <1>1, RequeueInv
<1>4. /\ request' \in [Request -> RequestState] /\ request'[r].pc = "done"
      /\ \A q \in Request \ {r} : request'[q] = request[q]
  BY <1>0, <1>1, RequestGoes DEF RequestPc
<1>5. BornInv'
  BY <1>0, <1>1, <1>2, <1>3, QueueAssumption DEF BornInv
<1>6. ReloadInv'
  BY <1>0, <1>1, EmptySeq DEF ReloadInv
<1>7. RequestInv'
  BY <1>0, <1>1, <1>4 DEF RequestInv
<1>8. RetryInv'
  BY <1>0, <1>1, <1>2, <1>3 DEF RetryInv
<1>9. ExtTypeOK'
  BY <1>0, <1>1, <1>4 DEF ExtTypeOK
<1>10. ASSUME NEW i \in Job \ Unreliable PROVE Safe(i)'
  <2>1. Safe(i) /\ (Reloaded(i) => Reloaded(i)')
    BY <1>1, StrandedEach DEF ExecInv, Reloaded
  <2>2. Retried(i) => Retried(i)' \/ IdOf[t] = i
    BY <1>1, <1>4 DEF Retried
  <2> QED BY <1>1, <1>3, <2>1, <2>2, NewObjectSafe
<1>11. NothingStranded'
  BY <1>10 DEF NothingStranded, Safe
<1> QED BY <1>3, <1>5, <1>6, <1>7, <1>8, <1>9, <1>11 DEF ExecInv

\* What is left of the reload once its first row is taken.
LEMMA ReloadTail ==
  ASSUME ExtTypeOK, ReloadInv, reload # <<>>, reload' = Tail(reload)
  PROVE  /\ Head(reload) \in Job /\ row[Head(reload)] # "none" /\ loading /\ reload' \in Seq(Job)
         /\ \A t \in Task : IdOf[t] = Head(reload) => pc[t] = "none"
         /\ \A i \in 1..Len(reload') : \E k \in 1..Len(reload) :
              reload'[i] = reload[k] /\ reload'[i] # Head(reload)
         /\ \A i, k \in 1..Len(reload') : reload'[i] = reload'[k] => i = k
         /\ \A j : Reloaded(j) => Reloaded(j)' \/ j = Head(reload)
<1>1. /\ reload \in Seq(Job) /\ Len(reload) \in Nat \ {0} /\ Head(reload) = reload[1]
      /\ Head(reload) \in Job /\ reload' \in Seq(Job) /\ Len(reload') = Len(reload) - 1
      /\ \A i \in 1..Len(reload') : reload'[i] = reload[i + 1]
  BY EmptySeq, HeadTailProperties DEF ExtTypeOK
<1>2. /\ row[reload[1]] # "none" /\ loading
      /\ \A t \in Task : IdOf[t] = reload[1] => pc[t] = "none"
  BY <1>1 DEF ReloadInv
<1>3. ASSUME NEW i \in 1..Len(reload')
      PROVE  i + 1 \in 1..Len(reload) /\ reload'[i] = reload[i + 1] /\ reload[i + 1] # reload[1]
  BY <1>1 DEF ReloadInv
<1>4. ASSUME NEW j, Reloaded(j), j # Head(reload) PROVE Reloaded(j)'
  <2>1. PICK i \in 1..Len(reload) : reload[i] = j
    BY <1>4 DEF Reloaded
  <2>2. i - 1 \in 1..Len(reload') /\ reload'[i - 1] = reload[(i - 1) + 1] /\ (i - 1) + 1 = i
    BY <1>1, <1>4, <2>1
  <2> QED BY <2>1, <2>2 DEF Reloaded
<1>5. \A i, k \in 1..Len(reload') : reload'[i] = reload'[k] => i = k
  <2> SUFFICES ASSUME NEW i \in 1..Len(reload'), NEW k \in 1..Len(reload'), reload'[i] = reload'[k]
               PROVE  i = k
    OBVIOUS
  <2>1. i + 1 = k + 1
    BY <1>3 DEF ReloadInv
  <2> QED BY <1>1, <2>1
<1> QED BY <1>1, <1>2, <1>3, <1>4, <1>5

\* A row is reloaded with the first object its ID has in this process.
LEMMA ReloadRowInv == ASSUME ExecInv, ReloadRow PROVE ExecInv'
<1> DEFINE j == Head(reload)
           t == NewObject(j)
<1>0. IInv /\ ExtTypeOK /\ BornInv /\ ReloadInv /\ RequestInv /\ RetryInv
  BY DEF ExecInv
<1>1. /\ Requeue(t) /\ reload # <<>> /\ reload' = Tail(reload)
      /\ UNCHANGED <<row, loading, born, retries, request>>
  BY DEF ReloadRow
<1>2. /\ j \in Job /\ row[j] # "none" /\ loading /\ reload' \in Seq(Job)
      /\ \A u \in Task : IdOf[u] = j => pc[u] = "none"
      /\ \A i \in 1..Len(reload') : \E k \in 1..Len(reload) :
           reload'[i] = reload[k] /\ reload'[i] # j
      /\ \A i, k \in 1..Len(reload') : reload'[i] = reload'[k] => i = k
      /\ \A i : Reloaded(i) => Reloaded(i)' \/ i = j
  BY <1>0, <1>1, ReloadTail
<1>3. t \in Task /\ IdOf[t] = j /\ pc[t] = "none"
  <2>1. Unused(j) # {}
    BY <1>0, <1>2 DEF BornInv, Unused
  <2> QED BY <2>1, NewObjectProperties
<1> HIDE DEF t, j
<1>4. /\ IInv' /\ pc'[t] \in {"returned", "pushing"}
      /\ \A u \in Task \ {t} : pc'[u] = pc[u]
      /\ ~stopping => pc'[t] = "pushing"
      /\ UNCHANGED <<queue, cancelPc, worker, stopping, durable>>
  BY <1>0, <1>1, <1>3, RequeueInv
<1>5. BornInv'
  BY <1>0, <1>1, <1>2, <1>3, <1>4, QueueAssumption DEF BornInv
<1>6. ReloadInv'
  <2>1. ASSUME NEW i \in 1..Len(reload')
        PROVE  row'[reload'[i]] # "none" /\ \A u \in Task : IdOf[u] = reload'[i] => pc'[u] = "none"
    BY <1>0, <1>1, <1>2, <1>3, <1>4 DEF ReloadInv
  <2> QED BY <1>1, <1>2, <2>1 DEF ReloadInv
<1>7. RequestInv'
  BY <1>0, <1>1 DEF RequestInv
<1>8. RetryInv'
  BY <1>0, <1>1, <1>2, <1>3, <1>4 DEF RetryInv
<1>9. ExtTypeOK'
  BY <1>0, <1>1, <1>2 DEF ExtTypeOK
<1>10. ASSUME NEW i \in Job \ Unreliable PROVE Safe(i)'
  <2>1. Safe(i) /\ (Retried(i) => Retried(i)')
    BY <1>1, StrandedEach DEF ExecInv, Retried
  <2> QED BY <1>1, <1>2, <1>3, <1>4, <2>1, NewObjectSafe
<1>11. NothingStranded'
  BY <1>10 DEF NothingStranded, Safe
<1> QED BY <1>4, <1>5, <1>6, <1>7, <1>8, <1>9, <1>11 DEF ExecInv

\* A row that cannot be read is failed, and the rest of the list stays.
LEMMA ReloadUnreadableInv == ASSUME ExecInv, ReloadUnreadable PROVE ExecInv'
<1> DEFINE j == Head(reload)
<1>0. IInv /\ TypeOK /\ ExtTypeOK /\ BornInv /\ ReloadInv /\ RequestInv /\ RetryInv
  BY DEF ExecInv, IInv
<1>1. /\ reload # <<>> /\ reload' = Tail(reload) /\ j \in Unreliable
      /\ row' = [row EXCEPT ![j] = "failed"]
      /\ UNCHANGED <<schedVars, loading, born, retries, request>>
      /\ UNCHANGED <<queue, pc, cancelPc, worker, stopping, durable>>
  BY DEF ReloadUnreadable, schedVars
<1>2. /\ j \in Job /\ row[j] # "none" /\ loading /\ reload' \in Seq(Job)
      /\ \A i \in 1..Len(reload') : \E k \in 1..Len(reload) :
           reload'[i] = reload[k] /\ reload'[i] # j
      /\ \A i, k \in 1..Len(reload') : reload'[i] = reload'[k] => i = k
      /\ \A i : Reloaded(i) => Reloaded(i)' \/ i = j
  BY <1>0, <1>1, ReloadTail
<1> HIDE DEF j
<1>3. /\ row' \in [Job -> RowStatus] /\ \A i \in Job \ {j} : row'[i] = row[i]
      /\ \A i \in Job : row'[i] # "none" <=> row[i] # "none"
  <2>1. "failed" \in RowStatus /\ row \in [Job -> RowStatus]
    BY <1>0 DEF TypeOK, RowStatus, Verdict
  <2>2. \A i \in Job : row'[i] = IF i = j THEN "failed" ELSE row[i]
    BY <1>1, <2>1
  <2>3. row' \in [Job -> RowStatus]
    BY <1>1, <2>1
  <2> QED BY <1>2, <2>2, <2>3
<1>4. IInv'
  BY <1>0, <1>1, <1>3, RowOnlyInv
<1>5. BornInv'
  BY <1>0, <1>1, <1>3 DEF BornInv
<1>6. ReloadInv'
  <2>1. ASSUME NEW i \in 1..Len(reload')
        PROVE  row'[reload'[i]] # "none" /\ \A u \in Task : IdOf[u] = reload'[i] => pc'[u] = "none"
    <3>1. PICK k \in 1..Len(reload) : reload'[i] = reload[k]
      BY <1>2
    <3>2. reload[k] \in Job
      BY <1>0, ElementOfSeq DEF ExtTypeOK
    <3> QED BY <1>0, <1>1, <1>3, <3>1, <3>2 DEF ReloadInv
  <2> QED BY <1>1, <1>2, <2>1 DEF ReloadInv
<1>7. RequestInv'
  BY <1>0, <1>1, <1>3 DEF RequestInv
<1>8. RetryInv'
  BY <1>0, <1>1 DEF RetryInv
<1>9. ExtTypeOK'
  BY <1>0, <1>1, <1>2 DEF ExtTypeOK
<1>10. ASSUME NEW i \in Job \ Unreliable PROVE Safe(i)'
  <2>1. Safe(i) /\ (Reloaded(i) => Reloaded(i)') /\ (Retried(i) => Retried(i)')
    BY <1>1, <1>2, StrandedEach DEF ExecInv, Retried
  <2>2. (\A u \in Task : Cares(u) => Cares(u)') /\ \A w \in Worker : Executes(w, i) => Executes(w, i)'
    BY <1>1 DEF Cares, Executes
  <2> QED BY <1>1, <1>3, <2>1, <2>2, StillSafe
<1>11. NothingStranded'
  BY <1>10 DEF NothingStranded, Safe
<1> QED BY <1>4, <1>5, <1>6, <1>7, <1>8, <1>9, <1>11 DEF ExecInv

\* The list is at its end.
LEMMA ReloadDoneInv == ASSUME ExecInv, ReloadDone PROVE ExecInv'
<1>1. UNCHANGED <<schedVars, row, reload, born, retries, request>> /\ reload = <<>> /\ loading' = FALSE
  BY DEF ReloadDone, vars, schedVars, objVars
<1>2. row' \in [Job -> RowStatus] /\ retries' \in [Job -> Nat] /\ request' \in [Request -> RequestState]
  BY <1>1 DEF ExecInv, ExtTypeOK, IInv, TypeOK
<1> QED BY <1>1, <1>2, QuietInv

\* After a restart every row that waits, or was interrupted, is in the list -
\* unless the list could not be made, and then nobody speaks of the rows.
LEMMA RestartInv == ASSUME ExecInv, Restart PROVE ExecInv'
<1> DEFINE P == {j \in Job : row'[j] = "pending"}
<1>0. IInv /\ TypeOK /\ ExtTypeOK /\ BornInv
  BY DEF ExecInv, IInv
<1>1. IInv'
  BY <1>0, RestartIInv
<1>2. /\ UNCHANGED <<born, retries>> /\ loading' \in BOOLEAN
      /\ \A t \in Task : pc'[t] = "none"
      /\ \A r \in Request : request'[r] \in {Idle, Done}
      /\ \A j \in Job : row'[j] # "none" => row[j] # "none"
  BY <1>0 DEF Restart, Recover, InterruptedToPending
<1>3. reload' \in Seq(Job) => ExtTypeOK'
  <2>1. Idle \in RequestState /\ Done \in RequestState
    BY DEF Done, Idle, RequestState, RequestPc
  <2>2. request' \in [Request -> RequestState]
    BY <2>1 DEF Restart
  <2> QED BY <1>0, <1>2, <2>2 DEF ExtTypeOK
<1>4. BornInv' /\ RequestInv' /\ RetryInv'
  BY <1>0, <1>2 DEF BornInv, RequestInv, RetryInv, Idle, Done
<1>5. CASE reload' = <<>> /\ durable' = FALSE
  BY <1>1, <1>3, <1>4, <1>5, EmptySeq DEF ExecInv, ReloadInv, NothingStranded
<1>6. CASE /\ row' = InterruptedToPending(row) /\ reload' \in PendingRows(row')
           /\ durable' = TRUE /\ loading' = TRUE
  <2>1. IsFiniteSet(P)
    <3>1. P \in SUBSET {j \in Job : born[j] > 0}
      BY <1>0, <1>2 DEF BornInv
    <3> QED BY <1>0, <3>1, FS_Subset DEF BornInv
  <2>2. reload' \in SetToSeqs(P)
    BY <1>6 DEF PendingRows
  <2>3. /\ reload' \in Seq(P) /\ \A i, k \in 1..Len(reload') : reload'[i] = reload'[k] => i = k
        /\ \A x \in P : \E i \in 1..Len(reload') : reload'[i] = x
    <3> HIDE DEF P
    <3> QED BY <2>1, <2>2, ListOfAll
  <2>4. reload' \in Seq(Job) /\ \A i \in 1..Len(reload') : reload'[i] \in P
    BY <2>3, ElementOfSeq
  <2>5. ReloadInv'
    BY <1>2, <1>6, <2>3, <2>4 DEF ReloadInv
  <2>6. NothingStranded'
    <3>1. ASSUME NEW j \in Job, row'[j] = "pending" PROVE Carried(j)'
      BY <2>3, <3>1 DEF Carried
    <3>2. \A j \in Job : row'[j] # "running"
      BY <1>6 DEF InterruptedToPending
    <3> QED BY <3>1, <3>2 DEF NothingStranded
  <2> QED BY <1>1, <1>3, <1>4, <2>4, <2>5, <2>6 DEF ExecInv
<1> QED BY <1>5, <1>6 DEF Restart, Recover

-----------------------------------------------------------------------------
(* The theorems.                                                           *)

\* Nothing is there at first.
LEMMA ExecInitInv == ExecInit => ExecInv
<1> SUFFICES ASSUME ExecInit PROVE ExecInv
  OBVIOUS
<1>1. IInv
  BY InitInv DEF ExecInit
<1>2. ExtTypeOK
  <2>1. Idle \in RequestState /\ <<>> \in Seq(Job)
    BY EmptySeq DEF Idle, RequestState, RequestPc
  <2>2. born \in [Job -> Nat] /\ retries \in [Job -> Nat]
    BY DEF ExecInit
  <2>3. request \in [Request -> RequestState]
    BY <2>1 DEF ExecInit
  <2> QED BY <2>1, <2>2, <2>3 DEF ExecInit, ExtTypeOK
<1>3. BornInv
  <2>1. {j \in Job : born[j] > 0} = {}
    BY DEF ExecInit
  <2>2. (\A t \in Task : pc[t] = "none") /\ \A j \in Job : row[j] = "none"
    BY DEF ExecInit, Init
  <2> QED BY <2>1, <2>2, FS_EmptySet DEF BornInv
<1>4. ReloadInv
  BY EmptySeq DEF ExecInit, ReloadInv
<1>5. RequestInv
  BY DEF ExecInit, RequestInv, Idle
<1>6. RetryInv /\ NothingStranded
  BY DEF ExecInit, Init, RetryInv, NothingStranded
<1> QED BY <1>1, <1>2, <1>3, <1>4, <1>5, <1>6 DEF ExecInv

\* Every step of scheduler, process and operator keeps the invariant.
LEMMA ExecStepInv == ExecInv /\ [ExecNext]_allVars => ExecInv'
<1> SUFFICES ASSUME ExecInv, [ExecNext]_allVars PROVE ExecInv'
  OBVIOUS
<1>1. CASE Inherited
  <2>1. OwnSteps /\ UNCHANGED extVars
    BY <1>1 DEF Inherited, OwnSteps
  <2>2. request' \in [Request -> RequestState] /\ UNCHANGED <<reload, loading, born, retries, request>>
    BY <2>1 DEF extVars, ExecInv, ExtTypeOK
  <2> QED BY <2>1, <2>2, OwnInv
<1>2. ASSUME NEW r \in Request, RequestSteps(r) PROVE ExecInv'
  BY <1>2, DequeueInv, RowStepsInv, RetryTaskByIDInv DEF RequestSteps
<1>3. CASE Reloading
  BY <1>3, ReloadRowInv, ReloadUnreadableInv, ReloadDoneInv DEF Reloading
<1>4. CASE UNCHANGED allVars
  <2>1. UNCHANGED <<schedVars, row, reload, loading, born, retries, request>>
    BY <1>4 DEF allVars, extVars, vars, schedVars, objVars
  <2>2. /\ row' \in [Job -> RowStatus] /\ retries' \in [Job -> Nat] /\ loading' \in BOOLEAN
        /\ request' \in [Request -> RequestState]
        /\ reload = <<>> \/ loading' = TRUE
    BY <2>1 DEF ExecInv, ExtTypeOK, ReloadInv, IInv, TypeOK
  <2>3. /\ UNCHANGED <<schedVars, reload, born>>
        /\ \A j \in Job : row'[j] = row[j] /\ retries'[j] = retries[j]
        /\ \A r \in Request : request'[r] = request[r]
    BY <2>1
  <2>4. CASE reload = <<>>
    BY <2>2, <2>3, <2>4, QuietInv
  <2>5. CASE loading' = TRUE
    BY <2>2, <2>3, <2>5, QuietInv
  <2> QED BY <2>2, <2>4, <2>5
<1>5. CASE Restart
  BY <1>5, RestartInv
<1>6. ASSUME NEW j \in Job, SubmitNew(j) PROVE ExecInv'
  BY <1>6, SubmitNewInv
<1>7. ASSUME NEW r \in Request, NEW j \in Job, ReadRow(r, j) PROVE ExecInv'
  BY <1>7, ReadRowInv
<1> QED BY <1>1, <1>2, <1>3, <1>4, <1>5, <1>6, <1>7 DEF ExecNext

\* Every state the durable tasks can reach satisfies the inductive invariant,
\* and with it all that is proved of the scheduler from its own.
THEOREM ExecInvariance == ExecSpec => []ExecInv
BY ExecInitInv, ExecStepInv, PTL DEF ExecSpec

\* Every state is well typed: also what a restart reloads are IDs with a row.
THEOREM ExecTypeCorrect == ExecSpec => []ExecTypeOK
<1>1. ExecInv => ExecTypeOK
  BY DEF ExecInv, IInv, ExtTypeOK, ExecTypeOK, RequestState
<1> QED BY <1>1, ExecInvariance, PTL

\* Custody survives restarts, reloads, cancellations, retries and deletions.
THEOREM ExecCustodyKept == ExecSpec => []Custody
<1>1. ExecInv => Custody
  BY CustodyFromInv DEF ExecInv
<1> QED BY <1>1, ExecInvariance, PTL

\* A process that reloads, retries and deletes rows keeps what the scheduler alone
\* promises: an exact count of busy workers, a list in dispatch order, and no
\* object run twice.
THEOREM ExecKeepsScheduler == ExecSpec => [](RunningCounts /\ Sorted /\ HandlerOnce)
<1>1. ExecInv => RunningCounts /\ Sorted /\ HandlerOnce
  BY DEF ExecInv, IInv, QueueInv, InOrder, Sorted, ObjectInv, Cancelling, HandlerOnce
<1> QED BY <1>1, ExecInvariance, PTL

\* While a durable scheduler is up - whatever crashed before, and however many
\* processes before it fell back to memory because they could not read or reset
\* the rows - no reliable row is left "pending" with nobody to run or settle
\* it, or "running" with no worker that runs it.
THEOREM NoRowStranded == ExecSpec => []NothingStranded
<1>1. ExecInv => NothingStranded
  BY DEF ExecInv
<1> QED BY <1>1, ExecInvariance, PTL

\* Two handlers of one ID run at once only after an operator's retry.
THEOREM OneRunnerUnlessRetried == ExecSpec => []SingleRunner
<1>1. ExecInv => SingleRunner
  <2> SUFFICES ASSUME ExecInv, NEW v \in Worker, NEW w \in Worker, v # w,
                      worker[v].pc = "executing", worker[w].pc = "executing",
                      IdOf[worker[v].task] = IdOf[worker[w].task]
               PROVE  retries[IdOf[worker[v].task]] > 0
    BY DEF SingleRunner
  <2>0. IInv /\ RetryInv /\ worker \in [Worker -> WorkerState]
    BY WorkersTyped DEF ExecInv
  <2>1. worker[v].task \in Task /\ worker[w].task \in Task /\ worker[v].task # worker[w].task
    BY <2>0 DEF IInv, WorkerInv, WorkerState, Holding
  <2>2. pc[worker[v].task] # "none" /\ pc[worker[w].task] # "none"
    BY <2>0, <2>1, Submitted
  <2> QED BY <2>0, <2>1, <2>2 DEF RetryInv
<1> QED BY <1>1, ExecInvariance, PTL

-----------------------------------------------------------------------------
(* Sleepers and waiting tasks, with restarts and requests.                 *)

\* A requeued object owes its Signal only once it is pushed.
LEMMA RequeueWakes ==
  ASSUME IInv, WakeInv, NEW t \in Task, Requeue(t), row' = row
  PROVE  WakeInv'
<1>1. /\ pc[t] = "none" /\ pc'[t] \in {"returned", "pushing"}
      /\ \A u \in Task \ {t} : pc'[u] = pc[u]
  BY RequeueInv
<1>2. SignalDue' = SignalDue
  BY <1>1 DEF SignalDue
<1>3. UNCHANGED <<queue, stopPc, worker>>
  BY DEF Requeue
<1> QED BY <1>2, <1>3, WakeUntouched

\* The steps of other parts leave the balance alone, or are pkg/task's own.
LEMMA ExecWakeStep == ExecInv /\ ExecInv' /\ WakeInv /\ [ExecNext]_allVars => WakeInv'
<1> SUFFICES ASSUME ExecInv, ExecInv', WakeInv, [ExecNext]_allVars PROVE WakeInv'
  OBVIOUS
<1>0. IInv /\ IInv' /\ ExtTypeOK /\ BornInv /\ ReloadInv /\ RequestInv
  BY DEF ExecInv
<1>1. ASSUME [Next]_vars PROVE WakeInv'
  BY <1>0, <1>1, WakeInductive
<1>2. ASSUME UNCHANGED schedVars PROVE WakeInv'
  BY <1>2, WakeUntouched DEF schedVars, SignalDue
<1>3. ASSUME NEW j \in Job, SubmitNew(j) PROVE WakeInv'
  <2>1. NewObject(j) \in Task /\ Submit(NewObject(j))
    BY <1>3, NewObjectProperties DEF SubmitNew
  <2> QED BY <1>1, <2>1 DEF Next
<1>4. CASE Inherited
  BY <1>1, <1>4 DEF Inherited, Next
<1>5. ASSUME NEW r \in Request, NEW j \in Job, ReadRow(r, j) PROVE WakeInv'
  BY <1>2, <1>5 DEF ReadRow, vars, schedVars
<1>6. ASSUME NEW r \in Request, Dequeue(r) PROVE WakeInv'
  <2>1. CASE UNCHANGED vars
    BY <1>1, <2>1
  <2>2. CASE CancelTaskByID(request[r].id)
    <3>1. request[r].id \in Job
      BY <1>0, <1>6 DEF RequestInv, Dequeue, At
    <3> QED BY <1>1, <2>2, <3>1 DEF Next
  <2> QED BY <1>6, <2>1, <2>2 DEF Dequeue
<1>7. ASSUME NEW r \in Request, Withdrawn(r) \/ MarkCanceled(r) \/ ResetRow(r) \/ DeleteRow(r)
      PROVE  WakeInv'
  BY <1>2, <1>7 DEF Withdrawn, MarkCanceled, ResetRow, DeleteRow, vars, schedVars
<1>8. ASSUME NEW r \in Request, RetryTaskByID(r) PROVE WakeInv'
  BY <1>0, <1>8, NewObjectProperties, RequeueWakes DEF RetryTaskByID
<1>9. CASE ReloadRow
  <2>1. /\ Head(reload) \in Job /\ row[Head(reload)] # "none"
        /\ \A t \in Task : IdOf[t] = Head(reload) => pc[t] = "none"
    BY <1>0, <1>9, ReloadTail DEF ReloadRow
  <2>2. Unused(Head(reload)) # {}
    BY <1>0, <2>1 DEF BornInv, Unused
  <2> QED BY <1>0, <1>9, <2>2, NewObjectProperties, RequeueWakes DEF ReloadRow
<1>10. CASE ReloadUnreadable \/ ReloadDone
  BY <1>2, <1>10 DEF ReloadUnreadable, ReloadDone, vars, schedVars
<1>11. CASE Restart
  <2>1. SignalDue' = {} /\ Asleep' = {} /\ stopPc' = "none"
    BY <1>11 DEF Restart, SignalDue, Asleep, Free
  <2> QED BY <2>1, FS_EmptySet DEF WakeInv, NoLostWakeup
<1>12. CASE UNCHANGED allVars
  BY <1>2, <1>12 DEF allVars, vars, schedVars
<1> QED BY <1>3, <1>4, <1>5, <1>6, <1>7, <1>8, <1>9, <1>10, <1>11, <1>12
        DEF ExecNext, RequestSteps, Reloading

\* Nor is a wakeup lost while rows are reloaded, withdrawn and retried around
\* the workers, in this process or the next.
THEOREM ExecNoWakeupIsLost == ExecSpec => []NoLostWakeup
<1>1. ExecInit => WakeInv
  BY WakeInit DEF ExecInit
<1>2. WakeInv => NoLostWakeup
  BY DEF WakeInv
<1> QED BY <1>1, <1>2, ExecInvariance, ExecWakeStep, PTL DEF ExecSpec
=============================================================================

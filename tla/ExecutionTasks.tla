---------------------------- MODULE ExecutionTasks ----------------------------
(***************************************************************************)
(* The durable scheduler (pkg/task/persist.go, execution_task.go) with the *)
(* two things that act on its rows from outside: the process restart that  *)
(* reloads them, and the operator's requests that cancel, retry and delete *)
(* them (internal/handlers/execution_tasks.go, RetryTaskByID of the        *)
(* workers).  A request reads the row once and acts on what it saw.        *)
(***************************************************************************)
EXTENDS TaskScheduler

CONSTANTS Request,      \* operator requests, each a goroutine of its own
          Managed,      \* bound: the IDs the requests are about
          MaxRetries    \* the row's max_retries

ASSUME ExecutionAssumption == Managed \subseteq Job /\ MaxRetries \in Nat

VARIABLES
  reload,    \* recoverPending: the IDs it has still to requeue
  loading,   \* NewPersistentScheduler has not returned yet
  born,      \* the rows' submit_time, as a rank
  retries,   \* the rows' retry_count
  request    \* what each operator request is doing, and to which ID

extVars == <<reload, loading, born, retries, request>>
allVars == <<vars, extVars>>

Idle == [pc |-> "idle", id |-> "none"]
Done == [Idle EXCEPT !.pc = "done"]
RequestPc == {"idle", "dequeue", "withdrawing", "mark", "reset", "requeue", "delete", "done"}
Finished == Verdict

ExecTypeOK ==
  /\ TypeOK
  /\ reload \in Seq(Job) /\ loading \in BOOLEAN
  /\ born \in [Job -> Nat] /\ retries \in [Job -> Nat]
  /\ request \in [Request -> [pc : RequestPc, id : Job \cup {"none"}]]

ExecInit ==
  /\ Init
  /\ reload = <<>> /\ loading = FALSE
  /\ born = [j \in Job |-> 0]
  /\ retries = [j \in Job |-> 0]
  /\ request = [r \in Request |-> Idle]

\* Objects are allocated one after the other; which one is of no consequence.
Unused(j) == {t \in Task : IdOf[t] = j /\ pc[t] = "none"}
NewObject(j) == CHOOSE t \in Unused(j) : TRUE

-----------------------------------------------------------------------------
(* Restart: the process dies - by a crash or after Stop - and starts again.*)

\* ORDER BY priority DESC, submit_time ASC; the row has its object's priority.
RowPrio(j) == Prio[CHOOSE t \in Task : IdOf[t] = j]
ByDispatchOrder(i, j) == RowPrio(i) > RowPrio(j) \/ (RowPrio(i) = RowPrio(j) /\ born[i] <= born[j])

InterruptedToPending(r) == [j \in Job |-> IF r[j] = "running" THEN "pending" ELSE r[j]]

\* The orders the query may return the pending rows in.
PendingRows(r) == {s \in SetToSeqs({j \in Job : r[j] = "pending"}) :
                     \A i, k \in 1..Len(s) : i < k => ByDispatchOrder(s[i], s[k])}

\* A slip: the reset goes wrong and the constructor goes on.
RecoverRegardless ==
  /\ row' \in {row, InterruptedToPending(row)}
  /\ reload' \in PendingRows(row')
  /\ durable' = TRUE /\ loading' = TRUE

\* recoverPending.  When it cannot reset the rows, or reset but not list them,
\* there is no durable scheduler: the worker goes on with one in memory, which
\* neither knows the rows nor writes them.
Recover ==
  \/ /\ row' = InterruptedToPending(row)
     /\ reload' \in PendingRows(row')
     /\ durable' = TRUE /\ loading' = TRUE
  \/ /\ row' \in {row, InterruptedToPending(row)}
     /\ reload' = <<>>
     /\ durable' = FALSE /\ loading' = FALSE

(* Nothing of the old process is left, so its objects may be used anew.    *)
Restart ==
  /\ Recover
  /\ queue' = <<>>
  /\ status' = [t \in Task |-> "absent"]
  /\ settled' = {} /\ ended' = {}
  /\ invoked' = [t \in Task |-> 0]
  /\ pc' = [t \in Task |-> "none"]
  /\ cancelPc' = [t \in Task |-> "none"]
  /\ worker' = [w \in Worker |-> Free("looking")]
  /\ running' = 0
  /\ stopping' = FALSE /\ stopPc' = "none"
  /\ request' = [r \in Request |-> IF request[r].pc = "idle" THEN Idle ELSE Done]
  /\ UNCHANGED <<born, retries>>

\* The rows are requeued one by one, while the workers run already.
NotPushing == \A t \in Task : pc[t] \notin {"pushing", "pushed"}

\* A slip: the list is not advanced past the row just requeued.
ReloadTwice ==
  /\ loading /\ reload # <<>> /\ NotPushing
  /\ Unused(Head(reload)) # {}
  /\ reload' = IF \E t \in Task : IdOf[t] = Head(reload) /\ InList(t) THEN Tail(reload) ELSE reload
  /\ Requeue(NewObject(Head(reload)))
  /\ UNCHANGED <<row, loading, born, retries, request>>

ReloadRow ==
  /\ loading /\ reload # <<>> /\ NotPushing
  /\ reload' = Tail(reload)
  /\ Requeue(NewObject(Head(reload)))
  /\ UNCHANGED <<row, loading, born, retries, request>>

\* Parameters that cannot be decoded fail the row.
ReloadUnreadable ==
  /\ loading /\ reload # <<>> /\ NotPushing
  /\ Head(reload) \in Unreliable
  /\ reload' = Tail(reload)
  /\ row' = [row EXCEPT ![Head(reload)] = "failed"]
  /\ UNCHANGED <<queue, objVars, pc, cancelPc, worker, running, stopping, stopPc,
                 durable, loading, born, retries, request>>

ReloadDone ==
  /\ loading /\ reload = <<>> /\ NotPushing
  /\ loading' = FALSE
  /\ UNCHANGED <<vars, reload, born, retries, request>>

-----------------------------------------------------------------------------
(* Operator requests.                                                      *)

At(r, p) == ~loading /\ request[r].pc = p
Goto(r, p) == request' = [request EXCEPT ![r] = IF p = "done" THEN Done ELSE [@ EXCEPT !.pc = p]]
schedVars == <<queue, objVars, pc, cancelPc, worker, running, stopping, stopPc, durable>>

\* Bound: a retry is only asked for while an object is left for it.
Spare(j) == Cardinality(Unused(j)) >
              Cardinality({r \in Request : request[r].id = j /\ request[r].pc \in {"reset", "requeue"}})

\* The read and the checks each handler makes on what it read.
ReadRow(r, j) ==
  /\ At(r, "idle") /\ j \in Managed
  /\ row[j] \notin {"none", "deleted"}
  /\ \E next \in {"dequeue", "mark", "reset", "delete"} :
       /\ next = "dequeue" => row[j] = "pending"
       /\ next = "mark" => row[j] = "running"
       /\ next = "reset" => row[j] \in {"failed", "canceled"} /\ retries[j] < MaxRetries /\ Spare(j)
       /\ next = "delete" => row[j] # "running"
       /\ request' = [request EXCEPT ![r] = [pc |-> next, id |-> j]]
  /\ UNCHANGED <<vars, reload, loading, born, retries>>

\* cancelExecutionTask of a pending row calls CancelTaskByID...
Dequeue(r) ==
  /\ At(r, "dequeue")
  /\ IF Positions(queue, request[r].id) # {}
     THEN CancelTaskByID(request[r].id) /\ Goto(r, "withdrawing")
     ELSE UNCHANGED vars /\ Goto(r, "mark")
  /\ UNCHANGED <<reload, loading, born, retries>>

\* ...which returns when the removed object's row is written...
Withdrawn(r) ==
  /\ At(r, "withdrawing")
  /\ \A t \in Task : IdOf[t] = request[r].id => cancelPc[t] \in {"none", "returned"}
  /\ Goto(r, "mark")
  /\ UNCHANGED <<vars, reload, loading, born, retries>>

\* ...and marks the row.  A running handler is not told.
MarkCanceled(r) ==
  /\ At(r, "mark")
  /\ row' = IF row[request[r].id] = "deleted" THEN row
            ELSE [row EXCEPT ![request[r].id] = "canceled"]
  /\ Goto(r, "done")
  /\ UNCHANGED <<schedVars, reload, loading, born, retries>>

\* retryExecutionTask: ResetExecutionTaskForRetry, then RequeueJob.
ResetRow(r) ==
  LET j == request[r].id
  IN  /\ At(r, "reset")
      /\ IF row[j] = "deleted"
         THEN Goto(r, "done") /\ UNCHANGED <<row, retries>>
         ELSE /\ row' = [row EXCEPT ![j] = "pending"]
              /\ retries' = [retries EXCEPT ![j] = @ + 1]
              /\ Goto(r, "requeue")
      /\ UNCHANGED <<schedVars, reload, loading, born>>

\* A slip: the row is reset for the retry and nothing is requeued.
RequeueForgotten(r) ==
  /\ At(r, "requeue")
  /\ Goto(r, "done")
  /\ UNCHANGED <<vars, reload, loading, born, retries>>

RetryTaskByID(r) ==
  /\ At(r, "requeue")
  /\ Unused(request[r].id) # {}
  /\ Requeue(NewObject(request[r].id))
  /\ Goto(r, "done")
  /\ UNCHANGED <<row, reload, loading, born, retries>>

DeleteRow(r) ==
  /\ At(r, "delete")
  /\ row' = [row EXCEPT ![request[r].id] = "deleted"]
  /\ Goto(r, "done")
  /\ UNCHANGED <<schedVars, reload, loading, born, retries>>

-----------------------------------------------------------------------------
SubmitNew(j) ==
  /\ ~loading /\ Unused(j) # {}
  /\ Submit(NewObject(j))
  /\ born' = [born EXCEPT ![j] = 1 + Cardinality({i \in Job : born[i] > 0})]
  /\ UNCHANGED <<reload, loading, retries, request>>

\* The scheduler's own steps, as TaskScheduler has them.  A context ends when a
\* caller of mediagen's EnqueueAndWait gives up.
Inherited == /\ \/ \E t \in Task : SubmitSteps(t) \/ CancelSteps(t) \/ ContextEnds(t)
                \/ \E w \in Worker : WorkerSteps(w)
                \/ ~loading /\ StopBegin
                \/ StopSteps
             /\ UNCHANGED extVars

RequestSteps(r) == \/ Dequeue(r) \/ Withdrawn(r) \/ MarkCanceled(r)
                   \/ ResetRow(r) \/ RetryTaskByID(r) \/ DeleteRow(r)

Reloading == ReloadRow \/ ReloadUnreadable \/ ReloadDone

ExecNext == \/ \E j \in Job : SubmitNew(j)
            \/ Inherited
            \/ \E r \in Request, j \in Job : ReadRow(r, j)
            \/ \E r \in Request : RequestSteps(r)
            \/ Restart \/ Reloading

ExecSpec == ExecInit /\ [][ExecNext]_allVars
-----------------------------------------------------------------------------
(* Properties.                                                             *)

Carried(j) ==
  \/ \E i \in 1..Len(reload) : reload[i] = j
  \/ \E r \in Request : request[r].id = j /\ request[r].pc = "requeue"
  \/ \E t \in Task : /\ IdOf[t] = j
                     /\ \/ pc[t] = "pushing"
                        \/ InList(t)
                        \/ cancelPc[t] \in {"removed", "saving"}
                        \/ \E w \in Worker : /\ worker[w].task = t
                                              /\ worker[w].pc \in {"taken", "marking", "saving"}

ExecutedNow(j) == \E w \in Worker : /\ worker[w].task # NoTask
                                    /\ IdOf[worker[w].task] = j
                                    /\ worker[w].pc \in {"executing", "saving"}

\* While a durable scheduler is up, a row that says "pending" has somebody who
\* will run or settle it, and a row that says "running" has a worker running
\* it: no cancel, retry, ended context, crash or race between them strands a
\* durable task.  A process that fell back to memory leaves the rows it found
\* alone; also what it left behind is picked up by the next that does not.
NothingStranded ==
  durable => \A j \in Job \ Unreliable :
               /\ row[j] = "pending" /\ ~stopping => Carried(j)
               /\ row[j] = "running" => ExecutedNow(j)

\* Two handlers for one ID run at once only after an operator's retry: the
\* reload after a restart puts no task into the list twice.
SingleRunner ==
  \A v, w \in Worker :
    /\ v # w /\ worker[v].pc = "executing" /\ worker[w].pc = "executing"
    /\ IdOf[worker[v].task] = IdOf[worker[w].task]
    => retries[IdOf[worker[v].task]] > 0

\* A task that succeeded stays so: it is not cancelled ("task already
\* finished") and not retried ("only failed or canceled tasks can be retried").
SuccessIsFinal ==
  [][\A j \in Job : row[j] = "success" => row'[j] \in {"success", "deleted"}]_allVars
=============================================================================

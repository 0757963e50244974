# SoulNexus in TLA+

SoulNexus (`src/`) is a voice-first AI dialog platform written in Go: a caller
speaks, a pipeline of stages recognizes the speech, asks a language model,
speaks the reply, and records the conversation; around it run durable
background tasks, workflows, webhooks, billing and the usual HTTP plumbing.
This directory holds TLA+ models of the parts where concurrency, failure and
ordering decide whether the program is right, TLC configurations that check
them on small instances, and TLAPS proofs of the results that hold for every
instance.

Contents: [1 The system](#1-the-system) · [2 Plan](#2-plan) ·
[3 Modules](#3-modules) · [4 Runs](#4-runs) · [5 Bounds](#5-bounds) ·
[6 Fairness](#6-fairness) · [7 Proofs](#7-proofs) ·
[8 Disagreements with the code](#8-disagreements-with-the-code) ·
[9 Not modelled](#9-not-modelled)

## 1 The system

The process is one Go binary, and is documented as a single replica
(`docs/ops-single-node.md`). Everything below runs as goroutines in it.

| Component | State | Operations | Talks to | What is hard |
|---|---|---|---|---|
| **Task scheduler** `pkg/task` | priority list, running counter, stop flag; per task a status, a once-only verdict, a context | `SubmitTask`, `RequeueExisting`, `CancelTaskByID`, `Stop`, `workerLoop` | the workers of `pkg/knowledge/worker` and `pkg/mediagen` (handlers), callers blocked in `Wait()` | one mutex and one condition variable between submitters, workers, cancellers and Stop; some steps are outside the lock |
| **Durable tasks** `pkg/task/persist.go`, `execution_task.go`, `internal/handlers/execution_tasks.go` | one database row per task ID: status, retry count, times | row writes of the scheduler; recovery at start; an operator's cancel, retry, delete | scheduler, database | a crash between any two writes; requests that act on a row read earlier |
| **Document worker, media worker** | maps task to job and document to task | submit, progress, cancel, `RetryTaskByID` | scheduler | registration after the task may be over |
| **LLM stage** `pkg/dialog/cascaded/llm_stage.go` | current turn number, the turn that can be confirmed, interim text and its timer, burned flag | one select loop; a goroutine per turn; a forwarding goroutine | ASR stage before, TTS stage after, the model provider | cancelled turns that still deliver, guesses from interim transcripts, three bounded channels, teardown |
| **TTS stage** `.../tts_stage.go` | turn number, held-back AITextDone, segmenter residue, job queue, audio channel | one select loop, one worker | LLM stage, synthesizer, persist stage | turn number read by two goroutines, a queue that drops its oldest, barge-in |
| **VAD, ASR, hotword stages** | barge-in sent, recognizer, the ttsPlaying flag fed back from the output | frame handlers | engine bridges, recognizer callback | a flag three goroutines write and read, drop-oldest channel |
| **Cascaded engine** `engine.go`, `pipeline/` | attached call, stage goroutines, channels of depth 128 | attach, bridges, detach | session manager, media port | teardown order of the stages |
| **Persist stage** | the utterance being accumulated | frame handler, flush | database | a reply may come before the final transcript it answers |
| **Realtime engine** `pkg/dialog/realtime` and its vendor client `lingllm/realtime/aliyunomni` | event sink, send queue, turn-end guard, pacer buffer | the client's read and write loops, agent stage, pacer, bridge | one provider does ASR, LLM and TTS | send racing close, teardown of goroutines that wait for each other, audio on its way at a barge-in |
| **Session manager** `pkg/dialog/session` | sessions by call, bound port, attached engine | Create, BindPort, StartEngine, End | connections (`transport/websocket/serve.go`), engines | checks before an unlock, acting after it |
| **Workflows** `internal/workflow`, `pkg/workflow` | cron entries by workflow, listeners | schedule, unschedule, trigger, run | event bus, database | little: one caller, one run after the other |
| **Webhooks** | delivery rows, Redis lock | dispatch, retry poller | database, receivers | a lock that expires while held, a replica that dies |
| **Billing reservations** | reserved amounts (memory or Redis) | reserve, settle, release | request handlers | release racing settle, expiry |
| **Circuit breaker, rate limits** `pkg/middleware` | breaker state and counters | admit, record | every request | answers that come back in another state than they left in |
| **Event bus, websocket hub** | subscribers | publish, subscribe, broadcast | many | little state |
| Speech providers, codecs, knowledge retrieval, HTTP handlers, front ends | – | – | – | data processing and I/O |

What makes each of them correct, most important first:

* *Scheduler.* No task is lost, doubled or run twice; a verdict is given once;
  higher priority first, arrival order among equals; every `Wait()` and `Stop()`
  returns; the counter shown to operators is exact.
* *Durable tasks.* After any crash, restart or operator request, and also after
  starts that could not recover the rows, a row that says pending or running has
  somebody who will finish it once a durable scheduler is up; a restart runs
  nothing twice; a success stays one.
* *LLM stage.* One generation at a time; one guess per utterance; turns heard in
  order and closed exactly once; a closing input loses nothing; the stage ends.
* *TTS stage.* Interrupted speech is not heard; the end of a turn is announced;
  a closing input is spoken to its end; the stage ends.
* *Cascaded call.* The caller's voice is let through again once a reply is over
  or interrupted; after a barge-in the caller hears nothing of before it.
* *Persist stage.* What a reply said is recorded once, whatever falls between
  its pieces.
* *Realtime call.* No send after close; after a barge-in nothing older is
  played; however the call ends, the stage returns.
* *Session.* An ended session leaves no engine running.
* *Webhooks.* A delivered event stays delivered; a pending one is delivered or
  given up, also when a replica dies.
* *Circuit breaker.* Half open, one request at a time; a slot that is taken is
  given back.

`PROJECT.json` lists the hazards one by one, each with its line in the source,
and the properties that cover it or the reason none does yet.

## 2 Plan

The order is by importance: what the rest of the program relies on first. All of
it is written; the last column names the module that holds the proofs.

| # | Module | Composes | Promise it is measured by | Proofs |
|---|---|---|---|---|
| 1 | `TaskQueue`, `TaskScheduler`, `ExecutionTasks` | scheduler + rows + operator | `TaskPool` (refinement), `NothingStranded` | `TaskQueueProofs`, `TaskSchedulerProofs`, `ExecutionTasksProofs` |
| 2 | `LLMStage` | turn goroutines, guesses, forwarder | one reply stream per turn (`TurnsInOrder`, `TurnEnds`) | `LLMStageProofs` |
| 3 | `TTSStage` | loop and worker | `BegunSpeechStops`, `CloseSpeaksAll` | `TTSStageProofs` |
| 4 | `CascadedCall` | `TTSStage` + VAD stage + bridge + the flag they share | `GateReopens`, `SilentAfterBargeIn`; it implements `TTSStage` | `TTSStageProofs` |
| 5 | `RealtimeCall` | vendor client + sink + agent stage + pacer + bridge | `InterruptedAudioIsSilent`, `TeardownEnds` | `RealtimeCallProofs` |
| 6 | `VoiceSession` | one session, its connections, their engines | `EndBringsDown` | `ServicesProofs` |
| 7 | `WebhookRetry` | replicas + Redis lock + rows | `SuccessIsKept`, `PendingSettles` | `WebhookRetryProofs` |
| 8 | `CircuitBreaker` | breaker and requests | `OneProbe`, `SlotsAccounted` | `ServicesProofs` |
| 9 | `PersistStage` | – | `EverythingRecorded` | `ServicesProofs` |

What would come next, if the code grows there: the document worker's maps on top
of `TaskPool`, several sessions in one manager, billing reservations once
something calls them.

## 3 Modules

### TaskQueue – `pkg/task/queue.go`

The list as a sequence of task objects. `Push` inserts at `PushPoint`, the first
place with something of strictly lower priority behind it (`sort.Search`);
`FirstPosition` is where `Remove` takes an entry off. A task *object* (`*Task`)
and a task *ID* are different things: a retry or a restart makes a second object
for an ID, so objects are `Task`, IDs are `Job`, and `IdOf` maps one to the other.

### TaskScheduler – `scheduler.go`, `types.go`, the writes of `persist.go`

| State | Code |
|---|---|
| `queue` | `Scheduler.queue` |
| `status`, `settled`, `ended` | `Task.Status`, `finishOnce`/`done`, `Task.ctx` |
| `pc`, `cancelPc`, `stopPc` | where the goroutines inside `SubmitTask`, `CancelTaskByID` and `Stop` are |
| `worker` | where each `workerLoop` is, and its task |
| `running`, `stopping` | the two atomics |
| `row` | `execution_tasks.status` |
| `invoked` | calls of the handler (history) |

Each critical section of `s.mu` is one action, and so is each stretch between two
of them that touches shared state once: `SubmitAccepted`, `PersistPending`,
`PushTask`, `SignalPushed` are the submitter's path; `AcquireTask`, `Sleep`,
`Exit`, `MarkTask`, `CallHandler`, `HandlerReturns`, `PersistFinished`,
`AfterTask` the worker's; `CancelTaskByID`, `CancelDeliver`, `CancelSave` the
canceller's; `StopBegin`, `StopDrain`, `StopReturn` those of Stop. The condition
variable is modelled as Go has it: `Signal` wakes one sleeper, chosen freely, and
is lost when nobody sleeps; testing the list and falling asleep is one step,
because `cond.Wait` gives up the lock in it. `durable` says which constructor the
pool came from: it is a variable, because the document worker and the media worker
decide it at run time. When it is set, row writes after the first may fail for
the IDs in `Unreliable` (their errors are only logged).

### TaskPool – the promise

Absent, waiting, executing, settled; slots; verdicts. No queue, lock or sleep.
`TaskScheduler!Pool` instantiates it through `Phase`, `Slot` and `Answer`.

### ExecutionTasks – recovery and operator requests

Extends `TaskScheduler`. `Restart` models the death of the process at any point
and the start of the next, up to the reading of the pending rows (`Recover`). The
recovery may fail at either of its two queries; then `NewPersistentScheduler`
returns an error, the document worker (`worker.go:86-90`) and the media worker
(`mediagen/worker.go:58-62`) go on with a scheduler in memory, and the rows stay
as they are: running, or pending when the reset went through and the listing did
not. Such a process neither knows those rows nor writes any, though the operator
may still edit them; the next start may succeed. After a successful recovery
`ReloadRow` requeues the rows one by one while the workers already run. A request (`ReadRow`)
reads the row once, makes the checks its handler makes, and continues step by
step: `Dequeue`, `Withdrawn`, `MarkCanceled` for cancel, `ResetRow`,
`RetryTaskByID` for retry, `DeleteRow`. Between any two of them everything else
may happen. `PendingRows` is the set of orders the query may return the rows in:
rows of one priority and one submit time come in any order. A context may end at
any step, because a caller of the media worker's `EnqueueAndWait` that gives up
cancels its durable task.

### LLMStage – `pkg/dialog/cascaded/llm_stage.go`

| State | Code |
|---|---|
| `currentTID`, `live`, `cancelled` | `currentTID`, the `liveTurn`, the turns' contexts |
| `gen` | the turn goroutines: streaming, offering a delta, exited |
| `deltas`, `backlog` | the channels `deltas` and `fwd` (frames in the latter are only counted) |
| `lastInterim`, `stablePending`, `burned` | the guess machinery: last interim, armed timer, `specBurned` |
| `loop`, `forwarder`, `ctxDone` | Run's loop and its deferred calls, the forwarder, the context |
| `last`, `guesses` | history: the last reply frame forwarded, guesses since the last Final |

One arm of the select is one action: `TakeFinal`, `TakeInterim`, `TakeBargeIn`,
`StableFires`, `TakeDelta`, `InputCloses`. The goroutine of a turn is `Callback`,
`Send`, `Abandon`, `ReplyEnds`: the callback checks its context, then waits for
room or for cancellation, and when both cases are ready either is taken, so a
cancelled turn can still get a delta out. A transcript is a model value; the
rules that decide whether an interim is complete enough to guess on are the set
`Steady`.

### TTSStage – `pkg/dialog/cascaded/tts_stage.go`, `pkg/voice/tts/segmenter.go`

Run's loop (`TakeText`, `TakeDone`, `TakeBargeIn`, `TakePCM`, ...) and its worker
(`TakeJob`, `Begin`, `Callback`, `SendAudio`, `SpeakReturns`, `EndJob`) share
`jobs` (`jobCh`), `pcm` (`pcmCh`), the turn number and the cancel function
(`registered`, `cancelled`). Taking a job and reading the turn number are two
steps, as in the code. A barge-in is two steps as well (`TakeBargeIn`,
`Interrupt`), since the worker runs between them, and so is a job for a full
queue: `DispatchSpeak` finds it full, `Drop` takes the oldest job off that is
still there and queues the new one; the worker may have taken jobs in between,
and then a job is dropped although there was room. The segmenter is modelled by
when it holds text (`residue`) and when it makes a segment. Jobs and events
carry, as history, how many barge-ins had been handled when they were queued and
begun. `backlog` is the channel to the next stage.

### CascadedCall – `vad_stage.go` and the bridge of `engine.go` around the TTS stage

Extends `TTSStage`, each of whose steps is taken here with the frames it sends
(`outbox`, of which `backlog` is the length). Three parties share the flag
`ttsPlaying`, which closes the ASR stage to the caller's voice: the bridge raises
it at audio (`Play`) and lowers it at an AITextDone or a BargeIn (`Open`); the
VAD stage reads it (`Listen`), lowers it (`Lower`, the engine's `onBargeIn`) and
only then sends the BargeIn (`SendBargeIn`), which travels through the other
stages (`onTheWay`) to the TTS stage. The grace period after the first audio and
the detector's verdict are one choice. The LLM stage is any sequence of text and
ends of replies. `heard`, `early` and `strayed` are history: barge-ins the
bridge has handled, an AITextDone that went out before the end of its speech, a
segment that slipped through a barge-in (section 8).

### RealtimeCall – `pkg/dialog/realtime`, `lingllm/realtime/aliyunomni/client.go`

| State | Code |
|---|---|
| `vendor` | where the client's `readLoop` and `writeLoop` are, and the event they emit |
| `sendQueue`, `clientOver` | `sendCh`, the client's closed flag and root context |
| `sink`, `sinkClosed`, `panicked` | `chanSink`, and whether an Emit met the closed channel |
| `stage` | where `agentStage.Run` is: in its select, inside `Cancel`, emitting, or in the teardown |
| `buffer`, `started`, `passing` | the pacer's |
| `frames`, `line` | the channels between the stages |

The reader's fatal event is either the end of its connection, after which it
announces the close and leaves, or an error the server reports
(`client.go:576-600`), after which it reads on (`AfterEmit`).
`EmitLooks` and `EmitSends` are two steps, because `chanSink.Emit` gives up its
lock between them. The teardown is step by step as well: `CloseAgent` ends the
root context and closes the connection, `AgentClosed` waits for both loops, the
drain takes what is left or times out, and then the sink is closed. Audio
carries, as history, how many utterances the server had told of when it came.

### VoiceSession – `session/manager.go`, `transport/websocket/serve.go`

One session; each connection finds it, binds its own port, starts the engine
(`StartEngine`, `Attach`, `Store`: the lock is given up between the look and the
store), serves and leaves. `End` runs in each connection that left and in the
API's handler (`Remove`, `MarkEnded`, `CancelEngine`, `Detached`, `ClosePort`).
Engines end when their context ends or the input of their port closes.

### WebhookRetry – `webhook/dispatcher.go`, `tasks/webhook_retry.go`, `redislock/lock.go`

The row of each delivery, its first attempt (a goroutine that writes the row
when it is over), and a worker per replica: `TryLock`, `ReadDue`, then per job
`Post` and `Record`, `WebhookMissing` or `WriteLost`, then `Unlock`. `Expire` is
Redis: the key may go while its holder works. `Crash` takes a replica with its
first attempts; `StartAgain` brings it back. `doubtful` is history: workers that
lost the lock, or read while one that had lost it was working.

### CircuitBreaker – `middleware/timeout_circuit.go`

The breaker of one endpoint; `Allow` in its three states, `RecordSuccess`,
`RecordFailure`, and `NoVerdict` for answers that are neither (a 4xx). `request`
remembers in which half-open period a request was let through, since it may come
back in another state.

### PersistStage – `cascaded/persist_stage.go`

The accumulator (`acc`) and what the persister was given (`records`). A reply
comes in `Pieces`, sequences of letters, because `appendAIText` compares what
comes with what it has; `Repeats` is a realtime vendor's final repetition of the
whole reply. `said`, `reply` and `merged` are history.

### MCServices

`RealtimeCall`, `VoiceSession`, `WebhookRetry`, `CircuitBreaker` and
`PersistStage` share no state. `MCServices` runs them side by side: the initial
state chooses the part that runs, the others rest. So each is explored under all
its own interleavings, and none is multiplied by another's.

In all modules an operator whose comment begins with "A slip:" is a plausible bug
that is used nowhere; substituted for the definition it precedes, it breaks the
property `PROJECT.json` names for it, which shows that the property can see it.

## 4 Runs

| Run | Config | Shows |
|---|---|---|
| TaskScheduler | `MCTaskScheduler.cfg` | in memory and with rows: `Custody`, `HandlerOnce`, `Sorted`, `FifoAmongEquals`, `RunningCounts` under every interleaving; `RowsAgree` (row and verdict agree once everyone is done); `NoLostWakeup` (while a worker sleeps, every waiting task has a worker on its way or a Signal still to come); the scheduler implements `TaskPool` (`ImplementsPool`); Stop returns, and in memory every submission settles |
| ExecutionTasks | `MCExecutionTasks.cfg` | `Custody` with rows; `NothingStranded` and `SingleRunner` across crashes, restarts, recoveries that fail, and two racing operator requests |
| SuccessIsFinal | `ExecSuccessIsFinal.cfg` | violated: see section 8 |
| LLMStage | `LLMStage.cfg` | `OneGeneration`, `OneGuess`, `TurnsInOrder`, `CloseLosesNothing`; `TurnEnds` and `RunReturns` under fairness |
| LLMFinalIsAnswered | `LLMFinalIsAnswered.cfg` | violated: see section 8 |
| LLMBargeIn | `LLMBargeInGatesOutput.cfg` | violated: see section 8 |
| TTSStage | `TTSStage.cfg` | `BegunSpeechStops`, `CloseSpeaksAll`, `HeldDoneHasItsEnd` (an AITextDone is held back only while the end of speech that lets it go is on its way); `RunReturns` under fairness |
| TTSDoneFollowsSpeech | `TTSDoneFollowsSpeech.cfg` | violated: see section 8 |
| TTSInterruptedText | `TTSInterruptedText.cfg` | violated: see section 8 |
| CascadedCall | `CascadedCall.cfg` | `GateReopens` (ttsPlaying never stays up with nothing left to lower it) and `SilentAfterBargeIn`, over every interleaving of stage, VAD and bridge |
| Services | `MCServices.cfg` | realtime call: `NeverSendsOnClosed`, `InterruptedAudioIsSilent`, `TeardownEnds`; session: `EndBringsDown`; webhooks: `SuccessIsKept`, `PendingSettles`; breaker: `OneProbe`, `SlotsAccounted`; persist stage: `EverythingRecorded` |
| RealtimeTeardown | `RealtimeTeardown.cfg` | violated: see section 8 |

Deadlock is not checked in these runs because all these systems end: a stopped
scheduler, a stage that has returned, a call that is over, bounds that are used up. That they do not stop early is what the
liveness properties say.

## 5 Bounds

* *Scheduler*: three objects on two workers. Two equal priorities and one higher
  are what order needs; with three tasks and two workers one task waits while
  both are busy, and a signal can go to either of two sleepers. One object has a
  context that can end. Handlers end in one way: no
  step depends on which verdict it is, and that rows and abstract pool follow any
  of the three is proved. Writes
  that fail are in the run of the durable tasks; proofs cover any number of
  objects and workers, every outcome and any set of IDs whose writes fail.
* *Durable tasks*: two IDs, one of them with two objects (a submission or reload
  and a retry), one retry per row, two requests in all on one ID, an ID whose
  writes can fail and whose context can end (that an ended context strands no row
  that can be written is proved, not in the run). Restarts are not bounded, nor is how many recoveries in a row
  fail: a restart gives the objects free again. Two requests race each other, the
  workers and the restarts. A retry is only asked for while an object is left for
  it (`Spare`).
* *LLM stage*: two turns (`MaxTurn`), so that a second supersedes a first; two
  texts, one of which a guess may be made on; channels of capacity one, so that
  full channels are common. `guesses` and the turn numbers are bounded by `MaxTurn`.
* *TTS stage*: turn numbers up to three and one barge-in, `jobCh` of capacity
  two, `pcmCh` of one, and a downstream channel of none (or two in the violation
  run), so that every blocking and dropping case happens. At most one segment is
  cut per delta.
* *Cascaded call*: turn numbers up to three and one barge-in, which takes a number
  of its own: a turn, its interruption and the turn after it. All channels are as small as they can be,
  so that full ones are common; the proofs take any size and number.
* *Realtime call*: one utterance and two pieces of audio, one of before and one
  of after it, channels of one, a prebuffer of two so that the pacer also waits.
* *Session*: two connections and the API: three ends can race, and one
  connection can replace the other's port.
* *Webhooks*: three replicas (one that lost its lock, one that took it, one
  more), one delivery of two attempts, one crash. Rows do not interact except
  through the batch a worker reads, which the proof takes at any size. With two
  attempts the first retry settles the row, so a retry that leaves the row pending
  for another is not in the run; the proof of `SuccessIsKept` takes any number.
* *Breaker*: four requests against a limit of three, so that one is refused; a
  failure threshold of three, so that requests come back late; three half-open
  periods; two answers without a verdict.
* *Persist stage*: five frames, pieces `a`, `b` and `ba`: the shortest that can
  look like a beginning of each other and differ.

## 6 Fairness

Safety is checked without any. Liveness assumes:

* *Scheduler*: weak fairness of each goroutine (submitter, canceller, worker,
  Stop): the Go scheduler runs every runnable goroutine, and handlers return.
  Nothing is assumed of who calls submit, cancel or stop, nor of whom a signal
  wakes.
* *LLM stage*: Go's select chooses at random among ready cases, so the arm for
  deltas is taken again and again as long as it is ready again and again (strong
  fairness of `TakeDelta`); a model's reply is finite (strong fairness of the
  final delta or the end of the reply); the goroutines and the forwarder run;
  downstream reads.
* *TTS stage*: the same for `TakePCM`; a synthesizer's segment comes to an end
  (strong fairness of `SpeakReturns`); the end of the context, once it is there,
  is taken in some select although `Drop` and `Interrupt` come between (strong
  fairness of `LeaveOnContext`); worker and loop run; downstream reads.
* *Realtime call* (`RealtimeFairness`): the client's read loop, its write loop and
  the stage each run (weak fairness per goroutine, so that events which go on
  coming do not hold up the writer); a write to the connection returns, with or
  without an error; a closed connection fails its read; a ready arm of the stage's select is taken
  again and again (strong fairness of leaving the call and of the drain's
  timer); pacer and bridge run until the call's context ends, and nothing is
  assumed of them after it, because they return then. That a write returns is an
  assumption about the network: `client.go:423` sets no write deadline, so a peer
  that stops reading and keeps the connection open can hold the writer for as
  long as TCP does.
* *Webhooks* (`WebhookFairness`): a row becomes due, the ticker ticks while one
  is, a replica is started again, a key expires, posts time out; a poll or a
  write that is made again and again succeeds at some time (strong fairness of
  `ReadDue` and `Record`), as a database that is up answers.

No fairness is assumed of callers, users, the closing of the input, or the end
of the context.

## 7 Proofs

`TaskQueueProofs` proves what the list operations do: inserting at `PushPoint`
keeps the order and puts a newcomer behind its equals, removal keeps the order,
nothing else is moved, and no entry is doubled. `TaskSchedulerProofs` builds on
it, for every `Task`, `Job`, priority function and finite set of workers, durable
or not:

| Theorem | Says |
|---|---|
| `Invariance` | `Spec => []IInv` |
| `TypeCorrect` | `Spec => []TypeOK` |
| `CounterIsExact` | `Spec => []RunningCounts` |
| `DispatchOrder` | `Spec => []Sorted` |
| `AtMostOneCall` | `Spec => []HandlerOnce` |
| `CustodyKept` | `Spec => []Custody` |
| `FirstComeFirstServed` | `Spec => FifoAmongEquals` |
| `Refinement` | `Spec => ImplementsPool` |
| `RowsFollowVerdicts` | `Spec => []RowsAgree` |
| `NoWakeupIsLost` | `Spec => []NoLostWakeup` |

The argument is one inductive invariant,
`IInv == TypeOK /\ RunningCounts /\ QueueInv /\ ObjectInv /\ WorkerInv /\ StopInv`.
None of the properties is inductive alone. `Custody` says where an object is, but
not what a worker at a given place may conclude from it, so `WorkerInv` says it
line by line of `workerLoop` (a worker about to call the handler holds a task
nobody has settled and nobody has called), and `ObjectInv` says what the object
shows to everyone else (an object in the list is unsettled, uncalled and at no
worker; one that was cancelled never reaches a worker). `StopInv` connects the
flag with the progress of Stop, without which "dropped by a durable Stop" would
excuse too much. `QueueInv` (no object twice, in order) is what makes removal by
ID and `Tail` remove exactly one. Each action has one step in the proof; the
actions that only move a program counter share lemmas.

Two results need more than `IInv`. `RowsAgree` speaks of one object and its row,
so `RowInv` adds that no second object of the ID is ever submitted (`OneObject`,
from fresh IDs), that a task is saved before it is pushed, and that nothing here
deletes a row. `NoLostWakeup` is the safety side of `EverySubmissionSettles` and
`StopCompletes`: it counts. A push adds one waiting task and one due Signal; a
Signal turns a sleeper into a worker that looks, or finds nobody asleep; a worker
that looks takes one task, or finds the list empty. The set of due Signals is
finite although `Task` need not be (`WakeInv`).

`ExecutionTasksProofs`, for any IDs, objects, requests and number of restarts:

| Theorem | Says |
|---|---|
| `ExecInvariance` | `ExecSpec => []ExecInv` |
| `ExecTypeCorrect` | `ExecSpec => []ExecTypeOK` |
| `ExecCustodyKept` | `ExecSpec => []Custody` |
| `NoRowStranded` | `ExecSpec => []NothingStranded` |
| `OneRunnerUnlessRetried` | `ExecSpec => []SingleRunner` |
| `ExecKeepsScheduler` | `ExecSpec => [](RunningCounts /\ Sorted /\ HandlerOnce)` |
| `ExecNoWakeupIsLost` | `ExecSpec => []NoLostWakeup` |

The scheduler's `IInv` is kept by every action that is added here: a restart
begins it anew, as a durable scheduler or as one in memory, a reload or a retry
hands in one new object, requests write rows, which `IInv` does not depend on. `ExecInv` adds `NothingStranded` itself and
what it needs: an ID in use, and one with a row, was submitted once, and a row has
an object (`BornInv`); what is still to be reloaded is listed once and has no object yet
(`ReloadInv`); a request is about a row that exists, and has counted its retry
when it comes to requeue (`RequestInv`); two objects of one ID are in use only
after a retry (`RetryInv`). A pending or running row is followed ID by ID (`Safe`):
`StillSafe` says when a step that does not write a row leaves it in somebody's
hands, and whoever writes it as pending or running is, or goes on as, the one
who carries it. A process in memory carries nothing and is asked nothing; that
nothing is lost by it is the proof of the next successful recovery, which has to
find every pending row, whatever was left behind.

`LLMStageProofs` does the same for the LLM stage, for any transcripts, number of
turns and channel sizes:

| Theorem | Says |
|---|---|
| `LLMInvariance` | `Spec => []IInv` |
| `LLMTypeCorrect` | `Spec => []LLMTypeOK` |
| `OneGenerationAtATime` | `Spec => []OneGeneration` |
| `OneGuessPerUtterance` | `Spec => []OneGuess` |
| `NothingLostOnClose` | `Spec => []CloseLosesNothing` |
| `OrderOfTurns` | `Spec => TurnsInOrder` |

`OneGuess` counts guesses; what stops a second one is `GuessInv`, which ties the
count to the live turn and `burned`: once a guess was made, guessing is burned
until the next Final, or the live turn is that guess and the timer waits for
nothing else than its text.
`TurnsInOrder` speaks of the frame now forwarded and the last one, but what will
be forwarded is in `deltas`: `FinalIsLast` and `DoneIsLast` say that the end of a
turn is the last of its entries, in the channel and after it. `CloseLosesNothing`
looks at one moment, and needs `FinalOnItsWay`: a turn that ended without being
cancelled has its end in the channel or already forwarded. `Teardown` is the
order in which Run waits for the turn and for the forwarder.

`TTSStageProofs`, for any number of turns and barge-ins and channels of any size:

| Theorem | Says |
|---|---|
| `TTSInvariance` | `Spec => []IInv` |
| `TTSTypeCorrect` | `Spec => []TTSTypeOK` |
| `BegunSpeechIsSilenced` | `Spec => BegunSpeechStops` |
| `HeldDoneIsReleased` | `Spec => []HeldDoneHasItsEnd` |
| `EverythingSpokenOnClose` | `Spec => []CloseSpeaksAll` |

The argument: a turn number is used on one side of a barge-in only. `EventEpoch`
says so of the events in the channel and `WorkerEpoch` of the segment at the
worker, so an event that carries the current number was begun after the last
barge-in. Type correctness is not shallow here: that the queue stays within its
capacity depends on every path through `dispatchSpeak`, and that `backlog` does
on `Halfway`, since the frame of a barge-in, and the text of a job the full queue
had no room for, are sent in a step of their own. `HeldDoneHasItsEnd` needs to
know of the moments between those steps, too: a held AITextDone has its end in
the queue, with the worker or in the channel, or the loop is about to queue it
(`HeldInv`), and the worker turns the job into the event (`WorkerKeepsEnd`).

The same module goes on with the call:

| Theorem | Says |
|---|---|
| `CallImplementsStage` | `CallSpec => Spec`: the stage inside the call is the stage above |
| `CallInvariance` | `CallSpec => []CallInv` |
| `CallTypeCorrect` | `CallSpec => []CallTypeOK` |
| `CallSilentAfterBargeIn` | `CallSpec => SilentAfterBargeIn` |
| `CallGateReopens` | `CallSpec => []GateReopens` |

The theorem about the stage says what leaves it; this one what the caller hears,
after a channel of any size. `CallInv` adds to `IInv` how the frames on the way
lie (place 0 is the bridge's hand, then the channel): `InOrder` (a barge-in lies
before what was begun after it), `InTime` (nothing on the way is from before the
last barge-in handled) and `Announced` (every barge-in between the one handled
and the one sent is on the way). Audio in the bridge's hand that was begun after
a barge-in not yet handled would have overtaken that barge-in's frame. That the
stage sends in this order is `EventEpoch` again (`SpeechEffect`). `FlagInv` counts
each barge-in the VAD stage detected at one place.

`GateReopens` says that the flag is not left up when everything is quiet; the
invariant behind it says, of every moment before, why it will fall.
`SpeechInv`: once the text of a reply is complete, what is queued, spoken or in
the audio channel is followed by the end of its speech, and for that end an
AITextDone is held back. `LineInv`: unless the reply is open or a barge-in is
still under way, every audio frame on the way to the bridge, and the raised flag
itself, has a frame behind it that lowers the flag. `QueuedInTime` keeps ends
queued before a barge-in apart from those queued after it. What is excused (a
dropped end, an AITextDone that went out early, a segment that strayed, the end
of the call) is never forgotten (`ExcusedStays`).

`RealtimeCallProofs`, for any number of utterances and pieces and channels of any
size:

| Theorem | Says |
|---|---|
| `RealtimeInvariance` | `RealtimeSpec => []RealtimeInv` |
| `RealtimeNeverSendsOnClosed` | `RealtimeSpec => []NeverSendsOnClosed` |
| `RealtimeInterruptedAudioIsSilent` | `RealtimeSpec => InterruptedAudioIsSilent` |

Audio passes nine places between the vendor and the caller; `InOrder` says that
what is further on is from no later utterance, through every hand-over, and also
when a barge-in empties the pacer and jumps ahead of what it held. `ClientGone`
says where the teardown is once both loops have ended, which is why the send
after a stale look at `closed` cannot meet the closed channel.

`WebhookRetryProofs`, for any replicas, deliveries, attempts and crashes:
`WebhookInvariance` and `WebhookSuccessIsKept`. A worker in good faith has the
lock (`LockHeld`), works alone (`Alone`), and what it read is still so
(`JobsPending`), so it does not write over a success.

`ServicesProofs` holds the proofs of the remaining parts and of their composition:

| Theorem | Says |
|---|---|
| `SessionInvariance`, `SessionEndBringsDown` | `SessionSpec => []SessionInv`, `[]EndBringsDown` |
| `BreakerInvariance`, `BreakerSlotsAccounted`, `BreakerOneProbe` | `BreakerSpec => []BreakerInv`, `[]SlotsAccounted`, `[]OneProbe` |
| `PersistInvariance`, `PersistEverythingRecorded` | `PersistSpec => []PersistInv`, `[]EverythingRecorded` |
| `ServicesImplementParts` | `ServicesSpec` implies the specification of each of the five parts |
| `ServicesInvariance`, `ServicesTypeCorrect` | `ServicesSpec => []ServicesTypeOK`, from the five invariants |
| `ServicesKeepPromises` | the safety properties of the five parts, of `ServicesSpec` |

*Session*, for any set of connections: from the moment a session is marked as
ended, whoever marked it holds the port that stays bound, and closes it
(`PortHeld`); nobody can bind another after that.

*Breaker*, for any finite set of requests and any thresholds: the two properties
need each other. One request at a time follows from the counter, if the counter
is exact, and it is exact although requests come back in another state than they
left in.

*Persist stage*, for any set of pieces and any number of frames:
`EverythingRecorded` compares what replies said with the records' texts laid end
to end. `FlattenSeq` of the community modules is a recursive function, and that
it exists, and that a record more lays one text more at its end, is an induction
over the number of records. The library's induction theorems cannot be
instantiated here, so the induction is made on a set: `NatLessThanWellFounded`
and `WFMin` give a least number outside it, whose predecessor is inside
(`Induction`).

*Composition*: the parts share no state and each step is a step of one of them or
of none, so what is proved of a part holds beside the others.

Assumptions: `QueueAssumption` (`IdOf` and `Prio` are functions, priorities are
integers), `SchedulerAssumption` (`NoTask` is not a task, the worker set is
finite, outcomes are verdicts), `ExecutionAssumption` (the requests are
about IDs, the retry limit is a natural number), `StageAssumption`, `TTSAssumption` and
`RealtimeAssumption` (bounds and capacities are natural numbers, what a channel
must hold is at least one; no transcript is blank), `SessionAssumption` and
`WebhookAssumption` (no one is not someone; at least one attempt),
`BreakerAssumption` (finitely many requests, positive thresholds),
`PersistAssumption` (pieces are sequences of letters and not empty:
`appendAIText` ignores an empty text). TLC evaluates all of them in the runs.

Every safety property a passing run checks is stated by one of these theorems.
Only model-checked is liveness, which is out of the prover's reach
(`EverySubmissionSettles`, `StopCompletes`, `TurnEnds`, `RunReturns`,
`TeardownEnds`, `PendingSettles`), and refuted by TLC, so not
to be proved, are the properties of section 8.

## 8 Disagreements with the code

Found while the models were written; each is a run that TLC refutes.

* **A success can be overwritten** (`SuccessIsFinal`). The cancel handler reads the
  row, refuses finished tasks, and later marks the row canceled without looking
  again. A handler that finishes in between has its success replaced, and the
  task can then be retried.
* **The same words twice get one answer** (`FinalIsAnswered`). The turn a Final may
  confirm outlives its reply, so a later utterance with the same text is taken for
  a confirmation and starts no turn.
* **A barge-in does not reach the model** (`BargeInGatesOutput`). The LLM stage
  passes the barge-in on and goes on sending the interrupted reply behind it.
* **A segment slips through a barge-in** (`InterruptedTextIsSilent`). A job taken
  from the queue just before the barge-in empties it, whose turn number is read
  just after, is spoken as part of the new turn.
* **Two replies can share one boundary** (`DoneFollowsSpeech`). The TTS stage holds
  a reply's AITextDone back until its speech is over (`tts_stage.go:395-397`), but
  one flag stands for every reply that waits, and line 429 does not look whose end
  of speech has come. When a second reply is complete before the first one's
  speech is over, the first end lets the boundary go, the second reply is spoken
  behind it, and its own end sends none. What does hold, and is proved, is the
  other direction (`HeldDoneHasItsEnd`): an AITextDone is never held back with
  nothing to come that will let it go, unless the full queue dropped that job.
* **A write error can leave a call hanging** (`EveryEndTearsDown`). The client's
  writer leaves at the first error and nothing ends the root context; when the
  send queue is full, the agent stage waits inside `Cancel` for room or for that
  context, which only its own later call of `Close` would end. `TeardownEnds`
  shows that it is the only way to hang, given that a write to the connection
  returns; one that does not, which no deadline prevents (`client.go:423`), is
  outside the model.

Other behaviour worth knowing that the models have and no text of the repository
decides: a task may run twice after a crash between the handler's return and its
last write; two simultaneous retries requeue a task twice; a durable Stop leaves
`Wait()` callers to their own contexts; after a start whose recovery failed, the
rows of the process before wait for the next start, and a task retried meanwhile
runs in memory without its row being written, so that the row stays pending and
the task runs again after that start; a full `jobCh` can lose the job that ends
a turn, and the AITextDone that is held for it waits for the end of a later
turn, a barge-in or the end of the call (`lostDone`, which `HeldDoneHasItsEnd`
and `GateReopens` except; `GateReopens` also excepts an AITextDone that went out
early and a segment that slipped through a barge-in). A second connection of
a session is told that the engine is attached and has none of its own, and when
it ends, the session ends for the first as well.

Places where a comment and the code part, seen while reading or in the models
and not the subject of a run:

* `persist_stage.go:22` and `:52` call the recorded text the concatenation of the
  reply's deltas; `appendAIText` (line 311) drops a delta that is a beginning of
  what it has, and replaces what it has by a delta that begins with it, so a reply
  that repeats its first words loses them. `EverythingRecorded` excepts it
  (`merged`).
* `vad_stage.go:117-120` wants one KindBargeIn per playback episode although
  trailing audio raises ttsPlaying again; but the flag `bargeInSent` falls with
  the first frame that finds ttsPlaying low, before the trailing audio.
* `agent_stage.go:36-39` says that `emittedTurnEnd` is reset on the first frame of
  an assistant turn; it is reset at the caller's final transcript (line 225), so a
  second reply without one in between has no AITextDone.
* `webhook_retry.go:20` says that only one replica processes a tick; the lock lives
  8 s and a batch may take longer. A worker whose lock expired can still write
  over a success; `SuccessIsKept` excepts it (`doubtful`).
* `timeout_circuit.go:502-508`: an answer that is neither a success nor a 5xx gives
  its slot back to nobody; after `MaxConcurrent` of them the closed breaker
  refuses everything (`forgotten` in `SlotsAccounted`). Answers to requests from
  before the breaker opened count in the half-open state. `SlotsAccounted` and
  `OneProbe` are about slots; they say nothing against either.
* `transport/pcm/port.go:131`: `PushInput` looks at `closed` and then sends, `Close`
  sets it and closes the channel; the API ending a session while its client talks
  can make the send panic.

## 9 Not modelled

Within the modelled components: the queue labels shown to waiting callers
(`relabelQueuedLocked`) and the positions and snapshots for display; free-form
edits of a row (`updateExecutionTask`) and rows created without being queued;
the progress maps of the document worker; how interim text is judged complete
and where the segmenter cuts; audio contents, metrics, times and logging; a stage
without a service, which passes frames on. The broadcast of Stop is one step with
its drain, since no worker can run between them to any different effect. Of the
ASR stage only its gate: the recognizer behind it is a vendor's, and the LLM stage
is checked with every sequence of transcripts. Of the realtime engine, turn ends,
texts and tools, and the other vendors' clients. Of the session manager, several
sessions at once, text chat and the final save. Of the webhooks, a server without
Redis, where every replica works at will. Of the middleware, rate limits and the
timer of a request.

Left out: the dialog pipeline, which only connects stages by channels (they are
in the modules of the stages); the workflow engine and its cron scheduler, which
one goroutine starts once and which runs its nodes one after the other; the event
bus and the websocket hub, which fan out and drop; billing reservations, which
nothing in the repository calls; speech providers and codecs, retrieval and
parsing, HTTP plumbing, models without protocol state, the front ends and
command-line programs. They are by far the larger part of the source by lines.
Most of that is requests turned into database rows and vendor calls, where there
is no state between two steps for a model to go wrong in.

------------------------------ MODULE TTSStage ------------------------------
(***************************************************************************)
(* pkg/dialog/cascaded/tts_stage.go: from reply text to speech.  The loop  *)
(* cuts the text into segments and queues them; one worker speaks them in  *)
(* order and sends the audio back through pcmCh, each event with the turn  *)
(* number the worker read when it began; the loop passes on what is of the *)
(* current turn.  A barge-in cancels the segment being spoken, empties the *)
(* queue and takes a new turn number.                                      *)
(***************************************************************************)
EXTENDS Naturals, Sequences

CONSTANTS MaxTID,      \* bound: turn numbers
          MaxBargeIns, \* bound: barge-ins
          JobSize,     \* capacity of jobCh
          PCMSize,     \* capacity of pcmCh
          OutSize      \* capacity of the channel to the next stage

ASSUME TTSAssumption == /\ {MaxTID, MaxBargeIns, OutSize} \subseteq Nat
                        /\ {JobSize, PCMSize} \subseteq Nat \ {0}

VARIABLES
  currentTID,       \* the turn number
  residue,          \* the segmenter holds text it has not cut yet
  needNewTurnID,    \* the next text starts a turn
  pendingTurnDone,  \* an AITextDone came in and has not gone out
  jobs,             \* jobCh
  jobsClosed,
  pcm,              \* pcmCh
  worker,           \* where the worker is, its job and the turn number it read
  registered,       \* genCancel is the worker's
  cancelled,        \* the context of the worker's job was cancelled
  loop,             \* where Run is
  backlog,          \* frames sent downstream and not taken yet
  ctxDone,          \* the call's context has ended
  bargeIns,         \* how many barge-ins were handled
  lostDone          \* a job that ends a turn was dropped from the full queue

textVars == <<residue, needNewTurnID>>
workVars == <<worker, registered, cancelled>>
ghosts == <<bargeIns, lostDone>>
vars == <<currentTID, textVars, pendingTurnDone, jobs, jobsClosed, pcm, workVars,
          loop, backlog, ctxDone, ghosts>>

Epoch == 0..MaxBargeIns

\* Jobs and events remember the barge-ins handled when the segment was queued
\* and when it was begun.
Job == [turnDone : BOOLEAN, queued : Epoch]
Kind == {"audio", "terminal", "turnDone"}
Event == [tid : 0..MaxTID, kind : Kind, queued : Epoch, begun : Epoch]
Resting == [pc |-> "idle", job |-> [turnDone |-> FALSE, queued |-> 0], tid |-> 0, begun |-> 0]

\* Run found the queue full for a segment of the text, or for the end of it.
Dropping == {"droppingText", "droppingDone"}

LoopTypeOK ==
  /\ currentTID \in 0..MaxTID
  /\ residue \in BOOLEAN /\ needNewTurnID \in BOOLEAN /\ pendingTurnDone \in BOOLEAN
  /\ loop \in {"select", "interrupting", "draining", "leaving", "returned"} \cup Dropping
  /\ backlog \in 0..OutSize + 1
  /\ ctxDone \in BOOLEAN
  /\ bargeIns \in Epoch /\ lostDone \in BOOLEAN

ChannelTypeOK ==
  /\ jobs \in Seq(Job) /\ Len(jobs) <= JobSize /\ jobsClosed \in BOOLEAN
  /\ pcm \in Seq(Event) /\ Len(pcm) <= PCMSize

WorkerTypeOK ==
  /\ worker \in [pc : {"idle", "taken", "speaking", "offering", "ending", "exited"},
                 job : Job, tid : 0..currentTID, begun : Epoch]
  /\ registered \in BOOLEAN /\ cancelled \in BOOLEAN

TTSTypeOK == LoopTypeOK /\ ChannelTypeOK /\ WorkerTypeOK

Init ==
  /\ currentTID = 0
  /\ residue = FALSE /\ needNewTurnID = TRUE /\ pendingTurnDone = FALSE
  /\ jobs = <<>> /\ jobsClosed = FALSE /\ pcm = <<>>
  /\ worker = Resting /\ registered = FALSE /\ cancelled = FALSE
  /\ loop = "select" /\ backlog = 0 /\ ctxDone = FALSE
  /\ bargeIns = 0 /\ lostDone = FALSE

-----------------------------------------------------------------------------
(* The loop, with the frames of the LLM stage.                             *)

Unblocked == backlog <= OutSize
Selecting == loop = "select" /\ Unblocked
Forward(n) == backlog' = backlog + n

\* A slip: a full queue grows.
QueueGrows(j) == jobs' = Append(jobs, j) /\ UNCHANGED loop

\* dispatchSpeak: with no room the loop goes on to drop a job; after the call's
\* end the job may not get in.
DispatchSpeak(j) ==
  \/ /\ Len(jobs) < JobSize
     /\ jobs' = Append(jobs, j)
     /\ UNCHANGED loop
  \/ /\ Len(jobs) >= JobSize
     /\ loop' = IF j.turnDone THEN "droppingDone" ELSE "droppingText"
     /\ UNCHANGED jobs
  \/ ctxDone /\ UNCHANGED <<jobs, loop>>

Speak(turnDone) == DispatchSpeak([turnDone |-> turnDone, queued |-> bargeIns])

\* Segmenter.Push: the text is kept, or makes a segment and may leave a tail.
\* Bound: one segment per delta.
Push(held) ==
  \/ residue' \in {held, TRUE} /\ UNCHANGED <<jobs, loop>>
  \/ residue' \in BOOLEAN /\ Speak(FALSE)

TakeText ==
  /\ Selecting
  /\ needNewTurnID => currentTID < MaxTID
  /\ currentTID' = IF needNewTurnID THEN currentTID + 1 ELSE currentTID
  /\ needNewTurnID' = FALSE
  /\ Push(residue /\ ~needNewTurnID)
  /\ Forward(IF loop' \in Dropping THEN 0 ELSE 1)
  /\ UNCHANGED <<pendingTurnDone, jobsClosed, pcm, workVars, ctxDone, ghosts>>

\* A slip: with nothing left to speak, the worker is not told of the end.
CompleteText == IF residue THEN Speak(TRUE) ELSE UNCHANGED <<jobs, loop>>

\* Segmenter.Complete: the tail ends the turn, or an empty job does.
Complete == Speak(TRUE)

\* The AITextDone itself is held back.
TakeDone ==
  /\ Selecting
  /\ pendingTurnDone' = TRUE
  /\ Complete
  /\ residue' = FALSE /\ needNewTurnID' = TRUE
  /\ UNCHANGED <<currentTID, jobsClosed, pcm, workVars, backlog, ctxDone, ghosts>>

\* The oldest job that is still queued makes room for the new one: the worker
\* may have taken jobs since the queue was found full.
Drop ==
  /\ loop \in Dropping
  /\ LET job  == [turnDone |-> loop = "droppingDone", queued |-> bargeIns]
         rest == IF jobs = <<>> THEN <<>> ELSE Tail(jobs)
     IN  jobs' = Append(rest, job) \/ (ctxDone /\ jobs' = rest)
  /\ lostDone' = (lostDone \/ (jobs # <<>> /\ Head(jobs).turnDone))
  /\ loop' = "select"
  /\ Forward(IF loop = "droppingText" THEN 1 ELSE 0)
  /\ UNCHANGED <<currentTID, textVars, pendingTurnDone, jobsClosed, pcm, workVars, ctxDone,
                 bargeIns>>

TakeOther ==
  /\ Selecting
  /\ Forward(1)
  /\ UNCHANGED <<currentTID, textVars, pendingTurnDone, jobs, jobsClosed, pcm, workVars,
                 loop, ctxDone, ghosts>>

\* cancelInFlight: the context that is registered, if any.
CancelInFlight == cancelled' = (cancelled \/ registered) /\ registered' = FALSE

TakeBargeIn ==
  /\ Selecting
  /\ bargeIns < MaxBargeIns /\ currentTID < MaxTID
  /\ loop' = "interrupting"
  /\ residue' = FALSE /\ needNewTurnID' = TRUE /\ pendingTurnDone' = FALSE
  /\ CancelInFlight
  /\ UNCHANGED <<currentTID, jobs, jobsClosed, pcm, worker, backlog, ctxDone, ghosts>>

\* A slip: the turn number stays.
InterruptKeepsTID ==
  /\ loop = "interrupting"
  /\ loop' = "select"
  /\ jobs' = <<>> /\ pcm' = <<>>
  /\ bargeIns' = bargeIns + 1
  /\ Forward(1)
  /\ UNCHANGED <<currentTID, textVars, pendingTurnDone, jobsClosed, workVars, ctxDone,
                 lostDone>>

\* clearPendingJobs, the new turn number, the drained audio, the frame.
Interrupt ==
  /\ loop = "interrupting"
  /\ loop' = "select"
  /\ jobs' = <<>> /\ pcm' = <<>>
  /\ currentTID' = currentTID + 1
  /\ bargeIns' = bargeIns + 1
  /\ Forward(1)
  /\ UNCHANGED <<textVars, pendingTurnDone, jobsClosed, workVars, ctxDone, lostDone>>

Audible(ev) == ev.kind = "audio" /\ ev.tid = currentTID

\* An event of the worker: the end of a turn lets the held AITextDone go;
\* audio goes out if it is of the current turn.
TakePCM ==
  /\ loop \in {"select", "draining"} /\ Unblocked
  /\ pcm # <<>>
  /\ pcm' = Tail(pcm)
  /\ LET released == Head(pcm).kind = "turnDone" /\ pendingTurnDone
     IN  /\ pendingTurnDone' = (pendingTurnDone /\ ~released)
         /\ Forward(IF released \/ Audible(Head(pcm)) THEN 1 ELSE 0)
  /\ UNCHANGED <<currentTID, textVars, jobs, jobsClosed, workVars, loop, ctxDone, ghosts>>

Deliver ==
  /\ backlog > 0
  /\ backlog' = backlog - 1
  /\ UNCHANGED <<currentTID, textVars, pendingTurnDone, jobs, jobsClosed, pcm, workVars,
                 loop, ctxDone, ghosts>>

-----------------------------------------------------------------------------
(* The end of the call.                                                    *)

InputCloses ==
  /\ Selecting
  /\ loop' = "draining" /\ jobsClosed' = TRUE
  /\ UNCHANGED <<currentTID, textVars, pendingTurnDone, jobs, pcm, workVars, backlog,
                 ctxDone, ghosts>>

\* A slip: the events the worker left behind are not looked at.
DrainUntilExited ==
  /\ loop = "draining" /\ Unblocked
  /\ worker.pc = "exited"
  /\ loop' = "leaving"
  /\ pendingTurnDone' = FALSE
  /\ Forward(IF pendingTurnDone THEN 1 ELSE 0)
  /\ UNCHANGED <<currentTID, textVars, jobs, jobsClosed, pcm, workVars, ctxDone, ghosts>>

\* workerDone, what is left in pcmCh, and a held AITextDone after all.
DrainEnds ==
  /\ loop = "draining" /\ Unblocked
  /\ worker.pc = "exited" /\ pcm = <<>>
  /\ loop' = "leaving"
  /\ pendingTurnDone' = FALSE
  /\ Forward(IF pendingTurnDone THEN 1 ELSE 0)
  /\ UNCHANGED <<currentTID, textVars, jobs, jobsClosed, pcm, workVars, ctxDone, ghosts>>

ContextEnds ==
  /\ ~ctxDone /\ loop # "returned"
  /\ ctxDone' = TRUE
  /\ UNCHANGED <<currentTID, textVars, pendingTurnDone, jobs, jobsClosed, pcm, workVars,
                 loop, backlog, ghosts>>

\* The deferred calls: cancelInFlight, closeJobs, wait for the worker.
LeaveOnContext ==
  /\ ctxDone /\ loop \in {"select", "draining"}
  /\ loop' = "leaving" /\ jobsClosed' = TRUE
  /\ CancelInFlight
  /\ UNCHANGED <<currentTID, textVars, pendingTurnDone, jobs, pcm, worker, backlog,
                 ctxDone, ghosts>>

Return ==
  /\ loop = "leaving" /\ (Unblocked \/ ctxDone)
  /\ worker.pc = "exited"
  /\ loop' = "returned"
  /\ UNCHANGED <<currentTID, textVars, pendingTurnDone, jobs, jobsClosed, pcm, workVars,
                 backlog, ctxDone, ghosts>>

-----------------------------------------------------------------------------
(* The worker.                                                             *)

Over == cancelled \/ ctxDone
loopVars == <<currentTID, textVars, pendingTurnDone, jobsClosed, loop, backlog, ctxDone, ghosts>>

TakeJob ==
  /\ worker.pc = "idle" /\ jobs # <<>>
  /\ worker' = [worker EXCEPT !.pc = "taken", !.job = Head(jobs)]
  /\ jobs' = Tail(jobs)
  /\ UNCHANGED <<pcm, registered, cancelled, loopVars>>

\* The turn number is read when the job begins, not when it was queued.
Begin ==
  /\ worker.pc = "taken"
  /\ worker' = [worker EXCEPT !.pc = "speaking", !.tid = currentTID, !.begun = bargeIns]
  /\ registered' = TRUE /\ cancelled' = FALSE
  /\ UNCHANGED <<jobs, pcm, loopVars>>

\* Speak, and Finalize at the end of a turn, call back with audio.
Callback ==
  /\ worker.pc = "speaking" /\ ~Over
  /\ worker' = [worker EXCEPT !.pc = "offering"]
  /\ UNCHANGED <<jobs, pcm, registered, cancelled, loopVars>>

WorkerEvent(kind) == [tid |-> worker.tid, kind |-> kind,
                      queued |-> worker.job.queued, begun |-> worker.begun]

SendAudio ==
  /\ worker.pc = "offering" /\ Len(pcm) < PCMSize
  /\ pcm' = Append(pcm, WorkerEvent("audio"))
  /\ worker' = [worker EXCEPT !.pc = "speaking"]
  /\ UNCHANGED <<jobs, registered, cancelled, loopVars>>

SpeakReturns ==
  /\ worker.pc = "speaking" \/ (worker.pc = "offering" /\ Over)
  /\ worker' = [worker EXCEPT !.pc = "ending"]
  /\ UNCHANGED <<jobs, pcm, registered, cancelled, loopVars>>

\* A slip: the worker waits for room whatever happens.
EndOnlyWithRoom ==
  /\ worker.pc = "ending"
  /\ Len(pcm) < PCMSize
  /\ pcm' = Append(pcm, WorkerEvent(IF worker.job.turnDone THEN "turnDone" ELSE "terminal"))
  /\ worker' = Resting /\ registered' = FALSE
  /\ UNCHANGED <<jobs, cancelled, loopVars>>

\* The terminal event, cancelled or not; genCancel is given up.
EndJob ==
  /\ worker.pc = "ending"
  /\ \/ /\ Len(pcm) < PCMSize
        /\ pcm' = Append(pcm, WorkerEvent(IF worker.job.turnDone THEN "turnDone" ELSE "terminal"))
     \/ ctxDone /\ pcm' = pcm
  /\ worker' = Resting /\ registered' = FALSE
  /\ UNCHANGED <<jobs, cancelled, loopVars>>

WorkerExits ==
  /\ worker.pc = "idle" /\ jobs = <<>> /\ jobsClosed
  /\ worker' = [worker EXCEPT !.pc = "exited"]
  /\ UNCHANGED <<jobs, pcm, registered, cancelled, loopVars>>

-----------------------------------------------------------------------------
Inputs == TakeText \/ TakeDone \/ TakeOther \/ TakeBargeIn \/ InputCloses
WorkerSteps == \/ TakeJob \/ Begin \/ Callback \/ SendAudio \/ SpeakReturns \/ EndJob
               \/ WorkerExits
Ending == DrainEnds \/ LeaveOnContext \/ Return

Next == Inputs \/ Drop \/ Interrupt \/ TakePCM \/ WorkerSteps \/ ContextEnds \/ Ending \/ Deliver

Spec == Init /\ [][Next]_vars

(* Goroutines are scheduled, a select takes each of its ready cases again  *)
(* and again, a synthesizer comes to an end, and downstream reads.         *)
Fairness == /\ WF_vars(WorkerSteps) /\ SF_vars(SpeakReturns) /\ SF_vars(TakePCM)
            /\ SF_vars(LeaveOnContext) /\ WF_vars(Ending)
            /\ WF_vars(Drop) /\ WF_vars(Interrupt) /\ WF_vars(Deliver)

FairSpec == Spec /\ Fairness

-----------------------------------------------------------------------------
(* Properties.                                                             *)

Waiting == {pcm[i] : i \in 1..Len(pcm)}
Passing(ev) == TakePCM /\ ev = Head(pcm) /\ Audible(ev)

\* A segment that was being spoken when the user barged in is not heard any
\* more: neither what the synthesizer still delivers nor what was on its way.
BegunSpeechStops == [][\A ev \in Waiting : Passing(ev) => ev.begun = bargeIns]_vars

\* Text queued before a barge-in is not heard after it: the jobs left over are
\* dropped, so that they do not set ttsPlaying again and cause a second barge-in.
InterruptedTextIsSilent == [][\A ev \in Waiting : Passing(ev) => ev.queued = bargeIns]_vars

\* The end of a reply's speech, queued since the last barge-in.
IsEnd(j) == j.turnDone /\ j.queued = bargeIns
Occupied == worker.pc \in {"taken", "speaking", "offering", "ending"}
EndUnderway == \/ Occupied /\ IsEnd(worker.job)
               \/ \E i \in 1..Len(jobs) : IsEnd(jobs[i])
               \/ \E i \in 1..Len(pcm) : pcm[i].kind = "turnDone" /\ pcm[i].queued = bargeIns

\* An AITextDone is held back only as long as the end of speech that will let
\* it go is on its way - in the queue, at the worker or in the channel - unless
\* the full queue dropped that end: neither a barge-in nor another reply's end
\* leaves the flag up with nothing to come.
HeldDoneHasItsEnd ==
  pendingTurnDone /\ loop = "select" /\ ~ctxDone /\ ~lostDone => EndUnderway

\* While the end of a reply's speech is on its way, its AITextDone is held: the
\* turn boundary comes after the audible output, of every reply.
DoneFollowsSpeech ==
  EndUnderway /\ loop = "select" /\ ~ctxDone => pendingTurnDone

\* When the input closes, everything queued is spoken and passed on before the
\* stage returns, the held AITextDone included.
CloseSpeaksAll ==
  loop \in {"leaving", "returned"} /\ ~ctxDone =>
    jobs = <<>> /\ pcm = <<>> /\ ~pendingTurnDone /\ worker.pc = "exited"

\* Run returns once the input closes or the call ends, with its worker, however
\* full the channels between them are.
RunReturns == loop = "draining" \/ ctxDone ~> loop = "returned"
=============================================================================

---------------------------- MODULE TTSStageProofs ----------------------------
(***************************************************************************)
(* The TTS stage with any number of barge-ins and channels of any size:    *)
(* the inductive invariant behind its safety properties.  Then the call    *)
(* around it: it implements the stage, and on the way to the caller speech *)
(* and barge-ins stay in order.                                            *)
(***************************************************************************)
EXTENDS CascadedCall, SequenceTheorems, TLAPS

-----------------------------------------------------------------------------
(* The inductive invariant.                                                *)

\* Between the two halves of a barge-in there is room for a new number, and for
\* the frame that is passed on; so it is while the full queue is dealt with.
Halfway ==
  /\ loop = "interrupting" => bargeIns < MaxBargeIns /\ currentTID < MaxTID
  /\ loop \in {"interrupting"} \cup Dropping => backlog <= OutSize

\* A turn number belongs to one stretch between barge-ins: what carries the
\* current one, in the channel...
EventEpoch ==
  \A i \in 1..Len(pcm) : /\ pcm[i].tid <= currentTID
                         /\ pcm[i].tid = currentTID => pcm[i].begun = bargeIns

\* ...or still at the worker, was begun after the last barge-in.
WorkerEpoch ==
  worker.pc \in {"speaking", "offering", "ending"} /\ worker.tid = currentTID
    => worker.begun = bargeIns

\* What the worker and the loop waited for before they left.
Teardown ==
  /\ loop \in {"select", "interrupting"} \cup Dropping => ~jobsClosed
  /\ worker.pc = "exited" => jobsClosed /\ jobs = <<>>
  /\ loop \in {"leaving", "returned"} /\ ~ctxDone =>
       worker.pc = "exited" /\ pcm = <<>> /\ ~pendingTurnDone

IInv == TTSTypeOK /\ Halfway /\ EventEpoch /\ WorkerEpoch /\ Teardown

-----------------------------------------------------------------------------
(* What is put into the channels.                                          *)

\* What is queued, at the worker and in the channel is what it should be.
LEMMA StageTyped ==
  ASSUME TTSTypeOK
  PROVE  /\ jobs \in Seq(Job) /\ Len(jobs) \in Nat /\ Len(jobs) <= JobSize
         /\ pcm \in Seq(Event) /\ Len(pcm) \in Nat
         /\ worker.job \in Job /\ bargeIns \in Nat /\ bargeIns \in Epoch
         /\ \A i \in 1..Len(jobs) : jobs[i] \in Job /\ jobs[i].queued \in Nat
         /\ lostDone \in BOOLEAN
<1>1. /\ jobs \in Seq(Job) /\ Len(jobs) <= JobSize /\ pcm \in Seq(Event)
      /\ worker.job \in Job /\ bargeIns \in Epoch /\ lostDone \in BOOLEAN
  BY DEF TTSTypeOK, LoopTypeOK, ChannelTypeOK, WorkerTypeOK
<1>2. Len(jobs) \in Nat /\ Len(pcm) \in Nat
  BY <1>1, LenProperties
<1>3. \A i \in 1..Len(jobs) : jobs[i] \in Job /\ jobs[i].queued \in Nat
  <2>1. \A i \in 1..Len(jobs) : jobs[i] \in Job
    BY <1>1, ElementOfSeq
  <2> QED BY <2>1 DEF Job, Epoch
<1> QED BY <1>1, <1>2, <1>3 DEF Epoch

\* Whatever dispatchSpeak does with a job, the queue stays within its bound.
LEMMA SpeakTyped ==
  ASSUME TTSTypeOK, NEW turnDone \in BOOLEAN, Speak(turnDone)
  PROVE  jobs' \in Seq(Job) /\ Len(jobs') <= JobSize /\ loop' \in {loop} \cup Dropping
<1> DEFINE j == [turnDone |-> turnDone, queued |-> bargeIns]
<1>1. j \in Job /\ jobs \in Seq(Job) /\ Len(jobs) \in Nat /\ Len(jobs) <= JobSize
  BY StageTyped DEF Job
<1>2. DispatchSpeak(j)
  BY DEF Speak
<1> HIDE DEF j
<1>3. CASE Len(jobs) < JobSize /\ jobs' = Append(jobs, j) /\ UNCHANGED loop
  BY <1>1, <1>3, AppendProperties, TTSAssumption
<1>4. CASE loop' \in {loop} \cup Dropping /\ UNCHANGED jobs
  BY <1>1, <1>4
<1> QED BY <1>2, <1>3, <1>4 DEF DispatchSpeak, Dropping

\* Neither does making room for it, whatever the worker took in the meantime.
LEMMA DropTyped ==
  ASSUME TTSTypeOK, Drop
  PROVE  jobs' \in Seq(Job) /\ Len(jobs') <= JobSize /\ lostDone' \in BOOLEAN
<1> DEFINE j == [turnDone |-> loop = "droppingDone", queued |-> bargeIns]
           rest == IF jobs = <<>> THEN <<>> ELSE Tail(jobs)
<1>1. j \in Job /\ jobs \in Seq(Job) /\ Len(jobs) \in Nat /\ Len(jobs) <= JobSize
  BY StageTyped DEF Job
<1>2. rest \in Seq(Job) /\ Len(rest) \in Nat /\ Len(rest) < JobSize
  <2>1. CASE jobs = <<>>
    BY <2>1, EmptySeq, TTSAssumption
  <2>2. CASE jobs # <<>>
    BY <1>1, <2>2, HeadTailProperties, EmptySeq, TTSAssumption
  <2> QED BY <2>1, <2>2
<1>3. jobs' = Append(rest, j) \/ jobs' = rest
  BY DEF Drop
<1>4. lostDone' \in BOOLEAN
  BY DEF Drop
<1> HIDE DEF j, rest
<1>5. Append(rest, j) \in Seq(Job) /\ Len(Append(rest, j)) = Len(rest) + 1
  BY <1>1, <1>2, AppendProperties
<1> QED BY <1>2, <1>3, <1>4, <1>5, TTSAssumption

\* An event of the worker is one the loop can take, and of the worker's turn.
LEMMA EventTyped ==
  ASSUME TTSTypeOK, NEW kind \in Kind
  PROVE  /\ WorkerEvent(kind) \in Event
         /\ WorkerEvent(kind).tid = worker.tid /\ WorkerEvent(kind).begun = worker.begun
<1>1. worker.tid \in 0..MaxTID
  BY TTSAssumption DEF TTSTypeOK, LoopTypeOK, WorkerTypeOK
<1>2. worker.job.queued \in Epoch /\ worker.begun \in Epoch
  BY DEF TTSTypeOK, WorkerTypeOK, Job
<1> QED BY <1>1, <1>2 DEF WorkerEvent, Event

\* The channel's events carry turn numbers.
LEMMA InChannel ==
  ASSUME TTSTypeOK
  PROVE  Len(pcm) \in Nat /\ \A i \in 1..Len(pcm) : pcm[i] \in Event /\ pcm[i].tid \in Nat
<1>1. Len(pcm) \in Nat
  BY LenProperties
<1>2. \A i \in 1..Len(pcm) : pcm[i] \in Event
  BY ElementOfSeq DEF TTSTypeOK, ChannelTypeOK
<1> QED BY <1>1, <1>2 DEF Event

\* An event of the worker added to the channel.
LEMMA EventAdded ==
  ASSUME IInv, NEW kind \in Kind, Len(pcm) < PCMSize, pcm' = Append(pcm, WorkerEvent(kind)),
         worker.pc \in {"offering", "ending"}, UNCHANGED <<currentTID, bargeIns>>
  PROVE  pcm' \in Seq(Event) /\ Len(pcm') <= PCMSize /\ EventEpoch'
<1> DEFINE e == WorkerEvent(kind)
<1>1. e \in Event /\ e.tid = worker.tid /\ e.begun = worker.begun
  BY EventTyped DEF IInv
<1>2. Len(pcm) \in Nat /\ pcm \in Seq(Event)
  BY InChannel DEF IInv, TTSTypeOK, ChannelTypeOK
<1>3. worker.tid <= currentTID /\ (worker.tid = currentTID => worker.begun = bargeIns)
  BY DEF IInv, TTSTypeOK, WorkerTypeOK, WorkerEpoch
<1> HIDE DEF e
<1>4. /\ pcm' \in Seq(Event) /\ Len(pcm') = Len(pcm) + 1
      /\ \A i \in 1..Len(pcm) : pcm'[i] = pcm[i]
      /\ pcm'[Len(pcm) + 1] = e
  BY <1>1, <1>2, AppendProperties DEF e
<1>5. Len(pcm') <= PCMSize
  BY <1>2, <1>4, TTSAssumption
<1>6. ASSUME NEW i \in 1..Len(pcm')
      PROVE  /\ pcm'[i].tid <= currentTID
             /\ pcm'[i].tid = currentTID => pcm'[i].begun = bargeIns
  <2>1. CASE i \in 1..Len(pcm)
    BY <1>4, <2>1 DEF IInv, EventEpoch
  <2>2. CASE i = Len(pcm) + 1
    BY <1>1, <1>3, <1>4, <2>2
  <2> QED BY <1>2, <1>4, <2>1, <2>2
<1>7. EventEpoch'
  BY <1>6 DEF EventEpoch
<1> QED BY <1>4, <1>5, <1>7

-----------------------------------------------------------------------------
(* Every step keeps the invariant.                                         *)

\* One step per arm of the select, of the teardown and of the worker.
LEMMA StepInv == IInv /\ [Next]_vars => IInv'
<1> SUFFICES ASSUME IInv, [Next]_vars PROVE IInv'
  OBVIOUS
<1> USE TTSAssumption DEF IInv, Dropping
<1>1. ASSUME TakeText PROVE IInv'
  <2>1. /\ loop = "select" /\ backlog <= OutSize
        /\ UNCHANGED <<jobsClosed, pcm, workVars, ctxDone, ghosts>>
    BY <1>1 DEF TakeText, Selecting, Unblocked
  <2>2. jobs' \in Seq(Job) /\ Len(jobs') <= JobSize /\ loop' \in {"select"} \cup Dropping
    BY <1>1, <2>1, SpeakTyped DEF TakeText, Push, TTSTypeOK, LoopTypeOK, ChannelTypeOK
  <2>3. /\ currentTID' \in {currentTID, currentTID + 1} /\ currentTID' \in 0..MaxTID
        /\ residue' \in BOOLEAN /\ needNewTurnID' = FALSE /\ pendingTurnDone' = pendingTurnDone
        /\ backlog' = backlog + (IF loop' \in Dropping THEN 0 ELSE 1)
    <3>1. currentTID \in 0..MaxTID /\ residue \in BOOLEAN /\ needNewTurnID \in BOOLEAN
      BY DEF TTSTypeOK, LoopTypeOK
    <3>2. /\ needNewTurnID => currentTID < MaxTID
          /\ currentTID' = IF needNewTurnID THEN currentTID + 1 ELSE currentTID
          /\ needNewTurnID' = FALSE /\ pendingTurnDone' = pendingTurnDone
          /\ backlog' = backlog + (IF loop' \in Dropping THEN 0 ELSE 1)
      BY <1>1 DEF TakeText, Forward
    <3>3. Push(residue /\ ~needNewTurnID)
      BY <1>1 DEF TakeText
    <3>4. residue' \in BOOLEAN
      BY <3>1, <3>3 DEF Push
    <3>5. currentTID' \in {currentTID, currentTID + 1} /\ currentTID' \in 0..MaxTID
      BY <3>1, <3>2
    <3> QED BY <3>2, <3>4, <3>5
  <2>4. LoopTypeOK'
    <3>1. backlog \in Nat
      BY DEF TTSTypeOK, LoopTypeOK
    <3>2. backlog' \in 0..OutSize + 1
      BY <2>1, <2>3, <3>1
    <3> QED BY <2>1, <2>2, <2>3, <3>2 DEF TTSTypeOK, LoopTypeOK, ghosts
  <2>5. ChannelTypeOK'
    BY <2>1, <2>2 DEF TTSTypeOK, ChannelTypeOK
  <2>6. WorkerTypeOK'
    <3>1. 0..currentTID \subseteq 0..currentTID'
      BY <2>3 DEF TTSTypeOK, LoopTypeOK
    <3>2. worker \in [pc : {"idle", "taken", "speaking", "offering", "ending", "exited"},
                      job : Job, tid : 0..currentTID', begun : Epoch]
      BY <3>1 DEF TTSTypeOK, WorkerTypeOK
    <3> QED BY <2>1, <3>2 DEF TTSTypeOK, WorkerTypeOK, workVars
  <2>7. Halfway'
    <3>1. loop' \in Dropping => backlog' = backlog
      BY <2>3 DEF TTSTypeOK, LoopTypeOK
    <3> QED BY <2>1, <2>2, <3>1 DEF Halfway
  <2>8. EventEpoch'
    BY <2>1, <2>3, InChannel DEF EventEpoch, ghosts
  <2>9. WorkerEpoch'
    BY <2>1, <2>3 DEF WorkerEpoch, workVars, ghosts, TTSTypeOK, WorkerTypeOK
  <2>10. Teardown'
    BY <2>1, <2>2 DEF Teardown, workVars
  <2> QED BY <2>4, <2>5, <2>6, <2>7, <2>8, <2>9, <2>10 DEF TTSTypeOK
<1>2. ASSUME TakeDone PROVE IInv'
  <2>1. /\ loop = "select" /\ backlog <= OutSize
        /\ UNCHANGED <<jobsClosed, pcm, workVars, ctxDone, ghosts>>
    BY <1>2 DEF TakeDone, Selecting, Unblocked
  <2>2. jobs' \in Seq(Job) /\ Len(jobs') <= JobSize /\ loop' \in {"select"} \cup Dropping
    BY <1>2, <2>1, SpeakTyped DEF TakeDone, Complete
  <2>3. /\ currentTID' = currentTID /\ backlog' = backlog
        /\ residue' = FALSE /\ needNewTurnID' = TRUE /\ pendingTurnDone' = TRUE
    BY <1>2 DEF TakeDone
  <2>4. LoopTypeOK'
    BY <2>1, <2>2, <2>3 DEF TTSTypeOK, LoopTypeOK, ghosts
  <2>5. ChannelTypeOK'
    BY <2>1, <2>2 DEF TTSTypeOK, ChannelTypeOK
  <2>6. WorkerTypeOK'
    BY <2>1, <2>3 DEF TTSTypeOK, WorkerTypeOK, workVars
  <2>7. Halfway'
    BY <2>1, <2>2, <2>3 DEF Halfway
  <2>8. EventEpoch'
    BY <2>1, <2>3, InChannel DEF EventEpoch, ghosts
  <2>9. WorkerEpoch'
    BY <2>1, <2>3 DEF WorkerEpoch, workVars, ghosts
  <2>10. Teardown'
    BY <2>1, <2>2 DEF Teardown, workVars
  <2> QED BY <2>4, <2>5, <2>6, <2>7, <2>8, <2>9, <2>10 DEF TTSTypeOK
<1>3. ASSUME TakeOther PROVE IInv'
  <2> USE <1>3 DEF TakeOther, Selecting, Unblocked, Forward, textVars, workVars, ghosts
  <2>1. LoopTypeOK'
    BY DEF TTSTypeOK, LoopTypeOK
  <2>2. ChannelTypeOK'
    BY DEF TTSTypeOK, ChannelTypeOK
  <2>3. WorkerTypeOK'
    BY DEF TTSTypeOK, WorkerTypeOK
  <2>4. Halfway'
    BY DEF Halfway
  <2>5. EventEpoch'
    BY DEF EventEpoch
  <2>6. WorkerEpoch'
    BY DEF WorkerEpoch
  <2>7. Teardown'
    BY DEF Teardown
  <2> QED BY <2>1, <2>2, <2>3, <2>4, <2>5, <2>6, <2>7 DEF TTSTypeOK
<1>4. ASSUME TakeBargeIn PROVE IInv'
  <2> USE <1>4 DEF TakeBargeIn, Selecting, Unblocked, CancelInFlight, ghosts
  <2>1. LoopTypeOK'
    BY DEF TTSTypeOK, LoopTypeOK
  <2>2. ChannelTypeOK'
    BY DEF TTSTypeOK, ChannelTypeOK
  <2>3. WorkerTypeOK'
    BY DEF TTSTypeOK, WorkerTypeOK
  <2>4. Halfway'
    BY DEF Halfway
  <2>5. EventEpoch'
    BY DEF EventEpoch
  <2>6. WorkerEpoch'
    BY DEF WorkerEpoch
  <2>7. Teardown'
    BY DEF Teardown
  <2> QED BY <2>1, <2>2, <2>3, <2>4, <2>5, <2>6, <2>7 DEF TTSTypeOK
<1>5. ASSUME InputCloses PROVE IInv'
  <2> USE <1>5 DEF InputCloses, Selecting, Unblocked, textVars, workVars, ghosts
  <2>1. LoopTypeOK'
    BY DEF TTSTypeOK, LoopTypeOK
  <2>2. ChannelTypeOK'
    BY DEF TTSTypeOK, ChannelTypeOK
  <2>3. WorkerTypeOK'
    BY DEF TTSTypeOK, WorkerTypeOK
  <2>4. Halfway'
    BY DEF Halfway
  <2>5. EventEpoch'
    BY DEF EventEpoch
  <2>6. WorkerEpoch'
    BY DEF WorkerEpoch
  <2>7. Teardown'
    BY DEF Teardown
  <2> QED BY <2>1, <2>2, <2>3, <2>4, <2>5, <2>6, <2>7 DEF TTSTypeOK
<1>6. ASSUME Interrupt PROVE IInv'
  <2> USE <1>6 DEF Interrupt, Forward, textVars, workVars
  <2>1. LoopTypeOK'
    <3>1. bargeIns' \in Epoch /\ currentTID' \in 0..MaxTID
      BY DEF TTSTypeOK, LoopTypeOK, Epoch, Halfway
    <3>2. backlog' \in 0..OutSize + 1
      BY DEF TTSTypeOK, LoopTypeOK, Halfway
    <3> QED BY <3>1, <3>2 DEF TTSTypeOK, LoopTypeOK
  <2>2. ChannelTypeOK'
    BY DEF TTSTypeOK, ChannelTypeOK
  <2>3. WorkerTypeOK'
    BY DEF TTSTypeOK, WorkerTypeOK, LoopTypeOK
  <2>4. Halfway'
    BY DEF Halfway
  <2>5. EventEpoch'
    BY DEF EventEpoch
  <2>6. WorkerEpoch'
    BY DEF TTSTypeOK, LoopTypeOK, WorkerTypeOK, WorkerEpoch
  <2>7. Teardown'
    BY DEF Teardown
  <2> QED BY <2>1, <2>2, <2>3, <2>4, <2>5, <2>6, <2>7 DEF TTSTypeOK
<1>7. ASSUME TakePCM PROVE IInv'
  <2> USE <1>7 DEF TakePCM, Unblocked, Forward, textVars, workVars, ghosts
  <2>1. LoopTypeOK'
    BY DEF TTSTypeOK, LoopTypeOK
  <2>2. ChannelTypeOK'
    BY DEF TTSTypeOK, ChannelTypeOK
  <2>3. WorkerTypeOK'
    BY DEF TTSTypeOK, WorkerTypeOK
  <2>4. Halfway'
    BY DEF Halfway
  <2>5. EventEpoch'
    BY DEF EventEpoch
  <2>6. WorkerEpoch'
    BY DEF WorkerEpoch
  <2>7. Teardown'
    BY DEF Teardown
  <2> QED BY <2>1, <2>2, <2>3, <2>4, <2>5, <2>6, <2>7 DEF TTSTypeOK
<1>8. ASSUME TakeJob PROVE IInv'
  <2> USE <1>8 DEF TakeJob, loopVars, textVars, ghosts
  <2>1. LoopTypeOK'
    BY DEF TTSTypeOK, LoopTypeOK
  <2>2. ChannelTypeOK'
    BY DEF TTSTypeOK, ChannelTypeOK
  <2>3. WorkerTypeOK'
    <3>1. Head(jobs) \in Job
      BY HeadTailProperties DEF TTSTypeOK, ChannelTypeOK
    <3> QED BY <3>1 DEF TTSTypeOK, WorkerTypeOK
  <2>4. Halfway'
    BY DEF Halfway
  <2>5. EventEpoch'
    BY DEF EventEpoch
  <2>6. WorkerEpoch'
    BY DEF WorkerEpoch
  <2>7. Teardown'
    BY DEF Teardown
  <2> QED BY <2>1, <2>2, <2>3, <2>4, <2>5, <2>6, <2>7 DEF TTSTypeOK
<1>9. ASSUME Begin PROVE IInv'
  <2> USE <1>9 DEF Begin, loopVars, textVars, ghosts
  <2>1. LoopTypeOK'
    BY DEF TTSTypeOK, LoopTypeOK
  <2>2. ChannelTypeOK'
    BY DEF TTSTypeOK, ChannelTypeOK
  <2>3. WorkerTypeOK'
    <3>1. currentTID \in 0..currentTID /\ bargeIns \in Epoch
      BY DEF TTSTypeOK, LoopTypeOK
    <3> QED BY <3>1 DEF TTSTypeOK, WorkerTypeOK
  <2>4. Halfway'
    BY DEF Halfway
  <2>5. EventEpoch'
    BY DEF EventEpoch
  <2>6. WorkerEpoch'
    BY DEF WorkerEpoch
  <2>7. Teardown'
    BY DEF Teardown
  <2> QED BY <2>1, <2>2, <2>3, <2>4, <2>5, <2>6, <2>7 DEF TTSTypeOK
<1>10. ASSUME Callback PROVE IInv'
  <2> USE <1>10 DEF Callback, Over, loopVars, textVars, ghosts
  <2>1. LoopTypeOK'
    BY DEF TTSTypeOK, LoopTypeOK
  <2>2. ChannelTypeOK'
    BY DEF TTSTypeOK, ChannelTypeOK
  <2>3. WorkerTypeOK'
    BY DEF TTSTypeOK, WorkerTypeOK
  <2>4. Halfway'
    BY DEF Halfway
  <2>5. EventEpoch'
    BY DEF EventEpoch
  <2>6. WorkerEpoch'
    BY DEF WorkerEpoch
  <2>7. Teardown'
    BY DEF Teardown
  <2> QED BY <2>1, <2>2, <2>3, <2>4, <2>5, <2>6, <2>7 DEF TTSTypeOK
<1>11. ASSUME SendAudio PROVE IInv'
  <2> USE <1>11 DEF SendAudio, WorkerEvent, loopVars, textVars, ghosts
  <2>1. LoopTypeOK'
    BY DEF TTSTypeOK, LoopTypeOK
  <2>2. ChannelTypeOK'
    BY DEF TTSTypeOK, ChannelTypeOK, WorkerTypeOK, LoopTypeOK, Job, Event, Kind
  <2>3. WorkerTypeOK'
    BY DEF TTSTypeOK, WorkerTypeOK, Epoch
  <2>4. Halfway'
    BY DEF Halfway
  <2>5. EventEpoch'
    BY DEF TTSTypeOK, WorkerTypeOK, EventEpoch, WorkerEpoch
  <2>6. WorkerEpoch'
    BY DEF WorkerEpoch
  <2>7. Teardown'
    BY DEF Teardown
  <2> QED BY <2>1, <2>2, <2>3, <2>4, <2>5, <2>6, <2>7 DEF TTSTypeOK
<1>12. ASSUME SpeakReturns PROVE IInv'
  <2> USE <1>12 DEF SpeakReturns, loopVars, textVars, ghosts
  <2>1. LoopTypeOK'
    BY DEF TTSTypeOK, LoopTypeOK
  <2>2. ChannelTypeOK'
    BY DEF TTSTypeOK, ChannelTypeOK
  <2>3. WorkerTypeOK'
    BY DEF TTSTypeOK, WorkerTypeOK
  <2>4. Halfway'
    BY DEF Halfway
  <2>5. EventEpoch'
    BY DEF EventEpoch
  <2>6. WorkerEpoch'
    BY DEF WorkerEpoch
  <2>7. Teardown'
    BY DEF Teardown
  <2> QED BY <2>1, <2>2, <2>3, <2>4, <2>5, <2>6, <2>7 DEF TTSTypeOK
<1>13. ASSUME EndJob PROVE IInv'
  <2>1. /\ worker.pc = "ending" /\ worker' = Resting /\ registered' = FALSE
        /\ UNCHANGED <<jobs, cancelled, loopVars>>
    BY <1>13 DEF EndJob
  <2>2. \/ UNCHANGED pcm
        \/ \E kind \in Kind : Len(pcm) < PCMSize /\ pcm' = Append(pcm, WorkerEvent(kind))
    BY <1>13 DEF EndJob, Kind
  <2>3. pcm' \in Seq(Event) /\ Len(pcm') <= PCMSize /\ EventEpoch'
    <3>1. CASE UNCHANGED pcm
      BY <2>1, <3>1 DEF TTSTypeOK, ChannelTypeOK, EventEpoch, loopVars, ghosts
    <3>2. ASSUME NEW kind \in Kind, Len(pcm) < PCMSize, pcm' = Append(pcm, WorkerEvent(kind))
          PROVE  pcm' \in Seq(Event) /\ Len(pcm') <= PCMSize /\ EventEpoch'
      BY <2>1, <3>2, EventAdded DEF loopVars, ghosts
    <3> QED BY <2>2, <3>1, <3>2
  <2>4. LoopTypeOK' /\ ChannelTypeOK'
    BY <2>1, <2>3 DEF TTSTypeOK, LoopTypeOK, ChannelTypeOK, loopVars, textVars, ghosts
  <2>5. WorkerTypeOK'
    <3>1. Resting \in [pc : {"idle"}, job : Job, tid : {0}, begun : {0}]
      BY TTSAssumption DEF Resting, Job, Epoch
    <3>2. 0 \in 0..currentTID /\ 0 \in Epoch
      BY TTSAssumption DEF TTSTypeOK, LoopTypeOK, Epoch
    <3> QED BY <2>1, <3>1, <3>2 DEF TTSTypeOK, WorkerTypeOK, loopVars
  <2>6. Halfway' /\ WorkerEpoch'
    BY <2>1 DEF Halfway, WorkerEpoch, Resting, loopVars, ghosts
  <2>7. Teardown'
    BY <2>1 DEF Teardown, Resting, loopVars
  <2> QED BY <2>3, <2>4, <2>5, <2>6, <2>7 DEF TTSTypeOK
<1>14. ASSUME WorkerExits PROVE IInv'
  <2> USE <1>14 DEF WorkerExits, loopVars, textVars, ghosts
  <2>1. LoopTypeOK'
    BY DEF TTSTypeOK, LoopTypeOK
  <2>2. ChannelTypeOK'
    BY DEF TTSTypeOK, ChannelTypeOK
  <2>3. WorkerTypeOK'
    BY DEF TTSTypeOK, WorkerTypeOK
  <2>4. Halfway'
    BY DEF Halfway
  <2>5. EventEpoch'
    BY DEF EventEpoch
  <2>6. WorkerEpoch'
    BY DEF WorkerEpoch
  <2>7. Teardown'
    BY DEF Teardown
  <2> QED BY <2>1, <2>2, <2>3, <2>4, <2>5, <2>6, <2>7 DEF TTSTypeOK
<1>15. ASSUME ContextEnds PROVE IInv'
  <2> USE <1>15 DEF ContextEnds, textVars, workVars, ghosts
  <2>1. LoopTypeOK'
    BY DEF TTSTypeOK, LoopTypeOK
  <2>2. ChannelTypeOK'
    BY DEF TTSTypeOK, ChannelTypeOK
  <2>3. WorkerTypeOK'
    BY DEF TTSTypeOK, WorkerTypeOK
  <2>4. Halfway'
    BY DEF Halfway
  <2>5. EventEpoch'
    BY DEF EventEpoch
  <2>6. WorkerEpoch'
    BY DEF WorkerEpoch
  <2>7. Teardown'
    BY DEF Teardown
  <2> QED BY <2>1, <2>2, <2>3, <2>4, <2>5, <2>6, <2>7 DEF TTSTypeOK
<1>16. ASSUME DrainEnds PROVE IInv'
  <2> USE <1>16 DEF DrainEnds, Unblocked, Forward, textVars, workVars, ghosts
  <2>1. LoopTypeOK'
    <3>1. backlog <= OutSize /\ backlog' \in {backlog, backlog + 1}
      BY DEF TTSTypeOK, LoopTypeOK
    <3>2. backlog' \in 0..OutSize + 1
      BY <3>1 DEF TTSTypeOK, LoopTypeOK
    <3> QED BY <3>2 DEF TTSTypeOK, LoopTypeOK
  <2>2. ChannelTypeOK'
    BY DEF TTSTypeOK, ChannelTypeOK
  <2>3. WorkerTypeOK'
    BY DEF TTSTypeOK, WorkerTypeOK
  <2>4. Halfway'
    BY DEF Halfway
  <2>5. EventEpoch'
    BY DEF EventEpoch
  <2>6. WorkerEpoch'
    BY DEF WorkerEpoch
  <2>7. Teardown'
    BY DEF Teardown
  <2> QED BY <2>1, <2>2, <2>3, <2>4, <2>5, <2>6, <2>7 DEF TTSTypeOK
<1>17. ASSUME LeaveOnContext PROVE IInv'
  <2> USE <1>17 DEF LeaveOnContext, CancelInFlight, textVars, ghosts
  <2>1. LoopTypeOK'
    BY DEF TTSTypeOK, LoopTypeOK
  <2>2. ChannelTypeOK'
    BY DEF TTSTypeOK, ChannelTypeOK
  <2>3. WorkerTypeOK'
    BY DEF TTSTypeOK, WorkerTypeOK
  <2>4. Halfway'
    BY DEF Halfway
  <2>5. EventEpoch'
    BY DEF EventEpoch
  <2>6. WorkerEpoch'
    BY DEF WorkerEpoch
  <2>7. Teardown'
    BY DEF Teardown
  <2> QED BY <2>1, <2>2, <2>3, <2>4, <2>5, <2>6, <2>7 DEF TTSTypeOK
<1>18. ASSUME Return PROVE IInv'
  <2> USE <1>18 DEF Return, textVars, workVars, ghosts
  <2>1. LoopTypeOK'
    BY DEF TTSTypeOK, LoopTypeOK
  <2>2. ChannelTypeOK'
    BY DEF TTSTypeOK, ChannelTypeOK
  <2>3. WorkerTypeOK'
    BY DEF TTSTypeOK, WorkerTypeOK
  <2>4. Halfway'
    BY DEF Halfway
  <2>5. EventEpoch'
    BY DEF EventEpoch
  <2>6. WorkerEpoch'
    BY DEF WorkerEpoch
  <2>7. Teardown'
    BY DEF Teardown
  <2> QED BY <2>1, <2>2, <2>3, <2>4, <2>5, <2>6, <2>7 DEF TTSTypeOK
<1>19. ASSUME Deliver PROVE IInv'
  <2> USE <1>19 DEF Deliver, textVars, workVars, ghosts
  <2>1. LoopTypeOK'
    BY DEF TTSTypeOK, LoopTypeOK
  <2>2. ChannelTypeOK'
    BY DEF TTSTypeOK, ChannelTypeOK
  <2>3. WorkerTypeOK'
    BY DEF TTSTypeOK, WorkerTypeOK
  <2>4. Halfway'
    BY DEF TTSTypeOK, LoopTypeOK, Halfway
  <2>5. EventEpoch'
    BY DEF EventEpoch
  <2>6. WorkerEpoch'
    BY DEF WorkerEpoch
  <2>7. Teardown'
    BY DEF Teardown
  <2> QED BY <2>1, <2>2, <2>3, <2>4, <2>5, <2>6, <2>7 DEF TTSTypeOK
<1>20. ASSUME UNCHANGED vars PROVE IInv'
  <2> USE <1>20 DEF vars, textVars, workVars, ghosts
  <2>1. LoopTypeOK'
    BY DEF TTSTypeOK, LoopTypeOK
  <2>2. ChannelTypeOK'
    BY DEF TTSTypeOK, ChannelTypeOK
  <2>3. WorkerTypeOK'
    BY DEF TTSTypeOK, WorkerTypeOK
  <2>4. Halfway'
    BY DEF Halfway
  <2>5. EventEpoch'
    BY DEF EventEpoch
  <2>6. WorkerEpoch'
    BY DEF WorkerEpoch
  <2>7. Teardown'
    BY DEF Teardown
  <2> QED BY <2>1, <2>2, <2>3, <2>4, <2>5, <2>6, <2>7 DEF TTSTypeOK
<1>21. ASSUME Drop PROVE IInv'
  <2>1. jobs' \in Seq(Job) /\ Len(jobs') <= JobSize /\ lostDone' \in BOOLEAN
    BY <1>21, DropTyped
  <2>2. /\ loop \in Dropping /\ loop' = "select" /\ backlog' \in {backlog, backlog + 1}
        /\ UNCHANGED <<currentTID, textVars, pendingTurnDone, jobsClosed, pcm, workVars, ctxDone,
                       bargeIns>>
    BY <1>21 DEF Drop, Forward, TTSTypeOK, LoopTypeOK
  <2> HIDE DEF Dropping
  <2>3. LoopTypeOK'
    <3>1. backlog' \in 0..OutSize + 1
      BY <2>2 DEF TTSTypeOK, LoopTypeOK, Halfway
    <3> QED BY <2>1, <2>2, <3>1 DEF TTSTypeOK, LoopTypeOK, textVars
  <2>4. ChannelTypeOK'
    BY <2>1, <2>2 DEF TTSTypeOK, ChannelTypeOK
  <2>5. WorkerTypeOK'
    BY <2>2 DEF TTSTypeOK, WorkerTypeOK, workVars
  <2>6. Halfway'
    BY <2>2 DEF Halfway, Dropping
  <2>7. EventEpoch' /\ WorkerEpoch'
    BY <2>2 DEF EventEpoch, WorkerEpoch, workVars
  <2>8. Teardown'
    BY <2>2 DEF Teardown, workVars
  <2> QED BY <2>3, <2>4, <2>5, <2>6, <2>7, <2>8 DEF TTSTypeOK
<1> QED BY <1>1, <1>2, <1>3, <1>4, <1>5, <1>6, <1>7, <1>8, <1>9, <1>10,
            <1>11, <1>12, <1>13, <1>14, <1>15, <1>16, <1>17, <1>18, <1>19,
            <1>20, <1>21 DEF Next, Inputs, WorkerSteps, Ending

\* Run starts within the invariant.
LEMMA InitInv == Init => IInv
<1> SUFFICES ASSUME Init PROVE IInv
  OBVIOUS
<1> USE TTSAssumption DEF Init
<1>1. LoopTypeOK
  <2>1. currentTID \in 0..MaxTID /\ backlog \in 0..OutSize + 1 /\ bargeIns \in Epoch
    BY DEF Epoch
  <2> QED BY <2>1 DEF LoopTypeOK
<1>2. ChannelTypeOK
  <2>1. jobs \in Seq(Job) /\ Len(jobs) = 0 /\ pcm \in Seq(Event) /\ Len(pcm) = 0
    BY EmptySeq
  <2>2. 0 <= JobSize /\ 0 <= PCMSize
    OBVIOUS
  <2> QED BY <2>1, <2>2 DEF ChannelTypeOK
<1>3. WorkerTypeOK
  <2>1. 0 \in Epoch
    BY DEF Epoch
  <2>2. Resting.job \in Job
    BY <2>1 DEF Resting, Job
  <2>3. worker.tid \in 0..currentTID /\ worker.begun \in Epoch
    BY <2>1 DEF Resting
  <2>4. worker \in [pc : {"idle", "taken", "speaking", "offering", "ending", "exited"},
                    job : Job, tid : 0..currentTID, begun : Epoch]
    BY <2>2, <2>3 DEF Resting
  <2> QED BY <2>4 DEF WorkerTypeOK
<1>4. Halfway /\ EventEpoch /\ WorkerEpoch /\ Teardown
  BY EmptySeq DEF Halfway, Dropping, EventEpoch, WorkerEpoch, Teardown, Resting
<1> QED BY <1>1, <1>2, <1>3, <1>4 DEF IInv, TTSTypeOK

-----------------------------------------------------------------------------
(* The theorems.                                                           *)

\* The inductive invariant holds throughout ttsStage.Run.
THEOREM TTSInvariance == Spec => []IInv
BY InitInv, StepInv, PTL DEF Spec

\* Every state is well typed: queues stay within their capacity, although
\* dispatchSpeak drops and re-offers jobs.
THEOREM TTSTypeCorrect == Spec => []TTSTypeOK
<1>1. IInv => TTSTypeOK
  BY DEF IInv
<1> QED BY <1>1, TTSInvariance, PTL

\* However the barge-in falls between the worker reading the turn number and
\* the loop taking its audio, speech begun before it is not passed on.
THEOREM BegunSpeechIsSilenced == Spec => BegunSpeechStops
<1>1. IInv /\ [Next]_vars => [\A ev \in Waiting : Passing(ev) => ev.begun = bargeIns]_vars
  <2> SUFFICES ASSUME IInv, NEW ev \in Waiting, Passing(ev)
               PROVE  ev.begun = bargeIns
    OBVIOUS
  <2>1. PICK i \in 1..Len(pcm) : ev = pcm[i]
    BY DEF Waiting
  <2>2. ev.tid = currentTID
    BY DEF Passing, Audible
  <2> QED BY <2>1, <2>2 DEF IInv, EventEpoch
<1> QED BY <1>1, TTSInvariance, PTL DEF Spec, BegunSpeechStops

\* The drain at the end of Run waits for worker, channel and held AITextDone.
THEOREM EverythingSpokenOnClose == Spec => []CloseSpeaksAll
<1>1. IInv => CloseSpeaksAll
  BY DEF IInv, Teardown, CloseSpeaksAll
<1> QED BY <1>1, TTSInvariance, PTL
-----------------------------------------------------------------------------
(* The AITextDone held back, and the end of speech that will let it go.    *)

\* dispatchSpeak puts the job last, or leaves the queue alone.
LEMMA JobLast ==
  ASSUME TTSTypeOK, NEW turnDone \in BOOLEAN, Speak(turnDone)
  PROVE  \/ /\ jobs' = jobs
            /\ (ctxDone /\ loop' = loop) \/ loop' = (IF turnDone THEN "droppingDone" ELSE "droppingText")
         \/ /\ Len(jobs') = Len(jobs) + 1 /\ loop' = loop
            /\ jobs'[Len(jobs')] = [turnDone |-> turnDone, queued |-> bargeIns]
            /\ \A i \in 1..Len(jobs) : jobs'[i] = jobs[i]
<1> DEFINE j == [turnDone |-> turnDone, queued |-> bargeIns]
<1>1. j \in Job /\ jobs \in Seq(Job) /\ Len(jobs) \in Nat
  BY StageTyped DEF Job
<1>2. DispatchSpeak(j) /\ j.turnDone = turnDone
  BY DEF Speak
<1> HIDE DEF j
<1>3. CASE jobs' = Append(jobs, j) /\ loop' = loop
  BY <1>1, <1>3, AppendProperties DEF j
<1> QED BY <1>2, <1>3 DEF DispatchSpeak

\* The job that waited gets in last; only the oldest one may have gone.
LEMMA DropLast ==
  ASSUME TTSTypeOK, Drop
  PROVE  \/ ctxDone
         \/ \E n \in {0, 1} :
              /\ n <= Len(jobs) /\ Len(jobs') = Len(jobs) - n + 1
              /\ jobs'[Len(jobs')] = [turnDone |-> loop = "droppingDone", queued |-> bargeIns]
              /\ \A i \in 1 .. Len(jobs) - n : jobs'[i] = jobs[i + n]
              /\ n = 1 => lostDone' = (lostDone \/ jobs[1].turnDone)
<1> SUFFICES ASSUME ~ctxDone
             PROVE  \E n \in {0, 1} :
                      /\ n <= Len(jobs) /\ Len(jobs') = Len(jobs) - n + 1
                      /\ jobs'[Len(jobs')] = [turnDone |-> loop = "droppingDone", queued |-> bargeIns]
                      /\ \A i \in 1 .. Len(jobs) - n : jobs'[i] = jobs[i + n]
                      /\ n = 1 => lostDone' = (lostDone \/ jobs[1].turnDone)
  OBVIOUS
<1> DEFINE j == [turnDone |-> loop = "droppingDone", queued |-> bargeIns]
           rest == IF jobs = <<>> THEN <<>> ELSE Tail(jobs)
<1>1. j \in Job /\ jobs \in Seq(Job) /\ Len(jobs) \in Nat
  BY StageTyped DEF Job
<1>2. jobs' = Append(rest, j) /\ lostDone' = (lostDone \/ (jobs # <<>> /\ Head(jobs).turnDone))
  BY DEF Drop
<1>3. PICK n \in {0, 1} : /\ n <= Len(jobs) /\ rest \in Seq(Job) /\ Len(rest) = Len(jobs) - n
                          /\ \A i \in 1 .. Len(jobs) - n : rest[i] = jobs[i + n]
                          /\ n = 1 => jobs # <<>>
  <2>1. CASE jobs = <<>>
    <3>1. 0 <= Len(jobs) /\ rest \in Seq(Job) /\ Len(rest) = Len(jobs) - 0
          /\ \A i \in 1 .. Len(jobs) - 0 : rest[i] = jobs[i + 0]
      BY <2>1, EmptySeq
    <3> QED BY <3>1
  <2>2. CASE jobs # <<>>
    <3>1. 1 <= Len(jobs) /\ rest \in Seq(Job) /\ Len(rest) = Len(jobs) - 1
          /\ \A i \in 1 .. Len(jobs) - 1 : rest[i] = jobs[i + 1]
      BY <1>1, <2>2, HeadTailProperties, EmptySeq
    <3> QED BY <2>2, <3>1
  <2> QED BY <2>1, <2>2
<1> HIDE DEF rest, j
<1>4. /\ Len(jobs') = Len(rest) + 1 /\ jobs'[Len(rest) + 1] = j
      /\ \A i \in 1..Len(rest) : jobs'[i] = rest[i]
  BY <1>1, <1>2, <1>3, AppendProperties
<1>5. \A i \in 1 .. Len(jobs) - n : jobs'[i] = jobs[i + n]
  BY <1>1, <1>3, <1>4
<1>6. n = 1 => lostDone' = (lostDone \/ jobs[1].turnDone)
  BY <1>1, <1>2, <1>3, HeadTailProperties
<1>7. jobs'[Len(jobs')] = [turnDone |-> loop = "droppingDone", queued |-> bargeIns]
  BY <1>4 DEF j
<1> QED BY <1>1, <1>3, <1>4, <1>5, <1>6, <1>7

\* The end of speech that will let the AITextDone go is under way, is the job
\* that waits for room, or has been dropped with nothing to make up for it.
HeldInv ==
  /\ loop = "interrupting" => ~pendingTurnDone
  /\ loop = "droppingDone" => pendingTurnDone
  /\ loop \in {"select", "droppingText"} =>
       (pendingTurnDone /\ ~ctxDone /\ ~lostDone => EndUnderway)

\* The worker takes the end of speech along, as a job and then as an event.
LEMMA WorkerKeepsEnd ==
  ASSUME IInv, WorkerSteps, EndUnderway, ~ctxDone
  PROVE  EndUnderway'
<1>1. bargeIns' = bargeIns
  BY DEF WorkerSteps, TakeJob, Begin, Callback, SendAudio, SpeakReturns, EndJob, WorkerExits,
     loopVars, ghosts
<1>2. /\ jobs \in Seq(Job) /\ Len(jobs) \in Nat /\ pcm \in Seq(Event) /\ Len(pcm) \in Nat
      /\ worker.job \in Job /\ bargeIns \in Nat
  BY StageTyped DEF IInv
<1>3. CASE TakeJob
  <2>1. /\ ~Occupied /\ Occupied' /\ jobs # <<>> /\ pcm' = pcm
        /\ worker'.job = Head(jobs) /\ jobs' = Tail(jobs)
    BY <1>3 DEF TakeJob, Occupied, IInv, TTSTypeOK, WorkerTypeOK
  <2>2. /\ Len(jobs') = Len(jobs) - 1 /\ worker'.job = jobs[1]
        /\ \A i \in 1..Len(jobs') : jobs'[i] = jobs[i + 1]
    BY <1>2, <2>1, HeadTailProperties, EmptySeq
  <2>3. ASSUME NEW i \in 1..Len(jobs), IsEnd(jobs[i]) PROVE EndUnderway'
    <3>1. CASE i = 1
      BY <1>1, <2>1, <2>2, <2>3, <3>1 DEF EndUnderway, IsEnd
    <3>2. CASE i # 1
      <4>1. i - 1 \in 1..Len(jobs') /\ jobs'[i - 1] = jobs[i]
        BY <1>2, <2>2, <3>2
      <4> QED BY <1>1, <2>3, <4>1 DEF EndUnderway, IsEnd
    <3> QED BY <3>1, <3>2
  <2> QED BY <1>1, <2>1, <2>3 DEF EndUnderway, IsEnd
<1>4. CASE Begin \/ Callback \/ SpeakReturns \/ WorkerExits
  <2>1. UNCHANGED <<jobs, pcm>> /\ worker'.job = worker.job /\ (Occupied => Occupied')
    BY <1>4 DEF Begin, Callback, SpeakReturns, WorkerExits, Occupied, IInv, TTSTypeOK, WorkerTypeOK
  <2> QED BY <1>1, <2>1 DEF EndUnderway, IsEnd
<1>5. CASE SendAudio
  <2>1. /\ jobs' = jobs /\ worker'.job = worker.job /\ Occupied'
        /\ pcm' = Append(pcm, WorkerEvent("audio"))
    BY <1>5 DEF SendAudio, Occupied, IInv, TTSTypeOK, WorkerTypeOK
  <2>2. WorkerEvent("audio") \in Event
    BY EventTyped DEF IInv, Kind
  <2>3. Len(pcm') = Len(pcm) + 1 /\ \A i \in 1..Len(pcm) : pcm'[i] = pcm[i]
    BY <1>2, <2>1, <2>2, AppendProperties
  <2> QED BY <1>1, <1>2, <2>1, <2>3 DEF EndUnderway, IsEnd
<1>6. CASE EndJob
  <2> DEFINE e == WorkerEvent(IF worker.job.turnDone THEN "turnDone" ELSE "terminal")
  <2>1. jobs' = jobs /\ pcm' = Append(pcm, e)
    BY <1>6 DEF EndJob
  <2>2. e \in Event /\ (IsEnd(worker.job) => e.kind = "turnDone" /\ e.queued = bargeIns)
    BY EventTyped DEF IInv, Kind, WorkerEvent, IsEnd
  <2> HIDE DEF e
  <2>3. /\ Len(pcm') = Len(pcm) + 1 /\ pcm'[Len(pcm) + 1] = e
        /\ \A i \in 1..Len(pcm) : pcm'[i] = pcm[i]
    BY <1>2, <2>1, <2>2, AppendProperties
  <2>4. \A i \in 1..Len(pcm) : i \in 1..Len(pcm')
    BY <1>2, <2>3
  <2>5. Len(pcm) + 1 \in 1..Len(pcm')
    BY <1>2, <2>3
  <2> QED BY <1>1, <2>1, <2>2, <2>3, <2>4, <2>5 DEF EndUnderway, IsEnd
<1> QED BY <1>3, <1>4, <1>5, <1>6 DEF WorkerSteps

LEMMA HeldStep == IInv /\ HeldInv /\ [Next]_vars => HeldInv'
<1> SUFFICES ASSUME IInv, HeldInv, [Next]_vars PROVE HeldInv'
  OBVIOUS
<1>1. /\ jobs \in Seq(Job) /\ Len(jobs) \in Nat /\ pcm \in Seq(Event) /\ Len(pcm) \in Nat
      /\ bargeIns \in Nat /\ TTSTypeOK
  BY StageTyped DEF IInv
<1>2. CASE TakeText
  <2>1. /\ UNCHANGED <<pendingTurnDone, pcm, worker, bargeIns, lostDone, ctxDone>> /\ loop = "select"
        /\ (UNCHANGED <<jobs, loop>>) \/ Speak(FALSE)
    BY <1>2 DEF TakeText, Selecting, Push, workVars, ghosts
  <2>2. /\ loop' = "select" \/ loop' = "droppingText"
        /\ \A i \in 1..Len(jobs) : i \in 1..Len(jobs') /\ jobs'[i] = jobs[i]
    <3>1. CASE UNCHANGED <<jobs, loop>>
      BY <2>1, <3>1
    <3>2. CASE Speak(FALSE)
      <4>1. CASE jobs' = jobs /\ ((ctxDone /\ loop' = loop) \/ loop' = "droppingText")
        BY <2>1, <4>1
      <4>2. CASE /\ Len(jobs') = Len(jobs) + 1 /\ loop' = loop
                 /\ \A i \in 1..Len(jobs) : jobs'[i] = jobs[i]
        BY <1>1, <2>1, <4>2
      <4>3. FALSE \in BOOLEAN
        OBVIOUS
      <4> QED BY <1>1, <3>2, <4>1, <4>2, <4>3, JobLast
    <3> QED BY <2>1, <3>1, <3>2
  <2>3. EndUnderway => EndUnderway'
    BY <2>1, <2>2 DEF EndUnderway, Occupied, IsEnd
  <2> QED BY <2>1, <2>2, <2>3 DEF HeldInv
<1>3. CASE TakeDone
  <2>1. pendingTurnDone' = TRUE /\ UNCHANGED <<bargeIns, ctxDone>> /\ loop = "select" /\ Speak(TRUE)
    BY <1>3 DEF TakeDone, Selecting, Complete, ghosts
  <2>2. CASE Len(jobs') = Len(jobs) + 1 /\ jobs'[Len(jobs')] = [turnDone |-> TRUE, queued |-> bargeIns]
    <3>1. Len(jobs') \in 1..Len(jobs') /\ IsEnd(jobs[Len(jobs)])'
      BY <1>1, <2>1, <2>2 DEF IsEnd
    <3> QED BY <2>1, <2>2, <3>1, JobLast, <1>1 DEF EndUnderway, HeldInv
  <2>3. CASE (ctxDone /\ loop' = loop) \/ loop' = "droppingDone"
    BY <2>1, <2>3 DEF HeldInv
  <2> QED BY <1>1, <2>1, <2>2, <2>3, JobLast
<1>4. CASE Drop
  <2>1. /\ loop \in Dropping /\ loop' = "select"
        /\ UNCHANGED <<pendingTurnDone, pcm, worker, bargeIns, ctxDone>>
        /\ lostDone => lostDone'
    BY <1>4 DEF Drop, workVars
  <2>2. CASE ctxDone
    BY <2>1, <2>2 DEF HeldInv
  <2>3. CASE ~ctxDone
    <3>1. PICK n \in {0, 1} :
              /\ n <= Len(jobs) /\ Len(jobs') = Len(jobs) - n + 1
              /\ jobs'[Len(jobs')] = [turnDone |-> loop = "droppingDone", queued |-> bargeIns]
              /\ \A i \in 1 .. Len(jobs) - n : jobs'[i] = jobs[i + n]
              /\ n = 1 => lostDone' = (lostDone \/ jobs[1].turnDone)
      BY <1>1, <1>4, <2>3, DropLast
    <3>2. CASE loop = "droppingDone"
      <4>1. Len(jobs') \in 1..Len(jobs')
        BY <1>1, <3>1
      <4>2. jobs'[Len(jobs')].turnDone /\ jobs'[Len(jobs')].queued = bargeIns
        <5>1. jobs'[Len(jobs')] = [turnDone |-> TRUE, queued |-> bargeIns]
          <6>1. (loop = "droppingDone") = TRUE
            BY <3>2
          <6> QED BY <3>1, <6>1
        <5> QED BY <5>1
      <4>3. IsEnd(jobs[Len(jobs)])'
        BY <2>1, <4>2 DEF IsEnd
      <4> QED BY <2>1, <4>1, <4>3 DEF EndUnderway, HeldInv
    <3>3. CASE loop = "droppingText" /\ pendingTurnDone /\ ~lostDone'
      <4>1. EndUnderway
        BY <2>1, <2>3, <3>3 DEF HeldInv
      <4>2. ASSUME NEW i \in 1..Len(jobs), IsEnd(jobs[i])
            PROVE  i - n \in 1..Len(jobs') /\ jobs'[i - n] = jobs[i]
        <5>1. i > n
          <6>1. jobs[i].turnDone
            BY <4>2 DEF IsEnd
          <6>2. n = 1 => i # 1
            BY <3>1, <3>3, <6>1
          <6> QED BY <6>2
        <5>2. i - n \in 1 .. Len(jobs) - n /\ (i - n) + n = i
          BY <1>1, <5>1
        <5> QED BY <1>1, <3>1, <5>2
      <4>3. EndUnderway'
        BY <2>1, <4>1, <4>2 DEF EndUnderway, Occupied, IsEnd
      <4> QED BY <2>1, <4>3 DEF HeldInv
    <3> QED BY <2>1, <3>2, <3>3 DEF Dropping, HeldInv
  <2> QED BY <2>2, <2>3
<1>5. CASE TakePCM
  <2> DEFINE released == Head(pcm).kind = "turnDone" /\ pendingTurnDone
  <2>1. /\ UNCHANGED <<jobs, worker, bargeIns, loop, ctxDone, lostDone>> /\ loop # "interrupting"
        /\ loop # "droppingDone" /\ pcm # <<>> /\ pcm' = Tail(pcm)
        /\ pendingTurnDone' = (pendingTurnDone /\ ~released)
    BY <1>5 DEF TakePCM, workVars, ghosts
  <2>2. /\ Len(pcm') = Len(pcm) - 1 /\ Head(pcm) = pcm[1]
        /\ \A i \in 1..Len(pcm') : pcm'[i] = pcm[i + 1]
    BY <1>1, <2>1, HeadTailProperties, EmptySeq
  <2>3. ASSUME EndUnderway, pendingTurnDone' PROVE EndUnderway'
    <3>1. Head(pcm).kind # "turnDone"
      BY <2>1, <2>3
    <3>2. ASSUME NEW i \in 1..Len(pcm), pcm[i].kind = "turnDone"
          PROVE  i - 1 \in 1..Len(pcm') /\ pcm'[i - 1] = pcm[i]
      <4>1. i # 1
        BY <2>2, <3>1, <3>2
      <4>2. i - 1 \in 1..Len(pcm') /\ (i - 1) + 1 = i
        BY <1>1, <2>2, <4>1
      <4> QED BY <2>2, <4>2
    <3> QED BY <2>1, <2>3, <3>2 DEF EndUnderway, Occupied, IsEnd
  <2>4. pendingTurnDone' => pendingTurnDone
    BY <2>1
  <2> QED BY <2>1, <2>3, <2>4 DEF HeldInv
<1>6. CASE WorkerSteps
  <2>1. UNCHANGED <<loop, pendingTurnDone, ctxDone, lostDone>>
    BY <1>6 DEF WorkerSteps, TakeJob, Begin, Callback, SendAudio, SpeakReturns, EndJob, WorkerExits,
       loopVars, ghosts
  <2> QED BY <1>6, <2>1, WorkerKeepsEnd DEF HeldInv
<1>7. CASE TakeOther \/ Deliver \/ UNCHANGED vars
  <2>1. UNCHANGED <<loop, pendingTurnDone, ctxDone, lostDone, jobs, pcm, worker, bargeIns>>
    BY <1>7 DEF TakeOther, Deliver, vars, workVars, ghosts
  <2> QED BY <2>1 DEF HeldInv, EndUnderway, Occupied, IsEnd
<1>8. CASE TakeBargeIn \/ Interrupt
  <2>1. ~pendingTurnDone' /\ loop' \in {"select", "interrupting"}
    BY <1>8 DEF TakeBargeIn, Interrupt, HeldInv
  <2> QED BY <2>1 DEF HeldInv
<1>9. CASE InputCloses \/ Ending
  <2>1. loop' \in {"draining", "leaving", "returned"}
    BY <1>9 DEF InputCloses, Ending, DrainEnds, LeaveOnContext, Return
  <2> QED BY <2>1 DEF HeldInv
<1>10. CASE ContextEnds
  <2>1. ctxDone' = TRUE /\ UNCHANGED <<loop, pendingTurnDone>>
    BY <1>10 DEF ContextEnds
  <2> QED BY <2>1 DEF HeldInv
<1> QED BY <1>2, <1>3, <1>4, <1>5, <1>6, <1>7, <1>8, <1>9, <1>10 DEF Next, Inputs

\* A held AITextDone always has the end of speech to come that lets it go,
\* however jobs are dropped, turns overlap and barge-ins fall between.
THEOREM HeldDoneIsReleased == Spec => []HeldDoneHasItsEnd
<1>1. Init => HeldInv
  BY DEF Init, HeldInv
<1>2. Spec => []HeldInv
  BY <1>1, HeldStep, TTSInvariance, PTL DEF Spec
<1>3. HeldInv => HeldDoneHasItsEnd
  BY DEF HeldInv, HeldDoneHasItsEnd
<1> QED BY <1>2, <1>3, PTL

-----------------------------------------------------------------------------
(* The call around the stage.                                              *)

\* What VAD stage and bridge do is nothing to the TTS stage, or an input, a
\* delivery or the end of the context.
LEMMA CallStep == CallNext => Next \/ UNCHANGED vars
<1>1. StageSteps => Next
  BY DEF StageSteps, Pass, Passes, Stick, Stuck, HoldDone, BargeInArrives, Interrupted,
         PassSpeech, Drained, Silent, Inward, Next, Inputs, Ending
<1>2. VADSteps => UNCHANGED vars
  BY DEF VADSteps, Listen, Lower, SendBargeIn, vadLeaves
<1>3. BridgeSteps => Next \/ UNCHANGED vars
  BY DEF BridgeSteps, BridgeTakes, Play, Open, BridgeLeaves, Next
<1> QED BY <1>1, <1>2, <1>3 DEF CallNext

\* A call's TTS stage is the one the theorems above are about.
THEOREM CallImplementsStage == CallSpec => Spec
<1>1. CallInit => Init
  BY DEF CallInit
<1>2. [CallNext]_callVars => [Next]_vars
  BY CallStep DEF callVars
<1> QED BY <1>1, <1>2, PTL DEF CallSpec, Spec

\* Places on the way to the caller: 0 is the bridge, then the channel.
Held(k) == IF k = 0 THEN hand ELSE outbox[k]
BargeInFrame(n) == Frame("bargeIn", n)
Told(f) == f.kind # "other"

OutboxTyped ==
  /\ hand \in FrameType /\ outbox \in Seq(FrameType) /\ Len(outbox) = backlog
  /\ heard \in Epoch /\ heard <= bargeIns

\* What is under way was begun since the last barge-in the bridge handled...
InTime ==
  \A k \in 0..Len(outbox) :
    Told(Held(k)) => /\ heard <= Held(k).begun /\ Held(k).begun <= bargeIns
                     /\ Held(k).kind = "bargeIn" => heard < Held(k).begun

\* ...keeps its order, a barge-in before what was begun after it...
InOrder ==
  \A k, l \in 0..Len(outbox) :
    k < l /\ Told(Held(k)) /\ Told(Held(l)) =>
      /\ Held(k).begun <= Held(l).begun
      /\ Held(l).kind = "bargeIn" => Held(k).begun < Held(l).begun

\* ...and no barge-in is missing.
Announced ==
  \A n \in heard + 1 .. bargeIns : \E k \in 0..Len(outbox) : Held(k) = BargeInFrame(n)

OrderInv == OutboxTyped /\ InTime /\ InOrder /\ Announced

\* Every barge-in detected is at one place.
FlagInv ==
  /\ running \in BOOLEAN /\ ttsPlaying \in BOOLEAN /\ bargeInSent \in BOOLEAN
  /\ vad \in {"listening", "detected", "sending"}
  /\ early \in BOOLEAN /\ strayed \in BOOLEAN
  /\ fired \in Epoch /\ onTheWay \in Nat
  /\ bargeIns + onTheWay + (IF loop = "interrupting" THEN 1 ELSE 0)
                         + (IF vad = "listening" THEN 0 ELSE 1) <= fired

CallInv == IInv /\ OrderInv /\ FlagInv

\* What a stage step does to the channel: nothing, ...
Still == outbox' = outbox /\ backlog' = backlog /\ bargeIns' = bargeIns
\* ...a frame of this stretch between barge-ins, ...
Adds(f) == /\ outbox' = outbox \o <<f>> /\ backlog' = backlog + 1 /\ bargeIns' = bargeIns
           /\ Told(f) => f.begun = bargeIns /\ f.kind # "bargeIn"
\* ...or a barge-in, which begins the next.
Announces == /\ outbox' = outbox \o <<BargeInFrame(bargeIns + 1)>> /\ backlog' = backlog + 1
             /\ bargeIns' = bargeIns + 1

LEMMA FrameTyped ==
  ASSUME NEW kind \in {"audio", "done", "bargeIn", "other"}, NEW n \in Epoch
  PROVE  Frame(kind, n) \in FrameType /\ Frame(kind, n).kind = kind /\ Frame(kind, n).begun = n
BY DEF Frame, FrameType

LEMMA QuietEffect ==
  ASSUME OutboxTyped, Quiet
  PROVE  outbox' = outbox
<1>1. outbox \o <<>> = outbox
  BY ConcatEmptySeq DEF OutboxTyped
<1> QED BY <1>1 DEF Quiet, Sends

\* The frame TakePCM lets out carries the number of barge-ins handled.
LEMMA SpeechEffect ==
  ASSUME CallInv, PassSpeech
  PROVE  Still \/ \E f \in FrameType : Adds(f)
<1> DEFINE ev == Head(pcm)
           released == ev.kind = "turnDone" /\ pendingTurnDone
<1>1. /\ pcm # <<>> /\ bargeIns' = bargeIns
      /\ backlog' = backlog + (IF released \/ Audible(ev) THEN 1 ELSE 0)
  BY DEF PassSpeech, TakePCM, ghosts, Forward
<1>2. /\ bargeIns \in Epoch /\ pcm \in Seq(Event) /\ backlog \in 0..OutSize + 1
  BY DEF CallInv, IInv, TTSTypeOK, LoopTypeOK, ChannelTypeOK
<1>3. OutboxTyped
  BY DEF CallInv, OrderInv
<1>4. CASE Audible(ev)
  <2>1. ev = pcm[1] /\ 1 \in 1..Len(pcm)
    BY <1>1, <1>2, EmptySeq, LenProperties
  <2>2. ev.begun = bargeIns
    BY <2>1, <1>4 DEF CallInv, IInv, EventEpoch, Audible
  <2>3. outbox' = outbox \o <<Frame("audio", bargeIns)>>
    BY <1>4, <2>2 DEF PassSpeech, Sends, Audible
  <2>4. backlog' = backlog + 1
    BY <1>1, <1>4
  <2> QED BY <2>3, <2>4, <1>1, <1>2, FrameTyped DEF Adds, Told
<1>5. CASE ~Audible(ev) /\ released
  <2>1. outbox' = outbox \o <<Done>>
    BY <1>5 DEF PassSpeech, Sends, Audible
  <2>2. backlog' = backlog + 1
    BY <1>1, <1>5
  <2> QED BY <2>1, <2>2, <1>1, <1>2, FrameTyped DEF Adds, Told, Done
<1>6. CASE ~Audible(ev) /\ ~released
  <2>1. outbox' = outbox \o <<>>
    BY <1>6 DEF PassSpeech, Sends
  <2>2. outbox' = outbox
    BY <2>1, <1>3, QuietEffect DEF Quiet, Sends
  <2>3. backlog' = backlog
    BY <1>1, <1>2, <1>6
  <2> QED BY <2>2, <2>3, <1>1 DEF Still
<1> QED BY <1>4, <1>5, <1>6

LEMMA StageEffect ==
  ASSUME CallInv, StageSteps
  PROVE  /\ hand' = hand /\ heard' = heard
         /\ Still \/ (\E f \in FrameType : Adds(f)) \/ Announces
<1>1. hand' = hand /\ heard' = heard
  BY DEF StageSteps, Pass, Stick, HoldDone, BargeInArrives, Interrupted, PassSpeech, Drained,
         Silent, besides
<1>2. bargeIns \in Epoch /\ backlog \in 0..OutSize + 1 /\ OutboxTyped /\ 0 \in Epoch
  BY TTSAssumption DEF CallInv, OrderInv, IInv, TTSTypeOK, LoopTypeOK, Epoch
<1>3. CASE Pass
  <2>1. backlog' = backlog + 1 /\ bargeIns' = bargeIns
    BY <1>3 DEF Pass, Passes, TakeText, TakeOther, Drop, Dropping, Forward, ghosts
  <2>2. outbox' = outbox \o <<Nothing>>
    BY <1>3 DEF Pass, Sends
  <2>3. Nothing \in FrameType /\ ~Told(Nothing)
    BY <1>2, FrameTyped DEF Nothing, Told
  <2> QED BY <1>1, <2>1, <2>2, <2>3 DEF Adds
<1>4. CASE HoldDone
  BY <1>1, <1>2, <1>4, QuietEffect DEF HoldDone, TakeDone, ghosts, Still
<1>5. CASE BargeInArrives
  BY <1>1, <1>2, <1>5, QuietEffect DEF BargeInArrives, TakeBargeIn, ghosts, Still
<1>6. CASE Interrupted
  BY <1>1, <1>6 DEF Interrupted, Interrupt, Forward, Sends, Announces, BargeInFrame
<1>7. CASE PassSpeech
  BY <1>1, <1>7, SpeechEffect
<1>8. CASE Drained
  <2>1. bargeIns' = bargeIns /\ backlog' = backlog + (IF pendingTurnDone THEN 1 ELSE 0)
    BY <1>8 DEF Drained, DrainEnds, Forward, ghosts
  <2>2. CASE pendingTurnDone
    <3>1. outbox' = outbox \o <<Done>> /\ backlog' = backlog + 1
      BY <1>8, <2>1, <2>2 DEF Drained, Sends
    <3> QED BY <1>1, <1>2, <2>1, <3>1, FrameTyped DEF Adds, Told, Done
  <2>3. CASE ~pendingTurnDone
    <3>1. Quiet /\ backlog' = backlog
      BY <1>2, <1>8, <2>1, <2>3 DEF Drained, Quiet, Sends
    <3> QED BY <1>1, <1>2, <2>1, <3>1, QuietEffect DEF Still
  <2> QED BY <2>2, <2>3
<1>9. CASE Silent
  <2>1. Quiet
    BY <1>9 DEF Silent
  <2>2. bargeIns' = bargeIns /\ backlog' = backlog
    BY <1>9 DEF Silent, Inward, WorkerSteps, TakeJob, Begin, Callback, SendAudio, SpeakReturns,
       EndJob, WorkerExits, loopVars, InputCloses, ContextEnds, LeaveOnContext, Return, ghosts
  <2> QED BY <1>1, <1>2, <2>1, <2>2, QuietEffect DEF Still
<1>10. CASE Stick
  <2>1. Quiet
    BY <1>10 DEF Stick
  <2>2. bargeIns' = bargeIns /\ backlog' = backlog
    BY <1>2, <1>10 DEF Stick, Stuck, TakeText, Drop, Forward, ghosts
  <2> QED BY <1>1, <1>2, <2>1, <2>2, QuietEffect DEF Still
<1> QED BY <1>3, <1>4, <1>5, <1>6, <1>7, <1>8, <1>9, <1>10 DEF StageSteps

\* A longer channel keeps its places.
LEMMA OneMore ==
  ASSUME OutboxTyped, NEW f \in FrameType, outbox' = outbox \o <<f>>, hand' = hand
  PROVE  /\ outbox' \in Seq(FrameType) /\ Len(outbox) \in Nat /\ Len(outbox') = Len(outbox) + 1
         /\ \A k \in 0..Len(outbox) : Held(k)' = Held(k)
         /\ \A k \in Nat : k = Len(outbox) + 1 => Held(k)' = f
<1>1. outbox \in Seq(FrameType)
  BY DEF OutboxTyped
<1>2. outbox' = Append(outbox, f)
  BY <1>1, AppendIsConcat
<1>3. /\ outbox' \in Seq(FrameType) /\ Len(outbox') = Len(outbox) + 1 /\ Len(outbox) \in Nat
      /\ \A i \in 1..Len(outbox) : outbox'[i] = outbox[i]
      /\ outbox'[Len(outbox) + 1] = f
  BY <1>1, <1>2, AppendProperties, LenProperties
<1> QED BY <1>3 DEF Held

LEMMA AddsKeepsOrder ==
  ASSUME CallInv, NEW f \in FrameType, Adds(f), hand' = hand, heard' = heard
  PROVE  OrderInv'
<1>1. OutboxTyped /\ InTime /\ InOrder /\ Announced
  BY DEF CallInv, OrderInv
<1>2. heard \in Nat /\ bargeIns \in Nat /\ backlog \in Nat
  BY <1>1, TTSAssumption DEF CallInv, IInv, TTSTypeOK, LoopTypeOK, Epoch, OutboxTyped
<1>3. /\ outbox' \in Seq(FrameType) /\ Len(outbox) \in Nat /\ Len(outbox') = Len(outbox) + 1
      /\ \A k \in 0..Len(outbox) : Held(k)' = Held(k)
      /\ \A k \in Nat : k = Len(outbox) + 1 => Held(k)' = f
  BY <1>1, OneMore DEF Adds
<1>4. \A k \in 0..Len(outbox) : Held(k) \in FrameType
  BY <1>1, <1>3 DEF OutboxTyped, Held
<1>5. OutboxTyped'
  BY <1>1, <1>3 DEF OutboxTyped, Adds
<1>5a. \A k \in 0..Len(outbox) + 1 : k \in 0..Len(outbox) \/ (k = Len(outbox) + 1 /\ k \in Nat)
  BY <1>3
<1>6. heard <= bargeIns
  BY <1>1 DEF OutboxTyped
<1>7. InTime'
  <2> SUFFICES ASSUME NEW k \in 0..Len(outbox'), Told(Held(k)')
               PROVE  /\ heard <= Held(k)'.begun /\ Held(k)'.begun <= bargeIns
                      /\ Held(k)'.kind = "bargeIn" => heard < Held(k)'.begun
    BY DEF InTime, Told, Adds
  <2>1. CASE k \in 0..Len(outbox)
    BY <1>1, <1>3, <2>1 DEF InTime, Told
  <2>2. CASE k = Len(outbox) + 1
    <3>1. Held(k)' = f
      BY <1>3, <2>2
    <3>2. f.begun = bargeIns /\ f.kind # "bargeIn"
      BY <3>1 DEF Adds, Told
    <3> QED BY <1>2, <1>6, <3>1, <3>2
  <2> QED BY <1>3, <1>5a, <2>1, <2>2
<1>8. InOrder'
  <2> SUFFICES ASSUME NEW k \in 0..Len(outbox'), NEW l \in 0..Len(outbox'), k < l,
                      Told(Held(k)'), Told(Held(l)')
               PROVE  /\ Held(k)'.begun <= Held(l)'.begun
                      /\ Held(l)'.kind = "bargeIn" => Held(k)'.begun < Held(l)'.begun
    BY DEF InOrder, Told
  <2>1. CASE l \in 0..Len(outbox)
    <3>1. k \in 0..Len(outbox)
      BY <1>3, <2>1
    <3> QED BY <1>1, <1>3, <2>1, <3>1 DEF InOrder, Told
  <2>2. CASE l = Len(outbox) + 1
    <3>1. k \in 0..Len(outbox)
      BY <1>3, <2>2
    <3>2. Held(k).begun <= bargeIns
      BY <1>1, <1>3, <3>1 DEF InTime, Told
    <3>3. Held(l)' = f
      BY <1>3, <2>2
    <3>4. f.begun = bargeIns /\ f.kind # "bargeIn"
      BY <3>3 DEF Adds, Told
    <3>5. Held(k)' = Held(k)
      BY <1>3, <3>1
    <3> QED BY <3>2, <3>3, <3>4, <3>5
  <2> QED BY <1>3, <1>5a, <2>1, <2>2
<1>9. Announced'
  <2> SUFFICES ASSUME NEW n \in heard + 1 .. bargeIns
               PROVE  \E k \in 0..Len(outbox') : Held(k)' = BargeInFrame(n)
    BY DEF Announced, Adds, BargeInFrame, Frame
  <2>1. PICK k \in 0..Len(outbox) : Held(k) = BargeInFrame(n)
    BY <1>1 DEF Announced
  <2> QED BY <1>3, <2>1
<1> QED BY <1>5, <1>7, <1>8, <1>9 DEF OrderInv

LEMMA AnnouncesKeepsOrder ==
  ASSUME CallInv, Announces, bargeIns' \in Epoch, hand' = hand, heard' = heard
  PROVE  OrderInv'
<1> DEFINE f == BargeInFrame(bargeIns + 1)
<1>1. OutboxTyped /\ InTime /\ InOrder /\ Announced
  BY DEF CallInv, OrderInv
<1>2. heard \in Nat /\ bargeIns \in Nat /\ backlog \in Nat /\ heard <= bargeIns
  BY <1>1, TTSAssumption DEF CallInv, IInv, TTSTypeOK, LoopTypeOK, Epoch, OutboxTyped
<1>3. f \in FrameType /\ f.kind = "bargeIn" /\ f.begun = bargeIns + 1
  BY FrameTyped DEF BargeInFrame, Announces
<1>4. /\ outbox' \in Seq(FrameType) /\ Len(outbox) \in Nat /\ Len(outbox') = Len(outbox) + 1
      /\ \A k \in 0..Len(outbox) : Held(k)' = Held(k)
      /\ \A k \in Nat : k = Len(outbox) + 1 => Held(k)' = f
  BY <1>1, <1>3, OneMore DEF Announces
<1>5. \A k \in 0..Len(outbox) : Held(k) \in FrameType
  BY <1>1, <1>4 DEF OutboxTyped, Held
<1>6. \A k \in 0..Len(outbox) + 1 : k \in 0..Len(outbox) \/ (k = Len(outbox) + 1 /\ k \in Nat)
  BY <1>4
<1>7. OutboxTyped'
  BY <1>1, <1>2, <1>4 DEF OutboxTyped, Announces
<1>8. InTime'
  <2> SUFFICES ASSUME NEW k \in 0..Len(outbox'), Told(Held(k)')
               PROVE  /\ heard <= Held(k)'.begun /\ Held(k)'.begun <= bargeIns + 1
                      /\ Held(k)'.kind = "bargeIn" => heard < Held(k)'.begun
    BY DEF InTime, Told, Announces
  <2>1. CASE k \in 0..Len(outbox)
    <3>1. Held(k)' = Held(k) /\ Held(k).begun \in Nat
      BY <1>4, <1>5, <2>1 DEF FrameType, Epoch
    <3> QED BY <1>1, <1>2, <2>1, <3>1 DEF InTime, Told
  <2>2. CASE k = Len(outbox) + 1
    <3>1. Held(k)' = f
      BY <1>4, <2>2
    <3> QED BY <1>2, <1>3, <3>1
  <2> QED BY <1>4, <1>6, <2>1, <2>2
<1>9. InOrder'
  <2> SUFFICES ASSUME NEW k \in 0..Len(outbox'), NEW l \in 0..Len(outbox'), k < l,
                      Told(Held(k)'), Told(Held(l)')
               PROVE  /\ Held(k)'.begun <= Held(l)'.begun
                      /\ Held(l)'.kind = "bargeIn" => Held(k)'.begun < Held(l)'.begun
    BY DEF InOrder, Told
  <2>1. CASE l \in 0..Len(outbox)
    <3>1. k \in 0..Len(outbox)
      BY <1>4, <2>1
    <3> QED BY <1>1, <1>4, <2>1, <3>1 DEF InOrder, Told
  <2>2. CASE l = Len(outbox) + 1
    <3>1. k \in 0..Len(outbox)
      BY <1>4, <2>2
    <3>2. Held(k)' = Held(k) /\ Held(k).begun \in Nat
      BY <1>4, <1>5, <3>1 DEF FrameType, Epoch
    <3>3. Held(k).begun <= bargeIns
      BY <1>1, <3>1, <3>2 DEF InTime, Told
    <3>4. Held(l)' = f
      BY <1>4, <2>2
    <3> QED BY <1>2, <1>3, <3>2, <3>3, <3>4
  <2> QED BY <1>4, <1>6, <2>1, <2>2
<1>10. Announced'
  <2> SUFFICES ASSUME NEW n \in heard + 1 .. bargeIns + 1
               PROVE  \E k \in 0..Len(outbox') : Held(k)' = BargeInFrame(n)
    BY DEF Announced, Announces, BargeInFrame, Frame
  <2>1. CASE n = bargeIns + 1
    <3>1. Len(outbox) + 1 \in 0..Len(outbox') /\ Len(outbox) + 1 \in Nat
      BY <1>4
    <3>2. \A k \in Nat : k = Len(outbox) + 1 => Held(k)' = BargeInFrame(n)
      BY <1>4, <2>1
    <3> QED BY <3>1, <3>2
  <2>2. CASE n \in heard + 1 .. bargeIns
    <3>1. PICK k \in 0..Len(outbox) : Held(k) = BargeInFrame(n)
      BY <1>1, <2>2 DEF Announced
    <3> QED BY <1>4, <3>1
  <2> QED BY <1>2, <2>1, <2>2
<1> QED BY <1>7, <1>8, <1>9, <1>10 DEF OrderInv

\* The bridge takes the first frame of the channel: every place moves up.
LEMMA TakingKeepsOrder ==
  ASSUME CallInv, BridgeTakes
  PROVE  OrderInv'
<1>1. OutboxTyped /\ InTime /\ InOrder /\ Announced
  BY DEF CallInv, OrderInv
<1>2. /\ backlog \in Nat /\ backlog > 0 /\ backlog' = backlog - 1
      /\ bargeIns' = bargeIns /\ heard' = heard /\ hand = Nothing
      /\ hand' = Head(outbox) /\ outbox' = Tail(outbox)
  BY TTSAssumption DEF CallInv, IInv, TTSTypeOK, LoopTypeOK, BridgeTakes, Deliver, ghosts,
                       callGhosts
<1>3. outbox # <<>> /\ outbox \in Seq(FrameType) /\ Len(outbox) \in Nat
  BY <1>1, <1>2, LenProperties DEF OutboxTyped
<1>4. /\ outbox' \in Seq(FrameType) /\ Len(outbox') = Len(outbox) - 1
      /\ \A i \in 1..Len(outbox') : outbox'[i] = outbox[i + 1]
      /\ hand' = outbox[1] /\ hand' \in FrameType
  BY <1>2, <1>3, HeadTailProperties
<1>5. \A k \in 0..Len(outbox') : k + 1 \in 0..Len(outbox) /\ Held(k)' = Held(k + 1)
  BY <1>3, <1>4 DEF Held
<1>6. OutboxTyped'
  BY <1>1, <1>2, <1>4 DEF OutboxTyped
<1>7. InTime'
  BY <1>1, <1>2, <1>5 DEF InTime, Told
<1>8. InOrder'
  <2> SUFFICES ASSUME NEW k \in 0..Len(outbox'), NEW l \in 0..Len(outbox'), k < l,
                      Told(Held(k)'), Told(Held(l)')
               PROVE  /\ Held(k)'.begun <= Held(l)'.begun
                      /\ Held(l)'.kind = "bargeIn" => Held(k)'.begun < Held(l)'.begun
    BY DEF InOrder, Told
  <2>1. k + 1 \in 0..Len(outbox) /\ l + 1 \in 0..Len(outbox) /\ k + 1 < l + 1
    BY <1>5
  <2>2. Held(k)' = Held(k + 1) /\ Held(l)' = Held(l + 1)
    BY <1>5
  <2> QED BY <1>1, <2>1, <2>2 DEF InOrder, Told
<1>9. Announced'
  <2> SUFFICES ASSUME NEW n \in heard + 1 .. bargeIns
               PROVE  \E k \in 0..Len(outbox') : Held(k)' = BargeInFrame(n)
    BY <1>2 DEF Announced, BargeInFrame, Frame
  <2>1. PICK k \in 0..Len(outbox) : Held(k) = BargeInFrame(n)
    BY <1>1 DEF Announced
  <2>2. k # 0
    BY <1>2, <2>1 DEF Held, Nothing, BargeInFrame, Frame
  <2>3. k - 1 \in 0..Len(outbox') /\ (k - 1) + 1 = k
    BY <1>3, <1>4, <2>2
  <2> QED BY <1>5, <2>1, <2>3
<1> QED BY <1>6, <1>7, <1>8, <1>9 DEF OrderInv

\* The bridge is done with its frame; a barge-in is the next one not handled.
LEMMA HandlingKeepsOrder ==
  ASSUME CallInv, hand' = Nothing, outbox' = outbox, backlog' = backlog, bargeIns' = bargeIns,
         Told(hand), heard' = IF hand.kind = "bargeIn" THEN heard + 1 ELSE heard
  PROVE  OrderInv'
<1>1. OutboxTyped /\ InTime /\ InOrder /\ Announced
  BY DEF CallInv, OrderInv
<1>2. heard \in Nat /\ bargeIns \in Epoch /\ bargeIns \in Nat /\ Len(outbox) \in Nat
  BY <1>1, TTSAssumption, LenProperties
     DEF CallInv, IInv, TTSTypeOK, LoopTypeOK, Epoch, OutboxTyped
<1>3. Nothing \in FrameType /\ ~Told(Nothing)
  BY TTSAssumption, FrameTyped DEF Nothing, Told, Epoch
<1>4. /\ \A k \in 1..Len(outbox) : Held(k)' = Held(k) /\ Held(k) \in FrameType
      /\ \A k \in Nat : k = 0 => Held(k)' = Nothing /\ Held(k) = hand
  BY <1>1 DEF Held, OutboxTyped
<1>5. /\ heard <= hand.begun /\ hand.begun <= bargeIns /\ hand.begun \in Nat
      /\ hand.kind = "bargeIn" => heard < hand.begun
  <2>1. 0 \in 0..Len(outbox) /\ Held(0) = hand
    BY <1>2 DEF Held
  <2> QED BY <1>1, <2>1 DEF InTime, OutboxTyped, FrameType, Epoch
<1>6. \A k \in 1..Len(outbox) : Told(Held(k)) =>
        /\ hand.begun <= Held(k).begun /\ Held(k).begun \in Nat
        /\ Held(k).kind = "bargeIn" => hand.begun < Held(k).begun
  <2> SUFFICES ASSUME NEW k \in 1..Len(outbox), Told(Held(k))
               PROVE  /\ hand.begun <= Held(k).begun /\ Held(k).begun \in Nat
                      /\ Held(k).kind = "bargeIn" => hand.begun < Held(k).begun
    OBVIOUS
  <2>1. 0 \in 0..Len(outbox) /\ k \in 0..Len(outbox) /\ 0 < k /\ Held(0) = hand
    BY <1>2 DEF Held
  <2>2. Held(k).begun \in Nat
    BY <1>4 DEF FrameType, Epoch
  <2> QED BY <1>1, <2>1, <2>2 DEF InOrder
<1>7. hand.kind = "bargeIn" => hand.begun = heard + 1
  <2> SUFFICES ASSUME hand.kind = "bargeIn"
               PROVE  hand.begun = heard + 1
    OBVIOUS
  <2>1. heard + 1 \in heard + 1 .. bargeIns
    BY <1>2, <1>5
  <2>2. PICK k \in 0..Len(outbox) : Held(k) = BargeInFrame(heard + 1)
    BY <1>1, <2>1 DEF Announced
  <2>3. Held(k).kind = "bargeIn" /\ Held(k).begun = heard + 1 /\ Told(Held(k))
    BY <2>2 DEF BargeInFrame, Frame, Told
  <2>4. CASE k = 0
    BY <1>4, <2>3, <2>4
  <2>5. CASE k \in 1..Len(outbox)
    BY <1>2, <1>5, <1>6, <2>3, <2>5
  <2> QED BY <1>2, <2>4, <2>5
<1>8. heard' \in Nat /\ heard <= heard' /\ heard' <= hand.begun
  BY <1>2, <1>5, <1>7
<1>9. OutboxTyped'
  <2>1. heard' \in Epoch /\ heard' <= bargeIns
    BY <1>2, <1>5, <1>8, TTSAssumption DEF Epoch
  <2> QED BY <1>1, <1>3, <2>1 DEF OutboxTyped
<1>10. \A k \in 0..Len(outbox) : k \in 1..Len(outbox) \/ (k = 0 /\ k \in Nat)
  BY <1>2
<1>11. \A k \in 0..Len(outbox) : Told(Held(k)') => k \in 1..Len(outbox)
  BY <1>3, <1>4, <1>10
<1>12. InTime'
  <2> SUFFICES ASSUME NEW k \in 0..Len(outbox), Told(Held(k)')
               PROVE  /\ heard' <= Held(k)'.begun /\ Held(k)'.begun <= bargeIns
                      /\ Held(k)'.kind = "bargeIn" => heard' < Held(k)'.begun
    BY DEF InTime, Told
  <2>1. k \in 1..Len(outbox) /\ Held(k)' = Held(k) /\ Told(Held(k))
    BY <1>4, <1>11
  <2>2. Held(k).begun <= bargeIns
    BY <1>1, <2>1 DEF InTime
  <2> QED BY <1>5, <1>6, <1>8, <2>1, <2>2
<1>13. InOrder'
  <2> SUFFICES ASSUME NEW k \in 0..Len(outbox), NEW l \in 0..Len(outbox), k < l,
                      Told(Held(k)'), Told(Held(l)')
               PROVE  /\ Held(k)'.begun <= Held(l)'.begun
                      /\ Held(l)'.kind = "bargeIn" => Held(k)'.begun < Held(l)'.begun
    BY DEF InOrder, Told
  <2>1. Held(k)' = Held(k) /\ Held(l)' = Held(l)
    BY <1>4, <1>11
  <2> QED BY <1>1, <2>1 DEF InOrder
<1>14. Announced'
  <2> SUFFICES ASSUME NEW n \in heard' + 1 .. bargeIns
               PROVE  \E k \in 0..Len(outbox) : Held(k)' = BargeInFrame(n)
    BY DEF Announced, BargeInFrame, Frame
  <2>1. n \in heard + 1 .. bargeIns
    BY <1>2, <1>8
  <2>2. PICK k \in 0..Len(outbox) : Held(k) = BargeInFrame(n)
    BY <1>1, <2>1 DEF Announced
  <2>3. Held(k).kind = "bargeIn" /\ Held(k).begun = n
    BY <2>2 DEF BargeInFrame, Frame
  <2>4. k # 0
    <3> SUFFICES ASSUME k = 0 PROVE FALSE
      OBVIOUS
    <3>1. hand.kind = "bargeIn" /\ hand.begun = n
      BY <1>4, <2>3
    <3> QED BY <1>2, <1>7, <3>1
  <2> QED BY <1>4, <1>10, <2>2, <2>4
<1> QED BY <1>9, <1>12, <1>13, <1>14 DEF OrderInv

\* The VAD stage has at most one barge-in of its own, the TTS stage too.
LEMMA StageKeepsFlags ==
  ASSUME CallInv, StageSteps, IInv'
  PROVE  FlagInv'
<1>1. /\ FlagInv /\ bargeIns \in Nat
      /\ UNCHANGED <<running, ttsPlaying, vad, bargeInSent, fired>>
  BY TTSAssumption DEF CallInv, IInv, TTSTypeOK, LoopTypeOK, Epoch, StageSteps, Pass, Stick,
     HoldDone, BargeInArrives, Interrupted, PassSpeech, Drained, Silent, besides, flagVars
<1>2. early' \in BOOLEAN /\ strayed' \in BOOLEAN
  BY <1>1 DEF FlagInv, StageSteps, Pass, Stick, HoldDone, BargeInArrives, Interrupted, PassSpeech,
     Drained, Silent
<1>3. CASE /\ onTheWay' = onTheWay /\ bargeIns' = bargeIns
           /\ loop' = loop \/ (loop' # "interrupting" /\ loop # "interrupting")
  BY <1>1, <1>2, <1>3 DEF FlagInv
<1>4. CASE Pass
  BY <1>3, <1>4 DEF Pass, Passes, TakeText, TakeOther, Drop, Dropping, Selecting, ghosts
<1>5. CASE HoldDone
  <2>1. loop = "select" /\ loop' # "interrupting"
    BY <1>5 DEF HoldDone, TakeDone, Complete, Speak, DispatchSpeak, Selecting
  <2> QED BY <1>3, <1>5, <2>1 DEF HoldDone, TakeDone, ghosts
<1>6. CASE BargeInArrives
  <2>1. /\ onTheWay > 0 /\ onTheWay' = onTheWay - 1 /\ bargeIns' = bargeIns
        /\ loop = "select" /\ loop' = "interrupting"
    BY <1>6 DEF BargeInArrives, TakeBargeIn, Selecting, ghosts
  <2> QED BY <1>1, <1>2, <2>1 DEF FlagInv
<1>7. CASE Interrupted
  <2>1. /\ onTheWay' = onTheWay /\ bargeIns' = bargeIns + 1
        /\ loop = "interrupting" /\ loop' = "select"
    BY <1>7 DEF Interrupted, Interrupt
  <2> QED BY <1>1, <1>2, <2>1 DEF FlagInv
<1>8. CASE PassSpeech
  BY <1>3, <1>8 DEF PassSpeech, TakePCM, ghosts
<1>9. CASE Drained
  BY <1>3, <1>9 DEF Drained, DrainEnds, ghosts
<1>10. CASE Silent
  BY <1>3, <1>10 DEF Silent, Inward, WorkerSteps, TakeJob, Begin, Callback, SendAudio,
     SpeakReturns, EndJob, WorkerExits, loopVars, InputCloses, Selecting, ContextEnds,
     LeaveOnContext, Return, ghosts
<1>11. CASE Stick
  BY <1>3, <1>11 DEF Stick, Stuck, TakeText, Drop, Dropping, Selecting, ghosts
<1> QED BY <1>4, <1>5, <1>6, <1>7, <1>8, <1>9, <1>10, <1>11 DEF StageSteps

LEMMA VADKeepsCall ==
  ASSUME CallInv, VADSteps
  PROVE  CallInv'
<1>1. UNCHANGED vars /\ UNCHANGED <<outbox, hand, running, heard, early, strayed>>
  BY DEF VADSteps, Listen, Lower, SendBargeIn, vadLeaves, callGhosts
<1>2. loop' = loop /\ bargeIns' = bargeIns /\ backlog' = backlog
  BY <1>1 DEF vars, ghosts
<1>3. IInv'
  BY <1>1, StepInv DEF CallInv
<1>4. OrderInv'
  BY <1>1, <1>2 DEF CallInv, OrderInv, OutboxTyped, InTime, InOrder, Announced, Held
<1>5. FlagInv /\ bargeIns \in Nat /\ MaxBargeIns \in Nat
  BY TTSAssumption DEF CallInv, IInv, TTSTypeOK, LoopTypeOK, Epoch
<1>6. CASE Listen
  <2>1. /\ vad = "listening" /\ bargeInSent' \in BOOLEAN
        /\ onTheWay' = onTheWay /\ ttsPlaying' = ttsPlaying
        /\ \/ vad' = vad /\ fired' = fired
           \/ vad' = "detected" /\ fired < MaxBargeIns /\ fired' = fired + 1
    BY <1>5, <1>6 DEF Listen, FlagInv
  <2> QED BY <1>1, <1>2, <1>3, <1>4, <1>5, <2>1 DEF CallInv, FlagInv, Epoch
<1>7. CASE Lower
  BY <1>1, <1>2, <1>3, <1>4, <1>5, <1>7 DEF CallInv, FlagInv, Lower
<1>8. CASE SendBargeIn
  <2>1. /\ vad = "sending" /\ vad' = "listening" /\ onTheWay' \in {onTheWay, onTheWay + 1}
        /\ UNCHANGED <<ttsPlaying, bargeInSent, fired>>
    BY <1>8 DEF SendBargeIn
  <2>2. onTheWay \in Nat /\ fired \in Nat
    BY <1>5 DEF FlagInv, Epoch
  <2>3. bargeIns + onTheWay' + (IF loop = "interrupting" THEN 1 ELSE 0)
                             + (IF vad' = "listening" THEN 0 ELSE 1) <= fired
    <3> DEFINE halfway == IF loop = "interrupting" THEN 1 ELSE 0
    <3>1. halfway \in Nat
      OBVIOUS
    <3>2. (IF vad = "listening" THEN 0 ELSE 1) = 1 /\ (IF vad' = "listening" THEN 0 ELSE 1) = 0
      BY <2>1
    <3>3. bargeIns + onTheWay + halfway + (IF vad = "listening" THEN 0 ELSE 1) <= fired
      BY <1>5 DEF FlagInv
    <3> HIDE DEF halfway
    <3>4. onTheWay' = onTheWay \/ onTheWay' = onTheWay + 1
      BY <2>1
    <3>5. bargeIns + onTheWay' + halfway <= fired
      BY <1>5, <2>2, <3>1, <3>2, <3>3, <3>4
    <3> QED BY <1>5, <2>2, <3>1, <3>2, <3>4, <3>5 DEF halfway
  <2>4. FlagInv'
    <3>1. onTheWay' \in Nat /\ vad' \in {"listening", "detected", "sending"}
      BY <2>1, <2>2
    <3>2. /\ running' \in BOOLEAN /\ ttsPlaying' \in BOOLEAN /\ bargeInSent' \in BOOLEAN
          /\ early' \in BOOLEAN /\ strayed' \in BOOLEAN /\ fired' \in Epoch
      BY <1>1, <1>5, <2>1 DEF FlagInv
    <3>3. bargeIns' + onTheWay' + (IF loop' = "interrupting" THEN 1 ELSE 0)
                                + (IF vad' = "listening" THEN 0 ELSE 1) <= fired'
      BY <1>2, <2>1, <2>3
    <3> QED BY <3>1, <3>2, <3>3 DEF FlagInv
  <2> QED BY <1>3, <1>4, <2>4 DEF CallInv
<1> QED BY <1>6, <1>7, <1>8 DEF VADSteps

LEMMA BridgeKeepsCall ==
  ASSUME CallInv, BridgeSteps
  PROVE  CallInv'
<1>1. IInv'
  BY CallStep, StepInv DEF CallInv, CallNext
<1>2. /\ FlagInv /\ OrderInv
      /\ UNCHANGED <<vad, bargeInSent, fired, onTheWay, early, strayed, loop, bargeIns>>
      /\ running' \in BOOLEAN /\ ttsPlaying' \in BOOLEAN
  BY DEF CallInv, FlagInv, BridgeSteps, BridgeTakes, Play, Open, BridgeLeaves, Deliver, ContextEnds,
     vars, ghosts, callGhosts, flagVars
<1>3. FlagInv'
  BY <1>2 DEF FlagInv
<1>4. CASE BridgeTakes
  BY <1>1, <1>3, <1>4, TakingKeepsOrder DEF CallInv
<1>5. CASE Play
  <2>1. /\ hand' = Nothing /\ outbox' = outbox /\ backlog' = backlog /\ heard' = heard
        /\ hand.kind = "audio"
    BY <1>5 DEF Play, ContextEnds, vars, callGhosts
  <2>2. OrderInv'
    BY <1>2, <2>1, HandlingKeepsOrder DEF Told
  <2> QED BY <1>1, <1>3, <2>2 DEF CallInv
<1>6. CASE Open
  <2>1. /\ hand' = Nothing /\ outbox' = outbox /\ backlog' = backlog /\ Told(hand)
        /\ heard' = IF hand.kind = "bargeIn" THEN heard + 1 ELSE heard
    BY <1>6 DEF Open, vars, Told
  <2>2. OrderInv'
    BY <1>2, <2>1, HandlingKeepsOrder
  <2> QED BY <1>1, <1>3, <2>2 DEF CallInv
<1>7. CASE BridgeLeaves
  <2>1. UNCHANGED <<hand, outbox, backlog, heard, bargeIns>>
    BY <1>7 DEF BridgeLeaves, vars, ghosts, callGhosts
  <2>2. OrderInv'
    BY <1>2, <2>1 DEF OrderInv, OutboxTyped, InTime, InOrder, Announced, Held
  <2> QED BY <1>1, <1>3, <2>2 DEF CallInv
<1> QED BY <1>4, <1>5, <1>6, <1>7 DEF BridgeSteps

LEMMA CallStepInv == CallInv /\ [CallNext]_callVars => CallInv'
<1> SUFFICES ASSUME CallInv, [CallNext]_callVars
             PROVE  CallInv'
  OBVIOUS
<1>1. ASSUME StageSteps PROVE CallInv'
  <2>1. IInv'
    BY <1>1, CallStep, StepInv DEF CallInv, CallNext
  <2>2. FlagInv'
    BY <1>1, <2>1, StageKeepsFlags
  <2>3. hand' = hand /\ heard' = heard
    BY <1>1, StageEffect
  <2>4. CASE Still
    <3>1. OrderInv'
      BY <2>3, <2>4 DEF CallInv, OrderInv, OutboxTyped, InTime, InOrder, Announced, Held, Still
    <3> QED BY <2>1, <2>2, <3>1 DEF CallInv
  <2>5. CASE \E f \in FrameType : Adds(f)
    <3>1. OrderInv'
      BY <2>3, <2>5, AddsKeepsOrder
    <3> QED BY <2>1, <2>2, <3>1 DEF CallInv
  <2>6. CASE Announces
    <3>1. bargeIns' \in Epoch
      BY <2>1 DEF IInv, TTSTypeOK, LoopTypeOK, Epoch
    <3>2. OrderInv'
      BY <2>3, <2>6, <3>1, AnnouncesKeepsOrder
    <3> QED BY <2>1, <2>2, <3>2 DEF CallInv
  <2> QED BY <1>1, <2>4, <2>5, <2>6, StageEffect
<1>2. ASSUME UNCHANGED callVars PROVE CallInv'
  <2>1. /\ UNCHANGED vars /\ UNCHANGED <<outbox, hand, heard, backlog, bargeIns, loop>>
        /\ UNCHANGED <<running, ttsPlaying, vad, bargeInSent, fired, onTheWay, early, strayed>>
    BY <1>2 DEF callVars, vars, ghosts, callGhosts, flagVars
  <2>2. IInv'
    BY <2>1, StepInv DEF CallInv
  <2>3. OrderInv' /\ FlagInv'
    BY <2>1 DEF CallInv, OrderInv, OutboxTyped, InTime, InOrder, Announced, Held, FlagInv
  <2> QED BY <2>2, <2>3 DEF CallInv
<1> QED BY <1>1, <1>2, VADKeepsCall, BridgeKeepsCall DEF CallNext

LEMMA CallInitInv == CallInit => CallInv
<1> SUFFICES ASSUME CallInit
             PROVE  CallInv
  OBVIOUS
<1>1. IInv
  BY InitInv DEF CallInit
<1>2. /\ outbox = <<>> /\ hand = Nothing /\ heard = 0 /\ bargeIns = 0 /\ backlog = 0
      /\ loop = "select" /\ fired = 0 /\ onTheWay = 0 /\ vad = "listening"
  BY DEF CallInit, Init
<1>3. 0 \in Epoch
  BY TTSAssumption DEF Epoch
<1>4. Nothing \in FrameType /\ ~Told(Nothing)
  BY <1>3, FrameTyped DEF Nothing, Told
<1>5. OutboxTyped /\ Len(outbox) = 0
  BY <1>2, <1>3, <1>4, EmptySeq DEF OutboxTyped
<1>6. \A k \in 0..Len(outbox) : k = 0 /\ Held(k) = Nothing
  BY <1>2, <1>5 DEF Held
<1>7. InTime /\ InOrder
  BY <1>4, <1>5, <1>6 DEF InTime, InOrder
<1>8. Announced
  BY <1>2 DEF Announced
<1>9. FlagInv
  <2>1. bargeIns + onTheWay + (IF loop = "interrupting" THEN 1 ELSE 0)
                            + (IF vad = "listening" THEN 0 ELSE 1) <= fired
    BY <1>2
  <2>2. /\ running \in BOOLEAN /\ ttsPlaying \in BOOLEAN /\ bargeInSent \in BOOLEAN
        /\ early \in BOOLEAN /\ strayed \in BOOLEAN
    BY DEF CallInit
  <2> QED BY <1>2, <1>3, <2>1, <2>2 DEF FlagInv
<1> QED BY <1>1, <1>5, <1>7, <1>8, <1>9 DEF CallInv, OrderInv

\* The inductive invariant of the call holds throughout.
THEOREM CallInvariance == CallSpec => []CallInv
BY CallInitInv, CallStepInv, PTL DEF CallSpec

\* No frame between the stages is lost or invented, and there is never more
\* than the one barge-in under way that the VAD stage counts.
THEOREM CallTypeCorrect == CallSpec => []CallTypeOK
<1>1. CallInv => CallTypeOK
  <2> SUFFICES ASSUME CallInv
               PROVE  CallTypeOK
    OBVIOUS
  <2>1. onTheWay \in Epoch /\ bargeIns + onTheWay <= fired
    BY TTSAssumption DEF CallInv, FlagInv, IInv, TTSTypeOK, LoopTypeOK, Epoch
  <2> QED BY <2>1 DEF CallInv, FlagInv, OrderInv, OutboxTyped, IInv, CallTypeOK
<1> QED BY <1>1, CallInvariance, PTL

\* After the BargeIn frame the bridge plays no speech begun before it, however
\* the VAD stage's flag, the channel and the worker are interleaved.
THEOREM CallSilentAfterBargeIn == CallSpec => SilentAfterBargeIn
<1>1. CallInv /\ [CallNext]_callVars => [Play => hand.begun = heard]_callVars
  <2> SUFFICES ASSUME CallInv, Play
               PROVE  hand.begun = heard
    OBVIOUS
  <2>1. /\ InTime /\ InOrder /\ Announced /\ Len(outbox) \in Nat /\ hand \in FrameType
        /\ heard \in Nat /\ bargeIns \in Nat /\ hand.kind = "audio" /\ hand.begun \in Nat
    BY TTSAssumption, LenProperties DEF CallInv, OrderInv, OutboxTyped, IInv, TTSTypeOK, LoopTypeOK,
       Epoch, FrameType, Play
  <2>2. 0 \in 0..Len(outbox) /\ Held(0) = hand /\ Told(hand)
    BY <2>1 DEF Held, Told
  <2>3. heard <= hand.begun /\ hand.begun <= bargeIns
    BY <2>1, <2>2 DEF InTime
  <2>4. ASSUME heard < hand.begun PROVE FALSE
    <3>1. heard + 1 \in heard + 1 .. bargeIns
      BY <2>1, <2>3, <2>4
    <3>2. PICK k \in 0..Len(outbox) : Held(k) = BargeInFrame(heard + 1)
      BY <2>1, <3>1 DEF Announced
    <3>3. Held(k).kind = "bargeIn" /\ Held(k).begun = heard + 1 /\ Told(Held(k))
      BY <3>2 DEF BargeInFrame, Frame, Told
    <3>4. k # 0
      BY <2>1, <2>2, <3>3
    <3>5. hand.begun < heard + 1
      BY <2>1, <2>2, <3>3, <3>4 DEF InOrder
    <3> QED BY <2>1, <2>4, <3>5
  <2> QED BY <2>1, <2>3, <2>4
<1> QED BY <1>1, CallInvariance, PTL DEF CallSpec, SilentAfterBargeIn

-----------------------------------------------------------------------------
(* The gate opens again: why ttsPlaying is never left up for good.         *)

\* What GateReopens excuses, and what is still to come of a reply or a barge-in.
Excused == ctxDone \/ lostDone \/ early \/ strayed
ReplyOpen == ~needNewTurnID \/ pendingTurnDone
Ahead == onTheWay > 0 \/ vad # "listening" \/ loop = "interrupting"

\* The end of a turn's speech, of this stretch between barge-ins: among the
\* jobs, at the worker or behind it, behind a place of the channel.
EndQueued == \E k \in 1..Len(jobs) : IsEnd(jobs[k])
EndAtWorker == (Occupied /\ IsEnd(worker.job)) \/ EndQueued
EndInChannel(i) ==
  \E k \in i .. Len(pcm) : pcm[k].kind = "turnDone" /\ pcm[k].queued = bargeIns

QueuedInTime ==
  /\ worker.job.queued <= bargeIns
  /\ \A i \in 1..Len(jobs) : jobs[i].queued <= bargeIns

\* Once the text is complete, speech of it is followed by its end...
SpeechEnds ==
  /\ \A i \in 1..Len(jobs) : jobs[i].queued = bargeIns => \E k \in i..Len(jobs) : IsEnd(jobs[k])
  /\ Occupied /\ worker.job.queued = bargeIns => EndAtWorker
  /\ \A i \in 1..Len(pcm) :
       pcm[i].kind = "audio" /\ pcm[i].queued = bargeIns => EndAtWorker \/ EndInChannel(i)

\* ...and for that end an AITextDone is held back.
EndsHeld == EndAtWorker \/ EndInChannel(1) => pendingTurnDone

SpeechInv ==
  ~Excused => /\ loop = "select" /\ needNewTurnID => SpeechEnds
              /\ loop \in {"select"} \cup Dropping => EndsHeld

\* ...while a job waits for room, its reply is open, or its AITextDone is held.
Waits == /\ loop = "droppingText" => ~needNewTurnID
         /\ loop = "droppingDone" => pendingTurnDone

\* Behind every audio frame on the way to the caller, and behind what has
\* raised the flag, comes a frame that lowers it.
Lowered ==
  /\ ttsPlaying => \E k \in 0..Len(outbox) : Opens(Held(k))
  /\ \A k \in 0..Len(outbox) : Held(k).kind = "audio" =>
       \E l \in k + 1 .. Len(outbox) : Opens(Held(l))

LineInv == ~Excused /\ loop \in {"select", "interrupting"} \cup Dropping =>
             ReplyOpen \/ Ahead \/ Lowered

GateInv == QueuedInTime /\ SpeechInv /\ Waits /\ LineInv

\* What excuses the gate is not forgotten.
LEMMA ExcusedStays == ASSUME CallInv, [CallNext]_callVars, Excused PROVE Excused'
<1>1. lostDone \in BOOLEAN /\ early \in BOOLEAN /\ strayed \in BOOLEAN /\ ctxDone \in BOOLEAN
  BY DEF CallInv, IInv, TTSTypeOK, LoopTypeOK, FlagInv
<1>2. CASE StageSteps
  <2>1. ctxDone => ctxDone'
    BY <1>2 DEF StageSteps, Pass, Passes, Stick, Stuck, HoldDone, BargeInArrives, Interrupted,
       PassSpeech, Drained, Silent, Inward, TakeText, TakeDone, TakeOther, TakeBargeIn, Interrupt,
       TakePCM, Drop,
       DrainEnds, WorkerSteps, TakeJob, Begin, Callback, SendAudio, SpeakReturns, EndJob,
       WorkerExits, loopVars, InputCloses, ContextEnds, LeaveOnContext, Return
  <2>2. lostDone => lostDone'
    BY <1>2 DEF StageSteps, Pass, Passes, Stick, Stuck, HoldDone, BargeInArrives, Interrupted,
       PassSpeech, Drained, Silent, Inward, TakeText, TakeDone, TakeOther, TakeBargeIn, Interrupt,
       TakePCM, Drop,
       DrainEnds, WorkerSteps, TakeJob, Begin, Callback, SendAudio, SpeakReturns, EndJob,
       WorkerExits, loopVars, InputCloses, ContextEnds, LeaveOnContext, Return, ghosts
  <2>3. (early => early') /\ (strayed => strayed')
    BY <1>1, <1>2 DEF StageSteps, Pass, Stick, HoldDone, BargeInArrives, Interrupted, PassSpeech,
       Drained, Silent
  <2> QED BY <2>1, <2>2, <2>3 DEF Excused
<1>3. CASE VADSteps \/ BridgeSteps \/ UNCHANGED callVars
  <2>1. lostDone' = lostDone /\ early' = early /\ strayed' = strayed /\ (ctxDone => ctxDone')
    BY <1>3 DEF VADSteps, Listen, Lower, SendBargeIn, vadLeaves, BridgeSteps, BridgeTakes, Play,
       Open, BridgeLeaves, Deliver, ContextEnds, callVars, vars, ghosts, callGhosts
  <2> QED BY <2>1 DEF Excused
<1> QED BY <1>2, <1>3 DEF CallNext

\* A frame behind the others lowers what they raise, or is not audio itself.
LEMMA LineGrows ==
  ASSUME OutboxTyped, NEW f \in FrameType, outbox' = outbox \o <<f>>, hand' = hand,
         ttsPlaying' = ttsPlaying
  PROVE  Opens(f) \/ (Lowered /\ f.kind # "audio") => Lowered'
<1>1. /\ Len(outbox) \in Nat /\ Len(outbox') = Len(outbox) + 1
      /\ \A k \in 0..Len(outbox) : Held(k)' = Held(k)
      /\ \A k \in Nat : k = Len(outbox) + 1 => Held(k)' = f
  BY OneMore
<1>2. \A k \in 0..Len(outbox') : k \in 0..Len(outbox) \/ (k = Len(outbox) + 1 /\ k \in Nat)
  BY <1>1
<1>3. CASE Opens(f)
  <2>1. PICK n \in Nat : n = Len(outbox) + 1
    BY <1>1
  <2>2. n \in 0..Len(outbox') /\ Held(n)' = f /\ Opens(Held(n)') /\ Held(n)'.kind # "audio"
    BY <1>1, <1>3, <2>1 DEF Opens
  <2>3. \A k \in 0..Len(outbox') : Held(k)'.kind = "audio" => n \in k + 1 .. Len(outbox')
    BY <1>1, <2>1, <2>2
  <2> QED BY <2>2, <2>3 DEF Lowered, Opens
<1>4. CASE Lowered /\ f.kind # "audio"
  <2>1. \A k \in 0..Len(outbox) : Opens(Held(k)) => k \in 0..Len(outbox') /\ Opens(Held(k)')
    BY <1>1 DEF Opens
  <2>2. ttsPlaying => \E k \in 0..Len(outbox') : Opens(Held(k)')
    BY <1>4, <2>1 DEF Lowered
  <2>3. ASSUME NEW k \in 0..Len(outbox'), Held(k)'.kind = "audio"
        PROVE  \E l \in k + 1 .. Len(outbox') : Opens(Held(l)')
    <3>1. k \in 0..Len(outbox) /\ Held(k).kind = "audio"
      BY <1>1, <1>2, <1>4, <2>3
    <3>2. PICK l \in k + 1 .. Len(outbox) : Opens(Held(l))
      BY <1>4, <3>1 DEF Lowered
    <3>3. l \in 0..Len(outbox) /\ l \in k + 1 .. Len(outbox')
      BY <1>1, <3>1
    <3> QED BY <2>1, <3>2, <3>3
  <2> QED BY <2>2, <2>3 DEF Lowered, Opens
<1> QED BY <1>3, <1>4

\* The types of the stage, within the call.
LEMMA PipelineTyped ==
  ASSUME CallInv
  PROVE  /\ jobs \in Seq(Job) /\ Len(jobs) \in Nat /\ pcm \in Seq(Event) /\ Len(pcm) \in Nat
         /\ worker.job \in Job /\ bargeIns \in Nat /\ bargeIns \in Epoch
         /\ \A i \in 1..Len(jobs) : jobs[i] \in Job /\ jobs[i].queued \in Nat
         /\ TTSTypeOK
BY StageTyped DEF CallInv, IInv

\* A job that gets in last leaves the others in time, and an end that was
\* queued, unless it ends a turn itself, is one of them.
LEMMA LastInTime ==
  ASSUME CallInv, GateInv, UNCHANGED <<worker, bargeIns>>, NEW turnDone \in BOOLEAN,
         NEW n \in {0, 1}, n <= Len(jobs), Len(jobs') = Len(jobs) - n + 1,
         jobs'[Len(jobs')] = [turnDone |-> turnDone, queued |-> bargeIns],
         \A i \in 1 .. Len(jobs) - n : jobs'[i] = jobs[i + n]
  PROVE  /\ QueuedInTime' /\ Len(jobs') \in 1..Len(jobs')
         /\ turnDone => IsEnd(jobs[Len(jobs)])'
         /\ ~turnDone => (EndQueued' => EndQueued)
<1>1. bargeIns \in Nat /\ Len(jobs) \in Nat /\ \A i \in 1..Len(jobs) : jobs[i].queued \in Nat
  BY PipelineTyped
<1>2. \A i \in 1..Len(jobs') :
        i = Len(jobs') \/ (i \in 1 .. Len(jobs) - n /\ i + n \in 1..Len(jobs))
  BY <1>1
<1>3. jobs'[Len(jobs')].turnDone = turnDone /\ jobs'[Len(jobs')].queued = bargeIns
  OBVIOUS
<1>4. QueuedInTime'
  <2>1. ASSUME NEW i \in 1..Len(jobs') PROVE jobs'[i].queued <= bargeIns
    BY <1>1, <1>2, <1>3 DEF GateInv, QueuedInTime
  <2> QED BY <2>1 DEF GateInv, QueuedInTime
<1>5. ASSUME ~turnDone, EndQueued' PROVE EndQueued
  <2>1. PICK k \in 1..Len(jobs') : jobs'[k].turnDone /\ jobs'[k].queued = bargeIns
    BY <1>5 DEF EndQueued, IsEnd
  <2>2. k # Len(jobs')
    BY <1>3, <1>5, <2>1
  <2> QED BY <1>2, <2>1, <2>2 DEF EndQueued, IsEnd
<1> QED BY <1>1, <1>3, <1>4, <1>5 DEF IsEnd

\* So does a job that may not get in any more.
LEMMA DropInTime ==
  ASSUME CallInv, GateInv, Drop
  PROVE  QueuedInTime'
<1> DEFINE j == [turnDone |-> loop = "droppingDone", queued |-> bargeIns]
           rest == IF jobs = <<>> THEN <<>> ELSE Tail(jobs)
<1>1. /\ jobs \in Seq(Job) /\ Len(jobs) \in Nat /\ bargeIns \in Nat /\ j \in Job
      /\ worker' = worker /\ bargeIns' = bargeIns
  BY PipelineTyped DEF Job, Drop, workVars
<1>2. rest \in Seq(Job) /\ \A i \in 1..Len(rest) : rest[i].queued <= bargeIns
  <2>1. CASE jobs = <<>>
    BY <2>1, EmptySeq
  <2>2. CASE jobs # <<>>
    <3>1. /\ rest \in Seq(Job) /\ Len(rest) = Len(jobs) - 1
          /\ \A i \in 1..Len(rest) : rest[i] = jobs[i + 1]
      BY <1>1, <2>2, HeadTailProperties
    <3> QED BY <1>1, <3>1 DEF GateInv, QueuedInTime
  <2> QED BY <2>1, <2>2
<1>3. jobs' = Append(rest, j) \/ jobs' = rest
  BY DEF Drop
<1>4. j.queued <= bargeIns
  BY <1>1
<1> HIDE DEF rest, j
<1>5. \A i \in 1..Len(Append(rest, j)) : Append(rest, j)[i].queued <= bargeIns
  <2>1. /\ Len(Append(rest, j)) = Len(rest) + 1 /\ Append(rest, j)[Len(rest) + 1] = j
        /\ \A i \in 1..Len(rest) : Append(rest, j)[i] = rest[i]
        /\ Len(rest) \in Nat
    BY <1>1, <1>2, AppendProperties, LenProperties
  <2>2. \A i \in 1..Len(rest) + 1 : i \in 1..Len(rest) \/ i = Len(rest) + 1
    BY <2>1
  <2> QED BY <1>2, <1>4, <2>1, <2>2
<1>6. \A i \in 1..Len(jobs') : jobs'[i].queued <= bargeIns
  BY <1>2, <1>3, <1>5
<1> QED BY <1>1, <1>6 DEF GateInv, QueuedInTime

\* The text goes on: nothing that ends a turn is added.
LEMMA TextKeepsSpeech ==
  ASSUME CallInv, GateInv, Pass \/ (Stick /\ TakeText)
  PROVE  QueuedInTime' /\ SpeechInv' /\ Waits'
<1>1. UNCHANGED <<pcm, worker, bargeIns, pendingTurnDone>>
  BY DEF Pass, Passes, Stick, TakeText, TakeOther, Drop, workVars, ghosts
<1>2. Len(jobs) \in Nat /\ TTSTypeOK /\ FALSE \in BOOLEAN
  BY PipelineTyped
<1>3. Excused => Excused'
  BY ExcusedStays DEF CallNext, StageSteps
<1>4. CASE jobs' = jobs /\ loop' = loop /\ (~needNewTurnID' \/ UNCHANGED needNewTurnID)
  BY <1>1, <1>3, <1>4 DEF GateInv, QueuedInTime, SpeechInv, SpeechEnds, EndsHeld, EndAtWorker,
     EndQueued, EndInChannel, Occupied, IsEnd, Waits
<1>5. CASE jobs' = jobs /\ loop = "select" /\ loop' = "droppingText" /\ ~needNewTurnID'
  BY <1>1, <1>3, <1>5 DEF GateInv, QueuedInTime, SpeechInv, EndsHeld, EndAtWorker,
     EndQueued, EndInChannel, Occupied, IsEnd, Waits
<1>6. CASE /\ QueuedInTime' /\ (EndQueued' => EndQueued)
           /\ loop \in {"select", "droppingText"} /\ loop' = "select" /\ ~needNewTurnID'
  <2>1. EndAtWorker' \/ EndInChannel(1)' => EndAtWorker \/ EndInChannel(1)
    BY <1>1, <1>6 DEF EndAtWorker, EndInChannel, Occupied, IsEnd
  <2> QED BY <1>1, <1>3, <1>6, <2>1 DEF GateInv, SpeechInv, EndsHeld, Waits, Dropping
<1>7. CASE TakeOther
  BY <1>4, <1>7 DEF TakeOther, textVars
<1>8. CASE TakeText
  <2>1. loop = "select" /\ ~needNewTurnID' /\ ((UNCHANGED <<jobs, loop>>) \/ Speak(FALSE))
    BY <1>8 DEF TakeText, Selecting, Push
  <2>2. CASE UNCHANGED <<jobs, loop>>
    BY <1>4, <2>1, <2>2
  <2>3. CASE Speak(FALSE)
    <3>1. CASE jobs' = jobs /\ ((ctxDone /\ loop' = loop) \/ loop' = "droppingText")
      BY <1>4, <1>5, <2>1, <3>1
    <3>2. CASE /\ Len(jobs') = Len(jobs) + 1 /\ loop' = loop
               /\ jobs'[Len(jobs')] = [turnDone |-> FALSE, queued |-> bargeIns]
               /\ \A i \in 1..Len(jobs) : jobs'[i] = jobs[i]
      <4>1. /\ 0 <= Len(jobs) /\ Len(jobs') = Len(jobs) - 0 + 1
            /\ \A i \in 1 .. Len(jobs) - 0 : jobs'[i] = jobs[i + 0]
        BY <1>2, <3>2
      <4>2. QueuedInTime' /\ (EndQueued' => EndQueued)
        BY <1>1, <3>2, <4>1, LastInTime
      <4> QED BY <1>6, <2>1, <3>2, <4>2
    <3> QED BY <1>2, <2>3, <3>1, <3>2, JobLast
  <2> QED BY <2>1, <2>2, <2>3
<1>9. CASE Drop /\ Pass
  <2>1. loop = "droppingText" /\ loop' = "select" /\ UNCHANGED needNewTurnID
    BY <1>9 DEF Drop, Pass, Dropping, textVars
  <2>2. ~needNewTurnID'
    BY <2>1 DEF GateInv, Waits
  <2>3. CASE ctxDone
    <3>1. QueuedInTime'
      BY <1>1, <1>9, <2>3, DropInTime
    <3> QED BY <1>3, <2>1, <2>3, <3>1 DEF SpeechInv, Excused, Waits
  <2>4. CASE ~ctxDone
    <3>1. (loop = "droppingDone") = FALSE
      BY <2>1
    <3>2. PICK n \in {0, 1} :
              /\ n <= Len(jobs) /\ Len(jobs') = Len(jobs) - n + 1
              /\ jobs'[Len(jobs')] = [turnDone |-> FALSE, queued |-> bargeIns]
              /\ \A i \in 1 .. Len(jobs) - n : jobs'[i] = jobs[i + n]
      BY <1>2, <1>9, <2>4, <3>1, DropLast
    <3>3. QueuedInTime' /\ (EndQueued' => EndQueued)
      BY <1>1, <3>2, LastInTime
    <3> QED BY <1>6, <2>1, <2>2, <3>3
  <2> QED BY <2>3, <2>4
<1> QED BY <1>7, <1>8, <1>9 DEF Pass, Passes

\* The text is complete: its end is queued behind all of it.
LEMMA DoneKeepsSpeech ==
  ASSUME CallInv, GateInv, HoldDone \/ (Stick /\ Drop /\ loop = "droppingDone")
  PROVE  QueuedInTime' /\ SpeechInv' /\ Waits'
<1>1. UNCHANGED <<pcm, worker, bargeIns, ctxDone>> /\ pendingTurnDone'
  BY DEF HoldDone, TakeDone, Drop, workVars, ghosts, GateInv, Waits
<1>2. Len(jobs) \in Nat /\ TTSTypeOK /\ TRUE \in BOOLEAN
  BY PipelineTyped
<1>3. CASE ctxDone
  <2>1. QueuedInTime'
    <3>1. CASE HoldDone
      <4>1. CASE jobs' = jobs
        BY <1>1, <4>1 DEF GateInv, QueuedInTime
      <4>2. CASE jobs' # jobs
        <5>1. /\ Len(jobs') = Len(jobs) + 1
              /\ jobs'[Len(jobs')] = [turnDone |-> TRUE, queued |-> bargeIns]
              /\ \A i \in 1..Len(jobs) : jobs'[i] = jobs[i]
          BY <1>2, <3>1, <4>2, JobLast DEF HoldDone, TakeDone, Complete
        <5>2. /\ 0 <= Len(jobs) /\ Len(jobs') = Len(jobs) - 0 + 1
              /\ \A i \in 1 .. Len(jobs) - 0 : jobs'[i] = jobs[i + 0]
          BY <1>2, <5>1
        <5> QED BY <1>1, <5>1, <5>2, LastInTime
      <4> QED BY <4>1, <4>2
    <3>2. CASE Drop
      BY <1>1, <1>3, <3>2, DropInTime
    <3> QED BY <3>1, <3>2
  <2> QED BY <1>1, <1>3, <2>1 DEF SpeechInv, Excused, Waits, HoldDone, TakeDone, Stick, Drop, Complete,
       Speak, DispatchSpeak, Selecting
<1>4. CASE loop' = "select" /\ QueuedInTime' /\ Len(jobs') \in 1..Len(jobs') /\ IsEnd(jobs[Len(jobs)])'
  <2>1. EndQueued' /\ \A i \in 1..Len(jobs') : \E k \in i..Len(jobs') : IsEnd(jobs[k])'
    BY <1>4 DEF EndQueued, IsEnd
  <2>2. SpeechEnds' /\ EndsHeld'
    BY <1>1, <2>1 DEF SpeechEnds, EndAtWorker, EndsHeld, IsEnd
  <2> QED BY <1>1, <1>4, <2>2 DEF SpeechInv, Waits
<1>5. CASE HoldDone /\ ~ctxDone
  <2>1. loop = "select" /\ Speak(TRUE)
    BY <1>5 DEF HoldDone, TakeDone, Complete, Selecting
  <2>2. CASE jobs' = jobs /\ loop' = "droppingDone"
    <3>1. EndsHeld'
      BY <1>1 DEF EndsHeld
    <3> QED BY <1>1, <2>2, <3>1 DEF GateInv, QueuedInTime, SpeechInv, Waits
  <2>3. CASE /\ Len(jobs') = Len(jobs) + 1 /\ loop' = loop
             /\ jobs'[Len(jobs')] = [turnDone |-> TRUE, queued |-> bargeIns]
             /\ \A i \in 1..Len(jobs) : jobs'[i] = jobs[i]
    <3>1. /\ 0 <= Len(jobs) /\ Len(jobs') = Len(jobs) - 0 + 1
          /\ \A i \in 1 .. Len(jobs) - 0 : jobs'[i] = jobs[i + 0]
      BY <1>2, <2>3
    <3>2. QueuedInTime' /\ Len(jobs') \in 1..Len(jobs') /\ IsEnd(jobs[Len(jobs)])'
      BY <1>1, <2>3, <3>1, LastInTime
    <3> QED BY <1>4, <2>1, <2>3, <3>2
  <2> QED BY <1>2, <1>5, <2>1, <2>2, <2>3, JobLast
<1>6. CASE Drop /\ loop = "droppingDone" /\ ~ctxDone
  <2>1. (loop = "droppingDone") = TRUE /\ loop' = "select"
    BY <1>6 DEF Drop
  <2>2. PICK n \in {0, 1} :
            /\ n <= Len(jobs) /\ Len(jobs') = Len(jobs) - n + 1
            /\ jobs'[Len(jobs')] = [turnDone |-> TRUE, queued |-> bargeIns]
            /\ \A i \in 1 .. Len(jobs) - n : jobs'[i] = jobs[i + n]
    BY <1>2, <1>6, <2>1, DropLast
  <2>3. QueuedInTime' /\ Len(jobs') \in 1..Len(jobs') /\ IsEnd(jobs[Len(jobs)])'
    BY <1>1, <2>2, LastInTime
  <2> QED BY <1>4, <2>1, <2>3
<1> QED BY <1>3, <1>5, <1>6

\* An event leaves the channel: an end that lets the AITextDone go is the last
\* one under way, or the AITextDone was early.
LEMMA PassKeepsSpeech ==
  ASSUME CallInv, GateInv, PassSpeech
  PROVE  QueuedInTime' /\ SpeechInv' /\ Waits'
<1> DEFINE released == Head(pcm).kind = "turnDone" /\ pendingTurnDone
<1>1. /\ UNCHANGED <<jobs, worker, bargeIns, needNewTurnID, loop>>
      /\ pcm # <<>> /\ pcm' = Tail(pcm) /\ loop \in {"select", "draining"}
      /\ pendingTurnDone' = (pendingTurnDone /\ ~released)
      /\ early' = (early \/ (released /\ EndAhead))
  BY DEF PassSpeech, TakePCM, textVars, workVars, ghosts
<1>2. pcm \in Seq(Event) /\ Len(pcm) \in Nat /\ jobs \in Seq(Job)
  BY PipelineTyped
<1>3. /\ Len(pcm') = Len(pcm) - 1 /\ Len(pcm') \in Nat
      /\ \A i \in 1..Len(pcm') : pcm'[i] = pcm[i + 1] /\ i + 1 \in 2..Len(pcm)
  BY <1>1, <1>2, HeadTailProperties, EmptySeq
<1>4. QueuedInTime' /\ (EndAtWorker' <=> EndAtWorker)
  BY <1>1 DEF GateInv, QueuedInTime, EndAtWorker, EndQueued, Occupied, IsEnd
<1>5. \A i \in 1..Len(pcm') : EndInChannel(i + 1) => EndInChannel(i)'
  <2> SUFFICES ASSUME NEW i \in 1..Len(pcm'), EndInChannel(i + 1) PROVE EndInChannel(i)'
    OBVIOUS
  <2>1. PICK k \in i + 1 .. Len(pcm) : pcm[k].kind = "turnDone" /\ pcm[k].queued = bargeIns
    BY DEF EndInChannel
  <2>2. k - 1 \in i .. Len(pcm') /\ k - 1 \in 1..Len(pcm') /\ (k - 1) + 1 = k
    BY <1>2, <1>3
  <2> QED BY <1>1, <1>3, <2>1, <2>2 DEF EndInChannel
<1>6. EndInChannel(1)' => \E k \in 2..Len(pcm) : pcm[k].kind = "turnDone" /\ pcm[k].queued = bargeIns
  BY <1>1, <1>3 DEF EndInChannel
<1>7. SpeechInv'
  <2> SUFFICES ASSUME ~Excused', loop' = "select" PROVE (needNewTurnID' => SpeechEnds') /\ EndsHeld'
    BY <1>1 DEF SpeechInv, Dropping
  <2>1. (needNewTurnID => SpeechEnds) /\ EndsHeld
    BY <1>1, ExcusedStays DEF GateInv, SpeechInv, CallNext, StageSteps
  <2>2. ASSUME SpeechEnds PROVE SpeechEnds'
    <3>1. ASSUME NEW i \in 1..Len(pcm'), pcm'[i].kind = "audio", pcm'[i].queued = bargeIns
          PROVE  EndAtWorker' \/ EndInChannel(i)'
      <4>1. i + 1 \in 1..Len(pcm) /\ pcm[i + 1].kind = "audio" /\ pcm[i + 1].queued = bargeIns
        BY <1>2, <1>3, <3>1
      <4> QED BY <1>4, <1>5, <2>2, <4>1 DEF SpeechEnds
    <3>2. \A i \in 1..Len(jobs) : jobs[i].queued = bargeIns => \E k \in i..Len(jobs) : IsEnd(jobs[k])
      BY <2>2 DEF SpeechEnds
    <3>3. Occupied /\ worker.job.queued = bargeIns => EndAtWorker
      BY <2>2 DEF SpeechEnds
    <3> QED BY <1>1, <1>4, <3>1, <3>2, <3>3 DEF SpeechEnds, Occupied, IsEnd
  <2>3. EndsHeld'
    <3> SUFFICES ASSUME EndAtWorker \/ EndInChannel(1)' PROVE pendingTurnDone'
      BY <1>4 DEF EndsHeld
    <3>1. EndAtWorker \/ EndInChannel(1)
      BY <1>2, <1>6 DEF EndInChannel
    <3>2. EndAhead
      BY <1>2, <1>6 DEF EndAhead, EndAtWorker, EndQueued, Occupied, IsEnd
    <3> QED BY <1>1, <2>1, <3>1, <3>2 DEF EndsHeld, Excused
  <2> QED BY <1>1, <2>1, <2>2, <2>3
<1>8. Waits'
  BY <1>1 DEF Waits
<1> QED BY <1>4, <1>7, <1>8

\* The worker moves a job along; its audio stays before its end.
LEMMA WorkerKeepsSpeech ==
  ASSUME CallInv, GateInv, WorkerSteps, UNCHANGED <<onTheWay, early, strayed>>
  PROVE  QueuedInTime' /\ SpeechInv' /\ Waits'
<1>1. UNCHANGED <<bargeIns, needNewTurnID, pendingTurnDone, loop, ctxDone, lostDone>>
  BY DEF WorkerSteps, TakeJob, Begin, Callback, SendAudio, SpeakReturns, EndJob, WorkerExits,
     loopVars, textVars, ghosts
<1>2. /\ jobs \in Seq(Job) /\ Len(jobs) \in Nat /\ pcm \in Seq(Event) /\ Len(pcm) \in Nat
      /\ bargeIns \in Nat /\ worker.job \in Job
  BY PipelineTyped
<1>3. Excused' <=> Excused
  BY <1>1 DEF Excused
<1>4. Waits'
  BY <1>1 DEF GateInv, Waits
<1>5. CASE TakeJob
  <2>1. /\ ~Occupied /\ Occupied' /\ jobs # <<>> /\ pcm' = pcm
        /\ worker'.job = Head(jobs) /\ jobs' = Tail(jobs)
    BY <1>5 DEF TakeJob, Occupied, CallInv, IInv, TTSTypeOK, WorkerTypeOK
  <2>2. /\ Len(jobs') = Len(jobs) - 1 /\ worker'.job = jobs[1] /\ 1 \in 1..Len(jobs)
        /\ \A i \in 1..Len(jobs') : jobs'[i] = jobs[i + 1]
    BY <1>2, <2>1, HeadTailProperties, EmptySeq
  <2>3. QueuedInTime'
    BY <1>1, <1>2, <2>2 DEF GateInv, QueuedInTime
  <2>4. EndAtWorker' <=> EndAtWorker
    <3>1. ASSUME EndQueued PROVE EndAtWorker'
      <4>1. PICK k \in 1..Len(jobs) : IsEnd(jobs[k])
        BY <3>1 DEF EndQueued
      <4>2. CASE k = 1
        BY <1>1, <2>1, <2>2, <4>1, <4>2 DEF EndAtWorker, IsEnd
      <4>3. CASE k # 1
        <5>1. k - 1 \in 1..Len(jobs') /\ jobs'[k - 1] = jobs[k]
          BY <1>2, <2>2, <4>3
        <5> QED BY <1>1, <4>1, <5>1 DEF EndAtWorker, EndQueued, IsEnd
      <4> QED BY <4>2, <4>3
    <3>2. ASSUME EndAtWorker' PROVE EndQueued
      BY <1>1, <1>2, <2>2, <3>2 DEF EndAtWorker, EndQueued, IsEnd
    <3> QED BY <2>1, <3>1, <3>2 DEF EndAtWorker
  <2>5. ASSUME SpeechEnds PROVE SpeechEnds'
    <3>1. ASSUME NEW i \in 1..Len(jobs'), jobs'[i].queued = bargeIns
          PROVE  \E k \in i..Len(jobs') : IsEnd(jobs[k])'
      <4>1. i + 1 \in 1..Len(jobs) /\ jobs[i + 1].queued = bargeIns
        BY <1>2, <2>2, <3>1
      <4>2. PICK k \in i + 1 .. Len(jobs) : IsEnd(jobs[k])
        BY <2>5, <4>1 DEF SpeechEnds
      <4>3. k - 1 \in i..Len(jobs') /\ k - 1 \in 1..Len(jobs') /\ jobs'[k - 1] = jobs[k]
        BY <1>2, <2>2
      <4> QED BY <1>1, <4>2, <4>3 DEF IsEnd
    <3>2. worker'.job.queued = bargeIns => EndAtWorker'
      BY <1>2, <2>2, <2>4, <2>5 DEF SpeechEnds, EndAtWorker, EndQueued
    <3> QED BY <1>1, <2>1, <2>4, <2>5, <3>1, <3>2 DEF SpeechEnds, EndInChannel
  <2> QED BY <1>1, <1>3, <1>4, <2>1, <2>3, <2>4, <2>5 DEF GateInv, SpeechInv, EndsHeld, EndInChannel
<1>6. CASE Begin \/ Callback \/ SpeakReturns \/ WorkerExits
  <2>1. UNCHANGED <<jobs, pcm>> /\ worker'.job = worker.job /\ (Occupied' <=> Occupied)
    BY <1>6 DEF Begin, Callback, SpeakReturns, WorkerExits, Occupied, CallInv, IInv, TTSTypeOK,
       WorkerTypeOK
  <2> QED BY <1>1, <1>3, <1>4, <2>1 DEF GateInv, QueuedInTime, SpeechInv, SpeechEnds, EndsHeld,
       EndAtWorker, EndQueued, EndInChannel, IsEnd
<1>7. CASE SendAudio
  <2> DEFINE e == WorkerEvent("audio")
  <2>1. /\ jobs' = jobs /\ worker'.job = worker.job /\ Occupied /\ Occupied'
        /\ pcm' = Append(pcm, e)
    BY <1>7 DEF SendAudio, Occupied, CallInv, IInv, TTSTypeOK, WorkerTypeOK
  <2>2. e \in Event /\ e.kind = "audio" /\ e.queued = worker.job.queued
    BY EventTyped DEF CallInv, IInv, Kind, WorkerEvent
  <2>3. /\ Len(pcm') = Len(pcm) + 1 /\ pcm'[Len(pcm) + 1] = e
        /\ \A i \in 1..Len(pcm) : pcm'[i] = pcm[i]
    <3> HIDE DEF e
    <3> QED BY <1>2, <2>1, <2>2, AppendProperties
  <2>4. QueuedInTime' /\ (EndAtWorker' <=> EndAtWorker)
    BY <1>1, <2>1 DEF GateInv, QueuedInTime, EndAtWorker, EndQueued, IsEnd
  <2>5. ASSUME NEW i \in Nat \ {0} PROVE EndInChannel(i)' <=> EndInChannel(i)
    BY <1>1, <1>2, <2>2, <2>3 DEF EndInChannel
  <2>6. ASSUME SpeechEnds PROVE SpeechEnds'
    <3>1. ASSUME NEW i \in 1..Len(pcm'), pcm'[i].kind = "audio", pcm'[i].queued = bargeIns
          PROVE  EndAtWorker' \/ EndInChannel(i)'
      <4>1. CASE i \in 1..Len(pcm)
        BY <1>2, <2>3, <2>4, <2>5, <2>6, <3>1, <4>1 DEF SpeechEnds
      <4>2. CASE i = Len(pcm) + 1
        BY <2>1, <2>2, <2>3, <2>4, <2>6, <3>1, <4>2 DEF SpeechEnds
      <4> QED BY <1>2, <2>3, <4>1, <4>2
    <3> QED BY <1>1, <2>1, <2>4, <2>6, <3>1 DEF SpeechEnds, IsEnd
  <2> QED BY <1>1, <1>3, <1>4, <2>4, <2>5, <2>6 DEF GateInv, SpeechInv, EndsHeld
<1>8. CASE EndJob
  <2>1. jobs' = jobs /\ worker' = Resting /\ ~Occupied' /\ Occupied
    BY <1>8 DEF EndJob, Occupied, Resting
  <2>2. QueuedInTime'
    BY <1>1, <1>2, <2>1 DEF GateInv, QueuedInTime, Resting
  <2>3. CASE ctxDone
    BY <1>1, <1>4, <2>2, <2>3 DEF SpeechInv, Excused
  <2>4. CASE ~ctxDone
    <3> DEFINE e == WorkerEvent(IF worker.job.turnDone THEN "turnDone" ELSE "terminal")
    <3>1. pcm' = Append(pcm, e)
      BY <1>8, <2>4 DEF EndJob
    <3>2. /\ e \in Event /\ e.kind # "audio" /\ e.queued = worker.job.queued
          /\ (e.kind = "turnDone" /\ e.queued = bargeIns <=> IsEnd(worker.job))
      <4>1. worker.job.turnDone \in BOOLEAN
        BY <1>2 DEF Job
      <4> QED BY <4>1, EventTyped DEF CallInv, IInv, Kind, WorkerEvent, IsEnd
    <3>3. /\ Len(pcm') = Len(pcm) + 1 /\ pcm'[Len(pcm) + 1] = e
          /\ \A i \in 1..Len(pcm) : pcm'[i] = pcm[i]
      <4> HIDE DEF e
      <4> QED BY <1>2, <3>1, <3>2, AppendProperties
    <3> HIDE DEF e
    <3>4. \A i \in 1..Len(pcm') : i \in 1..Len(pcm) \/ i = Len(pcm) + 1
      BY <1>2, <3>3
    <3>5. EndAtWorker' <=> EndQueued
      BY <1>1, <2>1 DEF EndAtWorker, EndQueued, IsEnd
    <3>6. EndAtWorker <=> IsEnd(worker.job) \/ EndQueued
      BY <2>1 DEF EndAtWorker
    <3>7. ASSUME NEW i \in 1..Len(pcm') PROVE EndInChannel(i)' <=> EndInChannel(i) \/ IsEnd(worker.job)
      BY <1>1, <1>2, <3>2, <3>3 DEF EndInChannel
    <3>8. ASSUME SpeechEnds PROVE SpeechEnds'
      <4>1. ASSUME NEW i \in 1..Len(pcm'), pcm'[i].kind = "audio", pcm'[i].queued = bargeIns
            PROVE  EndAtWorker' \/ EndInChannel(i)'
        <5>1. i \in 1..Len(pcm) /\ pcm[i].kind = "audio" /\ pcm[i].queued = bargeIns
          BY <3>2, <3>3, <3>4, <4>1
        <5> QED BY <3>5, <3>6, <3>7, <3>8, <5>1 DEF SpeechEnds
      <4> QED BY <1>1, <2>1, <3>8, <4>1 DEF SpeechEnds, IsEnd
    <3>9. EndsHeld => EndsHeld'
      <4>1. 1 \in 1..Len(pcm')
        BY <1>2, <3>3
      <4> QED BY <1>1, <3>5, <3>6, <3>7, <4>1 DEF EndsHeld
    <3> QED BY <1>1, <1>3, <1>4, <2>2, <3>8, <3>9 DEF GateInv, SpeechInv
  <2> QED BY <2>3, <2>4
<1> QED BY <1>5, <1>6, <1>7, <1>8 DEF WorkerSteps

\* A barge-in empties jobs and channel, and what the worker has is of before.
LEMMA StageKeepsSpeech ==
  ASSUME CallInv, GateInv, StageSteps
  PROVE  QueuedInTime' /\ SpeechInv' /\ Waits'
<1>1. bargeIns \in Nat /\ worker.job.queued \in Nat
  BY PipelineTyped DEF Job, Epoch
<1>2. CASE BargeInArrives
  <2>1. UNCHANGED <<jobs, worker, bargeIns>> /\ loop' = "interrupting"
    BY <1>2 DEF BargeInArrives, TakeBargeIn, ghosts
  <2> QED BY <2>1 DEF GateInv, QueuedInTime, SpeechInv, Waits, Dropping
<1>3. CASE Interrupted
  <2>1. jobs' = <<>> /\ pcm' = <<>> /\ bargeIns' = bargeIns + 1 /\ worker' = worker
        /\ loop' = "select"
    BY <1>3 DEF Interrupted, Interrupt, workVars
  <2>2. Len(jobs') = 0 /\ Len(pcm') = 0
    BY <2>1, EmptySeq
  <2>3. worker.job.queued <= bargeIns /\ worker'.job.queued # bargeIns'
    BY <1>1, <2>1 DEF GateInv, QueuedInTime
  <2>4. QueuedInTime'
    BY <1>1, <2>1, <2>2, <2>3 DEF QueuedInTime
  <2>5. ~EndAtWorker' /\ ~EndInChannel(1)'
    BY <2>2, <2>3 DEF EndAtWorker, EndQueued, EndInChannel, IsEnd
  <2>6. SpeechEnds' /\ EndsHeld'
    BY <2>2, <2>3, <2>5 DEF SpeechEnds, EndsHeld
  <2> QED BY <2>1, <2>4, <2>6 DEF SpeechInv, Waits
<1>4. CASE Drained
  <2>1. UNCHANGED <<jobs, worker, bargeIns>> /\ loop' = "leaving"
    BY <1>4 DEF Drained, DrainEnds, workVars, ghosts
  <2> QED BY <2>1 DEF GateInv, QueuedInTime, SpeechInv, Waits, Dropping
<1>5. CASE Silent
  <2>1. UNCHANGED <<onTheWay, early, strayed>> /\ Inward
    BY <1>5 DEF Silent
  <2>2. CASE InputCloses \/ ContextEnds \/ LeaveOnContext \/ Return
    <3>1. /\ UNCHANGED <<jobs, worker, bargeIns>>
          /\ \/ ctxDone' = TRUE /\ UNCHANGED <<loop, needNewTurnID, pendingTurnDone>>
             \/ loop' \in {"draining", "leaving", "returned"}
      BY <2>2 DEF InputCloses, ContextEnds, LeaveOnContext, Return, textVars, workVars, ghosts
    <3> QED BY <3>1 DEF GateInv, QueuedInTime, SpeechInv, Excused, Waits, Dropping
  <2> QED BY <2>1, <2>2, WorkerKeepsSpeech DEF Inward
<1>6. CASE Stick
  BY <1>6, TextKeepsSpeech, DoneKeepsSpeech DEF Stick, Stuck
<1> QED BY <1>2, <1>3, <1>4, <1>5, <1>6, TextKeepsSpeech, DoneKeepsSpeech, PassKeepsSpeech
        DEF StageSteps

\* Speech that leaves the stage belongs to a reply that is still open: its text
\* or, once that is complete, the AITextDone held back for it.
LEMMA AudibleIsOpen ==
  ASSUME CallInv, GateInv, ~Excused, loop = "select", pcm # <<>>, Audible(Head(pcm)),
         Head(pcm).queued = bargeIns
  PROVE  ReplyOpen
<1>1. Head(pcm) = pcm[1] /\ 1 \in 1..Len(pcm)
  BY PipelineTyped, EmptySeq
<1>2. (needNewTurnID => EndAtWorker \/ EndInChannel(1)) /\ EndsHeld
  BY <1>1 DEF GateInv, SpeechInv, SpeechEnds, Audible
<1> QED BY <1>2 DEF EndsHeld, ReplyOpen

\* What the stage sends keeps the line in order: the reply is open, a barge-in
\* is on its way, or the frame that lowers the flag is the last of the line.
LEMMA StageKeepsLine == ASSUME CallInv, GateInv, StageSteps PROVE LineInv'
<1> SUFFICES ASSUME ~Excused', loop' \in {"select", "interrupting"} \cup Dropping
             PROVE  ReplyOpen' \/ Ahead' \/ Lowered'
  BY DEF LineInv
<1>1. ~Excused
  BY ExcusedStays DEF CallNext, StageSteps
<1>2. UNCHANGED <<hand, ttsPlaying, vad>> /\ OutboxTyped /\ onTheWay \in Nat
  BY DEF StageSteps, Pass, Stick, HoldDone, BargeInArrives, Interrupted, PassSpeech, Drained,
     Silent, besides, flagVars, CallInv, OrderInv, FlagInv
<1>3. outbox' = outbox => (Lowered' <=> Lowered)
  BY <1>2 DEF Lowered, Held, Opens
<1>4. \A f \in FrameType : outbox' = outbox \o <<f>> =>
        (Opens(f) \/ (Lowered /\ f.kind # "audio") => Lowered')
  BY <1>2, LineGrows
<1>5. 0 \in Epoch /\ bargeIns \in Epoch
  BY TTSAssumption, PipelineTyped DEF Epoch
<1>6. CASE Pass
  <2>1. /\ UNCHANGED <<pendingTurnDone, onTheWay>>
        /\ ~needNewTurnID' \/ (UNCHANGED <<needNewTurnID, loop>>)
        /\ outbox' = outbox \o <<Nothing>>
    BY <1>6 DEF Pass, Passes, TakeText, TakeOther, Drop, Dropping, textVars, Sends, GateInv, Waits
  <2>2. Nothing \in FrameType /\ Nothing.kind = "other"
    BY <1>5, FrameTyped DEF Nothing
  <2>3. Lowered => Lowered'
    BY <1>4, <2>1, <2>2
  <2> QED BY <1>1, <1>2, <2>1, <2>3 DEF GateInv, LineInv, ReplyOpen, Ahead
<1>7. CASE HoldDone
  BY <1>7 DEF HoldDone, TakeDone, ReplyOpen
<1>13. CASE Stick
  BY <1>13 DEF Stick, Stuck, TakeText, Drop, ReplyOpen, GateInv, Waits
<1>8. CASE BargeInArrives
  BY <1>8 DEF BargeInArrives, TakeBargeIn, Ahead
<1>9. CASE Interrupted
  <2> DEFINE f == Frame("bargeIn", bargeIns + 1)
  <2>1. outbox' = outbox \o <<f>> /\ bargeIns' = bargeIns + 1
    BY <1>9 DEF Interrupted, Interrupt, Sends
  <2>2. bargeIns + 1 \in Epoch
    BY <1>5, <1>9, TTSAssumption DEF Interrupted, Interrupt, CallInv, IInv, Halfway, Epoch
  <2>3. f \in FrameType /\ Opens(f)
    BY <2>2, FrameTyped DEF Opens
  <2> QED BY <1>4, <2>1, <2>3
<1>10. CASE PassSpeech
  <2> DEFINE ev == Head(pcm)
             released == ev.kind = "turnDone" /\ pendingTurnDone
  <2>1. /\ UNCHANGED <<loop, needNewTurnID, onTheWay>> /\ pcm # <<>>
        /\ pendingTurnDone' = (pendingTurnDone /\ ~released)
        /\ strayed' = (strayed \/ (Audible(ev) /\ ev.queued # bargeIns))
        /\ loop \in {"select", "draining"}
    BY <1>10 DEF PassSpeech, TakePCM, textVars
  <2>2. loop = "select" /\ pendingTurnDone \in BOOLEAN
    BY <2>1 DEF CallInv, IInv, TTSTypeOK, LoopTypeOK, Dropping
  <2>3. CASE Audible(ev)
    <3>1. ev.queued = bargeIns
      BY <2>1, <2>3 DEF Excused
    <3>2. ReplyOpen
      BY <1>1, <2>1, <2>2, <2>3, <3>1, AudibleIsOpen
    <3>3. ~released
      BY <2>3 DEF Audible
    <3> QED BY <2>1, <2>2, <3>2, <3>3 DEF ReplyOpen
  <2>4. CASE released
    <3>1. outbox' = outbox \o <<Done>>
      BY <1>10, <2>4 DEF PassSpeech, Sends, Audible
    <3>2. Done \in FrameType /\ Opens(Done)
      BY <1>5, FrameTyped DEF Done, Opens
    <3> QED BY <1>4, <3>1, <3>2
  <2>5. CASE ~Audible(ev) /\ ~released
    <3>1. Quiet
      BY <1>10, <2>5 DEF PassSpeech, Quiet, Sends
    <3>2. outbox' = outbox
      BY <1>2, <3>1, QuietEffect
    <3>3. pendingTurnDone' = pendingTurnDone
      BY <2>1, <2>2, <2>5
    <3> QED BY <1>1, <1>2, <1>3, <2>1, <2>2, <3>2, <3>3 DEF GateInv, LineInv, ReplyOpen, Ahead
  <2> QED BY <2>3, <2>4, <2>5
<1>11. CASE Drained
  BY <1>11 DEF Drained, DrainEnds, Dropping
<1>12. CASE Silent
  <2>1. outbox' = outbox
    BY <1>2, <1>12, QuietEffect DEF Silent
  <2>2. /\ UNCHANGED <<needNewTurnID, pendingTurnDone, onTheWay>>
        /\ loop' = loop \/ loop' \notin {"select", "interrupting"} \cup Dropping
    BY <1>12 DEF Dropping, Silent, Inward, WorkerSteps, TakeJob, Begin, Callback, SendAudio, SpeakReturns,
       EndJob, WorkerExits, loopVars, textVars, InputCloses, ContextEnds, LeaveOnContext, Return
  <2> QED BY <1>1, <1>2, <1>3, <2>1, <2>2 DEF GateInv, LineInv, ReplyOpen, Ahead
<1> QED BY <1>6, <1>7, <1>8, <1>9, <1>10, <1>11, <1>12, <1>13 DEF StageSteps

\* What VAD stage and bridge leave alone.
LEMMA OutsideKeepsSpeech ==
  ASSUME GateInv, UNCHANGED <<jobs, pcm, worker, bargeIns, needNewTurnID, pendingTurnDone, loop>>,
         Excused => Excused'
  PROVE  QueuedInTime' /\ SpeechInv' /\ Waits' /\ (ReplyOpen' <=> ReplyOpen)
BY DEF GateInv, QueuedInTime, SpeechInv, Waits, SpeechEnds, EndsHeld, EndAtWorker, EndQueued,
       EndInChannel, Occupied, IsEnd, ReplyOpen

\* A barge-in is on its way from the moment it is detected.
LEMMA VADKeepsGate == ASSUME CallInv, GateInv, VADSteps PROVE GateInv'
<1>1. UNCHANGED <<jobs, pcm, worker, bargeIns, needNewTurnID, pendingTurnDone, loop, outbox, hand, ctxDone>>
  BY DEF VADSteps, Listen, Lower, SendBargeIn, vadLeaves, vars, textVars, workVars, ghosts
<1>2. Excused => Excused'
  BY ExcusedStays DEF CallNext
<1>3. QueuedInTime' /\ SpeechInv' /\ Waits' /\ (ReplyOpen' <=> ReplyOpen)
  BY <1>1, <1>2, OutsideKeepsSpeech
<1>4. onTheWay \in Nat
  BY DEF CallInv, FlagInv
<1>5. CASE Listen
  <2>1. ttsPlaying' = ttsPlaying /\ onTheWay' = onTheWay /\ (vad' = vad \/ vad' = "detected")
    BY <1>5 DEF Listen
  <2>2. Lowered' <=> Lowered
    BY <1>1, <2>1 DEF Lowered, Held, Opens
  <2> QED BY <1>1, <1>2, <1>3, <2>1, <2>2 DEF GateInv, LineInv, Ahead
<1>6. CASE Lower
  BY <1>3, <1>6 DEF GateInv, LineInv, Ahead, Lower
<1>7. CASE SendBargeIn
  <2>1. ctxDone \/ onTheWay' > 0
    BY <1>4, <1>7 DEF SendBargeIn
  <2> QED BY <1>1, <1>3, <2>1 DEF GateInv, LineInv, Ahead, Excused
<1> QED BY <1>5, <1>6, <1>7 DEF VADSteps

\* The bridge takes the line frame by frame: playing audio raises the flag, and
\* behind that frame waits one that lowers it.
LEMMA BridgeKeepsGate == ASSUME CallInv, GateInv, BridgeSteps PROVE GateInv'
<1>1. UNCHANGED <<jobs, pcm, worker, bargeIns, needNewTurnID, pendingTurnDone, loop, vad, onTheWay>>
  BY DEF BridgeSteps, BridgeTakes, Play, Open, BridgeLeaves, Deliver, ContextEnds, vars, textVars,
     workVars, ghosts, flagVars
<1>2. Excused => Excused'
  BY ExcusedStays DEF CallNext
<1>3. QueuedInTime' /\ SpeechInv' /\ Waits' /\ (ReplyOpen' <=> ReplyOpen)
  BY <1>1, <1>2, OutsideKeepsSpeech
<1>4. (Ahead' <=> Ahead) /\ OutboxTyped /\ Len(outbox) \in Nat
  BY <1>1, LenProperties DEF Ahead, CallInv, OrderInv, OutboxTyped
<1>5. Lowered => Lowered'
  <2> SUFFICES ASSUME Lowered PROVE Lowered'
    OBVIOUS
  <2>1. CASE BridgeTakes
    <3>1. /\ hand = Nothing /\ hand' = Head(outbox) /\ outbox' = Tail(outbox)
          /\ backlog > 0 /\ ttsPlaying' = ttsPlaying
      BY <2>1 DEF BridgeTakes, Deliver, flagVars
    <3>2. outbox \in Seq(FrameType) /\ outbox # <<>>
      BY <1>4, <3>1 DEF OutboxTyped
    <3>3. /\ Len(outbox') = Len(outbox) - 1 /\ hand' = outbox[1]
          /\ \A i \in 1..Len(outbox') : outbox'[i] = outbox[i + 1]
      BY <1>4, <3>1, <3>2, HeadTailProperties
    <3>4. \A k \in 0..Len(outbox') : k + 1 \in 0..Len(outbox) /\ Held(k)' = Held(k + 1)
      BY <1>4, <3>3 DEF Held
    <3>5. ~Opens(Held(0)) /\ \A k \in 0..Len(outbox) : k # 0 => k - 1 \in 0..Len(outbox') /\ Held(k - 1)' = Held(k)
      BY <1>4, <3>1, <3>3, <3>4 DEF Held, Opens, Nothing, Frame
    <3>6. ttsPlaying' => \E k \in 0..Len(outbox') : Opens(Held(k)')
      BY <3>1, <3>5 DEF Lowered
    <3>7. ASSUME NEW k \in 0..Len(outbox'), Held(k)'.kind = "audio"
          PROVE  \E l \in k + 1 .. Len(outbox') : Opens(Held(l)')
      <4>1. PICK l \in (k + 1) + 1 .. Len(outbox) : Opens(Held(l))
        BY <3>4, <3>7 DEF Lowered
      <4>2. l - 1 \in k + 1 .. Len(outbox') /\ Held(l - 1)' = Held(l)
        BY <1>4, <3>3, <3>5
      <4> QED BY <4>1, <4>2
    <3> QED BY <3>6, <3>7 DEF Lowered, Opens
  <2>2. CASE Play \/ Open
    <3>1. /\ outbox' = outbox /\ hand' = Nothing
          /\ ttsPlaying' = FALSE \/ hand.kind = "audio"
      BY <2>2 DEF Play, Open
    <3>2. \A k \in 0..Len(outbox) : k # 0 => Held(k)' = Held(k)
      BY <3>1 DEF Held
    <3>3. Held(0)' = Nothing /\ Held(0) = hand /\ Nothing.kind = "other" /\ 0 \in 0..Len(outbox)
      BY <1>4, <3>1 DEF Held, Nothing, Frame
    <3>4. ttsPlaying' => \E k \in 1..Len(outbox) : Opens(Held(k))
      BY <3>1, <3>3 DEF Lowered
    <3>5. ttsPlaying' => \E k \in 0..Len(outbox') : Opens(Held(k)')
      BY <1>4, <3>1, <3>2, <3>4
    <3>6. ASSUME NEW k \in 0..Len(outbox'), Held(k)'.kind = "audio"
          PROVE  \E l \in k + 1 .. Len(outbox') : Opens(Held(l)')
      <4>1. k # 0 /\ Held(k).kind = "audio" /\ k \in 0..Len(outbox)
        BY <3>1, <3>2, <3>3, <3>6
      <4>2. PICK l \in k + 1 .. Len(outbox) : Opens(Held(l))
        BY <4>1 DEF Lowered
      <4>3. l \in 0..Len(outbox) /\ l # 0
        BY <4>1
      <4> QED BY <3>1, <3>2, <4>2, <4>3
    <3> QED BY <3>5, <3>6 DEF Lowered, Opens
  <2>3. CASE BridgeLeaves
    <3>1. UNCHANGED <<outbox, hand, ttsPlaying>>
      BY <2>3 DEF BridgeLeaves, flagVars
    <3> QED BY <3>1 DEF Lowered, Held, Opens
  <2> QED BY <2>1, <2>2, <2>3 DEF BridgeSteps
<1> QED BY <1>1, <1>2, <1>3, <1>4, <1>5 DEF GateInv, LineInv

LEMMA GateStepInv == CallInv /\ GateInv /\ [CallNext]_callVars => GateInv'
<1> SUFFICES ASSUME CallInv, GateInv, [CallNext]_callVars PROVE GateInv'
  OBVIOUS
<1>1. CASE UNCHANGED callVars
  <2>1. /\ UNCHANGED <<jobs, pcm, worker, bargeIns, needNewTurnID, pendingTurnDone, loop>>
        /\ UNCHANGED <<vad, onTheWay, outbox, hand, ttsPlaying>> /\ (Excused => Excused')
    BY <1>1, ExcusedStays DEF callVars, vars, textVars, workVars, ghosts, flagVars
  <2>2. QueuedInTime' /\ SpeechInv' /\ Waits' /\ (ReplyOpen' <=> ReplyOpen)
    BY <2>1, OutsideKeepsSpeech
  <2>3. (Ahead' <=> Ahead) /\ (Lowered' <=> Lowered)
    BY <2>1 DEF Ahead, Lowered, Held, Opens
  <2> QED BY <2>1, <2>2, <2>3 DEF GateInv, LineInv
<1>2. CASE StageSteps
  BY <1>2, StageKeepsSpeech, StageKeepsLine DEF GateInv
<1> QED BY <1>1, <1>2, VADKeepsGate, BridgeKeepsGate DEF CallNext

LEMMA GateInitInv == CallInit => GateInv
<1> SUFFICES ASSUME CallInit PROVE GateInv
  OBVIOUS
<1>1. /\ jobs = <<>> /\ pcm = <<>> /\ outbox = <<>> /\ ~ttsPlaying /\ hand = Nothing
      /\ worker = Resting /\ bargeIns = 0 /\ loop = "select"
  BY DEF CallInit, Init
<1>2. Len(jobs) = 0 /\ Len(pcm) = 0 /\ Len(outbox) = 0 /\ ~Occupied /\ worker.job.queued = 0
  BY <1>1, EmptySeq DEF Occupied, Resting
<1>3. QueuedInTime /\ ~EndAtWorker /\ ~EndInChannel(1) /\ SpeechEnds
  BY <1>1, <1>2 DEF QueuedInTime, EndAtWorker, EndQueued, EndInChannel, SpeechEnds
<1>4. Lowered
  BY <1>1, <1>2 DEF Lowered, Held, Nothing, Frame
<1> QED BY <1>1, <1>3, <1>4 DEF GateInv, SpeechInv, EndsHeld, Waits, LineInv

\* The ASR stage is never kept deaf with nothing left to open its gate, for any
\* number of barge-ins and channels of any size.
THEOREM CallGateReopens == CallSpec => []GateReopens
<1>1. CallInv /\ GateInv => GateReopens
  <2> SUFFICES ASSUME CallInv, GateInv, ttsPlaying, ~ctxDone, ~lostDone,
                      loop \in {"select", "interrupting"} \cup Dropping,
                      ~early, ~strayed
               PROVE  ReplyOpen \/ Underway
    BY DEF GateReopens, ReplyOpen
  <2>1. ReplyOpen \/ Ahead \/ Lowered
    BY DEF GateInv, LineInv, Excused
  <2>2. CASE Lowered
    <3>1. PICK k \in 0..Len(outbox) : Opens(Held(k))
      BY <2>2 DEF Lowered
    <3>2. DOMAIN outbox = 1..Len(outbox) /\ Len(outbox) \in Nat
      BY LenProperties DEF CallInv, OrderInv, OutboxTyped
    <3>3. Opens(hand) \/ \E i \in DOMAIN outbox : Opens(outbox[i])
      BY <3>1, <3>2 DEF Held
    <3> QED BY <3>3 DEF Underway
  <2> QED BY <2>1, <2>2 DEF Ahead, Underway
<1>2. CallInit => CallInv /\ GateInv
  BY CallInitInv, GateInitInv
<1>3. CallInv /\ GateInv /\ [CallNext]_callVars => (CallInv /\ GateInv)'
  BY CallStepInv, GateStepInv
<1> QED BY <1>1, <1>2, <1>3, PTL DEF CallSpec
=============================================================================

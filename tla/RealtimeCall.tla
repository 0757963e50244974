---------------------------- MODULE RealtimeCall ----------------------------
(***************************************************************************)
(* pkg/dialog/realtime: a call with a speech-to-speech model.  The vendor  *)
(* client (lingllm/realtime/aliyunomni) has a reader that turns the        *)
(* server's events into Emits on the sink, and a writer that sends what    *)
(* the stage queues; the agent stage passes the events down as frames; the *)
(* pacer holds audio back and lets it go in ticks; the bridge plays it.    *)
(* An utterance of the caller is a barge-in, which overtakes the audio     *)
(* that the pacer holds.                                                   *)
(***************************************************************************)
EXTENDS Naturals, Sequences

CONSTANTS MaxSpeech,  \* bound: utterances the server tells of
          MaxAudio,   \* bound: pieces of audio it sends
          SinkSize,   \* capacity of the sink's channel
          SendSize,   \* capacity of sendCh
          LineSize,   \* capacity of the channels between stages
          Prebuffer   \* the frames the pacer wants before it starts

ASSUME RealtimeAssumption ==
  /\ {MaxSpeech, MaxAudio} \subseteq Nat
  /\ {SinkSize, SendSize, LineSize, Prebuffer} \subseteq Nat \ {0}

VARIABLES
  vendor,      \* where the client's reader and writer are
  sendQueue,   \* how many messages wait in sendCh
  clientOver,  \* the client's closed flag and its root context
  speech,      \* utterances the server has told of
  audio,       \* pieces of audio it has sent
  sink,        \* events the stage has not taken
  sinkClosed,
  panicked,    \* an Emit sent on the closed channel
  stage,       \* where the agent stage is
  frames,      \* from the agent stage to the pacer
  buffer,      \* what the pacer holds
  started,     \* the pacer is past its prebuffer
  passing,     \* what the pacer is sending on
  line,        \* from the pacer to the bridge
  interrupted, \* the utterance of the last BargeIn the bridge handled
  callOver     \* the engine's context has ended

clientVars == <<vendor, sendQueue, clientOver, speech, audio>>
sinkVars == <<sink, sinkClosed, panicked>>
pacerVars == <<buffer, started, passing>>
realtimeVars == <<clientVars, sinkVars, stage, frames, pacerVars, line, interrupted, callOver>>

Utterance == 0..MaxSpeech
Emitter == {"reader", "writer"}

\* An event carries the utterances told of when it came.
RTEvent == [kind : {"audio", "speech", "fatal", "close"}, at : Utterance]
RTFrame == [kind : {"audio", "bargeIn"}, at : Utterance]
RTKind(kind) == [kind |-> kind, at |-> speech]
NoFrame == [kind |-> "audio", at |-> 0]
BargeInAt(n) == [kind |-> "bargeIn", at |-> n]
Idle == [pc |-> "idle", ev |-> [kind |-> "close", at |-> 0]]

RealtimeTypeOK ==
  /\ vendor \in [Emitter -> [pc : {"idle", "writing", "offering", "sending", "exited"},
                             ev : RTEvent]]
  /\ sendQueue \in 0..SendSize /\ clientOver \in BOOLEAN
  /\ speech \in Utterance /\ audio \in 0..MaxAudio
  /\ sink \in Seq(RTEvent) /\ Len(sink) <= SinkSize
  /\ sinkClosed \in BOOLEAN /\ panicked \in BOOLEAN
  /\ stage \in [pc : {"select", "cancelling", "emitting", "closing", "waiting", "draining",
                      "leaving", "returned"},
                frame : RTFrame, inputOver : BOOLEAN]
  /\ frames \in Seq(RTFrame) /\ Len(frames) <= LineSize
  /\ buffer \in Seq(RTFrame) /\ started \in BOOLEAN
  /\ passing \in Seq(RTFrame) /\ Len(passing) <= 1
  /\ line \in Seq(RTFrame) /\ Len(line) <= LineSize
  /\ interrupted \in Utterance /\ callOver \in BOOLEAN

RealtimeInit ==
  /\ vendor = [p \in Emitter |-> Idle]
  /\ sendQueue = 0 /\ clientOver = FALSE /\ speech = 0 /\ audio = 0
  /\ sink = <<>> /\ sinkClosed = FALSE /\ panicked = FALSE
  /\ stage = [pc |-> "select", frame |-> NoFrame, inputOver |-> FALSE]
  /\ frames = <<>> /\ buffer = <<>> /\ started = FALSE /\ passing = <<>>
  /\ line = <<>> /\ interrupted = 0 /\ callOver = FALSE

-----------------------------------------------------------------------------
(* The client: its reader, its writer, and their Emits on the sink.        *)

stageVars == <<stage, frames, pacerVars, line, interrupted, callOver>>
Offers(p, ev) == vendor' = [vendor EXCEPT ![p] = [pc |-> "offering", ev |-> ev]]
GoesTo(p, pc) == vendor' = [vendor EXCEPT ![p].pc = pc]

ReadSpeech ==
  /\ vendor["reader"].pc = "idle" /\ ~clientOver
  /\ speech < MaxSpeech
  /\ speech' = speech + 1
  /\ Offers("reader", [kind |-> "speech", at |-> speech + 1])
  /\ UNCHANGED <<sendQueue, clientOver, audio, sinkVars, stageVars>>

ReadAudio ==
  /\ vendor["reader"].pc = "idle" /\ ~clientOver
  /\ audio < MaxAudio
  /\ audio' = audio + 1
  /\ Offers("reader", RTKind("audio"))
  /\ UNCHANGED <<sendQueue, clientOver, speech, sinkVars, stageVars>>

\* A broken connection is a fatal error, unless the server or Close ended it; so
\* is an error that the server reports.
ReadFails ==
  /\ vendor["reader"].pc = "idle"
  /\ \/ Offers("reader", RTKind("close"))
     \/ ~clientOver /\ Offers("reader", RTKind("fatal"))
  /\ UNCHANGED <<sendQueue, clientOver, speech, audio, sinkVars, stageVars>>

Write ==
  /\ vendor["writer"].pc = "idle" /\ sendQueue > 0
  /\ sendQueue' = sendQueue - 1
  /\ GoesTo("writer", "writing")
  /\ UNCHANGED <<clientOver, speech, audio, sinkVars, stageVars>>

\* The writer gives up at the first error; nobody empties sendCh after that.
Written ==
  /\ vendor["writer"].pc = "writing"
  /\ GoesTo("writer", "idle") \/ Offers("writer", RTKind("fatal"))
  /\ UNCHANGED <<sendQueue, clientOver, speech, audio, sinkVars, stageVars>>

WriterExits ==
  /\ vendor["writer"].pc = "idle" /\ clientOver
  /\ GoesTo("writer", "exited")
  /\ UNCHANGED <<sendQueue, clientOver, speech, audio, sinkVars, stageVars>>

\* The reader's last event is SessionClose; after an error that the server
\* reported it reads on.
AfterEmit(p) ==
  LET ev == vendor[p].ev
  IN  \/ (p = "writer" \/ ev.kind = "close") /\ GoesTo(p, "exited")
      \/ p # "writer" /\ ev.kind = "fatal" /\ Offers(p, RTKind("close"))
      \/ p # "writer" /\ ev.kind \in {"audio", "speech", "fatal"} /\ GoesTo(p, "idle")

\* emit and Emit look first: at the client's flag, and under the lock at the
\* sink's.
EmitLooks(p) ==
  /\ vendor[p].pc = "offering"
  /\ IF sinkClosed \/ (clientOver /\ vendor[p].ev.kind # "close")
     THEN AfterEmit(p) ELSE GoesTo(p, "sending")
  /\ UNCHANGED <<sendQueue, clientOver, speech, audio, sinkVars, stageVars>>

\* The lock is given up before the channel is used; a full one drops the event.
EmitSends(p) ==
  /\ vendor[p].pc = "sending"
  /\ AfterEmit(p)
  /\ panicked' = (panicked \/ sinkClosed)
  /\ sink' = IF ~sinkClosed /\ Len(sink) < SinkSize THEN Append(sink, vendor[p].ev) ELSE sink
  /\ UNCHANGED <<sendQueue, clientOver, speech, audio, sinkClosed, stageVars>>

Emitting(p) == EmitLooks(p) \/ EmitSends(p)
Emits == \E p \in Emitter : Emitting(p)
Reads == ReadSpeech \/ ReadAudio
ClientSteps == Write \/ Written \/ WriterExits \/ Emits

-----------------------------------------------------------------------------
(* The agent stage.                                                        *)

stageLeaves == <<vendor, speech, audio, panicked, pacerVars, line, interrupted, callOver>>
StageAt(pc) == stage' = [stage EXCEPT !.pc = pc]
StageEmits(frame) == stage' = [stage EXCEPT !.pc = "emitting", !.frame = frame]

\* PushAudio: a full sendCh drops the caller's frame.
TakeVoice ==
  /\ stage.pc = "select" /\ ~clientOver
  /\ sendQueue < SendSize
  /\ sendQueue' = sendQueue + 1
  /\ UNCHANGED <<clientOver, sink, sinkClosed, stage, frames, stageLeaves>>

TakeEvent ==
  /\ stage.pc = "select" /\ sink # <<>>
  /\ sink' = Tail(sink)
  /\ LET ev == Head(sink)
     IN  CASE ev.kind = "speech" -> stage' = [stage EXCEPT !.pc = "cancelling",
                                                           !.frame = BargeInAt(ev.at)]
           [] ev.kind = "audio"  -> StageEmits(ev)
           [] ev.kind = "close"  -> UNCHANGED stage
           [] ev.kind = "fatal"  -> StageAt("closing")
  /\ UNCHANGED <<sendQueue, clientOver, sinkClosed, frames, stageLeaves>>

\* agent.Cancel waits for room in sendCh or for the client's own context.
CancelModel ==
  /\ stage.pc = "cancelling"
  /\ \/ clientOver /\ UNCHANGED sendQueue
     \/ sendQueue < SendSize /\ sendQueue' = sendQueue + 1
  /\ StageAt("emitting")
  /\ UNCHANGED <<clientOver, sink, sinkClosed, frames, stageLeaves>>

\* A slip: a full channel is waited for whatever happens.
EmitOnlyWithRoom ==
  /\ stage.pc = "emitting"
  /\ Len(frames) < LineSize
  /\ frames' = Append(frames, stage.frame)
  /\ StageAt(IF stage.inputOver THEN "draining" ELSE "select")
  /\ UNCHANGED <<sendQueue, clientOver, sink, sinkClosed, stageLeaves>>

\* A frame goes out, or the call is over and Run, or its drain, returns.
EmitFrame ==
  /\ stage.pc = "emitting"
  /\ \/ /\ Len(frames) < LineSize
        /\ frames' = Append(frames, stage.frame)
        /\ StageAt(IF stage.inputOver THEN "draining" ELSE "select")
     \/ /\ callOver
        /\ StageAt(IF stage.inputOver THEN "leaving" ELSE "closing")
        /\ UNCHANGED frames
  /\ UNCHANGED <<sendQueue, clientOver, sink, sinkClosed, stageLeaves>>

VoiceEnds ==
  /\ stage.pc = "select"
  /\ stage' = [stage EXCEPT !.pc = "closing", !.inputOver = TRUE]
  /\ UNCHANGED <<sendQueue, clientOver, sink, sinkClosed, frames, stageLeaves>>

LeaveCall ==
  /\ stage.pc = "select" /\ callOver
  /\ StageAt("closing")
  /\ UNCHANGED <<sendQueue, clientOver, sink, sinkClosed, frames, stageLeaves>>

\* closeAgent: the client is told, and waited for.
CloseAgent ==
  /\ stage.pc = "closing"
  /\ clientOver' = TRUE
  /\ StageAt("waiting")
  /\ UNCHANGED <<sendQueue, sink, sinkClosed, frames, stageLeaves>>

\* A slip: the client is not waited for.
CloseWithoutWait ==
  /\ stage.pc = "waiting"
  /\ StageAt(IF stage.inputOver THEN "draining" ELSE "leaving")
  /\ UNCHANGED <<sendQueue, clientOver, sink, sinkClosed, frames, stageLeaves>>

AgentClosed ==
  /\ stage.pc = "waiting"
  /\ \A p \in Emitter : vendor[p].pc = "exited"
  /\ StageAt(IF stage.inputOver THEN "draining" ELSE "leaving")
  /\ UNCHANGED <<sendQueue, clientOver, sink, sinkClosed, frames, stageLeaves>>

\* After the caller's side closed, what the sink still holds goes out for a
\* short time.
DrainEvent ==
  /\ stage.pc = "draining" /\ sink # <<>>
  /\ sink' = Tail(sink)
  /\ LET ev == Head(sink)
     IN  CASE ev.kind = "speech" -> StageEmits(BargeInAt(ev.at))
           [] ev.kind = "audio"  -> StageEmits(ev)
           [] ev.kind \in {"fatal", "close"} -> UNCHANGED stage
  /\ UNCHANGED <<sendQueue, clientOver, sinkClosed, frames, stageLeaves>>

DrainTimesOut ==
  /\ stage.pc = "draining"
  /\ StageAt("leaving")
  /\ UNCHANGED <<sendQueue, clientOver, sink, sinkClosed, frames, stageLeaves>>

CloseSink ==
  /\ stage.pc = "leaving"
  /\ sinkClosed' = TRUE
  /\ StageAt("returned")
  /\ UNCHANGED <<sendQueue, clientOver, sink, frames, stageLeaves>>

Closing == CloseAgent \/ AgentClosed \/ DrainEvent \/ CloseSink
AgentSteps == TakeEvent \/ CancelModel \/ EmitFrame \/ LeaveCall \/ Closing \/ DrainTimesOut

-----------------------------------------------------------------------------
(* The pacer and the bridge.                                               *)

upstream == <<clientVars, sinkVars, stage>>
Resting == passing = <<>>

\* A slip: the barge-in leaves what was held.
PacerKeepsBuffer ==
  /\ Resting /\ frames # <<>>
  /\ frames' = Tail(frames)
  /\ \/ /\ Head(frames).kind = "audio"
        /\ buffer' = Append(buffer, Head(frames))
        /\ UNCHANGED <<started, passing>>
     \/ /\ Head(frames).kind = "bargeIn"
        /\ started' = FALSE /\ passing' = <<Head(frames)>>
        /\ UNCHANGED buffer
  /\ UNCHANGED <<upstream, line, interrupted, callOver>>

\* Audio is held; a barge-in empties what is held and goes straight on.
PacerTakes ==
  /\ Resting /\ frames # <<>>
  /\ frames' = Tail(frames)
  /\ \/ /\ Head(frames).kind = "audio"
        /\ buffer' = Append(buffer, Head(frames))
        /\ UNCHANGED <<started, passing>>
     \/ /\ Head(frames).kind = "bargeIn"
        /\ buffer' = <<>> /\ started' = FALSE /\ passing' = <<Head(frames)>>
  /\ UNCHANGED <<upstream, line, interrupted, callOver>>

\* A tick takes what came in first; at the end what is held goes unpaced.
Tick ==
  /\ Resting /\ frames = <<>> /\ buffer # <<>>
  /\ started \/ Len(buffer) >= Prebuffer \/ stage.pc = "returned"
  /\ started' = TRUE
  /\ passing' = <<Head(buffer)>> /\ buffer' = Tail(buffer)
  /\ UNCHANGED <<upstream, frames, line, interrupted, callOver>>

PacerSends ==
  /\ passing # <<>>
  /\ passing' = <<>>
  /\ \/ Len(line) < LineSize /\ line' = Append(line, Head(passing))
     \/ callOver /\ UNCHANGED line
  /\ UNCHANGED <<upstream, frames, buffer, started, interrupted, callOver>>

RTContextEnds ==
  /\ ~callOver
  /\ callOver' = TRUE
  /\ UNCHANGED <<upstream, frames, pacerVars, line, interrupted>>

\* The port may refuse audio, and the bridge then ends the call.
BridgePlays ==
  /\ line # <<>> /\ Head(line).kind = "audio"
  /\ line' = Tail(line)
  /\ callOver' \in {callOver, TRUE}
  /\ UNCHANGED <<upstream, frames, pacerVars, interrupted>>

BridgeInterrupts ==
  /\ line # <<>> /\ Head(line).kind = "bargeIn"
  /\ line' = Tail(line)
  /\ interrupted' = Head(line).at
  /\ UNCHANGED <<upstream, frames, pacerVars, callOver>>

PacerSteps == PacerTakes \/ Tick \/ PacerSends
BridgeSteps == BridgePlays \/ BridgeInterrupts

RealtimeNext == \/ Reads \/ ReadFails \/ ClientSteps \/ TakeVoice \/ VoiceEnds \/ AgentSteps
                \/ PacerSteps \/ BridgeSteps \/ RTContextEnds

RealtimeSpec == RealtimeInit /\ [][RealtimeNext]_realtimeVars

(* Goroutines are scheduled, a write returns, a closed connection fails    *)
(* its read, a select takes each ready case again and again, the drain's   *)
(* timer fires; pacer and bridge stop when the call is over.               *)
RealtimeFairness ==
  /\ WF_realtimeVars(Emitting("reader")) /\ WF_realtimeVars(clientOver /\ ReadFails)
  /\ WF_realtimeVars(Write \/ Written \/ WriterExits \/ Emitting("writer"))
  /\ WF_realtimeVars(CancelModel \/ EmitFrame \/ Closing)
  /\ SF_realtimeVars(LeaveCall \/ DrainTimesOut)
  /\ WF_realtimeVars(~callOver /\ (PacerSteps \/ BridgeSteps))

RealtimeFairSpec == RealtimeSpec /\ RealtimeFairness

-----------------------------------------------------------------------------
(* Properties.                                                             *)

\* No Emit meets the closed channel, whose check and use are not under one lock.
NeverSendsOnClosed == ~panicked

\* Once the port was told of a barge-in, no audio from before it is played.
InterruptedAudioIsSilent == [][BridgePlays => Head(line).at >= interrupted]_realtimeVars

\* The writer is gone and Cancel waits for room that will never be.
CancelStuck == /\ stage.pc = "cancelling" /\ ~clientOver
               /\ vendor["writer"].pc = "exited" /\ sendQueue = SendSize

\* However the call ends, the stage returns, unless Cancel is stuck.
TeardownEnds == callOver \/ stage.inputOver ~> stage.pc = "returned" \/ CancelStuck

\* The same without the exception.
EveryEndTearsDown == callOver ~> stage.pc = "returned"
=============================================================================

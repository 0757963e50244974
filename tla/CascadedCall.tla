---------------------------- MODULE CascadedCall ----------------------------
(***************************************************************************)
(* pkg/dialog/cascaded/engine.go and vad_stage.go around the TTS stage:    *)
(* the bridge plays what leaves the pipeline and keeps ttsPlaying, which   *)
(* closes the ASR stage to the caller's voice; the VAD stage, upstream,    *)
(* reads the same flag to tell a barge-in, lowers it and sends a BargeIn   *)
(* down to the TTS stage.  Each step of the TTS stage is the one of        *)
(* TTSStage, here with the frames it sends; the LLM stage is any text.     *)
(***************************************************************************)
EXTENDS TTSStage

VARIABLES
  outbox,       \* what the TTS stage sent and the bridge has not taken
  hand,         \* the frame the bridge is at
  running,      \* the bridge is in its loop
  ttsPlaying,
  vad,          \* where the VAD stage is with a frame of the caller's
  bargeInSent,
  fired,        \* how many barge-ins the VAD stage detected
  onTheWay,     \* BargeIn frames between the VAD and the TTS stage
  heard,        \* BargeIn frames the bridge has handled
  early,        \* an AITextDone went out before the end of its own speech
  strayed       \* a segment queued before a barge-in was heard after it

flagVars == <<ttsPlaying, vad, bargeInSent, fired>>
callGhosts == <<heard, early, strayed>>
callVars == <<vars, outbox, hand, running, flagVars, onTheWay, callGhosts>>

Frame(kind, begun) == [kind |-> kind, begun |-> begun]
Nothing == Frame("other", 0)
FrameType == [kind : {"audio", "done", "bargeIn", "other"}, begun : Epoch]

CallTypeOK ==
  /\ TTSTypeOK
  /\ outbox \in Seq(FrameType) /\ Len(outbox) = backlog
  /\ hand \in FrameType
  /\ running \in BOOLEAN /\ ttsPlaying \in BOOLEAN /\ bargeInSent \in BOOLEAN
  /\ vad \in {"listening", "detected", "sending"}
  /\ fired \in Epoch /\ onTheWay \in Epoch /\ heard \in Epoch
  /\ bargeIns + onTheWay <= fired
  /\ early \in BOOLEAN /\ strayed \in BOOLEAN

CallInit ==
  /\ Init
  /\ outbox = <<>> /\ hand = Nothing /\ running = TRUE
  /\ ttsPlaying = FALSE /\ vad = "listening" /\ bargeInSent = FALSE /\ fired = 0
  /\ onTheWay = 0 /\ heard = 0 /\ early = FALSE /\ strayed = FALSE

-----------------------------------------------------------------------------
(* The TTS stage, with the frames it sends.                                *)

Sends(frames) == outbox' = outbox \o frames
Quiet == Sends(<<>>)
besides == <<hand, running, flagVars, heard>>

Passes == TakeText \/ TakeOther \/ Drop
Pass == /\ Passes /\ loop # "droppingDone" /\ loop' = "select"
        /\ Sends(<<Nothing>>) /\ UNCHANGED <<besides, onTheWay, early, strayed>>

\* No frame goes out while the queue is full, nor for the AITextDone.
Stuck == (TakeText /\ loop' \in Dropping) \/ (Drop /\ loop = "droppingDone")
Stick == Stuck /\ Quiet /\ UNCHANGED <<besides, onTheWay, early, strayed>>

HoldDone == TakeDone /\ Quiet /\ UNCHANGED <<besides, onTheWay, early, strayed>>

BargeInArrives ==
  /\ onTheWay > 0 /\ TakeBargeIn /\ Quiet
  /\ onTheWay' = onTheWay - 1
  /\ UNCHANGED <<besides, early, strayed>>

Interrupted ==
  /\ Interrupt /\ Sends(<<Frame("bargeIn", bargeIns + 1)>>)
  /\ UNCHANGED <<besides, onTheWay, early, strayed>>

Done == Frame("done", bargeIns)

\* The end of a turn's speech the worker has not come to.
EndAhead == \/ worker.pc \in {"taken", "speaking", "offering", "ending"} /\ worker.job.turnDone
            \/ \E i \in DOMAIN jobs : jobs[i].turnDone
            \/ \E i \in 2..Len(pcm) : pcm[i].kind = "turnDone"

PassSpeech ==
  /\ TakePCM
  /\ LET ev == Head(pcm)
         released == ev.kind = "turnDone" /\ pendingTurnDone
     IN  /\ Sends(CASE Audible(ev) -> <<Frame("audio", ev.begun)>>
                    [] released    -> <<Done>>
                    [] OTHER       -> <<>>)
         /\ early' = (early \/ (released /\ EndAhead))
         /\ strayed' = (strayed \/ (Audible(ev) /\ ev.queued # bargeIns))
  /\ UNCHANGED <<besides, onTheWay>>

Drained ==
  /\ DrainEnds /\ Sends(IF pendingTurnDone THEN <<Done>> ELSE <<>>)
  /\ UNCHANGED <<besides, onTheWay, early, strayed>>

Inward == WorkerSteps \/ InputCloses \/ ContextEnds \/ LeaveOnContext \/ Return
Silent == Inward /\ Quiet /\ UNCHANGED <<besides, onTheWay, early, strayed>>

StageSteps == Pass \/ Stick \/ HoldDone \/ BargeInArrives \/ Interrupted \/ PassSpeech \/ Drained \/ Silent

-----------------------------------------------------------------------------
(* The VAD stage, at a frame of the caller's voice.                        *)

vadLeaves == <<vars, outbox, hand, running, callGhosts>>

\* The flag is read; a detector's no, and the grace after the first audio, are
\* one choice.
Listen ==
  /\ vad = "listening" /\ ~ctxDone
  /\ \/ /\ bargeInSent' = (bargeInSent /\ ttsPlaying)
        /\ UNCHANGED <<vad, fired>>
     \/ /\ ttsPlaying /\ ~bargeInSent /\ fired < MaxBargeIns
        /\ bargeInSent' = TRUE /\ vad' = "detected" /\ fired' = fired + 1
  /\ UNCHANGED <<ttsPlaying, onTheWay, vadLeaves>>

\* onBargeIn.
Lower ==
  /\ vad = "detected"
  /\ ttsPlaying' = FALSE /\ vad' = "sending"
  /\ UNCHANGED <<bargeInSent, fired, onTheWay, vadLeaves>>

SendBargeIn ==
  /\ vad = "sending"
  /\ vad' = "listening"
  /\ onTheWay' = IF ctxDone THEN onTheWay ELSE onTheWay + 1
  /\ UNCHANGED <<ttsPlaying, bargeInSent, fired, vadLeaves>>

VADSteps == Listen \/ Lower \/ SendBargeIn

-----------------------------------------------------------------------------
(* The bridge to the caller.                                               *)

BridgeTakes ==
  /\ running /\ hand = Nothing
  /\ Deliver
  /\ hand' = Head(outbox) /\ outbox' = Tail(outbox)
  /\ UNCHANGED <<running, flagVars, onTheWay, callGhosts>>

\* SendOutputPCM may fail, and the bridge then ends the call.
Play ==
  /\ hand.kind = "audio"
  /\ hand' = Nothing
  /\ ttsPlaying' = TRUE
  /\ ContextEnds \/ UNCHANGED vars
  /\ UNCHANGED <<outbox, running, vad, bargeInSent, fired, onTheWay, callGhosts>>

\* A slip: only the end of a reply lowers the flag.
OpenOnDone ==
  /\ hand.kind \in {"done", "bargeIn"}
  /\ hand' = Nothing
  /\ ttsPlaying' = (ttsPlaying /\ hand.kind # "done")
  /\ heard' = IF hand.kind = "bargeIn" THEN heard + 1 ELSE heard
  /\ UNCHANGED <<vars, outbox, running, vad, bargeInSent, fired, onTheWay, early, strayed>>

Open ==
  /\ hand.kind \in {"done", "bargeIn"}
  /\ hand' = Nothing
  /\ ttsPlaying' = FALSE
  /\ heard' = IF hand.kind = "bargeIn" THEN heard + 1 ELSE heard
  /\ UNCHANGED <<vars, outbox, running, vad, bargeInSent, fired, onTheWay, early, strayed>>

BridgeLeaves ==
  /\ running /\ hand = Nothing
  /\ ctxDone \/ (loop = "returned" /\ outbox = <<>>)
  /\ running' = FALSE
  /\ UNCHANGED <<vars, outbox, hand, flagVars, onTheWay, callGhosts>>

BridgeSteps == BridgeTakes \/ Play \/ Open \/ BridgeLeaves

CallNext == StageSteps \/ VADSteps \/ BridgeSteps
CallSpec == CallInit /\ [][CallNext]_callVars

-----------------------------------------------------------------------------
(* Properties.                                                             *)

Opens(f) == f.kind \in {"done", "bargeIn"}
Underway == \/ onTheWay > 0 \/ vad # "listening" \/ loop = "interrupting"
            \/ \E i \in DOMAIN outbox : Opens(outbox[i])
            \/ Opens(hand)

\* While ttsPlaying is up the ASR stage hears nothing.  It never stays up with
\* nothing left to lower it: the reply's text is still open, its AITextDone is
\* held back, or a done or a BargeIn is on its way; except after a done was lost
\* or let go too early, or a job strayed past a barge-in.
GateReopens ==
  ttsPlaying /\ ~ctxDone /\ loop \in {"select", "interrupting"} \cup Dropping =>
    ~needNewTurnID \/ pendingTurnDone \/ Underway \/ lostDone \/ early \/ strayed

\* Once the caller's side was told of a barge-in, it plays nothing whose
\* speaking had begun before.
SilentAfterBargeIn == [][Play => hand.begun = heard]_callVars
=============================================================================

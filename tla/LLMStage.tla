------------------------------ MODULE LLMStage ------------------------------
(***************************************************************************)
(* pkg/dialog/cascaded/llm_stage.go: from transcripts to reply text.  One  *)
(* select loop owns the turn state; every dispatched turn has a goroutine  *)
(* that streams the provider's reply into the channel deltas; one more     *)
(* goroutine hands the loop's frames downstream.  One arm of the select is *)
(* one action.  The frames the loop has forwarded and nobody has taken yet *)
(* are counted, the ones in its own hand included: while there are more    *)
(* than the channel holds, the loop is blocked in forward().               *)
(***************************************************************************)
EXTENDS Naturals, Sequences

CONSTANTS Text,       \* trimmed transcripts
          Blank,      \* the empty text
          Steady,     \* long and complete enough for armStable to wait for
          MaxTurn,    \* bound: turns dispatched
          DeltaSize,  \* capacity of deltas
          FwdSize     \* capacity of fwd

ASSUME StageAssumption == /\ Blank \notin Text /\ Steady \subseteq Text
                          /\ MaxTurn \in Nat /\ FwdSize \in Nat
                          /\ DeltaSize \in Nat \ {0}

VARIABLES
  currentTID,     \* the latest turn dispatched
  live,           \* the turn a Final may confirm: its text, and whether it is a guess
  cancelled,      \* the turns whose context has been cancelled
  gen,            \* the turns' goroutines: streaming, offering a delta, or exited
  deltas,         \* the channel of their deltas
  lastInterim,    \* the latest interim transcript of this utterance
  stablePending,  \* the text the stability timer is armed for, or Blank
  burned,         \* a guess was revoked: wait for the Final
  loop,           \* where Run is
  backlog,        \* frames forwarded and not yet taken downstream
  forwarder,      \* FALSE once the forwarding goroutine has given up
  ctxDone,        \* the call's context has ended
  last,           \* the latest reply frame forwarded, and its turn
  guesses         \* guesses dispatched since the last Final

turnVars == <<currentTID, live, cancelled, gen, guesses>>
interimVars == <<lastInterim, stablePending, burned>>
vars == <<turnVars, deltas, interimVars, loop, backlog, forwarder, ctxDone, last>>

Turn == 1..MaxTurn
NoTurn == [text |-> Blank, speculative |-> FALSE]

\* A delta with text, a final delta with text, a final delta without.
Delta == {"text", "last", "end"}

LLMTypeOK ==
  /\ currentTID \in 0..MaxTurn
  /\ live \in [text : Text \cup {Blank}, speculative : BOOLEAN]
  /\ cancelled \subseteq 1..currentTID
  /\ gen \in [Turn -> {"none", "streaming", "exited"} \cup Delta]
  /\ \A t \in Turn : gen[t] = "none" <=> t > currentTID
  /\ deltas \in Seq([turn : 1..currentTID, kind : Delta]) /\ Len(deltas) <= DeltaSize
  /\ {lastInterim, stablePending} \subseteq Text \cup {Blank}
  /\ burned \in BOOLEAN
  /\ loop \in {"select", "draining", "flushing", "joining", "returned"}
  /\ backlog \in 0..FwdSize + 2
  /\ forwarder \in BOOLEAN /\ ctxDone \in BOOLEAN
  /\ last \in [turn : 0..currentTID, kind : {"none", "text", "done", "cut"}]
  /\ guesses \in Nat

Init ==
  /\ currentTID = 0 /\ live = NoTurn /\ cancelled = {}
  /\ gen = [t \in Turn |-> "none"]
  /\ deltas = <<>>
  /\ lastInterim = Blank /\ stablePending = Blank /\ burned = FALSE
  /\ loop = "select"
  /\ backlog = 0 /\ forwarder = TRUE
  /\ ctxDone = FALSE
  /\ last = [turn |-> 0, kind |-> "none"]
  /\ guesses = 0

-----------------------------------------------------------------------------
(* The turn being generated.                                               *)

Current == {currentTID} \ {0}

\* A slip: the cancelled turn can still be confirmed.
CancelKeepsLive == cancelled' = cancelled \cup Current /\ live' = live

\* cancelInFlight: the turn number stays.
CancelInFlight == cancelled' = cancelled \cup Current /\ live' = NoTurn

\* A slip: the turn in flight goes on.
DispatchBeside(x, speculative) ==
  /\ currentTID < MaxTurn
  /\ currentTID' = currentTID + 1
  /\ gen' = [gen EXCEPT ![currentTID + 1] = "streaming"]
  /\ live' = [text |-> x, speculative |-> speculative]
  /\ UNCHANGED cancelled

DispatchTurn(x, speculative) ==
  /\ currentTID < MaxTurn
  /\ cancelled' = cancelled \cup Current
  /\ currentTID' = currentTID + 1
  /\ gen' = [gen EXCEPT ![currentTID + 1] = "streaming"]
  /\ live' = [text |-> x, speculative |-> speculative]

\* A Final confirms a turn of the same text, or starts one.
ConfirmOrDispatchFinal(x) ==
  \/ x = Blank /\ UNCHANGED <<currentTID, live, cancelled, gen>>
  \/ /\ x # Blank /\ x = live.text
     /\ live' = [live EXCEPT !.speculative = FALSE]
     /\ UNCHANGED <<currentTID, cancelled, gen>>
  \/ x \notin {Blank, live.text} /\ DispatchTurn(x, FALSE)

-----------------------------------------------------------------------------
(* The arms of the select.                                                 *)

\* A slip: forward() never waits for room.
AlwaysRoom == TRUE

Unblocked == backlog <= FwdSize
Selecting == loop = "select" /\ Unblocked
Forward(n) == backlog' = backlog + n

TakeFinal(x) ==
  /\ Selecting
  /\ ConfirmOrDispatchFinal(x)
  /\ guesses' = 0
  /\ lastInterim' = Blank /\ stablePending' = Blank /\ burned' = FALSE
  /\ Forward(1)
  /\ UNCHANGED <<deltas, loop, forwarder, ctxDone, last>>

\* armStable: a text too short or unfinished stops the timer.
ArmStable(x) == stablePending' = IF burned THEN stablePending
                                 ELSE IF x \in Steady THEN x ELSE Blank

\* A slip: revoking a guess does not burn the utterance.
RevokeWithoutBurn == CancelInFlight /\ stablePending' = Blank /\ UNCHANGED burned

Revoke == CancelInFlight /\ stablePending' = Blank /\ burned' = TRUE

TakeInterim(x) ==
  /\ Selecting
  /\ \/ /\ x \in {Blank, lastInterim}
        /\ UNCHANGED <<live, cancelled, interimVars>>
     \/ /\ x \notin {Blank, lastInterim}
        /\ lastInterim' = x
        /\ IF live.speculative /\ live.text # x
           THEN Revoke
           ELSE ArmStable(x) /\ UNCHANGED <<live, cancelled, burned>>
  /\ Forward(1)
  /\ UNCHANGED <<currentTID, gen, guesses, deltas, loop, forwarder, ctxDone, last>>

\* A barge-in, like every frame that is not text, is only passed on.
TakeBargeIn ==
  /\ Selecting
  /\ last' = IF last.kind = "text" THEN [last EXCEPT !.kind = "cut"] ELSE last
  /\ Forward(1)
  /\ UNCHANGED <<turnVars, deltas, interimVars, loop, forwarder, ctxDone>>

StableFires ==
  /\ Selecting
  /\ stablePending # Blank
  /\ stablePending' = Blank
  /\ IF burned \/ live.text = stablePending
     THEN UNCHANGED turnVars
     ELSE DispatchTurn(stablePending, TRUE) /\ guesses' = guesses + 1
  /\ UNCHANGED <<deltas, lastInterim, burned, loop, backlog, forwarder, ctxDone, last>>

\* A slip: deltas of superseded turns are passed on.
EmitAny(d) ==
  /\ Forward(IF d.kind = "last" THEN 2 ELSE 1)
  /\ last' = [turn |-> d.turn, kind |-> IF d.kind = "text" THEN "text" ELSE "done"]

\* emitDeltaForward: only the current turn is heard.
EmitDelta(d) ==
  IF d.turn = currentTID
  THEN /\ Forward(IF d.kind = "last" THEN 2 ELSE 1)
       /\ last' = [turn |-> d.turn, kind |-> IF d.kind = "text" THEN "text" ELSE "done"]
  ELSE UNCHANGED <<backlog, last>>

TakeDelta ==
  /\ loop \in {"select", "draining"} /\ Unblocked
  /\ deltas # <<>>
  /\ deltas' = Tail(deltas)
  /\ EmitDelta(Head(deltas))
  /\ UNCHANGED <<turnVars, interimVars, loop, forwarder, ctxDone>>

-----------------------------------------------------------------------------
(* The end of the call.                                                    *)

Exited == \A t \in Turn : gen[t] \in {"none", "exited"}

InputCloses ==
  /\ Selecting
  /\ loop' = "draining"
  /\ stablePending' = Blank
  /\ UNCHANGED <<turnVars, deltas, lastInterim, burned, backlog, forwarder, ctxDone, last>>

\* A slip: the loop is done when the goroutines are.
DrainUntilExited ==
  /\ loop = "draining" /\ Unblocked
  /\ Exited
  /\ loop' = "flushing"
  /\ UNCHANGED <<turnVars, deltas, interimVars, backlog, forwarder, ctxDone, last>>

\* genDone, and then what is still in the channel.
DrainEnds ==
  /\ loop = "draining" /\ Unblocked
  /\ Exited /\ deltas = <<>>
  /\ loop' = "flushing"
  /\ UNCHANGED <<turnVars, deltas, interimVars, backlog, forwarder, ctxDone, last>>

ContextEnds ==
  /\ ~ctxDone /\ loop # "returned"
  /\ ctxDone' = TRUE
  /\ UNCHANGED <<turnVars, deltas, interimVars, loop, backlog, forwarder, last>>

LeaveOnContext ==
  /\ ctxDone /\ loop \in {"select", "draining"}
  /\ loop' = "flushing"
  /\ stablePending' = Blank
  /\ UNCHANGED <<turnVars, deltas, lastInterim, burned, backlog, forwarder, ctxDone, last>>

\* The deferred calls: close(fwd) and wait for the forwarder; then cancel the
\* turn and wait for the goroutines.
CloseForward ==
  /\ loop = "flushing"
  /\ backlog = 0 \/ ~forwarder
  /\ CancelInFlight
  /\ loop' = "joining"
  /\ UNCHANGED <<currentTID, gen, guesses, deltas, interimVars, backlog, forwarder,
                 ctxDone, last>>

Return ==
  /\ loop = "joining" /\ Exited
  /\ loop' = "returned"
  /\ UNCHANGED <<turnVars, deltas, interimVars, backlog, forwarder, ctxDone, last>>

-----------------------------------------------------------------------------
(* The forwarding goroutine, and whoever reads from out.                   *)

Deliver ==
  /\ forwarder /\ backlog > 0
  /\ backlog' = backlog - 1
  /\ UNCHANGED <<turnVars, deltas, interimVars, loop, forwarder, ctxDone, last>>

ForwarderLeaves ==
  /\ forwarder /\ backlog > 0 /\ ctxDone
  /\ forwarder' = FALSE
  /\ UNCHANGED <<turnVars, deltas, interimVars, loop, backlog, ctxDone, last>>

-----------------------------------------------------------------------------
(* The goroutine of a turn.                                                *)

Over(t) == t \in cancelled \/ ctxDone
GenGoto(t, p) == /\ gen' = [gen EXCEPT ![t] = p]
                 /\ UNCHANGED <<currentTID, live, cancelled, guesses, interimVars, loop,
                                backlog, forwarder, ctxDone, last>>

\* The callback looks at its context, then offers the delta.
Callback(t, d) ==
  /\ gen[t] = "streaming" /\ ~Over(t)
  /\ GenGoto(t, d) /\ UNCHANGED deltas

\* A slip: a reply that ended without a final delta just ends.
ReplyEndsSilently(t) == gen[t] = "streaming" /\ GenGoto(t, "exited") /\ UNCHANGED deltas

\* StreamReply returns - an error, a cancelled context, a provider that says
\* no more - before any final delta, so the goroutine makes up one.
ReplyEnds(t) == gen[t] = "streaming" /\ GenGoto(t, "end") /\ UNCHANGED deltas

\* A slip: a final delta with text is not remembered as the terminal one.
SendForgets(t) ==
  /\ gen[t] \in Delta /\ Len(deltas) < DeltaSize
  /\ deltas' = Append(deltas, [turn |-> t, kind |-> gen[t]])
  /\ GenGoto(t, CASE gen[t] = "text" -> "streaming" [] gen[t] = "last" -> "end"
                  [] OTHER -> "exited")

\* Both cases of the callback's select may be ready: a cancelled turn can
\* still get a delta out.
Send(t) ==
  /\ gen[t] \in Delta /\ Len(deltas) < DeltaSize
  /\ deltas' = Append(deltas, [turn |-> t, kind |-> gen[t]])
  /\ GenGoto(t, IF gen[t] = "text" THEN "streaming" ELSE "exited")

\* A slip: the callback waits for room whatever happens.
AbandonNever(t) == FALSE /\ UNCHANGED vars

\* A refused text delta ends the reply, and the final delta is tried as well.
Abandon(t) ==
  /\ gen[t] \in Delta /\ Over(t)
  /\ GenGoto(t, IF gen[t] = "text" THEN "end" ELSE "exited") /\ UNCHANGED deltas

-----------------------------------------------------------------------------
Inputs == \/ \E x \in Text \cup {Blank} : TakeFinal(x) \/ TakeInterim(x)
          \/ TakeBargeIn \/ InputCloses
GenSteps(t) == (\E d \in Delta : Callback(t, d)) \/ ReplyEnds(t) \/ Send(t) \/ Abandon(t)
Ending == DrainEnds \/ LeaveOnContext \/ CloseForward \/ Return
Forwarding == Deliver \/ ForwarderLeaves

Next == \/ Inputs \/ StableFires \/ TakeDelta
        \/ \E t \in Turn : GenSteps(t)
        \/ ContextEnds \/ Ending \/ Forwarding

Spec == Init /\ [][Next]_vars

(* A select with several ready cases takes each of them again and again,   *)
(* replies are finite, and downstream reads what it is sent.              *)
Finishes(t) == ReplyEnds(t) \/ Callback(t, "last") \/ Callback(t, "end")

Fairness == /\ SF_vars(TakeDelta)
            /\ WF_vars(Ending) /\ WF_vars(Forwarding)
            /\ \A t \in Turn : SF_vars(Finishes(t)) /\ WF_vars(Send(t) \/ Abandon(t))

FairSpec == Spec /\ Fairness

-----------------------------------------------------------------------------
(* Properties.                                                             *)

\* One generation per turn, serialised: a goroutine that has not been told to
\* stop is the current turn's, and the turn a Final may confirm was not told
\* to stop - a guess revoked and then confirmed is asked again, never reused.
OneGeneration ==
  /\ live # NoTurn => currentTID \notin cancelled
  /\ \A t \in Turn : gen[t] \notin {"none", "exited"} /\ t \notin cancelled => t = currentTID

\* However an utterance grows and shrinks, one guess is made for it at most:
\* no storm of cancelled provider calls before the Final.
OneGuess == guesses <= 1

\* Turns are heard in order, and a turn is closed once: nothing of it follows
\* its closing frame or still waits in the channel, although cancelled turns may
\* get deltas out.
TurnsInOrder ==
  /\ [][/\ last'.turn >= last.turn
        /\ last.kind = "done" => last' = last \/ last'.turn > last.turn]_vars
  /\ [](last.kind = "done" => \A i \in 1..Len(deltas) : deltas[i].turn # last.turn)

\* When the input closes, the stage does not return before the last reply is
\* out to its end: nothing is left in the channel, the closing frame of the
\* current turn was forwarded, and everything forwarded was delivered.
CloseLosesNothing ==
  loop \in {"flushing", "joining", "returned"} /\ ~ctxDone =>
    /\ deltas = <<>>
    /\ loop = "flushing" /\ currentTID \notin cancelled \cup {0}
         => last = [turn |-> currentTID, kind |-> "done"]
    /\ loop # "flushing" => backlog = 0

\* Every turn is closed by its AITextDone, also when the provider fails or
\* forgets the end, unless a newer turn or a changed transcript overtakes it.
TurnEnds == []<>(\/ currentTID \in cancelled \cup {0} \/ ctxDone
                 \/ last = [turn |-> currentTID, kind |-> "done"])

\* Run returns once the input closes or the call ends: no goroutine of a
\* cancelled turn, full channel or slow reader keeps it.
RunReturns == loop = "draining" \/ ctxDone ~> loop = "returned"

\* Every Final transcript triggers the LLM: it is not taken for the confirmation
\* of a turn an earlier Final started and whose reply is over.
FinalIsAnswered ==
  [][\A x \in Text : TakeFinal(x) => \/ currentTID' # currentTID
                                     \/ live.speculative
                                     \/ last # [turn |-> currentTID, kind |-> "done"]]_vars

\* A barge-in stops the reply it interrupts: no more text of that turn.
BargeInGatesOutput ==
  [][last.kind = "cut" /\ last'.turn = last.turn => last'.kind # "text"]_vars
=============================================================================

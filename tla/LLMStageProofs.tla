---------------------------- MODULE LLMStageProofs ----------------------------
(***************************************************************************)
(* The LLM stage with any number of turns and channels of any size: the    *)
(* inductive invariant behind its safety properties.                       *)
(***************************************************************************)
EXTENDS LLMStage, SequenceTheorems, TLAPS

-----------------------------------------------------------------------------
(* The inductive invariant.                                                *)

\* Once a guess was made for an utterance, the timer cannot make another: it is
\* burned, or what the timer waits for is what was guessed.
GuessInv ==
  /\ guesses \in {0, 1}
  /\ guesses = 1 /\ loop = "select" =>
       burned \/ (live.speculative /\ stablePending \in {Blank, live.text})

\* The final delta of a turn is its last one, in the channel...
FinalIsLast ==
  \A i \in 1..Len(deltas) : deltas[i].kind # "text" =>
    /\ gen[deltas[i].turn] = "exited"
    /\ \A k \in 1..Len(deltas) : deltas[k].turn = deltas[i].turn => k <= i

\* ...and downstream.
DoneIsLast ==
  last.kind = "done" => /\ last.turn # 0
                        /\ gen[last.turn] = "exited"
                        /\ \A i \in 1..Len(deltas) : deltas[i].turn # last.turn

\* A turn that ended in peace has said so, or its final delta is on its way.
FinalOnItsWay ==
  ~ctxDone /\ currentTID \notin cancelled \cup {0} /\ gen[currentTID] = "exited" =>
    \/ last = [turn |-> currentTID, kind |-> "done"]
    \/ \E i \in 1..Len(deltas) : deltas[i].turn = currentTID /\ deltas[i].kind # "text"

\* What the loop waited for before it left.
Teardown ==
  ~ctxDone =>
    /\ forwarder
    /\ loop \in {"flushing", "joining", "returned"} => Exited /\ deltas = <<>>
    /\ loop \in {"joining", "returned"} => backlog = 0

IInv == /\ LLMTypeOK /\ OneGeneration /\ GuessInv
        /\ FinalIsLast /\ DoneIsLast /\ FinalOnItsWay /\ Teardown

-----------------------------------------------------------------------------
(* What the channel holds, and what a new turn changes.                    *)

\* A sequence over a set is one over a larger set.
LEMMA WiderSeq ==
  ASSUME NEW S, NEW T, S \subseteq T, NEW s \in Seq(S)
  PROVE  s \in Seq(T)
<1>1. s \in [1..Len(s) -> S] /\ Len(s) \in Nat
  BY LenProperties
<1>2. s \in [1..Len(s) -> T]
  BY <1>1
<1> QED BY <1>1, <1>2, SeqDef

\* Every delta in the channel is of a turn that was dispatched.
LEMMA InChannel ==
  ASSUME LLMTypeOK
  PROVE  /\ Len(deltas) \in Nat
         /\ \A i \in 1..Len(deltas) : deltas[i].turn \in 1..currentTID /\ deltas[i].kind \in Delta
<1>1. Len(deltas) \in Nat
  BY LenProperties
<1>2. \A i \in 1..Len(deltas) : deltas[i] \in [turn : 1..currentTID, kind : Delta]
  BY ElementOfSeq DEF LLMTypeOK
<1> QED BY <1>1, <1>2

\* The oldest delta, and what the channel holds without it.
LEMMA TakenFromChannel ==
  ASSUME LLMTypeOK, deltas # <<>>
  PROVE  /\ Head(deltas) = deltas[1] /\ 1 \in 1..Len(deltas)
         /\ Head(deltas).turn \in 1..currentTID /\ Head(deltas).kind \in Delta
         /\ Tail(deltas) \in Seq([turn : 1..currentTID, kind : Delta])
         /\ Len(Tail(deltas)) = Len(deltas) - 1
         /\ \A i \in 1..Len(deltas) - 1 : Tail(deltas)[i] = deltas[i + 1]
<1>1. Len(deltas) \in Nat \ {0}
  BY EmptySeq
<1>2. 1 \in 1..Len(deltas) /\ Head(deltas) = deltas[1]
  BY <1>1
<1> QED BY <1>2, InChannel, HeadTailProperties DEF LLMTypeOK

\* No turn to confirm is a value of live.
LEMMA NoTurnTyped == NoTurn \in [text : Text \cup {Blank}, speculative : BOOLEAN]
BY DEF NoTurn

\* A new turn has a fresh number and leaves nothing uncancelled beside it; what
\* is in the channel keeps its meaning.
LEMMA Dispatched ==
  ASSUME LLMTypeOK, NEW x \in Text, NEW speculative \in BOOLEAN, DispatchTurn(x, speculative)
  PROVE  /\ currentTID' \in 1..MaxTurn /\ currentTID' = currentTID + 1
         /\ live' = [text |-> x, speculative |-> speculative]
         /\ live' \in [text : Text \cup {Blank}, speculative : BOOLEAN]
         /\ 1..currentTID \subseteq 1..currentTID'
         /\ cancelled' \subseteq 1..currentTID
         /\ gen' \in [Turn -> {"none", "streaming", "exited"} \cup Delta]
         /\ \A t \in Turn : gen'[t] = "none" <=> t > currentTID'
         /\ \A t \in 1..currentTID : gen'[t] = gen[t]
         /\ gen'[currentTID'] = "streaming"
         /\ deltas \in Seq([turn : 1..currentTID', kind : Delta])
<1>1. /\ currentTID \in 0..MaxTurn /\ MaxTurn \in Nat
      /\ currentTID < MaxTurn /\ currentTID' = currentTID + 1
  BY StageAssumption DEF LLMTypeOK, DispatchTurn
<1>2. currentTID' \in 1..MaxTurn /\ 1..currentTID \subseteq 1..currentTID'
  BY <1>1
<1>3. live' = [text |-> x, speculative |-> speculative]
  BY DEF DispatchTurn
<1>4. cancelled' \subseteq 1..currentTID
  BY <1>1 DEF LLMTypeOK, DispatchTurn, Current
<1>5. /\ gen' \in [Turn -> {"none", "streaming", "exited"} \cup Delta]
      /\ \A t \in Turn : gen'[t] = "none" <=> t > currentTID'
      /\ \A t \in 1..currentTID : gen'[t] = gen[t]
      /\ gen'[currentTID'] = "streaming"
  BY <1>1 DEF LLMTypeOK, DispatchTurn, Turn
<1>6. deltas \in Seq([turn : 1..currentTID', kind : Delta])
  <2>1. [turn : 1..currentTID, kind : Delta] \subseteq [turn : 1..currentTID', kind : Delta]
    BY <1>2
  <2>2. deltas \in Seq([turn : 1..currentTID, kind : Delta])
    BY DEF LLMTypeOK
  <2> QED BY <2>1, <2>2, WiderSeq
<1> QED BY <1>1, <1>2, <1>3, <1>4, <1>5, <1>6

\* All of the invariant that speaks of turns survives a dispatch.
LEMMA DispatchKeeps ==
  ASSUME IInv, NEW x \in Text, NEW speculative \in BOOLEAN, DispatchTurn(x, speculative),
         loop = "select", UNCHANGED <<deltas, loop, forwarder, ctxDone, last>>
  PROVE  /\ LLMTypeOK' <=> /\ {lastInterim, stablePending}' \subseteq Text \cup {Blank}
                             /\ burned' \in BOOLEAN /\ backlog' \in 0..FwdSize + 2 /\ guesses' \in Nat
         /\ OneGeneration' /\ FinalIsLast' /\ DoneIsLast' /\ FinalOnItsWay' /\ Teardown'
<1> USE DEF IInv
<1>0. LLMTypeOK' <=> /\ {lastInterim, stablePending}' \subseteq Text \cup {Blank}
                     /\ burned' \in BOOLEAN /\ backlog' \in 0..FwdSize + 2 /\ guesses' \in Nat
  <2>1. /\ currentTID' \in 0..MaxTurn /\ cancelled' \subseteq 1..currentTID'
        /\ last' \in [turn : 0..currentTID', kind : {"none", "text", "done", "cut"}]
    BY Dispatched, StageAssumption DEF LLMTypeOK
  <2>2. Len(deltas') <= DeltaSize /\ loop' = "select" /\ forwarder' \in BOOLEAN /\ ctxDone' \in BOOLEAN
    BY DEF LLMTypeOK
  <2>3. deltas' \in Seq([turn : 1..currentTID', kind : Delta])
    BY Dispatched
  <2> QED BY Dispatched, <2>1, <2>2, <2>3 DEF LLMTypeOK
<1>1. OneGeneration'
  BY Dispatched, StageAssumption DEF OneGeneration, DispatchTurn, Current, LLMTypeOK, Turn
<1>2. FinalIsLast'
  BY Dispatched, InChannel DEF FinalIsLast
<1>3. DoneIsLast'
  BY Dispatched DEF DoneIsLast, LLMTypeOK
<1>4. FinalOnItsWay'
  BY Dispatched DEF FinalOnItsWay
<1>5. Teardown'
  BY DEF Teardown
<1> QED BY <1>0, <1>1, <1>2, <1>3, <1>4, <1>5

-----------------------------------------------------------------------------
(* Every step keeps the invariant.                                         *)

\* One step per arm of the select, of the teardown and of the goroutines.
LEMMA StepInv == IInv /\ [Next]_vars => IInv'
<1> SUFFICES ASSUME IInv, [Next]_vars PROVE IInv'
  OBVIOUS
<1> USE StageAssumption DEF IInv, NoTurn, Turn, Delta
<1>1. ASSUME NEW x \in Text \cup {Blank}, TakeFinal(x) PROVE IInv'
  <2>1. /\ loop = "select" /\ UNCHANGED <<deltas, loop, forwarder, ctxDone, last>>
        /\ guesses' = 0 /\ lastInterim' = Blank /\ stablePending' = Blank /\ burned' = FALSE
        /\ backlog' = backlog + 1 /\ backlog <= FwdSize
    BY <1>1 DEF TakeFinal, Selecting, Unblocked, Forward
  <2>2. backlog' \in 0..FwdSize + 2 /\ GuessInv'
    BY <2>1 DEF LLMTypeOK, GuessInv
  <2>3. CASE x \in Text /\ DispatchTurn(x, FALSE)
    BY <2>1, <2>2, <2>3, DispatchKeeps
  <2>4. CASE /\ UNCHANGED <<currentTID, cancelled, gen>>
             /\ live' \in {live, [live EXCEPT !.speculative = FALSE]}
             /\ (live' # live => live # NoTurn)
    <3>1. LLMTypeOK'
      BY <2>1, <2>2, <2>4 DEF LLMTypeOK
    <3>2. OneGeneration'
      BY <2>4 DEF OneGeneration
    <3>3. FinalIsLast' /\ DoneIsLast' /\ FinalOnItsWay' /\ Teardown'
      BY <2>1, <2>4 DEF FinalIsLast, DoneIsLast, FinalOnItsWay, Teardown
    <3> QED BY <2>2, <3>1, <3>2, <3>3
  <2>5. x = Blank => UNCHANGED <<currentTID, live, cancelled, gen>>
    BY <1>1 DEF TakeFinal, ConfirmOrDispatchFinal
  <2>6. x # Blank /\ x = live.text => /\ UNCHANGED <<currentTID, cancelled, gen>>
                                     /\ live' = [live EXCEPT !.speculative = FALSE] /\ live # NoTurn
    BY <1>1 DEF TakeFinal, ConfirmOrDispatchFinal
  <2>7. x # Blank /\ x # live.text => x \in Text /\ DispatchTurn(x, FALSE)
    BY <1>1 DEF TakeFinal, ConfirmOrDispatchFinal
  <2> QED BY <2>3, <2>4, <2>5, <2>6, <2>7
<1>2. ASSUME NEW x \in Text \cup {Blank}, TakeInterim(x) PROVE IInv'
  <2>1. /\ loop = "select"
        /\ UNCHANGED <<currentTID, gen, guesses, deltas, loop, forwarder, ctxDone, last>>
        /\ backlog' = backlog + 1 /\ backlog <= FwdSize
    BY <1>2 DEF TakeInterim, Selecting, Unblocked, Forward
  <2>2. \/ UNCHANGED <<live, cancelled, interimVars>>
        \/ /\ lastInterim' = x /\ x # Blank
           /\ \/ Revoke
              \/ /\ ~(live.speculative /\ live.text # x)
                 /\ ArmStable(x) /\ UNCHANGED <<live, cancelled, burned>>
    BY <1>2 DEF TakeInterim
  <2>3. lastInterim' \in Text \cup {Blank} /\ stablePending' \in Text \cup {Blank} /\ burned' \in BOOLEAN
    BY <2>2 DEF LLMTypeOK, Revoke, ArmStable, interimVars
  <2>4. \/ UNCHANGED <<live, cancelled>>
        \/ live' = NoTurn /\ cancelled' = cancelled \cup Current
    BY <2>2 DEF Revoke, CancelInFlight
  <2>5. LLMTypeOK'
    <3>1. live' \in [text : Text \cup {Blank}, speculative : BOOLEAN]
      BY <2>4, NoTurnTyped DEF LLMTypeOK
    <3>3. cancelled' \subseteq 1..currentTID
      <4>1. cancelled \subseteq 1..currentTID /\ currentTID \in Nat
        BY DEF LLMTypeOK
      <4>2. Current \subseteq 1..currentTID
        BY <4>1 DEF Current
      <4> QED BY <2>4, <4>1, <4>2
    <3>2. backlog' \in 0..FwdSize + 2
      BY <2>1 DEF LLMTypeOK
    <3> QED BY <2>1, <2>3, <3>1, <3>2, <3>3 DEF LLMTypeOK
  <2>6. OneGeneration'
    BY <2>1, <2>4 DEF OneGeneration
  <2>7. GuessInv'
    <3>1. CASE UNCHANGED <<live, cancelled, interimVars>>
      BY <2>1, <3>1 DEF GuessInv, interimVars
    <3>2. CASE Revoke
      BY <2>1, <3>2 DEF GuessInv, Revoke
    <3>3. CASE ~(live.speculative /\ live.text # x) /\ ArmStable(x) /\ UNCHANGED <<live, burned>>
      BY <2>1, <3>3 DEF GuessInv, ArmStable
    <3> QED BY <2>2, <3>1, <3>2, <3>3
  <2>8. FinalIsLast' /\ DoneIsLast' /\ FinalOnItsWay' /\ Teardown'
    BY <2>1, <2>4 DEF FinalIsLast, DoneIsLast, FinalOnItsWay, Teardown
  <2> QED BY <2>5, <2>6, <2>7, <2>8
<1>3. ASSUME TakeBargeIn PROVE IInv'
  <2>1. /\ loop = "select" /\ UNCHANGED <<turnVars, deltas, interimVars, loop, forwarder, ctxDone>>
        /\ backlog' = backlog + 1 /\ backlog <= FwdSize
    BY <1>3 DEF TakeBargeIn, Selecting, Unblocked, Forward
  <2>2. /\ last' \in [turn : 0..currentTID, kind : {"none", "text", "done", "cut"}]
        /\ last'.kind = "done" <=> last.kind = "done"
        /\ last.kind = "done" => last' = last
    BY <1>3 DEF TakeBargeIn, LLMTypeOK
  <2>3. LLMTypeOK'
    BY <2>1, <2>2 DEF LLMTypeOK, turnVars, interimVars
  <2>4. OneGeneration' /\ GuessInv'
    BY <2>1 DEF OneGeneration, GuessInv, turnVars, interimVars
  <2>5. FinalIsLast' /\ DoneIsLast' /\ Teardown'
    BY <2>1, <2>2 DEF FinalIsLast, DoneIsLast, Teardown, turnVars
  <2>6. FinalOnItsWay'
    BY <2>1, <2>2 DEF FinalOnItsWay, turnVars
  <2> QED BY <2>3, <2>4, <2>5, <2>6
<1>4. ASSUME InputCloses PROVE IInv'
  <2> USE <1>4 DEF InputCloses, Selecting, Unblocked, turnVars
  <2>1. LLMTypeOK'
    BY DEF LLMTypeOK
  <2>2. OneGeneration' /\ GuessInv' /\ FinalIsLast' /\ DoneIsLast'
    BY DEF OneGeneration, GuessInv, FinalIsLast, DoneIsLast
  <2>3. FinalOnItsWay' /\ Teardown'
    BY DEF FinalOnItsWay, Teardown
  <2> QED BY <2>1, <2>2, <2>3
<1>5. ASSUME StableFires PROVE IInv'
  <2>1. /\ loop = "select"
        /\ UNCHANGED <<deltas, lastInterim, burned, loop, backlog, forwarder, ctxDone, last>>
        /\ stablePending \in Text /\ stablePending' = Blank
    BY <1>5 DEF StableFires, Selecting, LLMTypeOK
  <2>2. CASE UNCHANGED turnVars
    <3>1. LLMTypeOK'
      BY <2>1, <2>2 DEF LLMTypeOK, turnVars
    <3>2. OneGeneration' /\ GuessInv' /\ FinalIsLast' /\ DoneIsLast' /\ FinalOnItsWay' /\ Teardown'
      BY <2>1, <2>2 DEF OneGeneration, GuessInv, FinalIsLast, DoneIsLast, FinalOnItsWay,
                        Teardown, turnVars
    <3> QED BY <3>1, <3>2
  <2>3. CASE /\ ~burned /\ live.text # stablePending
             /\ DispatchTurn(stablePending, TRUE) /\ guesses' = guesses + 1
    <3>1. guesses = 0
      <4>1. stablePending \notin {Blank, live.text}
        BY <2>1, <2>3
      <4>2. guesses # 1
        BY <2>1, <2>3, <4>1 DEF GuessInv
      <4> QED BY <4>2 DEF GuessInv
    <3>2. live'.speculative /\ guesses' = 1
      <4>1. live' = [text |-> stablePending, speculative |-> TRUE]
        BY <2>3 DEF DispatchTurn
      <4>2. guesses' = 1
        BY <2>3, <3>1
      <4> QED BY <4>1, <4>2
    <3>3. GuessInv'
      BY <2>1, <3>2 DEF GuessInv
    <3>4. LLMTypeOK' /\ OneGeneration' /\ FinalIsLast' /\ DoneIsLast' /\ FinalOnItsWay' /\ Teardown'
      <4>1. /\ {lastInterim, stablePending}' \subseteq Text \cup {Blank}
            /\ burned' \in BOOLEAN /\ backlog' \in 0..FwdSize + 2 /\ guesses' \in Nat
        BY <2>1, <3>2 DEF LLMTypeOK
      <4> QED BY <2>1, <2>3, <4>1, DispatchKeeps
    <3> QED BY <3>3, <3>4
  <2> QED BY <1>5, <2>2, <2>3 DEF StableFires
<1>6. ASSUME TakeDelta PROVE IInv'
  <2> DEFINE d == Head(deltas)
  <2>1. /\ loop \in {"select", "draining"} /\ backlog <= FwdSize
        /\ deltas # <<>> /\ deltas' = Tail(deltas)
        /\ UNCHANGED <<turnVars, interimVars, loop, forwarder, ctxDone>>
    BY <1>6 DEF TakeDelta, Unblocked
  <2>2. \/ d.turn # currentTID /\ UNCHANGED <<backlog, last>>
        \/ /\ d.turn = currentTID /\ backlog' \in {backlog + 1, backlog + 2}
           /\ last' = [turn |-> d.turn, kind |-> IF d.kind = "text" THEN "text" ELSE "done"]
    BY <1>6 DEF TakeDelta, EmitDelta, Forward
  <2>3. /\ d = deltas[1] /\ 1 \in 1..Len(deltas) /\ d.turn \in 1..currentTID /\ d.kind \in Delta
        /\ Tail(deltas) \in Seq([turn : 1..currentTID, kind : Delta])
        /\ Len(Tail(deltas)) = Len(deltas) - 1
        /\ \A i \in 1..Len(deltas) - 1 : Tail(deltas)[i] = deltas[i + 1]
    BY <2>1, TakenFromChannel
  <2>4. Len(deltas) \in Nat
    BY InChannel
  <2> HIDE DEF d
  <2>5. LLMTypeOK'
    BY <2>1, <2>2, <2>3, <2>4 DEF LLMTypeOK, turnVars, interimVars
  <2>6. OneGeneration' /\ GuessInv'
    BY <2>1 DEF OneGeneration, GuessInv, turnVars, interimVars
  <2>7. FinalIsLast'
    BY <2>1, <2>3, <2>4 DEF FinalIsLast, turnVars
  <2>8. DoneIsLast'
    BY <2>1, <2>2, <2>3, <2>4 DEF DoneIsLast, FinalIsLast, turnVars
  <2>9. FinalOnItsWay'
    <3> SUFFICES ASSUME ~ctxDone, currentTID \notin cancelled \cup {0}, gen[currentTID] = "exited",
                        last' # [turn |-> currentTID, kind |-> "done"]
                 PROVE  \E k \in 1..Len(deltas') : deltas'[k].turn = currentTID /\ deltas'[k].kind # "text"
      BY <2>1 DEF FinalOnItsWay, turnVars
    <3>1. last # [turn |-> currentTID, kind |-> "done"]
      BY <2>2, <2>3 DEF DoneIsLast
    <3>2. PICK i \in 1..Len(deltas) : deltas[i].turn = currentTID /\ deltas[i].kind # "text"
      BY <3>1 DEF FinalOnItsWay
    <3>3. i # 1
      BY <2>2, <2>3, <3>2
    <3>4. i - 1 \in 1..Len(deltas') /\ deltas'[i - 1] = deltas[i]
      BY <2>1, <2>3, <2>4, <3>2, <3>3
    <3> QED BY <3>2, <3>4
  <2>10. Teardown'
    BY <2>1 DEF Teardown
  <2> QED BY <2>5, <2>6, <2>7, <2>8, <2>9, <2>10
<1>7. ASSUME NEW t \in Turn, NEW d \in Delta, Callback(t, d) PROVE IInv'
  <2> USE <1>7 DEF Callback, GenGoto, Over, interimVars
  <2>1. LLMTypeOK'
    BY DEF LLMTypeOK
  <2>2. OneGeneration'
    BY DEF OneGeneration
  <2>3. GuessInv'
    BY DEF GuessInv
  <2>4. FinalIsLast'
    BY DEF FinalIsLast
  <2>5. DoneIsLast'
    BY DEF DoneIsLast
  <2>6. FinalOnItsWay'
    BY DEF FinalOnItsWay
  <2>7. Teardown'
    BY DEF Teardown, Exited
  <2> QED BY <2>1, <2>2, <2>3, <2>4, <2>5, <2>6, <2>7
<1>8. ASSUME NEW t \in Turn, ReplyEnds(t) PROVE IInv'
  <2> USE <1>8 DEF ReplyEnds, GenGoto, interimVars
  <2>1. LLMTypeOK'
    BY DEF LLMTypeOK
  <2>2. OneGeneration'
    BY DEF OneGeneration
  <2>3. GuessInv'
    BY DEF GuessInv
  <2>4. FinalIsLast'
    BY DEF FinalIsLast
  <2>5. DoneIsLast'
    BY DEF DoneIsLast
  <2>6. FinalOnItsWay'
    BY DEF FinalOnItsWay
  <2>7. Teardown'
    BY DEF Teardown, Exited
  <2> QED BY <2>1, <2>2, <2>3, <2>4, <2>5, <2>6, <2>7
<1>9. ASSUME NEW t \in Turn, Send(t) PROVE IInv'
  <2> USE <1>9 DEF Send, GenGoto, interimVars
  <2>1. LLMTypeOK'
    BY DEF LLMTypeOK
  <2>2. OneGeneration'
    BY DEF OneGeneration
  <2>3. GuessInv'
    BY DEF GuessInv
  <2>4. FinalIsLast'
    BY DEF LLMTypeOK, FinalIsLast
  <2>5. DoneIsLast'
    BY DEF DoneIsLast
  <2>6. FinalOnItsWay'
    BY DEF FinalOnItsWay
  <2>7. Teardown'
    BY DEF Teardown, Exited
  <2> QED BY <2>1, <2>2, <2>3, <2>4, <2>5, <2>6, <2>7
<1>10. ASSUME NEW t \in Turn, Abandon(t) PROVE IInv'
  <2> USE <1>10 DEF Abandon, GenGoto, Over, interimVars
  <2>1. LLMTypeOK'
    BY DEF LLMTypeOK
  <2>2. OneGeneration'
    BY DEF OneGeneration
  <2>3. GuessInv'
    BY DEF GuessInv
  <2>4. FinalIsLast'
    BY DEF FinalIsLast
  <2>5. DoneIsLast'
    BY DEF DoneIsLast
  <2>6. FinalOnItsWay'
    BY DEF FinalOnItsWay
  <2>7. Teardown'
    BY DEF Teardown, Exited
  <2> QED BY <2>1, <2>2, <2>3, <2>4, <2>5, <2>6, <2>7
<1>11. ASSUME ContextEnds PROVE IInv'
  <2> USE <1>11 DEF ContextEnds, turnVars, interimVars
  <2>1. LLMTypeOK'
    BY DEF LLMTypeOK
  <2>2. OneGeneration' /\ GuessInv' /\ FinalIsLast' /\ DoneIsLast'
    BY DEF OneGeneration, GuessInv, FinalIsLast, DoneIsLast
  <2>3. FinalOnItsWay' /\ Teardown'
    BY DEF FinalOnItsWay, Teardown
  <2> QED BY <2>1, <2>2, <2>3
<1>12. ASSUME DrainEnds PROVE IInv'
  <2> USE <1>12 DEF DrainEnds, Unblocked, turnVars, interimVars
  <2>1. LLMTypeOK'
    BY DEF LLMTypeOK
  <2>2. OneGeneration' /\ GuessInv' /\ FinalIsLast' /\ DoneIsLast'
    BY DEF OneGeneration, GuessInv, FinalIsLast, DoneIsLast
  <2>3. FinalOnItsWay' /\ Teardown'
    BY DEF FinalOnItsWay, Teardown, Exited
  <2> QED BY <2>1, <2>2, <2>3
<1>13. ASSUME LeaveOnContext PROVE IInv'
  <2> USE <1>13 DEF LeaveOnContext, turnVars
  <2>1. LLMTypeOK'
    BY DEF LLMTypeOK
  <2>2. OneGeneration' /\ GuessInv' /\ FinalIsLast' /\ DoneIsLast'
    BY DEF OneGeneration, GuessInv, FinalIsLast, DoneIsLast
  <2>3. FinalOnItsWay' /\ Teardown'
    BY DEF FinalOnItsWay, Teardown
  <2> QED BY <2>1, <2>2, <2>3
<1>14. ASSUME CloseForward PROVE IInv'
  <2> USE <1>14 DEF CloseForward, CancelInFlight, Current, interimVars
  <2>1. LLMTypeOK'
    BY DEF LLMTypeOK
  <2>2. OneGeneration' /\ GuessInv' /\ FinalIsLast' /\ DoneIsLast'
    BY DEF OneGeneration, GuessInv, FinalIsLast, DoneIsLast
  <2>3. FinalOnItsWay' /\ Teardown'
    BY DEF FinalOnItsWay, Teardown, Exited
  <2> QED BY <2>1, <2>2, <2>3
<1>15. ASSUME Return PROVE IInv'
  <2> USE <1>15 DEF Return, turnVars, interimVars
  <2>1. LLMTypeOK'
    BY DEF LLMTypeOK
  <2>2. OneGeneration' /\ GuessInv' /\ FinalIsLast' /\ DoneIsLast'
    BY DEF OneGeneration, GuessInv, FinalIsLast, DoneIsLast
  <2>3. FinalOnItsWay' /\ Teardown'
    BY DEF FinalOnItsWay, Teardown, Exited
  <2> QED BY <2>1, <2>2, <2>3
<1>16. ASSUME Deliver PROVE IInv'
  <2> USE <1>16 DEF Deliver, turnVars, interimVars
  <2>1. LLMTypeOK'
    BY DEF LLMTypeOK
  <2>2. OneGeneration' /\ GuessInv' /\ FinalIsLast' /\ DoneIsLast'
    BY DEF OneGeneration, GuessInv, FinalIsLast, DoneIsLast
  <2>3. FinalOnItsWay' /\ Teardown'
    BY DEF FinalOnItsWay, Teardown, Exited
  <2> QED BY <2>1, <2>2, <2>3
<1>17. ASSUME ForwarderLeaves PROVE IInv'
  <2> USE <1>17 DEF ForwarderLeaves, turnVars, interimVars
  <2>1. LLMTypeOK'
    BY DEF LLMTypeOK
  <2>2. OneGeneration' /\ GuessInv' /\ FinalIsLast' /\ DoneIsLast'
    BY DEF OneGeneration, GuessInv, FinalIsLast, DoneIsLast
  <2>3. FinalOnItsWay' /\ Teardown'
    BY DEF FinalOnItsWay, Teardown
  <2> QED BY <2>1, <2>2, <2>3
<1>18. ASSUME UNCHANGED vars PROVE IInv'
  <2> USE <1>18 DEF vars, turnVars, interimVars
  <2>1. LLMTypeOK'
    BY DEF LLMTypeOK
  <2>2. OneGeneration' /\ GuessInv' /\ FinalIsLast' /\ DoneIsLast'
    BY DEF OneGeneration, GuessInv, FinalIsLast, DoneIsLast
  <2>3. FinalOnItsWay' /\ Teardown'
    BY DEF FinalOnItsWay, Teardown, Exited
  <2> QED BY <2>1, <2>2, <2>3
<1> QED BY <1>1, <1>2, <1>3, <1>4, <1>5, <1>6, <1>7, <1>8, <1>9, <1>10, <1>11, <1>12,
            <1>13, <1>14, <1>15, <1>16, <1>17,
            <1>18 DEF Next, Inputs, GenSteps, Ending, Forwarding

\* Run starts within the invariant.
LEMMA InitInv == Init => IInv
<1> SUFFICES ASSUME Init PROVE IInv
  OBVIOUS
<1> USE StageAssumption DEF Init, NoTurn, Turn, Delta
<1>1. LLMTypeOK
  <2>1. deltas \in Seq([turn : 1..currentTID, kind : Delta]) /\ Len(deltas) = 0
    BY EmptySeq
  <2>2. /\ currentTID \in 0..MaxTurn /\ cancelled \subseteq 1..currentTID
        /\ \A t \in Turn : gen[t] = "none" <=> t > currentTID
        /\ backlog \in 0..FwdSize + 2 /\ 0 <= DeltaSize
    OBVIOUS
  <2>3. /\ live \in [text : Text \cup {Blank}, speculative : BOOLEAN]
        /\ gen \in [Turn -> {"none", "streaming", "exited"} \cup Delta]
        /\ last \in [turn : 0..currentTID, kind : {"none", "text", "done", "cut"}]
        /\ {lastInterim, stablePending} \subseteq Text \cup {Blank}
        /\ guesses \in Nat
    OBVIOUS
  <2>4. Len(deltas) <= DeltaSize
    BY <2>1, <2>2
  <2>5. burned \in BOOLEAN /\ forwarder \in BOOLEAN /\ ctxDone \in BOOLEAN
        /\ loop \in {"select", "draining", "flushing", "joining", "returned"}
    OBVIOUS
  <2> QED BY <2>1, <2>2, <2>3, <2>4, <2>5 DEF LLMTypeOK
<1>2. OneGeneration /\ GuessInv /\ FinalIsLast /\ DoneIsLast /\ FinalOnItsWay /\ Teardown
  BY DEF OneGeneration, GuessInv, FinalIsLast, DoneIsLast, FinalOnItsWay, Teardown
<1> QED BY <1>1, <1>2 DEF IInv

-----------------------------------------------------------------------------
(* The theorems.                                                           *)

\* The inductive invariant holds throughout llmStage.Run.
THEOREM LLMInvariance == Spec => []IInv
BY InitInv, StepInv, PTL DEF Spec

\* Every state is well typed: channels and turn numbers stay in their bounds.
THEOREM LLMTypeCorrect == Spec => []LLMTypeOK
<1>1. IInv => LLMTypeOK
  BY DEF IInv
<1> QED BY <1>1, LLMInvariance, PTL

\* One generation per turn: whatever Finals, interims and guesses come,
\* dispatchTurn and cancelInFlight leave one uncancelled goroutine at most.
THEOREM OneGenerationAtATime == Spec => []OneGeneration
<1>1. IInv => OneGeneration
  BY DEF IInv
<1> QED BY <1>1, LLMInvariance, PTL

\* One guess per utterance: specBurned and the comparison with live suffice.
THEOREM OneGuessPerUtterance == Spec => []OneGuess
<1>1. IInv => OneGuess
  BY DEF IInv, GuessInv, OneGuess
<1> QED BY <1>1, LLMInvariance, PTL

\* The drain at the end of Run loses no reply, for channels of any size.
THEOREM NothingLostOnClose == Spec => []CloseLosesNothing
<1>1. IInv => CloseLosesNothing
  <2> SUFFICES ASSUME IInv, loop \in {"flushing", "joining", "returned"}, ~ctxDone
               PROVE  /\ deltas = <<>>
                      /\ loop = "flushing" /\ currentTID \notin cancelled \cup {0}
                           => last = [turn |-> currentTID, kind |-> "done"]
                      /\ loop # "flushing" => backlog = 0
    BY DEF CloseLosesNothing
  <2>1. deltas = <<>> /\ Exited /\ (loop # "flushing" => backlog = 0)
    BY DEF IInv, Teardown
  <2>2. ASSUME currentTID \notin cancelled \cup {0}
        PROVE  last = [turn |-> currentTID, kind |-> "done"]
    <3>1. currentTID \in Turn
      BY <2>2 DEF IInv, LLMTypeOK, Turn
    <3>2. gen[currentTID] = "exited"
      BY <2>1, <3>1 DEF IInv, LLMTypeOK, Exited
    <3> QED BY <2>1, <2>2, <3>2 DEF IInv, FinalOnItsWay
  <2> QED BY <2>1, <2>2
<1> QED BY <1>1, LLMInvariance, PTL

\* emitDeltaForward hears the turns in order and closes each once, although
\* cancelled turns may still get deltas into the channel.
THEOREM OrderOfTurns == Spec => TurnsInOrder
<1>1. IInv => (last.kind = "done" => \A i \in 1..Len(deltas) : deltas[i].turn # last.turn)
  BY DEF IInv, DoneIsLast
<1>2. IInv /\ [Next]_vars =>
        [/\ last'.turn >= last.turn
         /\ last.kind = "done" => last' = last \/ last'.turn > last.turn]_vars
  <2> SUFFICES ASSUME IInv, Next
               PROVE  /\ last'.turn >= last.turn
                      /\ last.kind = "done" => last' = last \/ last'.turn > last.turn
    OBVIOUS
  <2>1. last.turn \in 0..currentTID /\ currentTID \in Nat
    BY StageAssumption DEF IInv, LLMTypeOK
  <2>2. CASE UNCHANGED last
    BY <2>1, <2>2
  <2>3. CASE TakeBargeIn
    BY <2>1, <2>3 DEF TakeBargeIn
  <2>4. CASE TakeDelta
    <3>1. deltas[1].turn \in 1..currentTID /\ Head(deltas) = deltas[1] /\ 1 \in 1..Len(deltas)
      BY <2>4, TakenFromChannel DEF TakeDelta, IInv
    <3>2. CASE Head(deltas).turn # currentTID
      BY <2>1, <2>4, <3>2 DEF TakeDelta, EmitDelta
    <3>3. CASE Head(deltas).turn = currentTID
      <4>1. last'.turn = currentTID
        BY <2>4, <3>3 DEF TakeDelta, EmitDelta
      <4>2. last.kind = "done" => last.turn # currentTID
        BY <3>1, <3>3 DEF IInv, DoneIsLast
      <4> QED BY <2>1, <4>1, <4>2
    <3> QED BY <3>2, <3>3
  <2>5. UNCHANGED last \/ TakeBargeIn \/ TakeDelta
    BY DEF Next, Inputs, TakeFinal, TakeInterim, InputCloses, StableFires, GenSteps, Callback,
           ReplyEnds, Send, Abandon, GenGoto, ContextEnds, Ending, DrainEnds, LeaveOnContext,
           CloseForward, Return, Forwarding, Deliver, ForwarderLeaves
  <2> QED BY <2>2, <2>3, <2>4, <2>5
<1> QED BY <1>1, <1>2, LLMInvariance, PTL DEF Spec, TurnsInOrder
=============================================================================

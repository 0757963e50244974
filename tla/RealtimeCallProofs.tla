------------------------- MODULE RealtimeCallProofs -------------------------
(***************************************************************************)
(* A call with a realtime model, with channels of any size and any number  *)
(* of utterances and pieces of audio.                                      *)
(***************************************************************************)
EXTENDS RealtimeCall, SequenceTheorems, TLAPS

-----------------------------------------------------------------------------
(* What a sequence of frames or events carries.                            *)

Carries(e) == e.kind \in {"audio", "speech", "bargeIn"}
Ats(s) == {s[i].at : i \in {j \in 1..Len(s) : Carries(s[j])}}
Sorted(s) == \A i, j \in 1..Len(s) :
               i < j /\ Carries(s[i]) /\ Carries(s[j]) => s[i].at <= s[j].at

\* Nothing is carried by an empty channel.
LEMMA EmptyAts == Ats(<<>>) = {} /\ Sorted(<<>>)
BY DEF Ats, Sorted

\* One frame is in order.
LEMMA SingleAts == ASSUME NEW x PROVE Ats(<<x>>) \subseteq {x.at} /\ Sorted(<<x>>)
BY DEF Ats, Sorted

\* What is taken came before what stays.
LEMMA HeadAts ==
  ASSUME NEW S, NEW s \in Seq(S), s # <<>>
  PROVE  /\ Ats(Tail(s)) \subseteq Ats(s)
         /\ Carries(Head(s)) => Head(s).at \in Ats(s)
         /\ Sorted(s) => /\ Sorted(Tail(s))
                         /\ Carries(Head(s)) => \A a \in Ats(Tail(s)) : Head(s).at <= a
<1>1. /\ Len(s) \in Nat /\ 1 \in 1..Len(s) /\ Head(s) = s[1]
      /\ Len(Tail(s)) = Len(s) - 1
      /\ \A i \in 1..Len(Tail(s)) : Tail(s)[i] = s[i + 1] /\ i + 1 \in 1..Len(s) /\ 1 < i + 1
  BY EmptySeq, HeadTailProperties
<1>2. Ats(Tail(s)) \subseteq Ats(s)
  BY <1>1 DEF Ats
<1>3. Carries(Head(s)) => Head(s).at \in Ats(s)
  BY <1>1 DEF Ats
<1>4. ASSUME Sorted(s) PROVE Sorted(Tail(s))
  <2> SUFFICES ASSUME NEW i \in 1..Len(Tail(s)), NEW j \in 1..Len(Tail(s)), i < j,
                      Carries(Tail(s)[i]), Carries(Tail(s)[j])
               PROVE  Tail(s)[i].at <= Tail(s)[j].at
    BY DEF Sorted
  <2>1. i + 1 < j + 1 /\ Tail(s)[i] = s[i + 1] /\ Tail(s)[j] = s[j + 1]
    BY <1>1
  <2> QED BY <1>1, <1>4, <2>1 DEF Sorted
<1>5. ASSUME Sorted(s), Carries(Head(s)), NEW a \in Ats(Tail(s)) PROVE Head(s).at <= a
  <2>1. PICK i \in 1..Len(Tail(s)) : Carries(Tail(s)[i]) /\ a = Tail(s)[i].at
    BY DEF Ats
  <2> QED BY <1>1, <1>5, <2>1 DEF Sorted
<1> QED BY <1>2, <1>3, <1>4, <1>5

\* What is added comes after what was there.
LEMMA AppendAts ==
  ASSUME NEW S, NEW s \in Seq(S), NEW x \in S
  PROVE  /\ \A a \in Ats(Append(s, x)) : a \in Ats(s) \/ (Carries(x) /\ a = x.at)
         /\ Sorted(s) /\ (Carries(x) => \A a \in Ats(s) : a <= x.at) => Sorted(Append(s, x))
<1>1. /\ Len(s) \in Nat /\ Len(Append(s, x)) = Len(s) + 1 /\ Append(s, x)[Len(s) + 1] = x
      /\ \A i \in 1..Len(s) : Append(s, x)[i] = s[i]
      /\ \A i \in 1..Len(Append(s, x)) : i \in 1..Len(s) \/ i = Len(s) + 1
  BY AppendProperties, LenProperties
<1>2. ASSUME NEW a \in Ats(Append(s, x)) PROVE a \in Ats(s) \/ (Carries(x) /\ a = x.at)
  <2>1. PICK i \in 1..Len(Append(s, x)) : Carries(Append(s, x)[i]) /\ a = Append(s, x)[i].at
    BY DEF Ats
  <2> QED BY <1>1, <2>1 DEF Ats
<1>3. ASSUME Sorted(s), Carries(x) => \A a \in Ats(s) : a <= x.at PROVE Sorted(Append(s, x))
  <2> SUFFICES ASSUME NEW i \in 1..Len(Append(s, x)), NEW j \in 1..Len(Append(s, x)), i < j,
                      Carries(Append(s, x)[i]), Carries(Append(s, x)[j])
               PROVE  Append(s, x)[i].at <= Append(s, x)[j].at
    BY DEF Sorted
  <2>1. i \in 1..Len(s)
    BY <1>1
  <2>2. CASE j \in 1..Len(s)
    BY <1>1, <1>3, <2>1, <2>2 DEF Sorted
  <2>3. CASE j = Len(s) + 1
    <3>1. s[i].at \in Ats(s)
      BY <1>1, <2>1 DEF Ats
    <3> QED BY <1>1, <1>3, <2>1, <2>3, <3>1
  <2> QED BY <1>1, <2>2, <2>3
<1> QED BY <1>2, <1>3

-----------------------------------------------------------------------------
(* The inductive invariant.                                                *)

\* The client has gone before the sink is closed.
Exited == \A p \in Emitter : vendor[p].pc = "exited"
ClientGone ==
  /\ stage.pc \in {"select", "cancelling"} => ~stage.inputOver
  /\ stage.pc \in {"draining", "leaving", "returned"} => Exited
  /\ stage.pc = "emitting" /\ stage.inputOver => Exited
  /\ sinkClosed => stage.pc = "returned"

\* Only the reader carries the caller's and the model's voices.
WriterReports == vendor["writer"].ev.kind \in {"fatal", "close"}

\* What is on its way from the reader to the bridge, the furthest first.
AtStage == IF stage.pc \in {"cancelling", "emitting"} THEN {stage.frame.at} ELSE {}
AtReader == IF vendor["reader"].pc \in {"offering", "sending"} /\ Carries(vendor["reader"].ev)
              THEN {vendor["reader"].ev.at} ELSE {}
Held(k) == IF k = 1 THEN {interrupted}
           ELSE IF k = 2 THEN Ats(line)
           ELSE IF k = 3 THEN Ats(passing)
           ELSE IF k = 4 THEN Ats(buffer)
           ELSE IF k = 5 THEN Ats(frames)
           ELSE IF k = 6 THEN AtStage
           ELSE IF k = 7 THEN Ats(sink)
           ELSE IF k = 8 THEN AtReader
           ELSE {speech}

\* What is further on is from no later utterance.
AllSorted == Sorted(line) /\ Sorted(passing) /\ Sorted(buffer) /\ Sorted(frames) /\ Sorted(sink)
InOrder == \A m, n \in 1..9 : m < n => \A a \in Held(m), b \in Held(n) : a <= b

RealtimeInv == RealtimeTypeOK /\ ClientGone /\ ~panicked /\ WriterReports /\ AllSorted /\ InOrder

\* Whatever leaves the order as it is, or only drops from it, keeps it.
LEMMA Kept == ASSUME InOrder, \A k \in 1..9 : Held(k)' \subseteq Held(k) PROVE InOrder'
BY DEF InOrder

\* So does what moves from one place to another, when nothing stays between
\* them or before it.
LEMMA Moved ==
  ASSUME InOrder, NEW m \in 1..9, NEW n \in 1..9, m < n, NEW x \in Held(n),
         \A k \in 1..9 : k # m => Held(k)' \subseteq Held(k),
         \A a \in Held(m)' : a \in Held(m) \/ a = x,
         \A k \in 1..9 : m < k /\ k < n => Held(k)' = {},
         \A b \in Held(n)' : x <= b
  PROVE  InOrder'
<1> SUFFICES ASSUME NEW i \in 1..9, NEW j \in 1..9, i < j, NEW a \in Held(i)', NEW b \in Held(j)'
             PROVE  a <= b
  BY DEF InOrder
<1>1. CASE i # m /\ j # m
  BY <1>1 DEF InOrder
<1>2. CASE j = m
  <2>1. i # m /\ a \in Held(i) /\ i < n
    BY <1>2
  <2> QED BY <1>2, <2>1 DEF InOrder
<1>3. CASE i = m /\ a \in Held(m)
  BY <1>3 DEF InOrder
<1>4. CASE i = m /\ a = x
  <2>1. CASE j < n
    BY <1>4, <2>1
  <2>2. CASE j = n
    BY <1>4, <2>2
  <2>3. CASE n < j
    BY <1>4, <2>3 DEF InOrder
  <2> QED BY <2>1, <2>2, <2>3
<1> QED BY <1>1, <1>2, <1>3, <1>4

\* What is on its way has the numbers of utterances.
LEMMA HeldTyped == ASSUME RealtimeTypeOK, NEW k \in 1..9 PROVE Held(k) \subseteq Utterance
<1>1. ASSUME NEW s, s \in Seq(RTFrame) \/ s \in Seq(RTEvent) PROVE Ats(s) \subseteq Utterance
  <2>1. \A i \in 1..Len(s) : s[i] \in RTFrame \/ s[i] \in RTEvent
    BY <1>1, ElementOfSeq
  <2> QED BY <2>1 DEF Ats, RTFrame, RTEvent
<1>2. AtStage \subseteq Utterance
  BY DEF AtStage, RealtimeTypeOK, RTFrame
<1>3. AtReader \subseteq Utterance
  BY DEF AtReader, RealtimeTypeOK, RTEvent, Emitter
<1>4. /\ Ats(line) \subseteq Utterance /\ Ats(passing) \subseteq Utterance
      /\ Ats(buffer) \subseteq Utterance /\ Ats(frames) \subseteq Utterance
      /\ Ats(sink) \subseteq Utterance /\ {interrupted} \subseteq Utterance
      /\ {speech} \subseteq Utterance
  BY <1>1 DEF RealtimeTypeOK
<1> QED BY <1>2, <1>3, <1>4 DEF Held

\* The invariant holds initially.
LEMMA RealtimeInitInv == RealtimeInit => RealtimeInv
<1> SUFFICES ASSUME RealtimeInit PROVE RealtimeInv
  OBVIOUS
<1> USE DEF RealtimeInit
<1>1. Idle \in [pc : {"idle", "writing", "offering", "sending", "exited"}, ev : RTEvent]
  BY RealtimeAssumption DEF Idle, RTEvent, Utterance
<1>2. NoFrame \in RTFrame /\ 0 \in Utterance /\ 0 \in 0..MaxAudio /\ 0 \in 0..SendSize
  BY RealtimeAssumption DEF NoFrame, RTFrame, Utterance
<1>3. /\ <<>> \in Seq(RTEvent) /\ <<>> \in Seq(RTFrame)
      /\ Len(<<>>) <= SinkSize /\ Len(<<>>) <= LineSize /\ Len(<<>>) <= 1
  BY EmptySeq, RealtimeAssumption
<1>4. RealtimeTypeOK
  BY <1>1, <1>2, <1>3 DEF RealtimeTypeOK
<1>5. ClientGone /\ ~panicked /\ WriterReports
  BY DEF ClientGone, WriterReports, Idle, Emitter
<1>6. AllSorted
  BY EmptyAts DEF AllSorted
<1>7. AtReader = {} /\ AtStage = {}
  BY DEF AtReader, AtStage, Idle, Emitter
<1>8. \A k \in 1..9 : \A a \in Held(k) : a = 0
  BY <1>7, EmptyAts DEF Held
<1>9. InOrder
  BY <1>8 DEF InOrder
<1> QED BY <1>4, <1>5, <1>6, <1>9 DEF RealtimeInv

-----------------------------------------------------------------------------
(* The client.                                                             *)

VendorType == [Emitter -> [pc : {"idle", "writing", "offering", "sending", "exited"},
                           ev : RTEvent]]

\* What only drops from what is on its way keeps it in order.
LEMMA ChainDrops ==
  ASSUME RealtimeInv, UNCHANGED <<interrupted, line, passing, buffer, frames, sink, speech>>,
         AtStage' \subseteq AtStage, AtReader' \subseteq AtReader
  PROVE  AllSorted' /\ InOrder'
<1>1. \A k \in 1..9 : Held(k)' \subseteq Held(k)
  BY DEF Held
<1> QED BY <1>1, Kept DEF RealtimeInv, AllSorted

\* An emitter that offers an event.
LEMMA OffersTyped ==
  ASSUME RealtimeInv, NEW p \in Emitter, NEW ev \in RTEvent, Offers(p, ev)
  PROVE  /\ vendor' \in VendorType
         /\ vendor'[p] = [pc |-> "offering", ev |-> ev]
         /\ \A q \in Emitter : q # p => vendor'[q] = vendor[q]
BY DEF Offers, RealtimeInv, RealtimeTypeOK, VendorType

\* An emitter that goes on with the event it has.
LEMMA GoesToTyped ==
  ASSUME RealtimeInv, NEW p \in Emitter,
         NEW pc \in {"idle", "writing", "offering", "sending", "exited"}, GoesTo(p, pc)
  PROVE  /\ vendor' \in VendorType
         /\ vendor'[p].pc = pc /\ vendor'[p].ev = vendor[p].ev
         /\ \A q \in Emitter : q # p => vendor'[q] = vendor[q]
BY DEF GoesTo, RealtimeInv, RealtimeTypeOK, VendorType

\* An event of the present carries the utterances told of.
LEMMA RTKindTyped ==
  ASSUME RealtimeInv, NEW kind \in {"audio", "fatal", "close"}
  PROVE  RTKind(kind) \in RTEvent /\ RTKind(kind).kind = kind /\ RTKind(kind).at = speech
BY DEF RTKind, RTEvent, RealtimeInv, RealtimeTypeOK

\* After an Emit nothing of it is left at the emitter.
LEMMA AfterEmitTyped ==
  ASSUME RealtimeInv, NEW p \in Emitter, AfterEmit(p)
  PROVE  /\ vendor' \in VendorType
         /\ WriterReports'
         /\ p = "reader" => AtReader' = {}
         /\ \A q \in Emitter : q # p => vendor'[q] = vendor[q]
<1>1. CASE GoesTo(p, "exited") \/ GoesTo(p, "idle")
  <2>1. /\ vendor' \in VendorType /\ vendor'[p].pc \in {"exited", "idle"}
        /\ vendor'[p].ev = vendor[p].ev
        /\ \A q \in Emitter : q # p => vendor'[q] = vendor[q]
    BY <1>1, GoesToTyped
  <2> QED BY <2>1 DEF AtReader, RealtimeInv, WriterReports, Emitter
<1>2. CASE p # "writer" /\ Offers(p, RTKind("close"))
  <2>1. vendor' \in VendorType /\ vendor'[p] = [pc |-> "offering", ev |-> RTKind("close")]
        /\ \A q \in Emitter : q # p => vendor'[q] = vendor[q]
    BY <1>2, RTKindTyped, OffersTyped
  <2>2. ~Carries(RTKind("close"))
    BY RTKindTyped DEF Carries
  <2> QED BY <1>2, <2>1, <2>2 DEF AtReader, RealtimeInv, WriterReports, Emitter
<1> QED BY <1>1, <1>2 DEF AfterEmit

\* A step of the client's that only drops from what is on its way.
LEMMA QuietClient ==
  ASSUME RealtimeInv, UNCHANGED <<speech, audio, sink, sinkClosed, panicked, stageVars>>,
         sendQueue' \in 0..SendSize, clientOver' \in BOOLEAN,
         vendor' \in VendorType, WriterReports', AtReader' \subseteq AtReader, Exited => Exited'
  PROVE  RealtimeInv'
<1>1. RealtimeTypeOK'
  BY DEF RealtimeInv, RealtimeTypeOK, VendorType, stageVars, pacerVars
<1>2. ClientGone' /\ ~panicked'
  BY DEF RealtimeInv, ClientGone, stageVars
<1>3. AllSorted' /\ InOrder'
  BY ChainDrops DEF stageVars, pacerVars, AtStage
<1> QED BY <1>1, <1>2, <1>3 DEF RealtimeInv

\* The server tells of an utterance or sends audio.
LEMMA ReadsInv == ASSUME RealtimeInv, Reads PROVE RealtimeInv'
<1> DEFINE x == vendor'["reader"].ev.at
<1>1. /\ vendor' \in VendorType
      /\ vendor'["writer"] = vendor["writer"]
      /\ AtReader' = {speech'} /\ AtReader = {} /\ ~Exited
      /\ speech' \in Utterance /\ speech <= speech' /\ audio' \in 0..MaxAudio
      /\ UNCHANGED <<sendQueue, clientOver, sinkVars, stageVars>>
  <2>1. CASE ReadSpeech
    <3>1. speech + 1 \in Utterance /\ [kind |-> "speech", at |-> speech + 1] \in RTEvent
      BY <2>1, RealtimeAssumption DEF ReadSpeech, RealtimeInv, RealtimeTypeOK, Utterance, RTEvent
    <3>2. vendor' \in VendorType /\ vendor'["writer"] = vendor["writer"]
          /\ vendor'["reader"] = [pc |-> "offering", ev |-> [kind |-> "speech", at |-> speech + 1]]
      BY <2>1, <3>1, OffersTyped DEF ReadSpeech, Emitter
    <3>3. speech <= speech + 1
      BY DEF RealtimeInv, RealtimeTypeOK, Utterance
    <3> QED BY <2>1, <3>1, <3>2, <3>3
            DEF ReadSpeech, AtReader, Carries, Exited, Emitter, RealtimeInv, RealtimeTypeOK
  <2>2. CASE ReadAudio
    <3>1. vendor' \in VendorType /\ vendor'["writer"] = vendor["writer"]
          /\ vendor'["reader"] = [pc |-> "offering", ev |-> RTKind("audio")]
      BY <2>2, RTKindTyped, OffersTyped DEF ReadAudio, Emitter
    <3>2. speech <= speech /\ audio + 1 \in 0..MaxAudio
      BY <2>2, RealtimeAssumption DEF ReadAudio, RealtimeInv, RealtimeTypeOK, Utterance
    <3> QED BY <2>2, <3>1, <3>2, RTKindTyped
            DEF ReadAudio, AtReader, Carries, Exited, Emitter, RealtimeInv, RealtimeTypeOK
  <2> QED BY <2>1, <2>2 DEF Reads
<1>2. RealtimeTypeOK'
  BY <1>1 DEF RealtimeInv, RealtimeTypeOK, VendorType, stageVars, pacerVars, sinkVars
<1>3. ClientGone' /\ ~panicked' /\ WriterReports' /\ AllSorted'
  BY <1>1 DEF RealtimeInv, ClientGone, WriterReports, AllSorted, stageVars, pacerVars, sinkVars
<1>4. InOrder'
  <2> SUFFICES ASSUME NEW m \in 1..9, NEW n \in 1..9, m < n, NEW a \in Held(m)', NEW b \in Held(n)'
               PROVE  a <= b
    BY DEF InOrder
  <2>1. \A k \in 1..7 : Held(k)' = Held(k)
    BY <1>1 DEF Held, stageVars, pacerVars, sinkVars, AtStage
  <2>2. CASE n <= 7
    BY <2>1, <2>2 DEF RealtimeInv, InOrder
  <2>3. CASE n > 7
    <3>1. b = speech'
      BY <1>1, <2>3 DEF Held
    <3>2. CASE m > 7
      BY <1>1, <3>1, <3>2 DEF Held, Utterance
    <3>3. CASE m <= 7
      <4>1. m < 9 /\ a \in Held(m) /\ speech \in Held(9)
        BY <2>1, <3>3 DEF Held
      <4>2. a <= speech /\ speech <= speech'
        BY <1>1, <4>1 DEF RealtimeInv, InOrder
      <4>3. a \in Int /\ speech \in Int /\ speech' \in Int
        BY <1>1, <4>1, HeldTyped DEF RealtimeInv, RealtimeTypeOK, Utterance
      <4> QED BY <3>1, <4>2, <4>3
    <3> QED BY <3>2, <3>3
  <2> QED BY <2>2, <2>3
<1> QED BY <1>2, <1>3, <1>4 DEF RealtimeInv

\* The client's other steps, its Emits aside.
LEMMA ClientQuiet ==
  ASSUME RealtimeInv,
         ReadFails \/ Write \/ Written \/ WriterExits \/ \E p \in Emitter : EmitLooks(p)
  PROVE  RealtimeInv'
<1>1. sendQueue \in 0..SendSize /\ clientOver \in BOOLEAN
  BY DEF RealtimeInv, RealtimeTypeOK
<1>2. CASE ReadFails
  <2>1. PICK ev \in {RTKind("close"), RTKind("fatal")} : Offers("reader", ev)
    BY <1>2 DEF ReadFails
  <2>3. ev \in RTEvent /\ ~Carries(ev)
    BY RTKindTyped DEF Carries
  <2>2. vendor' \in VendorType /\ vendor'["writer"] = vendor["writer"]
        /\ vendor'["reader"] = [pc |-> "offering", ev |-> ev]
    BY <2>1, <2>3, OffersTyped DEF Emitter
  <2>4. WriterReports' /\ AtReader' = {}
    BY <2>2, <2>3 DEF RealtimeInv, WriterReports, AtReader
  <2>5. ~Exited
    BY <1>2 DEF ReadFails, Exited, Emitter
  <2> QED BY <1>1, <1>2, <2>2, <2>4, <2>5, QuietClient DEF ReadFails, sinkVars
<1>3. CASE Write
  <2>1. vendor' \in VendorType /\ vendor'["writer"].ev = vendor["writer"].ev
        /\ vendor'["reader"] = vendor["reader"]
    BY <1>3, GoesToTyped DEF Write, Emitter
  <2>2. WriterReports' /\ AtReader' = AtReader /\ ~Exited /\ sendQueue' \in 0..SendSize
    BY <1>1, <1>3, <2>1, RealtimeAssumption DEF RealtimeInv, Write, WriterReports, AtReader, Exited, Emitter
  <2> QED BY <1>1, <1>3, <2>1, <2>2, QuietClient DEF Write, sinkVars
<1>4. CASE Written
  <2>1. vendor' \in VendorType /\ vendor'["reader"] = vendor["reader"]
        /\ vendor'["writer"].ev.kind \in {"fatal", "close"}
    <3>1. CASE GoesTo("writer", "idle")
      BY <3>1, GoesToTyped DEF RealtimeInv, WriterReports, Emitter
    <3>2. CASE Offers("writer", RTKind("fatal"))
      <4>1. RTKind("fatal") \in RTEvent /\ RTKind("fatal").kind = "fatal"
        BY RTKindTyped
      <4>2. vendor' \in VendorType /\ vendor'["reader"] = vendor["reader"]
            /\ vendor'["writer"] = [pc |-> "offering", ev |-> RTKind("fatal")]
        BY <3>2, <4>1, OffersTyped DEF Emitter
      <4> QED BY <4>1, <4>2
    <3> QED BY <1>4, <3>1, <3>2 DEF Written
  <2>2. WriterReports' /\ AtReader' = AtReader /\ ~Exited
    BY <1>4, <2>1 DEF Written, WriterReports, AtReader, Exited, Emitter
  <2> QED BY <1>1, <1>4, <2>1, <2>2, QuietClient DEF Written, sinkVars
<1>5. CASE WriterExits
  <2>1. vendor' \in VendorType /\ vendor'["reader"] = vendor["reader"]
        /\ vendor'["writer"].ev = vendor["writer"].ev
    BY <1>5, GoesToTyped DEF WriterExits, Emitter
  <2>2. WriterReports' /\ AtReader' = AtReader /\ ~Exited
    BY <1>5, <2>1 DEF RealtimeInv, WriterExits, WriterReports, AtReader, Exited, Emitter
  <2> QED BY <1>1, <1>5, <2>1, <2>2, QuietClient DEF WriterExits, sinkVars
<1>6. ASSUME NEW p \in Emitter, EmitLooks(p) PROVE RealtimeInv'
  <2>1. vendor' \in VendorType /\ WriterReports' /\ AtReader' \subseteq AtReader
    <3>1. CASE AfterEmit(p)
      <4>1. vendor' \in VendorType /\ WriterReports' /\ (p = "reader" => AtReader' = {})
            /\ \A q \in Emitter : q # p => vendor'[q] = vendor[q]
        BY <3>1, AfterEmitTyped
      <4>2. p # "reader" => vendor'["reader"] = vendor["reader"]
        BY <4>1 DEF Emitter
      <4> QED BY <4>1, <4>2 DEF AtReader
    <3>2. CASE GoesTo(p, "sending")
      <4>1. /\ vendor' \in VendorType
            /\ vendor'[p].pc = "sending" /\ vendor'[p].ev = vendor[p].ev
            /\ \A q \in Emitter : q # p => vendor'[q] = vendor[q]
        BY <3>2, GoesToTyped
      <4>2. vendor'["writer"].ev = vendor["writer"].ev /\ vendor'["reader"].ev = vendor["reader"].ev
        BY <4>1 DEF Emitter
      <4>3. vendor["reader"].pc = vendor'["reader"].pc \/ vendor["reader"].pc = "offering"
        BY <1>6, <4>1 DEF EmitLooks, Emitter
      <4> QED BY <4>1, <4>2, <4>3 DEF RealtimeInv, AtReader, WriterReports
    <3> QED BY <1>6, <3>1, <3>2 DEF EmitLooks
  <2>2. ~Exited
    BY <1>6 DEF EmitLooks, Exited
  <2> QED BY <1>1, <1>6, <2>1, <2>2, QuietClient DEF EmitLooks, sinkVars
<1> QED BY <1>2, <1>3, <1>4, <1>5, <1>6

\* An Emit puts its event into the sink, which is open while a client is there.
LEMMA EmitSendsInv == ASSUME RealtimeInv, NEW p \in Emitter, EmitSends(p) PROVE RealtimeInv'
<1> USE DEF RealtimeInv
<1> DEFINE ev == vendor[p].ev
<1>1. ~Exited /\ ~sinkClosed /\ ~panicked' /\ panicked' \in BOOLEAN
  BY DEF EmitSends, Exited, ClientGone, RealtimeTypeOK
<1>2. /\ vendor' \in VendorType /\ WriterReports'
      /\ p = "reader" => AtReader' = {}
      /\ \A q \in Emitter : q # p => vendor'[q] = vendor[q]
  BY AfterEmitTyped DEF EmitSends
<1>3. UNCHANGED <<sendQueue, clientOver, speech, audio, sinkClosed, stageVars>>
  BY DEF EmitSends
<1>4. ev \in RTEvent /\ sink \in Seq(RTEvent) /\ Len(sink) <= SinkSize
  BY DEF RealtimeTypeOK
<1> HIDE DEF ev
<1>5. sink' = sink \/ (Len(sink) < SinkSize /\ sink' = Append(sink, ev))
  BY DEF EmitSends, ev
<1>6. sink' \in Seq(RTEvent) /\ Len(sink') <= SinkSize
  BY <1>4, <1>5, AppendProperties, LenProperties, RealtimeAssumption
<1>7. RealtimeTypeOK'
  BY <1>1, <1>2, <1>3, <1>6 DEF RealtimeTypeOK, VendorType, stageVars, pacerVars
<1>8. ClientGone'
  BY <1>1, <1>3 DEF ClientGone, stageVars
<1>9. p = "writer" => ~Carries(ev)
  BY DEF ev, WriterReports, Carries
<1>10. \A k \in 1..9 : k \notin {7, 8} => Held(k)' = Held(k)
  BY <1>3 DEF Held, stageVars, pacerVars, AtStage
<1>11. Carries(ev) => ev.at \in Held(8) /\ \A a \in Ats(sink) : a <= ev.at
  <2>1. Carries(ev) => p = "reader" /\ ev.at \in AtReader
    BY <1>9 DEF Emitter, AtReader, EmitSends, ev
  <2>2. Held(8) = AtReader /\ Held(7) = Ats(sink)
    BY DEF Held
  <2> QED BY <2>1, <2>2 DEF InOrder
<1>12. Held(8)' \subseteq Held(8) /\ (p = "reader" => Held(8)' = {})
  <2>1. p # "reader" => AtReader' = AtReader
    BY <1>2 DEF AtReader, Emitter
  <2> QED BY <1>2, <2>1 DEF Held
<1>13. CASE sink' = sink
  <2>1. \A k \in 1..9 : Held(k)' \subseteq Held(k)
    BY <1>10, <1>12, <1>13 DEF Held
  <2> QED BY <1>1, <1>2, <1>3, <1>7, <1>8, <1>13, <2>1, Kept DEF AllSorted, stageVars, pacerVars
<1>14. CASE sink' = Append(sink, ev)
  <2>1. \A a \in Ats(sink') : a \in Ats(sink) \/ (Carries(ev) /\ a = ev.at)
    BY <1>4, <1>14, AppendAts
  <2>2. Sorted(sink')
    BY <1>4, <1>11, <1>14, AppendAts DEF AllSorted
  <2>3. CASE ~Carries(ev)
    <3>1. \A k \in 1..9 : Held(k)' \subseteq Held(k)
      BY <1>10, <1>12, <2>1, <2>3 DEF Held
    <3> QED BY <1>1, <1>2, <1>3, <1>7, <1>8, <2>2, <3>1, Kept DEF AllSorted, stageVars, pacerVars
  <2>4. CASE Carries(ev)
    <3>1. p = "reader"
      BY <1>9, <2>4 DEF Emitter
    <3>2. \A k \in 1..9 : k # 7 => Held(k)' \subseteq Held(k)
      BY <1>10, <1>12
    <3>3. \A a \in Held(7)' : a \in Held(7) \/ a = ev.at
      BY <2>1 DEF Held
    <3>4. InOrder'
      BY <1>11, <1>12, <2>4, <3>1, <3>2, <3>3, Moved
    <3> QED BY <1>1, <1>2, <1>3, <1>7, <1>8, <2>2, <3>4 DEF AllSorted, stageVars, pacerVars
  <2> QED BY <2>3, <2>4
<1> QED BY <1>5, <1>13, <1>14

-----------------------------------------------------------------------------
(* The agent stage.                                                        *)

StagePC == {"select", "cancelling", "emitting", "closing", "waiting", "draining", "leaving",
            "returned"}
StageType == [pc : StagePC, frame : RTFrame, inputOver : BOOLEAN]

\* The stage goes on with the frame it has.
LEMMA StageAtTyped ==
  ASSUME RealtimeInv, NEW pc \in StagePC, StageAt(pc)
  PROVE  /\ stage' \in StageType /\ stage'.pc = pc
         /\ stage'.frame = stage.frame /\ stage'.inputOver = stage.inputOver
BY DEF StageAt, RealtimeInv, RealtimeTypeOK, StageType, StagePC

\* A step of the stage's that only drops from what is on its way.
LEMMA QuietStage ==
  ASSUME RealtimeInv, UNCHANGED <<sink, frames, stageLeaves>>,
         sendQueue' \in 0..SendSize, clientOver' \in BOOLEAN, sinkClosed' \in BOOLEAN,
         stage' \in StageType, AtStage' \subseteq AtStage, ClientGone'
  PROVE  RealtimeInv'
<1>1. RealtimeTypeOK'
  BY DEF RealtimeInv, RealtimeTypeOK, StageType, StagePC, stageLeaves, pacerVars
<1>2. ~panicked' /\ WriterReports' /\ AtReader' = AtReader
  BY DEF RealtimeInv, WriterReports, AtReader, stageLeaves
<1>3. AllSorted' /\ InOrder'
  BY <1>2, ChainDrops DEF stageLeaves, pacerVars
<1> QED BY <1>1, <1>2, <1>3 DEF RealtimeInv

\* The stage's steps that pass no event on.
LEMMA StageQuiet ==
  ASSUME RealtimeInv,
         TakeVoice \/ CancelModel \/ VoiceEnds \/ LeaveCall \/ CloseAgent \/ AgentClosed
           \/ DrainTimesOut \/ CloseSink
  PROVE  RealtimeInv'
<1>1. /\ sendQueue \in 0..SendSize /\ clientOver \in BOOLEAN /\ sinkClosed \in BOOLEAN
      /\ stage \in StageType /\ SendSize \in Nat
  BY RealtimeAssumption DEF RealtimeInv, RealtimeTypeOK, StageType, StagePC
<1>2. stage.pc \notin {"cancelling", "emitting"} => AtStage = {}
  BY DEF AtStage
<1>3. UNCHANGED vendor => (Exited' <=> Exited)
  BY DEF Exited
<1>4. CASE TakeVoice
  <2>1. sendQueue' \in 0..SendSize /\ AtStage' = AtStage /\ ClientGone'
    BY <1>1, <1>3, <1>4 DEF TakeVoice, AtStage, RealtimeInv, ClientGone, stageLeaves
  <2> QED BY <1>1, <1>4, <2>1, QuietStage DEF TakeVoice
<1>5. CASE CancelModel
  <2>1. stage' \in StageType /\ stage'.pc = "emitting" /\ stage'.frame = stage.frame
        /\ stage'.inputOver = stage.inputOver
    BY <1>5, StageAtTyped DEF CancelModel, StagePC
  <2>2. sendQueue' \in 0..SendSize
    BY <1>1, <1>5 DEF CancelModel
  <2>3. AtStage' = AtStage
    BY <1>5, <2>1 DEF CancelModel, AtStage
  <2>4. ClientGone'
    BY <1>3, <1>5, <2>1 DEF CancelModel, RealtimeInv, ClientGone, stageLeaves
  <2> QED BY <1>1, <1>5, <2>1, <2>2, <2>3, <2>4, QuietStage DEF CancelModel
<1>6. CASE VoiceEnds
  <2>1. stage' \in StageType /\ stage'.pc = "closing" /\ AtStage' = {}
    BY <1>1, <1>6 DEF VoiceEnds, AtStage, StageType, StagePC
  <2>2. ClientGone'
    BY <1>3, <1>6, <2>1 DEF VoiceEnds, RealtimeInv, ClientGone, stageLeaves
  <2> QED BY <1>1, <1>6, <2>1, <2>2, QuietStage DEF VoiceEnds
<1>7. CASE LeaveCall
  <2>1. stage' \in StageType /\ stage'.pc = "closing"
    BY <1>7, StageAtTyped DEF LeaveCall, StagePC
  <2>2. AtStage' = {} /\ ClientGone'
    BY <1>3, <1>7, <2>1 DEF LeaveCall, RealtimeInv, ClientGone, AtStage, stageLeaves
  <2> QED BY <1>1, <1>7, <2>1, <2>2, QuietStage DEF LeaveCall
<1>8. CASE CloseAgent
  <2>1. stage' \in StageType /\ stage'.pc = "waiting"
    BY <1>8, StageAtTyped DEF CloseAgent, StagePC
  <2>2. AtStage' = {} /\ ClientGone'
    BY <1>3, <1>8, <2>1 DEF CloseAgent, RealtimeInv, ClientGone, AtStage, stageLeaves
  <2> QED BY <1>1, <1>8, <2>1, <2>2, QuietStage DEF CloseAgent
<1>9. CASE AgentClosed
  <2>1. stage' \in StageType /\ stage'.pc \in {"draining", "leaving"} /\ Exited'
    BY <1>3, <1>9, StageAtTyped DEF AgentClosed, StagePC, Exited, stageLeaves
  <2>2. AtStage' = {} /\ ClientGone'
    BY <1>9, <2>1 DEF AgentClosed, RealtimeInv, ClientGone, AtStage, stageLeaves
  <2> QED BY <1>1, <1>9, <2>1, <2>2, QuietStage DEF AgentClosed
<1>10. CASE DrainTimesOut
  <2>1. stage' \in StageType /\ stage'.pc = "leaving"
    BY <1>10, StageAtTyped DEF DrainTimesOut, StagePC
  <2>2. AtStage' = {} /\ ClientGone'
    BY <1>3, <1>10, <2>1 DEF DrainTimesOut, RealtimeInv, ClientGone, AtStage, stageLeaves
  <2> QED BY <1>1, <1>10, <2>1, <2>2, QuietStage DEF DrainTimesOut
<1>11. CASE CloseSink
  <2>1. stage' \in StageType /\ stage'.pc = "returned"
    BY <1>11, StageAtTyped DEF CloseSink, StagePC
  <2>2. AtStage' = {} /\ ClientGone'
    BY <1>3, <1>11, <2>1 DEF CloseSink, RealtimeInv, ClientGone, AtStage, stageLeaves
  <2>3. sinkClosed' \in BOOLEAN
    BY <1>11 DEF CloseSink
  <2> QED BY <1>1, <1>11, <2>1, <2>2, <2>3, QuietStage DEF CloseSink
<1> QED BY <1>4, <1>5, <1>6, <1>7, <1>8, <1>9, <1>10, <1>11

\* An event becomes the frame at hand.
LEMMA EventsInv == ASSUME RealtimeInv, TakeEvent \/ DrainEvent PROVE RealtimeInv'
<1> DEFINE ev == Head(sink)
<1>1. sink \in Seq(RTEvent) /\ sink # <<>> /\ Len(sink) <= SinkSize /\ sink' = Tail(sink)
      /\ stage \in StageType /\ stage.pc \in {"select", "draining"}
      /\ (stage.pc = "draining" => Exited)
      /\ (stage.pc = "select" => ~stage.inputOver)
  BY DEF TakeEvent, DrainEvent, RealtimeInv, RealtimeTypeOK, StageType, StagePC, ClientGone
<1>2. ev \in RTEvent
  BY <1>1, HeadTailProperties
<1>3. UNCHANGED <<sendQueue, clientOver, sinkClosed, frames, stageLeaves>>
  BY DEF TakeEvent, DrainEvent
<1>4. sink' \in Seq(RTEvent) /\ Len(sink') <= SinkSize
  BY <1>1, HeadTailProperties, LenProperties, RealtimeAssumption
<1>5. /\ stage' \in StageType
      /\ stage'.inputOver = stage.inputOver
      /\ stage'.pc = stage.pc \/ stage'.pc \in {"cancelling", "emitting", "closing"}
      /\ stage'.pc = "cancelling" => stage.pc = "select"
      /\ stage'.pc \in {"cancelling", "emitting"} => Carries(ev) /\ stage'.frame.at = ev.at
  <2>1. CASE ev.kind = "speech"
    <3>1. BargeInAt(ev.at) \in RTFrame /\ BargeInAt(ev.at).at = ev.at
      BY <1>2 DEF BargeInAt, RTFrame, RTEvent
    <3> HIDE DEF ev
    <3>2. /\ stage' = [stage EXCEPT !.pc = "cancelling", !.frame = BargeInAt(ev.at)]
             /\ stage.pc = "select"
          \/ stage' = [stage EXCEPT !.pc = "emitting", !.frame = BargeInAt(ev.at)]
      BY <2>1 DEF TakeEvent, DrainEvent, StageEmits, ev
    <3> QED BY <1>1, <2>1, <3>1, <3>2 DEF Carries, StageType, StagePC
  <2>2. CASE ev.kind = "audio"
    <3>1. ev \in RTFrame
      BY <1>2, <2>2 DEF RTFrame, RTEvent
    <3> HIDE DEF ev
    <3>2. stage' = [stage EXCEPT !.pc = "emitting", !.frame = ev]
      BY <2>2 DEF TakeEvent, DrainEvent, StageEmits, ev
    <3> QED BY <1>1, <2>2, <3>1, <3>2 DEF Carries, StageType, StagePC
  <2>3. CASE ev.kind \in {"fatal", "close"}
    <3>1. UNCHANGED stage \/ stage' = [stage EXCEPT !.pc = "closing"]
      BY <2>3 DEF TakeEvent, DrainEvent, StageAt
    <3> QED BY <1>1, <3>1 DEF StageType, StagePC
  <2> QED BY <1>2, <2>1, <2>2, <2>3 DEF RTEvent
<1> HIDE DEF ev
<1>6. RealtimeTypeOK'
  BY <1>3, <1>4, <1>5 DEF RealtimeInv, RealtimeTypeOK, StageType, StagePC, stageLeaves, pacerVars
<1>7. ClientGone' /\ ~panicked' /\ WriterReports'
  BY <1>1, <1>3, <1>5 DEF RealtimeInv, ClientGone, WriterReports, Exited, stageLeaves
<1>8. /\ Ats(sink') \subseteq Ats(sink)
      /\ Carries(ev) => ev.at \in Ats(sink) /\ \A a \in Ats(sink') : ev.at <= a
      /\ Sorted(sink')
  BY <1>1, HeadAts DEF ev, RealtimeInv, AllSorted
<1>9. AllSorted'
  BY <1>3, <1>8 DEF RealtimeInv, AllSorted, stageLeaves, pacerVars
<1>10. \A k \in 1..9 : k # 6 => Held(k)' \subseteq Held(k)
  <2>1. AtReader' = AtReader
    BY <1>3 DEF AtReader, stageLeaves
  <2> QED BY <1>3, <1>8, <2>1 DEF Held, stageLeaves, pacerVars
<1>11. InOrder'
  <2>1. CASE AtStage' = {}
    <3>1. \A k \in 1..9 : Held(k)' \subseteq Held(k)
      BY <1>10, <2>1 DEF Held
    <3> QED BY <3>1, Kept DEF RealtimeInv
  <2>2. CASE AtStage' # {}
    <3>1. Carries(ev) /\ AtStage' = {ev.at}
      BY <1>5, <2>2 DEF AtStage
    <3>2. ev.at \in Held(7) /\ Held(6)' = {ev.at} /\ \A b \in Held(7)' : ev.at <= b
      BY <1>8, <3>1 DEF Held
    <3> QED BY <1>10, <3>2, Moved DEF RealtimeInv
  <2> QED BY <2>1, <2>2
<1> QED BY <1>6, <1>7, <1>9, <1>11 DEF RealtimeInv

\* The frame at hand goes out, or the call is over.
LEMMA EmitFrameInv == ASSUME RealtimeInv, EmitFrame PROVE RealtimeInv'
<1>1. /\ frames \in Seq(RTFrame) /\ Len(frames) <= LineSize /\ stage.frame \in RTFrame
      /\ stage.pc = "emitting" /\ (stage.inputOver => Exited)
      /\ UNCHANGED <<sendQueue, clientOver, sink, sinkClosed, stageLeaves>>
  BY DEF EmitFrame, RealtimeInv, RealtimeTypeOK, ClientGone
<1>2. /\ stage' \in StageType /\ stage'.inputOver = stage.inputOver
      /\ stage'.pc \in (IF stage.inputOver THEN {"draining", "leaving"} ELSE {"select", "closing"})
  BY <1>1, StageAtTyped DEF EmitFrame, StagePC
<1>3. frames' = frames \/ (Len(frames) < LineSize /\ frames' = Append(frames, stage.frame))
  BY DEF EmitFrame
<1>4. frames' \in Seq(RTFrame) /\ Len(frames') <= LineSize
  BY <1>1, <1>3, AppendProperties, LenProperties, RealtimeAssumption
<1>5. RealtimeTypeOK'
  BY <1>1, <1>2, <1>4 DEF RealtimeInv, RealtimeTypeOK, StageType, StagePC, stageLeaves, pacerVars
<1>6. ClientGone' /\ ~panicked' /\ WriterReports'
  BY <1>1, <1>2 DEF RealtimeInv, ClientGone, WriterReports, Exited, stageLeaves
<1>7. AtStage' = {} /\ AtStage = {stage.frame.at} /\ AtReader' = AtReader
  BY <1>1, <1>2 DEF AtStage, AtReader, stageLeaves
<1>8. \A k \in 1..9 : k # 5 => Held(k)' \subseteq Held(k)
  BY <1>1, <1>7 DEF Held, stageLeaves, pacerVars
<1>9. CASE frames' = frames
  <2>1. \A k \in 1..9 : Held(k)' \subseteq Held(k)
    BY <1>8, <1>9 DEF Held
  <2> QED BY <1>1, <1>5, <1>6, <1>9, <2>1, Kept DEF RealtimeInv, AllSorted, stageLeaves, pacerVars
<1>10. CASE frames' = Append(frames, stage.frame)
  <2>1. stage.frame.at \in Held(6) /\ Held(6)' = {} /\ Held(5) = Ats(frames)
    BY <1>7 DEF Held
  <2>2. \A a \in Ats(frames) : a <= stage.frame.at
    BY <2>1 DEF RealtimeInv, InOrder
  <2>3. /\ \A a \in Ats(frames') : a \in Ats(frames) \/ a = stage.frame.at
        /\ Sorted(frames')
    BY <1>1, <1>10, <2>2, AppendAts DEF RealtimeInv, AllSorted
  <2>4. \A a \in Held(5)' : a \in Held(5) \/ a = stage.frame.at
    BY <2>3 DEF Held
  <2>5. InOrder'
    BY <1>8, <2>1, <2>4, Moved DEF RealtimeInv
  <2> QED BY <1>1, <1>5, <1>6, <2>3, <2>5 DEF RealtimeInv, AllSorted, stageLeaves, pacerVars
<1> QED BY <1>3, <1>9, <1>10

-----------------------------------------------------------------------------
(* The pacer and the bridge.                                               *)

\* What they do leaves the client and the stage alone.
LEMMA Downstream ==
  ASSUME RealtimeInv, UNCHANGED upstream,
         frames' \in Seq(RTFrame), Len(frames') <= LineSize,
         buffer' \in Seq(RTFrame), started' \in BOOLEAN,
         passing' \in Seq(RTFrame), Len(passing') <= 1,
         line' \in Seq(RTFrame), Len(line') <= LineSize,
         interrupted' \in Utterance, callOver' \in BOOLEAN
  PROVE  /\ RealtimeTypeOK' /\ ClientGone' /\ ~panicked' /\ WriterReports'
         /\ \A k \in {6, 7, 8, 9} : Held(k)' = Held(k)
<1>1. RealtimeTypeOK'
  BY DEF RealtimeInv, RealtimeTypeOK, upstream, clientVars, sinkVars
<1>2. ClientGone' /\ ~panicked' /\ WriterReports'
  BY DEF RealtimeInv, ClientGone, WriterReports, Exited, upstream, clientVars, sinkVars
<1>3. AtStage' = AtStage /\ AtReader' = AtReader /\ UNCHANGED <<sink, speech>>
  BY DEF AtStage, AtReader, upstream, clientVars, sinkVars
<1> QED BY <1>1, <1>2, <1>3 DEF Held

\* Every frame carries audio or a barge-in.
LEMMA FrameCarries == \A f \in RTFrame : Carries(f)
BY DEF RTFrame, Carries

\* The types the pacer and the bridge start from.
LEMMA DownTyped ==
  ASSUME RealtimeInv
  PROVE  /\ frames \in Seq(RTFrame) /\ Len(frames) <= LineSize /\ Len(frames) \in Nat
         /\ buffer \in Seq(RTFrame) /\ started \in BOOLEAN
         /\ passing \in Seq(RTFrame) /\ Len(passing) <= 1 /\ Len(passing) \in Nat
         /\ line \in Seq(RTFrame) /\ Len(line) <= LineSize /\ Len(line) \in Nat
         /\ interrupted \in Utterance /\ callOver \in BOOLEAN
         /\ LineSize \in Nat
BY LenProperties, RealtimeAssumption DEF RealtimeInv, RealtimeTypeOK

\* One frame is a short sequence.
LEMMA SingleTyped ==
  ASSUME NEW f \in RTFrame PROVE <<f>> \in Seq(RTFrame) /\ Len(<<f>>) <= 1
  OBVIOUS

\* A step of the pacer's.
LEMMA PacerInv == ASSUME RealtimeInv, PacerSteps PROVE RealtimeInv'
<1>1. CASE PacerTakes
  <2> DEFINE f == Head(frames)
  <2>1. /\ f \in RTFrame /\ frames' = Tail(frames)
        /\ frames' \in Seq(RTFrame) /\ Len(frames') <= LineSize
        /\ frames # <<>> /\ passing = <<>>
        /\ UNCHANGED <<upstream, line, interrupted, callOver>>
    BY <1>1, DownTyped, HeadTailProperties DEF PacerTakes, Resting
  <2>2. /\ Ats(frames') \subseteq Ats(frames) /\ f.at \in Ats(frames)
        /\ \A a \in Ats(frames') : f.at <= a
        /\ Sorted(frames')
    BY <2>1, DownTyped, HeadAts, FrameCarries DEF RealtimeInv, AllSorted
  <2>3. \/ buffer' = Append(buffer, f) /\ UNCHANGED <<started, passing>>
        \/ buffer' = <<>> /\ started' = FALSE /\ passing' = <<f>>
    BY <1>1 DEF PacerTakes
  <2> HIDE DEF f
  <2>4. f.at \in Held(5) /\ \A b \in Held(5)' : f.at <= b
    BY <2>2 DEF Held
  <2>5. CASE buffer' = Append(buffer, f) /\ UNCHANGED <<started, passing>>
    <3>1. buffer' \in Seq(RTFrame)
      BY <2>1, <2>5, DownTyped, AppendProperties
    <3>2. RealtimeTypeOK' /\ ClientGone' /\ ~panicked' /\ WriterReports'
          /\ \A k \in {6, 7, 8, 9} : Held(k)' = Held(k)
      BY <2>1, <2>5, <3>1, DownTyped, Downstream
    <3>3. Held(4) = Ats(buffer)
      BY DEF Held
    <3>4. \A a \in Ats(buffer) : a <= f.at
      BY <2>4, <3>3 DEF RealtimeInv, InOrder
    <3>5. (\A a \in Ats(buffer') : a \in Ats(buffer) \/ a = f.at) /\ Sorted(buffer')
      BY <2>1, <2>5, <3>4, DownTyped, AppendAts DEF RealtimeInv, AllSorted
    <3>6. \A a \in Held(4)' : a \in Held(4) \/ a = f.at
      BY <3>5 DEF Held
    <3>7. \A k \in 1..9 : k # 4 => Held(k)' \subseteq Held(k)
      BY <2>1, <2>2, <2>5, <3>2 DEF Held
    <3>8. InOrder'
      BY <2>4, <3>6, <3>7, Moved DEF RealtimeInv
    <3> QED BY <2>1, <2>2, <2>5, <3>2, <3>5, <3>8 DEF RealtimeInv, AllSorted, upstream, sinkVars
  <2>6. CASE buffer' = <<>> /\ started' = FALSE /\ passing' = <<f>>
    <3>1. passing' \in Seq(RTFrame) /\ Len(passing') <= 1 /\ buffer' \in Seq(RTFrame)
      BY <2>1, <2>6, SingleTyped, EmptySeq
    <3>2. RealtimeTypeOK' /\ ClientGone' /\ ~panicked' /\ WriterReports'
          /\ \A k \in {6, 7, 8, 9} : Held(k)' = Held(k)
      BY <2>1, <2>6, <3>1, DownTyped, Downstream
    <3>3. Ats(passing') \subseteq {f.at} /\ Sorted(passing') /\ Ats(buffer') = {} /\ Sorted(buffer')
      BY <2>6, SingleAts, EmptyAts
    <3>4. (\A a \in Held(3)' : a \in Held(3) \/ a = f.at) /\ Held(4)' = {}
      BY <3>3 DEF Held
    <3>5. \A k \in 1..9 : k # 3 => Held(k)' \subseteq Held(k)
      BY <2>1, <2>2, <3>2, <3>4 DEF Held
    <3>6. InOrder'
      BY <2>4, <3>4, <3>5, Moved DEF RealtimeInv
    <3> QED BY <2>1, <2>2, <3>2, <3>3, <3>6 DEF RealtimeInv, AllSorted, upstream, sinkVars
  <2> QED BY <2>3, <2>5, <2>6
<1>2. CASE Tick
  <2> DEFINE f == Head(buffer)
  <2>1. /\ f \in RTFrame /\ buffer' = Tail(buffer) /\ buffer' \in Seq(RTFrame) /\ buffer # <<>>
        /\ passing' = <<f>> /\ started' \in BOOLEAN
        /\ UNCHANGED <<upstream, frames, line, interrupted, callOver>>
    BY <1>2, DownTyped, HeadTailProperties DEF Tick
  <2>2. /\ Ats(buffer') \subseteq Ats(buffer) /\ f.at \in Ats(buffer)
        /\ \A a \in Ats(buffer') : f.at <= a
        /\ Sorted(buffer')
    BY <2>1, DownTyped, HeadAts, FrameCarries DEF RealtimeInv, AllSorted
  <2> HIDE DEF f
  <2>3. passing' \in Seq(RTFrame) /\ Len(passing') <= 1
    BY <2>1, SingleTyped
  <2>4. RealtimeTypeOK' /\ ClientGone' /\ ~panicked' /\ WriterReports'
        /\ \A k \in {6, 7, 8, 9} : Held(k)' = Held(k)
    BY <2>1, <2>3, DownTyped, Downstream
  <2>5. Ats(passing') \subseteq {f.at} /\ Sorted(passing')
    BY <2>1, SingleAts
  <2>6. f.at \in Held(4) /\ (\A b \in Held(4)' : f.at <= b) /\ \A a \in Held(3)' : a = f.at
    BY <2>2, <2>5 DEF Held
  <2>7. \A k \in 1..9 : k # 3 => Held(k)' \subseteq Held(k)
    BY <2>1, <2>2, <2>4 DEF Held
  <2>8. InOrder'
    BY <2>6, <2>7, Moved DEF RealtimeInv
  <2> QED BY <2>1, <2>2, <2>4, <2>5, <2>8 DEF RealtimeInv, AllSorted, upstream, sinkVars
<1>3. CASE PacerSends
  <2> DEFINE f == Head(passing)
  <2>1. /\ f \in RTFrame /\ passing # <<>> /\ passing' = <<>>
        /\ passing' \in Seq(RTFrame) /\ Len(passing') <= 1
        /\ UNCHANGED <<upstream, frames, buffer, started, interrupted, callOver>>
    BY <1>3, DownTyped, HeadTailProperties, EmptySeq DEF PacerSends
  <2>2. f.at \in Ats(passing)
    BY <2>1, DownTyped, HeadAts, FrameCarries
  <2>3. line' = line \/ (Len(line) < LineSize /\ line' = Append(line, f))
    BY <1>3 DEF PacerSends
  <2> HIDE DEF f
  <2>4. line' \in Seq(RTFrame) /\ Len(line') <= LineSize
    BY <2>1, <2>3, DownTyped, AppendProperties
  <2>5. RealtimeTypeOK' /\ ClientGone' /\ ~panicked' /\ WriterReports'
        /\ \A k \in {6, 7, 8, 9} : Held(k)' = Held(k)
    BY <2>1, <2>4, DownTyped, Downstream
  <2>6. f.at \in Held(3) /\ Held(2) = Ats(line)
    BY <2>2 DEF Held
  <2>7. \A a \in Ats(line) : a <= f.at
    BY <2>6 DEF RealtimeInv, InOrder
  <2>8. (\A a \in Ats(line') : a \in Ats(line) \/ a = f.at) /\ Sorted(line')
    <3>1. CASE line' = line
      BY <3>1 DEF RealtimeInv, AllSorted
    <3>2. CASE line' = Append(line, f)
      BY <2>1, <2>7, <3>2, DownTyped, AppendAts DEF RealtimeInv, AllSorted
    <3> QED BY <2>3, <3>1, <3>2
  <2>9. \A k \in 1..9 : k # 2 => Held(k)' \subseteq Held(k)
    BY <2>1, <2>5, EmptyAts DEF Held
  <2>10. (\A a \in Held(2)' : a \in Held(2) \/ a = f.at) /\ Held(3)' = {}
    BY <2>1, <2>8, EmptyAts DEF Held
  <2>11. InOrder'
    BY <2>6, <2>9, <2>10, Moved DEF RealtimeInv
  <2> QED BY <2>1, <2>5, <2>8, <2>11, EmptyAts DEF RealtimeInv, AllSorted, upstream, sinkVars
<1> QED BY <1>1, <1>2, <1>3 DEF PacerSteps

\* A step of the bridge's.
LEMMA BridgeInv == ASSUME RealtimeInv, BridgeSteps PROVE RealtimeInv'
<1> DEFINE f == Head(line)
<1>1. /\ f \in RTFrame /\ line # <<>> /\ line' = Tail(line)
      /\ line' \in Seq(RTFrame) /\ Len(line') <= LineSize
      /\ UNCHANGED <<upstream, frames, pacerVars>>
      /\ callOver' \in BOOLEAN
      /\ interrupted' = interrupted \/ interrupted' = f.at
  <2>1. line # <<>> /\ line' = Tail(line)
    BY DEF BridgeSteps, BridgePlays, BridgeInterrupts
  <2>2. f \in RTFrame /\ line' \in Seq(RTFrame) /\ Len(line') <= LineSize
    BY <2>1, DownTyped, HeadTailProperties
  <2>3. UNCHANGED <<upstream, frames, pacerVars>> /\ callOver' \in BOOLEAN
    BY DownTyped DEF BridgeSteps, BridgePlays, BridgeInterrupts
  <2>4. interrupted' = interrupted \/ interrupted' = f.at
    BY DEF BridgeSteps, BridgePlays, BridgeInterrupts
  <2> QED BY <2>1, <2>2, <2>3, <2>4
<1>2. /\ Ats(line') \subseteq Ats(line) /\ f.at \in Ats(line)
      /\ \A a \in Ats(line') : f.at <= a
      /\ Sorted(line')
  BY <1>1, DownTyped, HeadAts, FrameCarries DEF RealtimeInv, AllSorted
<1> HIDE DEF f
<1>3. interrupted' \in Utterance
  BY <1>1, DownTyped DEF RTFrame
<1>4. RealtimeTypeOK' /\ ClientGone' /\ ~panicked' /\ WriterReports'
      /\ \A k \in {6, 7, 8, 9} : Held(k)' = Held(k)
  BY <1>1, <1>3, DownTyped, Downstream DEF pacerVars
<1>5. f.at \in Held(2) /\ (\A b \in Held(2)' : f.at <= b)
      /\ \A a \in Held(1)' : a \in Held(1) \/ a = f.at
  BY <1>1, <1>2 DEF Held
<1>6. \A k \in 1..9 : k # 1 => Held(k)' \subseteq Held(k)
  BY <1>1, <1>2, <1>4 DEF Held, pacerVars
<1>7. InOrder'
  BY <1>5, <1>6, Moved DEF RealtimeInv
<1> QED BY <1>1, <1>2, <1>4, <1>7 DEF RealtimeInv, AllSorted, upstream, sinkVars, pacerVars

-----------------------------------------------------------------------------
(* The theorems.                                                           *)

\* No step breaks the invariant.
LEMMA RealtimeStepInv == RealtimeInv /\ [RealtimeNext]_realtimeVars => RealtimeInv'
<1> SUFFICES ASSUME RealtimeInv, [RealtimeNext]_realtimeVars PROVE RealtimeInv'
  OBVIOUS
<1>1. CASE RTContextEnds
  <2>1. RealtimeTypeOK' /\ ClientGone' /\ ~panicked' /\ WriterReports'
        /\ \A k \in {6, 7, 8, 9} : Held(k)' = Held(k)
    BY <1>1, DownTyped, Downstream DEF RTContextEnds, pacerVars
  <2>2. \A k \in 1..9 : Held(k)' \subseteq Held(k)
    BY <1>1, <2>1 DEF RTContextEnds, pacerVars, Held
  <2> QED BY <1>1, <2>1, <2>2, Kept DEF RTContextEnds, RealtimeInv, AllSorted, upstream, sinkVars, pacerVars
<1>2. CASE UNCHANGED realtimeVars
  <2>1. RealtimeTypeOK' /\ ClientGone' /\ ~panicked' /\ WriterReports'
    BY <1>2 DEF realtimeVars, clientVars, sinkVars, pacerVars, RealtimeInv, RealtimeTypeOK, ClientGone,
                WriterReports, Exited
  <2>2. AtStage' = AtStage /\ AtReader' = AtReader
    BY <1>2 DEF realtimeVars, clientVars, AtStage, AtReader
  <2>3. AllSorted' /\ InOrder'
    BY <1>2, <2>2, ChainDrops DEF realtimeVars, clientVars, sinkVars, pacerVars
  <2> QED BY <2>1, <2>3 DEF RealtimeInv
<1>3. CASE Reads
  BY <1>3, ReadsInv
<1>4. CASE ReadFails \/ ClientSteps
  BY <1>4, ClientQuiet, EmitSendsInv DEF ClientSteps, Emits, Emitting
<1>5. CASE TakeVoice \/ VoiceEnds \/ AgentSteps
  BY <1>5, StageQuiet, EventsInv, EmitFrameInv DEF AgentSteps, Closing
<1>6. CASE PacerSteps \/ BridgeSteps
  BY <1>6, PacerInv, BridgeInv
<1> QED BY <1>1, <1>2, <1>3, <1>4, <1>5, <1>6 DEF RealtimeNext

\* The inductive invariant holds in every call.
THEOREM RealtimeInvariance == RealtimeSpec => []RealtimeInv
BY RealtimeInitInv, RealtimeStepInv, PTL DEF RealtimeSpec

\* No Emit sends on the sink after the stage has closed it: the client has gone
\* by then, however the call ended.
THEOREM RealtimeNeverSendsOnClosed == RealtimeSpec => []NeverSendsOnClosed
<1>1. RealtimeInv => NeverSendsOnClosed
  BY DEF RealtimeInv, NeverSendsOnClosed
<1> QED BY <1>1, RealtimeInvariance, PTL

\* Once the port was told of a barge-in it plays no audio from before it, whatever
\* the channels held and the pacer had buffered.
THEOREM RealtimeInterruptedAudioIsSilent == RealtimeSpec => InterruptedAudioIsSilent
<1>1. ASSUME RealtimeInv, BridgePlays PROVE Head(line).at >= interrupted
  <2>1. line \in Seq(RTFrame) /\ line # <<>> /\ Head(line) \in RTFrame
    BY <1>1, HeadTailProperties DEF BridgePlays, RealtimeInv, RealtimeTypeOK
  <2>2. Head(line).at \in Ats(line)
    BY <2>1, HeadAts, FrameCarries
  <2>3. Head(line).at \in Held(2) /\ interrupted \in Held(1)
    BY <2>2 DEF Held
  <2>4. interrupted <= Head(line).at
    BY <1>1, <2>3 DEF RealtimeInv, InOrder
  <2>5. interrupted \in Int /\ Head(line).at \in Int
    BY <1>1, <2>1 DEF RealtimeInv, RealtimeTypeOK, RTFrame, Utterance
  <2> QED BY <2>4, <2>5
<1>2. RealtimeInv => [BridgePlays => Head(line).at >= interrupted]_realtimeVars
  BY <1>1
<1> QED BY <1>2, RealtimeInvariance, PTL DEF InterruptedAudioIsSilent
=============================================================================

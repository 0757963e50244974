----------------------------- MODULE PersistStage -----------------------------
(***************************************************************************)
(* pkg/dialog/cascaded/persist_stage.go: the last stage of a call's        *)
(* pipeline makes records of what was said.  An utterance of the caller    *)
(* starts a turn, the reply's pieces are merged into its text, and the end *)
(* of the reply, the next utterance or the end of the input makes the      *)
(* record.  The cascaded engine sends a reply in pieces; a realtime vendor *)
(* may repeat the whole reply at its end.                                  *)
(***************************************************************************)
EXTENDS Naturals, Sequences

CONSTANTS Pieces,     \* the pieces replies come in: sequences of letters
          MaxFrames   \* bound: frames the stage takes

Seqs == INSTANCE SequencesExt

Letters == UNION {{p[i] : i \in DOMAIN p} : p \in Pieces}

ASSUME PersistAssumption == /\ MaxFrames \in Nat
                            /\ Pieces \subseteq Seq(Letters) \ {<<>>}

VARIABLES
  acc,      \* the accumulator: in use, the utterance, the reply's text
  records,  \* what the persister was given
  taken,    \* frames taken
  left,     \* Run has returned, or the call was cut off
  said,     \* history: all that replies said
  reply,    \* history: what this reply said
  merged    \* history: a piece was taken for a repetition, or one was not

persistVars == <<acc, records, taken, left, said, reply, merged>>

Utterances == 0..MaxFrames  \* numbered by their frame; 0 for none

PersistTypeOK ==
  /\ acc \in [active : BOOLEAN, user : Utterances, ai : Seq(Letters)]
  /\ records \in Seq([user : Utterances, ai : Seq(Letters)])
  /\ taken \in 0..MaxFrames
  /\ left \in {"no", "closed", "cut"}
  /\ said \in Seq(Letters) /\ reply \in Seq(Letters) /\ merged \in BOOLEAN
  /\ ~acc.active => acc.ai = <<>>

Empty == [active |-> FALSE, user |-> 0, ai |-> <<>>]

PersistInit ==
  /\ acc = Empty /\ records = <<>> /\ taken = 0 /\ left = "no"
  /\ said = <<>> /\ reply = <<>> /\ merged = FALSE

-----------------------------------------------------------------------------

\* appendAIText.
Merge(text, piece) ==
  CASE Seqs!IsPrefix(text, piece) -> piece
    [] ~Seqs!IsPrefix(text, piece) /\ Seqs!IsPrefix(piece, text) -> text
    [] OTHER -> text \o piece

Flushed == IF acc.active THEN Append(records, [user |-> acc.user, ai |-> acc.ai]) ELSE records

TakeFrame ==
  /\ left = "no" /\ taken < MaxFrames
  /\ taken' = taken + 1
  /\ UNCHANGED left

Started == [active |-> TRUE, user |-> taken', ai |-> <<>>]

\* A slip: an utterance always starts a new accumulator.
TextFinalResets ==
  /\ TakeFrame
  /\ acc' = Started
  /\ UNCHANGED <<records, said, reply, merged>>

\* An utterance that nothing was replied to yet is corrected in place.
TextFinal ==
  /\ TakeFrame
  /\ acc' = Started
  /\ records' = IF acc.active /\ acc.ai = <<>> THEN records ELSE Flushed
  /\ UNCHANGED <<said, reply, merged>>

\* A reply without an utterance, such as a welcome, is recorded as well.
AIText(piece) ==
  /\ TakeFrame
  /\ acc' = [acc EXCEPT !.active = TRUE, !.ai = Merge(acc.ai, piece)]
  /\ UNCHANGED records

Says(piece) ==
  /\ AIText(piece)
  /\ said' = said \o piece /\ reply' = reply \o piece
  /\ merged' = (merged \/ acc'.ai # acc.ai \o piece)

Repeats ==
  /\ reply # <<>> /\ AIText(reply)
  /\ merged' = (merged \/ acc'.ai # acc.ai)
  /\ UNCHANGED <<said, reply>>

AITextDone ==
  /\ TakeFrame
  /\ records' = Flushed /\ acc' = Empty
  /\ reply' = <<>>
  /\ UNCHANGED <<said, merged>>

InputEnds ==
  /\ left = "no"
  /\ left' = "closed"
  /\ IF acc.ai # <<>> THEN records' = Flushed /\ acc' = Empty ELSE UNCHANGED <<records, acc>>
  /\ UNCHANGED <<taken, said, reply, merged>>

\* A turn that is under way when the call is cut off is not recorded.
CutOff ==
  /\ left = "no"
  /\ left' = "cut"
  /\ UNCHANGED <<acc, records, taken, said, reply, merged>>

PersistNext == \/ TextFinal \/ Repeats \/ AITextDone \/ InputEnds \/ CutOff
               \/ \E piece \in Pieces : Says(piece)

PersistSpec == PersistInit /\ [][PersistNext]_persistVars

-----------------------------------------------------------------------------
(* Properties.                                                             *)

Recorded == Seqs!FlattenSeq([i \in DOMAIN records |-> records[i].ai])

\* Nothing a reply said is missing from the records and the accumulator, or
\* there twice, however utterances and the ends of replies fall between its
\* pieces; except where a piece looked like a repetition, or a repetition did
\* not, since an utterance had cut the reply in two.
EverythingRecorded == ~merged => Recorded \o acc.ai = said

=============================================================================

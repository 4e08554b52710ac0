------------------------------- MODULE Decoder -------------------------------
(***************************************************************************)
(* cortex/constrained_decoder.py: the prefix grammar of SCL records, the   *)
(* mask it puts over the vocabulary before each token, and a generation    *)
(* under that mask.  A text is a sequence of characters, a token a text    *)
(* that is not empty.                                                      *)
(***************************************************************************)
EXTENDS Integers, Sequences, FiniteSets, SequencesExt

CONSTANTS
  ANCHORS,            \* the anchors, each a text
  ANCHOR_RELATIONS,   \* [ANCHORS -> sets of texts]
  REQUIRED_FIELDS,    \* the pairs <<anchor, relation>> that need fields
  Vocabulary,         \* the tokens of the tokenizer
  MaxNewTokens        \* bound: max_new_tokens

\* No word of W goes on where another ends.
PrefixFree(W) == \A v, w \in W : IsPrefix(v, w) => v = w

Characters == UNION {{t[i] : i \in DOMAIN t} : t \in ANCHORS \cup UNION {ANCHOR_RELATIONS[a] : a \in ANCHORS} \cup Vocabulary}
Words == Seq(Characters) \ {<<>>}

ASSUME DecoderAssumption ==
  /\ ANCHORS \cup Vocabulary \subseteq Words /\ MaxNewTokens \in Nat
  /\ ANCHORS # {} /\ PrefixFree(ANCHORS) /\ \A a \in ANCHORS : a[1] = "@"
  /\ \A a \in ANCHORS : /\ ANCHOR_RELATIONS[a] \subseteq Words
                        /\ ANCHOR_RELATIONS[a] # {} /\ PrefixFree(ANCHOR_RELATIONS[a])

VARIABLES
  generated,   \* the text generated so far
  tokens,      \* how many tokens that took
  promptKept,  \* the decoded input still begins with the prompt
  ended        \* "no", "eos", "length" or "raised"

decoderVars == <<generated, tokens, promptKept, ended>>

-----------------------------------------------------------------------------
ArrowSign == "→"
Arrow == <<" ", ArrowSign, " ">>
ArrowAscii == <<" ", "-", ">", " ">>

\* lstrip
Stripped(text) ==
  LET inked == {i \in DOMAIN text : text[i] # " "} IN
  IF inked = {} THEN <<>>
  ELSE SubSeq(text, CHOOSE i \in inked : \A j \in inked : i <= j, Len(text))

Rest(text, start) == SubSeq(text, Len(start) + 1, Len(text))

Partial(state, next) == [state |-> state, next |-> next]
Error == Partial("error", {})
Raising == Partial("raises", {})

AnyCharacter == UNION {{t[i] : i \in DOMAIN t} : t \in Vocabulary}

\* _compute after the relation
FieldsState(anchor, relation, rest) ==
  IF rest = <<>>
  THEN IF <<anchor, relation>> \in REQUIRED_FIELDS
       THEN Partial("after_relation", {" "}) ELSE Partial("complete", {})
  ELSE IF IsPrefix(<<" ", "[">>, rest) \/ IsPrefix(<<"[">>, rest)
       THEN Partial("in_fields", AnyCharacter)
  ELSE IF rest = <<" ">> THEN Partial("after_relation", {"["})
  ELSE Partial("complete", {})

ContinuationsOffByOne(text, words) ==
  {w[Len(text)] : w \in {v \in words : text # <<>> /\ IsStrictPrefix(text, v)}}

\* The characters by which some of the words goes on after the text.
Continuations(text, words) == {w[Len(text) + 1] : w \in {v \in words : IsStrictPrefix(text, v)}}

\* _compute after the arrow
RelationState(anchor, rest) ==
  LET matched == {r \in ANCHOR_RELATIONS[anchor] : IsPrefix(r, rest)} IN
  IF rest = <<>> THEN Partial("after_arrow", Continuations(<<>>, ANCHOR_RELATIONS[anchor]))
  ELSE IF matched # {}
  THEN LET relation == CHOOSE r \in matched : TRUE IN FieldsState(anchor, relation, Rest(rest, relation))
  ELSE IF \E r \in ANCHOR_RELATIONS[anchor] : IsPrefix(rest, r)
  THEN Partial("in_relation", Continuations(rest, ANCHOR_RELATIONS[anchor]))
  ELSE Error

\* _compute after the anchor.  A whole ASCII arrow is looked up one character
\* past its end.
ArrowState(anchor, rest) ==
  IF rest = <<>> THEN Partial("after_anchor", {" "})
  ELSE IF IsPrefix(Arrow, rest) THEN RelationState(anchor, Rest(rest, Arrow))
  ELSE IF IsPrefix(rest, Arrow) THEN Partial("in_arrow", Continuations(rest, {Arrow}))
  ELSE IF rest = ArrowAscii THEN Raising
  ELSE IF IsPrefix(rest, ArrowAscii) THEN Partial("in_arrow", Continuations(rest, {ArrowAscii}))
  ELSE Error

Compute(partial) ==
  LET s == Stripped(partial)
      matched == {a \in ANCHORS : IsPrefix(a, s)}
  IN  IF s = <<>> THEN Partial("start", {"@"})
      ELSE IF matched # {}
      THEN LET anchor == CHOOSE a \in matched : TRUE IN ArrowState(anchor, Rest(s, anchor))
      ELSE IF \E a \in ANCHORS : IsPrefix(s, a)
      THEN Partial("in_anchor", Continuations(s, ANCHORS))
      ELSE Error

\* valid_token_ids, without the end-of-sequence token, which every state admits.
ValidTokens(partial) ==
  CASE partial.state \in {"complete", "error"} -> {}
    [] partial.state = "in_fields" -> Vocabulary
    [] OTHER -> {t \in Vocabulary : t[1] \in partial.next}

-----------------------------------------------------------------------------
(* SCLLogitProcessor and SCLConstrainedGenerator.generate.  A prompt longer *)
(* than 512 tokens is truncated: what the processor decodes then does not   *)
(* begin with it and counts as generated.                                   *)

Prompt == <<"p">>

GeneratedSoFar == Compute(IF promptKept THEN generated ELSE Prompt \o generated)

DecoderInit ==
  /\ generated = <<>> /\ tokens = 0 /\ ended = "no"
  /\ promptKept \in BOOLEAN

\* One of the tokens the mask leaves is sampled.
Samples ==
  /\ ended = "no" /\ tokens < MaxNewTokens
  /\ \E t \in ValidTokens(GeneratedSoFar) : generated' = generated \o t
  /\ tokens' = tokens + 1
  /\ UNCHANGED <<promptKept, ended>>

SamplesEos ==
  /\ ended = "no" /\ GeneratedSoFar # Raising
  /\ ended' = "eos"
  /\ UNCHANGED <<generated, tokens, promptKept>>

RunsOut ==
  /\ ended = "no" /\ tokens = MaxNewTokens
  /\ ended' = "length"
  /\ UNCHANGED <<generated, tokens, promptKept>>

RaisesIndexError ==
  /\ ended = "no" /\ GeneratedSoFar = Raising
  /\ ended' = "raised"
  /\ UNCHANGED <<generated, tokens, promptKept>>

DecoderNext == Samples \/ SamplesEos \/ RunsOut \/ RaisesIndexError

DecoderSpec == DecoderInit /\ [][DecoderNext]_decoderVars

-----------------------------------------------------------------------------
(* The language, by itself: the records that scl_parser.py reads, of which   *)
(* its emit writes some.                                                   *)

Blanks(n) == [i \in 1..n |-> " "]
Arrows == {<<ArrowSign>>, <<"-", ">">>}

\* _SCL_RE, part by part: what a text may have begun with behind a relation, an
\* anchor, and from its beginning; \s* is any number of blanks.
BeginsFields(text) ==
  \E n \in 0..Len(text) :
    \/ text = Blanks(n)
    \/ /\ IsPrefix(Blanks(n) \o <<"[">>, text)
       /\ \A i \in DOMAIN text : text[i] = "]" => \A j \in (i + 1)..Len(text) : text[j] = " "

BeginsRelation(anchor, text) ==
  \E relation \in ANCHOR_RELATIONS[anchor], n \in 0..Len(text) :
    LET word == Blanks(n) \o relation IN
    IsPrefix(text, word) \/ (IsPrefix(word, text) /\ BeginsFields(Rest(text, word)))

BeginsArrow(anchor, text) ==
  \E arrow \in Arrows, n \in 0..Len(text) :
    LET word == Blanks(n) \o arrow IN
    IsPrefix(text, word) \/ (IsPrefix(word, text) /\ BeginsRelation(anchor, Rest(text, word)))

IsPrefixOfScl(text) ==
  \E a \in ANCHORS : IsPrefix(text, a) \/ (IsPrefix(a, text) /\ BeginsArrow(a, Rest(text, a)))

\* emit, given fields exactly where some are required.
Emitted(a, r) == a \o Arrow \o r \o (IF <<a, r>> \in REQUIRED_FIELDS THEN <<" ", "[">> ELSE <<>>)

IsPrefixOfEmitted(text) ==
  \E a \in ANCHORS : \E r \in ANCHOR_RELATIONS[a] :
    IsPrefix(text, Emitted(a, r)) \/ (<<a, r>> \in REQUIRED_FIELDS /\ IsPrefix(Emitted(a, r), text))

\* Wherever a generation has come to, and of the tokens of one character: what the
\* mask admits leads to the beginning of a record that the parser reads, with either
\* arrow and with or without fields, as long as no bracket was closed (behind one the
\* mask admits everything); and it keeps no pair of the algebra from being generated:
\* every record goes on as emit would write it.  (That the mask admits every record the
\* parser reads is not so: fields after a pair that requires none, and what follows
\* the ASCII arrow, it never admits.)
MaskIsTrueToScl ==
  promptKept =>
    \A t \in {v \in Vocabulary : Len(v) = 1} :
      /\ t \in ValidTokens(Compute(generated)) /\ ~Contains(generated, "]") => IsPrefixOfScl(generated \o t)
      /\ IsPrefixOfEmitted(generated \o t) => t \in ValidTokens(Compute(generated))
===============================================================================

------------------------------ MODULE Emitter ------------------------------
(***************************************************************************)
(* cortex/scl_emitter.py and the ActionInvariant of cortex/invariants.py:  *)
(* what a reply of the model turns into before the runtime parses it.      *)
(*                                                                         *)
(* A reply is [form, act, text, halting]:                                  *)
(*   "scl"     the text parses, as the record act;                         *)
(*   "mended"  it parses as act once a relation alias is replaced or       *)
(*             brackets are added (strategies 2 and 3);                    *)
(*   "text"    no strategy makes a record of it; halting says whether it   *)
(*             looks like a halt, text is what a salvaged halt would cite; *)
(*   "crash"   the model function raised.                                  *)
(* Emitted(reply) is the set of records the runtime may be handed: which   *)
(* one depends on punctuation the model abstracts from.                    *)
(***************************************************************************)
EXTENDS SclSpec

MinHaltConfidence == 70      \* _HALT_MIN_CONFIDENCE
EmitterConfidence == 90      \* min_halt_confidence

ScriptReply(act)    == [form |-> "scl", act |-> act, text |-> "", halting |-> FALSE]
MendedReply(act)    == [form |-> "mended", act |-> act, text |-> "", halting |-> FALSE]
TextReply(text, h)  == [form |-> "text", act |-> <<>>, text |-> text, halting |-> h]
CrashReply          == [form |-> "crash", act |-> <<>>, text |-> "", halting |-> FALSE]

\* The relations ActionInvariant admits: its table of @budget differs from
\* the one of scl_spec.py.
InvariantRelations(anchor) ==
  IF anchor = "budget" THEN {"check", "report"} ELSE Relations[anchor]

ActionInvariant(act) ==
  /\ act.relation \in InvariantRelations(act.anchor)
  /\ act.anchor = "halt" => Get(act.fields, "confidence", 0) >= MinHaltConfidence
  /\ IsToolCall(act) => Get(act.fields, "name", "") # ""

WithConfidence(act, c) ==
  Scl(act.anchor, act.relation,
      [k \in DOMAIN act.fields \cup {"confidence"} |->
         IF k = "confidence" THEN c ELSE act.fields[k]])

Without(act, key) ==
  Scl(act.anchor, act.relation, [k \in DOMAIN act.fields \ {key} |-> act.fields[k]])

\* ActionInvariant.repair raises the confidence of a halt; writing the record
\* out again may lose an unquoted evidence, or yield a text that does not
\* parse, in which case strategy 4 raises it in the original text.
RepairedHalts(act) ==
  {WithConfidence(act, MinHaltConfidence),
   WithConfidence(Without(act, "evidence"), MinHaltConfidence),
   WithConfidence(act, EmitterConfidence)}

IntentHalt(text) ==
  Scl("halt", "answer", [status |-> "complete", confidence |-> EmitterConfidence,
                         evidence |-> text])

\* A salvaged text with a bracket in it is handed on although it does not parse.
Unparseable == Scl("unparseable", "", <<>>)

FallbackHalt ==
  Scl("halt", "fail", [status |-> "failed", confidence |-> EmitterConfidence,
                       evidence |-> "model_output_unrecoverable"])

\* Strategies 5 and 6.
Salvaged(text, halting) ==
  IF halting THEN {IntentHalt(text), IntentHalt(""), Unparseable} ELSE {FallbackHalt}

Emitted(reply) ==
  CASE reply.form = "crash"  -> {FallbackHalt}
    [] reply.form = "text"   -> Salvaged(reply.text, reply.halting)
    [] reply.form = "mended" -> {reply.act}
    [] reply.form = "scl"    ->
         IF ActionInvariant(reply.act) THEN {reply.act}
         ELSE IF reply.act.anchor = "halt" THEN RepairedHalts(reply.act)
         ELSE Salvaged("rejected record", TRUE) \cup Salvaged("rejected record", FALSE)
=============================================================================

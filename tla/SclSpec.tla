------------------------------ MODULE SclSpec ------------------------------
(***************************************************************************)
(* The finite algebra of SCL control records: which anchor/relation pairs  *)
(* exist, what a parsed record looks like, and what it costs.              *)
(*                                                                         *)
(* A record is [anchor, relation, fields]; fields is a function from field *)
(* names to values, so that Get(fields, k, d) reads it the way             *)
(* action.fields.get(k, d) does.  Confidences are percentages.             *)
(***************************************************************************)
EXTENDS Integers, Sequences

CONSTANTS
  BypassTexts,       \* field values that contain a policy-bypass pattern
  DestructiveTexts,  \* tool arguments that match a destructive pattern
  OutsidePaths       \* path spellings _is_confined refuses

Get(fields, key, default) == IF key \in DOMAIN fields THEN fields[key] ELSE default

\* dict(a) followed by update(b): the values of b win.
Updated(a, b) ==
  [k \in DOMAIN a \cup DOMAIN b |-> IF k \in DOMAIN b THEN b[k] ELSE a[k]]

Scl(anchor, relation, fields) ==
  [anchor |-> anchor, relation |-> relation, fields |-> fields]

Relations ==
  [state  |-> {"update", "snapshot"},
   memory |-> {"read", "write", "compress", "ignore"},
   budget |-> {"spend", "check", "snapshot"},
   verify |-> {"run", "assert"},
   tool   |-> {"call", "deny"},
   repair |-> {"rollback", "patch", "diagnose"},
   halt   |-> {"answer", "fail", "defer"}]

\* The anchors, without their leading "@".
Anchors == DOMAIN Relations

IsPair(action) ==
  /\ action.anchor \in Anchors
  /\ action.relation \in Relations[action.anchor]

Is(action, anchor, relation) == action.anchor = anchor /\ action.relation = relation

\* The texts among the values of a record; a memory value is a sequence of words.
FieldTexts(fields) ==
  {fields[k] : k \in DOMAIN fields \ {"confidence", "units", "max_tokens", "value"}}
    \cup {Get(fields, "value", <<>>)[i] : i \in DOMAIN Get(fields, "value", <<>>)}

HaltStatuses == {"complete", "blocked", "budget_exhausted", "insufficient_evidence", "failed"}

\* What the JSON schema requires of a record, as far as the runtime's control
\* depends on it: fields it does not name are admitted unchecked.
SchemaValid(action) ==
  /\ IsPair(action)
  /\ action.anchor = "halt" => Get(action.fields, "status", "") \in HaltStatuses
  /\ action.anchor = "verify" => {"type", "target"} \subseteq DOMAIN action.fields
  /\ action.anchor = "budget" => Get(action.fields, "units", 0) \in Nat

---------------------------------------------------------------------------
(* Costs. *)

\* verifier._action_cost: the pairs its table does not list cost 1.
ActionCost(action) ==
  LET a == action.anchor
      r == action.relation
  IN  CASE a = "memory" /\ r = "compress" -> 2
        [] a = "memory" /\ r = "ignore"   -> 0
        [] a = "state"  /\ r = "snapshot" -> 0
        [] a = "budget" /\ r \in {"check", "spend"} -> 0
        [] a = "repair" /\ r = "rollback" -> 3
        [] a = "repair" /\ r = "patch"    -> 5
        [] a = "halt"                     -> 0
        [] OTHER                          -> 1

Tool(name, tier, cost, capability) ==
  [name |-> name, tier |-> tier, cost |-> cost, capability |-> capability]

ToolSpecs ==
  {Tool("shell.readonly", "read_only", 1, "workspace.read"),
   Tool("shell.patch", "write_limited", 5, "workspace.patch"),
   Tool("pytest", "verify", 3, "verify.tests"),
   Tool("git.diff", "read_only", 1, "repo.diff"),
   Tool("memory.read", "memory", 1, "memory.read"),
   Tool("memory.write", "memory", 1, "memory.write"),
   Tool("scl.parse", "read_only", 1, "scl.parse"),
   Tool("scl.emit", "read_only", 1, "scl.emit"),
   Tool("budget.check", "read_only", 0, "budget.read")}

\* Registered without a handler: execute() only reports success.
UnhandledTools == {"memory.read", "memory.write", "budget.check"}

ToolSpec(name) == {t \in ToolSpecs : t.name = name}

\* An unknown tool has the cost of _missing_spec.
ToolCost(name) == IF ToolSpec(name) = {} THEN 0
                  ELSE (CHOOSE t \in ToolSpecs : t.name = name).cost

IsToolCall(action) == Is(action, "tool", "call")

\* What the loop charges for an action (runtime.run, the debit).
Cost(action) ==
  IF IsToolCall(action) THEN ToolCost(Get(action.fields, "name", ""))
                        ELSE ActionCost(action)
=============================================================================

------------------------------- MODULE Gates -------------------------------
(***************************************************************************)
(* The gates a parsed record passes before it has an effect: policy.py,    *)
(* the pre-execution half of verifier.py, the confidence gate of           *)
(* calibration.py, and the verifier's final check of a halt.  They read    *)
(* the budget and the runtime's state dict and change nothing.             *)
(***************************************************************************)
EXTENDS Budget, Emitter

CONSTANT
  Calibrated   \* [0..100 -> 0..100]: calibrate_confidence of the stored scaler

MaxGap == 30   \* max_gap

---------------------------------------------------------------------------
(* policy.py *)

NameOf(act) == Get(act.fields, "name", "")

\* The conditions before the last: a tool call is registered and declared with
\* its own tier (and capability, when one is stated), and can be afforded.
PolicyAdmits(act) ==
  /\ IsPair(act)
  /\ IsToolCall(act) =>
       \E t \in ToolSpec(NameOf(act)) :
         /\ Get(act.fields, "risk", "") = t.tier
         /\ Get(act.fields, "capability", "") \in {"", t.capability}
  /\ CanAfford(Cost(act))

\* A bypass pattern: in the arguments of a tool call, in any field otherwise.
Bypasses(act) ==
  IF IsToolCall(act) THEN Get(act.fields, "args", "") \in BypassTexts
                     ELSE FieldTexts(act.fields) \cap BypassTexts # {}

\* check: allowed, and denied with is_violation.
PolicyAllows(act) == PolicyAdmits(act) /\ ~Bypasses(act)
PolicyFlags(act) == PolicyAdmits(act) /\ Bypasses(act)

---------------------------------------------------------------------------
(* verifier.py *)

\* _check_tool_call: once more the registry and the budget, then the
\* arguments, and for a write the path (the target, or else the arguments).
VerifierAllowsTool(act) ==
  /\ ToolSpec(NameOf(act)) # {}
  /\ Get(act.fields, "risk", "") # ""
  /\ \A t \in ToolSpec(NameOf(act)) :
       Get(act.fields, "capability", "") \in {"", t.capability}
  /\ Get(act.fields, "args", "") \notin DestructiveTexts
  /\ Get(act.fields, "risk", "") = "write_limited" =>
       Get(act.fields, "target", Get(act.fields, "args", "")) \notin OutsidePaths
  /\ CanAfford(ToolCost(NameOf(act)))

\* check_action
VerifierAllows(act) ==
  IF IsToolCall(act) THEN VerifierAllowsTool(act)
  ELSE /\ IsPair(act)
       /\ CanAfford(ActionCost(act))
       /\ Is(act, "halt", "answer") => Get(act.fields, "evidence", "") # ""

---------------------------------------------------------------------------
(* calibration.py: the runtime passes 0.7 when a halt states no confidence. *)

Admissible(act) ==
  LET stated == Get(act.fields, "confidence", MinHaltConfidence)
      gap    == stated - Calibrated[stated]
  IN  stated >= MinHaltConfidence /\ gap <= MaxGap /\ -gap <= MaxGap

---------------------------------------------------------------------------
(* verifier.final_check.  The state dict is a function from the keys it has. *)

FinalCheckTrustingState(act, state, provenance, linked) ==
  \/ act.relation \in {"fail", "defer"}
  \/ /\ Get(act.fields, "status", "") = "complete"
     /\ Get(act.fields, "confidence", 0) >= MinHaltConfidence
     /\ Get(act.fields, "evidence", "") # ""
     /\ Get(act.fields, "evidence_ref", "") # "" =>
          \/ act.fields.evidence_ref \in provenance
          \/ act.fields.evidence_ref = Get(state, "latest_evidence_ref", "")

\* provenance is the evidence_provenance map, or {} when the state has none.
\* linked is whether the evidence shares a word with the verified evidence.
FinalCheck(act, state, provenance, linked) ==
  \/ act.relation \in {"fail", "defer"}
  \/ /\ Get(act.fields, "status", "") = "complete"
     /\ Get(act.fields, "confidence", 0) >= MinHaltConfidence
     /\ Get(act.fields, "evidence", "") # ""
     /\ IF Get(act.fields, "evidence_ref", "") # ""
        THEN act.fields.evidence_ref \in provenance
        ELSE /\ Get(state, "verified_evidence", "") # ""
             /\ Get(state, "last_verify", "") = "passed"
             => linked
=============================================================================

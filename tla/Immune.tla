-------------------------------- MODULE Immune --------------------------------
(***************************************************************************)
(* cortex/immune.py and the RiskClassifier of cortex/specialists.py: what  *)
(* a scan makes of a text, of the status file of process 1, of the last    *)
(* report of the prophet and of the ledger of refusals.  A text is the set *)
(* of the patterns it matches.  The scan of the oracle's boundary asks     *)
(* LocalMind a fixed question, whose answer never drifts.                  *)
(***************************************************************************)
EXTENDS Integers, FiniteSets, FiniteSetsExt

Severity ==
  [hidden_action |-> 35, authority_escalation |-> 30, credential_risk |-> 40,
   self_persistence |-> 45, divinity_inflation |-> 25, irreversible_action |-> 45,
   material_tool_use |-> 20, prophet_failure |-> 50, pid_child_missing |-> 45,
   pid_child_stopped |-> 45, ledger_unwritable |-> 60, memory_poisoning |-> 35,
   repeated_refusal |-> 25, oracle_boundary_drift |-> 50]

REQUIRED_CHILDREN ==
  {"web", "guardian", "scribe", "oracle", "prophet", "memory", "tool", "planner",
   "deliberator", "immune", "repo", "patch", "build", "deploy"}

\* child_specs_for_profile: what process 1 supervises.
FULL_CHILDREN == REQUIRED_CHILDREN
COMPACT_CHILD_NAMES == {"web", "guardian", "scribe", "oracle", "memory", "immune"}
TINY_CHILD_NAMES == {"web"}

ChildrenOf(profile) ==
  CASE profile = "compact" -> COMPACT_CHILD_NAMES [] profile = "tiny" -> TINY_CHILD_NAMES [] OTHER -> FULL_CHILDREN

\* The words of a text the scan looks for.
Risks == {"hidden_action", "authority_escalation", "credential_risk", "self_persistence",
          "divinity_inflation", "irreversible_action", "memory_poisoning"}

Antigen(kind, detail) == [kind |-> kind, detail |-> detail]

-----------------------------------------------------------------------------
(* A JSON file that decides something: absent, whole, or truncated by a     *)
(* write_text that has not yet written.                                     *)

Absent == [text |-> "absent"]
Torn == [text |-> "torn"]
Status(children, running) == [text |-> "whole", children |-> children, running |-> running]
Report(status) == [text |-> "whole", status |-> status]

\* _scan_runtime: a status file that cannot be read counts as one missing child,
\* a report that cannot be read as a failure of the prophet.
ChildAntigens(pid1) ==
  CASE pid1.text = "absent" -> {}
    [] pid1.text = "torn"   -> {Antigen("pid_child_missing", "no json")}
    [] OTHER ->
         {Antigen("pid_child_missing", c) : c \in REQUIRED_CHILDREN \ pid1.children}
         \cup {Antigen("pid_child_stopped", c) :
                 c \in (REQUIRED_CHILDREN \cap pid1.children) \ pid1.running}

ProphetAntigens(prophet) ==
  IF prophet.text = "torn" \/ prophet = Report("fail") THEN {Antigen("prophet_failure", "latest.json")} ELSE {}

\* _scan_ledger: five of the last ten refusals, that is of all there ever were.
RefusalAntigens(refusals) ==
  IF refusals >= 5 THEN {Antigen("repeated_refusal", "refusals.jsonl")} ELSE {}

Antigens(risks, pid1, prophet, refusals) ==
  {Antigen(k, "task") : k \in risks}
  \cup ChildAntigens(pid1) \cup ProphetAntigens(prophet) \cup RefusalAntigens(refusals)

Total(antigens) == MapThenSumSet(LAMBDA a : Severity[a.kind], antigens)

Score(antigens) == IF Total(antigens) > 100 THEN 100 ELSE Total(antigens)

StateEager(score) ==
  CASE score < 20 -> "healthy" [] score \in 20..49 -> "watch" [] score \in 50..75 -> "inflamed"
    [] OTHER -> "quarantine"

State(score) ==
  CASE score <= 20 -> "healthy" [] score \in 21..50 -> "watch" [] score \in 51..75 -> "inflamed"
    [] OTHER -> "quarantine"

Scan(risks, pid1, prophet, refusals) == State(Score(Antigens(risks, pid1, prophet, refusals)))

-----------------------------------------------------------------------------
(* ProphetService._check_pid1; the other four checks are taken to pass.     *)

Pid1Check(pid1) ==
  pid1.text = "whole" /\ REQUIRED_CHILDREN \subseteq pid1.children \cap pid1.running

Evaluate(pid1) == IF Pid1Check(pid1) THEN "pass" ELSE "fail"
===============================================================================

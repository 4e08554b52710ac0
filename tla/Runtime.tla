------------------------------ MODULE Runtime ------------------------------
(***************************************************************************)
(* cortex/runtime.py: the loop of one task, composed of the budget, the    *)
(* gates, the emitter, the memory and the rollback manager.                *)
(*                                                                         *)
(* pc says how far the current iteration has come:                         *)
(*   "top" -> "model" -> "policy" -> "verify" -> "halt" or "execute"       *)
(*   -> "debit" -> "settle" -> "top" ... -> "done"                         *)
(* One action is one stretch of run() in which nothing else can intervene: *)
(* the wall clock may pass its limit, and an audit append may fail,        *)
(* between any two of them.  The replies of the model, the outcomes of the *)
(* tools and the words that link a halt to its evidence are nondeterminate.*)
(***************************************************************************)
EXTENDS Gates, Rollback, Memory

CONSTANTS
  Replies,       \* what the model may answer
  InitialState,  \* Task.initial_state with its defaults
  SinkReliable   \* FALSE: an append to the audit sink may fail, unnoticed

DefaultMaxSteps == 30   \* MAX_STEPS
HaltPenalty == 10

\* The state dict holds the evidence_provenance map by reference: every copy
\* of the dict made after the map was created shares it.
MapRef == "the provenance map"

ASSUME RuntimeAssumption ==
  /\ SinkReliable \in BOOLEAN
  /\ PenaltyUnits = HaltPenalty
  /\ \A r \in Replies : /\ r.form \in {"scl", "mended", "text", "crash"}
                        /\ r.form \in {"scl", "mended"} =>
                             /\ SchemaValid(r.act)
                             /\ r.act.anchor = "memory" => r.act \in MemoryActions
                             /\ r.act.anchor \in {"tool", "repair"} =>
                                  Get(r.act.fields, "target", "") \in PathTexts \cup {""}

VARIABLES
  pc,
  step,        \* the loop variable
  action,      \* the record in hand
  exec,        \* the execution result: [success, error]
  state,       \* the state dict
  provenance,  \* the keys of the map MapRef denotes
  context,     \* what the step record keeps of the prompt's state
  trajectory,  \* traj.steps
  audit,       \* the lines of ledger/audit.jsonl
  taskRow,     \* the row of the task in the tasks table
  rows,        \* the rows of the task in the trajectories table
  result,      \* RuntimeResult.status; "running", or "raised" out of run()
  stepsTaken   \* RuntimeResult.steps_taken

loopVars == <<pc, step, action, exec, context>>
dictVars == <<state, provenance>>
recordVars == <<trajectory, audit, rows>>
outcomeVars == <<taskRow, result, stepsTaken>>
effectVars == <<budgetVars, rollbackVars, memoryVars>>
vars == <<loopVars, dictVars, recordVars, outcomeVars, effectVars>>

Nothing == Scl("", "", <<>>)

RuntimeInit ==
  /\ BudgetInit /\ RollbackInit /\ MemoryInit
  /\ pc = "top" /\ step = 0 /\ action = Nothing
  /\ exec = [success |-> FALSE, error |-> FALSE]
  /\ state = InitialState /\ provenance = {}
  /\ context = [map |-> FALSE, seen |-> {}]
  /\ trajectory = <<>> /\ audit = <<>> /\ rows = <<>>
  /\ taskRow = [status |-> "running", steps |-> 0]
  /\ result = "running" /\ stepsTaken = 0

---------------------------------------------------------------------------
(* Records. *)

AuditedNextStep(event) ==
  \E written \in {TRUE} \cup {SinkReliable} :
    audit' = IF written THEN Append(audit, [step |-> step + 1, event |-> event]) ELSE audit

\* _audit: a failure to append is swallowed.
Audited(event) ==
  \E written \in {TRUE} \cup {SinkReliable} :
    audit' = IF written THEN Append(audit, [step |-> step, event |-> event]) ELSE audit

\* The record of the current step enters the trajectory.
Logged(outcome, violation, ref) ==
  trajectory' = Append(trajectory, [outcome |-> outcome, violation |-> violation,
                                    context |-> context, ref |-> ref])

\* The step ends without an effect; run() continues with the next one.
Deny(outcome, event, violation) ==
  /\ Logged(outcome, violation, "")
  /\ Audited(event)
  /\ pc' = "top" /\ step' = step + 1
  /\ UNCHANGED <<action, exec, context, dictVars, rows, outcomeVars,
                 rollbackVars, memoryVars>>

ReturnStep(status, steps) == pc' = "done" /\ result' = status /\ stepsTaken' = step

Return(status, steps) == pc' = "done" /\ result' = status /\ stepsTaken' = steps

\* An exception nothing in run() catches: no record of the step is kept.
Raise ==
  /\ Return("raised", stepsTaken)
  /\ UNCHANGED <<step, action, exec, context, dictVars, recordVars, taskRow>>

---------------------------------------------------------------------------
(* The head of the loop. *)

MaxStepsReached ==
  /\ pc = "top" /\ step = MaxSteps
  /\ Return("max_steps", DefaultMaxSteps)
  /\ taskRow' = [status |-> "max_steps", steps |-> DefaultMaxSteps]
  /\ UNCHANGED <<step, action, exec, context, dictVars, recordVars, effectVars>>

BudgetExhausted ==
  /\ pc = "top" /\ step < MaxSteps /\ IsExhausted
  /\ Return("budget_exhausted", step)
  /\ UNCHANGED <<step, action, exec, context, dictVars, recordVars, taskRow, effectVars>>

BeginStep ==
  /\ pc = "top" /\ step < MaxSteps /\ ~IsExhausted
  /\ DebitStep
  /\ pc' = "model"
  /\ UNCHANGED <<step, action, exec, context, dictVars, recordVars, outcomeVars,
                 rollbackVars, memoryVars>>

HasMap(dict) == Get(dict, "evidence_provenance", "") = MapRef

\* The model is called, its reply mended, and the proposal put on record with
\* the prompt's state.
Propose ==
  /\ pc = "model"
  /\ \E r \in Replies : \E a \in Emitted(r) : action' = a
  /\ context' = [map |-> HasMap(state), seen |-> IF HasMap(state) THEN provenance ELSE {}]
  /\ Audited("action_proposed")
  /\ pc' = "policy"
  /\ UNCHANGED <<step, exec, dictVars, trajectory, rows, outcomeVars, effectVars>>

---------------------------------------------------------------------------
(* The gates. *)

Parsed == action # Unparseable

DenyParse ==
  /\ pc = "policy" /\ ~Parsed
  /\ Deny("denied_parse", "parse_denied", FALSE)
  /\ UNCHANGED budgetVars

DenyPolicy ==
  /\ pc = "policy" /\ Parsed /\ ~PolicyAllows(action)
  /\ Deny("denied_policy", "policy_denied", PolicyFlags(action))
  /\ UNCHANGED budgetVars

PassPolicy ==
  /\ pc = "policy" /\ Parsed /\ PolicyAllows(action)
  /\ pc' = "verify"
  /\ UNCHANGED <<step, action, exec, context, dictVars, recordVars, outcomeVars, effectVars>>

DenyVerify ==
  /\ pc = "verify" /\ ~VerifierAllows(action)
  /\ Deny("denied_verify", "verify_denied", FALSE)
  /\ UNCHANGED budgetVars

PassVerify ==
  /\ pc = "verify" /\ VerifierAllows(action)
  /\ pc' = IF action.anchor = "halt" THEN "halt" ELSE "execute"
  /\ UNCHANGED <<step, action, exec, context, dictVars, recordVars, outcomeVars, effectVars>>

---------------------------------------------------------------------------
(* Halts. *)

HaltOutcome ==
  [complete |-> "halted_complete", blocked |-> "halted_blocked", failed |-> "halted_failed",
   budget_exhausted |-> "halted_budget_exhausted", insufficient_evidence |-> "halted_insufficient_evidence"]

HaltPasses(linked) ==
  FinalCheck(action, state, IF HasMap(state) THEN provenance ELSE {}, linked)

DenyCalibrationRetries == pc = "halt" /\ ~Admissible(action) /\ UNCHANGED vars

DenyCalibration ==
  /\ pc = "halt" /\ ~Admissible(action)
  /\ Deny("denied_calibration", "halt_calibration_denied", FALSE)
  /\ UNCHANGED budgetVars

AcceptHalt ==
  /\ pc = "halt" /\ Admissible(action)
  /\ \E linked \in BOOLEAN : HaltPasses(linked)
  /\ Logged(HaltOutcome[action.fields.status], FALSE, "")
  /\ Audited("halt_accepted")
  /\ rows' = Append(rows, [step |-> step, outcome |-> "success"])
  /\ taskRow' = [status |-> "success", steps |-> step + 1]
  /\ Return("success", step + 1)
  /\ UNCHANGED <<step, action, exec, context, dictVars, effectVars>>

RejectHalt ==
  /\ pc = "halt" /\ Admissible(action)
  /\ \E linked \in BOOLEAN : ~HaltPasses(linked)
  /\ ApplyPenalty(HaltPenalty)
  /\ Deny("denied_verify", "halt_denied", FALSE)

---------------------------------------------------------------------------
(* Execution: the snapshot before a mutation, then the handler. *)

Outcome(success, error) == [success |-> success, error |-> error]
Succeeds == Outcome(TRUE, FALSE)
Fails == Outcome(FALSE, TRUE)
FailsSilently == Outcome(FALSE, FALSE)   \* a non-zero exit that printed no error

Target == Get(action.fields, "target", "")
Artifact == Get(action.fields, "artifact", "")

TakesSnapshot ==
  /\ \/ IsToolCall(action) /\ NameOf(action) = "shell.patch"
     \/ Is(action, "repair", "patch")
  /\ Target # ""

\* What execute() may report for a registered tool.
ToolOutcomes(name) ==
  CASE name \in UnhandledTools -> {Succeeds}
    [] name \in {"shell.readonly", "shell.patch", "git.diff"} -> {Succeeds, Fails, FailsSilently}
    [] OTHER -> {Succeeds, Fails}

\* patch(1) is not run on what is outside or not there; it refuses a directory.
PatchOutcomes(target) ==
  CASE Patchable(target) -> ToolOutcomes("shell.patch")
    [] ToolPath[target] \in Directories \ Unconfined -> {FailsSilently, Fails}
    [] OTHER -> {Fails}

\* The records whose handlers run a command: no snapshot is taken for them.
RunsCommand(act) ==
  \/ IsToolCall(act) /\ NameOf(act) \in {"shell.readonly", "pytest", "git.diff"}
  \/ act.anchor = "verify" /\ Get(act.fields, "type", "") \in {"unit_test", "git_diff", "lint"}

\* Whatever the outcome the command reports, it may have changed any file.
CommandsRun ==
  /\ IF RunsCommand(action) THEN CommandRuns ELSE UNCHANGED files
  /\ UNCHANGED <<snapshots, budgetVars, memoryVars>>

Executed(outcome) ==
  /\ exec' = outcome
  /\ pc' = "debit"
  /\ UNCHANGED <<step, action, context, dictVars, recordVars, outcomeVars>>

\* read_text on a directory raises, before anything was executed.
ExecuteRaises ==
  /\ pc = "execute" /\ TakesSnapshot /\ SnapshotRaises(Target)
  /\ Raise
  /\ UNCHANGED effectVars

ExecutePatchTool ==
  /\ pc = "execute" /\ IsToolCall(action) /\ NameOf(action) = "shell.patch"
  /\ IF Target = ""
     THEN UNCHANGED rollbackVars /\ Executed(Fails)
     ELSE /\ ~SnapshotRaises(Target)
          /\ SnapshotFile(Target)
          /\ PatchTool(Target)
          /\ \E o \in PatchOutcomes(Target) : Executed(o)
  /\ UNCHANGED <<budgetVars, memoryVars>>

ExecuteTool ==
  /\ pc = "execute" /\ action.anchor = "tool" /\ NameOf(action) # "shell.patch"
  /\ \E o \in IF IsToolCall(action) THEN ToolOutcomes(NameOf(action)) ELSE {Succeeds} :
       Executed(o)
  /\ CommandsRun

ExecuteMemoryRecord ==
  /\ pc = "execute" /\ action.anchor = "memory"
  /\ ExecuteMemory(action)
  /\ Executed(IF action.relation = "compress" /\ Read(store, SourceOf(action.fields)) = <<>>
              THEN FailsSilently ELSE Succeeds)
  /\ UNCHANGED <<budgetVars, rollbackVars>>

\* @repair patch takes a snapshot and reports success; no file is changed.
ExecuteRepair ==
  /\ pc = "execute" /\ action.anchor = "repair"
  /\ \/ /\ action.relation = "patch"
        /\ IF Target = "" THEN UNCHANGED snapshots
           ELSE ~SnapshotRaises(Target) /\ SnapshotFile(Target)
        /\ UNCHANGED files
        /\ Executed(Succeeds)
     \/ /\ action.relation = "diagnose"
        /\ UNCHANGED rollbackVars
        /\ Executed(Succeeds)
     \/ /\ action.relation = "rollback" /\ HasSnapshot(Artifact)
        /\ Restore(Artifact)
        /\ UNCHANGED snapshots
        /\ Executed(Succeeds)
     \/ /\ action.relation = "rollback"   \* no snapshot, or the write failed
        /\ UNCHANGED rollbackVars
        /\ Executed(Fails)
  /\ UNCHANGED <<budgetVars, memoryVars>>

Units == Get(action.fields, "units", 0)

ExecuteBudget ==
  /\ pc = "execute" /\ action.anchor = "budget"
  /\ IF action.relation = "spend"
     THEN /\ Debit(Units, FALSE)
          /\ Executed(IF DebitRaises(Units, FALSE) THEN Fails ELSE Succeeds)
     ELSE UNCHANGED budgetVars /\ Executed(Succeeds)
  /\ UNCHANGED <<rollbackVars, memoryVars>>

\* @verify run and @verify assert are executed alike.
ExecuteVerify ==
  /\ pc = "execute" /\ action.anchor = "verify"
  /\ \E o \in {Succeeds, Fails} : Executed(o)
  /\ CommandsRun

ExecuteState ==
  /\ pc = "execute" /\ action.anchor = "state"
  /\ Executed(Succeeds)
  /\ UNCHANGED effectVars

---------------------------------------------------------------------------
(* After execution: debit, memory, state transition, postconditions. *)

DebitAction ==
  /\ pc = "debit"
  /\ Debit(Cost(action), IsToolCall(action))
  /\ IF DebitRaises(Cost(action), IsToolCall(action))
     THEN Return("budget_exhausted", step + 1)
     ELSE pc' = "settle" /\ UNCHANGED <<result, stepsTaken>>
  /\ UNCHANGED <<step, action, exec, context, dictVars, recordVars, taskRow,
                 rollbackVars, memoryVars>>

\* verifier.score: only an error text makes it fail.
Passed == ~exec.error

\* The step records evidence and its provenance.
EarnsEvidence ==
  \/ Is(action, "verify", "run") /\ Passed
  \/ action.anchor = "tool" /\ exec.success

\* The id of a provenance record is a digest of the action and its summary;
\* here, one per tool or kind of verification.
Ref == Get(action.fields, "name", Get(action.fields, "type", ""))

Evidence == [verified_evidence |-> "summary", latest_evidence_ref |-> Ref,
             evidence_provenance |-> Get(state, "evidence_provenance", MapRef)]

\* _transition_state
NextDict ==
  CASE Is(action, "state", "update")    -> Updated(state, action.fields)
    [] Is(action, "repair", "rollback") ->
         Updated(state, [phase |-> "repair", last_rollback |-> Artifact])
    [] Is(action, "repair", "patch")    -> Updated(state, [phase |-> "verify"])
    [] Is(action, "verify", "run")      ->
         Updated(state, IF Passed THEN Updated(Evidence, [last_verify |-> "passed"])
                        ELSE [last_verify |-> "failed", last_error |-> "reason"])
    [] EarnsEvidence -> Updated(state, Updated(Evidence, [last_tool |-> NameOf(action)]))
    [] OTHER -> state

\* setdefault(...)[id] = ... on an evidence_provenance that is not a map.
TransitionRaises ==
  EarnsEvidence /\ Get(state, "evidence_provenance", MapRef) # MapRef

\* check_postconditions: of its conditions on the pairs that get here, the
\* one on tool calls is not established by the transition itself.
PostconditionsHold(dict) ==
  IsToolCall(action) /\ Get(dict, "latest_evidence_ref", "") # ""
    => "evidence_provenance" \in DOMAIN dict

\* The dict is replaced by its successor; new provenance enters the map.
Transition ==
  /\ state' = NextDict
  /\ provenance' = IF EarnsEvidence THEN provenance \cup {Ref} ELSE provenance

ApplyMemory ==
  IF applying = <<>> THEN UNCHANGED memoryVars
  ELSE ApplyIfRequested(action) /\ applying' = <<>>

SettleRaises ==
  /\ pc = "settle" /\ TransitionRaises
  /\ Raise
  /\ UNCHANGED effectVars

SettleFails ==
  /\ pc = "settle" /\ ~TransitionRaises /\ ~PostconditionsHold(NextDict)
  /\ ApplyMemory /\ Transition
  /\ Logged("denied_verify", FALSE, "")
  /\ Audited("postcondition_failed")
  /\ pc' = "top" /\ step' = step + 1
  /\ UNCHANGED <<action, exec, context, rows, outcomeVars, budgetVars, rollbackVars>>

Settle ==
  /\ pc = "settle" /\ ~TransitionRaises /\ PostconditionsHold(NextDict)
  /\ ApplyMemory /\ Transition
  /\ Logged("accepted", FALSE, IF EarnsEvidence THEN Ref ELSE "")
  /\ Audited("action_accepted")
  /\ rows' = Append(rows, [step |-> step,
                           outcome |-> IF exec.success THEN "success" ELSE "error"])
  /\ pc' = "top" /\ step' = step + 1
  /\ UNCHANGED <<action, exec, context, outcomeVars, budgetVars, rollbackVars>>

---------------------------------------------------------------------------

LoopStep ==
  \/ MaxStepsReached \/ BudgetExhausted \/ BeginStep \/ Propose
  \/ DenyParse \/ DenyPolicy \/ PassPolicy \/ DenyVerify \/ PassVerify
  \/ DenyCalibration \/ AcceptHalt \/ RejectHalt
  \/ ExecuteRaises \/ ExecutePatchTool \/ ExecuteTool \/ ExecuteMemoryRecord
  \/ ExecuteRepair \/ ExecuteBudget \/ ExecuteVerify \/ ExecuteState
  \/ DebitAction \/ SettleRaises \/ SettleFails \/ Settle

TimePasses ==
  /\ pc # "done" /\ WallClock
  /\ UNCHANGED <<loopVars, dictVars, recordVars, outcomeVars, rollbackVars, memoryVars>>

RuntimeNext == LoopStep \/ TimePasses

\* run() is one thread that keeps running: the loop's next step happens.
\* Nothing obliges the clock to reach its limit.
RuntimeSpec == RuntimeInit /\ [][RuntimeNext]_vars /\ WF_vars(LoopStep)

---------------------------------------------------------------------------
(* Properties. *)

Denials == {"denied_parse", "denied_policy", "denied_verify", "denied_calibration"}

\* The debit that follows an execution is never refused: the two gates asked
\* can_afford before the effect, and nothing in between can use up what they
\* saw, an explicit @budget spend, a penalty or the clock included.  The
\* budget_exhausted return after the debit in run() is dead code.
DebitNeverRefused ==
  pc = "debit" => ~DebitRaises(Cost(action), IsToolCall(action))

\* The books of a task balance: every unit used is in the log, the limit is
\* overshot by a penalty only and by less than one penalty, and never by a
\* tool call (budget.debit, budget.apply_penalty, run()).
AccountsBalance ==
  /\ usedUnits = loggedUnits
  /\ UnitsConserved
  /\ usedUnits > MaxUnits => usedUnits < MaxUnits + HaltPenalty
  /\ usedToolCalls + remainingToolCalls = MaxToolCalls

Accepted(i) == trajectory[i].outcome \notin Denials

\* The three records of a task tell one story: the steps of the trajectory
\* that were not denied are the rows of the trajectories table, in order; a
\* returned status agrees with the last step and, where run() closes it, with
\* the row of the tasks table.
RecordsAgree ==
  /\ {rows[i].step + 1 : i \in DOMAIN rows} = {i \in DOMAIN trajectory : Accepted(i)}
  /\ \A i, j \in DOMAIN rows : i < j => rows[i].step < rows[j].step
  /\ pc # "done" => step = Len(trajectory) /\ taskRow.status = "running"
  /\ result = "success" =>
       /\ taskRow = [status |-> "success", steps |-> Len(trajectory)]
       /\ stepsTaken = Len(trajectory)
       /\ trajectory[stepsTaken].outcome \in {HaltOutcome[s] : s \in HaltStatuses}
  /\ result = "max_steps" => Len(trajectory) = MaxSteps /\ taskRow.status = "max_steps"
  /\ result = "budget_exhausted" => stepsTaken = Len(trajectory) /\ stepsTaken < MaxSteps

EventsOf(outcome) ==
  CASE outcome = "accepted"           -> {"action_accepted"}
    [] outcome = "denied_parse"       -> {"parse_denied"}
    [] outcome = "denied_policy"      -> {"policy_denied"}
    [] outcome = "denied_verify"      -> {"verify_denied", "halt_denied", "postcondition_failed"}
    [] outcome = "denied_calibration" -> {"halt_calibration_denied"}
    [] OTHER                          -> {"halt_accepted"}

\* The audit file never contradicts the trajectory, whichever appends fail: for
\* every step it has at most a proposal and after it one decision, the one the
\* trajectory records (run(), _audit).
AuditMatchesTrajectory ==
  /\ \A i \in DOMAIN audit :
       audit[i].event # "action_proposed" =>
         /\ audit[i].step + 1 \in DOMAIN trajectory
         /\ audit[i].event \in EventsOf(trajectory[audit[i].step + 1].outcome)
  /\ \A i, j \in DOMAIN audit : i < j =>
       \/ audit[i].step < audit[j].step
       \/ /\ audit[i].step = audit[j].step
          /\ audit[i].event = "action_proposed" /\ audit[j].event # "action_proposed"

\* An answer that cites an evidence_ref cites what an accepted step of this
\* task produced: no @state update, however it fills the state dict, makes a
\* reference valid (final_check, _transition_state).
CitedEvidenceWasEarned ==
  /\ result = "success" /\ Is(action, "halt", "answer")
  /\ Get(action.fields, "evidence_ref", "") # ""
  => \E i \in DOMAIN trajectory : /\ trajectory[i].outcome = "accepted"
                                  /\ trajectory[i].ref = action.fields.evidence_ref

\* No mutation is beyond repair, whatever commands change files in between: a
\* change that does not come from a command finds the file's own bytes on a stack,
\* or is a rollback to the bytes the newest snapshot was taken of
\* (_snapshot_before_mutation, rollback; the comment in run(): "rollback restores
\* the original artifact, not the post-patch contents").
MutationsCanBeUndone ==
  [][\A f \in Files : files'[f] # files[f] => RunsCommand(action) \/ CanBeUndone(f)]_rollbackVars

\* A task ends, whatever the model replies: refused, uncalibrated, premature
\* and unparseable proposals all consume steps.
Terminates == <>(pc = "done")

\* An executed action counts as paid from the moment it happens, although run()
\* debits it one statement later.
GovernedPhase ==
  CASE pc \in {"top", "debit", "settle"} -> "idle"
    [] pc = "done" -> IF result = "success" THEN "succeeded" ELSE "stopped"
    [] OTHER -> "turn"

GovernedSpent == usedUnits + IF pc = "debit" THEN Cost(action) ELSE 0

GovernedCalls == usedToolCalls + IF pc = "debit" /\ IsToolCall(action) THEN 1 ELSE 0

Governed == INSTANCE GovernedTask WITH
  phase <- GovernedPhase, turns <- usedSteps, spent <- GovernedSpent, calls <- GovernedCalls

\* The loop implements GovernedTask: whatever the interleaving of gates, halts,
\* penalties, explicit spends and the clock, an effect happens only in a turn of
\* its own, within every limit, and a task succeeds only while within them.
ImplementsGovernedTask == Governed!GovernedSpec

---------------------------------------------------------------------------
(* What docs and comments say, and the code does not do. *)

\* trajectory_logger.py: a step record holds the prompt's context, the state
\* the model saw; it is read when the trajectory is saved.
ContextIsWhatTheModelSaw ==
  \A i \in DOMAIN trajectory :
    trajectory[i].context.map => trajectory[i].context.seen = provenance
=============================================================================

----------------------------- MODULE Trajectories -----------------------------
(***************************************************************************)
(* What cortex learns from itself: the governed steps and loops behind     *)
(* /step and /loop (cortex/step_function.py, cortex/loop.py, with the      *)
(* texts of cortex/local_mind.py), the rows they leave on two ledgers, and *)
(* the requests under /learning that score, export, package and gate them  *)
(* (cortex/trajectory_score.py).  The threads share files without a lock.  *)
(***************************************************************************)
EXTENDS Immune, Sequences, SequencesExt

CONSTANTS
  Walkers,       \* requests to /step and /loop
  Goals,         \* what they may ask for, a set of Goal
  Learners,      \* requests under /learning
  Thresholds,    \* what a request may ask the gate to judge by: a set of Threshold
  OldRows,       \* the ledgers from before: a set of [steps : Nat, loops : Nat]
  BrokenExports  \* bound: exports and packagings that are broken off

\* wants: max_steps as it is asked for.  path: the context names a path.  aware:
\* the context brings an awareness_state.  loop: /loop rather than /step.
Goal == [risks : SUBSET Risks, wants : Nat, path : BOOLEAN, aware : BOOLEAN, loop : BOOLEAN]

\* min_score and min_samples, integers of the request's own.
Threshold == [score : Int, samples : Int]

ASSUME TrajectoryAssumption ==
  /\ Goals \subseteq Goal /\ Thresholds \subseteq Threshold
  /\ OldRows \subseteq [steps : Nat, loops : Nat] /\ BrokenExports \in Nat

VARIABLES
  walker,     \* [Walkers -> where it is, and what it has done so far]
  lore,       \* the patterns of risk in what is on file and can be retrieved
  rows,       \* [{"steps", "loops"} -> Seq(Row)]: ledger/steps.jsonl, loops.jsonl
  learner,    \* [Learners -> where it is, and what it has read so far]
  sft,        \* data/self_train/trajectory_sft.jsonl
  manifest,   \* data/self_train/package_manifest.json
  smudged,    \* history: exports and packagings overlapped, or one broke off
  broken

walkVars == <<walker, lore>>
learnVars == <<learner, sft, manifest, smudged, broken>>
trajectoryVars == <<walkVars, rows, learnVars>>

-----------------------------------------------------------------------------
(* LocalMind.synthesize: the text of a proposal repeats the task, some of   *)
(* what was retrieved, and a sentence of its own: "Do not execute, mutate,  *)
(* promote, or conceal anything", or "they are not infallible memory".      *)

Sentence(aware) == IF aware THEN {"divinity_inflation"} ELSE {"hidden_action"}

\* The system around is healthy: only the text decides a scan.
HealthyPid1 == Status(FULL_CHILDREN, FULL_CHILDREN)
ScanText(risks) == Scan(risks, HealthyPid1, Report("pass"), 0)

-----------------------------------------------------------------------------
(* CortexStepFunction.step *)

Row(stream, immune, next, human, hidden, stop) ==
  [stream |-> stream, immune |-> immune, next |-> next, human |-> human, hidden |-> hidden, stop |-> stop]

RequiresHuman(immune, next) == next \/ immune \in {"watch", "inflamed", "quarantine"}

Over == [at |-> "done"]
Begun(goal) ==
  [at |-> "think", goal |-> goal, index |-> 0, task |-> goal.risks, steps |-> <<>>, row |-> <<>>, stop |-> "none"]

HARD_MAX_STEPS == 10
MaxSteps(wants) ==
  LET asked == IF wants = 0 THEN 3 ELSE wants IN IF asked > HARD_MAX_STEPS THEN HARD_MAX_STEPS ELSE asked

AsksFor(w) ==
  /\ walker[w].at = "idle"
  /\ \E goal \in Goals : walker' = [walker EXCEPT ![w] = Begun(goal)]
  /\ UNCHANGED <<lore, rows, learnVars>>

\* observe, think, scan, record_proposal, next_step, remember: from then on the
\* proposal can be retrieved.  Whether "hidden" or "bypass" stands anywhere in
\* the row depends on what was retrieved.
Thinks(w) ==
  /\ walker[w].at = "think"
  /\ \E evidence \in SUBSET lore, hidden \in BOOLEAN :
       LET goal == walker[w].goal
           text == walker[w].task \cup evidence \cup Sentence(goal.aware)
           immune == ScanText(text)
           row == Row("steps", immune, goal.path, RequiresHuman(immune, goal.path), hidden, "none")
       IN  /\ walker' = [walker EXCEPT ![w].at = "persist", ![w].task = text, ![w].row = row]
           /\ lore' = lore \cup text
  /\ UNCHANGED <<rows, learnVars>>

PersistsStep(w) ==
  /\ walker[w].at = "persist"
  /\ rows' = [rows EXCEPT !["steps"] = Append(@, walker[w].row)]
  /\ walker' = IF walker[w].goal.loop
                  THEN [walker EXCEPT ![w].at = "decide", ![w].steps = Append(@, walker[w].row)]
                  ELSE [walker EXCEPT ![w] = Over]
  /\ UNCHANGED <<lore, learnVars>>

-----------------------------------------------------------------------------
(* CortexLoop.run.  A next goal quotes the proposal before it, so no goal   *)
(* comes twice, and none is derived from the third step on.                 *)

StopReason(row, index, most) ==
  CASE row.immune = "inflamed" -> "immune_inflamed"
    [] row.immune = "quarantine" -> "immune_quarantine"
    [] row.immune \notin {"inflamed", "quarantine"} /\ (row.human \/ row.next) -> "requires_human_confirmation"
    [] OTHER -> IF index >= 2 THEN "no_useful_next_goal"
                ELSE IF index + 1 = most THEN "max_steps_reached" ELSE "none"

Decides(w) ==
  /\ walker[w].at = "decide"
  /\ LET stop == StopReason(walker[w].row, walker[w].index, MaxSteps(walker[w].goal.wants))
     IN  walker' = [walker EXCEPT ![w].at = IF stop = "none" THEN "think" ELSE "report",
                                  ![w].index = @ + 1, ![w].stop = stop]
  /\ UNCHANGED <<lore, rows, learnVars>>

PersistsLoop(w) ==
  /\ walker[w].at = "report"
  /\ LET hidden == \E i \in DOMAIN walker[w].steps : walker[w].steps[i].hidden
     IN  rows' = [rows EXCEPT !["loops"] = Append(@, Row("loops", "none", FALSE, FALSE, hidden, walker[w].stop))]
  /\ walker' = [walker EXCEPT ![w] = Over]
  /\ UNCHANGED <<lore, learnVars>>

-----------------------------------------------------------------------------
(* TrajectoryScorer.  Every row step and loop write preserves may_execute,  *)
(* names a proposal and a memory: 50 + 15 + 10 + 8.                         *)

Points(condition, n) == IF condition THEN n ELSE 0

ScoreRow(row) ==
  83 + Points(row.immune \in {"healthy", "watch", "none"}, 7) + Points(row.next, 5) + Points(row.human, 5)
     + Points(row.hidden, -15) + Points(row.stop \in {"repeated_goal", "immune_inflamed", "immune_quarantine"}, -10)

AtLeast(read, score) == {i \in DOMAIN read : ScoreRow(read[i]) >= score}
SumOfScores(read) == FoldLeft(LAMBDA sum, row : sum + ScoreRow(row), 0, read)

\* round(sum / len, 2) of what was read, and 0 of nothing.
AverageAtLeast(read, score) ==
  IF read = <<>> THEN 0 >= score
  ELSE 200 * SumOfScores(read) + Len(read) >= 200 * score * Len(read)

\* round(v / total, 3) > 0.9, in thousandths, and only for ten rows or more.
Thousandths(part, total) == (2000 * part + total) \div (2 * total)

OfStream(read, stream) == Cardinality({i \in DOMAIN read : read[i].stream = stream})

DriftBlocks(read) ==
  Len(read) >= 10 /\ \E s \in {"steps", "loops"} : Thousandths(OfStream(read, s), Len(read)) > 900

\* promotion_gate; read[1] is what it scores, read[2] what drift_report reads.  Of the
\* package only whether there is a manifest counts.
Eligible(read, asked, witness) ==
  /\ Cardinality(AtLeast(read[1], asked.score)) >= asked.samples
  /\ AverageAtLeast(read[1], asked.score)
  /\ ~DriftBlocks(read[2])
  /\ manifest.there
  /\ witness

\* A learner reads the two ledgers, one after the other, once or twice.
ToRead == <<"steps", "loops", "steps", "loops">>

\* Which rows a dataset holds is left out: an export asks for a min_score of its own.
MissingFile == [there |-> FALSE, whole |-> FALSE]
OpenedFile == [there |-> TRUE, whole |-> FALSE]
WholeFile == [there |-> TRUE, whole |-> TRUE]

MissingManifest == [there |-> FALSE, whole |-> FALSE, dataset |-> MissingFile]

\* What a request is judged by that names no threshold.
Usual == [score |-> 85, samples |-> 10]

Free ==
  [at |-> "idle", asks |-> "none", asked |-> Usual, next |-> 1, read |-> <<<<>>, <<>>>>, witness |-> FALSE,
   hash |-> MissingFile]

Done == [Free EXCEPT !.at = "done"]

\* An export or a packaging that another request is in the middle of.
Overlaps(l) ==
  \E k \in Learners \ {l} : learner[k].asks \in {"export", "package"} /\ learner[k].at \notin {"idle", "done"}

AsksToExport(l) ==
  /\ learner[l].at = "idle"
  /\ learner' = [learner EXCEPT ![l].at = "read", ![l].asks = "export"]
  /\ smudged' = (smudged \/ Overlaps(l))
  /\ UNCHANGED <<walkVars, rows, sft, manifest, broken>>

AsksToPackageAnyway(l) ==
  /\ learner[l].at = "idle"
  /\ learner' = [learner EXCEPT ![l].at = "hash", ![l].asks = "package"]
  /\ smudged' = (smudged \/ Overlaps(l))
  /\ UNCHANGED <<walkVars, rows, sft, manifest, broken>>

\* package exports first if there is no dataset at all.
AsksToPackage(l) ==
  /\ learner[l].at = "idle"
  /\ learner' = [learner EXCEPT ![l].at = IF sft.there THEN "hash" ELSE "read", ![l].asks = "package"]
  /\ smudged' = (smudged \/ Overlaps(l))
  /\ UNCHANGED <<walkVars, rows, sft, manifest, broken>>

AsksTheGate(l) ==
  /\ learner[l].at = "idle"
  /\ \E witness \in BOOLEAN, asked \in Thresholds :
       learner' = [learner EXCEPT ![l].at = "read", ![l].asks = "gate", ![l].witness = witness, ![l].asked = asked]
  /\ UNCHANGED <<walkVars, rows, sft, manifest, smudged, broken>>

\* _score_stream of one ledger.
ReadsLedger(l) ==
  /\ learner[l].at = "read"
  /\ LET n == learner[l].next
         round == IF n <= 2 THEN 1 ELSE 2
         last == IF learner[l].asks = "gate" THEN n = 4 ELSE n = 2
     IN  learner' = [learner EXCEPT ![l].read[round] = @ \o rows[ToRead[n]], ![l].next = n + 1,
                       ![l].at = IF ~last THEN "read" ELSE IF learner[l].asks = "gate" THEN "judge" ELSE "open"]
  /\ UNCHANGED <<walkVars, rows, sft, manifest, smudged, broken>>

OpensDataset(l) ==
  /\ learner[l].at = "open"
  /\ sft' = OpenedFile
  /\ learner' = [learner EXCEPT ![l].at = "write"]
  /\ UNCHANGED <<walkVars, rows, manifest, smudged, broken>>

WritesDataset(l) ==
  /\ learner[l].at = "write"
  /\ sft' = WholeFile
  /\ learner' = IF learner[l].asks = "package"
                   THEN [learner EXCEPT ![l].at = "hash", ![l].read = Free.read]
                   ELSE [learner EXCEPT ![l] = Done]
  /\ UNCHANGED <<walkVars, rows, manifest, smudged, broken>>

HashesDataset(l) ==
  /\ learner[l].at = "hash"
  /\ learner' = [learner EXCEPT ![l].at = "manifest", ![l].hash = sft]
  /\ UNCHANGED <<walkVars, rows, sft, manifest, smudged, broken>>

\* write_text: the manifest is there before it is whole.
OpensManifest(l) ==
  /\ learner[l].at = "manifest"
  /\ manifest' = [there |-> TRUE, whole |-> FALSE, dataset |-> learner[l].hash]
  /\ learner' = [learner EXCEPT ![l].at = "pack"]
  /\ UNCHANGED <<walkVars, rows, sft, smudged, broken>>

WritesManifest(l) ==
  /\ learner[l].at = "pack"
  /\ manifest' = [there |-> TRUE, whole |-> TRUE, dataset |-> learner[l].hash]
  /\ learner' = [learner EXCEPT ![l] = Done]
  /\ UNCHANGED <<walkVars, rows, sft, smudged, broken>>

\* The rest of promotion_gate.
Judges(l) ==
  /\ learner[l].at = "judge"
  /\ learner' = [learner EXCEPT ![l].at = IF Eligible(learner[l].read, learner[l].asked, learner[l].witness)
                                          THEN "eligible_for_human_review" ELSE "blocked"]
  /\ UNCHANGED <<walkVars, rows, sft, manifest, smudged, broken>>

BreaksOffLearning(l) ==
  /\ broken < BrokenExports /\ learner[l].at \in {"write", "pack"}
  /\ broken' = broken + 1 /\ smudged' = TRUE
  /\ learner' = [learner EXCEPT ![l] = Done]
  /\ UNCHANGED <<walkVars, rows, sft, manifest>>

-----------------------------------------------------------------------------
\* Rows of steps and loops that nothing was wrong with.
OldStep == Row("steps", "watch", FALSE, TRUE, FALSE, "none")
OldLoop == Row("loops", "none", FALSE, FALSE, FALSE, "requires_human_confirmation")

TrajectoryInit ==
  /\ walker = [w \in Walkers |-> [at |-> "idle"]] /\ lore = {}
  /\ \E old \in OldRows :
       rows = [steps |-> [i \in 1..old.steps |-> OldStep], loops |-> [i \in 1..old.loops |-> OldLoop]]
  /\ learner = [l \in Learners |-> Free]
  /\ sft = MissingFile /\ manifest = MissingManifest /\ smudged = FALSE /\ broken = 0

TrajectoryNext ==
  \/ \E w \in Walkers : AsksFor(w) \/ Thinks(w) \/ PersistsStep(w) \/ Decides(w) \/ PersistsLoop(w)
  \/ \E l \in Learners :
       \/ AsksToExport(l) \/ AsksToPackage(l) \/ AsksTheGate(l) \/ ReadsLedger(l) \/ OpensDataset(l)
       \/ WritesDataset(l) \/ HashesDataset(l) \/ OpensManifest(l) \/ WritesManifest(l) \/ Judges(l)
       \/ BreaksOffLearning(l)

TrajectorySpec == TrajectoryInit /\ [][TrajectoryNext]_trajectoryVars

-----------------------------------------------------------------------------
\* trajectory_score.py:93-98, "objectively decide ... sample count, minimum/average
\* score, drift status, package provenance": although the gate reads the ledgers
\* twice while steps and loops go on, for whatever it lets through there is a
\* beginning of each ledger with as many good rows, and as good on average, as the
\* request asked for; from ten asked for on there are rows of both kinds; and there
\* is a whole manifest of a dataset that an export had finished, or somebody is still
\* writing one, unless exports and packagings overlapped or one was broken off.
Beginning(m, n) == SubSeq(rows["steps"], 1, m) \o SubSeq(rows["loops"], 1, n)

EligibleIsEarned ==
  \A l \in Learners : learner[l].at = "eligible_for_human_review" =>
    /\ \E m \in 0..Len(rows["steps"]), n \in 0..Len(rows["loops"]) :
         /\ Cardinality(AtLeast(Beginning(m, n), learner[l].asked.score)) >= learner[l].asked.samples
         /\ AverageAtLeast(Beginning(m, n), learner[l].asked.score)
    /\ learner[l].asked.samples >= 10 => rows["steps"] # <<>> /\ rows["loops"] # <<>>
    /\ learner[l].witness /\ manifest.there
    /\ ~smudged => \/ manifest.whole /\ manifest.dataset.whole
                   \/ \E k \in Learners : learner[k].at = "pack"
===============================================================================

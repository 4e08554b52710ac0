------------------------------ MODULE Learning ------------------------------
(***************************************************************************)
(* The learning flywheel: store.py (the step rows and the compaction log), *)
(* compactor.py (compact, compact_recursive) and learner.py (run_once,     *)
(* retrain, watch).  One learner process works while runs of the agent add *)
(* rows to the same database; it may be killed and started again anywhere, *)
(* and its training with it.                                               *)
(*                                                                         *)
(* A row is an element of Kinds: its prompt p, its quality q on a scale of *)
(* small numbers, its reward r on another, and goal, whether the           *)
(* verifiable reward found its goal reached (goal_score >= 0.5).  Ids are  *)
(* in the order of the timestamps, no two of which are alike; `fresh` are  *)
(* the rows stamped after the last entry of the compaction log.  reward.db *)
(* and the fields that only decorate an exported pair are left out.        *)
(***************************************************************************)
EXTENDS Naturals, Integers, SequencesExt

CONSTANTS
  Ids,             \* row ids
  Kinds,           \* the rows that may be written: [p, q, r, goal]
  Limit,           \* 500,000: rows that one query returns
  Near,            \* pairs of different prompts of Jaccard similarity >= 0.85
  Threshold,       \* quality_threshold
  Window,          \* 200: how many kept prompts a candidate is compared with
  CorpusSize,      \* examples in the SCL corpus
  EnoughRows,      \* 100: rows that make a first training worth while
  MaxCheckpoints,  \* bound: checkpoint directories
  Commands,        \* the ways run_once is called: <<mode, strategy>>
  CrashBound       \* bound: crashes of the learner

ASSUME LearningAssumption ==
  /\ Ids \subseteq Nat
  /\ \A k \in Kinds : k.q \in Nat /\ k.r \in Int /\ k.goal \in BOOLEAN
  /\ {Limit, Threshold, Window, CorpusSize, EnoughRows} \subseteq Nat
  /\ Near \subseteq {k.p : k \in Kinds} \X {k.p : k \in Kinds}

VARIABLES
  rows,        \* trajectories: [row id -> kind], the committed ones
  stamped,     \* rows with a timestamp whose insert is not committed: id -> kind
  fresh,       \* ids stamped after run_at of the last compaction_log entry
  outs,        \* rows_out of the last compaction_log entries, the newest last (two are read)
  train, val,  \* sft_train.jsonl and sft_val.jsonl: the rows of the database in them
  injected,    \* corpus examples in sft_train.jsonl
  sentinel,    \* data/.retrain_needed exists
  dirs,        \* models/cortex-lora-*: [index -> did its training end well]
  checkpoint,  \* data/.current_checkpoint: an index, 0 when there is none
  run,         \* the learner: [pc, mode, pass, strategy, clean, prevOut, dir, base], and
               \* as history the ids committed since its run began
  crashes

vars == <<rows, stamped, fresh, outs, train, val, injected, sentinel, dirs,
          checkpoint, run, crashes>>
database == <<rows, stamped, fresh>>
files == <<train, val, injected>>
models == <<dirs, checkpoint>>

At(pc) == run.pc = pc

Examples == Cardinality(train) + injected   \* lines of sft_train.jsonl

---------------------------------------------------------------------------
(* compactor.py *)

\* The two filters of compact: quality_score >= threshold, goal_score >= 0.5.
Passing(k) == k.q >= Threshold /\ k.goal

Similar(p, o) == p = o \/ <<p, o>> \in Near \/ <<o, p>> \in Near

\* The orders deduplicate may visit rows in: by quality, the best first.
ByQuality(R) ==
  {s \in SetToSeqs(R) : \A i, j \in 1..Len(s) : i < j => s[i].q >= s[j].q}

\* Exact duplicates first: the hash of the prompt was seen before.
SeenBefore(s, n) == \E i \in 1..(n - 1) : s[i].p = s[n].p

LastFew(s, n) == SubSeq(s, (IF Len(s) > n THEN Len(s) - n + 1 ELSE 1), Len(s))

\* deduplicate: greedy, against the last kept ones only.
NearKept(kept, k) == \E i \in DOMAIN LastFew(kept, Window) : Similar(k.p, LastFew(kept, Window)[i].p)

Deduplicate(s) ==
  LET kept[n \in 0..Len(s)] ==
        IF n = 0 THEN <<>>
        ELSE IF SeenBefore(s, n) \/ NearKept(kept[n - 1], s[n]) THEN kept[n - 1]
        ELSE Append(kept[n - 1], s[n])
  IN kept[Len(s)]

\* query: ORDER BY reward DESC, ts DESC LIMIT, whatever is filtered out afterwards.
Ahead(j, i) == rows[j].r > rows[i].r \/ (rows[j].r = rows[i].r /\ j > i)
Outranked(i) == Cardinality({j \in DOMAIN rows : Ahead(j, i)}) >= Limit
Queried == {i \in DOMAIN rows : ~Outranked(i)}

FetchedIncrementally(strategy) ==
  IF outs # <<>> THEN DOMAIN rows \cap fresh ELSE Queried

\* _fetch: the best of all rows, or every row since the last compaction when there was
\* one, which is a query of its own without a limit.
Fetched(strategy) ==
  IF strategy = "incremental" /\ outs # <<>>
    THEN DOMAIN rows \cap fresh ELSE Queried

\* int(n * 0.3 / 0.7), at most what the corpus has.
Inject(n) == LET want == (3 * n) \div 7
             IN IF want < CorpusSize THEN want ELSE CorpusSize

\* The split: the best tenth, and never less than one row, is held out.
ValSize(n) == IF n \div 10 > 1 THEN n \div 10 ELSE 1
HeldOut(s) == {s[j] : j \in {j \in DOMAIN s : j <= ValSize(Len(s))}}

\* _check_retrain, after the pass was logged: OFFSET 1 is the pass before.
Grown(current) ==
  IF Len(outs) < 2 THEN current >= EnoughRows ELSE current >= 2 * outs[1]

\* compact_recursive: rows_out shrank by less than 5 % since the pass before.
Stable(r) ==
  r.prevOut >= 0 /\ 20 * (r.prevOut - Len(r.clean)) < (IF r.prevOut > 1 THEN r.prevOut ELSE 1)

---------------------------------------------------------------------------
(* store.py: the runs of the agent *)

\* log_step: the timestamp is taken, then the row is inserted and committed.
Stamp(i, k) ==
  /\ i \notin DOMAIN rows \cup DOMAIN stamped
  /\ \A j \in Ids : j < i => j \in DOMAIN rows \cup DOMAIN stamped
  /\ stamped' = [j \in DOMAIN stamped \cup {i} |-> IF j = i THEN k ELSE stamped[j]]
  /\ fresh' = fresh \cup {i}
  /\ UNCHANGED <<rows, outs, files, sentinel, models, run, crashes>>

Commit(i) ==
  /\ i \in DOMAIN stamped
  /\ rows' = [j \in DOMAIN rows \cup {i} |-> IF j = i THEN stamped[i] ELSE rows[j]]
  /\ stamped' = [j \in DOMAIN stamped \ {i} |-> stamped[j]]
  /\ run' = (IF At("idle") THEN run ELSE [run EXCEPT !.since = @ \cup {i}])
  /\ UNCHANGED <<fresh, outs, files, sentinel, models, crashes>>

---------------------------------------------------------------------------
(* learner.py *)

Idle == [pc |-> "idle", mode |-> "watch", pass |-> 0, strategy |-> "incremental",
         clean |-> <<>>, prevOut |-> -1, dir |-> 0, base |-> 0, since |-> {}]

\* run_once, from watch (every interval) or from the command line.
Start(mode, strategy) ==
  /\ At("idle")
  /\ run' = [Idle EXCEPT !.pc = "fetch", !.mode = mode, !.strategy = strategy, !.pass = 1]
  /\ UNCHANGED <<database, outs, files, sentinel, models, crashes>>

Row(i) == [p |-> rows[i].p, q |-> rows[i].q, goal |-> rows[i].goal, id |-> i]

\* compact, up to the split: one read of the database, filtered and deduplicated.
Fetch ==
  /\ At("fetch")
  /\ \E s \in ByQuality({Row(i) : i \in {j \in Fetched(run.strategy) : Passing(rows[j])}}) :
       run' = [run EXCEPT !.pc = "write_train", !.clean = Deduplicate(s)]
  /\ UNCHANGED <<database, outs, files, sentinel, models, crashes>>

\* The files are written one by one.
WriteTrain ==
  /\ At("write_train")
  /\ train' = ToSet(run.clean) \ HeldOut(run.clean)
  /\ injected' = Inject(Len(run.clean))
  /\ run' = [run EXCEPT !.pc = "write_val"]
  /\ UNCHANGED <<database, outs, val, sentinel, models, crashes>>

WriteVal ==
  /\ At("write_val")
  /\ val' = HeldOut(run.clean)
  /\ run' = [run EXCEPT !.pc = "log"]
  /\ UNCHANGED <<database, outs, train, injected, sentinel, models, crashes>>

\* log_compaction: rows stamped before are no longer fresh.
LogCompaction ==
  /\ At("log")
  /\ outs' = LastFew(Append(outs, Len(run.clean)), 2)
  /\ fresh' = {}
  /\ run' = [run EXCEPT !.pc = "check"]
  /\ UNCHANGED <<rows, stamped, files, sentinel, models, crashes>>

CheckRetrainOnce ==
  /\ At("check")
  /\ sentinel' = (sentinel \/ Grown(Examples))
  /\ run' = [run EXCEPT !.pc = "decide", !.clean = <<>>]
  /\ UNCHANGED <<database, outs, files, models, crashes>>

\* _check_retrain and the sentinel, then the loop of compact_recursive.
CheckRetrain ==
  /\ At("check")
  /\ sentinel' = (sentinel \/ Grown(Examples))
  /\ run' = IF Stable(run) \/ run.pass = 5
              THEN [run EXCEPT !.pc = "decide", !.clean = <<>>, !.prevOut = -1]
              ELSE [run EXCEPT !.pc = "fetch", !.pass = @ + 1,
                               !.strategy = "quality_filter", !.prevOut = Len(run.clean)]
  /\ UNCHANGED <<database, outs, files, models, crashes>>

\* The rest of run_once: no signal and no force, or the signal is cleared.
Wanted == run.mode # "compact_only" /\ (sentinel \/ run.mode = "force")

NoRetrain ==
  /\ At("decide") /\ ~Wanted
  /\ run' = Idle
  /\ UNCHANGED <<database, outs, files, sentinel, models, crashes>>

ClearSentinel ==
  /\ At("decide") /\ Wanted
  /\ sentinel' = FALSE
  /\ run' = [run EXCEPT !.pc = "launch"]
  /\ UNCHANGED <<database, outs, files, models, crashes>>

CountedFromZero == Cardinality(DOMAIN dirs)

\* _next_checkpoint_dir counts the directories that exist.
NextCheckpointDir == Cardinality(DOMAIN dirs) + 1

\* retrain: from the current checkpoint into the next directory.
Launch ==
  /\ At("launch")
  /\ run' = [run EXCEPT !.pc = "training", !.dir = NextCheckpointDir, !.base = checkpoint]
  /\ UNCHANGED <<database, outs, files, sentinel, models, crashes>>

WithDir(ok) == [d \in DOMAIN dirs \cup {run.dir} |-> IF d = run.dir THEN ok ELSE dirs[d]]

TrainingEnds ==
  /\ At("training") /\ run.dir <= MaxCheckpoints
  /\ dirs' = WithDir(TRUE)
  /\ run' = [run EXCEPT !.pc = "name"]
  /\ UNCHANGED <<database, outs, files, sentinel, checkpoint, crashes>>

NameCheckpoint ==
  /\ At("name")
  /\ checkpoint' = run.dir
  /\ run' = Idle
  /\ UNCHANGED <<database, outs, files, sentinel, dirs, crashes>>

\* subprocess.run(check=True) raises; the directory may have been begun.
TrainingFails ==
  /\ At("training")
  /\ \/ dirs' = dirs
     \/ run.dir <= MaxCheckpoints /\ dirs' = WithDir(FALSE)
  /\ run' = Idle
  /\ UNCHANGED <<database, outs, files, sentinel, checkpoint, crashes>>

\* The learner is killed and started again; a file it was writing is cut short.
Crash ==
  /\ crashes < CrashBound /\ ~At("idle")
  /\ crashes' = crashes + 1
  /\ train' \in (IF At("write_train") THEN {train, {}} ELSE {train})
  /\ val' \in (IF At("write_val") THEN {val, {}} ELSE {val})
  /\ dirs' \in {dirs} \cup (IF At("training") /\ run.dir <= MaxCheckpoints THEN {WithDir(FALSE)} ELSE {})
  /\ run' = Idle
  /\ UNCHANGED <<database, outs, injected, sentinel, checkpoint>>

---------------------------------------------------------------------------
Nothing == [i \in {} |-> 0]

Init ==
  /\ rows = Nothing /\ stamped = Nothing /\ fresh = {}
  /\ outs = <<>> /\ train = {} /\ val = {} /\ injected = 0
  /\ sentinel = FALSE /\ dirs = Nothing /\ checkpoint = 0
  /\ run = Idle /\ crashes = 0

LearnerStep ==
  \/ \E c \in Commands : Start(c[1], c[2])
  \/ Fetch \/ WriteTrain \/ WriteVal \/ LogCompaction \/ CheckRetrain
  \/ NoRetrain \/ ClearSentinel \/ Launch
  \/ TrainingEnds \/ NameCheckpoint \/ TrainingFails

Next ==
  \/ \E i \in Ids, k \in Kinds : Stamp(i, k)
  \/ \E i \in Ids : Commit(i)
  \/ LearnerStep
  \/ Crash

Spec == Init /\ [][Next]_vars
FairSpec == Spec /\ WF_vars(LearnerStep)

---------------------------------------------------------------------------
\* An exported row stands for row i: its prompt is the same or near, and it is
\* at least as good.
Represented(i) ==
  \E e \in train \cup val : Similar(e.p, rows[i].p) /\ e.q >= rows[i].q

Missing(i) == i \in DOMAIN rows /\ Passing(rows[i]) /\ ~Represented(i)

\* While a training runs, the two files it reads hold what the database held
\* when the run began: no row that passes the filters is missing without a
\* better one near it, unless as many rows as a query returns are ahead of it,
\* though the first pass saw only the rows since the last compaction and rows
\* are stamped before they are committed; and no row is trained on that is
\* validated with (compact_recursive, _fetch).
TrainedOnTheDatabase ==
  At("training") =>
    /\ \A i \in Ids \ run.since : Missing(i) => Outranked(i)
    /\ train \cap val = {}

\* The checkpoint file names a directory whose training ended well, whatever
\* failed or was killed, and no training writes into a directory that is
\* there, the one it starts from least of all (retrain, _next_checkpoint_dir).
CheckpointIsTrained ==
  /\ checkpoint # 0 => checkpoint \in DOMAIN dirs /\ dirs[checkpoint]
  /\ At("training") => run.dir \notin DOMAIN dirs \cup {run.base}

\* While the learner keeps running, and as no more rows are written than there
\* are Ids: again and again every row that passes the filters is in the data
\* set, or one that stands for it is, or as many rows as a query returns are
\* ahead of it (watch).
LearnedEventually ==
  []<>(\A i \in Ids : Missing(i) => Outranked(i))
=============================================================================

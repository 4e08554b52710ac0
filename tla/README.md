# Verification of cortex-mvp in TLA+

cortex-mvp runs a language model inside a governed loop: the model proposes one
SCL record at a time (`@tool → call [...]`, `@memory → write [...]`,
`@halt → answer [...]`), and a runtime parses it, puts it through gates, executes
it, debits its cost and writes it down. Around that loop stand a process-1
supervisor, services with durable state, gated material actions (patch,
build, deploy, pay), and a flywheel that trains on what the loop leaves behind. This directory models the parts with control worth
checking, checks them with TLC, and proves what matters most with TLAPS.

Paths below are relative to `src/`.

## 1. Inventory

| Component | State | Operations | Hard behaviour | Correct when |
|---|---|---|---|---|
| runtime loop, `cortex/runtime.py` | state dict, step, trajectory, task row, result | one iteration: prompt, parse, policy, verify, calibrate, halt, snapshot, execute, debit, settle | effect before debit; several early returns and raises; shared provenance map; a model that answers anything | every effect is paid within the limits; a task ends; the records tell one story; a cited reference was earned |
| budget, `cortex/budget.py` | units, tool calls, steps, log, clock | `debit`, `debit_step`, `apply_penalty`, `can_afford`, `is_exhausted` | charge before refusal, penalty larger than the rest, wall clock between any two statements | used and remaining add up, the log explains the use, exhaustion is final |
| SCL records, `cortex/scl_spec.py`, `scl_schema.json`, `scl_parser.py` | none | validity, field lookup, cost | defaults | what the loop's gates rely on |
| emitter, `cortex/scl_emitter.py`, `invariants.py` | none | six strategies of repair | a text that mentions a tool or a result becomes a record | the result is schema-valid or unparseable |
| policy, verifier, calibration | stored temperature | `check`, `check_action`, `final_check`, confidence gate | two gates ask the budget at different moments | what passes can be paid |
| tool registry, `cortex/tool_registry.py` | files of the workspace | `execute` | a patch that fails or times out half way; commands called read-only that can write | what a patch destroys is held by a snapshot |
| rollback manager, `cortex/rollback.py` | stacks of snapshots by path | `snapshot_file`, `rollback` | several spellings of one file, directories, other encodings | originals are kept, mutations can be undone |
| governed memory, `cortex/memory.py` | entries with tier and TTL | `read`, `write`, `compress`, `apply_if_requested` | every record is applied twice | the second time changes nothing, lessons stay compact |
| trajectory logger, store, audit sink | step records, task and step rows, chained lines | append, finish | an append that fails is swallowed | the three agree |
| supervisor, `cortex/pid1.py` | children, their states, `shutting_down` | start, reap, restart, web check, terminate | signals between two steps, processes that die at any moment, failing system calls, a grace period | no process left behind, none twice, run() returns |
| forge server, `cortex_forge/server.py` | job files, `latest.json`, two ledgers | start a job in a thread, run it | threads share one temporary file; a job may end before its start is on record | the ledger is in order, the published file is whole |
| authentication, `cortex/auth.py`, `oauth.py` | failures, login states and sessions, one JSON file each | protect, note and clear failures, login, callback, logout, authorize, signed intents | threads read, change and rewrite whole files without a lock; a truncated file reads as empty | the files say who may enter and who has failed; a login serves once; nobody enters on a session that is gone |
| trust boundary, immune scan, prophet, `trust_boundary.py`, `immune.py`, `prophet.py` | append-only proposals, quarantine records, the prophet's report | record, look up in a window, validate, scan | a scan reads files others are writing | harmless text is recorded whatever single trouble there is |
| material services, `patch_service.py`, `build_loop.py`, `deploy_service.py`, `payments.py` | ledgers, the tree, deployments, checkout sessions | witness, confirm, check, act, record | external effect before the record, check and act in two commands, a second way in through the role servers | nothing unsanctioned is done; what is told was done and is on record; who is refused had nothing done; a failure that may have acted is on record |
| durable services, `memory_service.py`, `state_service.py` | JSONL files, bundles | write, forget, read, export, import | torn lines, exports beside writers, a refused import, redeployment | what was forgotten stays forgotten, what was answered stays |
| role servers, `services.py`, `service_server.py`, `ipc.py` | ledgers, permissions | check, propose, append, each with a fallback into the caller's process | a call that timed out may still be served | the ledgers tell of every request one story; every request ends |
| older supervisor, `init.py` | one state file, ledger of signals | boot, reap, fail, shutdown | commands are processes that overwrite each other's file | dependencies first, shutdown is obeyed |
| advisers, `deliberation.py`, `specialists.py`, `model_registry.py`, `oracle.py` | none | score, recommend, choose a provider | combinations of scores, words and keys | advice stays within the authority declared; offline stays here |
| step, loop and their score, `step_function.py`, `loop.py`, `trajectory_score.py` | two ledgers, dataset, manifest | step, loop, export, package, gate | the gate reads files that go on changing, by thresholds of the request | what passes the gate has earned it by those thresholds |
| learning, `store.py`, `compactor.py`, `learner.py` | rows, compaction log, two data files, sentinel, checkpoints | log, compact, retrain, watch | rows stamped before they are committed; a query that returns no more than its limit; crashes of the learner and of its training | trained on what a query of the database returns; no such row forgotten; checkpoints are trained ones |
| decoder, `constrained_decoder.py` | text so far | mask, sample | anchors that begin alike, fields that are required, two arrows | what is generated the parser can still read; no pair of the algebra is ruled out |
| health monitor, `health.py`, `invariants.py` | report, connections kept by thread | six checks, repairs, audit | files replaced under an open connection | a passed report is true |
| persona, semantic services, scripts, images | text | | | |

**Interactions.** `run()` calls everything in its own thread. It hands the budget
to policy and verifier, which only read it; `execute()` calls the tool registry, the
rollback manager and the memory; `_audit` appends to the sink and swallows every
failure; the store is written at the halt, at an accepted step and at the last
step. What can come between two statements of the loop is the clock (both
`can_afford` and `is_exhausted` read it), a failing append, and whatever the model
answers. The supervisor is one thread too, interrupted by signal handlers that
set one flag, and surrounded by processes that end when they like.
The supervisor and the loop do not share state: they meet only in that the image's
process 1 starts the web service from which tasks are run, and in `pid1.json`, which a
scan and the prophet read while process 1 rewrites it (`Material`).

The web server is a process with a thread for each request. Its threads share the
JSON files and ledgers of every service without a lock, with each other, with the
role servers and with commands on the terminal: that is where the interleavings of
`SignIn`, `Material`, `Invocation`, `Vault`, `Trajectories` and `Boot` come from. The
audit file and the database are shared by all processes that run tasks (`AuditChain`,
`Learning`, `Health`).

`PROJECT.json` lists every component with its status, and every hazard at its line.

## 2. Modules

```
Budget ──┐
SclSpec ─┼─ Emitter ── Gates ──┐
         │            Rollback ├─ Runtime ── MCRuntime, RuntimeProofs
         └─────────── Memory ──┘    │ implements GovernedTask
PID1 ── MCPID1, PID1Proofs      Forge ── MCForge, ForgeProofs
SignIn ── MCSignIn, SignInProofs
Invocation ── MCInvocation      Learning ── MCLearning

Immune ─┬─ Material ─────┐ implements GatedAction, MaterialProofs
        └─ Trajectories ─┤
AuditChain, Vault, Boot ─┼─ MCServices
Decoder, Advice, Health ─┘
RuntimeProofs: Budget, Memory, Runtime      PID1Proofs: PID1, Boot
LedgerProofs: AuditChain, Invocation        LearningProofs: Learning, Decoder
ServicesProofs: Vault, Trajectories, Health, Advice
```

| Module | Models | Correspondence |
|---|---|---|
| `Budget` | `cortex/budget.py` | counters of the same names; `Debit`, `DebitStep`, `ApplyPenalty`, `WallClock` are the methods, with `DebitRaises` for `BudgetError`. `loggedUnits` is the sum of the log. |
| `SclSpec` | `scl_spec.py`, `scl_schema.json`, the registry's table | a record is `[anchor, relation, fields]`; texts are whole words; `SchemaValid`, `Cost`, `ToolSpec`. |
| `Emitter` | `parse_and_repair`, `ActionInvariant` | `Emitted(reply)` is the set of records a reply can become; a reply is what the model's text parses to, not characters. |
| `Gates` | policy, verifier, confidence gate | `PolicyAllows`, `PolicyFlags`, `VerifierAllows`, `Admissible`, `FinalCheck`; they change nothing. |
| `Rollback` | `rollback.py`, `shell.patch`, the commands no snapshot is taken for | `files` is the disk, `snapshots` the stacks by path text; two resolutions of a path (`ToolPath`, `SnapPath`) and `FileOf`; `CommandRuns` may leave every file changed or removed. |
| `Memory` | `memory.py` | `store` is the sequence of entries in the order of their updates, which is what `read` sorts by (`Those` keeps the ones asked for); `applying` remembers a record between its two applications. |
| `Runtime` | `runtime.py` and its records | `pc` walks through one iteration; one action per outcome of every stage. |
| `GovernedTask` | what the loop promises | turns, grants, refusals, reprimands; each grant inside every limit. |
| `PID1` | `pid1.py` | one action per turn of each loop and per step of start, reap, restart, terminate; `processes` is the kernel's view. |
| `Forge` | `cortex_forge/server.py` | one action per system call of a handler or a runner; `latest` and `tmp` are names of files, so that two writers can hold one file under a name that moves. |
| `SignIn` | `auth.py`, `oauth.py`, the gates of `web.do_POST` | every read, truncation and write of the three files is an action of a request's thread; `hand` is the dict it is about to write; a failure is its number, time is `aged` and `stale`. |
| `Immune` | `immune.py`, the classifier of `specialists.py` | a text is the set of patterns it matches; `Scan` adds the weights of the source. |
| `Material` | the material routes, `trust_boundary.py`, `patch_service.py`, `build_loop.py`, `deploy_service.py`, `payments.py`, `prophet.py` | a request walks from the gate through its checks to the command, the ledger and the answer; `direct` is the way in through a role server, which has no proposal gate; `tree` is the set of changes in the work tree. |
| `GatedAction` | what the gates promise | sanctioned, acted, recorded, told, in that order, once. |
| `AuditChain` | `audit_sink.py` | an event's hash is the event; append is a read of the last hash and a later write; lines may be torn, dropped, edited or swapped. |
| `Vault` | `memory_service.py`, `state_service.py` | files are sequences of lines (record, tombstone, torn); a bundle is copied and restored file by file. |
| `Invocation` | `ipc.py`, `service_server.py`, `services.py` | `calls` are the posts under way; a served call leaves its effect whether or not the client still waits. |
| `Boot` | `init.py` | each command holds what it is about to save and to log; `stateFile` has no order of services (its keys are sorted), `signals` has; `Visit` is `visit` as a recursive function of how deep it may still call itself; the number of services is deep enough. |
| `Advice` | `deliberation.py`, `specialists.py`, `model_registry.py`, `oracle.py` | a pure function of what the classifiers find; one step asks it, for every combination; a task that is not empty (`deliberation.py:35`). |
| `Trajectories` | `step_function.py`, `loop.py`, `local_mind.py`, `trajectory_score.py` | a walker is a request for a step or a loop, a learner one under `/learning`; rows carry what the score looks at; `asked` is what the request wants to be judged by. |
| `Learning` | `store.py`, `compactor.py`, `learner.py` | rows are prompts of a quality and a reward; `Queried` are those a query with its limit returns, `fresh` those stamped after the last pass; each file and the sentinel is written in a step of its own. |
| `Decoder` | `constrained_decoder.py`, the grammar of `scl_parser.py` | texts are sequences of characters; the mask is compared with `IsPrefixOfScl`, the beginnings of what `_SCL_RE` matches, and with `IsPrefixOfEmitted`, those of what `emit` writes. |
| `Health` | `health.py`, store, system and row invariants of `invariants.py` | `named` is the file that bears the database's name, `handle` the one a thread's connection has open. |

`Runtime` treats each stretch of `run()` between two moments at which something
outside can be seen as one action. A clock tick may come between any two of them.
The evidence's words (does the text of a halt mention the last result) are a free
choice `linked`, so the final check accepts and rejects in every way the code can.
Raises (`ExecuteRaises`, `SettleRaises`) end the task with `result = "raised"`
and leave the records exactly as the code leaves them.

`PID1`: a step of `reap()` or `start_child` is atomic with respect to signals; a
handler that runs between two assignments of one step only sets a flag those
assignments do not read. `Fault` is an `OSError` out of `Popen` or out of the writes of
`pid1.json` and the ledger, at any statement.

`Forge`: two threads a request at most, a handler and a runner; every open, write and
rename is an action, and so are the start and the end of a command. Appends to the
ledgers are atomic (lines longer than the buffer are not told apart), the ledgers are
sets, because no property is about the order of their lines, and refusals for want of a
witness, of a confirmation or of a clean repository are one action.

`SignIn`, `Material`, `Invocation`, `Vault`: appends of one line are atomic unless
the action says otherwise; a file that is rewritten is truncated first, so another
thread may read it empty. `Material` keeps what a gate read (`local`) until it is used, as the
code does. A deployment command that fails may have acted or not. `Learning`: reading the database is atomic (one query), and so is
each append to the compaction log; a commit may come any time after the stamp.

`MCServices` is the union of eight modules that share no state: `part` says which of
them a behaviour is one of, and the others stay as they began. Nothing is lost by it,
because no action of one reads a variable of another, and every property is
about one module's variables.

Definitions named `...Unbounded`, `...Retries`, `...LatestOnly`, `...WithoutStatus`
and the like, just before the definition they vary, are deliberately wrong variants:
put in its place, each makes the property named in `PROJECT.json` fail under that
run's own configuration, which shows that the property can fail.

## 3. Runs

| Run | Module | Shows | Distinct states |
|---|---|---|---|
| `core` | MCRuntime | debit never refused, balance, the refinement, termination | 184 k |
| `records` | MCRuntime | audit, trajectory and rows agree while appends fail; cited evidence was earned while the model forges | 577 k |
| `effects` | MCRuntime | whatever commands do to the files, a mutation of the loop's own is on a stack and can be restored; a record applied twice changes nothing the second time, lessons that were cut or match themselves apart; lessons stay compact | 3.89 M |
| `pid1` | MCPID1 | shutdown, restarts, one process for each service, and three liveness properties | 30 k |
| `forge` | MCForge | filed success is real, `latest.json` is whole unless writers met, ended jobs stay ended, answered jobs end | 116 k |
| `sign_in` | MCSignIn | the files follow what happened unless updates met, a login serves once, entry is current | 532 k |
| `ipc` | MCInvocation | one story for each request, what is accepted was permitted, requests end | 168 k |
| `learning` | MCLearning | trained on what a query of the database returns, checkpoints are trained, every good row that is not outranked is learned | 1.68 M |
| `services` | MCServices | twelve properties of eight services, the refinement of `GatedAction` among them | 1.32 M |
| `context` | MCRuntime | a step record's context changes after the step | |
| `left_behind` | MCPID1 | a failing call during supervision leaves a child unsignalled | |
| `silent` | MCServices | a failed health report leaves no record | |

**Bounds, and why they are enough.**

- `core`: 12 units, 2 calls, 4 steps, costs 0, 1, 3, 5: a penalty (10) followed by actions, two tool
  calls and a third refused, exhaustion by each of the limits and by the clock;
  replies cover each reason for a refusal, each cost from 0 to 5, explicit
  spending, a halt that passes and one for every reason it does not. The stored
  scaler (`Doubted`) disbelieves a confidence of 100.
- `core`, `records` and `context` have an empty workspace: their questions are not about files, and a
  patch then finds no target.
- `records`: 3 steps are what it takes to forge, to earn and to cite; the sink is
  unreliable.
- `effects`: 5 steps: patch, rollback, patch, rollback and one more under two
  spellings, with a directory and a missing file as targets, and commands that change or remove
  the file in between; a note, and lessons of two
  words from the note or from whatever says "lint", the lesson included. The stated confidence is
  believed, because no halt is involved.
- `pid1`: two children, one restart each, one failing call, 4 pids: as many as
  there can be starts. The same run with two restarts was checked and holds too
  (152 k states).

- `forge`: a job that deploys beside a job without authority, or beside a deployment in
  the handler's own thread, for the app (its directory is then contended) or for the
  server (whose directory the jobs use); one crash at any moment. Two jobs that both
  deploy keep the passing properties too.
- `sign_in`: a login, two callbacks of it, and two requests that log out, prepare an
  intent or act with a session, a token or without; a limit of two failures is reached
  by three requests; failures and sessions grow old at any moment; one crash.
- `ipc`: two requests of any kind, one death of a role server, one append that a full
  disk refuses, one edit of the permissions: a call can be served before, while or
  after its client gives up, under the permissions before or after the edit.
- `learning`: three rows of three kinds, two of them near each other with little reward, one that
  fails the filters with more, and queries that return two rows (the code's 500,000): a good row can be
  fetched, be shadowed by a better one, or be crowded out by a row that is then filtered away; one
  checkpoint and one crash, also in the middle of a training. `Window` is larger than the data set, as 200
  is for a small one; the README's section 5 says what changes when it is not.
- `services`, material: three requests, of which one proposes, patches or evaluates
  and two act, each with one thing missing in some behaviour; a window of two proposals,
  so the third displaces the first; four refusals before, so that one more is the
  fifth; two changes to one file; one commit and one request that breaks off.
- `services`, audit: three writers, four events, one torn line, one edit of the file.
  Vault: two clients, two records, one bundle and one import, one fault (a torn line, a restart or a
  redeployment), `forget` looking through as many records as there are but one. Decoder: three anchors, two
  of which begin alike, texts of up to eleven tokens, with both arrows and tokens of several characters.
  Boot: three services under every combination of eight dependency lists (cycles and unknown names included), and
  four commands by two operators, overlapping anyhow, on the usual registry. Advice: every combination of risks, tools, levels and keys. Trajectories: ledgers that are two rows
  short of the usual gate, or empty, judged by the usual thresholds or by ones that ask for nothing; one walker and
  two learners, one of which may break off. Health: two threads, five databases, one loss.
- The clients of `Vault` and the learners of `Trajectories` are interchangeable: no action,
  initial state or invariant names one, so the run takes them as symmetric; `ImplementsGatedAction`
  does not mention them at all. By themselves the parts have 590 k states (vault), 239 k (trajectories),
  221 k (health), 113 k (boot), 79 k (material), 45 k (audit), 36 k (decoder) and under 1 k (advice).

Deadlock is not checked: a task, a supervisor, a request and a command really end. Every bound is a named constant or a guard.

**Fairness.** `RuntimeSpec` has weak fairness of `LoopStep`: `run()` is one thread
that keeps running. The clock is not obliged to expire, so `Terminates` rests
on the step counter alone, as it does in the code. `PID1!Spec` has weak fairness of
`Supervise` (one thread, polling), of `Deadline` (time passes) and of `Dies(p)`
(SIGKILL ends a process). Nothing obliges an unkilled process to end, a shutdown to be
asked for or a call to fail, so `ShutdownEnds` covers children that ignore SIGTERM.

`Forge!Spec` has weak fairness of every thread: threads are scheduled, and each
command has a timeout (`server.py:210`, `237`, `262`). A crash is never obliged.

`Invocation!IpcSpec` has weak fairness of each request's thread, giving up included:
`urlopen` has a timeout (`ipc.py:19`). No role server is obliged to answer or to live.
`Learning!FairSpec` has weak fairness of `LearnerStep`: `watch` runs for ever, and its
training ends or fails. Nothing obliges an agent to write or a stamped row to be committed.
The modules of `MCServices` and `SignIn` state safety only.

**The violated runs.**

- `context`: `runtime.py:637` copies the state dict shallowly; the step records share
  one provenance map, which later steps extend.
- `left_behind`: the `finally` of the supervisor terminates children with
  `shutting_down` still false, and the reaper restarts them.
- `silent`: `_audit_failures` inserts columns that `compaction_log` does not have
  (`health.py:319`, `store.py:146`), and swallows the exception.

## 4. Proofs

Eight modules of proofs, each beside the modules it is about. Every theorem holds for all
values of the constants that satisfy the `ASSUME` of their module; a hypothesis beyond that
is named below. TLC has checked each property, on the run that lists it, before it was proved.

**`RuntimeProofs`** (`BudgetAssumption`, `RuntimeAssumption`, `MemoryAssumption`,
`RollbackAssumption`).

*The budget by itself*, whoever calls it: the counters stay in range, units are conserved, the
log is complete until a refused tool call was charged, exhaustion is final.

*The accounts of the loop.* `BooksAreKept` is the inductive invariant

    BooksInv == CountersOK /\ Balanced /\ Cleared /\ Payable /\ SpendsNaturals

`DebitNeverRefused` alone is not inductive: nothing in it says why the record in hand
was affordable. `Cleared` says that what passed the gates can be paid for, the
clock aside; `Payable` carries this over the execution to the debit; the one
execution that takes units is an explicit `@budget spend`, whose own cost is 0, so
what it takes is never missed (`SpendsNaturals` keeps its operand a number). From
`BooksInv` follow `NoDebitIsRefused` (the `budget_exhausted` return after the debit,
`runtime.py:363-374`, is dead code), `AccountsAlwaysBalance`, and
`LoopImplementsGovernedTask`: under the mapping in `Runtime`, which counts an effect
as paid when it happens, each action is a step of `GovernedTask` or a stutter.

*Evidence.* `CitedEvidenceWasEarned` speaks of the end of a task; `EarnedInv` says of every
moment that each key of the provenance map is the reference of an accepted step on record.
`@state update` may put anything in the state dict, but the map is reached only
through the value `MapRef`, which no record carries.

*Records.* `RecordsAgree` and `AuditMatchesTrajectory` are parts of `RecordsInv`. What they lack
to be inductive is where the loop is: `Counted` says that the number of the step is the length of
the trajectory until `run()` returns, `RowsFollow` which steps have their row,
`AuditFollows` that of the step in hand there is at most the proposal. Rows are numbered by
step and audit lines may be missing, so both are compared with the trajectory by
number, not by position.

*Memory.* Every record is applied twice, when it executes and after the debit.
`SecondApplicationIsAlwaysIdle` needs to know that nothing has come in between: `MemoryInv` says that
a record not yet applied again is the one in hand and left the store as it is, and of each entry
why it is there: it was seeded, some record writes it, or it is a lesson that fits the words
some `compress` into its key allows. The rest is what `Those` preserves: writing the same entry again
moves nothing (`WriteAgain`), and a source that does not match its own target reads the same
before and after (`ReadAfterWrite`). `LessonsAreAlwaysCompact` has the hypothesis
`LessonsAreOnlyFolded`: no record writes, and no rule is seeded, under the key of a lesson. The code
does not see to it; where a task does write there, the text has any length. What holds of every
memory is proved through sequences: a set of them that contains the empty one and whatever
one entry more makes is all of `Seq` (`EverySequence`).

*How long a task can last.* `TasksAlwaysRunDown`: `Fuel` is at most `9 * MaxSteps + 8`, every step of
the loop burns some, the clock gives none back, and none is left only when `run()` has returned.

*Effects.* `MutationsCanAlwaysBeUndone` speaks of the changes the loop takes snapshots for; commands may
change files in between, and `EffectsInv` holds whatever they do. It has two hypotheses. `OneWorkspace` (`SnapPath = ToolPath`):
the registry and the rollback manager resolve a name against the same directory; the
code takes the two from two settings. `TextFiles`: `Decode` is the identity; the code decodes with
replacement (`rollback.py:100`). Without either the property is false, and section 5 says how.
`EffectsInv` adds that every snapshot kept was taken of what it holds, and that no record
in hand names a target that is no path.

**`ForgeProofs`** (`ForgeAssumption`: only app-scoped requests are asynchronous), for
any number of requests in any interleaving, with any number of crashes:
`SuccessIsAlwaysReal` and `EndedJobsStay`. The inductive invariant says three things of
each request, and its steps touch no other request (`OthersAreSame`, `SameKeeps`):

    ForgeInv == Types /\ \A r \in Requests : Shape(r) /\ Success(r) /\ Settled(r)

`Shape` says where the two threads can be: the runner starts after the handler has
filed the job, and what is at the gate has no command yet. `Success` follows a success
from the command through the act to the job. `Settled` is what `EndedJobsStayEnded`
lacks to be inductive: a thread about to write a file finds it not ended, because
once the runner has filed the job nothing it can still do files it again.

`LatestIsAlwaysWhole` is about two names that move between files. `LatestInv` says that no two
names denote one file (`Names`), that the file a writer would create is still nobody's,
and, of a directory in which no two writers have met, that its one writer has what the temporary
name denotes (`Held`) and that the latest record is what its own file says, or a writer is about to
publish what does (`Told`).

`RequestsAlwaysRunDown`: what a request sets going takes 21 steps of its own at most, whatever
raises and whoever else renames the temporary file.

**`PID1Proofs`**.

*The supervisor* (`PID1Assumption`, and for two of the three `~PidsRecycled`: the kernel gives no pid
out twice), for any children, restarts, signals, deaths and failing calls.
`ShutdownIsAlwaysComplete` and `ChildrenStayAccountedFor` come from

    PID1Inv == Bookkeeping /\ Lists /\ Pending /\ Ending

`Bookkeeping` relates handles, states and processes: each handle kept is that of the
process its child's state remembers, and a child's starts are the processes started for it, one more
than its restarts at most. That is not inductive without `Pending`: what `start_all` or
`_maybe_restart` is about to start does not run, and its restart is already counted. `Ending`
is why a shutdown is complete: no restart is decided once `shutting_down` is set, so
whoever lives after the kill loop was in it. It holds unless a call has failed, which is
what `left_behind` is about.

`ShutdownAlwaysRunsDown` holds with recycled pids too. Once `shutting_down` is set it stays set, and every
step of `run()`, also one that a failing call makes, brings it to a later stretch or
leaves less to do of this one (`Stretch`, `Agenda`); the one step that does neither is a poll of the grace
period while a child lives and the five seconds have not passed (`Waits`). Signals, deaths and
the clock change neither.

*The older supervisor* (`BootAssumption`): `SupervisionIsAlwaysSound`, for any registry, unknown
names and cycles included, any operators and commands that overlap or die. `VisitSound` is proved by the depth of
the call (`EverySuccessor`): a visit lists names once, and leaves open (seen and not yet listed)
what was open; what is open reaches the name to be visited. So a dependency that is not
listed first is open, and then it stands in turn on what depends on it. `BootInv` says that
whatever a boot has logged or is about to log is that order, and that once a shutdown is saved neither the file
nor a command under way has anything `running`, except a command that loaded before it (`behind`): when
one of those saves, which nothing in the code prevents, `outrun` records it and the property is silent.

**`SignInProofs`** (`SignInAssumption`), for any requests, interleavings, settings and crashes:
`FilesAlwaysFollow`, `LoginsServeOnce`, `EntriesAreCurrent`, from `SignInInv`. `FilesFollow`
holds only of a file nobody is updating, so `SessionsOK` and `FailuresOK` say of an update in
progress what it is going to leave behind (`Leaves`, `Counts`), as long as no other update
of the file overlapped with it (`OneWriter`: then there is one, and who is about to write has
truncated it). `LoginServesOnce` needs to know of every callback that has found its login
(`Taken`) that no dict about to be written still holds that login.

**`LedgerProofs`** (`AuditAssumption` for the first theorem).

*The audit file*, for any number of writers, torn writes and edits: `VerdictsAreAlwaysTrue`, from

    AuditInv == Types /\ Genuine /\ Unedited

`Genuine` survives every edit of the file: a hash in it is one that append gave to an event,
which it made of a hash given before. `Unedited` says, while nobody has edited the file, that who was overtaken
holds an older hash, nobody else does, and that `crossed` is exactly a mismatch on file. That a verified
file tells its events in order is an induction down the chain; the library's
induction theorems cannot be used, so it is the least number of steps back at which an event
would be missing (`LeastNumber`, from the well-foundedness of `<` on naturals). That SHA-256
tells events apart is built into the model.

*Invocations*, for any requests, late calls, deaths of role servers, failing appends and edits of
the permissions: `LedgersAlwaysTell` and `AcceptedAlwaysPermitted`, from `IpcInv`. What makes them
inductive is that a call outlives the wait for it: `OneWay` and `FiledBefore` speak of the stages
a request has reached and of those a server may still serve (`Called`), `RepliesAreKept` of
answers under way, and `VerdictsAreFounded` says that a verdict in favour, also an unread
one, was given while the permissions allowed it.

`CallsAlwaysRunDown`: a request is over after eight steps of its own thread, because no late
reply, death or edit brings back a call it has given up.

**`ServicesProofs`**.

*Vault*: `ForgottenRecordsStay` and `AnsweredRecordsStay`, for any number of clients,
records, bundles, imports and faults. A file is *due* to hold the tombstones of what is gone
and the records that are owed; `VaultInv == DiskOK /\ BundlesOK /\ ThreadsOK`
says of the disk, of every bundle, of the part an export has copied and of what an import has
restored that each file holds what is due, or a torn line, which makes every read of it
raise. Neither property is inductive without the parts about bundles and threads: a bundle
carries what was due when it was made into another place and time.

*Trajectories* (`TrajectoryAssumption`): `EligibleIsAlwaysEarned`. The gate reads two ledgers, twice,
while walkers append to them. `TrajectoryInv` says that what it has read of each are beginnings
of what is there now, the second time no less than the first (`ReadAs`), so that
what was enough remains enough: more rows are at least as many good rows (`MoreRowsMoreGood`,
by an injection of the indices). The thresholds are
any integers, those of the request. `Packaging` follows the dataset from the export to the manifest, which is
there before it is whole, while nothing has overlapped.

*Health* (`HealthAssumption`): `PassedReportsAreTrue`. `Upholds` says of each report that nothing has disturbed
that what it has checked, or repaired, is still so, because the other monitors' repairs
only mend (`Mends`).

*Advice*: `AdviceIsAlwaysLawful`, without an invariant: whatever was asked, the option with
the best score is compared with all others, for every combination of scores.

**`MaterialProofs`** (`MaterialAssumption`), for any number of requests with any bodies, under
either setting of the proposal gate, with the prophet's report, the ledgers and the tree
changing in between.

`EndpointsImplementGatedAction` and `RefusalsAreEmpty` (refusals come before the command; a command that
fails after it has acted is on the ledger before anyone is told), from

    MaterialInv == Functions /\ \A r \in Requests : Place(r) /\ Traces(r)

`Place` says where a request of each kind can be and what its gates have established by
then; `Traces` what has been done for it and is on record. Each step touches one request
(`OthersUntouched`), so each lemma is about that one.

`AppliedIsAlwaysThere`, from `TreeInv`: unless applications to its file have overlapped, the copy
that a `git apply` holds is the file with one more change in it, and nobody else holds one.

`HarmlessIsAlwaysRecorded`, from `ScanInv`, which follows the sum of the scan to the troubles it
met. Its hypothesis `FullProfile` says that the supervisor has every child the scan asks for. Under the
compact and the tiny profile it has not, each missing child weighs 45, and every proposal is
quarantined (section 5): there the property is false.

**`LearningProofs`** (`LearningAssumption`, `DecoderAssumption`).

`CheckpointIsAlwaysTrained`, from `CheckpointInv`: the directories are numbered without gaps, so that
their count is the last of them, and the one being trained into would be the next.

`AlwaysTrainedOnTheDatabase`, for any rows, nearness, thresholds, window, limit of a query and crashes. The rows
ahead of a row only become more (`CommitKeepsOutranked`), so what a query did not return then the property does not ask
for later. A pass may have read less than a query returns only if it is incremental, and then it is the first, which is never the last
(`FirstPass`). For the others, `DataInv` carries `Covered` from what the pass kept over the two
files to the training. That the greedy deduplication keeps for each row it drops a near one that is
no worse (`StandsFor`) is an induction over the rows in the order of visit. The library's
induction theorem cannot be instantiated; the set of the numbers up to which it
holds contains 0 and every successor, and `Successors` says that such a set is all of `Nat`.

`MaskIsAlwaysTrueToScl`, for every algebra and vocabulary that `DecoderAssumption` admits: no anchor is a
prefix of another, no relation of an anchor a prefix of another of its relations, anchors begin with `@` and no
word is empty, as in `constrained_decoder.py`'s own tables. The language is that of `scl_parser.py`,
translated from its regular expression and from `emit`, not from the mask: either arrow, any blanks, fields after any
pair. The proof takes a text apart at the anchor, the arrow, the relation and the bracket and compares
the two part by part. Equality is not claimed, because it is false: section 5 says what the mask leaves out.

**What the measures say.** `TasksAlwaysRunDown`, `ShutdownAlwaysRunsDown`, `RequestsAlwaysRunDown`
and `CallsAlwaysRunDown` are the part of `Terminates`, `ShutdownEnds`, `AnsweredJobsEnd` and
`RequestsEnd` that needs no fairness: there is no way to go on for ever. That something is possible until the end, and
is done, is left to TLC.

**Only model-checked.** Liveness (`Terminates`, `ShutdownEnds`, `FailedChildReturns`,
`ContainerFollowsWeb`, `AnsweredJobsEnd`, `RequestsEnd`, `LearnedEventually`): temporal proofs with fairness need
ENABLED, which the prover does not handle. Every other property of a passing run is stated by a theorem.

## 5. Seen while modelling

Differences between code and docs that are modelled as the code has them, without
a run of their own:

- a refused debit has been charged (`budget.py:186-196`, `docs/FORMAL_TRANSITIONS.md:31`);
  after `NoDebitIsRefused` this concerns explicit spends only;
- `clear_ephemeral` is called by nothing (`memory.py:35`, `:263`);
- `snapshot_file` decodes with replacement (`rollback.py:100`): with a lossy `Decode`
  the property `MutationsCanBeUndone` fails, so the runs take text files;
- `Task.workspace` and the runtime's workspace are two settings: with different
  `ToolPath` and `SnapPath` the snapshot is of another file;
- `shell.readonly` is declared `no_workspace_write` and `write_access: False` (`tool_registry.py:118-119`), but runs
  `sed`, `find` and `diff` with any arguments (`:293-321`), `git.diff` and `pytest` run with any: such a command can
  change or remove files, no snapshot is taken for it (`runtime.py:504-513`) and no rollback brings its changes
  back; `MutationsCanBeUndone` is about the rest;
- `@tool deny` earns evidence although its transition declares no mutation
  (`transition_spec.py:40`);
- the seeded rules on verification before a halt and on the order of debits
  (`memory.py:324-329`) are texts: the debit comes after the effect;
- the `memory.write` tool does nothing (`tool_registry.py:164`);
- on the last step the record says 30, whatever the limit was (`runtime.py:427`);
- a task that ran out of budget, or whose `run()` raised, keeps a row that says `running`
  (`runtime.py:190-199`, `store.py:39`);
- a hard policy violation does not abort the task (`README.md:616`);
- `start_all` is outside the `try` (`pid1.py:293`): no document promises anything of
  children when it fails, so the shutdown properties leave that end out;
- in `Forge`: a request whose own write of `latest.json` raises leaves a job that says
  `running` and that nobody runs; so does every job at a crash of the server;
  `job_finished` may precede `job_started`; nothing keeps two deployments of an app apart;
- with recycled pids (`PidsRecycled`) `StatesMatchHandles` fails; it takes a
  wrap-around of the pid counter inside one container's life, so the run leaves it out.

The audit, the health report and the scan:

- removing the last lines of the audit file is not found by `verify` (`audit_sink.py:43-44`);
- `runtime.py:460` says "Audit sink failures should be surfaced by health checks";
  `health.py` never looks at the sink. If its own insert worked, it would leave rows of the compaction log without `run_at`,
  and the compactor's watermark would be one of those;
- "5 or more recent refusals" never ages, `prophet_failure` stays until somebody evaluates
  again, and a half-written `pid1.json` or report counts as an antigen (`immune.py:120`);
- a quarantine record blocks nothing; `/patch/apply` is not scanned, `/build/apply` is.

Material actions and their services:

- a deployment that is answered `failed` may have happened: `forge/deploy.sh:72` starts the container before its
  health check, and a non-zero return code of the whole is all that `deploy_service.py:101-109` looks at;
- the deploy preflight can be stale when a patch is applied meanwhile; the role servers
  have no proposal gate;
- a logout can be undone by an overlapping update of the sessions;
- late calls leave duplicate lines in ledgers (`ipc.py:50`); `act_reversible` declared
  for an irreversible task is not flagged;
- a record that is imported twice is there twice; a refused import leaves records without
  their tombstones; `forget` looks through the last 10,000 records only; a torn line makes
  every read raise until the next deployment, and an exported one poisons the importer; exports are
  not atomic; `self_test` fails spuriously beside an append;
- `state.json` loses the order of boot, because its keys are sorted (`init.py:97`): the ledger of signals has it;
- commands of `init.py` that overlap lose updates, so a reap that loaded before a shutdown and saves after it has the services
  running again; one that dies in `write_text` leaves a file no
  other command can read, until `boot`;
- `ORACLE_PROVIDER=local` with a model name that matches nothing goes on to remote routing;
- the compact profile has 8 children that process 1 does not supervise, at 45 each
  enough for quarantine (`docs/COMPACT.md:5`).

Steps, loops and learning:

- `README.md:183` says "`/loop` chains bounded `/step` cycles". Every text of `LocalMind`
  holds a word the scan watches for (`local_mind.py:128`, `:151`), a watched step requires
  a human (`step_function.py:61`), and a loop stops there (`loop.py:58`): after one step, always;
- an inflamed step still scores 88 while a loop stopped on a risk scores 80; a broken-off
  export leaves an empty dataset, which `package` accepts; risky goals are retrieved
  into later proposals; `planner.choose_next` reads a stale backlog;
- `/learning/promotion-gate` is judged by thresholds of the request (`web.py:402-404`): asked for zeros, it finds
  nothing at all eligible (the average of no rows is 0.0); and a manifest that is empty, half-written or hours old
  passes, because only its existence is checked (`trajectory_score.py:108`);
- a full pass reads the 500,000 rows of the highest reward before it filters any (`compactor.py:348`, `store.py:284`):
  beyond that a good row of little reward is in no data set, and a row that fails the filters can be what keeps it out;
- two learners (the daemon and `data_cli retrain`) compute the same next directory and may
  read a training file of one pass and a validation file of another; so may a training after
  a crash; rows of more than 200 kept prompts ago are not compared; the best rows
  are held out; `compact_recursive` never shrinks the database; `compactor.py:371` compares with the
  pass before, while the docstring (`:42-45`) says since the last checkpoint; `self_train.eval` beside a collect may pass an empty dataset;
- the mask looks at the first character of a token only, and behind a closing bracket at nothing, although
  `constrained_decoder.py:4-8` calls invalid SCL structurally impossible: a longer token may leave the language, the ASCII
  arrow with both its blanks raises `IndexError` (`:144`), a truncated prompt makes the mask misread where it is, and
  which fields are there it does not look at;
- the mask is narrower than the parser, too: fields after a pair that requires none it never admits, although the
  greedy decoder of the same file writes `@budget → check []` (`:412`), nor anything after an ASCII arrow, although the
  grammar follows that arrow (`:141`).

Elsewhere: a halt is a training sample only if its status is the word `success`, because the outcome
is `halted_` and the status (`trajectory_logger.py:98`, `:230`); `rollback` looks an artifact up
as it is spelled, not as it was resolved (`rollback.py:157`, `docs/architecture.md:79`); the forge's
`latest.json` may be empty or a mixture when two writers meet (`cortex_forge/server.py:51`).

## 6. Not modelled, and the plan

Not modelled because there is no control worth a model in them: persona and semantic services (text in,
text out, an append), installation scripts and images, layout of prompts and pages, the generator
of the corpus, the evaluation suite, the computation of rewards and of a training, the
fitting of the calibration, the cryptography of signed intents, `immune_eval`, `sacred`,
`witness`, `tool_gateway`. Abstracted: in the loop, the regular expressions of the parser (a reply
is what it parses to; `Decoder` has them), SHA-256 (an event's hash is the event), the words of evidence, goals and risks (the set of patterns a text
matches). Left out although there is control in it: a locked or full database inside `run()`, which
raises out of it after the effect (no document says what the rows should then hold);
the dispatch of the forge to GitHub; `planner` and `cognition`, whose state
nothing acts on.

What is left, in order of worth:

1. **Proofs**: `FailuresAreRecorded` of the database as the code should have it; a measure for
   the passes of the learner, as for the loop.
2. **Fault models**: store errors inside `Runtime`; two learners on one data set;
   recycled pids in `PID1`, for which `Remembers` already has a choice to make.
3. **Pure algorithms**: the parser's normalisation and the calibration against reference definitions on
   bounded inputs.

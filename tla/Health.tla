-------------------------------- MODULE Health --------------------------------
(***************************************************************************)
(* cortex/health.py and the store, system and trajectory invariants of     *)
(* cortex/invariants.py it enforces: a report is six checks one after the  *)
(* other, two of which repair what they find.  Any thread may run it, at   *)
(* the start of a runtime, from watch or in front of a guarded call, while *)
(* files come and go.  sqlite is external: a file, once it is open, stays  *)
(* open although its name goes or is given to another file.                *)
(***************************************************************************)
EXTENDS Integers, Sequences, FiniteSets

CONSTANTS
  Monitors,      \* threads that run HealthMonitor.run
  OldDatabases,  \* files data/cortex.db may be: a set of Database
  EmitterCounts, \* what the emitter may have counted: [total, repaired : Nat]
  HealthDamages,  \* bound: times something is lost or put back
  RunBound       \* bound: reports of one thread

Tables == {"trajectories", "tasks", "compaction_log"}

\* lacks: a column the trajectories table does not have.  rows: which of the last
\* ones satisfy TrajectoryInvariant.  failures: the health failures logged in it.
Database ==
  [wal : BOOLEAN, tables : SUBSET Tables, lacks : {"nothing", "prompt", "reward"}, sound : BOOLEAN,
   rows : Seq(BOOLEAN), failures : SUBSET {"system", "schema", "store", "filesystem", "emitter", "trajectories"}]

ASSUME HealthAssumption ==
  /\ OldDatabases \subseteq Database /\ OldDatabases # {}
  /\ EmitterCounts \subseteq [total : Nat, repaired : Nat] /\ {HealthDamages, RunBound} \subseteq Nat

VARIABLES
  monitor,     \* [Monitors -> where its report is, and what it has found]
  database,    \* the files that were ever data/cortex.db
  named,       \* the one that bears the name, 0 when none does
  handle,      \* [Monitors -> the file its cached connection has open, or 0]
  directories, \* of the required ones, those that are there
  schemaFile,  \* scl_schema.json is there
  damages

healthVars == <<monitor, database, named, handle, directories, schemaFile, damages>>
surroundings == <<schemaFile, damages>>

-----------------------------------------------------------------------------
(* invariants.py *)

\* StoreInvariant.check, of the file that bears the name now.
StoreHolds(n) ==
  n # 0 /\ database[n].wal /\ database[n].tables = Tables /\ database[n].lacks = "nothing" /\ database[n].sound

\* _create_schema: the indexes of trajectories come before the other tables, and
\* one on a column that is not there ends the script.
SchemaRaises(file) == "trajectories" \in file.tables /\ file.lacks = "reward"

SchemaCreated(file) ==
  [file EXCEPT !.tables = @ \cup (IF SchemaRaises(file) THEN {"trajectories"} ELSE Tables)]

\* TrajectoryInvariant.check of the last twenty rows, fewer than a tenth of them
\* may fail it.
LastRows(file) == SubSeq(file.rows, IF Len(file.rows) > 20 THEN Len(file.rows) - 19 ELSE 1, Len(file.rows))

RowsPass(file) ==
  LET last == LastRows(file)
      invalid == IF file.lacks = "prompt" THEN Len(last) ELSE Len(SelectSeq(last, LAMBDA valid : ~valid))
  IN  invalid = 0 \/ 10 * invalid < Len(last)

-----------------------------------------------------------------------------
(* HealthMonitor.run *)

RequiredDirs == {"data", "data/sft", "models", "scripts", "cortex"}

Quiet == [at |-> "idle", failed |-> {}, disturbed |-> FALSE, runs |-> 0]

\* A check has passed or has repaired, or has failed under this name; next comes at.
Found(m, name, passes, at) ==
  monitor' = [monitor EXCEPT ![m].at = at, ![m].failed = IF passes THEN @ ELSE @ \cup {name}]

\* At the start of a runtime, by watch, or by guard.
ReportBegins(m) ==
  /\ monitor[m].at \in {"idle", "ended", "called", "skipped"} /\ monitor[m].runs < RunBound
  /\ monitor' = [monitor EXCEPT ![m] = [Quiet EXCEPT !.at = "system", !.runs = monitor[m].runs + 1]]
  /\ UNCHANGED <<database, named, handle, directories, surroundings>>

\* _check_system and _check_schema: nothing is repaired.
ChecksInstallation(m) ==
  /\ monitor[m].at = "system"
  /\ monitor' = [monitor EXCEPT ![m].at = "store", ![m].failed = IF schemaFile THEN {} ELSE {"system", "schema"}]
  /\ UNCHANGED <<database, named, handle, directories, surroundings>>

\* No database is no failure.
ChecksStore(m) ==
  /\ monitor[m].at = "store"
  /\ Found(m, "store", TRUE, IF named = 0 \/ StoreHolds(named) THEN "filesystem" ELSE "repair")
  /\ UNCHANGED <<database, named, handle, directories, surroundings>>

\* TrajectoryStore(db_path): through the connection this thread has kept, or one
\* it opens, which makes the file if need be and sets WAL.
RepairsStore(m) ==
  /\ monitor[m].at = "repair"
  /\ LET opens == handle[m] = 0
         files == IF opens /\ named = 0
                    THEN Append(database, [wal |-> TRUE, tables |-> {}, lacks |-> "nothing", sound |-> TRUE,
                                           rows |-> <<>>, failures |-> {}])
                    ELSE database
         n == IF ~opens THEN handle[m] ELSE IF named = 0 THEN Len(files) ELSE named
         file == [files[n] EXCEPT !.wal = @ \/ opens]
     IN  /\ database' = [files EXCEPT ![n] = SchemaCreated(file)]
         /\ handle' = [handle EXCEPT ![m] = n]
         /\ named' = IF opens THEN n ELSE named
         /\ Found(m, "store", ~SchemaRaises(file), IF SchemaRaises(file) THEN "filesystem" ELSE "recheck")
  /\ UNCHANGED <<directories, surroundings>>

RecheckIsTrusted(m) ==
  /\ monitor[m].at = "recheck"
  /\ Found(m, "store", TRUE, "filesystem")
  /\ UNCHANGED <<database, named, handle, directories, surroundings>>

RechecksStore(m) ==
  /\ monitor[m].at = "recheck"
  /\ Found(m, "store", StoreHolds(named), "filesystem")
  /\ UNCHANGED <<database, named, handle, directories, surroundings>>

\* A directory may refuse to be made.
ChecksFilesystem(m) ==
  /\ monitor[m].at = "filesystem"
  /\ \E made \in SUBSET (RequiredDirs \ directories) :
       /\ directories' = directories \cup made
       /\ Found(m, "filesystem", directories \cup made = RequiredDirs, "emitter")
  /\ UNCHANGED <<database, named, handle, surroundings>>

\* repair_rate > 0.5, of ten emissions or more; one above 0.2 counts as repaired.
ChecksEmitter(m) ==
  /\ monitor[m].at = "emitter"
  /\ \E emitted \in EmitterCounts :
       Found(m, "emitter", emitted.total < 10 \/ 2 * emitted.repaired <= emitted.total, "trajectories")
  /\ UNCHANGED <<database, named, handle, directories, surroundings>>

\* Whether the last rows can be read: a damaged file may or may not let them.
MayBeRead(n) ==
  IF n = 0 \/ (database[n].sound /\ "trajectories" \in database[n].tables) THEN {TRUE}
  ELSE IF "trajectories" \in database[n].tables THEN BOOLEAN ELSE {FALSE}

ChecksRecentTrajectories(m) ==
  /\ monitor[m].at = "trajectories"
  /\ \E readable \in MayBeRead(named) :
       Found(m, "trajectories", IF named = 0 THEN TRUE ELSE readable /\ RowsPass(database[named]), "audit")
  /\ UNCHANGED <<database, named, handle, directories, surroundings>>

\* The columns _audit_failures names, and those the table has (store.py).
AuditedColumns == {"ts", "strategy", "rows_in", "rows_out", "quality_threshold", "dedup_removed", "retrain_needed", "notes"}
LogColumns == {"id", "run_at", "strategy", "rows_in", "rows_out", "sft_train", "sft_val", "notes"}

\* _audit_failures swallows whatever the insert raises; then the guarded call is
\* made, or it is not.
Audits(m) ==
  /\ monitor[m].at = "audit"
  /\ LET failed == monitor[m].failed
         inserts == failed # {} /\ named # 0 /\ "compaction_log" \in database[named].tables
                    /\ AuditedColumns \subseteq LogColumns
     IN  /\ database' = IF inserts THEN [database EXCEPT ![named].failures = @ \cup failed] ELSE database
         /\ \E at \in {"ended", IF failed = {} THEN "called" ELSE "skipped"} : monitor' = [monitor EXCEPT ![m].at = at]
  /\ UNCHANGED <<named, handle, directories, surroundings>>

-----------------------------------------------------------------------------
(* What happens around it: a state directory is cleared, or an older one is  *)
(* put in its place; pages of a file go bad.                                  *)

Damages ==
  /\ damages < HealthDamages /\ damages' = damages + 1
  /\ monitor' = [m \in Monitors |-> [monitor[m] EXCEPT !.disturbed = TRUE]]
  /\ \/ named' = 0 /\ UNCHANGED <<database, directories, schemaFile>>
     \/ /\ \E old \in OldDatabases : database' = Append(database, old)
        /\ named' = Len(database) + 1 /\ UNCHANGED <<directories, schemaFile>>
     \/ /\ named # 0 /\ database' = [database EXCEPT ![named].sound = FALSE]
        /\ UNCHANGED <<named, directories, schemaFile>>
     \/ \E d \in {"data/sft", "models"} : directories' = directories \ {d} /\ UNCHANGED <<database, named, schemaFile>>
     \/ schemaFile' = FALSE /\ UNCHANGED <<database, named, directories>>
  /\ UNCHANGED handle

\* A thread that has used the store before keeps its connection.
HealthInit ==
  /\ monitor = [m \in Monitors |-> Quiet]
  /\ \E old \in OldDatabases : database = <<old>>
  /\ named \in {0, 1}
  /\ handle \in [Monitors -> {0, named}]
  /\ (\E m \in Monitors : handle[m] # 0) => StoreHolds(1)
  /\ directories = RequiredDirs /\ schemaFile = TRUE
  /\ damages = 0

HealthNext ==
  \/ \E m \in Monitors :
       \/ ReportBegins(m) \/ ChecksInstallation(m) \/ ChecksStore(m) \/ RepairsStore(m) \/ RechecksStore(m)
       \/ ChecksFilesystem(m) \/ ChecksEmitter(m) \/ ChecksRecentTrajectories(m) \/ Audits(m)
  \/ Damages

HealthSpec == HealthInit /\ [][HealthNext]_healthVars

-----------------------------------------------------------------------------
\* A report that has passed while nothing else was lost speaks of the database
\* that bears the name and of directories that are there, although a repair goes
\* to whichever file the thread's cached connection has open: only then is a
\* guarded call made on a store that can take its rows (health.py:11-16,
\* "repairs are automatic and idempotent").
PassedReportIsTrue ==
  \A m \in Monitors :
    monitor[m].at \in {"ended", "called"} /\ monitor[m].failed = {} /\ ~monitor[m].disturbed =>
      (named = 0 \/ StoreHolds(named)) /\ directories = RequiredDirs

\* health.py:14, "Zero silent failures: every anomaly is recorded in the audit
\* trail": what a report found is on record where the database could take it.
FailuresAreRecorded ==
  \A m \in Monitors :
    monitor[m].at \in {"ended", "skipped"} /\ ~monitor[m].disturbed /\ named # 0 /\ StoreHolds(named) =>
      monitor[m].failed \subseteq database[named].failures
===============================================================================

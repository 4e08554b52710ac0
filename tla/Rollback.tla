------------------------------ MODULE Rollback ------------------------------
(***************************************************************************)
(* cortex/rollback.py, the tool whose calls it takes snapshots for,        *)
(* shell.patch, and the commands it takes none for.                        *)
(*                                                                         *)
(* A path is a text, as the model spells it.  Two resolutions turn it into *)
(* an absolute text: ToolPath joins it to the workspace of the tool        *)
(* registry, SnapPath to the workspace of the rollback manager.  FileOf    *)
(* says which file an absolute text denotes: several texts may denote one. *)
(***************************************************************************)
EXTENDS Integers, Sequences, SequencesExt

CONSTANTS
  Files, Contents,
  Absent,        \* the state of a file that has been removed
  PathTexts,     \* the path texts a record may carry
  FileOf,        \* [PathTexts -> Files \cup {NoFile}]
  NoFile,        \* what a path that does not exist denotes
  Directories,   \* path texts that denote a directory
  ToolPath,      \* [PathTexts -> PathTexts]
  SnapPath,      \* [PathTexts -> PathTexts]
  Unconfined,    \* path texts whose resolved path leaves the workspace
  Decode,        \* [Contents -> Contents]: read_text(errors="replace")
  InitialFiles   \* [Files -> Contents]

ASSUME RollbackAssumption ==
  /\ NoFile \notin Files /\ Absent \notin Contents
  /\ FileOf \in [PathTexts -> Files \cup {NoFile}]
  /\ Directories \subseteq PathTexts
  /\ ToolPath \in [PathTexts -> PathTexts]
  /\ SnapPath \in [PathTexts -> PathTexts]
  /\ Decode \in [Contents -> Contents]
  /\ InitialFiles \in [Files -> Contents]

VARIABLES
  files,      \* [Files -> Contents \cup {Absent}], the disk
  snapshots   \* [PathTexts -> Seq(Snapshot)], _snapshots

rollbackVars == <<files, snapshots>>

\* A snapshot holds the text that was read; bytes is a history field, what
\* the file really held when the snapshot was taken.
Snapshot == [file : Files, content : Contents, bytes : Contents]

RollbackInit ==
  /\ files = InitialFiles
  /\ snapshots = [p \in PathTexts |-> <<>>]

---------------------------------------------------------------------------

\* snapshot_file(target) raises: read_text on a directory is not caught.
SnapshotRaises(target) == SnapPath[target] \in Directories

\* What a path names is there.
Present(path) == FileOf[path] # NoFile /\ files[FileOf[path]] # Absent

\* snapshot_file(target): keyed by the resolved path; None when nothing is there.
SnapshotFile(target) ==
  LET path == SnapPath[target]
      f    == FileOf[path]
  IN  IF Present(path)
      THEN snapshots' = [snapshots EXCEPT ![path] =
             Append(@, [file |-> f, content |-> Decode[files[f]], bytes |-> files[f]])]
      ELSE UNCHANGED snapshots

\* The shell.patch tool can reach a file to hand to patch(1).
Patchable(target) == ToolPath[target] \notin Unconfined /\ Present(ToolPath[target])

\* What patch(1) may leave of the file, whether or not it then reports
\* success: a failed patch may have applied some of its hunks, and a patch that
\* empties a file removes it.  The .orig and .rej files it may leave beside it
\* are no artifacts of the task.
PatchTool(target) ==
  IF Patchable(target)
  THEN \E c \in Contents \cup {Absent} : files' = [files EXCEPT ![FileOf[ToolPath[target]]] = c]
  ELSE UNCHANGED files

\* A command of the model's choosing runs in the workspace: a program of the
\* allowlist of shell.readonly with any arguments (sed -i, find -delete), git
\* diff with any arguments (--output=), a test suite.
CommandRuns == files' \in [Files -> Contents \cup {Absent}]

\* rollback(artifact) finds a snapshot: the name is looked up as it is spelled.
HasSnapshot(artifact) == artifact \in PathTexts /\ snapshots[artifact] # <<>>

RestoreOldest(artifact) ==
  IF HasSnapshot(artifact)
  THEN files' = [files EXCEPT ![snapshots[artifact][1].file] = snapshots[artifact][1].content]
  ELSE UNCHANGED files

\* rollback(artifact): the newest snapshot is written back and stays on the
\* stack.
Restore(artifact) ==
  IF HasSnapshot(artifact)
  THEN LET snap == Last(snapshots[artifact])
       IN  files' = [files EXCEPT ![snap.file] = snap.content]
  ELSE UNCHANGED files

---------------------------------------------------------------------------
(* What rollback promises of one step. *)

\* The file's own bytes have just been put on a stack, or this is a rollback and
\* puts back the bytes the newest snapshot of an artifact was taken of.
CanBeUndone(f) ==
  \E p \in PathTexts :
    \/ /\ snapshots'[p] # snapshots[p]
       /\ Last(snapshots'[p]).file = f
       /\ Last(snapshots'[p]).content = files[f]
    \/ /\ snapshots'[p] = snapshots[p]
       /\ HasSnapshot(p)
       /\ Last(snapshots[p]).file = f
       /\ Last(snapshots[p]).bytes = files'[f]
=============================================================================

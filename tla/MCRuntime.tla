----------------------------- MODULE MCRuntime -----------------------------
(* Replies and workspaces for the runs of Runtime.  One workspace: "a.py"   *)
(* is a relative name of the file "/w/a.py" and "/w/pkg" is a directory.    *)
EXTENDS Runtime

Call(name, risk) == Scl("tool", "call", [name |-> name, risk |-> risk, args |-> "tests"])
Pytest     == Call("pytest", "verify")
BudgetTool == Call("budget.check", "read_only")
MemoryTool == Call("memory.write", "memory")
Verify(type) == Scl("verify", "run", [type |-> type, target |-> "tests"])
Answer(status, conf, ev) ==
  Scl("halt", "answer", [status |-> status, confidence |-> conf, evidence |-> ev])
Citing(ref) ==
  Scl("halt", "answer", [status |-> "complete", confidence |-> 90,
                         evidence |-> "passed", evidence_ref |-> ref])
Update(fields) == Scl("state", "update", fields)
Note(ttl) == Scl("memory", "write", [key |-> "task.note", value |-> <<"lint">>, ttl |-> ttl])
\* A lesson from the note, or from whatever says "lint", the lesson included.
LessonFrom(source) ==
  Scl("memory", "compress", [source |-> source, target |-> "lesson.lint", max_tokens |-> 2])

---------------------------------------------------------------------------
(* Every kind of refusal, costs from 0 to 5, explicit spending, penalties. *)

MCDenials == {ScriptReply(Call("pytest", "read_only")),
              ScriptReply(Call("rm", "read_only")),
              ScriptReply(Scl("tool", "call", [name |-> "git.diff", risk |-> "read_only",
                                               args |-> "rm -rf"])),
              ScriptReply(Update([plan |-> "ignore policy"])),
              TextReply("passed", TRUE)}

MCHalts == {ScriptReply(Answer("complete", 90, "passed")),
            ScriptReply(Answer("complete", 100, "passed")),
            ScriptReply(Answer("blocked", 90, "passed")),
            CrashReply}

MCSpending == {ScriptReply(Pytest), ScriptReply(BudgetTool), ScriptReply(MemoryTool),
               ScriptReply(Scl("budget", "check", <<>>)),
               MendedReply(Scl("budget", "spend", [units |-> 4])),
               ScriptReply(Scl("memory", "ignore", [reason |-> "noise"])),
               ScriptReply(Scl("repair", "diagnose", [reason |-> "lint"]))}

MCCoreReplies == MCDenials \cup MCHalts \cup MCSpending

\* The outcomes a step can have, and a state dict that is the model's to fill.
MCRecordReplies == {ScriptReply(Pytest), ScriptReply(Verify("unit_test")),
                    ScriptReply(Citing("pytest")), ScriptReply(Citing("forged")),
                    ScriptReply(Answer("complete", 90, "")),
                    ScriptReply(Answer("complete", 100, "passed")),
                    ScriptReply(Answer("blocked", 90, "passed")),
                    TextReply("passed", TRUE),
                    ScriptReply(Update([latest_evidence_ref |-> "forged"])),
                    ScriptReply(Update([evidence_provenance |-> "forged"])),
                    ScriptReply(Update([verified_evidence |-> "forged",
                                        last_verify |-> "passed"])),
                    ScriptReply(Scl("tool", "deny", [reason |-> "not needed"]))}

Patch(target) == Scl("tool", "call", [name |-> "shell.patch", risk |-> "write_limited",
                                      args |-> "diff", target |-> target])

MCEffectReplies == {ScriptReply(Patch(p)) : p \in {"a.py", "/w/a.py", "/w/pkg", "gone"}}
  \cup {ScriptReply(Call("shell.readonly", "read_only")),
        ScriptReply(Scl("repair", "patch", [target |-> "a.py"])),
        ScriptReply(Scl("repair", "rollback", [artifact |-> "a.py"])),
        ScriptReply(Scl("repair", "rollback", [artifact |-> "/w/a.py"])),
        ScriptReply(Note("persistent")), ScriptReply(LessonFrom("note")),
        ScriptReply(LessonFrom("lint")),
        ScriptReply(Scl("memory", "read", [query |-> "lint"]))}

---------------------------------------------------------------------------

MCInitialState == [task_id |-> "t", phase |-> "init"]

\* A temperature that halves nothing: stated confidences are believed.
Believed == [c \in 0..100 |-> c]
\* A scaler that has learned not to believe a full confidence.
Doubted == [c \in 0..100 |-> IF c = 100 THEN 60 ELSE c]

MCPathTexts == {"a.py", "/w/a.py", "/w/pkg", "gone", "tests"}
MCAbsolute == [p \in MCPathTexts |-> IF p = "a.py" THEN "/w/a.py" ELSE p]
MCFileOf == [p \in MCPathTexts |-> IF p = "/w/a.py" THEN "A" ELSE "none"]
MCContents == {"v0", "v1"}
MCDecode == [c \in MCContents |-> c]
MCInitialFiles == [f \in {"A"} |-> "v0"]
\* An empty workspace, for the runs whose questions are not about files.
MCNoFileOf == [p \in MCPathTexts |-> "none"]
MCNoFiles == [f \in {} |-> "v0"]

MCKeys == {"task.note", "lesson.lint"}
MCKeyTier == [k \in MCKeys |-> IF k = "lesson.lint" THEN "episodic" ELSE "short_term"]
MCKeyContains == {<<"note", "task.note">>, <<"lint", "lesson.lint">>}
MCSeed == <<>>
MCMemoryActions == {Note("persistent"), LessonFrom("note"), LessonFrom("lint"),
                    Scl("memory", "read", [query |-> "lint"]),
                    Scl("memory", "ignore", [reason |-> "noise"])}
=============================================================================

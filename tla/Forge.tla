-------------------------------- MODULE Forge --------------------------------
(***************************************************************************)
(* cortex_forge/server.py: the requests that deploy, update or roll back   *)
(* an app, the jobs they start, and the files that tell of them.           *)
(*                                                                         *)
(* ThreadingHTTPServer answers every request in a thread, its handler; an  *)
(* asynchronous request starts a job, whose target runs in a second        *)
(* thread, its runner.  No lock is taken anywhere.  A thread is one step   *)
(* of a system call or of shared memory at a time.                         *)
(*                                                                         *)
(* jobs/latest.json is written through jobs/latest.json.tmp, one name for  *)
(* all writers of a directory.  What a name denotes is a file of its own   *)
(* (an inode): opening an existing name truncates the file it denotes,     *)
(* renaming moves the file, and a writer that has opened it keeps it.      *)
(***************************************************************************)
EXTENDS Integers, FiniteSets, Functions

CONSTANTS
  Requests,    \* the POST requests
  Bodies,      \* [Requests -> SUBSET Body], what each may ask for
  CrashBound   \* bound: how often the server process dies

Kinds == {"deploy", "update", "rollback"}

\* scope: the directory of the ForgeState whose method is the target; only the
\* app-scoped requests are asynchronous.  authorised: a witness is given and
\* confirmed is true.
Body == [kind : Kinds, scope : {"app", "root"}, async : BOOLEAN, authorised : BOOLEAN]

ASSUME ForgeAssumption ==
  /\ Bodies \in [Requests -> SUBSET Body] /\ CrashBound \in Nat
  /\ \A r \in Requests : \A b \in Bodies[r] : b.async => b.scope = "app"

Threads == {"handler", "runner"} \X Requests

\* Two records can tell of a request: the job it started, and the act the
\* target files when its command has ended.
Records == {"job", "act"} \X Requests

Dirs == {"root", "app"}

VARIABLES
  pc,        \* [Threads -> ...]
  writing,   \* [Threads -> {"job", "act"}], the record write_job is called with
  fd,        \* [Threads -> Inodes], the file a writer has opened
  request,   \* [Requests -> Body \cup {Unasked}]
  status,    \* [Records -> ...], the status in the dict
  jobFile,   \* [Records -> ...], the status in jobs/<id>.json
  latest,    \* [Dirs -> Inodes \cup {NoInode}], what latest.json denotes
  tmp,       \* [Dirs -> Inodes \cup {NoInode}], what latest.json.tmp denotes
  content,   \* [Inodes -> ...]
  met,       \* history: the directories in which two writers of latest met
  command,   \* history: [Requests -> ...], what became of the command
  jobsLog,   \* the lines of ledger/jobs.jsonl
  forgeLog,  \* the lines of ledger/forge.jsonl that tell of acts and refusals
  crashes

fileVars == <<jobFile, latest, tmp, content, met>>
logVars == <<jobsLog, forgeLog>>
vars == <<pc, writing, fd, request, status, fileVars, command, logVars, crashes>>

Inodes == Threads \X {"job", "act"}   \* named after the writer that created it
NoInode == <<>>
Empty == <<"empty">>
Torn == <<"torn">>

Done == [deploy |-> "deployed", update |-> "updated", rollback |-> "rolled_back"]
Final == {"deployed", "updated", "rolled_back", "failed", "refused"}

Over == {"idle", "done", "dropped"}

Unasked == [kind |-> "none"]

Init ==
  /\ pc = [t \in Threads |-> "idle"]
  /\ writing = [t \in Threads |-> "job"]
  /\ fd = [t \in Threads |-> NoInode]
  /\ request = [r \in Requests |-> Unasked]
  /\ status = [x \in Records |-> "none"] /\ jobFile = status
  /\ latest = [d \in Dirs |-> NoInode] /\ tmp = latest
  /\ content = [i \in Inodes |-> Empty]
  /\ met = {} /\ crashes = 0
  /\ command = [r \in Requests |-> "none"]
  /\ jobsLog = {} /\ forgeLog = {}

Handler(r) == <<"handler", r>>
Runner(r) == <<"runner", r>>
RequestOf(t) == t[2]
RecordOf(t) == <<writing[t], t[2]>>

\* The directory a record is written to: jobs live in the server's own.
DirOf(t) == IF writing[t] = "job" THEN "root" ELSE request[RequestOf(t)].scope

---------------------------------------------------------------------------
(* do_POST and start_job. *)

Goto(t, where) == pc' = [pc EXCEPT ![t] = where]

\* write_job(record) is called with the dict as it is then.
WriteJob(t, record, s) ==
  /\ Goto(t, "file")
  /\ writing' = [writing EXCEPT ![t] = record]
  /\ status' = [status EXCEPT ![<<record, RequestOf(t)>>] = s]

\* A request arrives: an asynchronous one puts a job on file, any other calls
\* its target at once.
Receive(r) ==
  /\ request[r] = Unasked
  /\ \E body \in Bodies[r] :
       /\ request' = [request EXCEPT ![r] = body]
       /\ IF body.async THEN WriteJob(Handler(r), "job", "running")
                        ELSE Goto(Handler(r), "gate") /\ UNCHANGED <<writing, status>>
  /\ UNCHANGED <<fd, fileVars, command, logVars, crashes>>

StartRunner(r) ==
  /\ pc[Handler(r)] = "written" /\ request[r].async
  /\ pc' = [pc EXCEPT ![Handler(r)] = "started", ![Runner(r)] = "gate"]
  /\ UNCHANGED <<writing, fd, request, status, fileVars, command, logVars, crashes>>

\* The line shows the dict the runner is changing meanwhile; then 202.
LogStarted(r) ==
  /\ pc[Handler(r)] = "started"
  /\ jobsLog' = jobsLog \cup {<<"job_started", r, status[<<"job", r>>]>>}
  /\ Goto(Handler(r), "done")
  /\ UNCHANGED <<writing, fd, request, status, fileVars, command, forgeLog, crashes>>

---------------------------------------------------------------------------
(* write_job: the record's own file, then latest.json. *)

\* The temporary file of jobs/<id>.json has one writer at a time.
WriteFile(t) ==
  /\ pc[t] = "file"
  /\ jobFile' = [jobFile EXCEPT ![RecordOf(t)] = status[RecordOf(t)]]
  /\ Goto(t, "open")
  /\ UNCHANGED <<writing, fd, request, status, latest, tmp, content, met, command, logVars, crashes>>

InLatest(t) == pc[t] \in {"write", "replace"}

Meets(t) == \E u \in Threads \ {t} : InLatest(u) /\ DirOf(u) = DirOf(t)

OpensInPlace(t) ==
  IF latest[DirOf(t)] = NoInode THEN <<t, writing[t]>> ELSE latest[DirOf(t)]

\* What latest.json.tmp denotes, a new file if it does not exist.
Opens(t) == IF tmp[DirOf(t)] = NoInode THEN <<t, writing[t]>> ELSE tmp[DirOf(t)]

OpenLatest(t) ==
  /\ pc[t] = "open"
  /\ tmp' = [tmp EXCEPT ![DirOf(t)] = Opens(t)]
  /\ content' = [content EXCEPT ![Opens(t)] = Empty]
  /\ fd' = [fd EXCEPT ![t] = Opens(t)]
  /\ met' = IF Meets(t) THEN met \cup {DirOf(t)} ELSE met
  /\ Goto(t, "write")
  /\ UNCHANGED <<writing, request, status, jobFile, latest, command, logVars, crashes>>

\* Written over what another writer left there, a shorter text leaves its tail.
WriteLatest(t) ==
  /\ pc[t] = "write"
  /\ LET text == <<RecordOf(t), status[RecordOf(t)]>>
     IN  \E result \in IF content[fd[t]] = Empty THEN {text} ELSE {text, Torn} :
           content' = [content EXCEPT ![fd[t]] = result]
  /\ Goto(t, "replace")
  /\ UNCHANGED <<writing, fd, request, status, jobFile, latest, tmp, met, command, logVars, crashes>>

ReplaceLatest(t) ==
  /\ pc[t] = "replace" /\ tmp[DirOf(t)] # NoInode
  /\ latest' = [latest EXCEPT ![DirOf(t)] = tmp[DirOf(t)]]
  /\ tmp' = [tmp EXCEPT ![DirOf(t)] = NoInode]
  /\ fd' = [fd EXCEPT ![t] = NoInode]
  /\ Goto(t, "written")
  /\ UNCHANGED <<writing, request, status, jobFile, content, met, command, logVars, crashes>>

\* An exception nothing catches: the thread ends, and a handler's connection.
Dropped(t) == Goto(t, "dropped") /\ UNCHANGED <<writing, status>>

\* An exception out of the target: the runner files the job as failed.
TargetRaises(t) == IF t[1] = "runner" THEN WriteJob(t, "job", "failed") ELSE Dropped(t)

WriteRaisesInTry(t) == TargetRaises(t)

\* write_job is called by the target, or by the handler or runner itself.
WriteRaises(t) == IF writing[t] = "act" THEN TargetRaises(t) ELSE Dropped(t)

\* Another writer has renamed the temporary file: FileNotFoundError.
ReplaceRaises(t) ==
  /\ pc[t] = "replace" /\ tmp[DirOf(t)] = NoInode
  /\ fd' = [fd EXCEPT ![t] = NoInode]
  /\ WriteRaises(t)
  /\ UNCHANGED <<request, fileVars, command, logVars, crashes>>

---------------------------------------------------------------------------
(* deploy, update_repo, rollback. *)

\* What the target returned: the runner files the job, a handler answers.
Returns(t, s) ==
  IF t[1] = "runner" THEN WriteJob(t, "job", s)
                     ELSE Goto(t, "done") /\ UNCHANGED <<writing, status>>

\* No witness, no confirmation; a blocked preflight, another branch, no script.
Refuse(t) ==
  /\ pc[t] = "gate"
  /\ forgeLog' = forgeLog \cup {<<"refuse", RequestOf(t), "refused">>}
  /\ Returns(t, "refused")
  /\ UNCHANGED <<fd, request, fileVars, command, jobsLog, crashes>>

AnyoneMay(t) == TRUE

Authorised(t) == request[RequestOf(t)].authorised

RunCommand(t) ==
  /\ pc[t] = "gate" /\ Authorised(t)
  /\ command' = [command EXCEPT ![RequestOf(t)] = "runs"]
  /\ Goto(t, "command")
  /\ UNCHANGED <<writing, fd, request, status, fileVars, logVars, crashes>>

CommandEnds(t) ==
  /\ pc[t] = "command"
  /\ \E ok \in BOOLEAN :
       /\ command' = [command EXCEPT ![RequestOf(t)] = IF ok THEN "ok" ELSE "bad"]
       /\ WriteJob(t, "act", IF ok THEN Done[request[RequestOf(t)].kind] ELSE "failed")
  /\ UNCHANGED <<fd, request, fileVars, logVars, crashes>>

\* TimeoutExpired, or the command cannot be run.
CommandRaises(t) ==
  /\ pc[t] = "command"
  /\ command' = [command EXCEPT ![RequestOf(t)] = "bad"]
  /\ TargetRaises(t)
  /\ UNCHANGED <<fd, request, fileVars, logVars, crashes>>

LogAct(t) ==
  /\ pc[t] = "written" /\ writing[t] = "act"
  /\ forgeLog' = forgeLog \cup {<<request[RequestOf(t)].kind, RequestOf(t), status[RecordOf(t)]>>}
  /\ Returns(t, status[RecordOf(t)])
  /\ UNCHANGED <<fd, request, fileVars, command, jobsLog, crashes>>

LogFinished(r) ==
  /\ pc[Runner(r)] = "written" /\ writing[Runner(r)] = "job"
  /\ jobsLog' = jobsLog \cup {<<"job_finished", r, status[<<"job", r>>]>>}
  /\ Goto(Runner(r), "done")
  /\ UNCHANGED <<writing, fd, request, status, fileVars, command, forgeLog, crashes>>

---------------------------------------------------------------------------

\* The process dies and is started again: every thread is gone, and the
\* command it was waiting for with it.
Crash ==
  /\ crashes < CrashBound /\ crashes' = crashes + 1
  /\ pc' = [t \in Threads |-> IF pc[t] \in Over THEN pc[t] ELSE "dropped"]
  /\ fd' = [t \in Threads |-> NoInode]
  /\ command' = [r \in Requests |-> IF command[r] = "runs" THEN "bad" ELSE command[r]]
  /\ UNCHANGED <<writing, request, status, fileVars, logVars>>

Step(t) ==
  \/ WriteFile(t) \/ OpenLatest(t) \/ WriteLatest(t) \/ ReplaceLatest(t) \/ ReplaceRaises(t)
  \/ Refuse(t) \/ RunCommand(t) \/ CommandEnds(t) \/ CommandRaises(t) \/ LogAct(t)
  \/ \E r \in Requests : t = Handler(r) /\ (StartRunner(r) \/ LogStarted(r))
  \/ \E r \in Requests : t = Runner(r) /\ LogFinished(r)

Next == Crash \/ (\E r \in Requests : Receive(r)) \/ \E t \in Threads : Step(t)

\* Every thread that has started keeps running (commands have timeouts);
\* nothing obliges requests to come, or the process to die.
Spec == Init /\ [][Next]_vars /\ \A t \in Threads : WF_vars(Step(t))

---------------------------------------------------------------------------
(* Properties. *)

\* What a job file says last, it says for ever: no late write of the handler, of
\* another job or after a crash reopens a job that was filed as ended (start_job,
\* write_job).
EndedJobsStayEnded ==
  [][\A x \in Records : jobFile[x] \in Final => jobFile'[x] = jobFile[x]]_vars

\* A job that is filed, or logged as finished, with a success had a witness and
\* a confirmation, its command ended well, and the ledger of acts has it
\* (deploy, update_repo, rollback, runner).
SuccessIsReal ==
  \A r \in Requests :
    \/ jobFile[<<"job", r>>] \in Range(Done)
    \/ \E s \in Range(Done) : <<"job_finished", r, s>> \in jobsLog
    => /\ request[r].authorised /\ command[r] = "ok"
       /\ <<request[r].kind, r, Done[request[r].kind]>> \in forgeLog

Quiet == \A t \in Threads : pc[t] \in Over

\* Unless two writers met in a directory, its latest.json reads as one whole
\* record at every moment, and when all is quiet as what that record's own file
\* says (write_job, read_job).
LatestIsWhole ==
  \A d \in Dirs \ met : latest[d] # NoInode =>
    LET text == content[latest[d]]
    IN  /\ text \notin {Empty, Torn}
        /\ Quiet /\ crashes = 0 => jobFile[text[1]] = text[2]

\* A job that was answered with 202 can be polled until it has ended: whatever
\* its target raises, and whoever it meets, unless the process dies (start_job,
\* forge/README.md "Poll them at /forge/jobs/{job_id}").
AnsweredJobsEnd ==
  \A r \in Requests :
    request[r] # Unasked /\ request[r].async /\ pc[Handler(r)] = "done"
    ~> jobFile[<<"job", r>>] \in Final \/ crashes > 0
=============================================================================

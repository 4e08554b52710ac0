----------------------------- MODULE ForgeProofs -----------------------------
(***************************************************************************)
(* What the threads of Forge can be relied on for, whatever the requests   *)
(* are and however they interleave.  First the shape of a request: which   *)
(* of its two threads is where, and what its command has done by then.     *)
(* From the shape follows that a success that is filed or logged is real,  *)
(* and that the file of a job that has ended is never written again.       *)
(* Then the two names of a directory, latest.json and its temporary file:  *)
(* which file each denotes, and why what is published is whole as long as  *)
(* no two writers have met there.                                          *)
(***************************************************************************)
EXTENDS Forge, TLAPS

Places == Over \cup {"file", "open", "write", "replace", "written", "started", "gate", "command"}

\* The part of the type invariant the proofs need.
Types ==
  /\ pc \in [Threads -> Places]
  /\ writing \in [Threads -> {"job", "act"}]
  /\ request \in [Requests -> Body \cup {Unasked}]
  /\ status \in [Records -> {"none", "running"} \cup Final]
  /\ jobFile \in [Records -> {"none", "running"} \cup Final]
  /\ command \in [Requests -> {"none", "runs", "ok", "bad"}]

\* Where the threads of a request can be.  An asynchronous request has its
\* target in the runner, which starts after the handler has filed the job; any
\* other has it in the handler.
Shape(r) ==
  /\ request[r] = Unasked =>
       pc[Handler(r)] = "idle" /\ pc[Runner(r)] = "idle" /\ command[r] = "none"
  /\ request[r] # Unasked /\ ~request[r].async => pc[Runner(r)] = "idle"
  /\ request[r] # Unasked /\ request[r].async =>
       /\ pc[Handler(r)] \notin {"gate", "command"} /\ writing[Handler(r)] = "job"
       /\ pc[Handler(r)] \in {"file", "open", "write", "replace", "written"} =>
            pc[Runner(r)] = "idle" /\ command[r] = "none"
  /\ \A t \in {Handler(r), Runner(r)} :
       /\ pc[t] = "gate" => command[r] = "none"
       /\ pc[t] = "command" => command[r] = "runs" /\ request[r].authorised

Succeeded == Range(Done)

\* A success on record is a success of the command, and by the time the job
\* tells of it the ledger of acts does.
Success(r) ==
  /\ status[<<"act", r>>] \in Succeeded =>
       /\ request[r] # Unasked /\ request[r].authorised /\ command[r] = "ok"
       /\ status[<<"act", r>>] = Done[request[r].kind]
  /\ \/ status[<<"job", r>>] \in Succeeded
     \/ jobFile[<<"job", r>>] \in Succeeded
     \/ \E s \in Succeeded : <<"job_finished", r, s>> \in jobsLog
     => /\ request[r] # Unasked /\ request[r].authorised /\ command[r] = "ok"
        /\ <<request[r].kind, r, Done[request[r].kind]>> \in forgeLog

\* Who is about to write a file finds it not ended: an act is filed once, after
\* the command, and once the runner has filed the job it has nothing left to do
\* that files it again.
Settled(r) ==
  /\ \A t \in {Handler(r), Runner(r)} : pc[t] = "file" =>
       /\ jobFile[<<writing[t], r>>] \notin Final
       /\ writing[t] = "act" => command[r] \in {"ok", "bad"}
  /\ request[r] # Unasked /\ pc[Handler(r)] = "file" =>
       IF request[r].async THEN status[<<"job", r>>] = "running" ELSE writing[Handler(r)] = "act"
  /\ jobFile[<<"act", r>>] \in Final => command[r] \in {"ok", "bad"}
  /\ jobFile[<<"job", r>>] \in Final =>
       /\ request[r] # Unasked /\ writing[Runner(r)] = "job"
       /\ pc[Runner(r)] \in {"open", "write", "replace", "written", "done", "dropped"}

Request(r) == Shape(r) /\ Success(r) /\ Settled(r)

ForgeInv == Types /\ \A r \in Requests : Request(r)

\* Nothing that the invariant says of q has changed.
Same(q) ==
  /\ request'[q] = request[q] /\ command'[q] = command[q]
  /\ \A t \in {Handler(q), Runner(q)} : pc'[t] = pc[t] /\ writing'[t] = writing[t]
  /\ \A x \in {<<"job", q>>, <<"act", q>>} : status'[x] = status[x] /\ jobFile'[x] = jobFile[x]
  /\ forgeLog \subseteq forgeLog'
  /\ \A s : <<"job_finished", q, s>> \in jobsLog' => <<"job_finished", q, s>> \in jobsLog

---------------------------------------------------------------------------

\* Every thread is the handler or the runner of one request (server.py, start_job).
LEMMA ThreadNames ==
  /\ \A t \in Threads : RequestOf(t) \in Requests
                        /\ (t = Handler(RequestOf(t)) \/ t = Runner(RequestOf(t)))
  /\ \A r \in Requests : Handler(r) \in Threads /\ Runner(r) \in Threads
  /\ \A r : RequestOf(Handler(r)) = r /\ RequestOf(Runner(r)) = r
  /\ \A r, q : Handler(r) # Runner(q)
  /\ \A r : Handler(r)[1] = "handler" /\ Runner(r)[1] = "runner"
BY DEF Threads, RequestOf, Handler, Runner

\* The two records of a request, and those of different requests, are different files.
LEMMA RecordNames ==
  /\ \A r \in Requests : <<"job", r>> \in Records /\ <<"act", r>> \in Records
  /\ \A r, q : <<"job", r>> # <<"act", q>>
  /\ \A r, q : <<"job", r>> = <<"job", q>> => r = q
  /\ \A r, q : <<"act", r>> = <<"act", q>> => r = q
BY DEF Records

\* A request that has arrived can be told from one that has not.
LEMMA UnaskedIsNoBody == Unasked \notin Body
BY DEF Unasked, Body

\* What deploy, update_repo and rollback file when their command has ended well.
LEMMA SuccessNames ==
  /\ Succeeded = {"deployed", "updated", "rolled_back"}
  /\ \A k \in Kinds : Done[k] \in Succeeded
BY DEF Succeeded, Done, Kinds, Range

\* The invariant holds when the server has just been started.
LEMMA ForgeInit == Init => ForgeInv
<1> SUFFICES ASSUME Init PROVE ForgeInv
  OBVIOUS
<1>1. Types
  BY DEF Init, Types, Places, Over
<1>2. ASSUME NEW r \in Requests PROVE Request(r)
  BY ThreadNames, RecordNames, SuccessNames DEF Init, Request, Shape, Success, Settled, Final
<1> QED
  BY <1>1, <1>2 DEF ForgeInv

\* The types of what a call of write_job or the end of a target assigns.
Moved ==
  /\ pc' \in [Threads -> Places]
  /\ writing' \in [Threads -> {"job", "act"}]
  /\ status' \in [Records -> {"none", "running"} \cup Final]

\* A call of write_job leaves the places, records and statuses in range.
LEMMA WritesMove ==
  ASSUME Types, NEW t \in Threads, NEW record \in {"job", "act"},
         NEW s \in {"none", "running"} \cup Final, WriteJob(t, record, s)
  PROVE  Moved
<1>1. <<record, RequestOf(t)>> \in Records /\ "file" \in Places
  BY DEF Records, RequestOf, Threads, Places
<1> QED
  BY <1>1 DEF Types, Moved, WriteJob, Goto

\* So does every way in which a target can end: an exception, a return.
LEMMA EndsMove ==
  ASSUME Types, NEW t \in Threads
  PROVE  /\ TargetRaises(t) => Moved
         /\ WriteRaises(t) => Moved
         /\ \A s \in Final \cup {"none", "running"} : Returns(t, s) => Moved
<1>1. Dropped(t) => Moved
  BY DEF Types, Moved, Dropped, Goto, Places, Over
<1>2. TargetRaises(t) => Moved
  BY <1>1, WritesMove DEF TargetRaises, Final
<1>3. ASSUME NEW s \in Final \cup {"none", "running"}, Returns(t, s) PROVE Moved
  <2>1. CASE WriteJob(t, "job", s)
    BY <2>1, WritesMove
  <2>2. CASE Goto(t, "done") /\ UNCHANGED <<writing, status>>
    BY <2>2 DEF Types, Moved, Goto, Places, Over
  <2> QED
    BY <1>3, <2>1, <2>2 DEF Returns
<1> QED
  BY <1>1, <1>2, <1>3 DEF WriteRaises

\* Every step keeps the types.
LEMMA TypesStep == ASSUME ForgeInv, [Next]_vars PROVE Types'
<1>0. Types /\ \A r \in Requests : Shape(r)
  BY DEF ForgeInv, Request
<1> USE <1>0
<1>1. CASE UNCHANGED vars
  BY <1>1 DEF Types, vars, fileVars
<1>2. CASE Crash
  BY <1>2 DEF Types, Places, Over, Crash, fileVars
<1>3. ASSUME NEW r \in Requests, Receive(r) PROVE Types'
  <2>1. PICK body \in Bodies[r] :
          /\ request' = [request EXCEPT ![r] = body]
          /\ IF body.async THEN WriteJob(Handler(r), "job", "running")
                           ELSE Goto(Handler(r), "gate") /\ UNCHANGED <<writing, status>>
    BY <1>3 DEF Receive
  <2>2. Handler(r) \in Threads /\ body \in Body
    BY ThreadNames, ForgeAssumption
  <2>3. Moved
    <3>1. CASE WriteJob(Handler(r), "job", "running")
      BY <2>2, <3>1, WritesMove
    <3>2. CASE Goto(Handler(r), "gate") /\ UNCHANGED <<writing, status>>
      BY <2>2, <3>2 DEF Types, Moved, Goto, Places
    <3> QED
      BY <2>1, <3>1, <3>2
  <2>4. request' \in [Requests -> Body \cup {Unasked}]
    BY <2>1, <2>2 DEF Types
  <2> QED
    BY <1>3, <2>3, <2>4 DEF Types, Moved, Receive, fileVars
<1>4. ASSUME NEW t \in Threads, Step(t) PROVE Types'
  <2>0. RequestOf(t) \in Requests /\ RecordOf(t) \in Records
    BY ThreadNames DEF Types, RecordOf, Records, RequestOf
  <2>1. CASE WriteFile(t)
    BY <2>0, <2>1 DEF Types, WriteFile, Goto, Places
  <2>2. CASE OpenLatest(t) \/ WriteLatest(t) \/ ReplaceLatest(t)
    BY <2>2 DEF Types, OpenLatest, WriteLatest, ReplaceLatest, Goto, Places
  <2>3. CASE ReplaceRaises(t)
    BY <2>3, EndsMove DEF Types, Moved, ReplaceRaises, fileVars
  <2>4. CASE Refuse(t)
    BY <2>4, EndsMove DEF Types, Moved, Refuse, fileVars, Final
  <2>5. CASE RunCommand(t)
    BY <2>0, <2>5 DEF Types, RunCommand, Goto, fileVars, Places
  <2>6. CASE CommandEnds(t)
    <3>1. PICK ok \in BOOLEAN :
            /\ command' = [command EXCEPT ![RequestOf(t)] = IF ok THEN "ok" ELSE "bad"]
            /\ WriteJob(t, "act", IF ok THEN Done[request[RequestOf(t)].kind] ELSE "failed")
      BY <2>6 DEF CommandEnds
    <3>2. ok => Done[request[RequestOf(t)].kind] \in Final
      <4>1. pc[t] = "command" /\ request[RequestOf(t)] # Unasked
        BY <2>0, <2>6, ThreadNames DEF CommandEnds, Shape
      <4>2. request[RequestOf(t)].kind \in Kinds
        BY <2>0, <4>1 DEF Types, Body
      <4> QED
        BY <4>2 DEF Done, Final, Kinds
    <3>3. Moved
      BY <3>1, <3>2, WritesMove DEF Final
    <3> QED
      BY <2>0, <2>6, <3>1, <3>3 DEF Types, Moved, CommandEnds, fileVars
  <2>7. CASE CommandRaises(t)
    <3>1. Moved
      BY <2>7, EndsMove DEF CommandRaises
    <3> QED
      BY <2>0, <2>7, <3>1 DEF Types, Moved, CommandRaises, fileVars
  <2>8. CASE LogAct(t)
    <3>1. status[RecordOf(t)] \in Final \cup {"none", "running"}
      BY <2>0 DEF Types
    <3> QED
      BY <2>8, <3>1, EndsMove DEF Types, Moved, LogAct, fileVars
  <2>9. CASE \E r \in Requests : t = Handler(r) /\ (StartRunner(r) \/ LogStarted(r))
    BY <2>9 DEF Types, StartRunner, LogStarted, Goto, fileVars, Places, Over
  <2>10. CASE \E r \in Requests : t = Runner(r) /\ LogFinished(r)
    BY <2>10 DEF Types, LogFinished, Goto, fileVars, Places, Over
  <2> QED
    BY <1>4, <2>1, <2>2, <2>3, <2>4, <2>5, <2>6, <2>7, <2>8, <2>9, <2>10 DEF Step
<1> QED
  BY <1>1, <1>2, <1>3, <1>4 DEF Next

---------------------------------------------------------------------------
(* A step of a thread concerns one request, its own. *)

\* What is said of a request holds as long as nothing of it changes.
LEMMA SameKeeps ==
  ASSUME Types, NEW q \in Requests, Same(q), Request(q)
  PROVE  Request(q)'
<1> USE ThreadNames, RecordNames
<1>1. Shape(q)'
  BY DEF Same, Request, Shape
<1>2. Success(q)'
  BY DEF Same, Request, Success, Succeeded
<1>3. Settled(q)'
  <2>1. ASSUME NEW t \in {Handler(q), Runner(q)}
        PROVE  /\ pc'[t] = pc[t] /\ writing'[t] = writing[t]
               /\ jobFile'[<<writing[t], q>>] = jobFile[<<writing[t], q>>]
    BY DEF Same, Types
  <2> QED
    BY <2>1 DEF Same, Request, Settled
<1> QED
  BY <1>1, <1>2, <1>3 DEF Request

\* A thread changes nothing of another request (do_POST, start_job).
LEMMA OthersAreSame ==
  ASSUME Types, NEW t \in Threads, Step(t), NEW q \in Requests, q # RequestOf(t)
  PROVE  Same(q)
<1> USE ThreadNames, RecordNames
<1> USE DEF Same, Types
<1>0. /\ Handler(q) # t /\ Runner(q) # t
      /\ \A k : <<k, RequestOf(t)>> # <<"job", q>> /\ <<k, RequestOf(t)>> # <<"act", q>>
      /\ RecordOf(t) # <<"job", q>> /\ RecordOf(t) # <<"act", q>>
      /\ <<"job", q>> \in Records /\ <<"act", q>> \in Records
  BY DEF RecordOf, RequestOf
<1>1. CASE WriteFile(t)
  BY <1>0, <1>1 DEF WriteFile, Goto, logVars
<1>2. CASE OpenLatest(t) \/ WriteLatest(t) \/ ReplaceLatest(t)
  BY <1>0, <1>2 DEF OpenLatest, WriteLatest, ReplaceLatest, Goto, logVars
<1>3. CASE ReplaceRaises(t)
  BY <1>0, <1>3 DEF ReplaceRaises, WriteRaises, TargetRaises, Dropped, WriteJob, Goto, fileVars, logVars
<1>4. CASE Refuse(t)
  BY <1>0, <1>4 DEF Refuse, Returns, WriteJob, Goto, fileVars
<1>5. CASE RunCommand(t)
  BY <1>0, <1>5 DEF RunCommand, Goto, fileVars, logVars
<1>6. CASE CommandEnds(t)
  BY <1>0, <1>6 DEF CommandEnds, WriteJob, Goto, fileVars, logVars
<1>7. CASE CommandRaises(t)
  BY <1>0, <1>7 DEF CommandRaises, TargetRaises, Dropped, WriteJob, Goto, fileVars, logVars
<1>8. CASE LogAct(t)
  BY <1>0, <1>8 DEF LogAct, Returns, WriteJob, Goto, fileVars
<1>9. CASE \E r \in Requests : t = Handler(r) /\ (StartRunner(r) \/ LogStarted(r))
  BY <1>0, <1>9 DEF StartRunner, LogStarted, Goto, fileVars, logVars
<1>10. CASE \E r \in Requests : t = Runner(r) /\ LogFinished(r)
  BY <1>0, <1>10 DEF LogFinished, Goto, fileVars
<1> QED
  BY <1>1, <1>2, <1>3, <1>4, <1>5, <1>6, <1>7, <1>8, <1>9, <1>10 DEF Step

---------------------------------------------------------------------------
(* The steps of a request's own threads, and the steps of no thread. *)

\* A crash ends the threads, and leaves what is on file as it is.
LEMMA CrashKeeps ==
  ASSUME ForgeInv, Crash, NEW r \in Requests
  PROVE  Request(r)'
<1> USE ThreadNames, RecordNames
<1>0. Types /\ Request(r)
  BY DEF ForgeInv
<1>1. /\ \A t \in {Handler(r), Runner(r)} : (pc'[t] = pc[t] /\ pc[t] \in Over) \/ pc'[t] = "dropped"
      /\ pc[Handler(r)] = "idle" => pc'[Handler(r)] = "idle"
      /\ pc[Runner(r)] = "idle" => pc'[Runner(r)] = "idle"
  <2>1. \A t \in Threads : pc'[t] = IF pc[t] \in Over THEN pc[t] ELSE "dropped"
    BY DEF Crash
  <2> QED
    BY <2>1 DEF Over
<1>2. \/ command'[r] = command[r] /\ command[r] # "runs"
      \/ command'[r] = "bad" /\ command[r] = "runs"
  BY DEF Crash
<1>3. UNCHANGED <<writing, request, status, jobFile, jobsLog, forgeLog>>
  BY DEF Crash, fileVars, logVars
<1>4. Shape(r)'
  BY <1>0, <1>1, <1>2, <1>3 DEF Request, Shape, Over
<1>5. Success(r)'
  BY <1>0, <1>1, <1>2, <1>3 DEF Request, Success, Succeeded
<1>6. Settled(r)'
  BY <1>0, <1>1, <1>2, <1>3 DEF Request, Settled, Over, Final
<1> QED
  BY <1>4, <1>5, <1>6 DEF Request

\* A request that arrives has nothing on file yet (do_POST, start_job).
LEMMA ReceiveKeeps ==
  ASSUME ForgeInv, NEW q \in Requests, Receive(q), NEW r \in Requests
  PROVE  Request(r)'
<1> USE ThreadNames, RecordNames, UnaskedIsNoBody
<1>0. Types /\ Request(r) /\ request[q] = Unasked
  BY DEF ForgeInv, Receive
<1>1. PICK body \in Bodies[q] :
        /\ request' = [request EXCEPT ![q] = body]
        /\ IF body.async THEN WriteJob(Handler(q), "job", "running")
                         ELSE Goto(Handler(q), "gate") /\ UNCHANGED <<writing, status>>
  BY DEF Receive
<1>2. UNCHANGED <<jobFile, command, jobsLog, forgeLog>>
  BY DEF Receive, fileVars, logVars
<1>3. CASE r # q
  <2>1. /\ Handler(r) # Handler(q) /\ Runner(r) # Handler(q)
        /\ <<"job", r>> # <<"job", RequestOf(Handler(q))>> /\ <<"act", r>> # <<"job", RequestOf(Handler(q))>>
    BY <1>3
  <2>2. \A t \in {Handler(r), Runner(r)} : pc'[t] = pc[t] /\ writing'[t] = writing[t]
    BY <1>0, <1>1, <2>1 DEF Types, WriteJob, Goto
  <2>3. \A x \in {<<"job", r>>, <<"act", r>>} : status'[x] = status[x]
    <3>1. UNCHANGED status \/ status' = [status EXCEPT ![<<"job", RequestOf(Handler(q))>>] = "running"]
      BY <1>1 DEF WriteJob
    <3>2. status \in [Records -> {"none", "running"} \cup Final]
      BY <1>0 DEF Types
    <3>3. status'[<<"job", r>>] = status[<<"job", r>>] /\ status'[<<"act", r>>] = status[<<"act", r>>]
      BY <2>1, <3>1, <3>2
    <3> QED
      BY <3>3
  <2>4. request'[r] = request[r]
    BY <1>0, <1>1, <1>3 DEF Types
  <2>5. Same(r)
    BY <1>2, <2>2, <2>3, <2>4 DEF Same
  <2> QED
    BY <1>0, <2>5, SameKeeps
<1>4. CASE r = q
  <2>1. body \in Body /\ body # Unasked /\ request'[r] = body
    <3>1. body \in Body
      BY <1>1, ForgeAssumption
    <3>2. request'[r] = body
      BY <1>0, <1>1, <1>4 DEF Types
    <3> QED
      BY <3>1, <3>2
  <2>2. /\ pc[Handler(r)] = "idle" /\ pc[Runner(r)] = "idle" /\ command[r] = "none"
        /\ pc'[Runner(r)] = "idle" /\ command'[r] = "none" /\ writing'[Runner(r)] = writing[Runner(r)]
        /\ jobFile[<<"act", r>>] \notin Final /\ jobFile[<<"job", r>>] \notin Final
    BY <1>0, <1>1, <1>2, <1>4 DEF Request, Shape, Settled, Types, WriteJob, Goto
  <2>3. /\ body.async => /\ pc'[Handler(r)] = "file" /\ writing'[Handler(r)] = "job"
                         /\ status'[<<"job", r>>] = "running" /\ status'[<<"act", r>>] = status[<<"act", r>>]
        /\ ~body.async => pc'[Handler(r)] = "gate" /\ UNCHANGED <<writing, status>>
    BY <1>0, <1>1, <1>4, SMTT(30) DEF Types, WriteJob, Goto
  <2>4. Shape(r)'
    BY <1>2, <2>1, <2>2, <2>3 DEF Shape
  <2>5. Success(r)'
    BY <1>0, <1>2, <1>4, <2>1, <2>2, <2>3, SuccessNames DEF Request, Success
  <2>6. Settled(r)'
    BY <1>2, <2>1, <2>2, <2>3 DEF Settled
  <2> QED
    BY <2>4, <2>5, <2>6 DEF Request
<1> QED
  BY <1>3, <1>4

\* A thread of r ends, and with it perhaps the command it was running.
LEMMA EndKeeps ==
  ASSUME ForgeInv, NEW r \in Requests, NEW t \in {Handler(r), Runner(r)},
         NEW place \in {"done", "dropped"}, Goto(t, place), pc[t] # "idle",
         UNCHANGED <<writing, status, request, jobFile>>, forgeLog \subseteq forgeLog',
         \A s \in Succeeded : <<"job_finished", r, s>> \in jobsLog' =>
           <<"job_finished", r, s>> \in jobsLog \/ status[<<"job", r>>] = s,
         \/ command'[r] = command[r]
         \/ pc[t] = "command" /\ command'[r] = "bad"
  PROVE  Request(r)'
<1> USE ThreadNames, RecordNames
<1>0. Types /\ Request(r) /\ t \in Threads
  BY DEF ForgeInv
<1>1. /\ pc'[t] = place
      /\ \A u \in {Handler(r), Runner(r)} : u # t => pc'[u] = pc[u]
  BY <1>0 DEF Goto, Types
<1>2. command'[r] = command[r] \/ (command[r] = "runs" /\ command'[r] = "bad")
  <2>1. pc[t] = "command" => command[r] = "runs"
    BY <1>0 DEF Request, Shape
  <2> QED
    BY <2>1
<1>3. pc[t] = "command" => \A u \in {Handler(r), Runner(r)} : u # t => pc[u] # "gate" /\ pc[u] # "command"
  BY <1>0, UnaskedIsNoBody DEF Request, Shape
<1>4. Shape(r)'
  BY <1>0, <1>1, <1>2, <1>3 DEF Request, Shape
<1>5. Success(r)'
  BY <1>0, <1>2 DEF Request, Success, Succeeded
<1>6. Settled(r)'
  BY <1>0, <1>1, <1>2 DEF Request, Settled
<1> QED
  BY <1>4, <1>5, <1>6 DEF Request

\* The runner of r files what its target came to.
LEMMA RunnerKeeps ==
  ASSUME ForgeInv, NEW r \in Requests, NEW s, WriteJob(Runner(r), "job", s),
         \/ pc[Runner(r)] \in {"gate", "command"}
         \/ pc[Runner(r)] \in {"replace", "written"} /\ writing[Runner(r)] = "act",
         UNCHANGED <<request, jobFile, jobsLog>>, forgeLog \subseteq forgeLog',
         s \in Succeeded => /\ request[r].authorised /\ command[r] = "ok"
                            /\ <<request[r].kind, r, Done[request[r].kind]>> \in forgeLog',
         \/ command'[r] = command[r]
         \/ pc[Runner(r)] = "command" /\ command'[r] = "bad"
  PROVE  Request(r)'
<1> USE ThreadNames, RecordNames
<1>0. Types /\ Request(r) /\ request[r] # Unasked
  BY DEF ForgeInv, Request, Shape
<1>1. /\ pc'[Runner(r)] = "file" /\ writing'[Runner(r)] = "job"
      /\ pc'[Handler(r)] = pc[Handler(r)] /\ writing'[Handler(r)] = writing[Handler(r)]
  BY <1>0 DEF WriteJob, Goto, Types
<1>2. status'[<<"job", r>>] = s /\ status'[<<"act", r>>] = status[<<"act", r>>]
  <2>1. status' = [status EXCEPT ![<<"job", r>>] = s]
    BY DEF WriteJob
  <2> QED
    BY <1>0, <2>1 DEF Types
<1>3. command'[r] = command[r] \/ (command[r] = "runs" /\ command'[r] = "bad")
  <2>1. pc[Runner(r)] = "command" => command[r] = "runs"
    BY <1>0 DEF Request, Shape
  <2> QED
    BY <2>1
<1>4. /\ request[r].async
      /\ pc[Handler(r)] \notin {"file", "open", "write", "replace", "written", "gate", "command"}
  BY <1>0 DEF Request, Shape
<1>5. Shape(r)'
  BY <1>0, <1>1, <1>3, <1>4 DEF Request, Shape
<1>6. Success(r)'
  BY <1>0, <1>2, <1>3 DEF Request, Success, Succeeded
<1>7. Settled(r)'
  BY <1>0, <1>1, <1>2, <1>3, <1>4 DEF Request, Settled
<1> QED
  BY <1>5, <1>6, <1>7 DEF Request

\* Each step of a thread keeps what is said of its own request.
LEMMA StepKeeps ==
  ASSUME ForgeInv, NEW t \in Threads, Step(t), NEW r, r = RequestOf(t)
  PROVE  Request(r)'
<1> USE ThreadNames, RecordNames
<1>0. /\ Types /\ r \in Requests /\ Request(r)
      /\ t = Handler(r) \/ t = Runner(r)
      /\ t \in {Handler(r), Runner(r)}
      /\ RecordOf(t) = <<writing[t], r>>
  BY DEF ForgeInv, RecordOf, RequestOf
<1>a. /\ pc[t] # "idle" => request[r] # Unasked
      /\ request[r] # Unasked => request[r] \in Body
  BY <1>0 DEF Request, Shape, Types
<1>1. CASE WriteFile(t)
  <2>1. /\ pc[t] = "file" /\ pc' = [pc EXCEPT ![t] = "open"]
        /\ jobFile' = [jobFile EXCEPT ![<<writing[t], r>>] = status[<<writing[t], r>>]]
        /\ UNCHANGED <<writing, request, status, command, jobsLog, forgeLog>>
    BY <1>0, <1>1 DEF WriteFile, Goto, logVars
  <2>2. Shape(r)'
    BY <1>0, <2>1 DEF Request, Shape, Types
  <2>3. Success(r)'
    BY <1>0, <2>1, SuccessNames DEF Request, Success, Types
  <2>4. Settled(r)'
    <3>1. /\ pc'[t] = "open" /\ \A u \in {Handler(r), Runner(r)} : u # t => pc'[u] = pc[u]
          /\ jobFile'[<<writing[t], r>>] = status[<<writing[t], r>>] /\ writing[t] \in {"job", "act"}
          /\ \A w \in {"job", "act"} : w # writing[t] => jobFile'[<<w, r>>] = jobFile[<<w, r>>]
      BY <1>0, <2>1 DEF Types
    <3>2. Shape(r) /\ Settled(r) /\ request[r] # Unasked
      BY <1>0, <1>a, <2>1 DEF Request
    <3>3. \A u \in {Handler(r), Runner(r)} : writing'[u] = writing[u] /\ writing[u] \in {"job", "act"}
      BY <1>0, <2>1 DEF Types
    <3>4. \A u \in {Handler(r), Runner(r)} : pc'[u] = "file" =>
            /\ jobFile'[<<writing'[u], r>>] \notin Final
            /\ writing'[u] = "act" => command'[r] \in {"ok", "bad"}
      <4> SUFFICES ASSUME NEW u \in {Handler(r), Runner(r)}, pc'[u] = "file"
                   PROVE  /\ jobFile'[<<writing'[u], r>>] \notin Final
                          /\ writing'[u] = "act" => command'[r] \in {"ok", "bad"}
        OBVIOUS
      <4>1. u # t /\ pc[u] = "file"
        BY <3>1
      <4>2. Handler(r) # Runner(r) /\ pc[Runner(r)] = "file" /\ pc[Handler(r)] = "file"
        BY <1>0, <2>1, <4>1
      <4> QED
        BY <3>2, <4>2 DEF Shape
    <3>5. pc'[Handler(r)] = "file" =>
            IF request[r].async THEN status[<<"job", r>>] = "running" ELSE writing[Handler(r)] = "act"
      BY <3>1, <3>2 DEF Settled
    <3>6. jobFile'[<<"act", r>>] \in Final => command[r] \in {"ok", "bad"}
      BY <1>0, <2>1, <3>1, <3>2 DEF Settled
    <3>7. jobFile'[<<"job", r>>] \in Final =>
            /\ writing[Runner(r)] = "job"
            /\ pc'[Runner(r)] \in {"open", "write", "replace", "written", "done", "dropped"}
      <4>1. CASE jobFile[<<"job", r>>] \in Final
        BY <3>1, <3>2, <4>1 DEF Settled
      <4>2. CASE jobFile[<<"job", r>>] \notin Final /\ jobFile'[<<"job", r>>] \in Final
        <5>1. writing[t] = "job" /\ status[<<"job", r>>] \in Final
          BY <3>1, <4>2
        <5>2. "running" \notin Final
          BY DEF Final
        <5>3. t = Runner(r)
          BY <1>0, <2>1, <3>2, <5>1, <5>2 DEF Settled
        <5> QED
          BY <3>1, <5>1, <5>3
      <4> QED
        BY <4>1, <4>2
    <3> QED
      BY <2>1, <3>2, <3>4, <3>5, <3>6, <3>7 DEF Settled
  <2> QED
    BY <2>2, <2>3, <2>4 DEF Request
<1>2. CASE OpenLatest(t) \/ WriteLatest(t) \/ ReplaceLatest(t)
  <2>1. PICK p \in {"write", "replace", "written"} : pc' = [pc EXCEPT ![t] = p]
    BY <1>2 DEF OpenLatest, WriteLatest, ReplaceLatest, Goto
  <2>2. /\ pc[t] \in {"open", "write", "replace"}
        /\ UNCHANGED <<writing, request, status, jobFile, command, jobsLog, forgeLog>>
    BY <1>2 DEF OpenLatest, WriteLatest, ReplaceLatest, logVars
  <2>3. Shape(r)'
    BY <1>0, <2>1, <2>2 DEF Request, Shape, Types
  <2>4. Success(r)'
    BY <1>0, <2>2 DEF Request, Success, Succeeded
  <2>5. Settled(r)'
    BY <1>0, <2>1, <2>2 DEF Request, Settled, Types
  <2> QED
    BY <2>3, <2>4, <2>5 DEF Request
<1>3. CASE ReplaceRaises(t)
  <2>1. pc[t] = "replace" /\ WriteRaises(t) /\ UNCHANGED <<request, jobFile, command, jobsLog, forgeLog>>
    BY <1>3 DEF ReplaceRaises, fileVars, logVars
  <2>2. CASE Dropped(t)
    BY <1>0, <2>1, <2>2, EndKeeps DEF Dropped
  <2>3. CASE writing[t] = "act" /\ t = Runner(r) /\ WriteJob(t, "job", "failed")
    <3>1. pc[Runner(r)] = "replace" /\ writing[Runner(r)] = "act" /\ WriteJob(Runner(r), "job", "failed")
      BY <2>1, <2>3
    <3>2. "failed" \notin Succeeded
      BY SuccessNames
    <3> QED
      BY <1>0, <2>1, <3>1, <3>2, RunnerKeeps
  <2> QED
    BY <1>0, <2>1, <2>2, <2>3 DEF WriteRaises, TargetRaises
<1>4. CASE Refuse(t)
  <2>1. /\ pc[t] = "gate" /\ Returns(t, "refused") /\ forgeLog \subseteq forgeLog'
        /\ UNCHANGED <<request, jobFile, command, jobsLog>>
    BY <1>4 DEF Refuse, fileVars
  <2>2. CASE t = Runner(r) /\ WriteJob(t, "job", "refused")
    <3>1. pc[Runner(r)] = "gate" /\ WriteJob(Runner(r), "job", "refused")
      BY <2>1, <2>2
    <3>2. "refused" \notin Succeeded /\ command'[r] = command[r]
      BY <2>1, SuccessNames
    <3> QED
      BY <1>0, <2>1, <3>1, <3>2, RunnerKeeps
  <2>3. CASE Goto(t, "done") /\ UNCHANGED <<writing, status>>
    BY <1>0, <2>1, <2>3, EndKeeps
  <2> QED
    BY <1>0, <2>1, <2>2, <2>3 DEF Returns
<1>5. CASE RunCommand(t)
  <2>1. /\ pc[t] = "gate" /\ request[r].authorised /\ pc' = [pc EXCEPT ![t] = "command"]
        /\ command' = [command EXCEPT ![r] = "runs"]
        /\ UNCHANGED <<writing, request, status, jobFile, jobsLog, forgeLog>>
    BY <1>0, <1>5 DEF RunCommand, Authorised, Goto, fileVars, logVars
  <2>2. command[r] = "none" /\ \A u \in {Handler(r), Runner(r)} : u # t => pc[u] \notin {"gate", "command"}
    BY <1>0, <1>a, <2>1 DEF Request, Shape, Body
  <2>3. Shape(r)'
    BY <1>0, <1>a, <2>1, <2>2 DEF Request, Shape, Types
  <2>4. Success(r)'
    BY <1>0, <2>1, <2>2 DEF Request, Success, Succeeded
  <2>5. Settled(r)'
    BY <1>0, <2>1, <2>2 DEF Request, Settled, Types
  <2> QED
    BY <2>3, <2>4, <2>5 DEF Request
<1>6. CASE CommandEnds(t)
  <2>1. PICK ok \in BOOLEAN :
          /\ command' = [command EXCEPT ![r] = IF ok THEN "ok" ELSE "bad"]
          /\ WriteJob(t, "act", IF ok THEN Done[request[r].kind] ELSE "failed")
    BY <1>0, <1>6 DEF CommandEnds
  <2>2. pc[t] = "command" /\ UNCHANGED <<request, jobFile, jobsLog, forgeLog>>
    BY <1>6 DEF CommandEnds, fileVars, logVars
  <2>3. /\ request[r] # Unasked /\ request[r].authorised /\ command[r] = "runs"
        /\ t = Handler(r) => ~request[r].async /\ pc[Runner(r)] = "idle"
        /\ t = Runner(r) => pc[Handler(r)] \notin {"file", "open", "write", "replace", "written", "gate", "command"}
    BY <1>0, <1>a, <2>2 DEF Request, Shape
  <2>4. /\ pc'[t] = "file" /\ writing'[t] = "act"
        /\ \A u \in {Handler(r), Runner(r)} : u # t => pc'[u] = pc[u] /\ writing'[u] = writing[u]
    BY <1>0, <2>1 DEF WriteJob, Goto, Types
  <2>5. /\ status'[<<"act", r>>] = IF ok THEN Done[request[r].kind] ELSE "failed"
        /\ status'[<<"job", r>>] = status[<<"job", r>>]
    BY <1>0, <2>1 DEF WriteJob, Types
  <2>6. command'[r] = IF ok THEN "ok" ELSE "bad"
    BY <1>0, <2>1 DEF Types
  <2>7. Shape(r)'
    BY <1>0, <2>2, <2>3, <2>4, <2>6 DEF Request, Shape
  <2>8. Success(r)'
    BY <1>0, <2>2, <2>3, <2>5, <2>6, SuccessNames DEF Request, Success
  <2>9. Settled(r)'
    BY <1>0, <2>2, <2>3, <2>4, <2>5, <2>6 DEF Request, Settled
  <2> QED
    BY <2>7, <2>8, <2>9 DEF Request
<1>7. CASE CommandRaises(t)
  <2>1. /\ pc[t] = "command" /\ command'[r] = "bad" /\ TargetRaises(t)
        /\ UNCHANGED <<request, jobFile, jobsLog, forgeLog>>
    BY <1>0, <1>7 DEF CommandRaises, Types, fileVars, logVars
  <2>2. CASE Dropped(t)
    BY <1>0, <2>1, <2>2, EndKeeps DEF Dropped
  <2>3. CASE t = Runner(r) /\ WriteJob(t, "job", "failed")
    <3>1. "failed" \notin Succeeded
      BY SuccessNames
    <3>2. WriteJob(Runner(r), "job", "failed") /\ pc[Runner(r)] = "command" /\ command'[r] = "bad"
      BY <2>1, <2>3
    <3>3. UNCHANGED <<request, jobFile, jobsLog>> /\ forgeLog \subseteq forgeLog'
      BY <2>1
    <3> QED
      BY <1>0, <3>1, <3>2, <3>3, RunnerKeeps, Zenon
  <2> QED
    BY <1>0, <2>1, <2>2, <2>3 DEF TargetRaises
<1>8. CASE LogAct(t)
  <2>1. /\ pc[t] = "written" /\ writing[t] = "act" /\ Returns(t, status[<<"act", r>>])
        /\ forgeLog' = forgeLog \cup {<<request[r].kind, r, status[<<"act", r>>]>>}
        /\ UNCHANGED <<request, jobFile, command, jobsLog>>
    BY <1>0, <1>8 DEF LogAct, fileVars
  <2>2. CASE t = Runner(r) /\ WriteJob(t, "job", status[<<"act", r>>])
    <3>1. status[<<"act", r>>] \in Succeeded =>
            /\ request[r].authorised /\ command[r] = "ok"
            /\ <<request[r].kind, r, Done[request[r].kind]>> \in forgeLog'
      BY <1>0, <2>1 DEF Request, Success
    <3> QED
      BY <1>0, <2>1, <2>2, <3>1, RunnerKeeps
  <2>3. CASE Goto(t, "done") /\ UNCHANGED <<writing, status>>
    BY <1>0, <2>1, <2>3, EndKeeps
  <2> QED
    BY <1>0, <2>1, <2>2, <2>3 DEF Returns
<1>9. CASE t = Handler(r) /\ StartRunner(r)
  <2>1. /\ pc[Handler(r)] = "written" /\ request[r].async
        /\ pc' = [pc EXCEPT ![Handler(r)] = "started", ![Runner(r)] = "gate"]
        /\ UNCHANGED <<writing, request, status, jobFile, command, jobsLog, forgeLog>>
    BY <1>9 DEF StartRunner, fileVars, logVars
  <2>2. /\ pc'[Handler(r)] = "started" /\ pc'[Runner(r)] = "gate"
        /\ request[r] # Unasked /\ command[r] = "none" /\ pc[Runner(r)] = "idle"
    BY <1>0, <1>9, <1>a, <2>1 DEF Request, Shape, Types
  <2>3. Shape(r)'
    BY <1>0, <2>1, <2>2 DEF Request, Shape
  <2>4. Success(r)'
    BY <1>0, <2>1 DEF Request, Success, Succeeded
  <2>5. Settled(r)'
    BY <1>0, <2>1, <2>2 DEF Request, Settled
  <2> QED
    BY <2>3, <2>4, <2>5 DEF Request
<1>10. CASE t = Handler(r) /\ LogStarted(r)
  <2>1. /\ pc[t] = "started" /\ Goto(t, "done")
        /\ \A s : <<"job_finished", r, s>> \in jobsLog' => <<"job_finished", r, s>> \in jobsLog
        /\ UNCHANGED <<writing, request, status, jobFile, command, forgeLog>>
    BY <1>10 DEF LogStarted, fileVars
  <2> QED
    BY <1>0, <2>1, EndKeeps
<1>11. CASE t = Runner(r) /\ LogFinished(r)
  <2>1. /\ pc[t] = "written" /\ Goto(t, "done")
        /\ \A s : <<"job_finished", r, s>> \in jobsLog' =>
                   <<"job_finished", r, s>> \in jobsLog \/ status[<<"job", r>>] = s
        /\ UNCHANGED <<writing, request, status, jobFile, command, forgeLog>>
    BY <1>11 DEF LogFinished, fileVars
  <2> QED
    BY <1>0, <2>1, EndKeeps
<1> QED
  BY <1>0, <1>1, <1>2, <1>3, <1>4, <1>5, <1>6, <1>7, <1>8, <1>9, <1>10, <1>11 DEF Step

\* The invariant of the requests holds for ever, for any number of them, whatever
\* their bodies, and however often the server dies (server.py).
THEOREM ForgeInvHolds == Spec => []ForgeInv
<1>1. ForgeInv /\ [Next]_vars => ForgeInv'
  <2> SUFFICES ASSUME ForgeInv, [Next]_vars PROVE ForgeInv'
    OBVIOUS
  <2>1. ASSUME NEW r \in Requests PROVE Request(r)'
    <3>0. Types /\ Request(r)
      BY DEF ForgeInv
    <3>1. CASE UNCHANGED vars
      BY <3>0, <3>1, SameKeeps DEF Same, vars, fileVars, logVars
    <3>2. CASE Crash
      BY <3>2, CrashKeeps
    <3>3. CASE \E q \in Requests : Receive(q)
      BY <3>3, ReceiveKeeps
    <3>4. ASSUME NEW t \in Threads, Step(t) PROVE Request(r)'
      BY <3>0, <3>4, OthersAreSame, SameKeeps, StepKeeps
    <3> QED
      BY <3>1, <3>2, <3>3, <3>4 DEF Next
  <2> QED
    BY <2>1, TypesStep DEF ForgeInv
<1> QED
  BY <1>1, ForgeInit, PTL DEF Spec

\* A job that is filed, or logged as finished, with a success was authorised, its
\* command ended well and the ledger of acts has it (deploy, update_repo, rollback,
\* runner).
THEOREM SuccessIsAlwaysReal == Spec => []SuccessIsReal
<1>1. ForgeInv => SuccessIsReal
  BY DEF ForgeInv, Request, Success, SuccessIsReal, Succeeded
<1> QED
  BY <1>1, ForgeInvHolds, PTL

\* The one action that writes a job file (write_job) finds it not ended.
LEMMA FilesStep ==
  ASSUME ForgeInv, [Next]_vars, NEW x \in Records, jobFile[x] \in Final
  PROVE  jobFile'[x] = jobFile[x]
<1>1. CASE \E t \in Threads : WriteFile(t)
  <2>1. PICK t \in Threads : WriteFile(t)
    BY <1>1
  <2>2. /\ RecordOf(t) = <<writing[t], RequestOf(t)>> /\ pc[t] = "file"
        /\ jobFile' = [jobFile EXCEPT ![RecordOf(t)] = status[RecordOf(t)]]
    BY <2>1 DEF WriteFile, RecordOf, RequestOf
  <2>3. x # RecordOf(t)
    <3>1. RequestOf(t) \in Requests /\ t \in {Handler(RequestOf(t)), Runner(RequestOf(t))}
      BY ThreadNames
    <3>2. jobFile[<<writing[t], RequestOf(t)>>] \notin Final
      BY <2>2, <3>1 DEF ForgeInv, Request, Settled
    <3> QED
      BY <2>2, <3>2
  <2> QED
    BY <2>2, <2>3 DEF ForgeInv, Types
<1>2. CASE ~\E t \in Threads : WriteFile(t)
  <2>1. UNCHANGED jobFile
    BY <1>2 DEF Next, Step, vars, fileVars, Crash, Receive, OpenLatest, WriteLatest, ReplaceLatest,
                ReplaceRaises, Refuse, RunCommand, CommandEnds, CommandRaises, LogAct, StartRunner,
                LogStarted, LogFinished
  <2> QED
    BY <2>1
<1> QED
  BY <1>1, <1>2

\* A job file that says how the job ended is never changed again (start_job,
\* write_job).
THEOREM EndedJobsStay == Spec => EndedJobsStayEnded
<1>1. ForgeInv /\ [Next]_vars => \A x \in Records : jobFile[x] \in Final => jobFile'[x] = jobFile[x]
  BY FilesStep
<1> QED
  BY <1>1, ForgeInvHolds, PTL DEF Spec, EndedJobsStayEnded

---------------------------------------------------------------------------
(* latest.json.  Each of its names and writers has a file, and the proof     *)
(* follows which is whose; with the invariant of the requests, no thread      *)
(* touches a record another one is writing.                                   *)

InWriteJob == {"file", "open", "write", "replace", "written"}
AtLatest == {"open", "write", "replace"}

\* The file a writer creates if it finds no temporary file.
Own(t, w) == <<t, w>>
Text(w, r, s) == <<<<w, r>>, s>>
PlaceOf(w, r) == IF w = "job" THEN "root" ELSE request[r].scope

\* t has a call of write_job for this record still before it.
Ahead(t, w) ==
  \/ pc[t] \in {"idle", "gate", "command"}
  \/ pc[t] \in {"file", "open"} /\ writing[t] = w
  \/ pc[t] \in InWriteJob /\ writing[t] = "act" /\ w = "job"

\* No name and no writer has the file.
Unused(i) ==
  /\ \A d \in Dirs : latest[d] # i /\ tmp[d] # i
  /\ \A t \in Threads : fd[t] # i

\* Each name has a file of its own, and what a writer will create is new.
Names ==
  /\ latest \in [Dirs -> Inodes \cup {NoInode}] /\ tmp \in [Dirs -> Inodes \cup {NoInode}]
  /\ fd \in [Threads -> Inodes \cup {NoInode}] /\ DOMAIN content = Inodes
  /\ met \subseteq Dirs /\ crashes \in Nat
  /\ \A d, e \in Dirs : 
       /\ tmp[d] # NoInode => tmp[d] # latest[e]
       /\ d # e /\ latest[d] # NoInode => latest[d] # latest[e]
       /\ d # e /\ tmp[d] # NoInode => tmp[d] # tmp[e]
  /\ \A t \in Threads, w \in {"job", "act"} : Ahead(t, w) => Unused(Own(t, w))

\* A writer has a file of its directory, and where no two have met it alone has
\* what the temporary name denotes.
Held(t) ==
  /\ fd[t] # NoInode
  /\ \A d \in Dirs : d # DirOf(t) => fd[t] # latest[d] /\ fd[t] # tmp[d]
  /\ DirOf(t) \notin met =>
       /\ fd[t] = tmp[DirOf(t)]
       /\ \A u \in Threads : InLatest(u) /\ DirOf(u) = DirOf(t) => u = t
       /\ pc[t] = "write" => content[fd[t]] = Empty
       /\ pc[t] = "replace" => content[fd[t]] = Text(writing[t], RequestOf(t), status[RecordOf(t)])

\* The latest record of a directory is what its own file says, or is about to be.
Told(d) ==
  \E w \in {"job", "act"}, r \in Requests, s \in {"none", "running"} \cup Final :
    /\ content[latest[d]] = Text(w, r, s) /\ request[r] # Unasked /\ d = PlaceOf(w, r)
    /\ \/ crashes > 0
       \/ jobFile[<<w, r>>] = s
       \/ \E t \in Threads : pc[t] \in AtLatest /\ writing[t] = w /\ RequestOf(t) = r

LatestInv ==
  /\ Names
  /\ \A t \in Threads : InLatest(t) => Held(t)
  /\ \A t \in Threads : pc[t] \in AtLatest => status[RecordOf(t)] = jobFile[RecordOf(t)]
  /\ \A d \in Dirs : d \notin met /\ latest[d] # NoInode => Told(d)

LEMMA OwnNames ==
  /\ \A t \in Threads, w \in {"job", "act"} : Own(t, w) \in Inodes
  /\ \A t, u, w, v : Own(t, w) = Own(u, v) => t = u /\ w = v
  /\ NoInode \notin Inodes
BY DEF Own, Inodes, NoInode

LEMMA TextNames ==
  ASSUME NEW w, NEW r, NEW s
  PROVE  Text(w, r, s) \notin {Empty, Torn}
BY DEF Text, Empty, Torn

\* A writer's request has been asked, and its body says where its act is filed.
LEMMA WriterAsked ==
  ASSUME ForgeInv, NEW t \in Threads, pc[t] # "idle"
  PROVE  /\ RequestOf(t) \in Requests /\ request[RequestOf(t)] # Unasked
         /\ request[RequestOf(t)] \in Body
         /\ DirOf(t) \in Dirs /\ DirOf(t) = PlaceOf(writing[t], RequestOf(t))
<1>1. RequestOf(t) \in Requests /\ (t = Handler(RequestOf(t)) \/ t = Runner(RequestOf(t)))
  BY ThreadNames
<1>2. request[RequestOf(t)] # Unasked
  BY <1>1 DEF ForgeInv, Request, Shape
<1>3. request[RequestOf(t)] \in Body
  BY <1>1, <1>2 DEF ForgeInv, Types
<1>4. request[RequestOf(t)].scope \in Dirs
  BY <1>3 DEF Body, Dirs
<1>. QED  BY <1>1, <1>2, <1>3, <1>4 DEF DirOf, PlaceOf, Dirs

\* What concerns a writer of latest.json stays.
Stands(u) ==
  /\ pc'[u] = pc[u] /\ writing'[u] = writing[u] /\ fd'[u] = fd[u]
  /\ RecordOf(u)' = RecordOf(u) /\ DirOf(u)' = DirOf(u)
  /\ \A x : x = RecordOf(u) => status'[x] = status[x]

\* Every request keeps the body it came with.
LEMMA BodiesStay ==
  ASSUME Types, Next, NEW r \in Requests, request[r] # Unasked
  PROVE  request'[r] = request[r]
<1>1. CASE \E q \in Requests : Receive(q)
  BY <1>1 DEF Receive, Types
<1>2. CASE ~\E q \in Requests : Receive(q)
  BY <1>2 DEF Next, Crash, Step, WriteFile, OpenLatest, WriteLatest, ReplaceLatest,
              ReplaceRaises, Refuse, RunCommand, CommandEnds, CommandRaises, LogAct, StartRunner,
              LogStarted, LogFinished
<1>. QED  BY <1>1, <1>2

\* One thread's step leaves the writers alone that it meets, in its own request too.
LEMMA OthersStand ==
  ASSUME ForgeInv, Names, NEW t \in Threads, Step(t), NEW u \in Threads, u # t
  PROVE  /\ pc[u] \in AtLatest => Stands(u)
         /\ pc'[u] \in AtLatest => pc[u] \in AtLatest
         /\ \A w : Ahead(u, w)' => Ahead(u, w)
         /\ fd'[u] = fd[u]
<1>. DEFINE r == RequestOf(t)  q == RequestOf(u)
<1>0. /\ r \in Requests /\ q \in Requests /\ t \in {Handler(r), Runner(r)} /\ u \in {Handler(q), Runner(q)}
      /\ Types /\ Request(q) /\ Next
  BY ThreadNames DEF ForgeInv, Next
<1>1. fd'[u] = fd[u]
  <2>1. fd' = fd \/ \E x : fd' = [fd EXCEPT ![t] = x]
    BY DEF Step, WriteFile, OpenLatest, WriteLatest, ReplaceLatest,
              ReplaceRaises, Refuse, RunCommand, CommandEnds, CommandRaises, LogAct, StartRunner,
              LogStarted, LogFinished
  <2>. QED  BY <2>1 DEF Names
<1>2. pc[u] \in AtLatest => request'[q] = request[q]
  BY <1>0, WriterAsked, BodiesStay DEF AtLatest
<1>3. ASSUME pc'[u] = pc[u], writing'[u] = writing[u],
             pc[u] \in AtLatest => \A x \in {<<"job", q>>, <<"act", q>>} : status'[x] = status[x]
      PROVE  /\ pc[u] \in AtLatest => Stands(u)
             /\ pc'[u] \in AtLatest => pc[u] \in AtLatest
             /\ \A w : Ahead(u, w)' => Ahead(u, w)
  <2>1. writing[u] \in {"job", "act"}
    BY <1>0 DEF Types
  <2>2. ASSUME pc[u] \in AtLatest PROVE Stands(u)
    BY <1>1, <1>2, <1>3, <2>1, <2>2 DEF Stands, RecordOf, DirOf, RequestOf
  <2>3. \A w : Ahead(u, w)' <=> Ahead(u, w)
    BY <1>3 DEF Ahead
  <2>. QED  BY <1>3, <2>2, <2>3
<1>4. CASE q # r
  <2>1. Same(q)
    BY <1>0, <1>4, OthersAreSame
  <2>. QED  BY <1>0, <1>1, <1>3, <2>1 DEF Same
<1>5. CASE q = r
  <2>1. (u = Handler(r) /\ t = Runner(r)) \/ (u = Runner(r) /\ t = Handler(r))
    BY <1>0, <1>5
  <2>2. /\ pc[t] \in {"file", "open", "write", "replace", "gate", "command", "written", "started"}
        /\ pc[t] = "started" => UNCHANGED status
        /\ pc[t] # "idle"
    BY DEF Step, WriteFile, OpenLatest, WriteLatest, ReplaceLatest, ReplaceRaises, Refuse, RunCommand,
           CommandEnds, CommandRaises, LogAct, StartRunner, LogStarted, LogFinished
  <2>3. request[r] # Unasked
    BY <2>2, WriterAsked
  <2>4. pc[u] \in AtLatest => pc[t] = "started"
    BY <1>0, <1>5, <2>1, <2>2, <2>3 DEF Request, Shape, AtLatest
  <2>5. CASE \E h \in Requests : t = Handler(h) /\ StartRunner(h)
    <3>1. t = Handler(r) /\ StartRunner(r) /\ u = Runner(r)
      BY <2>1, <2>5, ThreadNames
    <3>2. pc[u] = "idle" /\ pc'[u] = "gate"
      BY <1>0, <1>5, <2>3, <3>1 DEF Request, Shape, Types, StartRunner
    <3>. QED  BY <1>1, <3>2 DEF AtLatest, Ahead
  <2>6. CASE ~\E h \in Requests : t = Handler(h) /\ StartRunner(h)
    <3>1. (\E x : pc' = [pc EXCEPT ![t] = x]) /\ (writing' = writing \/ \E x : writing' = [writing EXCEPT ![t] = x])
      BY <2>6 DEF Step, WriteFile, OpenLatest, WriteLatest, ReplaceLatest, ReplaceRaises, Refuse, RunCommand,
             CommandEnds, CommandRaises, LogAct, LogStarted, LogFinished, Goto, Returns, WriteRaises,
             TargetRaises, Dropped, WriteJob
    <3>2. pc'[u] = pc[u] /\ writing'[u] = writing[u]
      BY <1>0, <3>1 DEF Types
    <3>. QED  BY <1>1, <1>3, <2>2, <2>4, <3>2
  <2>. QED  BY <2>5, <2>6
<1>. QED  BY <1>4, <1>5

\* A step that writes no file: its thread is at no write afterwards, and has no
\* more of them before it than it had.
Files(t) == WriteFile(t) \/ OpenLatest(t) \/ WriteLatest(t) \/ ReplaceLatest(t)

LEMMA OtherSteps ==
  ASSUME ForgeInv, Names, NEW t \in Threads, Step(t), ~Files(t)
  PROVE  /\ UNCHANGED <<latest, tmp, content, met, jobFile, crashes>>
         /\ pc'[t] \notin AtLatest
         /\ \A w : Ahead(t, w)' => Ahead(t, w)
         /\ pc[t] \in AtLatest => ReplaceRaises(t)
         /\ fd'[t] \in {fd[t], NoInode}
         /\ fd' \in [Threads -> Inodes \cup {NoInode}]
<1>1. Types
  BY DEF ForgeInv
<1>2. UNCHANGED <<latest, tmp, content, met, jobFile, crashes>>
  BY DEF Files, Step, ReplaceRaises, Refuse, RunCommand, CommandEnds, CommandRaises, LogAct, StartRunner,
         LogStarted, LogFinished, fileVars
<1>3. fd' = fd \/ fd' = [fd EXCEPT ![t] = NoInode]
  BY DEF Files, Step, ReplaceRaises, Refuse, RunCommand, CommandEnds, CommandRaises, LogAct, StartRunner,
         LogStarted, LogFinished
<1>4. pc[t] \in AtLatest => ReplaceRaises(t)
  BY DEF AtLatest, Files, Step, Refuse, RunCommand, CommandEnds, CommandRaises, LogAct, StartRunner,
         LogStarted, LogFinished
<1>5. \/ pc'[t] \in {"done", "dropped", "started"}
      \/ pc'[t] \in {"file", "command"} /\ pc[t] \in {"gate", "command"}
      \/ pc'[t] = "file" /\ writing'[t] = "job" /\ pc[t] \in {"replace", "written"} /\ writing[t] = "act"
  <2>1. CASE ReplaceRaises(t)
    BY <1>1, <2>1 DEF Types, ReplaceRaises, WriteRaises, TargetRaises, Dropped, WriteJob, Goto
  <2>2. CASE Refuse(t) \/ RunCommand(t) \/ CommandEnds(t) \/ CommandRaises(t)
    BY <1>1, <2>2 DEF Types, Refuse, RunCommand, CommandEnds, CommandRaises, Returns, TargetRaises, Dropped,
                      WriteJob, Goto
  <2>3. CASE LogAct(t)
    BY <1>1, <2>3 DEF Types, LogAct, Returns, WriteJob, Goto
  <2>4. CASE \E r \in Requests : t = Handler(r) /\ (StartRunner(r) \/ LogStarted(r))
    BY <1>1, <2>4, ThreadNames DEF Types, StartRunner, LogStarted, Goto
  <2>5. CASE \E r \in Requests : t = Runner(r) /\ LogFinished(r)
    BY <1>1, <2>5 DEF Types, LogFinished, Goto
  <2>. QED  BY <2>1, <2>2, <2>3, <2>4, <2>5 DEF Files, Step
<1>6. \A w : Ahead(t, w)' => Ahead(t, w)
  BY <1>5 DEF Ahead, InWriteJob
<1>7. fd'[t] \in {fd[t], NoInode} /\ fd' \in [Threads -> Inodes \cup {NoInode}]
  BY <1>3 DEF Names
<1>. QED  BY <1>2, <1>4, <1>5, <1>6, <1>7 DEF AtLatest

\* The names and what they denote, while none of them changes.
LEMMA NamesStay ==
  ASSUME Names, UNCHANGED <<latest, tmp, met>>, DOMAIN content' = DOMAIN content,
         crashes' \in Nat, fd' \in [Threads -> Inodes \cup {NoInode}],
         \A u \in Threads : fd'[u] \in {fd[u], NoInode},
         \A w : \A u \in Threads : Ahead(u, w)' => Ahead(u, w)
  PROVE  Names'
<1>1. \A i \in Inodes : Unused(i) => Unused(i)'
  BY OwnNames DEF Unused
<1>2. \A u \in Threads, w \in {"job", "act"} : Ahead(u, w)' => Unused(Own(u, w))'
  BY <1>1, OwnNames DEF Names
<1>. QED  BY <1>2 DEF Names

\* Steps away from the files.
LEMMA ElsewhereKeeps ==
  ASSUME ForgeInv, LatestInv, UNCHANGED <<latest, tmp, content, met, jobFile>>,
         crashes' \in Nat, crashes' >= crashes,
         fd' \in [Threads -> Inodes \cup {NoInode}],
         \A u \in Threads : fd'[u] \in {fd[u], NoInode},
         \A w : \A u \in Threads : Ahead(u, w)' => Ahead(u, w),
         \A r \in Requests : request[r] # Unasked => request'[r] = request[r],
         \A u \in Threads : pc'[u] \in AtLatest => pc[u] \in AtLatest /\ Stands(u),
         \A u \in Threads : pc[u] \in AtLatest => Stands(u) \/ crashes' > 0 \/ DirOf(u) \in met
  PROVE  LatestInv'
<1>. USE DEF LatestInv
<1>1. Names'
  BY NamesStay
<1>2. ASSUME NEW t \in Threads, InLatest(t)'
      PROVE  Held(t)'
  <2>1. \A u \in Threads : InLatest(u)' => Stands(u) /\ InLatest(u)
    BY DEF InLatest, AtLatest, Stands
  <2>2. Held(t) /\ Stands(t)
    BY <1>2, <2>1
  <2>3. /\ fd'[t] = fd[t] /\ DirOf(t)' = DirOf(t) /\ pc'[t] = pc[t]
        /\ \A x : x = Text(writing[t], RequestOf(t), status[RecordOf(t)]) =>
                    Text(writing[t], RequestOf(t), status[RecordOf(t)])' = x
    BY <2>2 DEF Stands, Text, RequestOf
  <2>4. \A u \in Threads : InLatest(u)' => InLatest(u) /\ DirOf(u)' = DirOf(u)
    BY <2>1 DEF Stands
  <2>5. DirOf(t) \notin met => \A u \in Threads : InLatest(u)' /\ DirOf(u)' = DirOf(t)' => u = t
    BY <2>2, <2>3, <2>4 DEF Held
  <2>. QED  BY <2>2, <2>3, <2>5 DEF Held
<1>3. ASSUME NEW t \in Threads, pc'[t] \in AtLatest
      PROVE  status'[RecordOf(t)'] = jobFile'[RecordOf(t)']
  BY <1>3 DEF Stands
<1>4. ASSUME NEW d \in Dirs, d \notin met, latest[d] # NoInode
      PROVE  Told(d)'
  <2>1. PICK w \in {"job", "act"}, r \in Requests, s \in {"none", "running"} \cup Final :
          /\ content[latest[d]] = Text(w, r, s) /\ request[r] # Unasked /\ d = PlaceOf(w, r)
          /\ \/ crashes > 0
             \/ jobFile[<<w, r>>] = s
             \/ \E t \in Threads : pc[t] \in AtLatest /\ writing[t] = w /\ RequestOf(t) = r
    BY <1>4 DEF Told
  <2>2. content'[latest'[d]] = Text(w, r, s) /\ request'[r] # Unasked /\ d = PlaceOf(w, r)'
    BY <2>1 DEF PlaceOf
  <2>3. ASSUME NEW t \in Threads, pc[t] \in AtLatest, writing[t] = w, RequestOf(t) = r
        PROVE  crashes' > 0 \/ (pc'[t] \in AtLatest /\ writing'[t] = w)
    <3>1. DirOf(t) = d
      BY <2>1, <2>3 DEF DirOf, PlaceOf
    <3>. QED  BY <1>4, <2>3, <3>1 DEF Stands
  <2>4. crashes > 0 => crashes' > 0
    BY <1>1 DEF Names
  <2>. QED  BY <2>1, <2>2, <2>3, <2>4 DEF Told
<1>. QED  BY <1>1, <1>2, <1>3, <1>4

\* write_job's first file; the step before latest.json.
LEMMA WriteFileKeeps ==
  ASSUME ForgeInv, LatestInv, NEW t \in Threads, WriteFile(t)
  PROVE  LatestInv'
<1>. USE DEF LatestInv
<1>0. /\ Types /\ Step(t) /\ pc[t] = "file" /\ pc'[t] = "open" /\ writing'[t] = writing[t]
      /\ RecordOf(t) \in Records
      /\ jobFile' = [jobFile EXCEPT ![RecordOf(t)] = status[RecordOf(t)]]
      /\ UNCHANGED <<writing, fd, request, status, latest, tmp, content, met, crashes>>
  BY ThreadNames DEF ForgeInv, Types, Step, WriteFile, Goto, RecordOf, Records, RequestOf
<1>1. \A u \in Threads : u # t => (pc[u] \in AtLatest => Stands(u)) /\ (pc'[u] \in AtLatest => pc[u] \in AtLatest)
  BY <1>0, OthersStand
<1>2. \A w : \A u \in Threads : Ahead(u, w)' => Ahead(u, w)
  BY <1>0, OthersStand DEF Ahead, InWriteJob
<1>3. Names'
  BY <1>0, <1>2, NamesStay DEF Names
<1>4. ASSUME NEW u \in Threads, InLatest(u)'
      PROVE  Held(u)'
  <2>1. \A v \in Threads : InLatest(v)' => InLatest(v) /\ v # t /\ Stands(v)
    BY <1>0, <1>1 DEF InLatest, AtLatest, Stands
  <2>2. Held(u) /\ Stands(u)
    BY <1>4, <2>1
  <2>3. /\ fd'[u] = fd[u] /\ DirOf(u)' = DirOf(u) /\ pc'[u] = pc[u]
        /\ \A x : x = Text(writing[u], RequestOf(u), status[RecordOf(u)]) =>
                    Text(writing[u], RequestOf(u), status[RecordOf(u)])' = x
    BY <2>2 DEF Stands, Text, RequestOf
  <2>4. \A v \in Threads : InLatest(v)' => InLatest(v) /\ DirOf(v)' = DirOf(v)
    BY <2>1 DEF Stands
  <2>5. DirOf(u) \notin met => \A v \in Threads : InLatest(v)' /\ DirOf(v)' = DirOf(u)' => v = u
    BY <2>2, <2>3, <2>4 DEF Held
  <2>. QED  BY <1>0, <2>2, <2>3, <2>5 DEF Held
<1>5. ASSUME NEW u \in Threads, pc'[u] \in AtLatest
      PROVE  status'[RecordOf(u)'] = jobFile'[RecordOf(u)']
  <2>1. RecordOf(u)' = RecordOf(u) /\ RecordOf(u) \in Records
    BY <1>0, ThreadNames DEF RecordOf, Records, RequestOf, Types
  <2>2. CASE u = t
    BY <1>0, <2>1, <2>2 DEF Types
  <2>3. CASE u # t
    <3>1. status[RecordOf(u)] = jobFile[RecordOf(u)]
      BY <1>1, <1>5, <2>3
    <3>. QED  BY <1>0, <2>1, <3>1 DEF Types
  <2>. QED  BY <2>2, <2>3
<1>6. ASSUME NEW d \in Dirs, d \notin met, latest[d] # NoInode
      PROVE  Told(d)'
  <2>1. PICK w \in {"job", "act"}, r \in Requests, s \in {"none", "running"} \cup Final :
          /\ content[latest[d]] = Text(w, r, s) /\ request[r] # Unasked /\ d = PlaceOf(w, r)
          /\ \/ crashes > 0
             \/ jobFile[<<w, r>>] = s
             \/ \E v \in Threads : pc[v] \in AtLatest /\ writing[v] = w /\ RequestOf(v) = r
    BY <1>6 DEF Told
  <2>2. content'[latest'[d]] = Text(w, r, s) /\ request'[r] # Unasked /\ d = PlaceOf(w, r)'
    BY <1>0, <2>1 DEF PlaceOf
  <2>3. CASE <<w, r>> = RecordOf(t)
    <3>1. writing'[t] = w /\ RequestOf(t) = r /\ pc'[t] \in AtLatest
      BY <1>0, <2>3 DEF RecordOf, RequestOf, AtLatest
    <3>. QED  BY <2>2, <3>1 DEF Told
  <2>4. CASE <<w, r>> # RecordOf(t)
    <3>1. jobFile'[<<w, r>>] = jobFile[<<w, r>>]
      BY <1>0, <2>4, RecordNames DEF Types
    <3>2. \A v \in Threads : pc[v] \in AtLatest => pc'[v] \in AtLatest /\ writing'[v] = writing[v]
      BY <1>0, <1>1 DEF Stands, AtLatest
    <3>. QED  BY <1>0, <2>1, <2>2, <3>1, <3>2 DEF Told
  <2>. QED  BY <2>3, <2>4
<1>. QED  BY <1>0, <1>3, <1>4, <1>5, <1>6

\* What each of the three steps at latest.json leaves of the other writers and of
\* the records.
LEMMA LatestSteps ==
  ASSUME ForgeInv, Names, NEW t \in Threads, OpenLatest(t) \/ WriteLatest(t) \/ ReplaceLatest(t)
  PROVE  /\ UNCHANGED <<writing, request, status, jobFile, crashes>>
         /\ pc[t] \in AtLatest
         /\ \A u \in Threads : u # t => pc'[u] = pc[u] /\ fd'[u] = fd[u]
         /\ \A u : RecordOf(u)' = RecordOf(u) /\ DirOf(u)' = DirOf(u)
         /\ \A w : Ahead(t, w)' => Ahead(t, w) /\ (pc[t] = "open" => w # writing[t])
         /\ \A w : \A u \in Threads : u # t => (Ahead(u, w)' <=> Ahead(u, w))
<1>1. /\ UNCHANGED <<writing, request, status, jobFile, crashes>>
      /\ pc[t] \in AtLatest
      /\ \E p \in {"write", "replace", "written"} : pc' = [pc EXCEPT ![t] = p]
      /\ pc[t] = "open" => pc' = [pc EXCEPT ![t] = "write"]
      /\ fd' = fd \/ \E x : fd' = [fd EXCEPT ![t] = x]
  BY DEF OpenLatest, WriteLatest, ReplaceLatest, Goto, AtLatest
<1>2. \A u : RecordOf(u)' = RecordOf(u) /\ DirOf(u)' = DirOf(u)
  BY <1>1 DEF RecordOf, DirOf, RequestOf
<1>3. \A u \in Threads : u # t => pc'[u] = pc[u] /\ fd'[u] = fd[u]
  BY <1>1 DEF ForgeInv, Types, Names
<1>4. /\ pc'[t] \in {"write", "replace", "written"}
      /\ pc[t] = "open" => pc'[t] = "write"
  BY <1>1 DEF ForgeInv, Types
<1>5. \A w : Ahead(t, w)' => Ahead(t, w) /\ (pc[t] = "open" => w # writing[t])
  BY <1>1, <1>4 DEF Ahead, InWriteJob, AtLatest
<1>6. \A w : \A u \in Threads : u # t => (Ahead(u, w)' <=> Ahead(u, w))
  BY <1>1, <1>3 DEF Ahead
<1>. QED  BY <1>1, <1>2, <1>3, <1>5, <1>6

\* A text stays true of its record while the record and its writers stay.
LEMMA ToldStays ==
  ASSUME NEW d \in Dirs, Told(d), content'[latest'[d]] = content[latest[d]],
         UNCHANGED <<writing, request, jobFile, crashes>>,
         \A u \in Threads : pc[u] \in AtLatest => pc'[u] \in AtLatest \/ DirOf(u) # d
  PROVE  Told(d)'
<1>1. PICK w \in {"job", "act"}, r \in Requests, s \in {"none", "running"} \cup Final :
        /\ content[latest[d]] = Text(w, r, s) /\ request[r] # Unasked /\ d = PlaceOf(w, r)
        /\ \/ crashes > 0
           \/ jobFile[<<w, r>>] = s
           \/ \E v \in Threads : pc[v] \in AtLatest /\ writing[v] = w /\ RequestOf(v) = r
  BY DEF Told
<1>2. content'[latest'[d]] = Text(w, r, s) /\ request'[r] # Unasked /\ d = PlaceOf(w, r)'
  BY <1>1 DEF PlaceOf
<1>3. ASSUME NEW v \in Threads, pc[v] \in AtLatest, writing[v] = w, RequestOf(v) = r
      PROVE  pc'[v] \in AtLatest /\ writing'[v] = w
  <2>1. DirOf(v) = d
    BY <1>1, <1>3 DEF DirOf, PlaceOf
  <2>. QED  BY <1>3, <2>1
<1>4. crashes' > 0 \/ jobFile'[<<w, r>>] = s
      \/ \E v \in Threads : pc'[v] \in AtLatest /\ writing'[v] = w /\ RequestOf(v) = r
  BY <1>1, <1>3
<1>. QED  BY <1>2, <1>4 DEF Told

LEMMA OpenLatestKeeps ==
  ASSUME ForgeInv, LatestInv, NEW t \in Threads, OpenLatest(t)
  PROVE  LatestInv'
<1>. USE DEF LatestInv
<1>. DEFINE d == DirOf(t)  i == Opens(t)
<1>0. /\ pc[t] = "open" /\ pc' = [pc EXCEPT ![t] = "write"]
      /\ tmp' = [tmp EXCEPT ![d] = i] /\ content' = [content EXCEPT ![i] = Empty]
      /\ fd' = [fd EXCEPT ![t] = i]
      /\ met' = IF Meets(t) THEN met \cup {d} ELSE met
      /\ UNCHANGED <<writing, request, status, jobFile, latest, crashes>>
      /\ writing[t] \in {"job", "act"} /\ Types
  BY DEF OpenLatest, Goto, ForgeInv, Types
<1>1. d \in Dirs
  BY <1>0, WriterAsked
<1>2. Unused(Own(t, writing[t]))
  BY <1>0 DEF Names, Ahead
<1>3. /\ i \in Inodes
      /\ \A e \in Dirs : latest[e] # i /\ (e # d => tmp[e] # i)
      /\ \A u \in Threads : InLatest(u) /\ DirOf(u) # d => fd[u] # i
      /\ i = Own(t, writing[t]) \/ i = tmp[d]
  <2>1. CASE tmp[d] = NoInode
    <3>1. i = Own(t, writing[t])
      BY <2>1 DEF Opens, Own
    <3>. QED  BY <1>0, <1>2, <3>1, OwnNames DEF Unused
  <2>2. CASE tmp[d] # NoInode
    <3>1. i = tmp[d]
      BY <2>2 DEF Opens
    <3>2. i \in Inodes
      BY <1>1, <2>2, <3>1 DEF Names
    <3>3. \A e \in Dirs : latest[e] # i /\ (e # d => tmp[e] # i)
      BY <1>1, <2>2, <3>1 DEF Names
    <3>4. \A u \in Threads : InLatest(u) /\ DirOf(u) # d => fd[u] # i
      BY <1>1, <3>1 DEF Held
    <3>. QED  BY <3>1, <3>2, <3>3, <3>4
  <2>. QED  BY <2>1, <2>2
<1>. HIDE DEF d, i
<1>4. /\ \A u \in Threads : u # t => pc'[u] = pc[u] /\ fd'[u] = fd[u]
      /\ \A u : RecordOf(u)' = RecordOf(u) /\ DirOf(u)' = DirOf(u)
      /\ \A w : Ahead(t, w)' => Ahead(t, w) /\ w # writing[t]
      /\ \A w : \A u \in Threads : u # t => (Ahead(u, w)' <=> Ahead(u, w))
  BY <1>0, LatestSteps
<1>5. /\ DOMAIN content = Inodes /\ latest \in [Dirs -> Inodes \cup {NoInode}]
      /\ tmp \in [Dirs -> Inodes \cup {NoInode}] /\ fd \in [Threads -> Inodes \cup {NoInode}]
      /\ met \subseteq Dirs /\ crashes \in Nat
  BY DEF Names
<1>6. /\ tmp'[d] = i /\ (\A e \in Dirs : e # d => tmp'[e] = tmp[e])
      /\ fd'[t] = i /\ content'[i] = Empty
      /\ \A j \in Inodes : j # i => content'[j] = content[j]
  BY <1>0, <1>1, <1>3, <1>5
<1>7. Names'
  <2>1. ASSUME NEW u \in Threads, NEW w \in {"job", "act"}, Ahead(u, w)'
        PROVE  Unused(Own(u, w))'
    <3>1. Unused(Own(u, w)) /\ Own(u, w) \in Inodes
      BY <1>4, <2>1, OwnNames DEF Names
    <3>2. Own(u, w) # i
      <4>1. Own(u, w) # Own(t, writing[t])
        BY <1>4, <2>1, OwnNames
      <4>2. Own(u, w) # tmp[d]
        BY <1>1, <3>1 DEF Unused
      <4>. QED  BY <1>3, <4>1, <4>2
    <3>. QED  BY <1>0, <1>4, <1>6, <3>1, <3>2 DEF Unused
  <2>2. /\ tmp' \in [Dirs -> Inodes \cup {NoInode}] /\ fd' \in [Threads -> Inodes \cup {NoInode}]
        /\ DOMAIN content' = Inodes /\ met' \subseteq Dirs
    BY <1>0, <1>1, <1>3, <1>5
  <2>3. \A e, f \in Dirs :
          /\ tmp'[e] # NoInode => tmp'[e] # latest[f]
          /\ e # f /\ tmp'[e] # NoInode => tmp'[e] # tmp'[f]
    BY <1>3, <1>6 DEF Names
  <2>. QED  BY <1>0, <2>1, <2>2, <2>3 DEF Names
<1>8. ASSUME NEW u \in Threads, InLatest(u)'
      PROVE  Held(u)'
  <2>1. \A v \in Threads : InLatest(v)' => v = t \/ InLatest(v)
    BY <1>4 DEF InLatest
  <2>2. CASE u = t
    <3>1. d \notin met' => \A v \in Threads : InLatest(v)' /\ DirOf(v)' = DirOf(t)' => v = t
      <4>1. d \notin met' => ~Meets(t)
        BY <1>0
      <4>. QED  BY <1>4, <2>1, <4>1 DEF Meets
    <3>2. DirOf(t)' = d
      BY <1>4 DEF d
    <3>3. pc'[t] = "write"
      BY <1>0 DEF Types
    <3>. QED  BY <1>0, <1>3, <1>6, <2>2, <3>1, <3>2, <3>3, OwnNames DEF Held
  <2>3. CASE u # t
    <3>1. Held(u) /\ InLatest(u) /\ fd'[u] = fd[u] /\ pc'[u] = pc[u] /\ DirOf(u)' = DirOf(u)
      BY <1>4, <1>8, <2>1, <2>3
    <3>2. DirOf(u) \in Dirs
      BY <3>1, WriterAsked DEF InLatest
    <3>3. DirOf(u) = d => d \in met'
      BY <1>0, <2>3, <3>1 DEF Meets, d
    <3>4. \A e \in Dirs : e # DirOf(u) => fd[u] # latest[e] /\ fd[u] # tmp'[e]
      BY <1>1, <1>3, <1>6, <3>1 DEF Held
    <3>5. ASSUME DirOf(u) \notin met'
          PROVE  /\ DirOf(u) # d /\ DirOf(u) \notin met
                 /\ fd[u] = tmp'[DirOf(u)] /\ content'[fd[u]] = content[fd[u]]
                 /\ \A v \in Threads : InLatest(v)' /\ DirOf(v)' = DirOf(u) => v = u
      <4>1. DirOf(u) # d /\ DirOf(u) \notin met
        BY <1>0, <3>3, <3>5
      <4>2. fd[u] = tmp'[DirOf(u)] /\ fd[u] # i /\ fd[u] \in Inodes
        BY <1>3, <1>5, <1>6, <3>1, <3>2, <4>1 DEF Held
      <4>3. \A v \in Threads : InLatest(v)' /\ DirOf(v)' = DirOf(u) => v # t /\ InLatest(v) /\ DirOf(v) = DirOf(u)
        BY <1>4, <2>1, <4>1 DEF d
      <4>4. \A v \in Threads : InLatest(v) /\ DirOf(v) = DirOf(u) => v = u
        BY <3>1, <4>1 DEF Held
      <4>. QED  BY <1>6, <4>1, <4>2, <4>3, <4>4
    <3>6. \A x : x = Text(writing[u], RequestOf(u), status[RecordOf(u)]) =>
                   Text(writing[u], RequestOf(u), status[RecordOf(u)])' = x
      BY <1>0, <1>4 DEF Text, RequestOf
    <3>. QED  BY <1>0, <3>1, <3>4, <3>5, <3>6 DEF Held
  <2>. QED  BY <2>2, <2>3
<1>9. ASSUME NEW u \in Threads, pc'[u] \in AtLatest
      PROVE  status'[RecordOf(u)'] = jobFile'[RecordOf(u)']
  BY <1>0, <1>4, <1>9 DEF AtLatest
<1>10. ASSUME NEW e \in Dirs, e \notin met', latest'[e] # NoInode
       PROVE  Told(e)'
  <2>1. e \notin met /\ Told(e)
    BY <1>0, <1>10
  <2>2. content'[latest'[e]] = content[latest[e]]
    BY <1>0, <1>3, <1>5, <1>6, <1>10
  <2>3. \A u \in Threads : pc[u] \in AtLatest => pc'[u] \in AtLatest
    BY <1>0, <1>4 DEF AtLatest, Types
  <2>. QED  BY <1>0, <2>1, <2>2, <2>3, ToldStays
<1>. QED  BY <1>7, <1>8, <1>9, <1>10

LEMMA WriteLatestKeeps ==
  ASSUME ForgeInv, LatestInv, NEW t \in Threads, WriteLatest(t)
  PROVE  LatestInv'
<1>. USE DEF LatestInv
<1>. DEFINE d == DirOf(t)  text == Text(writing[t], RequestOf(t), status[RecordOf(t)])
<1>0. /\ pc[t] = "write" /\ pc' = [pc EXCEPT ![t] = "replace"] /\ InLatest(t)
      /\ UNCHANGED <<writing, fd, request, status, jobFile, latest, tmp, met, crashes>> /\ Types
  BY DEF WriteLatest, Goto, ForgeInv, InLatest
<1>1. PICK result : /\ content' = [content EXCEPT ![fd[t]] = result]
                    /\ content[fd[t]] = Empty => result = text
  BY DEF WriteLatest, Text, RecordOf, RequestOf
<1>2. d \in Dirs /\ Held(t)
  BY <1>0, WriterAsked
<1>. HIDE DEF d, text
<1>3. /\ \A u \in Threads : u # t => pc'[u] = pc[u] /\ fd'[u] = fd[u]
      /\ \A u : RecordOf(u)' = RecordOf(u) /\ DirOf(u)' = DirOf(u)
      /\ \A w : Ahead(t, w)' => Ahead(t, w)
      /\ \A w : \A u \in Threads : u # t => (Ahead(u, w)' <=> Ahead(u, w))
  BY <1>0, LatestSteps
<1>4. /\ DOMAIN content = Inodes /\ latest \in [Dirs -> Inodes \cup {NoInode}]
      /\ fd \in [Threads -> Inodes \cup {NoInode}]
  BY DEF Names
<1>5. /\ fd[t] \in Inodes /\ content'[fd[t]] = result
      /\ \A j \in Inodes : j # fd[t] => content'[j] = content[j]
  BY <1>1, <1>2, <1>4 DEF Held
<1>6. Names'
  BY <1>0, <1>1, <1>3, <1>4, NamesStay DEF Names
<1>7. \A u : RequestOf(u)' = RequestOf(u)
  BY DEF RequestOf
<1>8. ASSUME NEW u \in Threads, InLatest(u)'
      PROVE  Held(u)'
  <2>1. \A v \in Threads : InLatest(v)' => InLatest(v)
    BY <1>0, <1>3 DEF InLatest
  <2>2. Held(u) /\ InLatest(u) /\ DirOf(u)' = DirOf(u) /\ fd'[u] = fd[u]
    BY <1>0, <1>3, <1>8, <2>1
  <2>3. DirOf(u) \notin met => \A v \in Threads : InLatest(v)' /\ DirOf(v)' = DirOf(u)' => v = u
    BY <1>3, <2>1, <2>2 DEF Held
  <2>4. CASE u = t
    <3>1. pc'[t] = "replace"
      BY <1>0 DEF Types
    <3>2. Text(writing[t], RequestOf(t), status[RecordOf(t)])' = text
      BY <1>0, <1>3 DEF Text, RequestOf, text
    <3>3. d \notin met => content'[fd[t]] = text
      BY <1>0, <1>1, <1>2, <1>5 DEF Held, d
    <3>. QED  BY <1>0, <2>2, <2>3, <2>4, <3>1, <3>2, <3>3 DEF Held, d
  <2>5. CASE u # t
    <3>1. Text(writing[u], RequestOf(u), status[RecordOf(u)])'
            = Text(writing[u], RequestOf(u), status[RecordOf(u)])
      BY <1>0, <1>3 DEF Text, RequestOf
    <3>2. DirOf(u) \notin met => content'[fd[u]] = content[fd[u]]
      <4>1. ASSUME DirOf(u) \notin met
            PROVE  fd[u] # fd[t] /\ fd[u] \in Inodes
        <5>1. DirOf(u) # d
          BY <1>0, <2>2, <2>5, <4>1 DEF Held, d
        <5>2. DirOf(u) \in Dirs
          BY <2>2, WriterAsked DEF InLatest
        <5>3. fd[u] = tmp[DirOf(u)] /\ fd[u] \in Inodes
          BY <1>4, <2>2, <4>1 DEF Held
        <5>. QED  BY <1>2, <5>1, <5>2, <5>3 DEF Held, d
      <4>. QED  BY <1>5, <4>1
    <3>3. pc'[u] = pc[u]
      BY <1>3, <2>5
    <3>. QED  BY <1>0, <2>2, <2>3, <3>1, <3>2, <3>3 DEF Held
  <2>. QED  BY <2>4, <2>5
<1>9. ASSUME NEW u \in Threads, pc'[u] \in AtLatest
      PROVE  status'[RecordOf(u)'] = jobFile'[RecordOf(u)']
  BY <1>0, <1>3, <1>9 DEF AtLatest
<1>10. ASSUME NEW e \in Dirs, e \notin met', latest'[e] # NoInode
       PROVE  Told(e)'
  <2>1. e \notin met /\ Told(e)
    BY <1>0, <1>10
  <2>2. latest[e] # fd[t] /\ latest[e] \in Inodes
    <3>1. CASE e = d
      BY <1>0, <1>2, <1>4, <1>10, <3>1 DEF Held, Names, d
    <3>2. CASE e # d
      BY <1>0, <1>2, <1>4, <1>10, <3>2 DEF Held, d
    <3>. QED  BY <3>1, <3>2
  <2>3. \A u \in Threads : pc[u] \in AtLatest => pc'[u] \in AtLatest
    BY <1>0, <1>3 DEF AtLatest, Types
  <2>. QED  BY <1>0, <1>5, <2>1, <2>2, <2>3, ToldStays
<1>. QED  BY <1>6, <1>8, <1>9, <1>10

LEMMA ReplaceLatestKeeps ==
  ASSUME ForgeInv, LatestInv, NEW t \in Threads, ReplaceLatest(t)
  PROVE  LatestInv'
<1>. USE DEF LatestInv
<1>. DEFINE d == DirOf(t)
<1>0. /\ pc[t] = "replace" /\ pc' = [pc EXCEPT ![t] = "written"] /\ InLatest(t) /\ tmp[d] # NoInode
      /\ latest' = [latest EXCEPT ![d] = tmp[d]] /\ tmp' = [tmp EXCEPT ![d] = NoInode]
      /\ fd' = [fd EXCEPT ![t] = NoInode]
      /\ UNCHANGED <<writing, request, status, jobFile, content, met, crashes>> /\ Types
  BY DEF ReplaceLatest, Goto, ForgeInv, InLatest
<1>2. d \in Dirs /\ Held(t)
  BY <1>0, WriterAsked
<1>. HIDE DEF d
<1>3. /\ \A u \in Threads : u # t => pc'[u] = pc[u] /\ fd'[u] = fd[u]
      /\ \A u : RecordOf(u)' = RecordOf(u) /\ DirOf(u)' = DirOf(u)
      /\ \A w : Ahead(t, w)' => Ahead(t, w)
      /\ \A w : \A u \in Threads : u # t => (Ahead(u, w)' <=> Ahead(u, w))
  BY <1>0, LatestSteps
<1>4. /\ DOMAIN content = Inodes /\ latest \in [Dirs -> Inodes \cup {NoInode}]
      /\ tmp \in [Dirs -> Inodes \cup {NoInode}] /\ fd \in [Threads -> Inodes \cup {NoInode}]
  BY DEF Names
<1>5. /\ latest'[d] = tmp[d] /\ tmp'[d] = NoInode
      /\ \A e \in Dirs : e # d => latest'[e] = latest[e] /\ tmp'[e] = tmp[e]
  BY <1>0, <1>2, <1>4
<1>6. Names'
  <2>1. ASSUME NEW u \in Threads, NEW w \in {"job", "act"}, Ahead(u, w)'
        PROVE  Unused(Own(u, w))'
    <3>1. Unused(Own(u, w)) /\ Own(u, w) \in Inodes
      BY <1>3, <2>1, OwnNames DEF Names
    <3>. QED  BY <1>0, <1>2, <1>3, <1>4, <1>5, <3>1, OwnNames DEF Unused
  <2>2. /\ latest' \in [Dirs -> Inodes \cup {NoInode}] /\ tmp' \in [Dirs -> Inodes \cup {NoInode}]
        /\ fd' \in [Threads -> Inodes \cup {NoInode}]
    BY <1>0, <1>2, <1>4
  <2>3. \A e, f \in Dirs :
          /\ tmp'[e] # NoInode => tmp'[e] # latest'[f]
          /\ e # f /\ latest'[e] # NoInode => latest'[e] # latest'[f]
          /\ e # f /\ tmp'[e] # NoInode => tmp'[e] # tmp'[f]
    BY <1>0, <1>2, <1>5 DEF Names
  <2>. QED  BY <1>0, <2>1, <2>2, <2>3 DEF Names
<1>8. ASSUME NEW u \in Threads, InLatest(u)'
      PROVE  Held(u)'
  <2>1. pc'[t] = "written"
    BY <1>0 DEF Types
  <2>2. \A v \in Threads : InLatest(v)' => v # t /\ InLatest(v)
    BY <1>3, <2>1 DEF InLatest
  <2>3. u # t /\ Held(u) /\ InLatest(u) /\ DirOf(u)' = DirOf(u) /\ fd'[u] = fd[u] /\ pc'[u] = pc[u]
    BY <1>3, <1>8, <2>2
  <2>4. DirOf(u) \notin met => \A v \in Threads : InLatest(v)' /\ DirOf(v)' = DirOf(u)' => v = u
    BY <1>3, <2>2, <2>3 DEF Held
  <2>5. DirOf(u) \notin met => DirOf(u) # d
    BY <1>0, <2>3 DEF Held, d
  <2>6. \A e \in Dirs : e # DirOf(u) => fd[u] # latest'[e] /\ fd[u] # tmp'[e]
    BY <1>2, <1>5, <2>3 DEF Held
  <2>7. DirOf(u) \in Dirs
    BY <2>3, WriterAsked DEF InLatest
  <2>8. Text(writing[u], RequestOf(u), status[RecordOf(u)])'
          = Text(writing[u], RequestOf(u), status[RecordOf(u)])
    BY <1>0, <1>3 DEF Text, RequestOf
  <2>. QED  BY <1>0, <1>5, <2>3, <2>4, <2>5, <2>6, <2>7, <2>8 DEF Held
<1>9. ASSUME NEW u \in Threads, pc'[u] \in AtLatest
      PROVE  status'[RecordOf(u)'] = jobFile'[RecordOf(u)']
  <2>1. pc[u] \in AtLatest
    BY <1>0, <1>3, <1>9 DEF AtLatest
  <2>. QED  BY <1>0, <1>3, <2>1
<1>10. ASSUME NEW e \in Dirs, e \notin met', latest'[e] # NoInode
       PROVE  Told(e)'
  <2>1. CASE e = d
    <3>1. content'[latest'[d]] = Text(writing[t], RequestOf(t), status[RecordOf(t)])
      BY <1>0, <1>2, <1>5, <1>10, <2>1 DEF Held, d
    <3>2. status[RecordOf(t)] = jobFile'[<<writing[t], RequestOf(t)>>]
      BY <1>0 DEF AtLatest, RecordOf, RequestOf
    <3>3. /\ writing[t] \in {"job", "act"} /\ RequestOf(t) \in Requests
          /\ request'[RequestOf(t)] # Unasked /\ d = PlaceOf(writing[t], RequestOf(t))
      BY <1>0, WriterAsked DEF d, Types
    <3>4. status[RecordOf(t)] \in {"none", "running"} \cup Final
      BY <1>0, <3>3 DEF Types, RecordOf, RequestOf, Records
    <3>5. PICK w \in {"job", "act"}, r \in Requests, s \in {"none", "running"} \cup Final :
            w = writing[t] /\ r = RequestOf(t) /\ s = status[RecordOf(t)]
      BY <3>3, <3>4
    <3>6. d = PlaceOf(w, r)'
      BY <1>0, <3>3, <3>5 DEF PlaceOf
    <3>. QED  BY <2>1, <3>1, <3>2, <3>3, <3>5, <3>6 DEF Told
  <2>2. CASE e # d
    <3>1. e \notin met /\ Told(e) /\ latest'[e] = latest[e]
      BY <1>0, <1>5, <1>10, <2>2
    <3>2. \A u \in Threads : pc[u] \in AtLatest => pc'[u] \in AtLatest \/ DirOf(u) # e
      BY <1>3, <2>2 DEF d
    <3>. QED  BY <1>0, <3>1, <3>2, ToldStays
  <2>. QED  BY <2>1, <2>2
<1>. QED  BY <1>6, <1>8, <1>9, <1>10

LEMMA LatestInvInit ==
  ASSUME Init
  PROVE  LatestInv
<1>1. Names
  BY OwnNames DEF Init, Names, Unused
<1>. QED  BY <1>1 DEF Init, LatestInv, InLatest, AtLatest

LEMMA LatestInvNext ==
  ASSUME ForgeInv, LatestInv, [Next]_vars
  PROVE  LatestInv'
<1>0. Types /\ Names
  BY DEF ForgeInv, LatestInv
<1>1. CASE UNCHANGED vars
  <2>1. /\ UNCHANGED <<latest, tmp, content, met, jobFile, crashes, fd, request, pc, writing, status>>
    BY <1>1 DEF vars, fileVars
  <2>2. (\A u \in Threads : Stands(u)) /\ \A u, w : Ahead(u, w)' <=> Ahead(u, w)
    BY <2>1 DEF Stands, RecordOf, DirOf, RequestOf, Ahead
  <2>3. crashes \in Nat /\ fd \in [Threads -> Inodes \cup {NoInode}]
    BY <1>0 DEF Names
  <2>. QED  BY <2>1, <2>2, <2>3, ElsewhereKeeps
<1>2. CASE Crash
  <2>1. /\ UNCHANGED <<latest, tmp, content, met, jobFile, request, writing, status>>
        /\ crashes' = crashes + 1 /\ fd' = [t \in Threads |-> NoInode]
        /\ pc' = [t \in Threads |-> IF pc[t] \in Over THEN pc[t] ELSE "dropped"]
    BY <1>2 DEF Crash, fileVars
  <2>2. crashes' \in Nat /\ crashes' > 0 /\ crashes' >= crashes
    BY <1>0, <2>1 DEF Names
  <2>3. \A w : \A u \in Threads : Ahead(u, w)' => Ahead(u, w)
    BY <2>1 DEF Ahead, Over, InWriteJob
  <2>4. \A u \in Threads : pc'[u] \notin AtLatest
    BY <2>1 DEF Over, AtLatest
  <2>5. fd' \in [Threads -> Inodes \cup {NoInode}] /\ \A u \in Threads : fd'[u] \in {fd[u], NoInode}
    BY <2>1
  <2>. QED  BY <2>1, <2>2, <2>3, <2>4, <2>5, ElsewhereKeeps
<1>3. ASSUME NEW q \in Requests, Receive(q)
      PROVE  LatestInv'
  <2>1. /\ UNCHANGED <<latest, tmp, content, met, jobFile, crashes, fd>> /\ request[q] = Unasked
        /\ \E x : request' = [request EXCEPT ![q] = x]
    BY <1>3 DEF Receive, fileVars
  <2>2. Handler(q) \in Threads /\ pc[Handler(q)] = "idle"
    BY <2>1, ThreadNames DEF ForgeInv, Request, Shape
  <2>3. /\ \E x \in {"file", "gate"} : pc' = [pc EXCEPT ![Handler(q)] = x]
        /\ writing' = writing \/ \E x : writing' = [writing EXCEPT ![Handler(q)] = x]
        /\ status' = status \/ \E x : status' = [status EXCEPT ![<<"job", q>>] = x]
    BY <1>3 DEF Receive, WriteJob, Goto, Handler, RequestOf
  <2>4. ASSUME NEW u \in Threads, u # Handler(q)
        PROVE  /\ pc'[u] = pc[u] /\ writing'[u] = writing[u]
               /\ pc[u] \in AtLatest => Stands(u)
    <3>1. pc'[u] = pc[u] /\ writing'[u] = writing[u]
      BY <1>0, <2>3, <2>4 DEF Types
    <3>2. ASSUME pc[u] \in AtLatest PROVE Stands(u)
      <4>1. RequestOf(u) \in Requests /\ RequestOf(u) # q
        BY <2>1, <3>2, WriterAsked DEF AtLatest
      <4>2. request'[RequestOf(u)] = request[RequestOf(u)]
        BY <1>0, <2>1, <4>1 DEF Types
      <4>3. RecordOf(u)' = RecordOf(u) /\ RecordOf(u) # <<"job", q>> /\ RecordOf(u) \in Records
        BY <1>0, <3>1, <4>1 DEF RecordOf, RequestOf, Records, Types
      <4>4. status'[RecordOf(u)] = status[RecordOf(u)]
        BY <1>0, <2>3, <4>3 DEF Types
      <4>5. DirOf(u)' = DirOf(u)
        BY <3>1, <4>2 DEF DirOf, RequestOf
      <4>. QED  BY <2>1, <3>1, <4>3, <4>4, <4>5 DEF Stands
    <3>. QED  BY <3>1, <3>2
  <2>5. pc'[Handler(q)] \in {"file", "gate"}
    BY <1>0, <2>2, <2>3 DEF Types
  <2>6. \A w : \A u \in Threads : Ahead(u, w)' => Ahead(u, w)
    BY <2>2, <2>4 DEF Ahead
  <2>7. \A u \in Threads : (pc'[u] \in AtLatest => pc[u] \in AtLatest /\ Stands(u))
                           /\ (pc[u] \in AtLatest => Stands(u))
    BY <2>2, <2>4, <2>5 DEF AtLatest
  <2>8. \A r \in Requests : request[r] # Unasked => request'[r] = request[r]
    BY <1>0, <2>1 DEF Types
  <2>9. crashes \in Nat /\ fd \in [Threads -> Inodes \cup {NoInode}]
    BY <1>0 DEF Names
  <2>. QED  BY <2>1, <2>6, <2>7, <2>8, <2>9, ElsewhereKeeps
<1>4. ASSUME NEW t \in Threads, Step(t), ~Files(t)
      PROVE  LatestInv'
  <2>1. /\ UNCHANGED <<latest, tmp, content, met, jobFile, crashes>> /\ pc'[t] \notin AtLatest
        /\ \A w : Ahead(t, w)' => Ahead(t, w)
        /\ pc[t] \in AtLatest => ReplaceRaises(t)
        /\ fd'[t] \in {fd[t], NoInode}
        /\ fd' \in [Threads -> Inodes \cup {NoInode}]
    BY <1>0, <1>4, OtherSteps DEF Names
  <2>2. ReplaceRaises(t) => DirOf(t) \in met
    BY DEF LatestInv, Held, ReplaceRaises, InLatest
  <2>3. crashes' \in Nat /\ crashes' >= crashes
    BY <1>0, <2>1 DEF Names
  <2>4. \A r \in Requests : request[r] # Unasked => request'[r] = request[r]
    BY <1>0, <1>4, BodiesStay DEF Next
  <2>5. ASSUME NEW u \in Threads
        PROVE  /\ \A w : Ahead(u, w)' => Ahead(u, w)
               /\ fd'[u] \in {fd[u], NoInode}
               /\ pc'[u] \in AtLatest => pc[u] \in AtLatest /\ Stands(u)
               /\ pc[u] \in AtLatest => Stands(u) \/ DirOf(u) \in met
    <3>1. CASE u = t
      BY <2>1, <2>2, <3>1
    <3>2. CASE u # t
      BY <1>0, <1>4, <3>2, OthersStand
    <3>. QED  BY <3>1, <3>2
  <2>. QED  BY <2>1, <2>3, <2>4, <2>5, ElsewhereKeeps
<1>. QED  BY <1>1, <1>2, <1>3, <1>4, WriteFileKeeps, OpenLatestKeeps, WriteLatestKeeps, ReplaceLatestKeeps
          DEF Next, Files

\* The invariant of latest.json, beside the one of the requests.
THEOREM LatestInvHolds == Spec => []LatestInv
<1>. QED  BY LatestInvInit, LatestInvNext, ForgeInvHolds, PTL DEF Spec

\* write_job: wherever no two writers have met, latest.json reads at every moment
\* as one whole record, and when all is quiet as what the record's own file says,
\* for any number of requests and however often the server dies.
THEOREM LatestIsAlwaysWhole == Spec => []LatestIsWhole
<1>1. LatestInv => LatestIsWhole
  <2>1. ASSUME LatestInv, NEW d \in Dirs, d \notin met, latest[d] # NoInode
        PROVE  /\ content[latest[d]] \notin {Empty, Torn}
               /\ Quiet /\ crashes = 0 => jobFile[content[latest[d]][1]] = content[latest[d]][2]
    <3>1. PICK w \in {"job", "act"}, r \in Requests, s \in {"none", "running"} \cup Final :
            /\ content[latest[d]] = Text(w, r, s)
            /\ \/ crashes > 0
               \/ jobFile[<<w, r>>] = s
               \/ \E t \in Threads : pc[t] \in AtLatest /\ writing[t] = w /\ RequestOf(t) = r
      BY <2>1 DEF LatestInv, Told
    <3>2. Text(w, r, s)[1] = <<w, r>> /\ Text(w, r, s)[2] = s
      BY DEF Text
    <3>3. Quiet => \A t \in Threads : pc[t] \notin AtLatest
      BY DEF Quiet, Over, AtLatest
    <3>. QED  BY <3>1, <3>2, <3>3, TextNames
  <2>. QED  BY <2>1 DEF LatestIsWhole
<1>. QED  BY <1>1, LatestInvHolds, PTL

---------------------------------------------------------------------------
(* How long a request can last. *)

\* What a thread has left to do: at most a target and its act, then the job.
Errand(t) ==
  CASE pc[t] = "gate" -> 14 [] pc[t] = "command" -> 13
    [] pc[t] \in Over -> 0
    [] OTHER -> (IF writing[t] = "act" THEN 6 ELSE 0)
                  + CASE pc[t] = "file" -> 6 [] pc[t] = "open" -> 5 [] pc[t] = "write" -> 4
                      [] pc[t] = "replace" -> 3 [] pc[t] = "written" -> 2 [] OTHER -> 1

\* The handler of a job that has yet to be filed and given its runner.
Awaiting(r) == request[r].async /\ pc[Handler(r)] \in {"file", "open", "write", "replace", "written"}

\* What a request has left: everything, or the errands of its two threads, that of a runner
\* yet to be started included.
Fuel(r) ==
  IF request[r] = Unasked THEN 21
  ELSE Errand(Handler(r)) + Errand(Runner(r)) + IF Awaiting(r) THEN 14 ELSE 0

LEMMA TheThreads ==
  /\ \A r \in Requests : Handler(r) \in Threads /\ Runner(r) \in Threads
  /\ \A r, q : Handler(r) # Runner(q) /\ (Handler(r) = Handler(q) => r = q) /\ (Runner(r) = Runner(q) => r = q)
  /\ \A t \in Threads : \E r \in Requests : t = Handler(r) \/ t = Runner(r)
  BY DEF Threads, Handler, Runner

LEMMA ErrandIsNatural ==
  ASSUME Types, NEW t \in Threads
  PROVE  /\ Errand(t) \in 0..14 /\ (Errand(t) = 0 <=> pc[t] \in Over)
         /\ pc[t] \notin {"gate", "command"} /\ writing[t] = "job" => Errand(t) <= 6
  BY DEF Types, Errand, Places, Over

LEMMA AskedIsBody ==
  ASSUME Types, NEW r \in Requests, request[r] # Unasked
  PROVE  request[r].async \in BOOLEAN
  BY DEF Types, Body

LEMMA FuelIsBounded ==
  ASSUME ForgeInv, NEW r \in Requests
  PROVE  /\ Fuel(r) \in 0..21 /\ (request[r] # Unasked => Fuel(r) <= 20)
         /\ Fuel(r) = 0 => pc[Handler(r)] \in Over /\ pc[Runner(r)] \in Over
<1>1. Types /\ Shape(r)
  BY DEF ForgeInv, Request
<1>2. /\ Errand(Handler(r)) \in 0..14 /\ (Errand(Handler(r)) = 0 <=> pc[Handler(r)] \in Over)
      /\ pc[Handler(r)] \notin {"gate", "command"} /\ writing[Handler(r)] = "job" => Errand(Handler(r)) <= 6
      /\ Errand(Runner(r)) \in 0..14 /\ (Errand(Runner(r)) = 0 <=> pc[Runner(r)] \in Over)
  BY <1>1, ErrandIsNatural, TheThreads
<1>3. CASE request[r] = Unasked
  BY <1>3 DEF Fuel
<1>4. CASE request[r] # Unasked /\ ~request[r].async
  <2>1. pc[Runner(r)] = "idle"
    BY <1>1, <1>4 DEF Shape
  <2> QED
    BY <1>2, <1>4, <2>1 DEF Fuel, Awaiting, Over
<1>5. CASE request[r] # Unasked /\ request[r].async
  <2>1. Errand(Handler(r)) <= 6
    BY <1>1, <1>2, <1>5 DEF Shape
  <2>2. Awaiting(r) => pc[Runner(r)] = "idle"
    BY <1>1, <1>5 DEF Shape, Awaiting
  <2> QED
    BY <1>2, <1>5, <2>1, <2>2 DEF Fuel, Over
<1> QED
  BY <1>1, <1>3, <1>4, <1>5, AskedIsBody

\* A step of a thread takes it on with its own errand, and leaves every other where it is.
LEMMA StepIsProgress ==
  ASSUME Types, NEW t \in Threads, Step(t)
  PROVE  \/ \E r \in Requests : t = Handler(r) /\ StartRunner(r)
         \/ /\ Errand(t)' < Errand(t) /\ request' = request
            /\ \A u \in Threads \ {t} : pc'[u] = pc[u] /\ writing'[u] = writing[u]
            /\ pc[t] \notin Over /\ (pc[t] = "started" => pc'[t] = "done")
<1> DEFINE Alone == request' = request /\ \A u \in Threads \ {t} : pc'[u] = pc[u] /\ writing'[u] = writing[u]
           Goal == /\ Errand(t)' < Errand(t) /\ Alone
                   /\ pc[t] \notin Over /\ (pc[t] = "started" => pc'[t] = "done")
<1>1. writing[t] \in {"job", "act"} /\ DOMAIN pc = Threads /\ DOMAIN writing = Threads
  BY DEF Types
<1>2. CASE WriteFile(t) \/ OpenLatest(t) \/ WriteLatest(t) \/ ReplaceLatest(t)
  <2>1. Alone /\ writing'[t] = writing[t] /\ \/ pc[t] = "file" /\ pc'[t] = "open"
                                             \/ pc[t] = "open" /\ pc'[t] = "write"
                                             \/ pc[t] = "write" /\ pc'[t] = "replace"
                                             \/ pc[t] = "replace" /\ pc'[t] = "written"
    BY <1>1, <1>2 DEF WriteFile, OpenLatest, WriteLatest, ReplaceLatest, Goto
  <2> QED
    BY <1>1, <2>1 DEF Errand, Over
<1>3. CASE Refuse(t) \/ LogAct(t) \/ ReplaceRaises(t)
  <2> DEFINE Turns == /\ request' = request
                      /\ \/ WriteJob(t, "job", "refused") \/ WriteJob(t, "job", "failed")
                         \/ WriteJob(t, "job", status[RecordOf(t)])
                         \/ Goto(t, "done") /\ UNCHANGED writing
                         \/ Goto(t, "dropped") /\ UNCHANGED writing
  <2>1. Refuse(t) => Turns
    BY DEF Refuse, Returns
  <2>2. LogAct(t) => Turns
    BY DEF LogAct, Returns
  <2>3. ReplaceRaises(t) => Turns
    BY DEF ReplaceRaises, WriteRaises, TargetRaises, Dropped
  <2>4. Turns
    BY <1>3, <2>1, <2>2, <2>3
  <2>5. \/ writing' = [writing EXCEPT ![t] = "job"] /\ pc' = [pc EXCEPT ![t] = "file"]
        \/ writing' = writing /\ \E over \in {"done", "dropped"} : pc' = [pc EXCEPT ![t] = over]
    BY <2>4 DEF WriteJob, Goto
  <2>6. Alone /\ (pc'[t] \in {"done", "dropped"} \/ (pc'[t] = "file" /\ writing'[t] = "job"))
    <3>1. request' = request
      BY <2>4
    <3> HIDE DEF Turns
    <3>2. CASE writing' = [writing EXCEPT ![t] = "job"] /\ pc' = [pc EXCEPT ![t] = "file"]
      BY <1>1, <3>1, <3>2
    <3>3. CASE writing' = writing /\ \E over \in {"done", "dropped"} : pc' = [pc EXCEPT ![t] = over]
      <4>1. PICK over \in {"done", "dropped"} : pc' = [pc EXCEPT ![t] = over]
        BY <3>3
      <4>2. Alone
        BY <1>1, <3>1, <3>3, <4>1
      <4>3. pc'[t] = over
        BY <1>1, <4>1
      <4> QED
        BY <4>2, <4>3
    <3> QED
      BY <2>5, <3>2, <3>3
  <2>7. Refuse(t) => pc[t] = "gate"
    BY DEF Refuse
  <2>8. LogAct(t) => writing[t] = "act" /\ pc[t] = "written"
    BY DEF LogAct
  <2>9. ReplaceRaises(t) => pc[t] = "replace" /\ (writing[t] = "act" \/ pc'[t] = "dropped")
    BY <1>1 DEF ReplaceRaises, WriteRaises, Dropped, Goto
  <2> HIDE DEF Alone, Turns
  <2>10. /\ pc[t] \in {"gate", "written", "replace"}
         /\ pc[t] = "gate" \/ writing[t] = "act" \/ pc'[t] = "dropped"
    BY <1>3, <2>7, <2>8, <2>9
  <2>11. pc[t] \notin Over /\ pc[t] # "started"
    BY <2>10 DEF Over
  <2>12. Errand(t)' < Errand(t)
    <3>1. CASE pc'[t] \in {"done", "dropped"}
      BY <1>1, <2>10, <3>1 DEF Errand, Over
    <3>2. CASE pc'[t] = "file" /\ writing'[t] = "job"
      BY <1>1, <2>10, <3>2 DEF Errand, Over
    <3> QED
      BY <2>6, <3>1, <3>2
  <2> QED
    BY <2>6, <2>11, <2>12 DEF Alone
<1>4. CASE RunCommand(t) \/ CommandEnds(t) \/ CommandRaises(t)
  <2>1. Alone /\ \/ pc[t] = "gate" /\ pc'[t] = "command"
                 \/ pc[t] = "command" /\ pc'[t] = "dropped"
                 \/ pc[t] = "command" /\ pc'[t] = "file" /\ writing'[t] \in {"act", "job"}
    BY <1>1, <1>4 DEF RunCommand, CommandEnds, CommandRaises, TargetRaises, Dropped, WriteJob, Goto
  <2> QED
    BY <1>1, <2>1 DEF Errand, Over
<1>5. CASE \E r \in Requests : (t = Handler(r) /\ LogStarted(r)) \/ (t = Runner(r) /\ LogFinished(r))
  <2>1. Alone /\ pc[t] \in {"started", "written"} /\ pc'[t] = "done"
    BY <1>1, <1>5 DEF LogStarted, LogFinished, Goto
  <2> QED
    BY <1>1, <2>1 DEF Errand, Over
<1>6. \/ WriteFile(t) \/ OpenLatest(t) \/ WriteLatest(t) \/ ReplaceLatest(t)
      \/ Refuse(t) \/ LogAct(t) \/ ReplaceRaises(t)
      \/ RunCommand(t) \/ CommandEnds(t) \/ CommandRaises(t)
      \/ \E r \in Requests : (t = Handler(r) /\ LogStarted(r)) \/ (t = Runner(r) /\ LogFinished(r))
      \/ \E r \in Requests : t = Handler(r) /\ StartRunner(r)
  BY Zenon DEF Step
<1> HIDE DEF Alone
<1> QED
  BY <1>2, <1>3, <1>4, <1>5, <1>6 DEF Alone

\* The steps of a request itself: its arrival, and those of its threads.
OwnStep(r) == Receive(r) \/ Step(Handler(r)) \/ Step(Runner(r))

LEMMA ErrandIsSmall == \A t : Errand(t) \in 0..14 /\ Errand(t)' \in 0..14
<1>1. \A t : Errand(t) \in 0..14
  BY DEF Errand
<1>2. \A t : Errand(t)' \in 0..14
  BY DEF Errand
<1> QED
  BY <1>1, <1>2

LEMMA ArrivalBurns ==
  ASSUME ForgeInv, NEW r \in Requests, Receive(r)
  PROVE  Fuel(r)' < Fuel(r)
<1>1. Types /\ Shape(r) /\ Handler(r) \in Threads /\ Runner(r) \in Threads /\ Handler(r) # Runner(r)
  BY TheThreads DEF ForgeInv, Request
<1>2. request[r] = Unasked /\ pc[Handler(r)] = "idle" /\ pc[Runner(r)] = "idle"
  BY <1>1 DEF Receive, Shape
<1>3. PICK body \in Bodies[r] :
        /\ request' = [request EXCEPT ![r] = body]
        /\ IF body.async THEN WriteJob(Handler(r), "job", "running")
                         ELSE Goto(Handler(r), "gate") /\ UNCHANGED <<writing, status>>
  BY DEF Receive
<1>4. body \in Body /\ body # Unasked
  BY ForgeAssumption DEF Body, Unasked, Kinds
<1>5. request'[r] = body
  BY <1>1, <1>3 DEF Types
<1>6. pc'[Runner(r)] = "idle" /\ Errand(Runner(r))' = 0
  BY <1>1, <1>2, <1>3 DEF Types, WriteJob, Goto, Errand, Over
<1>7. CASE body.async
  <2>1. pc'[Handler(r)] = "file" /\ writing'[Handler(r)] = "job"
    BY <1>1, <1>3, <1>7 DEF Types, WriteJob, Goto
  <2>2. Errand(Handler(r))' = 6
    BY <2>1 DEF Errand, Over
  <2> QED
    BY <1>2, <1>4, <1>5, <1>6, <2>2 DEF Fuel
<1>8. CASE ~body.async
  <2>1. Errand(Handler(r))' \in 0..14
    BY ErrandIsSmall
  <2>2. ~Awaiting(r)'
    BY <1>5, <1>8 DEF Awaiting
  <2> QED
    BY <1>2, <1>4, <1>5, <1>6, <2>1, <2>2 DEF Fuel
<1> QED
  BY <1>7, <1>8

LEMMA StartingBurns ==
  ASSUME ForgeInv, NEW r \in Requests, StartRunner(r)
  PROVE  Fuel(r)' < Fuel(r)
<1>1. Types /\ Shape(r) /\ Handler(r) \in Threads /\ Runner(r) \in Threads /\ Handler(r) # Runner(r)
  BY TheThreads DEF ForgeInv, Request
<1>2. /\ pc[Handler(r)] = "written" /\ request[r].async /\ request[r] # Unasked
      /\ pc'[Handler(r)] = "started" /\ pc'[Runner(r)] = "gate"
      /\ writing' = writing /\ request' = request
  BY <1>1 DEF StartRunner, Types, Shape
<1>3. Errand(Handler(r)) >= 2 /\ Awaiting(r) /\ Errand(Handler(r)) \in 0..14
  BY <1>2, ErrandIsSmall DEF Errand, Over, Awaiting
<1>4. pc[Runner(r)] = "idle" /\ writing[Handler(r)] = "job"
  BY <1>1, <1>2 DEF Shape
<1>5. Errand(Handler(r))' = 1 /\ Errand(Runner(r))' = 14 /\ ~Awaiting(r)' /\ Errand(Runner(r)) = 0
  BY <1>2, <1>4 DEF Errand, Over, Awaiting
<1> QED
  BY <1>2, <1>3, <1>5 DEF Fuel

LEMMA OwnStepBurns ==
  ASSUME ForgeInv, NEW r \in Requests, NEW t \in {Handler(r), Runner(r)}, Step(t)
  PROVE  Fuel(r)' < Fuel(r)
<1>1. /\ Types /\ Shape(r) /\ Handler(r) \in Threads /\ Runner(r) \in Threads /\ Handler(r) # Runner(r)
      /\ \A q : Handler(q) # Runner(r) /\ (Handler(q) = Handler(r) => q = r)
  BY TheThreads DEF ForgeInv, Request
<1>2. \/ \E q \in Requests : t = Handler(q) /\ StartRunner(q)
      \/ /\ Errand(t)' < Errand(t) /\ request' = request
         /\ \A u \in Threads \ {t} : pc'[u] = pc[u] /\ writing'[u] = writing[u]
         /\ pc[t] \notin Over /\ (pc[t] = "started" => pc'[t] = "done")
  BY <1>1, StepIsProgress
<1>3. CASE \E q \in Requests : t = Handler(q) /\ StartRunner(q)
  BY <1>1, <1>3, StartingBurns
<1>4. CASE /\ Errand(t)' < Errand(t) /\ request' = request
           /\ \A u \in Threads \ {t} : pc'[u] = pc[u] /\ writing'[u] = writing[u]
           /\ pc[t] \notin Over /\ (pc[t] = "started" => pc'[t] = "done")
  <2>1. request[r] # Unasked
    BY <1>1, <1>4 DEF Shape, Over
  <2>2. Awaiting(r)' => Awaiting(r)
    <3>1. CASE t = Handler(r)
      BY <1>1, <1>4, <2>1, <3>1 DEF Awaiting, Shape, Types, Places, Over
    <3>2. CASE t = Runner(r)
      BY <1>1, <1>4, <3>2 DEF Awaiting
    <3> QED
      BY <3>1, <3>2
  <2>3. \A u \in {Handler(r), Runner(r)} \ {t} : Errand(u)' = Errand(u)
    BY <1>1, <1>4 DEF Errand
  <2>4. \A u \in {Handler(r), Runner(r)} : Errand(u) \in 0..14 /\ Errand(u)' \in 0..14
    BY ErrandIsSmall
  <2>5. Errand(Handler(r))' + Errand(Runner(r))' < Errand(Handler(r)) + Errand(Runner(r))
    BY <1>1, <1>4, <2>3, <2>4
  <2>6. request'[r] = request[r]
    BY <1>4
  <2> HIDE DEF Errand, Awaiting
  <2> QED
    BY <2>1, <2>2, <2>4, <2>5, <2>6 DEF Fuel
<1> QED
  BY <1>2, <1>3, <1>4

LEMMA OthersBurnNothing ==
  ASSUME NEW r \in Requests, request'[r] = request[r],
         \A u \in {Handler(r), Runner(r)} : pc'[u] = pc[u] /\ writing'[u] = writing[u]
  PROVE  Fuel(r)' = Fuel(r)
<1>1. Errand(Handler(r))' = Errand(Handler(r)) /\ Errand(Runner(r))' = Errand(Runner(r))
  BY DEF Errand
<1>2. Awaiting(r)' = Awaiting(r)
  BY DEF Awaiting
<1> QED
  BY <1>1, <1>2 DEF Fuel

LEMMA CrashGivesNothing ==
  ASSUME ForgeInv, NEW r \in Requests, Crash
  PROVE  Fuel(r)' <= Fuel(r)
<1>1. Types /\ Shape(r) /\ Handler(r) \in Threads /\ Runner(r) \in Threads /\ request' = request
  BY TheThreads DEF ForgeInv, Request, Crash
<1>2. \A t \in Threads : pc'[t] \in Over /\ Errand(t)' = 0
  BY DEF Crash, Errand, Over
<1>3. ~Awaiting(r)'
  BY <1>1, <1>2 DEF Awaiting, Over
<1>4. Fuel(r) \in 0..21
  BY FuelIsBounded
<1>5. CASE request[r] = Unasked
  BY <1>1, <1>5 DEF Fuel
<1>6. CASE request[r] # Unasked
  BY <1>1, <1>2, <1>3, <1>4, <1>6 DEF Fuel
<1> QED
  BY <1>5, <1>6

LEMMA RequestGoesOn ==
  ASSUME ForgeInv, NEW r \in Requests, [Next]_vars
  PROVE  Fuel(r)' <= Fuel(r) /\ (OwnStep(r) => Fuel(r)' < Fuel(r))
<1>1. /\ Fuel(r) \in 0..21 /\ Types
      /\ Handler(r) \in Threads /\ Runner(r) \in Threads
  BY FuelIsBounded, TheThreads DEF ForgeInv
<1>2. Fuel(r)' \in Int
  <2>1. Errand(Handler(r))' \in 0..14 /\ Errand(Runner(r))' \in 0..14
    BY ErrandIsSmall
  <2> QED
    BY <2>1 DEF Fuel
<1>3. CASE OwnStep(r)
  <2>1. Fuel(r)' < Fuel(r)
    BY <1>3, ArrivalBurns, OwnStepBurns DEF OwnStep
  <2> QED
    BY <1>1, <1>2, <2>1
<1>4. CASE ~OwnStep(r) /\ Crash
  BY <1>4, CrashGivesNothing
<1>5. CASE ~OwnStep(r) /\ ~Crash
  <2>1. request'[r] = request[r] /\ \A u \in {Handler(r), Runner(r)} : pc'[u] = pc[u] /\ writing'[u] = writing[u]
    <3>1. CASE UNCHANGED vars
      BY <3>1 DEF vars
    <3>2. ASSUME NEW q \in Requests, Receive(q)
          PROVE  request'[r] = request[r] /\ \A u \in {Handler(r), Runner(r)} : pc'[u] = pc[u] /\ writing'[u] = writing[u]
      <4>1. q # r
        BY <1>5, <3>2 DEF OwnStep
      <4>2. Handler(q) # Handler(r) /\ Handler(q) # Runner(r)
        BY <4>1, TheThreads
      <4>3. \E body : request' = [request EXCEPT ![q] = body]
        BY <3>2 DEF Receive
      <4>4. (\E p : pc' = [pc EXCEPT ![Handler(q)] = p]) /\ (writing' = writing \/ writing' = [writing EXCEPT ![Handler(q)] = "job"])
        BY <3>2 DEF Receive, WriteJob, Goto
      <4> QED
        BY <1>1, <4>1, <4>2, <4>3, <4>4 DEF Types
    <3>3. ASSUME NEW t \in Threads, Step(t)
          PROVE  request'[r] = request[r] /\ \A u \in {Handler(r), Runner(r)} : pc'[u] = pc[u] /\ writing'[u] = writing[u]
      <4>1. t # Handler(r) /\ t # Runner(r)
        BY <1>5, <3>3 DEF OwnStep
      <4>2. \/ \E q \in Requests : t = Handler(q) /\ StartRunner(q)
            \/ request' = request /\ \A u \in Threads \ {t} : pc'[u] = pc[u] /\ writing'[u] = writing[u]
        BY <1>1, <3>3, StepIsProgress
      <4>3. ASSUME NEW q \in Requests, t = Handler(q), StartRunner(q)
            PROVE  request'[r] = request[r] /\ \A u \in {Handler(r), Runner(r)} : pc'[u] = pc[u] /\ writing'[u] = writing[u]
        <5>1. q # r
          BY <4>1, <4>3
        <5>2. {Handler(q), Runner(q)} \cap {Handler(r), Runner(r)} = {}
          BY <5>1, TheThreads
        <5> QED
          BY <1>1, <4>3, <5>2 DEF StartRunner, Types
      <4> QED
        BY <1>1, <4>1, <4>2, <4>3
    <3> QED
      BY <1>5, <3>1, <3>2, <3>3 DEF Next
  <2> QED
    BY <1>1, <1>5, <2>1, OthersBurnNothing
<1> QED
  BY <1>3, <1>4, <1>5

\* What a request sets going comes to rest after 21 steps of its own at most, its arrival included,
\* whatever the other requests do, whatever raises and whoever renames the temporary file: each step
\* of its threads burns fuel, nobody gives any back, and none is left only when both have ended.
RequestsRunDown ==
  \A r \in Requests :
    /\ [](Fuel(r) \in 0..21 /\ (Fuel(r) = 0 => pc[Handler(r)] \in Over /\ pc[Runner(r)] \in Over))
    /\ [][Fuel(r)' <= Fuel(r) /\ (OwnStep(r) => Fuel(r)' < Fuel(r))]_vars

THEOREM RequestsAlwaysRunDown == Spec => RequestsRunDown
<1> SUFFICES ASSUME NEW r \in Requests
             PROVE  Spec => /\ [](Fuel(r) \in 0..21 /\ (Fuel(r) = 0 => pc[Handler(r)] \in Over /\ pc[Runner(r)] \in Over))
                            /\ [][Fuel(r)' <= Fuel(r) /\ (OwnStep(r) => Fuel(r)' < Fuel(r))]_vars
  BY DEF RequestsRunDown
<1>1. ForgeInv => Fuel(r) \in 0..21 /\ (Fuel(r) = 0 => pc[Handler(r)] \in Over /\ pc[Runner(r)] \in Over)
  BY FuelIsBounded
<1>2. ForgeInv /\ [Next]_vars => [Fuel(r)' <= Fuel(r) /\ (OwnStep(r) => Fuel(r)' < Fuel(r))]_vars
  BY RequestGoesOn
<1> QED
  BY <1>1, <1>2, ForgeInvHolds, PTL DEF Spec
===============================================================================

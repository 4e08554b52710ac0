------------------------------ MODULE Invocation ------------------------------
(***************************************************************************)
(* The web server's requests that ask the guardian, the oracle and the     *)
(* scribe: cortex/web.py with the clients of cortex/ipc.py, the role       *)
(* servers of cortex/service_server.py and the services behind both        *)
(* (cortex/services.py).  A client posts to a role server and, whatever    *)
(* goes wrong, has the same service do the work in its own process; the    *)
(* server may have done it too, or may still do it.                        *)
(***************************************************************************)
EXTENDS Integers, Sequences, FiniteSets, SequencesExt, Functions

CONSTANTS
  Requests,     \* the requests under way
  Kinds,        \* [Requests -> SUBSET AllKinds]: what each of them may be
  DeathBound,   \* bound: how often a role server dies, or loses one call
  DiskBound,    \* bound: how often an append fails in the web server
  EditBound     \* bound: how often runtime/permissions.json is edited

VARIABLES
  kind,         \* [Requests -> AllKinds]
  pc,           \* [Requests -> CallStages and the rest]: where its thread is
  waiting,      \* [Requests -> BOOLEAN]: it waits for the reply to what it posted
  verdict,      \* [Requests -> BOOLEAN]: what the guardian said
  up,           \* [Roles -> BOOLEAN]
  calls,        \* the calls the role servers have accepted and not yet served
  replies,      \* the calls whose reply is on its way
  actions,      \* ledger/actions.jsonl
  refusals,     \* ledger/refusals.jsonl
  permitted,    \* whether the permissions allow what the invocations ask for
  wasPermitted, \* history: the requests during which they did
  deaths, failures, edits

ledgerVars == <<actions, refusals>>
serverVars == <<up, calls, replies>>
boundVars == <<deaths, failures, edits>>
ipcVars == <<kind, pc, waiting, verdict, serverVars, ledgerVars, permitted, wasPermitted, boundVars>>

-----------------------------------------------------------------------------
Roles == {"guardian", "scribe", "oracle"}

\* POST /invoke and /oracle (and /v1/chat/completions, which does the same),
\* each with a task or without, and /self-test
AllKinds == {"invoke", "empty invoke", "oracle", "empty oracle", "self_test"}

\* What a request does one after the other; each of these is one call.
CallStages == {"check", "refusal", "refused", "accepted", "oracle", "proposed"}
RoleOf(stage) == CASE stage = "check" -> "guardian"
                   [] stage = "oracle" -> "oracle"
                   [] OTHER -> "scribe"

HasTask(r) == kind[r] \in {"invoke", "oracle"}
IsInvocation(r) == kind[r] \in {"invoke", "empty invoke"}

FirstStage(k) ==
  CASE k \in {"invoke", "empty invoke"} -> "check"
    [] k = "oracle" -> "oracle"
    [] k = "empty oracle" -> "answered"
    [] k = "self_test" -> "probe"

\* The verdict counts only for a request with a task.
After(r, stage, allowed) ==
  CASE stage = "check" /\ allowed /\ HasTask(r) -> "accepted"
    [] stage = "check" /\ ~(allowed /\ HasTask(r)) -> "refusal"
    [] stage = "refusal" -> "refused"
    [] stage = "accepted" -> "oracle"
    [] stage = "oracle" -> "proposed"
    [] OTHER -> "answered"

-----------------------------------------------------------------------------
(* The services.  ScribeService.append adds a line; GuardianService reads   *)
(* the permissions each time.                                               *)

Record(r, status) == [of |-> r, status |-> status]

Appends(r, stage) ==
  /\ actions' = IF stage \in {"refused", "accepted", "proposed"}
                THEN Append(actions, Record(r, stage)) ELSE actions
  /\ refusals' = IF stage = "refusal" THEN Append(refusals, Record(r, "refused")) ELSE refusals

CheckInvocation == permitted

AllowedOffline == TRUE

\* What GuardianClient says when it cannot ask the server.
CheckInProcess == CheckInvocation

-----------------------------------------------------------------------------
IpcInit ==
  /\ kind \in {k \in [Requests -> AllKinds] : \A r \in Requests : k[r] \in Kinds[r]}
  /\ pc = [r \in Requests |-> FirstStage(kind[r])]
  /\ waiting = [r \in Requests |-> FALSE] /\ verdict = [r \in Requests |-> FALSE]
  /\ up = [role \in Roles |-> TRUE] /\ calls = {} /\ replies = {}
  /\ actions = <<>> /\ refusals = <<>>
  /\ permitted \in BOOLEAN /\ wasPermitted = IF permitted THEN Requests ELSE {}
  /\ deaths = 0 /\ failures = 0 /\ edits = 0

Call(r) == <<r, pc[r]>>

Posts(r) ==
  /\ pc[r] \in CallStages /\ ~waiting[r] /\ up[RoleOf(pc[r])]
  /\ calls' = calls \cup {Call(r)}
  /\ waiting' = [waiting EXCEPT ![r] = TRUE]
  /\ UNCHANGED <<kind, pc, verdict, up, replies, ledgerVars, permitted, wasPermitted, boundVars>>

\* A role server does what a call asks for.  Its reply counts while the client
\* still waits for it.
Serves(r, stage) ==
  /\ <<r, stage>> \in calls
  /\ calls' = calls \ {<<r, stage>>}
  /\ Appends(r, stage)
  /\ IF waiting[r] /\ pc[r] = stage
     THEN /\ replies' = replies \cup {<<r, stage>>}
          /\ verdict' = [verdict EXCEPT ![r] = IF stage = "check" THEN CheckInvocation ELSE @]
     ELSE UNCHANGED <<replies, verdict>>
  /\ UNCHANGED <<kind, pc, waiting, up, permitted, wasPermitted, boundVars>>

Receives(r) ==
  /\ waiting[r] /\ Call(r) \in replies
  /\ replies' = replies \ {Call(r)}
  /\ waiting' = [waiting EXCEPT ![r] = FALSE]
  /\ pc' = [pc EXCEPT ![r] = After(r, pc[r], verdict[r])]
  /\ UNCHANGED <<kind, verdict, up, calls, ledgerVars, permitted, wasPermitted, boundVars>>

\* The except branch of a client without what is done in it
FallsBackSilently(r) ==
  /\ waiting' = [waiting EXCEPT ![r] = FALSE] /\ replies' = replies \ {Call(r)}
  /\ UNCHANGED <<verdict, ledgerVars>>
  /\ pc' = [pc EXCEPT ![r] = After(r, pc[r], FALSE)]

\* The except branch of a client: the service itself, in this process.
FallsBack(r) ==
  /\ waiting' = [waiting EXCEPT ![r] = FALSE] /\ replies' = replies \ {Call(r)}
  /\ verdict' = [verdict EXCEPT ![r] = IF pc[r] = "check" THEN CheckInProcess ELSE @]
  /\ Appends(r, pc[r])
  /\ pc' = [pc EXCEPT ![r] = After(r, pc[r], verdict'[r])]

\* Nobody listens on the port.
FindsNobody(r) ==
  /\ pc[r] \in CallStages /\ ~waiting[r] /\ ~up[RoleOf(pc[r])]
  /\ FallsBack(r)
  /\ UNCHANGED <<kind, up, calls, permitted, wasPermitted, boundVars>>

\* Without a timeout, only a connection that breaks ends a call
BreaksOff(r) ==
  /\ waiting[r] /\ ~up[RoleOf(pc[r])]
  /\ FallsBack(r)
  /\ UNCHANGED <<kind, up, calls, permitted, wasPermitted, boundVars>>

\* The timeout of a call passes, or its connection breaks; the server may
\* never have begun, be at it, or have sent the reply that is lost.
TimesOut(r) ==
  /\ waiting[r]
  /\ FallsBack(r)
  /\ UNCHANGED <<kind, up, calls, permitted, wasPermitted, boundVars>>

\* The append in the web server's own process fails: the exception ends the
\* request without an answer.
Raises(r) ==
  /\ waiting[r] \/ (pc[r] \in CallStages /\ ~up[RoleOf(pc[r])])
  /\ RoleOf(pc[r]) = "scribe" /\ failures < DiskBound
  /\ failures' = failures + 1
  /\ waiting' = [waiting EXCEPT ![r] = FALSE] /\ replies' = replies \ {Call(r)}
  /\ pc' = [pc EXCEPT ![r] = "raised"]
  /\ UNCHANGED <<kind, verdict, up, calls, ledgerVars, permitted, wasPermitted, deaths, edits>>

\* self_test appends a line in this process,
Probes(r) ==
  /\ pc[r] = "probe"
  /\ actions' = Append(actions, Record(r, "probe"))
  /\ pc' = [pc EXCEPT ![r] = "tail"]
  /\ UNCHANGED <<kind, waiting, verdict, serverVars, refusals, permitted, wasPermitted, boundVars>>

\* and compares it with the last one of the file.
ReadsTail(r) ==
  /\ pc[r] = "tail"
  /\ verdict' = [verdict EXCEPT ![r] = Last(actions) = Record(r, "probe")]
  /\ pc' = [pc EXCEPT ![r] = "answered"]
  /\ UNCHANGED <<kind, waiting, serverVars, ledgerVars, permitted, wasPermitted, boundVars>>

\* A role server dies with everything it had accepted, or one of its threads
\* does; PID 1 starts it again.
ServerDies(role) ==
  /\ up[role] /\ deaths < DeathBound /\ deaths' = deaths + 1
  /\ up' = [up EXCEPT ![role] = FALSE]
  /\ calls' = {call \in calls : RoleOf(call[2]) # role}
  /\ UNCHANGED <<kind, pc, waiting, verdict, replies, ledgerVars, permitted, wasPermitted, failures, edits>>

Drops(call) ==
  /\ deaths < DeathBound /\ deaths' = deaths + 1
  /\ calls' = calls \ {call}
  /\ UNCHANGED <<kind, pc, waiting, verdict, up, replies, ledgerVars, permitted, wasPermitted, failures, edits>>

Starts(role) ==
  /\ ~up[role]
  /\ up' = [up EXCEPT ![role] = TRUE]
  /\ UNCHANGED <<kind, pc, waiting, verdict, calls, replies, ledgerVars, permitted, wasPermitted, boundVars>>

\* The operator edits runtime/permissions.json.
Edits ==
  /\ edits < EditBound /\ edits' = edits + 1
  /\ permitted' = ~permitted
  /\ wasPermitted' = wasPermitted \cup (IF permitted' THEN {r \in Requests : pc[r] = "check"} ELSE {})
  /\ UNCHANGED <<kind, pc, waiting, verdict, serverVars, ledgerVars, deaths, failures>>

IpcNext ==
  \/ \E r \in Requests : Posts(r) \/ Receives(r) \/ FindsNobody(r) \/ TimesOut(r) \/ Raises(r)
                         \/ Probes(r) \/ ReadsTail(r)
  \/ \E call \in calls : Serves(call[1], call[2]) \/ Drops(call)
  \/ \E role \in Roles : ServerDies(role) \/ Starts(role)
  \/ Edits

\* A thread goes on, and urlopen gives up when its timeout has passed.
IpcFairness == \A r \in Requests : 
  WF_ipcVars(Posts(r) \/ Receives(r) \/ FindsNobody(r) \/ TimesOut(r) \/ Probes(r) \/ ReadsTail(r))

IpcSpec == IpcInit /\ [][IpcNext]_ipcVars /\ IpcFairness

-----------------------------------------------------------------------------
Told(r, stream) == {stream[i].status : i \in {j \in DOMAIN stream : stream[j].of = r}}
At(r, status) == {i \in DOMAIN actions : actions[i] = Record(r, status)}

\* Whoever did the work, the ledgers tell of every request one story, and of an
\* answered one the whole story: refused in both ledgers, or accepted before
\* it was proposed; never both, also when a server does late what was done
\* already in its place.
LedgersTellTheAnswer ==
  \A r \in Requests :
    /\ Told(r, refusals) # {} => At(r, "accepted") = {} /\ At(r, "proposed") = {}
    /\ IsInvocation(r) /\ At(r, "proposed") # {} =>
         \E i \in At(r, "accepted") : \A j \in At(r, "proposed") : i < j
    /\ pc[r] = "answered" /\ (IsInvocation(r) \/ HasTask(r)) =>
         \/ At(r, "refused") # {} /\ Told(r, refusals) # {}
         \/ At(r, "proposed") # {}

\* What is accepted was permitted at some moment between question and verdict,
\* whether the server or the web process was asked.
AcceptedWasPermitted ==
  \A r \in Requests : At(r, "accepted") # {} => r \in wasPermitted /\ HasTask(r)

\* Every request comes to its end, with role servers that hang, die or drop calls.
RequestsEnd == \A r \in Requests : <>(pc[r] \in {"answered", "raised"})
===============================================================================

-------------------------------- MODULE PID1 --------------------------------
(***************************************************************************)
(* cortex/pid1.py: the supervisor that is process 1 of the container, the  *)
(* processes it starts, and the signals it is sent.                        *)
(*                                                                         *)
(* The supervisor is one thread.  Between any two of its steps a process   *)
(* may end, SIGTERM may arrive (the handler only sets shutting_down), or   *)
(* the grace period may run out.  A call to the operating system may fail: *)
(* Popen, and the writes of the ledger and of pid1.json, raise OSError,    *)
(* which nothing in run() catches.  The kernel gives a pid out again once  *)
(* it was reaped only if PidsRecycled.                                     *)
(***************************************************************************)
EXTENDS Integers, Sequences, SequencesExt, FiniteSets

CONSTANTS
  Specs,         \* the names of the children, in the order they are started
  Web,           \* the name of the child the container fails without
  OnFailure,     \* the names whose restart policy is "on-failure"
  MaxRestarts,   \* ChildSpec.max_restarts
  Pids,
  PidsRecycled,
  FaultBound     \* bound: how many calls to the operating system fail

Names == ToSet(Specs)
Nobody == "nobody"   \* what a pid was started for that is not in use yet

ASSUME PID1Assumption ==
  /\ Specs \in Seq(Names) /\ Nobody \notin Names
  /\ MaxRestarts \in Nat /\ FaultBound \in Nat
  /\ PidsRecycled \in BOOLEAN
  /\ OnFailure \subseteq Names /\ Pids \subseteq Nat \ {0}
  /\ Cardinality(Pids) >= Cardinality(Names) + Cardinality(OnFailure) * MaxRestarts
  /\ \A i, j \in DOMAIN Specs : Specs[i] = Specs[j] => i = j

VARIABLES
  pc,            \* what run() is doing
  starting,      \* the names of the children that are to be started next
  todo,          \* the pids the for-loop of reap() has still to poll
  back,          \* where the call of reap() returns to
  children,      \* the pids of self.children, in the order of the dict
  states,        \* self.states: [Names -> ChildState]
  shuttingDown,  \* self.shutting_down
  graceOver,     \* the deadline of terminate_children has passed
  raised,        \* an OSError has reached run()
  faults,        \* how many calls have failed
  processes,     \* [Pids -> Process], the kernel's view
  signalled      \* the pids that were sent SIGTERM or SIGKILL by the supervisor

supervisorVars == <<pc, starting, todo, back, children, states>>
processVars == <<processes, signalled>>
vars == <<supervisorVars, shuttingDown, graceOver, raised, faults, processVars>>

NoPid == 0   \* None

\* The kernel's view of a pid; of is the child it was started for.
Process == [of : Names \cup {Nobody}, status : {"unused", "live", "ok", "bad", "reaped"},
            killed : BOOLEAN]

ChildState == [pid : Pids \cup {NoPid}, status : {"stopped", "running", "exited", "failed"},
               starts : 0..(1 + MaxRestarts), restarts : 0..MaxRestarts]

Init ==
  /\ pc = "start" /\ starting = Specs /\ back = "web" /\ todo = <<>> /\ children = <<>>
  /\ states = [n \in Names |-> [pid |-> NoPid, status |-> "stopped", starts |-> 0, restarts |-> 0]]
  /\ shuttingDown = FALSE /\ graceOver = FALSE /\ raised = FALSE /\ faults = 0
  /\ processes = [p \in Pids |-> [of |-> Nobody, status |-> "unused", killed |-> FALSE]]
  /\ signalled = {}

---------------------------------------------------------------------------
(* Starting. *)

Live(p) == processes[p].status = "live"

\* Pids are given out in ascending order, then again.
Unused == {p \in Pids : processes[p].status = "unused"}
FreePids == {p \in Unused : \A q \in Unused : p <= q}
              \cup {p \in Pids : PidsRecycled /\ processes[p].status = "reaped"}

\* start_child(spec), when Popen succeeds.
StartChild(name) ==
  \E p \in FreePids :
    /\ processes' = [processes EXCEPT ![p] = [of |-> name, status |-> "live", killed |-> FALSE]]
    /\ signalled' = signalled \ {p}
    /\ children' = Append(children, p)
    /\ states' = [states EXCEPT ![name].pid = p, ![name].status = "running",
                                ![name].starts = @ + 1]

\* start_all, one child of the list at a time.
StartNext ==
  /\ pc = "start"
  /\ IF starting = <<>>
     THEN pc' = "loop" /\ UNCHANGED <<starting, children, states, processVars>>
     ELSE StartChild(Head(starting)) /\ starting' = Tail(starting) /\ pc' = pc
  /\ UNCHANGED <<todo, back, shuttingDown, graceOver, raised, faults>>

---------------------------------------------------------------------------
(* The loop of run(). *)

LoopHead ==
  /\ pc = "loop"
  /\ pc' = IF shuttingDown THEN "term" ELSE "reap"
  /\ todo' = children /\ back' = "web"
  /\ UNCHANGED <<starting, children, states, shuttingDown, graceOver, raised, faults, processVars>>

\* The first of self.states that remembers the pid.
Remembers(p) == {i \in DOMAIN Specs : states[Specs[i]].pid = p}
StateOf(p) == Specs[CHOOSE i \in Remembers(p) : \A j \in Remembers(p) : i <= j]

RestartUnbounded(name, code) ==
  /\ ~shuttingDown /\ code = "bad" /\ name \in OnFailure

RestartAfterSuccess(name, code) ==
  /\ ~shuttingDown /\ code = "ok" /\ name \in OnFailure
  /\ states[name].restarts < MaxRestarts

RestartInShutdown(name, code) ==
  /\ code = "bad" /\ name \in OnFailure
  /\ states[name].restarts < MaxRestarts

\* The conditions of _maybe_restart.
Restarts(name, code) ==
  /\ ~shuttingDown /\ code = "bad" /\ name \in OnFailure
  /\ states[name].restarts < MaxRestarts

\* del self.children[pid]: the others keep their order.
Without(p) ==
  LET k == CHOOSE i \in DOMAIN children : children[i] = p
  IN  [i \in 1..Len(children) - 1 |-> children[IF i < k THEN i ELSE i + 1]]

\* One turn of the for-loop of reap(): poll() also collects the process.
ReapNext ==
  /\ pc = "reap" /\ todo # <<>>
  /\ LET p == Head(todo)
         name == StateOf(p)
         code == processes[p].status
     IN  IF Live(p)
         THEN UNCHANGED <<pc, starting, children, states, processVars>>
         ELSE /\ children' = Without(p)
              /\ processes' = [processes EXCEPT ![p].status = "reaped"]
              /\ states' = [states EXCEPT
                   ![name].status = IF code = "ok" THEN "exited" ELSE "failed",
                   ![name].restarts = IF Restarts(name, code) THEN @ + 1 ELSE @]
              /\ IF Restarts(name, code)
                 THEN pc' = "restart" /\ starting' = <<name>>
                 ELSE UNCHANGED <<pc, starting>>
              /\ UNCHANGED signalled
  /\ todo' = Tail(todo)
  /\ UNCHANGED <<back, shuttingDown, graceOver, raised, faults>>

Restart ==
  /\ pc = "restart"
  /\ StartChild(Head(starting))
  /\ starting' = <<>> /\ pc' = "reap"
  /\ UNCHANGED <<todo, back, shuttingDown, graceOver, raised, faults>>

ReapEnds ==
  /\ pc = "reap" /\ todo = <<>>
  /\ pc' = back
  /\ UNCHANGED <<starting, todo, back, children, states, shuttingDown, graceOver, raised, faults,
                 processVars>>

WebGone ==
  /\ Web \in Names
  /\ states[Web].status \in {"failed", "exited"}
  /\ states[Web].pid \notin ToSet(children)

WebIsIgnored ==
  /\ pc = "web" /\ pc' = "loop" /\ UNCHANGED shuttingDown
  /\ UNCHANGED <<starting, todo, back, children, states, graceOver, raised, faults, processVars>>

CheckWeb ==
  /\ pc = "web"
  /\ IF WebGone THEN shuttingDown' = TRUE /\ pc' = "term"
                ELSE UNCHANGED shuttingDown /\ pc' = "loop"
  /\ UNCHANGED <<starting, todo, back, children, states, graceOver, raised, faults, processVars>>

---------------------------------------------------------------------------
(* terminate_children. *)

Signal(pids) == signalled' = signalled \cup {p \in pids : Live(p)}

Terminate ==
  /\ pc = "term"
  /\ Signal(ToSet(children))
  /\ pc' = "grace"
  /\ UNCHANGED <<starting, todo, back, children, states, shuttingDown, graceOver, raised, faults,
                 processes>>

GraceUnlimited ==
  /\ pc = "grace"
  /\ IF \E p \in ToSet(children) : Live(p)
     THEN pc' = "reap" /\ todo' = children /\ back' = "grace"
     ELSE pc' = "kill" /\ UNCHANGED <<todo, back>>
  /\ UNCHANGED <<starting, children, states, shuttingDown, graceOver, raised, faults, processVars>>

Grace ==
  /\ pc = "grace"
  /\ IF ~graceOver /\ \E p \in ToSet(children) : Live(p)
     THEN pc' = "reap" /\ todo' = children /\ back' = "grace"
     ELSE pc' = "kill" /\ UNCHANGED <<todo, back>>
  /\ UNCHANGED <<starting, children, states, shuttingDown, graceOver, raised, faults, processVars>>

Kill ==
  /\ pc = "kill"
  /\ Signal(ToSet(children))
  /\ processes' = [p \in Pids |-> IF p \in ToSet(children) /\ Live(p)
                                  THEN [processes[p] EXCEPT !.killed = TRUE]
                                  ELSE processes[p]]
  /\ pc' = "reap" /\ todo' = children /\ back' = "over"
  /\ UNCHANGED <<starting, children, states, shuttingDown, graceOver, raised, faults>>

\* A call fails: Popen, the ledger or pid1.json, also in the handler of a signal,
\* before it has set shutting_down.  start_all is outside the try; the finally
\* clause covers the loop, and nothing covers the clause itself.
Fault ==
  /\ faults < FaultBound /\ pc # "over"
  /\ faults' = faults + 1 /\ raised' = TRUE
  /\ pc' = IF pc \in {"loop", "web"} \/ (pc \in {"reap", "restart"} /\ back = "web")
           THEN "term" ELSE "over"
  /\ UNCHANGED <<starting, todo, back, children, states, shuttingDown, graceOver, processVars>>

Supervise ==
  \/ StartNext \/ LoopHead \/ ReapNext \/ Restart \/ ReapEnds \/ CheckWeb
  \/ Terminate \/ Grace \/ Kill

---------------------------------------------------------------------------
(* What happens around the supervisor. *)

\* SIGTERM or SIGINT: _handle_signal.  SIGHUP is only logged.
Shutdown ==
  /\ pc # "over" /\ ~shuttingDown
  /\ shuttingDown' = TRUE
  /\ UNCHANGED <<supervisorVars, graceOver, raised, faults, processVars>>

Deadline ==
  /\ pc = "grace" \/ (pc \in {"reap", "restart"} /\ back = "grace")
  /\ ~graceOver /\ graceOver' = TRUE
  /\ UNCHANGED <<supervisorVars, shuttingDown, raised, faults, processVars>>

\* A process ends, of its own accord or because it was signalled: one that
\* was signalled may still exit with 0, unless it was killed.
Exit(p) ==
  /\ Live(p)
  /\ \E code \in IF processes[p].killed THEN {"bad"} ELSE {"ok", "bad"} :
       processes' = [processes EXCEPT ![p].status = code]
  /\ UNCHANGED <<supervisorVars, shuttingDown, graceOver, raised, faults, signalled>>

Dies(p) == processes[p].killed /\ Exit(p)

Next == Supervise \/ Fault \/ Shutdown \/ Deadline \/ \E p \in Pids : Exit(p)

\* The supervisor keeps running, the clock too, and SIGKILL kills.  Nothing
\* obliges a process that was not killed to end, or anyone to ask for a shutdown.
Spec == Init /\ [][Next]_vars /\ WF_vars(Supervise) /\ WF_vars(Deadline)
             /\ \A p \in Pids : WF_vars(Dies(p))

---------------------------------------------------------------------------
(* Properties. *)

\* A shutdown leaves nobody behind: when run() returns, every process it ever
\* started has ended or has been killed, also one whose restart was decided just
\* before the signal came (terminate_children, _maybe_restart).
ShutdownIsComplete ==
  pc = "over" /\ ~raised =>
    \A p \in Pids : Live(p) => p \in signalled /\ processes[p].killed

\* A service never runs twice, however its restarts, a shutdown and failing
\* calls interleave, and never more often than its restarts allow.
OneProcessPerService ==
  \A n \in Names :
    /\ \A p, q \in Pids : Live(p) /\ Live(q) /\ processes[p].of = n /\ processes[q].of = n
                            => p = q
    /\ Cardinality({p \in Pids : processes[p].of = n}) <= 1 + MaxRestarts

\* What pid1.json says of a child is what self.children holds: it is running
\* exactly if its handle is kept, and the handle is its own (reap, start_child).
StatesMatchHandles ==
  \A n \in Names :
    /\ states[n].status = "running" <=> states[n].pid \in ToSet(children)
    /\ states[n].status = "running" => processes[states[n].pid].of = n

\* Both: processes, handles and states tell of the same children.
ChildrenAreAccountedFor == OneProcessPerService /\ StatesMatchHandles

\* Once a shutdown is asked for, run() returns: children that ignore SIGTERM,
\* and failing calls, do not hold it up for ever.
ShutdownEnds == shuttingDown ~> pc = "over"

\* A child that failed and may be restarted runs again, unless the supervisor
\* shuts down or fails (reap, _maybe_restart).
FailedChildReturns ==
  \A n \in OnFailure :
    (\E p \in Pids : processes[p].of = n /\ processes[p].status = "bad")
      /\ states[n].restarts < MaxRestarts
    ~> \/ \E p \in Pids : processes[p].of = n /\ Live(p)
       \/ shuttingDown \/ pc = "over"

\* The container does not outlive its web service: once that has exited, or
\* failed with no restart left, run() returns.
ContainerFollowsWeb ==
  /\ \E p \in Pids : processes[p].of = Web /\ \/ processes[p].status = "ok"
                                              \/ /\ processes[p].status = "bad"
                                                 /\ states[Web].restarts = MaxRestarts
  ~> pc = "over"

\* README.md: process 1 "terminates children during shutdown".  When
\* terminate_children has run to its end, no process is left that was not even
\* signalled.
NobodyIsLeftBehind ==
  pc = "over" /\ back = "over" => \A p \in Pids : Live(p) => p \in signalled
=============================================================================

--------------------------------- MODULE Boot ---------------------------------
(***************************************************************************)
(* cortex/init.py: the older supervisor, which keeps the states of the     *)
(* registered services in runtime/state.json and a line of every command   *)
(* on ledger/signals.jsonl.  Every command is a process of its own: it     *)
(* loads the file, changes what it read, writes it back and logs; the      *)
(* write truncates the file first, and nothing is locked.                  *)
(***************************************************************************)
EXTENDS Integers, Sequences, FiniteSets, SequencesExt

CONSTANTS
  Registered,    \* the names in services.json, in the order of the file
  Registries,    \* what depends_on may be: a set of [names -> Seq(names)]
  UsualRegistry, \* the one of them several commands are tried on
  Operators,     \* processes that run commands
  CommandBound   \* bound: commands ever begun

VARIABLES
  dependsOn,     \* the registry in services.json
  stateFile,     \* runtime/state.json
  signals,       \* ledger/signals.jsonl
  operator,      \* [Operators -> the command each is in the midst of]
  commands,      \* how many more may begin
  down,          \* history: a shutdown has been saved, and no boot begun since
  outrun         \* history: what was loaded before that shutdown was saved after it

\* The file is JSON: services is an object, each depends_on a list.
ASSUME BootAssumption ==
  /\ Registered \in Seq(ToSet(Registered)) /\ CommandBound \in Nat
  /\ \A registry \in Registries \cup {UsualRegistry} :
       /\ DOMAIN registry = ToSet(Registered)
       /\ \A name \in DOMAIN registry : registry[name] \in Seq(ToSet(registry[name]))

bootVars == <<dependsOn, stateFile, signals, operator, commands, down, outrun>>

ServiceNames == ToSet(Registered)
NoState == [text |-> "whole", status |-> <<>>]
TornState == [text |-> "torn"]
AtEase == [at |-> "ease"]

-----------------------------------------------------------------------------
(* _order_services: depth first, each name once; unknown names are passed   *)
(* over, and a cycle is cut where it closes.                                *)

Walk == [seen : SUBSET ServiceNames, ordered : Seq(ServiceNames)]

\* Each name of the list is visited in turn, if it is registered.
Through(visit, walk, names) ==
  LET after[k \in 0..Len(names)] ==
        IF k = 0 THEN walk
        ELSE IF names[k] \in ServiceNames THEN visit[after[k - 1]][names[k]] ELSE after[k - 1]
  IN  after[Len(names)]

\* visit, by how deep it may still call itself: a call that goes deeper has seen one
\* name more, so the number of names is deep enough.
Visit(registry) ==
  LET visit[depth \in 0..Cardinality(ServiceNames)] ==
        [walk \in Walk |-> [name \in ServiceNames |->
           IF depth = 0 \/ name \in walk.seen THEN walk
           ELSE LET entered == [walk EXCEPT !.seen = @ \cup {name}]
                    below == Through(visit[depth - 1], entered, registry[name])
                IN  [below EXCEPT !.ordered = Append(@, name)]]]
  IN  visit[Cardinality(ServiceNames)]

OrderServices(registry) ==
  Through(Visit(registry), [seen |-> {}, ordered |-> <<>>], Registered).ordered

\* boot does not look at the old file; every service is "running" at once.  What is
\* saved is an object with sorted keys: the order of boot is on the ledger alone.
Booted == [text |-> "whole", status |-> [n \in ToSet(OrderServices(dependsOn)) |-> "running"]]

ShutDown(state) == [state EXCEPT !.status = [n \in DOMAIN @ |-> "stopped"]]

ReapedRestarting(state) ==
  [state EXCEPT !.status = [n \in DOMAIN @ |-> IF @[n] = "failed" THEN "running" ELSE @[n]]]

Reaped(state) ==
  [state EXCEPT !.status = [n \in DOMAIN @ |-> IF @[n] = "failed" THEN "stopped" ELSE @[n]]]

Failed(state, name) == [state EXCEPT !.status[name] = "failed"]

-----------------------------------------------------------------------------
BootInit ==
  /\ stateFile = NoState /\ signals = <<>>
  /\ operator = [o \in Operators |-> AtEase]
  /\ down = FALSE /\ outrun = FALSE
  /\ \/ dependsOn \in Registries /\ commands = 1
     \/ dependsOn = UsualRegistry /\ commands = CommandBound

\* The file as it is to become, and the line to be logged then.
WillSave(o, state, event, services) ==
  operator' = [operator EXCEPT ![o] =
    [at |-> "open", state |-> state, line |-> [event |-> event, services |-> services], behind |-> FALSE]]

Starts(o) ==
  /\ operator[o] = AtEase /\ commands > 0 /\ commands' = commands - 1
  /\ UNCHANGED <<dependsOn, stateFile, signals, outrun>>

Boots(o) ==
  /\ Starts(o) /\ WillSave(o, Booted, "boot", OrderServices(dependsOn))
  /\ down' = FALSE

\* load_state raises on a file that is no JSON.
Loads(o) == Starts(o) /\ stateFile.text = "whole" /\ UNCHANGED down

ShutsDown(o) == Loads(o) /\ WillSave(o, ShutDown(stateFile), "shutdown", <<>>)
Reaps(o) == Loads(o) /\ WillSave(o, Reaped(stateFile), "reap", <<>>)
Fails(o, name) ==
  Loads(o) /\ name \in DOMAIN stateFile.status /\ WillSave(o, Failed(stateFile, name), "failed", <<>>)

OpensState(o) ==
  /\ operator[o].at = "open"
  /\ operator' = [operator EXCEPT ![o].at = "write"]
  /\ stateFile' = TornState
  /\ UNCHANGED <<dependsOn, signals, commands, down, outrun>>

\* The others in the midst of a command, once this one has saved a shutdown.
LeftBehind(o) ==
  [p \in Operators |->
     IF p = o THEN [operator[o] EXCEPT !.at = "log"]
     ELSE IF operator[o].line.event = "shutdown" /\ operator[p].at \in {"open", "write"}
          THEN [operator[p] EXCEPT !.behind = TRUE] ELSE operator[p]]

\* If another has written in between, its longer text may show behind this one.
SavesState(o) ==
  /\ operator[o].at = "write"
  /\ \E text \in {operator[o].state} \cup (IF stateFile = TornState THEN {} ELSE {TornState}) : stateFile' = text
  /\ operator' = LeftBehind(o)
  /\ IF operator[o].line.event = "shutdown" THEN down' = TRUE /\ outrun' = FALSE
                                             ELSE down' = down /\ outrun' = (outrun \/ operator[o].behind)
  /\ UNCHANGED <<dependsOn, signals, commands>>

LogsSignal(o) ==
  /\ operator[o].at = "log"
  /\ signals' = Append(signals, operator[o].line)
  /\ operator' = [operator EXCEPT ![o] = AtEase]
  /\ UNCHANGED <<dependsOn, stateFile, commands, down, outrun>>

CommandDies(o) ==
  /\ operator[o] # AtEase
  /\ operator' = [operator EXCEPT ![o] = AtEase]
  /\ UNCHANGED <<dependsOn, stateFile, signals, commands, down, outrun>>

BootNext ==
  \E o \in Operators :
    \/ Boots(o) \/ ShutsDown(o) \/ Reaps(o) \/ \E name \in ServiceNames : Fails(o, name)
    \/ OpensState(o) \/ SavesState(o) \/ LogsSignal(o) \/ CommandDies(o)

BootSpec == BootInit /\ [][BootNext]_bootVars

-----------------------------------------------------------------------------
DependenciesOf(registry, name) == ToSet(registry[name]) \cap ServiceNames

Closed(registry, S) == \A n \in S : DependenciesOf(registry, n) \subseteq S

\* What a service stands on: the least set with its dependencies and theirs.
Reach(registry, name) ==
  {m \in ServiceNames :
     \A S \in SUBSET ServiceNames : DependenciesOf(registry, name) \subseteq S /\ Closed(registry, S) => m \in S}

Position(order, name) == CHOOSE i \in DOMAIN order : order[i] = name

\* Every registered service exactly once, and after everything it stands on that does
\* not in turn stand on it.
Ordered(order) ==
  /\ Len(order) = Cardinality(ServiceNames) /\ ToSet(order) = ServiceNames
  /\ \A s \in ServiceNames : \A d \in DependenciesOf(dependsOn, s) :
       s \notin Reach(dependsOn, d) => Position(order, d) < Position(order, s)

\* Whatever depends_on says, unknown names and cycles included, every boot on the
\* ledger took the services in such an order.
DependenciesComeFirst ==
  \A i \in DOMAIN signals : signals[i].event = "boot" => Ordered(signals[i].services)

\* init.py:3-4, "obeys shutdown": once a shutdown is saved, whatever dies, is reaped
\* or fails beside it or after it, no service is running in a file that can be
\* read, until the next boot begins; unless a command saved what it had loaded
\* before that shutdown, for nothing is locked.
ShutdownIsObeyed ==
  down /\ ~outrun => stateFile.text = "torn" \/ \A n \in DOMAIN stateFile.status : stateFile.status[n] # "running"

\* Both, of every state of the file and the ledger.
SupervisionIsSound == DependenciesComeFirst /\ ShutdownIsObeyed
===============================================================================

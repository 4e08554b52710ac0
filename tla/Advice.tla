-------------------------------- MODULE Advice --------------------------------
(***************************************************************************)
(* The deciders that only advise: cortex/deliberation.py with the          *)
(* classifiers of cortex/specialists.py, and the choice of a model in      *)
(* cortex/model_registry.py.  A task is what the classifiers find in it:   *)
(* the kinds of words that ask for authority, the patterns of risk, and    *)
(* the words the registry looks for.                                       *)
(***************************************************************************)
EXTENDS Integers, Sequences, FiniteSets, SequencesExt, FiniteSetsExt, TLC

CONSTANTS
  Levels,       \* the levels of runtime/permissions.json: [tools, confirm]
  TaskRisks,    \* the sets of patterns tasks match
  ToolSets,     \* the sets of tools that are asked for
  KeySets       \* the sets of providers with a key in the environment

VARIABLES
  asked,        \* the task and what comes with it
  advice        \* what the deciders made of it

adviceVars == <<asked, advice>>

-----------------------------------------------------------------------------
(* specialists.py *)

AUTHORITY_ORDER == <<"observe", "interpret", "prepare", "act_reversible", "act_irreversible">>
Rank(level) == CHOOSE i \in DOMAIN AUTHORITY_ORDER : AUTHORITY_ORDER[i] = level

\* The kinds of words AuthorityClassifier looks for, with the level each implies.
Implies == [plan |-> "prepare", edit |-> "act_reversible", final |-> "act_irreversible"]
WordKinds == DOMAIN Implies \cup {"read"}

\* classify: the highest level implied, "read" lowers only the default.
EstimatedAuthority(words, tools) ==
  LET default == IF "read" \in words THEN "observe" ELSE "interpret"
      implied == {Implies[w] : w \in words \ {"read"}}
                 \cup {"act_reversible" : t \in tools \cap {"write_workspace", "run_tests", "git_commit"}}
  IN  AUTHORITY_ORDER[Max({Rank(l) : l \in implied \cup {default}})]

GraveRisks == {"hidden_action", "credential_risk", "irreversible_action", "self_persistence"}
MaterialTools == {"write_workspace", "shell", "network", "deploy"}   \* by their prefixes

RiskLabel(risks, tools) ==
  IF risks \cap GraveRisks # {} THEN "high"
  ELSE IF risks # {} \/ tools \cap MaterialTools # {} THEN "elevated" ELSE "low"

-----------------------------------------------------------------------------
(* GuardianService.check_invocation *)

GuardianAllows(authority, tools, confirmed) ==
  /\ authority \in DOMAIN Levels
  /\ tools \subseteq Levels[authority].tools
  /\ Levels[authority].confirm => confirmed

-----------------------------------------------------------------------------
(* DeliberationService *)

Narrowing == {"refuse_or_narrow", "authority_mismatch"}
RequiresWitness(kind) == kind # "interpret_only"

\* generate_options: the later an option is inserted, the further in front.
GenerateOptions(q) ==
  (IF q.estimate \in {"act_reversible", "act_irreversible"} /\ q.authority \in {"observe", "interpret", "prepare"}
   THEN <<"authority_mismatch">> ELSE <<>>)
  \o (IF ~q.allowed \/ q.risk = "high" THEN <<"refuse_or_narrow">> ELSE <<>>)
  \o <<"interpret_only", "prepare_plan", "ask_witness">>

If(condition, yes, no) == IF condition THEN yes ELSE no

\* score_option.  No option executes anything.
ScoreOption(kind, q) ==
  50
  + (CASE kind = "interpret_only" -> 12 [] kind = "prepare_plan" -> 8 [] kind = "ask_witness" -> 10 [] OTHER -> 18)
  + If(q.risk = "high", If(kind \in Narrowing, 20, -15), If(q.risk = "elevated", If(RequiresWitness(kind), 8, -4), 0))
  + If(q.allowed, 0, If(kind = "refuse_or_narrow", 20, -20))
  + If(q.prophet = "fail" /\ q.risk # "low", If(kind = "refuse_or_narrow", 12, -12), 0)

\* sort(reverse=True) keeps the order of equals: the first of the best.
Best(q) ==
  LET options == GenerateOptions(q)
      score(i) == ScoreOption(options[i], q)
      best == {i \in DOMAIN options : \A j \in DOMAIN options : score(j) <= score(i)}
  IN  options[Min(best)]

Recommendation(q) == IF q.risk = "high" THEN "refuse_or_narrow" ELSE Best(q)

Refuses(q) == ~q.allowed \/ q.risk = "high"

-----------------------------------------------------------------------------
(* ModelRegistry.route and what OracleService.propose makes of it.  All     *)
(* three models allow the authorities route lets through.                   *)

RemoteProviders == {"openai", "openrouter"}

\* hard, offline: words of the task or the context.  forced: the provider the
\* context or ORACLE_PROVIDER names; modelKnown: the registry has that provider
\* with the model that is asked for.
Queries ==
  [kind : {"query"}, authority : {"observe", "interpret", "prepare"}, hard : BOOLEAN, offline : BOOLEAN,
   forced : RemoteProviders \cup {"local", "echo", "none"}, modelKnown : BOOLEAN, keys : KeySets]

RouteHard(q) ==
  LET reachable == {p \in RemoteProviders : p \in q.keys} IN
  IF q.hard /\ "openai" \in reachable THEN "openai"
  ELSE IF q.hard /\ "openrouter" \in reachable THEN "openrouter" ELSE "local"

RouteIgnoringOffline(q) ==
  CASE q.authority \notin {"interpret", "observe"} -> "local"
    [] q.authority \in {"interpret", "observe"} /\ q.forced = "echo" -> "echo"
    [] OTHER -> RouteHard(q)

Route(q) ==
  LET scoped == q.authority \in {"interpret", "observe"}
      found  == q.forced \notin {"echo", "none"} /\ q.modelKnown
      local  == [q EXCEPT !.hard = FALSE]
  IN  CASE ~scoped -> "local"
        [] scoped /\ q.forced = "echo" -> "echo"
        [] scoped /\ found -> IF q.forced \in q.keys THEN q.forced ELSE "local"
        [] OTHER -> RouteHard(IF q.offline THEN local ELSE q)

-----------------------------------------------------------------------------
Tasks ==
  [words : SUBSET WordKinds, risks : TaskRisks, tools : ToolSets, confirmed : BOOLEAN,
   authority : DOMAIN Levels \cup {"unknown"}, prophet : {"pass", "fail", "none"}]

\* What deliberate collects before it generates options: two classifiers, the
\* guardian and the last report of the prophet.
Collected(t) ==
  [kind |-> "task", authority |-> t.authority, prophet |-> t.prophet,
   estimate |-> EstimatedAuthority(t.words, t.tools),
   risk |-> RiskLabel(t.risks, t.tools),
   allowed |-> GuardianAllows(t.authority, t.tools, t.confirmed)]

Nothing == [kind |-> "nothing"]

AdviceInit == asked = Nothing /\ advice = Nothing

Deliberate ==
  /\ asked = Nothing
  /\ \E t \in Tasks :
       LET q == Collected(t) IN
       /\ asked' = q
       /\ advice' = [kind |-> "deliberation", refused |-> Refuses(q), recommendation |-> Recommendation(q)]

Propose ==
  /\ asked = Nothing
  /\ \E q \in Queries :
       /\ asked' = q
       /\ advice' = [kind |-> "proposal", provider |-> Route(q)]

AdviceNext == Deliberate \/ Propose

AdviceSpec == AdviceInit /\ [][AdviceNext]_adviceVars

-----------------------------------------------------------------------------
\* "Recommend a bounded next step" (deliberation.py:4-5), over every combination of
\* scores: a refusal and the advice to narrow go together; a task that needs more
\* authority than it declares is told so; and under elevated risk whatever else is
\* recommended needs a witness.
RecommendationIsLawful ==
  advice.kind = "deliberation" =>
    /\ advice.refused <=> advice.recommendation = "refuse_or_narrow"
    /\ ~advice.refused /\ asked.estimate \in {"act_reversible", "act_irreversible"}
         /\ asked.authority \in {"observe", "interpret", "prepare"}
         => advice.recommendation = "authority_mismatch"
    /\ asked.risk = "elevated" => RequiresWitness(advice.recommendation)

\* A task that is to stay offline goes to another machine only if that provider
\* was named, and no task does without a key for it.
OfflineStaysHere ==
  advice.kind = "proposal" /\ advice.provider \in RemoteProviders =>
    advice.provider \in asked.keys /\ (asked.offline => asked.forced = advice.provider)

\* Both, of whatever was advised.
AdviceIsLawful == RecommendationIsLawful /\ OfflineStaysHere
===============================================================================

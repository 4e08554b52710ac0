------------------------------ MODULE MCServices ------------------------------
(* The services around the core that share no state: each behaviour is one of one *)
(* of them, the others stay as they began.  Which ones is the constant Parts.      *)
EXTENDS Material, AuditChain, Vault, Decoder, Boot, Advice, Trajectories, Health, TLC

CONSTANTS Parts, first, second, third

VARIABLE part

-----------------------------------------------------------------------------
(* Material: the first request records a proposal, has the prophet evaluate or    *)
(* patches; the others ask for material actions, with what they need, without it,  *)
(* through the role server, or with a proposal that declares something else.       *)

Ask(k) == [kind |-> k, direct |-> FALSE, witness |-> TRUE, confirmed |-> TRUE, valid |-> TRUE, risks |-> {},
           hunk |-> "up", path |-> Undeclared, capability |-> Undeclared, proposal |-> "none", expects |-> 0]
With(k) == [Ask(k) EXCEPT !.proposal = first]

MCRequests == {first, second, third}
MCBodies ==
  first :> {Ask("propose"), [Ask("propose") EXCEPT !.risks = {"credential_risk"}],
        [Ask("propose") EXCEPT !.path = "patch", !.capability = "patch:apply"],
        [Ask("propose") EXCEPT !.capability = "deploy:execute"],
        Ask("evaluate"), [Ask("patch") EXCEPT !.direct = TRUE]}
  @@ second :> {With("patch"), [With("patch") EXCEPT !.confirmed = FALSE], [With("patch") EXCEPT !.valid = FALSE],
           With("railway"), [With("checkout") EXCEPT !.witness = FALSE], With("checkout"), With("quarantine"),
           [With("next_step") EXCEPT !.path = "patch"]}
  @@ third :> {[With("build") EXCEPT !.hunk = "down"], [With("build") EXCEPT !.risks = {"irreversible_action", "credential_risk"}],
           [With("railway") EXCEPT !.expects = 1], With("forge"), [With("forge") EXCEPT !.witness = FALSE],
           Ask("checkout"), Ask("propose")}
MCFull == ChildrenOf("full")
MCFileOf == [up |-> "f", down |-> "f"]
MCNeeds == [up |-> {}, down |-> {}]

-----------------------------------------------------------------------------
(* Decoder: three anchors, two of which begin alike.                             *)

MCAnchors == {<<"@", "t">>, <<"@", "b", "u">>, <<"@", "b", "e">>}
MCRelations ==
  [x \in MCAnchors |-> IF x = <<"@", "t">> THEN {<<"c", "a">>, <<"d">>}
                       ELSE IF x = <<"@", "b", "u">> THEN {<<"s", "p">>, <<"c", "h">>, <<"s", "n">>}
                       ELSE {<<"r">>}]
MCRequired == {<<<<"@", "t">>, <<"c", "a">>>>, <<<<"@", "t">>, <<"d">>>>, <<<<"@", "b", "u">>, <<"s", "p">>>>}
MCCharacters ==
  {<<x>> : x \in {"@", "t", "b", "u", "e", " ", "→", "-", ">", "c", "a", "d", "s", "p", "h", "n", "r", "[", "]"}}
MCVocabulary == MCCharacters \cup {<<" ", "-">>, <<" ", "-", ">", " ">>, <<"b", "u">>}

-----------------------------------------------------------------------------
(* Boot: three services; on two of them and a name nobody registered.            *)

MCRegistered == <<"guardian", "oracle", "scribe">>
MCRegistries ==
  [ToSet(MCRegistered) -> {<<>>, <<"guardian">>, <<"oracle">>, <<"scribe">>, <<"oracle", "guardian">>,
                           <<"guardian", "scribe">>, <<"unknown", "scribe">>, <<"scribe", "oracle">>}]
MCUsual ==
  [n \in ToSet(MCRegistered) |-> CASE n = "guardian" -> <<>> [] n = "scribe" -> <<"guardian">> [] OTHER -> <<"guardian", "scribe">>]

-----------------------------------------------------------------------------
(* Advice: the levels of runtime/permissions.json.                               *)

MCLevels ==
  [observe |-> [tools |-> {"read_files"}, confirm |-> FALSE],
   interpret |-> [tools |-> {"propose"}, confirm |-> FALSE],
   prepare |-> [tools |-> {"generate_patch"}, confirm |-> FALSE],
   act_reversible |-> [tools |-> {"write_workspace", "run_tests"}, confirm |-> FALSE],
   act_irreversible |-> [tools |-> {}, confirm |-> TRUE]]

-----------------------------------------------------------------------------
(* Trajectories: ledgers with two rows too few for the usual gate, or with none   *)
(* at all; and requests that ask for nothing.                                     *)

Asked(risks, wants, path, aware, loop) == [risks |-> risks, wants |-> wants, path |-> path, aware |-> aware, loop |-> loop]
MCGoals ==
  {Asked({}, 3, FALSE, FALSE, TRUE), Asked({}, 0, FALSE, TRUE, TRUE),
   Asked({"authority_escalation"}, 99, FALSE, FALSE, TRUE), Asked({}, 1, TRUE, FALSE, FALSE)}
MCOldRows == {[steps |-> 0, loops |-> 0], [steps |-> 8, loops |-> 0]}
MCThresholds == {Usual, [score |-> 0, samples |-> 0]}

-----------------------------------------------------------------------------
(* Health: a whole database, with rows that fail their invariant up to the tenth  *)
(* that is tolerated and beyond; one with two tables and no WAL; and two made by   *)
(* another program.  Rates of repair at and around both limits.                    *)

Stored(wal, tables, lacks, valid, invalid) ==
  [wal |-> wal, tables |-> tables, lacks |-> lacks, sound |-> TRUE, failures |-> {},
   rows |-> [i \in 1..valid |-> TRUE] \o [i \in 1..invalid |-> FALSE]]

MCDatabases ==
  {Stored(TRUE, Tables, "nothing", 19, 1), Stored(TRUE, Tables, "nothing", 30, 2),
   Stored(FALSE, {"trajectories", "tasks"}, "nothing", 0, 0), Stored(TRUE, Tables, "prompt", 1, 0),
   Stored(TRUE, {"trajectories"}, "reward", 1, 0)}
MCCounts == {[total |-> 9, repaired |-> 9], [total |-> 10, repaired |-> 5], [total |-> 11, repaired |-> 6]}

-----------------------------------------------------------------------------
Init ==
  /\ part \in Parts
  /\ MaterialInit /\ AuditInit /\ VaultInit /\ DecoderInit /\ BootInit /\ AdviceInit /\ TrajectoryInit /\ HealthInit
  /\ part # "decoder" => ~promptKept
  /\ part # "boot" => dependsOn = MCUsual /\ commands = CommandBound
  /\ part # "trajectories" => Len(rows["steps"]) = 8
  /\ part # "health" => StoreHolds(1) /\ Len(database[1].rows) = 20 /\ \A m \in Monitors : handle[m] = 1

Next ==
  \/ /\ part = "material" /\ MaterialNext
     /\ UNCHANGED <<part, auditVars, vaultVars, decoderVars, bootVars, adviceVars, trajectoryVars, healthVars>>
  \/ /\ part = "audit" /\ AuditNext
     /\ UNCHANGED <<part, materialVars, vaultVars, decoderVars, bootVars, adviceVars, trajectoryVars, healthVars>>
  \/ /\ part = "vault" /\ VaultNext
     /\ UNCHANGED <<part, materialVars, auditVars, decoderVars, bootVars, adviceVars, trajectoryVars, healthVars>>
  \/ /\ part = "decoder" /\ DecoderNext
     /\ UNCHANGED <<part, materialVars, auditVars, vaultVars, bootVars, adviceVars, trajectoryVars, healthVars>>
  \/ /\ part = "boot" /\ BootNext
     /\ UNCHANGED <<part, materialVars, auditVars, vaultVars, decoderVars, adviceVars, trajectoryVars, healthVars>>
  \/ /\ part = "advice" /\ AdviceNext
     /\ UNCHANGED <<part, materialVars, auditVars, vaultVars, decoderVars, bootVars, trajectoryVars, healthVars>>
  \/ /\ part = "trajectories" /\ TrajectoryNext
     /\ UNCHANGED <<part, materialVars, auditVars, vaultVars, decoderVars, bootVars, adviceVars, healthVars>>
  \/ /\ part = "health" /\ HealthNext
     /\ UNCHANGED <<part, materialVars, auditVars, vaultVars, decoderVars, bootVars, adviceVars, trajectoryVars>>

Spec == Init /\ [][Next]_<<part, materialVars, auditVars, vaultVars, decoderVars, bootVars, adviceVars, trajectoryVars, healthVars>>

MCSymmetry == Permutations(Clients) \cup Permutations(Learners)
===============================================================================

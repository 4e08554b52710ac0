---------------------------- MODULE GovernedTask ----------------------------
(***************************************************************************)
(* What the runtime promises about a task, without its gates, records and  *)
(* logs: the model proposes in turns, and every effect it is granted is    *)
(* paid for within the limits of the task at the moment it happens.        *)
(*                                                                         *)
(* A task that has used up a limit gets no further turn, and its last turn *)
(* is granted nothing: it can neither act nor succeed on it.               *)
(***************************************************************************)
EXTENDS Integers

CONSTANTS MaxUnits, MaxToolCalls, MaxSteps, PenaltyUnits

VARIABLES
  phase,   \* "idle", "turn", "succeeded" or "stopped"
  turns,   \* turns begun
  spent,   \* units paid, penalties included
  calls    \* tool calls granted

governedVars == <<phase, turns, spent, calls>>

GovernedInit == phase = "idle" /\ turns = 0 /\ spent = 0 /\ calls = 0

WithinLimits == spent < MaxUnits /\ calls < MaxToolCalls /\ turns < MaxSteps

Turn ==
  /\ phase = "idle" /\ WithinLimits
  /\ phase' = "turn" /\ turns' = turns + 1
  /\ UNCHANGED <<spent, calls>>

\* An effect happens: it costs c units, and a tool call if isToolCall.
Grant(c, isToolCall) ==
  /\ phase = "turn" /\ WithinLimits
  /\ spent + c <= MaxUnits
  /\ phase' = "idle"
  /\ spent' = spent + c
  /\ calls' = IF isToolCall THEN calls + 1 ELSE calls
  /\ UNCHANGED turns

Refuse ==
  /\ phase = "turn" /\ phase' = "idle"
  /\ UNCHANGED <<turns, spent, calls>>

\* A premature halt: the penalty may exceed what was left.
Reprimand ==
  /\ phase = "turn" /\ WithinLimits
  /\ phase' = "idle"
  /\ spent' = spent + PenaltyUnits
  /\ UNCHANGED <<turns, calls>>

Succeed ==
  /\ phase = "turn" /\ WithinLimits
  /\ phase' = "succeeded"
  /\ UNCHANGED <<turns, spent, calls>>

Stop ==
  /\ phase \in {"idle", "turn"} /\ phase' = "stopped"
  /\ UNCHANGED <<turns, spent, calls>>

GovernedNext ==
  \/ Turn \/ Refuse \/ Reprimand \/ Succeed \/ Stop
  \/ \E c \in 0..MaxUnits, isToolCall \in BOOLEAN : Grant(c, isToolCall)

GovernedSpec == GovernedInit /\ [][GovernedNext]_governedVars
=============================================================================

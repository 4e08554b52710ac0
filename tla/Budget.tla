------------------------------- MODULE Budget -------------------------------
(***************************************************************************)
(* cortex/budget.py: the counters of one task, and what each method does   *)
(* to them.  BudgetSpec lets a caller invoke the methods in any order and  *)
(* with any of the costs the registry knows; module Runtime uses the same  *)
(* actions in the order the loop makes the calls.                          *)
(*                                                                         *)
(* The wall clock is a flag: expired becomes TRUE once elapsed_seconds     *)
(* reaches max_wall_seconds, and time does not run backwards.              *)
(* loggedUnits is the sum of the "units" of the entries of _log.           *)
(***************************************************************************)
EXTENDS Integers

CONSTANTS
  MaxUnits, MaxToolCalls, MaxSteps,  \* the limits given to Budget()
  Costs,                             \* the unit costs callers debit
  PenaltyUnits,                      \* the penalty for an incorrect halt
  UsedUnitsBound                     \* bound: no penalty once this much is used

ASSUME BudgetAssumption ==
  /\ MaxUnits \in Nat
  /\ MaxToolCalls \in Nat
  /\ MaxSteps \in Nat
  /\ Costs \subseteq Nat
  /\ PenaltyUnits \in Nat
  /\ UsedUnitsBound \in Nat

VARIABLES
  remainingUnits, usedUnits,
  remainingToolCalls, usedToolCalls,
  remainingSteps, usedSteps,
  loggedUnits, expired

unitVars == <<remainingUnits, usedUnits, loggedUnits>>
toolCallVars == <<remainingToolCalls, usedToolCalls>>
stepVars == <<remainingSteps, usedSteps>>
budgetVars == <<remainingUnits, usedUnits, loggedUnits, remainingToolCalls,
                usedToolCalls, remainingSteps, usedSteps, expired>>

BudgetTypeOK ==
  /\ remainingUnits \in 0..MaxUnits
  /\ remainingToolCalls \in 0..MaxToolCalls
  /\ remainingSteps \in 0..MaxSteps
  /\ usedUnits \in Nat /\ loggedUnits \in Nat
  /\ usedToolCalls \in Nat /\ usedSteps \in Nat
  /\ expired \in BOOLEAN

BudgetInit ==
  /\ remainingUnits = MaxUnits /\ usedUnits = 0 /\ loggedUnits = 0
  /\ remainingToolCalls = MaxToolCalls /\ usedToolCalls = 0
  /\ remainingSteps = MaxSteps /\ usedSteps = 0
  /\ expired = FALSE

---------------------------------------------------------------------------
(* Queries. *)

IsExhaustedNoToolCalls ==
  \/ remainingUnits <= 0
  \/ remainingSteps <= 0
  \/ expired

IsExhausted ==
  \/ remainingUnits <= 0
  \/ remainingToolCalls <= 0
  \/ remainingSteps <= 0
  \/ expired

CanAffordAnything(units) == ~IsExhausted

CanAfford(units) == remainingUnits >= units /\ ~IsExhausted

---------------------------------------------------------------------------
(* Mutations. *)

\* debit raises BudgetExhaustedError.
DebitRaises(units, isToolCall) ==
  remainingUnits < units \/ (isToolCall /\ remainingToolCalls <= 0)

DebitLoggingCallsOnly(units, isToolCall) ==
  IF remainingUnits < units THEN UNCHANGED budgetVars
  ELSE /\ remainingUnits' = remainingUnits - units
       /\ usedUnits' = usedUnits + units
       /\ IF isToolCall /\ remainingToolCalls > 0
          THEN /\ remainingToolCalls' = remainingToolCalls - 1
               /\ usedToolCalls' = usedToolCalls + 1
               /\ loggedUnits' = loggedUnits + units
          ELSE UNCHANGED <<toolCallVars, loggedUnits>>
       /\ UNCHANGED <<stepVars, expired>>

\* debit(units, is_tool_call).  The units are taken before the tool-call
\* counter is looked at, so a call refused for want of tool calls has been
\* charged, and has no entry in the log.
Debit(units, isToolCall) ==
  IF remainingUnits < units THEN UNCHANGED budgetVars
  ELSE /\ remainingUnits' = remainingUnits - units
       /\ usedUnits' = usedUnits + units
       /\ IF isToolCall /\ remainingToolCalls > 0
          THEN /\ remainingToolCalls' = remainingToolCalls - 1
               /\ usedToolCalls' = usedToolCalls + 1
          ELSE UNCHANGED toolCallVars
       /\ loggedUnits' = IF DebitRaises(units, isToolCall)
                         THEN loggedUnits ELSE loggedUnits + units
       /\ UNCHANGED <<stepVars, expired>>

DebitStep ==
  /\ IF remainingSteps <= 0
     THEN UNCHANGED stepVars
     ELSE /\ remainingSteps' = remainingSteps - 1
          /\ usedSteps' = usedSteps + 1
  /\ UNCHANGED <<unitVars, toolCallVars, expired>>

Clamped(n) == IF n < 0 THEN 0 ELSE n

\* apply_penalty(penalty): what is left is clamped at 0, what was used is not.
ApplyPenalty(penalty) ==
  /\ remainingUnits' = Clamped(remainingUnits - penalty)
  /\ usedUnits' = usedUnits + penalty
  /\ loggedUnits' = loggedUnits + penalty
  /\ UNCHANGED <<toolCallVars, stepVars, expired>>

\* time.monotonic() passes _start_time + max_wall_seconds.
WallClock ==
  /\ ~expired
  /\ expired' = TRUE
  /\ UNCHANGED <<unitVars, toolCallVars, stepVars>>

---------------------------------------------------------------------------
(* A caller that may invoke any method at any time. *)

Penalise ==
  /\ usedUnits < UsedUnitsBound
  /\ ApplyPenalty(PenaltyUnits)

BudgetNext ==
  \/ \E c \in Costs, isToolCall \in BOOLEAN : Debit(c, isToolCall)
  \/ DebitStep
  \/ Penalise
  \/ WallClock

BudgetSpec == BudgetInit /\ [][BudgetNext]_budgetVars

---------------------------------------------------------------------------
(* Properties. *)

\* Units are neither created nor lost: what was used and what remains add up
\* to the limit, except that a penalty larger than what was left overshoots
\* it, and then nothing remains (debit, apply_penalty).
UnitsConserved ==
  \/ usedUnits + remainingUnits = MaxUnits
  \/ remainingUnits = 0 /\ usedUnits > MaxUnits

\* The log explains every unit used, until a debit has been refused for want
\* of tool calls after its units were taken (debit takes, then raises).
LogExplainsUse == usedUnits # loggedUnits => remainingToolCalls = 0

\* Once a limit is hit the budget stays exhausted: no sequence of calls, a
\* penalty included, gives a stopped task its budget back (is_exhausted).
ExhaustedForGood == [][IsExhausted => IsExhausted']_budgetVars
=============================================================================

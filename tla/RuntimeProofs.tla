--------------------------- MODULE RuntimeProofs ---------------------------
(***************************************************************************)
(* What holds of the budget of every task, whatever its limits and the     *)
(* costs debited: each counter and what was taken from it add up to its    *)
(* limit; only the units may be overshot, and then none remain, so every   *)
(* way of being exhausted is final.                                        *)
(*                                                                         *)
(* And what the loop makes of it, for every model and every set of tools'  *)
(* outcomes: no debit is refused after its effect, the books balance, and  *)
(* the loop implements GovernedTask.  The invariant behind all three       *)
(* follows a record through the gates: once cleared it is affordable,      *)
(* nothing between the gates and the debit takes more than it was cleared  *)
(* for, and an explicit @budget spend costs nothing beyond what it takes.  *)
(*                                                                         *)
(* What a task leaves behind it: a reference that a successful answer      *)
(* cites was earned (no task adds a key to the map of provenance the       *)
(* runtime made, whatever the model writes into the state dict); the       *)
(* trajectory, the rows of the database and the audit lines agree; and,    *)
(* where the registry and the rollback manager work in one directory of    *)
(* texts, every change to a file can be undone.                            *)
(*                                                                         *)
(* And its memory: what is read of a store is what is kept of its entries  *)
(* by two filters, one key has one entry, the last written is the last     *)
(* read; so a record that is applied again finds what it left.             *)
(***************************************************************************)
EXTENDS Runtime, WellFoundedInduction, TLAPS

(* The budget. *)

\* The numeric part of BudgetTypeOK.
CountersOK ==
  /\ remainingUnits \in 0..MaxUnits
  /\ remainingToolCalls \in 0..MaxToolCalls
  /\ remainingSteps \in 0..MaxSteps
  /\ usedUnits \in Nat /\ loggedUnits \in Nat
  /\ usedToolCalls \in Nat /\ usedSteps \in Nat

\* Type correctness is the range of each counter, and the clock a flag.
LEMMA BudgetTypeParts == BudgetTypeOK <=> CountersOK /\ expired \in BOOLEAN
  BY Zenon DEF BudgetTypeOK, CountersOK

---------------------------------------------------------------------------
(* The operations one by one: what each needs and leaves. *)

\* debit either takes nothing or takes exactly its cost, and the log has an
\* entry for it unless it raised (Budget.debit).
LEMMA DebitEffect ==
  ASSUME CountersOK, NEW c \in Nat, NEW isToolCall \in BOOLEAN, Debit(c, isToolCall)
  PROVE  \/ UNCHANGED budgetVars
         \/ /\ c <= remainingUnits
            /\ remainingUnits' = remainingUnits - c
            /\ usedUnits' = usedUnits + c
            /\ \/ loggedUnits' = loggedUnits + c
               \/ loggedUnits' = loggedUnits /\ remainingToolCalls = 0
            /\ \/ UNCHANGED toolCallVars
               \/ /\ remainingToolCalls > 0
                  /\ remainingToolCalls' = remainingToolCalls - 1
                  /\ usedToolCalls' = usedToolCalls + 1
            /\ UNCHANGED <<stepVars, expired>>
<1>1. CASE remainingUnits < c
  BY <1>1 DEF Debit
<1>2. CASE ~(remainingUnits < c)
  <2>1. /\ c <= remainingUnits
        /\ remainingUnits' = remainingUnits - c
        /\ usedUnits' = usedUnits + c
        /\ UNCHANGED <<stepVars, expired>>
    BY <1>2 DEF Debit, CountersOK
  <2>2. \/ UNCHANGED toolCallVars
        \/ /\ remainingToolCalls > 0
           /\ remainingToolCalls' = remainingToolCalls - 1
           /\ usedToolCalls' = usedToolCalls + 1
    BY <1>2 DEF Debit, toolCallVars
  <2>3. \/ loggedUnits' = loggedUnits + c
        \/ loggedUnits' = loggedUnits /\ remainingToolCalls = 0
    BY <1>2 DEF Debit, DebitRaises, CountersOK
  <2> QED
    BY <2>1, <2>2, <2>3
<1> QED
  BY <1>1, <1>2

\* A penalty empties the units or takes exactly its amount (Budget.apply_penalty).
LEMMA PenaltyEffect ==
  ASSUME CountersOK, NEW p \in Nat, ApplyPenalty(p)
  PROVE  /\ \/ remainingUnits' = remainingUnits - p /\ p <= remainingUnits
            \/ remainingUnits' = 0 /\ p > remainingUnits
         /\ usedUnits' = usedUnits + p
         /\ loggedUnits' = loggedUnits + p
         /\ UNCHANGED <<toolCallVars, stepVars, expired>>
  BY DEF ApplyPenalty, Clamped, CountersOK

---------------------------------------------------------------------------
(* Type correctness. *)

\* One step of the budget, whichever method is called, from typed counters.
LEMMA CountersStep ==
  ASSUME BudgetTypeOK, [BudgetNext]_budgetVars
  PROVE  CountersOK'
<1> USE DEF CountersOK
<1>0. CountersOK
  BY BudgetTypeParts
<1>1. ASSUME NEW c \in Costs, NEW isToolCall \in BOOLEAN, Debit(c, isToolCall)
      PROVE  CountersOK'
  <2>1. c \in Nat
    BY BudgetAssumption
  <2>2. CASE UNCHANGED budgetVars
    BY <1>0, <2>2 DEF budgetVars
  <2>3. CASE ~ UNCHANGED budgetVars
    BY <1>0, <1>1, <2>1, <2>3, DebitEffect, BudgetAssumption DEF toolCallVars, stepVars
  <2> QED
    BY <2>2, <2>3
<1>2. CASE DebitStep
  BY <1>0, <1>2, BudgetAssumption DEF DebitStep, unitVars, toolCallVars, stepVars
<1>3. CASE Penalise
  BY <1>0, <1>3, PenaltyEffect, BudgetAssumption DEF Penalise, toolCallVars, stepVars
<1>4. CASE WallClock
  BY <1>0, <1>4 DEF WallClock, unitVars, toolCallVars, stepVars
<1>5. CASE UNCHANGED budgetVars
  BY <1>0, <1>5 DEF budgetVars
<1> QED
  BY <1>1, <1>2, <1>3, <1>4, <1>5 DEF BudgetNext

\* No call of a method takes a counter out of its range.
LEMMA BudgetTypeStep ==
  ASSUME BudgetTypeOK, [BudgetNext]_budgetVars
  PROVE  BudgetTypeOK'
<1>1. expired' \in BOOLEAN
  <2>1. expired' \in {expired, TRUE}
    BY DEF BudgetNext, Debit, DebitStep, Penalise, ApplyPenalty, WallClock, budgetVars
  <2> QED
    BY <2>1, BudgetTypeParts, Zenon
<1> QED
  BY <1>1, CountersStep, BudgetTypeParts DEF BudgetTypeOK, CountersOK

\* A new Budget is typed.
LEMMA BudgetTypeInit == BudgetInit => BudgetTypeOK
<1>1. BudgetInit => CountersOK
  BY BudgetAssumption DEF BudgetInit, CountersOK
<1>2. BudgetInit => expired \in BOOLEAN
  BY Zenon DEF BudgetInit
<1> QED
  BY <1>1, <1>2, BudgetTypeParts

\* The counters keep within their limits, whatever is called (budget.py).
THEOREM BudgetTypeCorrect == BudgetSpec => []BudgetTypeOK
  BY BudgetTypeInit, BudgetTypeStep, PTL DEF BudgetSpec

---------------------------------------------------------------------------
(* Conservation. *)

\* One step keeps the books: UnitsConserved is inductive over typed counters.
LEMMA UnitsConservedStep ==
  ASSUME BudgetTypeOK, UnitsConserved, [BudgetNext]_budgetVars
  PROVE  UnitsConserved'
<1> USE DEF UnitsConserved
<1>0. CountersOK
  BY BudgetTypeParts
<1>1. ASSUME NEW c \in Costs, NEW isToolCall \in BOOLEAN, Debit(c, isToolCall)
      PROVE  UnitsConserved'
  <2>1. c \in Nat
    BY BudgetAssumption
  <2>2. CASE UNCHANGED budgetVars
    BY <2>2 DEF budgetVars
  <2>3. CASE ~ UNCHANGED budgetVars
    BY <1>0, <1>1, <2>1, <2>3, DebitEffect, BudgetAssumption DEF CountersOK
  <2> QED
    BY <2>2, <2>3
<1>2. CASE DebitStep
  BY <1>2 DEF DebitStep, unitVars
<1>3. CASE Penalise
  BY <1>0, <1>3, PenaltyEffect, BudgetAssumption DEF Penalise, CountersOK
<1>4. CASE WallClock
  BY <1>4 DEF WallClock, unitVars
<1>5. CASE UNCHANGED budgetVars
  BY <1>5 DEF budgetVars
<1> QED
  BY <1>1, <1>2, <1>3, <1>4, <1>5 DEF BudgetNext

\* Units are neither created nor lost (budget.debit, budget.apply_penalty).
THEOREM UnitsAreConserved == BudgetSpec => []UnitsConserved
<1>1. BudgetInit => UnitsConserved
  BY BudgetAssumption DEF BudgetInit, UnitsConserved
<1>2. BudgetTypeOK /\ UnitsConserved /\ [BudgetNext]_budgetVars => UnitsConserved'
  BY UnitsConservedStep
<1> QED
  BY <1>1, <1>2, BudgetTypeCorrect, PTL DEF BudgetSpec

\* A gap between the units used and the log, once there, needs no upkeep: the
\* tool calls it took to open it are gone for good.
LEMMA LogExplainsUseStep ==
  ASSUME BudgetTypeOK, LogExplainsUse, [BudgetNext]_budgetVars
  PROVE  LogExplainsUse'
<1> USE DEF LogExplainsUse
<1>0. CountersOK
  BY BudgetTypeParts
<1>1. ASSUME NEW c \in Costs, NEW isToolCall \in BOOLEAN, Debit(c, isToolCall)
      PROVE  LogExplainsUse'
  <2>1. c \in Nat
    BY BudgetAssumption
  <2>2. CASE UNCHANGED budgetVars
    BY <2>2 DEF budgetVars
  <2>3. CASE ~ UNCHANGED budgetVars
    BY <1>0, <1>1, <2>1, <2>3, DebitEffect DEF CountersOK, toolCallVars
  <2> QED
    BY <2>2, <2>3
<1>2. CASE DebitStep
  BY <1>2 DEF DebitStep, unitVars, toolCallVars
<1>3. CASE Penalise
  BY <1>0, <1>3, PenaltyEffect, BudgetAssumption DEF Penalise, CountersOK, toolCallVars
<1>4. CASE WallClock
  BY <1>4 DEF WallClock, unitVars, toolCallVars
<1>5. CASE UNCHANGED budgetVars
  BY <1>5 DEF budgetVars
<1> QED
  BY <1>1, <1>2, <1>3, <1>4, <1>5 DEF BudgetNext

\* As long as a tool call is left, the log sums up to the units used.
THEOREM LogIsComplete == BudgetSpec => []LogExplainsUse
<1>1. BudgetInit => LogExplainsUse
  BY DEF BudgetInit, LogExplainsUse
<1>2. BudgetTypeOK /\ LogExplainsUse /\ [BudgetNext]_budgetVars => LogExplainsUse'
  BY LogExplainsUseStep
<1> QED
  BY <1>1, <1>2, BudgetTypeCorrect, PTL DEF BudgetSpec

---------------------------------------------------------------------------
(* Exhaustion. *)

\* No method gives back what is_exhausted looks at.
LEMMA ExhaustedStep ==
  ASSUME BudgetTypeOK, IsExhausted, [BudgetNext]_budgetVars
  PROVE  IsExhausted'
<1> USE DEF IsExhausted
<1>0. CountersOK
  BY BudgetTypeParts
<1>1. ASSUME NEW c \in Costs, NEW isToolCall \in BOOLEAN, Debit(c, isToolCall)
      PROVE  IsExhausted'
  <2>1. c \in Nat
    BY BudgetAssumption
  <2>2. CASE UNCHANGED budgetVars
    BY <2>2 DEF budgetVars
  <2>3. CASE ~ UNCHANGED budgetVars
    BY <1>0, <1>1, <2>1, <2>3, DebitEffect DEF CountersOK, toolCallVars, stepVars
  <2> QED
    BY <2>2, <2>3
<1>2. CASE DebitStep
  BY <1>0, <1>2 DEF DebitStep, CountersOK, unitVars, toolCallVars, stepVars
<1>3. CASE Penalise
  BY <1>0, <1>3, PenaltyEffect, BudgetAssumption
     DEF Penalise, CountersOK, toolCallVars, stepVars
<1>4. CASE WallClock
  BY <1>4 DEF WallClock
<1>5. CASE UNCHANGED budgetVars
  BY <1>5 DEF budgetVars
<1> QED
  BY <1>1, <1>2, <1>3, <1>4, <1>5 DEF BudgetNext

\* A task whose budget is exhausted has none from then on (is_exhausted).
THEOREM ExhaustionIsFinal == BudgetSpec => ExhaustedForGood
<1>1. BudgetTypeOK /\ [BudgetNext]_budgetVars => [IsExhausted => IsExhausted']_budgetVars
  BY ExhaustedStep
<1> QED
  BY <1>1, BudgetTypeCorrect, PTL DEF BudgetSpec, ExhaustedForGood

---------------------------------------------------------------------------
(* The books of the loop. *)

\* The counters and what was taken from them add up.
Balanced ==
  /\ usedUnits = loggedUnits
  /\ UnitsConserved
  /\ usedUnits > MaxUnits => usedUnits < MaxUnits + HaltPenalty
  /\ usedToolCalls + remainingToolCalls = MaxToolCalls
  /\ usedSteps + remainingSteps = MaxSteps

\* What the gates have established of the record in hand.
Cleared ==
  pc \in {"halt", "execute"} => /\ remainingUnits > 0
                                /\ remainingToolCalls > 0
                                /\ remainingSteps > 0
                                /\ pc = "execute" => Cost(action) <= remainingUnits

\* What is still true of it once it was executed.
Payable == pc = "debit" => /\ Cost(action) <= remainingUnits
                           /\ remainingToolCalls > 0

\* A spend names a natural number of units.
SpendsNaturals == action.anchor = "budget" => Units \in Nat

BooksInv ==
  /\ CountersOK
  /\ Balanced
  /\ Cleared
  /\ Payable
  /\ SpendsNaturals

---------------------------------------------------------------------------
(* Costs and proposals. *)

\* Every record costs a natural number of units.
LEMMA CostIsNat == ASSUME NEW a PROVE Cost(a) \in Nat
<1>1. ActionCost(a) \in Nat
  BY DEF ActionCost
<1>2. \A t \in ToolSpecs : t.cost \in Nat
  BY DEF ToolSpecs, Tool
<1>3. ASSUME NEW n PROVE ToolCost(n) \in Nat
  <2>1. CASE ToolSpec(n) = {}
    BY <2>1 DEF ToolCost
  <2>2. CASE ToolSpec(n) # {}
    <3>1. PICK t \in ToolSpecs : t.name = n
      BY <2>2 DEF ToolSpec
    <3>2. (CHOOSE u \in ToolSpecs : u.name = n) \in ToolSpecs
      BY <3>1
    <3> QED
      BY <1>2, <2>2, <3>2 DEF ToolCost
  <2> QED
    BY <2>1, <2>2
<1> QED
  BY <1>1, <1>3 DEF Cost

\* An explicit spend is charged nothing on top.
LEMMA SpendCostsNothing ==
  ASSUME NEW a, a.anchor = "budget", a.relation = "spend"
  PROVE  Cost(a) = 0 /\ ~IsToolCall(a)
<1>1. ~IsToolCall(a)
  BY DEF IsToolCall, Is
<1>2. ActionCost(a) = 0
  BY DEF ActionCost
<1> QED
  BY <1>1, <1>2 DEF Cost

\* What the emitter hands on is a @budget record only if the reply was one.
LEMMA EmittedBudgetRecords ==
  ASSUME NEW r \in Replies, NEW a \in Emitted(r), a.anchor = "budget"
  PROVE  Get(a.fields, "units", 0) \in Nat
<1>1. ASSUME NEW t, NEW h \in BOOLEAN, NEW b \in Salvaged(t, h)
      PROVE  b.anchor # "budget"
  <2>1. b \in {IntentHalt(t), IntentHalt(""), Unparseable, FallbackHalt}
    BY <1>1, Zenon DEF Salvaged
  <2>2. /\ \A x : IntentHalt(x).anchor = "halt"
        /\ Unparseable.anchor = "unparseable"
        /\ FallbackHalt.anchor = "halt"
    BY DEF IntentHalt, Unparseable, FallbackHalt, Scl
  <2> QED
    BY <2>1, <2>2
<1>2. ASSUME NEW x, x.anchor = "halt", NEW b \in RepairedHalts(x)
      PROVE  b.anchor = "halt"
  BY <1>2 DEF RepairedHalts, WithConfidence, Without, Scl
<1>3. FallbackHalt.anchor # "budget"
  BY DEF FallbackHalt, Scl
<1>4. r.form \in {"scl", "mended", "text", "crash"}
  BY RuntimeAssumption
<1>5. CASE r.form = "crash"
  BY <1>3, <1>5 DEF Emitted
<1>6. CASE r.form = "text"
  BY <1>1, <1>3, <1>6 DEF Emitted, Salvaged, IntentHalt, Unparseable, Scl
<1>7. CASE r.form \in {"scl", "mended"}
  <2>1. a = r.act
    BY <1>1, <1>2, <1>7 DEF Emitted
  <2> QED
    BY <1>7, <2>1, RuntimeAssumption DEF SchemaValid
<1> QED
  BY <1>4, <1>5, <1>6, <1>7

---------------------------------------------------------------------------
(* The invariant. *)

\* A task starts with its books balanced and no record in hand.
LEMMA BooksInit == RuntimeInit => BooksInv
<1> SUFFICES ASSUME RuntimeInit PROVE BooksInv
  OBVIOUS
<1>1. CountersOK /\ Balanced
  BY BudgetAssumption DEF RuntimeInit, BudgetInit, CountersOK, Balanced, UnitsConserved
<1>2. Cleared /\ Payable
  BY DEF RuntimeInit, Cleared, Payable
<1>3. action.anchor # "budget"
  BY DEF RuntimeInit, Nothing, Scl
<1> QED
  BY <1>1, <1>2, <1>3 DEF BooksInv, SpendsNaturals

\* A step that leaves the budget alone and hands no record on keeps the books.
LEMMA QuietStep ==
  ASSUME BooksInv, UNCHANGED <<budgetVars, action>>,
         pc' \notin {"halt", "execute", "debit"}
  PROVE  BooksInv'
<1>1. CountersOK' /\ Balanced'
  BY DEF BooksInv, CountersOK, Balanced, UnitsConserved, budgetVars
<1>2. Cleared' /\ Payable'
  BY DEF Cleared, Payable
<1>3. SpendsNaturals'
  BY DEF BooksInv, SpendsNaturals, Units
<1> QED
  BY <1>1, <1>2, <1>3 DEF BooksInv

\* Executing a record without touching the budget leaves it payable.
LEMMA ExecutedStep ==
  ASSUME BooksInv, pc = "execute", pc' = "debit", UNCHANGED <<budgetVars, action>>
  PROVE  BooksInv'
<1>1. CountersOK' /\ Balanced'
  BY DEF BooksInv, CountersOK, Balanced, UnitsConserved, budgetVars
<1>2. Cleared' /\ Payable'
  <2>1. Cost(action') = Cost(action) /\ remainingUnits' = remainingUnits
        /\ remainingToolCalls' = remainingToolCalls
    BY DEF budgetVars
  <2> QED
    BY <2>1 DEF BooksInv, Cleared, Payable
<1>3. SpendsNaturals'
  BY DEF BooksInv, SpendsNaturals, Units
<1> QED
  BY <1>1, <1>2, <1>3 DEF BooksInv

\* What a debit that was not refused does to the books.
LEMMA PaidDebit ==
  ASSUME CountersOK, Balanced, NEW c \in Nat, NEW isToolCall \in BOOLEAN,
         c <= remainingUnits, isToolCall => remainingToolCalls > 0,
         Debit(c, isToolCall)
  PROVE  /\ CountersOK' /\ Balanced'
         /\ usedUnits' = usedUnits + c
         /\ usedToolCalls' = IF isToolCall THEN usedToolCalls + 1 ELSE usedToolCalls
         /\ ~isToolCall => remainingToolCalls' = remainingToolCalls
         /\ UNCHANGED <<stepVars, expired>>
<1>1. ~DebitRaises(c, isToolCall)
  BY DEF DebitRaises, CountersOK
<1>2. /\ remainingUnits' = remainingUnits - c
      /\ usedUnits' = usedUnits + c
      /\ loggedUnits' = loggedUnits + c
      /\ UNCHANGED <<stepVars, expired>>
  BY <1>1 DEF Debit, CountersOK
<1>3. CASE isToolCall
  <2>1. ~(remainingUnits < c)
    BY DEF CountersOK
  <2>2. remainingToolCalls' = remainingToolCalls - 1 /\ usedToolCalls' = usedToolCalls + 1
    BY <1>3, <2>1, Zenon DEF Debit
  <2> QED
    BY <1>2, <1>3, <2>2, BudgetAssumption
       DEF CountersOK, Balanced, UnitsConserved, stepVars
<1>4. CASE ~isToolCall
  <2>1. UNCHANGED toolCallVars
    BY <1>4 DEF Debit, CountersOK
  <2> QED
    BY <1>2, <1>4, <2>1, BudgetAssumption
       DEF CountersOK, Balanced, UnitsConserved, stepVars, toolCallVars
<1> QED
  BY <1>3, <1>4

\* Both gates ask can_afford of what the debit will charge.
LEMMA ClearedByGates ==
  ASSUME BooksInv, VerifierAllows(action)
  PROVE  /\ remainingUnits > 0 /\ remainingToolCalls > 0 /\ remainingSteps > 0
         /\ Cost(action) <= remainingUnits
<1>1. CanAfford(Cost(action))
  BY DEF VerifierAllows, VerifierAllowsTool, Cost, NameOf
<1>2. Cost(action) \in Nat
  BY CostIsNat
<1> QED
  BY <1>1, <1>2 DEF CanAfford, IsExhausted, BooksInv, CountersOK

\* The steps that grant nothing and take nothing.
LEMMA QuietActions ==
  ASSUME BooksInv,
         \/ MaxStepsReached \/ BudgetExhausted \/ DenyParse \/ DenyPolicy
         \/ PassPolicy \/ DenyVerify \/ DenyCalibration \/ AcceptHalt
         \/ ExecuteRaises \/ SettleRaises \/ SettleFails \/ Settle
  PROVE  BooksInv'
<1> USE DEF effectVars
<1>1. UNCHANGED <<budgetVars, action>>
  <2>1. CASE MaxStepsReached \/ BudgetExhausted \/ PassPolicy \/ AcceptHalt
    BY <2>1 DEF MaxStepsReached, BudgetExhausted, PassPolicy, AcceptHalt
  <2>2. CASE DenyParse \/ DenyPolicy \/ DenyVerify \/ DenyCalibration
    BY <2>2 DEF DenyParse, DenyPolicy, DenyVerify, DenyCalibration, Deny
  <2>3. CASE ExecuteRaises \/ SettleRaises
    BY <2>3 DEF ExecuteRaises, SettleRaises, Raise
  <2>4. CASE SettleFails \/ Settle
    BY <2>4 DEF SettleFails, Settle
  <2> QED
    BY <2>1, <2>2, <2>3, <2>4
<1>2. pc' \in {"top", "verify", "done"}
  <2>1. CASE MaxStepsReached \/ BudgetExhausted \/ PassPolicy \/ AcceptHalt
    BY <2>1 DEF MaxStepsReached, BudgetExhausted, PassPolicy, AcceptHalt, Return
  <2>2. CASE DenyParse \/ DenyPolicy \/ DenyVerify \/ DenyCalibration
    BY <2>2 DEF DenyParse, DenyPolicy, DenyVerify, DenyCalibration, Deny
  <2>3. CASE ExecuteRaises \/ SettleRaises
    BY <2>3 DEF ExecuteRaises, SettleRaises, Raise, Return
  <2>4. CASE SettleFails \/ Settle
    BY <2>4 DEF SettleFails, Settle
  <2> QED
    BY <2>1, <2>2, <2>3, <2>4
<1> QED
  BY <1>1, <1>2, QuietStep

\* The handlers that do not touch the budget.
LEMMA ExecuteActions ==
  ASSUME BooksInv,
         \/ ExecutePatchTool \/ ExecuteTool \/ ExecuteMemoryRecord \/ ExecuteRepair
         \/ ExecuteVerify \/ ExecuteState
  PROVE  /\ BooksInv'
         /\ pc = "execute" /\ pc' = "debit"
         /\ UNCHANGED <<budgetVars, action>>
<1> USE DEF effectVars, Executed
<1>1. pc = "execute" /\ pc' = "debit" /\ UNCHANGED <<budgetVars, action>>
  <2>1. CASE ExecutePatchTool
    BY <2>1 DEF ExecutePatchTool
  <2>2. CASE ExecuteTool
    BY <2>2 DEF ExecuteTool, CommandsRun
  <2>3. CASE ExecuteMemoryRecord
    BY <2>3 DEF ExecuteMemoryRecord
  <2>4. CASE ExecuteRepair
    BY <2>4 DEF ExecuteRepair
  <2>5. CASE ExecuteVerify
    BY <2>5 DEF ExecuteVerify, CommandsRun
  <2>6. CASE ExecuteState
    BY <2>6 DEF ExecuteState
  <2> QED
    BY <2>1, <2>2, <2>3, <2>4, <2>5, <2>6
<1> QED
  BY <1>1, ExecutedStep

\* Starting a step moves one step from remaining to used (budget.debit_step).
LEMMA BeginStepKeepsBooks == ASSUME BooksInv, BeginStep PROVE BooksInv'
<1>1. /\ remainingSteps > 0
      /\ remainingSteps' = remainingSteps - 1 /\ usedSteps' = usedSteps + 1
      /\ UNCHANGED <<unitVars, toolCallVars, expired, action>>
      /\ pc' = "model"
  BY DEF BeginStep, DebitStep, IsExhausted, BooksInv, CountersOK
<1>2. CountersOK' /\ Balanced'
  BY <1>1, BudgetAssumption
     DEF BooksInv, CountersOK, Balanced, UnitsConserved, unitVars, toolCallVars
<1>3. Cleared' /\ Payable' /\ SpendsNaturals'
  BY <1>1 DEF BooksInv, Cleared, Payable, SpendsNaturals, Units
<1> QED
  BY <1>2, <1>3 DEF BooksInv

\* A new proposal has been cleared for nothing yet.
LEMMA ProposeKeepsBooks == ASSUME BooksInv, Propose PROVE BooksInv'
<1>1. UNCHANGED budgetVars /\ pc' = "policy"
  BY DEF Propose, effectVars
<1>2. CountersOK' /\ Balanced' /\ Cleared' /\ Payable'
  BY <1>1 DEF BooksInv, CountersOK, Balanced, UnitsConserved, Cleared, Payable, budgetVars
<1>3. PICK r \in Replies : action' \in Emitted(r)
  BY DEF Propose
<1>4. SpendsNaturals'
  BY <1>3, EmittedBudgetRecords DEF SpendsNaturals, Units
<1> QED
  BY <1>2, <1>4 DEF BooksInv

\* A record that passes the verifier is affordable, within every limit.
LEMMA PassVerifyKeepsBooks == ASSUME BooksInv, PassVerify PROVE BooksInv'
<1>1. /\ UNCHANGED <<budgetVars, action>>
      /\ pc' \in {"halt", "execute"}
  BY DEF PassVerify, effectVars
<1>2. /\ remainingUnits > 0 /\ remainingToolCalls > 0 /\ remainingSteps > 0
      /\ Cost(action) <= remainingUnits
  BY ClearedByGates DEF PassVerify
<1>3. CountersOK' /\ Balanced' /\ SpendsNaturals'
  BY <1>1 DEF BooksInv, CountersOK, Balanced, UnitsConserved, SpendsNaturals, Units, budgetVars
<1>4. Cleared' /\ Payable'
  <2>1. Cost(action') = Cost(action)
    BY <1>1
  <2> QED
    BY <1>1, <1>2, <2>1 DEF Cleared, Payable, budgetVars
<1> QED
  BY <1>3, <1>4 DEF BooksInv

\* A penalty overshoots the limit only from below it: the halt was cleared.
LEMMA RejectHaltKeepsBooks == ASSUME BooksInv, RejectHalt PROVE BooksInv'
<1>1. /\ pc = "halt" /\ pc' = "top" /\ action' = action
      /\ ApplyPenalty(HaltPenalty)
  BY DEF RejectHalt, Deny
<1>2. remainingUnits > 0
  BY <1>1 DEF BooksInv, Cleared
<1>3. /\ \/ remainingUnits' = remainingUnits - 10 /\ 10 <= remainingUnits
         \/ remainingUnits' = 0 /\ 10 > remainingUnits
      /\ usedUnits' = usedUnits + 10
      /\ loggedUnits' = loggedUnits + 10
      /\ UNCHANGED <<toolCallVars, stepVars, expired>>
  BY <1>1, PenaltyEffect DEF HaltPenalty, BooksInv
<1>4. CountersOK'
  BY <1>3, BudgetAssumption DEF BooksInv, CountersOK, toolCallVars, stepVars
<1>5. Balanced'
  BY <1>2, <1>3, BudgetAssumption
     DEF BooksInv, CountersOK, Balanced, UnitsConserved, HaltPenalty, toolCallVars, stepVars
<1>6. Cleared' /\ Payable' /\ SpendsNaturals'
  BY <1>1 DEF BooksInv, Cleared, Payable, SpendsNaturals, Units
<1> QED
  BY <1>4, <1>5, <1>6 DEF BooksInv

\* @budget: check and snapshot only report; a spend takes its units or nothing.
LEMMA ExecuteBudgetEffect ==
  ASSUME BooksInv, ExecuteBudget
  PROVE  /\ BooksInv'
         /\ pc = "execute" /\ pc' = "debit" /\ action' = action
         /\ ~IsToolCall(action)
         /\ UNCHANGED <<usedToolCalls, usedSteps>>
         /\ \E u \in Nat : u + Cost(action) <= remainingUnits /\ usedUnits' = usedUnits + u
<1>1. pc = "execute" /\ pc' = "debit" /\ action' = action /\ action.anchor = "budget"
  BY DEF ExecuteBudget, Executed
<1>2. ~IsToolCall(action)
  BY <1>1 DEF IsToolCall, Is
<1>3. Cost(action) \in Nat /\ Cost(action) <= remainingUnits /\ remainingUnits \in Nat
  BY <1>1, CostIsNat, BudgetAssumption DEF BooksInv, Cleared, CountersOK
<1>4. CASE UNCHANGED budgetVars
  <2>1. BooksInv'
    BY <1>1, <1>4, ExecutedStep
  <2>2. usedUnits' = usedUnits + 0 /\ 0 + Cost(action) <= remainingUnits
    BY <1>3, <1>4 DEF BooksInv, CountersOK, budgetVars
  <2> QED
    BY <1>1, <1>2, <1>4, <2>1, <2>2 DEF budgetVars
<1>5. CASE ~ UNCHANGED budgetVars
  <2>1. action.relation = "spend" /\ Debit(Units, FALSE)
    BY <1>5 DEF ExecuteBudget
  <2>2. Units \in Nat
    BY <1>1 DEF BooksInv, SpendsNaturals
  <2>3. ~(remainingUnits < Units)
    BY <1>5, <2>1 DEF Debit
  <2>4. Units <= remainingUnits
    BY <1>3, <2>2, <2>3
  <2>5. Cost(action) = 0
    BY <1>1, <2>1, SpendCostsNothing
  <2>6. /\ CountersOK' /\ Balanced'
        /\ usedUnits' = usedUnits + Units
        /\ UNCHANGED <<usedToolCalls, remainingToolCalls, usedSteps>>
    BY <2>1, <2>2, <2>4, PaidDebit DEF BooksInv, stepVars
  <2>7. Cleared' /\ Payable'
    BY <1>1, <2>5, <2>6, BudgetAssumption DEF BooksInv, Cleared, Payable, CountersOK
  <2>8. SpendsNaturals'
    BY <1>1 DEF BooksInv, SpendsNaturals, Units
  <2>9. Units + Cost(action) <= remainingUnits
    BY <1>3, <2>2, <2>4, <2>5
  <2> QED
    BY <1>1, <1>2, <2>2, <2>6, <2>7, <2>8, <2>9 DEF BooksInv
<1> QED
  BY <1>4, <1>5

\* The debit of an executed record is not refused.
LEMMA DebitActionEffect ==
  ASSUME BooksInv, DebitAction
  PROVE  /\ BooksInv'
         /\ pc = "debit" /\ pc' = "settle" /\ action' = action
         /\ usedUnits' = usedUnits + Cost(action)
         /\ usedToolCalls' = IF IsToolCall(action) THEN usedToolCalls + 1 ELSE usedToolCalls
         /\ usedSteps' = usedSteps
<1>1. /\ pc = "debit" /\ action' = action
      /\ Debit(Cost(action), IsToolCall(action))
  BY DEF DebitAction
<1>2. Cost(action) \in Nat /\ IsToolCall(action) \in BOOLEAN
  BY CostIsNat DEF IsToolCall, Is
<1>3. Cost(action) <= remainingUnits /\ remainingToolCalls > 0
  BY <1>1 DEF BooksInv, Payable
<1>4. ~DebitRaises(Cost(action), IsToolCall(action))
  BY <1>2, <1>3 DEF DebitRaises, BooksInv, CountersOK
<1>5. pc' = "settle"
  BY <1>4 DEF DebitAction
<1>6. /\ CountersOK' /\ Balanced'
      /\ usedUnits' = usedUnits + Cost(action)
      /\ usedToolCalls' = IF IsToolCall(action) THEN usedToolCalls + 1 ELSE usedToolCalls
      /\ UNCHANGED stepVars
  BY <1>1, <1>2, <1>3, PaidDebit DEF BooksInv
<1>7. Cleared' /\ Payable' /\ SpendsNaturals'
  BY <1>1, <1>5 DEF BooksInv, Cleared, Payable, SpendsNaturals, Units
<1> QED
  BY <1>1, <1>5, <1>6, <1>7 DEF BooksInv, stepVars

\* The clock changes what may be begun, not what was cleared.
LEMMA ClockKeepsBooks ==
  ASSUME BooksInv, TimePasses \/ UNCHANGED vars
  PROVE  BooksInv'
<1>1. UNCHANGED <<unitVars, toolCallVars, stepVars, pc, action>>
  BY DEF TimePasses, WallClock, vars, effectVars, loopVars, budgetVars,
         unitVars, toolCallVars, stepVars
<1>2. CountersOK' /\ Balanced'
  BY <1>1 DEF BooksInv, CountersOK, Balanced, UnitsConserved, unitVars, toolCallVars, stepVars
<1>3. Cleared' /\ Payable' /\ SpendsNaturals'
  <2>1. Cost(action') = Cost(action)
    BY <1>1
  <2> QED
    BY <1>1, <2>1
       DEF BooksInv, Cleared, Payable, SpendsNaturals, Units, unitVars, toolCallVars, stepVars
<1> QED
  BY <1>2, <1>3 DEF BooksInv

\* BooksInv is inductive: one case per action of the loop.
LEMMA BooksStep == BooksInv /\ [RuntimeNext]_vars => BooksInv'
<1> SUFFICES ASSUME BooksInv, [RuntimeNext]_vars PROVE BooksInv'
  OBVIOUS
<1>1. CASE TimePasses \/ UNCHANGED vars
  BY <1>1, ClockKeepsBooks
<1>2. CASE LoopStep
  BY <1>2, QuietActions, ExecuteActions, BeginStepKeepsBooks, ProposeKeepsBooks,
     PassVerifyKeepsBooks, RejectHaltKeepsBooks, ExecuteBudgetEffect, DebitActionEffect
     DEF LoopStep
<1> QED
  BY <1>1, <1>2 DEF RuntimeNext

\* The books of every task are kept (budget.py as runtime.run drives it).
THEOREM BooksAreKept == RuntimeSpec => []BooksInv
  BY BooksInit, BooksStep, PTL DEF RuntimeSpec

\* The budget_exhausted return after the execution of a record is never taken.
THEOREM NoDebitIsRefused == RuntimeSpec => []DebitNeverRefused
<1>1. BooksInv => DebitNeverRefused
  <2> SUFFICES ASSUME BooksInv, pc = "debit"
               PROVE  ~DebitRaises(Cost(action), IsToolCall(action))
    BY DEF DebitNeverRefused
  <2>1. Cost(action) <= remainingUnits /\ remainingToolCalls > 0
    BY DEF BooksInv, Payable
  <2> QED
    BY <2>1, CostIsNat DEF DebitRaises, BooksInv, CountersOK
<1> QED
  BY <1>1, BooksAreKept, PTL

\* Every unit used is in the log and only a penalty overshoots the limit.
THEOREM AccountsAlwaysBalance == RuntimeSpec => []AccountsBalance
<1>1. BooksInv => AccountsBalance
  BY DEF BooksInv, Balanced, AccountsBalance
<1> QED
  BY <1>1, BooksAreKept, PTL

---------------------------------------------------------------------------
(* The loop implements GovernedTask. *)

\* A new task is an idle governed task.
LEMMA GovernedInitially == RuntimeInit => Governed!GovernedInit
  BY DEF RuntimeInit, BudgetInit, Governed!GovernedInit, GovernedPhase,
         GovernedSpent, GovernedCalls

\* While no debit is pending, the abstract accounts are the counters.
LEMMA AccountsAtRest ==
  ASSUME BooksInv, pc # "debit"
  PROVE  GovernedSpent = usedUnits /\ GovernedCalls = usedToolCalls
  BY DEF BooksInv, CountersOK, GovernedSpent, GovernedCalls

\* Counters that are not used up are what the abstract task calls limits kept.
LEMMA WithinLimits ==
  ASSUME BooksInv, pc # "debit",
         remainingUnits > 0, remainingToolCalls > 0, remainingSteps > 0
  PROVE  Governed!WithinLimits
<1>1. usedUnits < MaxUnits /\ usedToolCalls < MaxToolCalls /\ usedSteps < MaxSteps
  BY BudgetAssumption DEF BooksInv, CountersOK, Balanced, UnitsConserved
<1> QED
  BY <1>1, AccountsAtRest DEF Governed!WithinLimits

\* A step that ends the turn, or the task, with nothing granted.
LEMMA RefusalImplements ==
  ASSUME BooksInv, BooksInv', UNCHANGED budgetVars, pc # "debit", pc' # "debit"
  PROVE  UNCHANGED <<usedSteps, GovernedSpent, GovernedCalls>>
  BY AccountsAtRest DEF BooksInv, CountersOK, GovernedSpent, GovernedCalls, budgetVars

\* A handler's step is a Grant of what the record costs, plus what it spent.
LEMMA ExecutionImplements ==
  ASSUME BooksInv, pc = "execute", pc' = "debit", action' = action,
         UNCHANGED <<usedToolCalls, usedSteps>>,
         NEW u \in Nat, u + Cost(action) <= remainingUnits, usedUnits' = usedUnits + u
  PROVE  Governed!GovernedNext
<1> DEFINE c == u + Cost(action)
<1>1. Cost(action) \in Nat /\ IsToolCall(action) \in BOOLEAN /\ Cost(action') = Cost(action)
  BY CostIsNat DEF IsToolCall, Is
<1>2. Governed!WithinLimits
  BY WithinLimits DEF BooksInv, Cleared
<1>3. GovernedPhase = "turn" /\ GovernedPhase' = "idle"
  BY DEF GovernedPhase
<1>4. usedUnits + remainingUnits = MaxUnits
  BY DEF BooksInv, Cleared, Balanced, UnitsConserved
<1>5. c \in 0..MaxUnits /\ GovernedSpent + c <= MaxUnits /\ GovernedSpent' = GovernedSpent + c
  BY <1>1, <1>4, BudgetAssumption DEF GovernedSpent, BooksInv, CountersOK
<1>6. GovernedCalls = usedToolCalls /\ usedToolCalls \in Nat
  BY AccountsAtRest DEF BooksInv, CountersOK
<1>7. GovernedCalls' = IF IsToolCall(action) THEN GovernedCalls + 1 ELSE GovernedCalls
  <2>1. CASE IsToolCall(action)
    BY <1>6, <2>1 DEF GovernedCalls
  <2>2. CASE ~IsToolCall(action)
    BY <1>6, <2>2 DEF GovernedCalls
  <2> QED
    BY <2>1, <2>2
<1>8. Governed!Grant(c, IsToolCall(action))
  BY <1>2, <1>3, <1>5, <1>7 DEF Governed!Grant
<1> QED
  BY <1>1, <1>5, <1>8 DEF Governed!GovernedNext

\* Every step of the loop is a step of a governed task, or none.
LEMMA GovernedStep ==
  ASSUME BooksInv, BooksInv', [RuntimeNext]_vars
  PROVE  [Governed!GovernedNext]_(Governed!governedVars)
<1> USE DEF Governed!GovernedNext, Governed!governedVars
<1>1. CASE MaxStepsReached \/ BudgetExhausted \/ ExecuteRaises \/ SettleRaises
  <2>1. /\ UNCHANGED budgetVars
        /\ pc \in {"top", "execute", "settle"} /\ pc' = "done" /\ result' # "success"
    BY <1>1 DEF MaxStepsReached, BudgetExhausted, ExecuteRaises, SettleRaises, Raise,
                Return, effectVars
  <2>2. GovernedPhase \in {"idle", "turn"} /\ GovernedPhase' = "stopped"
    BY <2>1 DEF GovernedPhase
  <2>3. Governed!Stop
    BY <2>1, <2>2, RefusalImplements DEF Governed!Stop
  <2> QED
    BY <2>3
<1>2. CASE DenyParse \/ DenyPolicy \/ DenyVerify \/ DenyCalibration
  <2>1. /\ UNCHANGED budgetVars
        /\ pc \in {"policy", "verify", "halt"} /\ pc' = "top"
    BY <1>2 DEF DenyParse, DenyPolicy, DenyVerify, DenyCalibration, Deny
  <2>2. GovernedPhase = "turn" /\ GovernedPhase' = "idle"
    BY <2>1 DEF GovernedPhase
  <2>3. Governed!Refuse
    BY <2>1, <2>2, RefusalImplements DEF Governed!Refuse
  <2> QED
    BY <2>3
<1>3. CASE Propose \/ PassPolicy \/ PassVerify \/ SettleFails \/ Settle
  <2>1. /\ UNCHANGED budgetVars
        /\ \/ pc \in {"model", "policy", "verify"} /\ pc' \in {"policy", "verify", "halt", "execute"}
           \/ pc = "settle" /\ pc' = "top"
    BY <1>3 DEF Propose, PassPolicy, PassVerify, SettleFails, Settle, effectVars
  <2>2. GovernedPhase' = GovernedPhase
    BY <2>1 DEF GovernedPhase
  <2> QED
    BY <2>1, <2>2, RefusalImplements
<1>4. CASE AcceptHalt
  <2>1. /\ UNCHANGED budgetVars
        /\ pc = "halt" /\ pc' = "done" /\ result' = "success"
    BY <1>4 DEF AcceptHalt, Return, effectVars
  <2>2. GovernedPhase = "turn" /\ GovernedPhase' = "succeeded"
    BY <2>1 DEF GovernedPhase
  <2>3. Governed!WithinLimits
    BY <2>1, WithinLimits DEF BooksInv, Cleared
  <2>4. Governed!Succeed
    BY <2>1, <2>2, <2>3, RefusalImplements DEF Governed!Succeed
  <2> QED
    BY <2>4
<1>5. CASE BeginStep
  <2>1. /\ remainingUnits > 0 /\ remainingToolCalls > 0 /\ remainingSteps > 0
        /\ usedSteps' = usedSteps + 1
        /\ UNCHANGED <<usedUnits, usedToolCalls>>
        /\ pc = "top" /\ pc' = "model"
    BY <1>5 DEF BeginStep, DebitStep, IsExhausted, BooksInv, CountersOK, unitVars, toolCallVars
  <2>2. GovernedPhase = "idle" /\ GovernedPhase' = "turn"
    BY <2>1 DEF GovernedPhase
  <2>3. UNCHANGED <<GovernedSpent, GovernedCalls>>
    BY <2>1, AccountsAtRest DEF BooksInv, CountersOK, GovernedSpent, GovernedCalls
  <2>4. Governed!Turn
    BY <2>1, <2>2, <2>3, WithinLimits DEF Governed!Turn
  <2> QED
    BY <2>4
<1>6. CASE RejectHalt
  <2>1. /\ pc = "halt" /\ pc' = "top" /\ ApplyPenalty(HaltPenalty)
    BY <1>6 DEF RejectHalt, Deny
  <2>2. /\ usedUnits' = usedUnits + PenaltyUnits
        /\ UNCHANGED <<usedToolCalls, usedSteps>>
    BY <2>1, PenaltyEffect, RuntimeAssumption DEF HaltPenalty, BooksInv, toolCallVars, stepVars
  <2>3. GovernedPhase = "turn" /\ GovernedPhase' = "idle"
    BY <2>1 DEF GovernedPhase
  <2>4. GovernedSpent' = GovernedSpent + PenaltyUnits /\ GovernedCalls' = GovernedCalls
    BY <2>1, <2>2, BudgetAssumption DEF BooksInv, CountersOK, GovernedSpent, GovernedCalls
  <2>5. Governed!WithinLimits
    BY <2>1, WithinLimits DEF BooksInv, Cleared
  <2>6. Governed!Reprimand
    BY <2>2, <2>3, <2>4, <2>5 DEF Governed!Reprimand
  <2> QED
    BY <2>6
<1>7. CASE \/ ExecutePatchTool \/ ExecuteTool \/ ExecuteMemoryRecord \/ ExecuteRepair
           \/ ExecuteVerify \/ ExecuteState
  <2>1. pc = "execute" /\ pc' = "debit" /\ UNCHANGED <<budgetVars, action>>
    BY <1>7, ExecuteActions
  <2>2. usedUnits' = usedUnits + 0 /\ UNCHANGED <<usedToolCalls, usedSteps>>
    BY <2>1 DEF BooksInv, CountersOK, budgetVars
  <2>3. 0 + Cost(action) <= remainingUnits
    BY <2>1, CostIsNat DEF BooksInv, Cleared
  <2> QED
    BY <2>1, <2>2, <2>3, ExecutionImplements
<1>8. CASE ExecuteBudget
  BY <1>8, ExecuteBudgetEffect, ExecutionImplements
<1>9. CASE DebitAction
  <2>1. /\ pc = "debit" /\ pc' = "settle"
        /\ usedUnits' = usedUnits + Cost(action)
        /\ usedToolCalls' = IF IsToolCall(action) THEN usedToolCalls + 1 ELSE usedToolCalls
        /\ usedSteps' = usedSteps
    BY <1>9, DebitActionEffect
  <2>2. GovernedPhase' = GovernedPhase
    BY <2>1 DEF GovernedPhase
  <2>3. GovernedSpent' = GovernedSpent
    BY <2>1, CostIsNat DEF GovernedSpent, BooksInv, CountersOK
  <2>4. GovernedCalls' = GovernedCalls
    <3>1. CASE IsToolCall(action)
      BY <2>1, <3>1 DEF GovernedCalls, BooksInv, CountersOK
    <3>2. CASE ~IsToolCall(action)
      BY <2>1, <3>2 DEF GovernedCalls, BooksInv, CountersOK
    <3> QED
      BY <3>1, <3>2
  <2> QED
    BY <2>1, <2>2, <2>3, <2>4
<1>10. CASE TimePasses \/ UNCHANGED vars
  <2>1. UNCHANGED <<usedUnits, usedToolCalls, usedSteps, pc, action, result>>
    BY <1>10 DEF TimePasses, WallClock, vars, effectVars, loopVars, outcomeVars,
                 budgetVars, unitVars, toolCallVars, stepVars
  <2>2. Cost(action') = Cost(action) /\ (IsToolCall(action') <=> IsToolCall(action))
    BY <2>1
  <2> QED
    BY <2>1, <2>2 DEF GovernedPhase, GovernedSpent, GovernedCalls
<1> QED
  BY <1>1, <1>2, <1>3, <1>4, <1>5, <1>6, <1>7, <1>8, <1>9, <1>10 DEF RuntimeNext, LoopStep

\* Every behaviour of the loop is one of a governed task.
THEOREM LoopImplementsGovernedTask == RuntimeSpec => ImplementsGovernedTask
<1>1. BooksInv /\ BooksInv' /\ [RuntimeNext]_vars
        => [Governed!GovernedNext]_(Governed!governedVars)
  BY GovernedStep
<1> QED
  BY <1>1, GovernedInitially, BooksAreKept, PTL
     DEF RuntimeSpec, ImplementsGovernedTask, Governed!GovernedSpec

---------------------------------------------------------------------------
(* Records: what a successful answer cites was earned. *)


IsOnRecord(t, ref) ==
  \E i \in 1..Len(t) : t[i].outcome = "accepted" /\ t[i].ref = ref

EarnedInv ==
  /\ \E S : trajectory \in Seq(S)
  /\ \A ref \in provenance : IsOnRecord(trajectory, ref)
  /\ result = "success" => pc = "done"
  /\ CitedEvidenceWasEarned

---------------------------------------------------------------------------

\* What appending a step record does to a trajectory.
LEMMA AppendRecord ==
  ASSUME NEW s, \E S : s \in Seq(S), NEW e
  PROVE  /\ \E S : Append(s, e) \in Seq(S)
         /\ Len(Append(s, e)) = Len(s) + 1 /\ Len(s) \in Nat
         /\ \A i \in 1..Len(s) : Append(s, e)[i] = s[i]
         /\ Append(s, e)[Len(s) + 1] = e
<1>1. PICK S : s \in Seq(S)
  OBVIOUS
<1>2. s \in Seq(S \cup {e}) /\ e \in S \cup {e}
  BY <1>1
<1>3. Append(s, e) \in Seq(S \cup {e})
  BY <1>2
<1> QED
  BY <1>2, <1>3

\* What is on record stays on record.
LEMMA LoggedKeepsRecord ==
  ASSUME EarnedInv, NEW o, NEW v, NEW r, Logged(o, v, r)
  PROVE  /\ (\E S : trajectory \in Seq(S))'
         /\ \A ref : IsOnRecord(trajectory, ref) => IsOnRecord(trajectory', ref)
         /\ o = "accepted" => IsOnRecord(trajectory', r)
<1> DEFINE rec == [outcome |-> o, violation |-> v, context |-> context, ref |-> r]
<1>1. trajectory' = Append(trajectory, rec)
  BY DEF Logged
<1>2. rec.outcome = o /\ rec.ref = r
  OBVIOUS
<1> HIDE DEF rec
<1>3. /\ \E S : trajectory' \in Seq(S)
      /\ Len(trajectory') = Len(trajectory) + 1 /\ Len(trajectory) \in Nat
      /\ \A i \in 1..Len(trajectory) : trajectory'[i] = trajectory[i]
      /\ trajectory'[Len(trajectory) + 1] = rec
  <2>1. \E S : trajectory \in Seq(S)
    BY DEF EarnedInv
  <2>2. /\ \E S : Append(trajectory, rec) \in Seq(S)
        /\ Len(Append(trajectory, rec)) = Len(trajectory) + 1 /\ Len(trajectory) \in Nat
        /\ \A i \in 1..Len(trajectory) : Append(trajectory, rec)[i] = trajectory[i]
        /\ Append(trajectory, rec)[Len(trajectory) + 1] = rec
    BY <2>1, AppendRecord, Zenon
  <2> QED
    BY <1>1, <2>2, Zenon
<1>4. \A ref : IsOnRecord(trajectory, ref) => IsOnRecord(trajectory', ref)
  BY <1>3 DEF IsOnRecord
<1>5. o = "accepted" => IsOnRecord(trajectory', r)
  BY <1>2, <1>3 DEF IsOnRecord
<1> QED
  BY <1>3, <1>4, <1>5

\* Steps that leave the map alone and end no task in success.
LEMMA NothingEarned ==
  ASSUME EarnedInv, UNCHANGED provenance, result' # "success",
         UNCHANGED trajectory \/ \E o, v, r : Logged(o, v, r)
  PROVE  EarnedInv'
<1>1. (\E S : trajectory \in Seq(S))' /\ \A ref : IsOnRecord(trajectory, ref) => IsOnRecord(trajectory', ref)
  BY LoggedKeepsRecord DEF EarnedInv, IsOnRecord
<1>2. CitedEvidenceWasEarned'
  BY DEF CitedEvidenceWasEarned
<1> QED
  BY <1>1, <1>2 DEF EarnedInv

\* A tool or a verification that ends with evidence is accepted: the
\* postcondition holds of the state it leaves.
LEMMA EvidenceIsAccepted ==
  ASSUME EarnsEvidence
  PROVE  PostconditionsHold(NextDict)
<1> SUFFICES ASSUME IsToolCall(action)
             PROVE  "evidence_provenance" \in DOMAIN NextDict
  BY DEF PostconditionsHold
<1>1. action.anchor = "tool"
  BY DEF IsToolCall, Is
<1>2. NextDict = Updated(state, Updated(Evidence, [last_tool |-> NameOf(action)]))
  BY <1>1 DEF NextDict, Is
<1>3. "evidence_provenance" \in DOMAIN Evidence
  BY DEF Evidence
<1>4. "evidence_provenance" \in DOMAIN Updated(Evidence, [last_tool |-> NameOf(action)])
  BY <1>3 DEF Updated
<1> QED
  BY <1>2, <1>4 DEF Updated

---------------------------------------------------------------------------
(* The invariant. *)

\* Accepting a step puts the reference it earned on record.
LEMMA SettleEarns == ASSUME EarnedInv, Settle PROVE EarnedInv'
<1>1. /\ pc = "settle" /\ result' = result
      /\ Logged("accepted", FALSE, IF EarnsEvidence THEN Ref ELSE "")
      /\ provenance' = IF EarnsEvidence THEN provenance \cup {Ref} ELSE provenance
  BY DEF Settle, Transition, outcomeVars
<1>2. result' # "success"
  BY <1>1 DEF EarnedInv
<1>3. /\ (\E S : trajectory \in Seq(S))'
      /\ \A ref : IsOnRecord(trajectory, ref) => IsOnRecord(trajectory', ref)
      /\ IsOnRecord(trajectory', IF EarnsEvidence THEN Ref ELSE "")
  BY <1>1, LoggedKeepsRecord
<1>4. CASE EarnsEvidence
  <2>1. IsOnRecord(trajectory', Ref)
    BY <1>3, <1>4
  <2> QED
    BY <1>1, <1>2, <1>3, <1>4, <2>1 DEF EarnedInv, CitedEvidenceWasEarned
<1>5. CASE ~EarnsEvidence
  BY <1>1, <1>2, <1>3, <1>5 DEF EarnedInv, CitedEvidenceWasEarned
<1> QED
  BY <1>4, <1>5

\* An answer is accepted only with a key of the runtime's own map.
LEMMA AcceptCitesTheMap == ASSUME EarnedInv, AcceptHalt PROVE EarnedInv'
<1>1. /\ UNCHANGED <<provenance, action>> /\ pc' = "done"
      /\ Logged(HaltOutcome[action.fields.status], FALSE, "")
  BY DEF AcceptHalt, Return, dictVars
<1>2. /\ (\E S : trajectory \in Seq(S))'
      /\ \A ref : IsOnRecord(trajectory, ref) => IsOnRecord(trajectory', ref)
  BY <1>1, LoggedKeepsRecord
<1>3. ASSUME Is(action, "halt", "answer"), Get(action.fields, "evidence_ref", "") # ""
      PROVE  action.fields.evidence_ref \in provenance
  <2>1. PICK linked \in BOOLEAN : HaltPasses(linked)
    BY DEF AcceptHalt
  <2>2. action.relation = "answer"
    BY <1>3 DEF Is
  <2>3. action.fields.evidence_ref \in IF HasMap(state) THEN provenance ELSE {}
    BY <1>3, <2>1, <2>2 DEF HaltPasses, FinalCheck
  <2> QED
    BY <2>3
<1>4. CitedEvidenceWasEarned'
  <2>1. DOMAIN trajectory' = 1..Len(trajectory')
    <3>1. PICK S : trajectory' \in Seq(S)
      BY <1>2
    <3> QED
      BY <3>1
  <2>2. Is(action, "halt", "answer") /\ Get(action.fields, "evidence_ref", "") # ""
          => IsOnRecord(trajectory', action.fields.evidence_ref)
    BY <1>2, <1>3 DEF EarnedInv
  <2> QED
    BY <1>1, <2>1, <2>2 DEF CitedEvidenceWasEarned, IsOnRecord
<1> QED
  BY <1>1, <1>2, <1>4 DEF EarnedInv

\* A task starts with an empty map and no evidence.
LEMMA EarnedInit == RuntimeInit => EarnedInv
<1> SUFFICES ASSUME RuntimeInit PROVE EarnedInv
  OBVIOUS
<1>1. trajectory \in Seq({})
  BY DEF RuntimeInit
<1> QED
  BY <1>1 DEF RuntimeInit, EarnedInv, CitedEvidenceWasEarned

\* EarnedInv is inductive: only Settle fills the map, only AcceptHalt cites it.
LEMMA EarnedStep == EarnedInv /\ [RuntimeNext]_vars => EarnedInv'
<1> SUFFICES ASSUME EarnedInv, [RuntimeNext]_vars PROVE EarnedInv'
  OBVIOUS
<1> USE DEF dictVars, recordVars, outcomeVars, Return
<1>1. CASE MaxStepsReached \/ BudgetExhausted \/ ExecuteRaises \/ SettleRaises
  BY <1>1, NothingEarned DEF MaxStepsReached, BudgetExhausted, ExecuteRaises, SettleRaises, Raise
<1>2. CASE DenyParse \/ DenyPolicy \/ DenyVerify \/ DenyCalibration \/ RejectHalt
  <2>1. /\ UNCHANGED <<provenance, result>> /\ pc # "done"
        /\ \E o, v, r : Logged(o, v, r)
    BY <1>2 DEF DenyParse, DenyPolicy, DenyVerify, DenyCalibration, RejectHalt, Deny
  <2> QED
    BY <2>1, NothingEarned DEF EarnedInv
<1>3. CASE BeginStep \/ Propose \/ PassPolicy \/ PassVerify
  <2>1. UNCHANGED <<provenance, result, trajectory>> /\ pc # "done"
    BY <1>3 DEF BeginStep, Propose, PassPolicy, PassVerify
  <2> QED
    BY <2>1, NothingEarned DEF EarnedInv
<1>4. CASE \/ ExecutePatchTool \/ ExecuteTool \/ ExecuteMemoryRecord \/ ExecuteRepair
           \/ ExecuteBudget \/ ExecuteVerify \/ ExecuteState
  <2>1. pc = "execute" /\ \E o : Executed(o)
    BY <1>4 DEF ExecutePatchTool, ExecuteTool, ExecuteMemoryRecord, ExecuteRepair,
                ExecuteBudget, ExecuteVerify, ExecuteState
  <2> QED
    BY <2>1, NothingEarned DEF Executed, EarnedInv
<1>5. CASE DebitAction
  <2>1. UNCHANGED <<provenance, trajectory>> /\ pc = "debit"
        /\ result' \in {result, "budget_exhausted"}
    BY <1>5 DEF DebitAction
  <2> QED
    BY <2>1, NothingEarned DEF EarnedInv
<1>6. CASE SettleFails
  <2>1. UNCHANGED <<provenance, result>> /\ pc = "settle"
        /\ Logged("denied_verify", FALSE, "")
    BY <1>6, EvidenceIsAccepted DEF SettleFails, Transition
  <2> QED
    BY <2>1, NothingEarned DEF EarnedInv
<1>7. CASE TimePasses \/ UNCHANGED vars
  <2>1. UNCHANGED <<provenance, trajectory, result, pc, action>>
    BY <1>7 DEF TimePasses, vars, loopVars
  <2> QED
    BY <2>1 DEF EarnedInv, CitedEvidenceWasEarned, IsOnRecord
<1> QED
  BY <1>1, <1>2, <1>3, <1>4, <1>5, <1>6, <1>7, SettleEarns, AcceptCitesTheMap
     DEF RuntimeNext, LoopStep

\* No reply of a model makes the verifier accept a reference that no step of
\* the task earned (verifier.final_check, runtime._transition_state).
THEOREM CitedEvidenceIsEarned == RuntimeSpec => []CitedEvidenceWasEarned
<1>1. EarnedInv => CitedEvidenceWasEarned
  BY DEF EarnedInv
<1> QED
  BY <1>1, EarnedInit, EarnedStep, PTL DEF RuntimeSpec

---------------------------------------------------------------------------
(* The trajectory, the rows and the audit lines. *)

Listed(s) == \E S : s \in Seq(S)

\* Where in the loop a step has been begun.
InStep == {"model", "policy", "verify", "halt", "execute", "debit", "settle"}

\* A halt that is proposed has one of the five statuses.
HaltsAreNamed ==
  /\ action.anchor = "halt" => action.fields.status \in HaltStatuses
  /\ pc = "halt" => action.anchor = "halt"

\* Until run() returns, the number of the step is the length of the trajectory.
Counted ==
  /\ pc \in InStep \cup {"top", "done"}
  /\ step \in Nat /\ step <= MaxSteps
  /\ pc \in InStep => step < MaxSteps
  /\ pc # "done" => step = Len(trajectory) /\ result = "running" /\ taskRow.status = "running"
  /\ result # "running" => pc = "done"

\* A row is of a step in the trajectory, and of each that was accepted there is one.
RowsFollow ==
  /\ \A i \in DOMAIN rows : rows[i].step \in Nat /\ rows[i].step < Len(trajectory)
  /\ {rows[i].step + 1 : i \in DOMAIN rows} = {i \in DOMAIN trajectory : Accepted(i)}
  /\ \A i, j \in DOMAIN rows : i < j => rows[i].step < rows[j].step

\* The lines of the step in hand are its proposal, if it has been made.
AuditFollows ==
  pc # "done" => \A i \in DOMAIN audit :
    \/ audit[i].step \in Nat /\ audit[i].step < step
    \/ audit[i].step = step /\ audit[i].event = "action_proposed" /\ pc \notin {"top", "model"}

RecordsInv ==
  /\ Listed(trajectory) /\ Listed(rows) /\ Listed(audit)
  /\ HaltsAreNamed
  /\ Counted
  /\ RowsFollow
  /\ RecordsAgree
  /\ AuditFollows
  /\ AuditMatchesTrajectory

\* A list has its length many entries; one more leaves those before it.
LEMMA ListedEntries ==
  ASSUME NEW s, Listed(s)
  PROVE  Len(s) \in Nat /\ DOMAIN s = 1..Len(s)
  BY DEF Listed

LEMMA OneMore ==
  ASSUME NEW s, Listed(s), NEW e
  PROVE  /\ Listed(Append(s, e)) /\ Len(s) \in Nat /\ Len(Append(s, e)) = Len(s) + 1
         /\ DOMAIN s = 1..Len(s) /\ DOMAIN Append(s, e) = 1..Len(s) + 1
         /\ \A i \in 1..Len(s) : Append(s, e)[i] = s[i]
         /\ Append(s, e)[Len(s) + 1] = e
<1>1. PICK S : s \in Seq(S)
  BY DEF Listed
<1>2. s \in Seq(S \cup {e}) /\ e \in S \cup {e}
  BY <1>1
<1>3. Append(s, e) \in Seq(S \cup {e})
  BY <1>2
<1> QED
  BY <1>2, <1>3 DEF Listed

\* The statuses of halts, and what the trajectory makes of them.
LEMMA HaltOutcomes ==
  ASSUME NEW s \in HaltStatuses
  PROVE  /\ HaltOutcome[s] \notin Denials /\ HaltOutcome[s] # "accepted"
         /\ EventsOf(HaltOutcome[s]) = {"halt_accepted"}
<1>1. HaltOutcome[s] \in {"halted_complete", "halted_blocked", "halted_failed",
                         "halted_budget_exhausted", "halted_insufficient_evidence"}
  BY DEF HaltStatuses, HaltOutcome
<1> QED
  BY <1>1 DEF Denials, EventsOf

\* The emitter mends the confidence and the evidence of a halt, never its status.
LEMMA EmittedHaltsAreNamed ==
  ASSUME NEW r \in Replies, NEW a \in Emitted(r), a.anchor = "halt"
  PROVE  a.fields.status \in HaltStatuses
<1>1. ASSUME NEW x, SchemaValid(x), x.anchor = "halt"
      PROVE  "status" \in DOMAIN x.fields /\ x.fields.status \in HaltStatuses
  BY <1>1 DEF SchemaValid, Get, HaltStatuses
<1>2. ASSUME NEW t, NEW h \in BOOLEAN, NEW b \in Salvaged(t, h), b.anchor = "halt"
      PROVE  b.fields.status \in HaltStatuses
  <2>1. b \in {IntentHalt(t), IntentHalt(""), Unparseable, FallbackHalt}
    BY <1>2, Zenon DEF Salvaged
  <2>2. /\ \A x : IntentHalt(x).fields.status = "complete"
        /\ Unparseable.anchor = "unparseable"
        /\ FallbackHalt.fields.status = "failed"
    BY DEF IntentHalt, Unparseable, FallbackHalt, Scl
  <2> QED
    BY <1>2, <2>1, <2>2 DEF HaltStatuses
<1>3. FallbackHalt.fields.status \in HaltStatuses
  BY DEF FallbackHalt, Scl, HaltStatuses
<1>4. ASSUME NEW x, SchemaValid(x), x.anchor = "halt", NEW b \in RepairedHalts(x)
      PROVE  b.fields.status \in HaltStatuses
  <2>1. "status" \in DOMAIN x.fields /\ x.fields.status \in HaltStatuses
    BY <1>1, <1>4
  <2>2. ASSUME NEW y, "status" \in DOMAIN y.fields, y.fields.status \in HaltStatuses, NEW c
        PROVE  WithConfidence(y, c).fields.status \in HaltStatuses
    BY <2>2 DEF WithConfidence, Scl
  <2>3. "status" \in DOMAIN Without(x, "evidence").fields
        /\ Without(x, "evidence").fields.status = x.fields.status
    BY <2>1 DEF Without, Scl
  <2> QED
    BY <1>4, <2>1, <2>2, <2>3 DEF RepairedHalts
<1>5. r.form \in {"scl", "mended", "text", "crash"}
  BY RuntimeAssumption
<1>6. CASE r.form = "crash"
  BY <1>3, <1>6 DEF Emitted
<1>7. CASE r.form = "text"
  <2>1. a \in Salvaged(r.text, r.halting)
    BY <1>7 DEF Emitted
  <2>2. a \in Salvaged(r.text, TRUE) \cup Salvaged(r.text, FALSE)
    BY <2>1 DEF Salvaged
  <2> QED
    BY <1>2, <2>2
<1>8. CASE r.form \in {"scl", "mended"}
  <2>1. SchemaValid(r.act)
    BY <1>8, RuntimeAssumption
  <2>2. \/ a = r.act
        \/ r.act.anchor = "halt" /\ a \in RepairedHalts(r.act)
        \/ \E t, h \in {"rejected record", TRUE, FALSE} : h \in BOOLEAN /\ a \in Salvaged(t, h)
    BY <1>8 DEF Emitted
  <2> QED
    BY <1>1, <1>2, <1>4, <2>1, <2>2
<1> QED
  BY <1>5, <1>6, <1>7, <1>8

---------------------------------------------------------------------------
(* What a step adds. *)

\* An append to the audit file adds the line, or nothing (_audit).
LEMMA AuditedLine ==
  ASSUME Listed(audit), NEW e, Audited(e)
  PROVE  /\ Listed(audit')
         /\ DOMAIN audit = 1..Len(audit) /\ Len(audit) \in Nat
         /\ \A i \in DOMAIN audit : i \in DOMAIN audit' /\ audit'[i] = audit[i]
         /\ \A i \in DOMAIN audit' :
              \/ i \in DOMAIN audit
              \/ i = Len(audit) + 1 /\ audit'[i].step = step /\ audit'[i].event = e
<1>1. CASE audit' = audit
  BY <1>1, ListedEntries
<1>2. CASE audit' = Append(audit, [step |-> step, event |-> e])
  <2> DEFINE line == [step |-> step, event |-> e]
  <2>1. line.step = step /\ line.event = e /\ audit' = Append(audit, line)
    BY <1>2
  <2> HIDE DEF line
  <2>2. /\ Listed(audit') /\ Len(audit) \in Nat /\ DOMAIN audit = 1..Len(audit)
        /\ DOMAIN audit' = 1..Len(audit) + 1
        /\ \A i \in 1..Len(audit) : audit'[i] = audit[i]
        /\ audit'[Len(audit) + 1] = line
    <3>1. /\ Listed(Append(audit, line)) /\ Len(audit) \in Nat /\ Len(Append(audit, line)) = Len(audit) + 1
          /\ DOMAIN audit = 1..Len(audit) /\ DOMAIN Append(audit, line) = 1..Len(audit) + 1
          /\ \A i \in 1..Len(audit) : Append(audit, line)[i] = audit[i]
          /\ Append(audit, line)[Len(audit) + 1] = line
      BY OneMore, Zenon
    <3> QED
      BY <2>1, <3>1, Zenon
  <2> QED
    BY <2>1, <2>2
<1> QED
  BY <1>1, <1>2 DEF Audited

\* The trajectory gets the record of the step in hand.
LEMMA LoggedStep ==
  ASSUME RecordsInv, pc # "done", NEW o, NEW v, NEW r, Logged(o, v, r)
  PROVE  /\ Listed(trajectory')
         /\ step \in Nat /\ DOMAIN trajectory = 1..step
         /\ DOMAIN trajectory' = 1..step + 1 /\ Len(trajectory') = step + 1
         /\ \A i \in 1..step : trajectory'[i] = trajectory[i]
         /\ trajectory'[step + 1].outcome = o
<1>1. Len(trajectory) = step /\ step \in Nat /\ Listed(trajectory)
  BY DEF RecordsInv, Counted
<1> DEFINE rec == [outcome |-> o, violation |-> v, context |-> context, ref |-> r]
<1>2. trajectory' = Append(trajectory, rec)
  BY DEF Logged
<1>3. rec.outcome = o
  OBVIOUS
<1> HIDE DEF rec
<1>4. /\ Listed(trajectory') /\ DOMAIN trajectory = 1..Len(trajectory)
      /\ DOMAIN trajectory' = 1..Len(trajectory) + 1 /\ Len(trajectory') = Len(trajectory) + 1
      /\ \A i \in 1..Len(trajectory) : trajectory'[i] = trajectory[i]
      /\ trajectory'[Len(trajectory) + 1] = rec
  <2>1. /\ Listed(Append(trajectory, rec)) /\ Len(trajectory) \in Nat /\ Len(Append(trajectory, rec)) = Len(trajectory) + 1
        /\ DOMAIN trajectory = 1..Len(trajectory) /\ DOMAIN Append(trajectory, rec) = 1..Len(trajectory) + 1
        /\ \A i \in 1..Len(trajectory) : Append(trajectory, rec)[i] = trajectory[i]
        /\ Append(trajectory, rec)[Len(trajectory) + 1] = rec
    BY <1>1, OneMore, Zenon
  <2> QED
    BY <1>2, <2>1, Zenon
<1> QED
  BY <1>1, <1>3, <1>4

\* A decision on the step in hand fits the trajectory it enters with.
LEMMA DecisionFits ==
  ASSUME RecordsInv, pc \in InStep \ {"model"},
         NEW o, NEW v, NEW r, Logged(o, v, r),
         NEW e, Audited(e), e \in EventsOf(o), e # "action_proposed",
         pc' = "done" \/ (pc' = "top" /\ step' = step + 1)
  PROVE  Listed(audit') /\ AuditFollows' /\ AuditMatchesTrajectory'
<1>1. pc # "done" /\ step \in Nat
  BY DEF InStep, RecordsInv, Counted
<1>2. /\ DOMAIN trajectory = 1..step /\ DOMAIN trajectory' = 1..step + 1
      /\ \A i \in 1..step : trajectory'[i] = trajectory[i]
      /\ trajectory'[step + 1].outcome = o
  BY <1>1, LoggedStep
<1>3. /\ Listed(audit') /\ DOMAIN audit = 1..Len(audit) /\ Len(audit) \in Nat
      /\ \A i \in DOMAIN audit : i \in DOMAIN audit' /\ audit'[i] = audit[i]
      /\ \A i \in DOMAIN audit' :
           i \in DOMAIN audit \/ (i = Len(audit) + 1 /\ audit'[i].step = step /\ audit'[i].event = e)
  BY AuditedLine DEF RecordsInv
<1>4. \A i \in DOMAIN audit :
        \/ audit[i].step \in Nat /\ audit[i].step < step
        \/ audit[i].step = step /\ audit[i].event = "action_proposed"
  BY <1>1 DEF RecordsInv, AuditFollows
<1>5. \A i \in DOMAIN audit' : audit'[i].step \in Nat /\ audit'[i].step < step + 1
  BY <1>1, <1>3, <1>4
<1>6. AuditFollows'
  BY <1>1, <1>5 DEF AuditFollows
<1>7. ASSUME NEW i \in DOMAIN audit', audit'[i].event # "action_proposed"
      PROVE  /\ audit'[i].step + 1 \in DOMAIN trajectory'
             /\ audit'[i].event \in EventsOf(trajectory'[audit'[i].step + 1].outcome)
  <2>1. CASE i \in DOMAIN audit
    <3>1. audit[i].step + 1 \in 1..step /\ audit[i].event \in EventsOf(trajectory[audit[i].step + 1].outcome)
      BY <1>2, <1>3, <1>7, <2>1 DEF RecordsInv, AuditMatchesTrajectory
    <3> QED
      BY <1>1, <1>2, <1>3, <2>1, <3>1
  <2>2. CASE i \notin DOMAIN audit
    BY <1>1, <1>2, <1>3, <2>2
  <2> QED
    BY <2>1, <2>2
<1>8. ASSUME NEW i \in DOMAIN audit', NEW j \in DOMAIN audit', i < j
      PROVE  \/ audit'[i].step < audit'[j].step
             \/ /\ audit'[i].step = audit'[j].step
                /\ audit'[i].event = "action_proposed" /\ audit'[j].event # "action_proposed"
  <2>1. i \in DOMAIN audit
    BY <1>3, <1>8
  <2>2. CASE j \in DOMAIN audit
    BY <1>3, <1>8, <2>1, <2>2 DEF RecordsInv, AuditMatchesTrajectory
  <2>3. CASE j \notin DOMAIN audit
    BY <1>1, <1>3, <1>4, <2>1, <2>3
  <2> QED
    BY <2>2, <2>3
<1> QED
  BY <1>3, <1>6, <1>7, <1>8 DEF AuditMatchesTrajectory

\* A step on which nothing was done has no row.
LEMMA DeniedHasNoRow ==
  ASSUME RecordsInv, pc # "done", NEW o \in Denials, NEW v, NEW r, Logged(o, v, r), UNCHANGED rows
  PROVE  RowsFollow'
<1>1. /\ step \in Nat /\ DOMAIN trajectory = 1..step
      /\ DOMAIN trajectory' = 1..step + 1 /\ Len(trajectory') = step + 1 /\ Len(trajectory) = step
      /\ \A i \in 1..step : trajectory'[i] = trajectory[i]
      /\ trajectory'[step + 1].outcome = o
  BY LoggedStep DEF RecordsInv, Counted
<1>2. {i \in DOMAIN trajectory' : trajectory'[i].outcome \notin Denials}
        = {i \in DOMAIN trajectory : trajectory[i].outcome \notin Denials}
  BY <1>1
<1> QED
  BY <1>1, <1>2 DEF RecordsInv, RowsFollow, Accepted

\* A step that was accepted has the next row.
LEMMA AcceptedHasARow ==
  ASSUME RecordsInv, pc # "done", NEW o, o \notin Denials, NEW v, NEW r, Logged(o, v, r),
         NEW row, row.step = step, rows' = Append(rows, row)
  PROVE  Listed(rows') /\ RowsFollow'
<1>1. /\ step \in Nat /\ DOMAIN trajectory = 1..step
      /\ DOMAIN trajectory' = 1..step + 1 /\ Len(trajectory') = step + 1 /\ Len(trajectory) = step
      /\ \A i \in 1..step : trajectory'[i] = trajectory[i]
      /\ trajectory'[step + 1].outcome = o
  BY LoggedStep DEF RecordsInv, Counted
<1>2. /\ Listed(rows') /\ Len(rows) \in Nat
      /\ DOMAIN rows = 1..Len(rows) /\ DOMAIN rows' = 1..Len(rows) + 1
      /\ \A i \in 1..Len(rows) : rows'[i] = rows[i]
      /\ rows'[Len(rows) + 1] = row
  <2>1. Listed(rows)
    BY DEF RecordsInv
  <2>2. /\ Listed(Append(rows, row)) /\ Len(rows) \in Nat /\ Len(Append(rows, row)) = Len(rows) + 1
        /\ DOMAIN rows = 1..Len(rows) /\ DOMAIN Append(rows, row) = 1..Len(rows) + 1
        /\ \A i \in 1..Len(rows) : Append(rows, row)[i] = rows[i]
        /\ Append(rows, row)[Len(rows) + 1] = row
    BY <2>1, OneMore, Zenon
  <2> QED
    BY <2>2, Zenon
<1>3. \A i \in DOMAIN rows : rows[i].step \in Nat /\ rows[i].step < step
  BY <1>1 DEF RecordsInv, RowsFollow
<1>4. \A i \in DOMAIN rows' : rows'[i].step \in Nat /\ rows'[i].step < Len(trajectory')
  BY <1>1, <1>2, <1>3
<1>5. {rows'[i].step + 1 : i \in DOMAIN rows'} = {rows[i].step + 1 : i \in DOMAIN rows} \cup {step + 1}
  BY <1>2
<1>6. {i \in DOMAIN trajectory' : trajectory'[i].outcome \notin Denials}
        = {i \in DOMAIN trajectory : trajectory[i].outcome \notin Denials} \cup {step + 1}
  BY <1>1
<1>7. \A i, j \in DOMAIN rows' : i < j => rows'[i].step < rows'[j].step
  <2> SUFFICES ASSUME NEW i \in DOMAIN rows', NEW j \in DOMAIN rows', i < j
               PROVE  rows'[i].step < rows'[j].step
    OBVIOUS
  <2>1. i \in DOMAIN rows
    BY <1>2
  <2>2. CASE j \in DOMAIN rows
    BY <1>2, <2>1, <2>2 DEF RecordsInv, RowsFollow
  <2>3. CASE j \notin DOMAIN rows
    BY <1>2, <1>3, <2>1, <2>3
  <2> QED
    BY <2>2, <2>3
<1>8. {rows'[i].step + 1 : i \in DOMAIN rows'} = {i \in DOMAIN trajectory' : trajectory'[i].outcome \notin Denials}
  BY <1>5, <1>6 DEF RecordsInv, RowsFollow, Accepted
<1> QED
  BY <1>2, <1>4, <1>7, <1>8 DEF RowsFollow, Accepted

---------------------------------------------------------------------------
(* The invariant of the records, one action after the other. *)

\* A task starts with nothing on record.
LEMMA RecordsInit == RuntimeInit => RecordsInv
<1> SUFFICES ASSUME RuntimeInit PROVE RecordsInv
  OBVIOUS
<1>1. /\ trajectory = <<>> /\ rows = <<>> /\ audit = <<>> /\ step = 0 /\ pc = "top"
      /\ result = "running" /\ taskRow.status = "running" /\ action.anchor = ""
  BY DEF RuntimeInit, Nothing, Scl
<1>2. \A S : <<>> \in Seq(S)
  OBVIOUS
<1>3. Listed(trajectory) /\ Listed(rows) /\ Listed(audit)
  BY <1>1, <1>2 DEF Listed
<1>4. DOMAIN trajectory = {} /\ DOMAIN rows = {} /\ DOMAIN audit = {} /\ Len(trajectory) = 0
  <2>1. \A s : s = <<>> => DOMAIN s = {} /\ Len(s) = 0
    OBVIOUS
  <2> QED
    BY <1>1, <2>1
<1>5. HaltsAreNamed /\ Counted
  <2>1. HaltsAreNamed
    BY <1>1 DEF HaltsAreNamed
  <2>2. step \in Nat /\ step <= MaxSteps
    <3>1. step = 0
      BY <1>1
    <3>2. MaxSteps \in Nat
      BY BudgetAssumption
    <3> QED
      BY <3>1, <3>2
  <2> QED
    BY <1>1, <1>4, <2>1, <2>2 DEF Counted, InStep
<1>6. RowsFollow /\ AuditFollows /\ AuditMatchesTrajectory
  BY <1>4 DEF RowsFollow, AuditFollows, AuditMatchesTrajectory
<1>7. RecordsAgree
  BY <1>1, <1>4, <1>6 DEF RecordsAgree, RowsFollow
<1> QED
  BY <1>3, <1>5, <1>6, <1>7 DEF RecordsInv

\* A step that records nothing and does not return.
LEMMA SilentStep ==
  ASSUME RecordsInv, pc \in InStep, pc' \in InStep \ {"model"}, pc # "model",
         pc' = "halt" => action.anchor = "halt",
         UNCHANGED <<step, trajectory, rows, audit, taskRow, result, stepsTaken, action>>
  PROVE  RecordsInv'
<1>1. Listed(trajectory)' /\ Listed(rows)' /\ Listed(audit)' /\ HaltsAreNamed' /\ RowsFollow'
  BY DEF RecordsInv, HaltsAreNamed, RowsFollow, Listed, Accepted
<1>2. Counted'
  BY DEF RecordsInv, Counted, InStep
<1>3. AuditFollows'
  BY DEF RecordsInv, AuditFollows, InStep
<1>4. AuditMatchesTrajectory'
  BY DEF RecordsInv, AuditMatchesTrajectory
<1>5. RecordsAgree'
  <2>1. pc # "done" /\ pc' # "done" /\ result = "running"
    BY DEF InStep, RecordsInv, Counted
  <2> QED
    BY <1>1, <2>1 DEF RecordsInv, RecordsAgree, Accepted
<1> QED
  BY <1>1, <1>2, <1>3, <1>4, <1>5 DEF RecordsInv

\* A return that records nothing more.
LEMMA SilentReturn ==
  ASSUME RecordsInv, pc # "done", pc' = "done",
         UNCHANGED <<step, trajectory, rows, audit, action>>,
         \/ result' = "raised"
         \/ result' = "max_steps" /\ step = MaxSteps /\ taskRow'.status = "max_steps"
         \/ result' = "budget_exhausted" /\ stepsTaken' = step /\ step < MaxSteps
  PROVE  RecordsInv'
<1>1. Listed(trajectory)' /\ Listed(rows)' /\ Listed(audit)' /\ HaltsAreNamed' /\ RowsFollow'
  BY DEF RecordsInv, HaltsAreNamed, RowsFollow, Listed, Accepted
<1>2. Counted' /\ step = Len(trajectory)
  BY DEF RecordsInv, Counted, InStep
<1>3. AuditFollows'
  BY DEF AuditFollows
<1>4. AuditMatchesTrajectory'
  BY DEF RecordsInv, AuditMatchesTrajectory
<1>5. RecordsAgree'
  BY <1>1, <1>2 DEF RecordsAgree, RowsFollow, Accepted
<1> QED
  BY <1>1, <1>2, <1>3, <1>4, <1>5 DEF RecordsInv

\* A step that is refused, or taken back by its postconditions.
LEMMA DeniedStep ==
  ASSUME RecordsInv, pc \in InStep \ {"model"},
         NEW o \in Denials, NEW v, NEW r, Logged(o, v, r),
         NEW e, Audited(e), e \in EventsOf(o), e # "action_proposed",
         pc' = "top", step' = step + 1, UNCHANGED <<rows, taskRow, result, stepsTaken, action>>
  PROVE  RecordsInv'
<1>1. pc # "done" /\ step \in Nat /\ step < MaxSteps /\ result = "running" /\ taskRow.status = "running"
  BY DEF InStep, RecordsInv, Counted
<1>2. Listed(trajectory') /\ Len(trajectory') = step + 1
  BY <1>1, LoggedStep
<1>3. Listed(audit') /\ AuditFollows' /\ AuditMatchesTrajectory'
  BY DecisionFits
<1>4. RowsFollow'
  BY <1>1, DeniedHasNoRow
<1>5. Counted'
  BY <1>1, <1>2, BudgetAssumption DEF Counted, InStep
<1>6. RecordsAgree'
  BY <1>1, <1>2, <1>4 DEF RecordsAgree, RowsFollow
<1>7. Listed(rows)' /\ HaltsAreNamed'
  BY DEF RecordsInv, HaltsAreNamed
<1> QED
  BY <1>2, <1>3, <1>4, <1>5, <1>6, <1>7 DEF RecordsInv

\* Every refusal of the gates is such a step.
LEMMA DenyKeepsRecords ==
  ASSUME RecordsInv, DenyParse \/ DenyPolicy \/ DenyVerify \/ DenyCalibration \/ RejectHalt \/ SettleFails
  PROVE  RecordsInv'
<1>1. \E o \in Denials : \E v, r, e :
        /\ Logged(o, v, r) /\ Audited(e) /\ e \in EventsOf(o) /\ e # "action_proposed"
        /\ pc \in {"policy", "verify", "halt", "settle"}
        /\ pc' = "top" /\ step' = step + 1
        /\ UNCHANGED <<rows, taskRow, result, stepsTaken, action>>
  <2> USE DEF Deny, Denials, EventsOf, outcomeVars, dictVars
  <2>1. CASE DenyParse
    BY <2>1 DEF DenyParse
  <2>2. CASE DenyPolicy
    BY <2>2 DEF DenyPolicy
  <2>3. CASE DenyVerify
    BY <2>3 DEF DenyVerify
  <2>4. CASE DenyCalibration
    BY <2>4 DEF DenyCalibration
  <2>5. CASE RejectHalt
    BY <2>5 DEF RejectHalt
  <2>6. CASE SettleFails
    BY <2>6 DEF SettleFails
  <2> QED
    BY <2>1, <2>2, <2>3, <2>4, <2>5, <2>6
<1> QED
  BY <1>1, DeniedStep DEF InStep

\* The proposal is the first line of its step.
LEMMA ProposeKeepsRecords == ASSUME RecordsInv, Propose PROVE RecordsInv'
<1>1. /\ pc = "model" /\ pc' = "policy" /\ Audited("action_proposed")
      /\ UNCHANGED <<step, trajectory, rows, taskRow, result, stepsTaken>>
  BY DEF Propose, outcomeVars
<1>2. HaltsAreNamed'
  BY <1>1, EmittedHaltsAreNamed DEF Propose, HaltsAreNamed
<1>3. /\ Listed(audit') /\ DOMAIN audit = 1..Len(audit) /\ Len(audit) \in Nat
      /\ \A i \in DOMAIN audit : i \in DOMAIN audit' /\ audit'[i] = audit[i]
      /\ \A i \in DOMAIN audit' :
           \/ i \in DOMAIN audit
           \/ i = Len(audit) + 1 /\ audit'[i].step = step /\ audit'[i].event = "action_proposed"
  BY <1>1, AuditedLine DEF RecordsInv
<1>4. /\ step \in Nat
      /\ \A i \in DOMAIN audit : audit[i].step \in Nat /\ audit[i].step < step
  BY <1>1 DEF RecordsInv, Counted, AuditFollows
<1>5. AuditFollows'
  BY <1>1, <1>3, <1>4 DEF AuditFollows
<1>6. AuditMatchesTrajectory'
  <2>1. ASSUME NEW i \in DOMAIN audit', audit'[i].event # "action_proposed"
        PROVE  /\ audit'[i].step + 1 \in DOMAIN trajectory'
               /\ audit'[i].event \in EventsOf(trajectory'[audit'[i].step + 1].outcome)
    BY <1>1, <1>3, <2>1 DEF RecordsInv, AuditMatchesTrajectory
  <2>2. ASSUME NEW i \in DOMAIN audit', NEW j \in DOMAIN audit', i < j
        PROVE  \/ audit'[i].step < audit'[j].step
               \/ /\ audit'[i].step = audit'[j].step
                  /\ audit'[i].event = "action_proposed" /\ audit'[j].event # "action_proposed"
    <3>1. i \in DOMAIN audit
      BY <1>3, <2>2
    <3>2. CASE j \in DOMAIN audit
      BY <1>3, <2>2, <3>1, <3>2 DEF RecordsInv, AuditMatchesTrajectory
    <3>3. CASE j \notin DOMAIN audit
      BY <1>3, <1>4, <3>1, <3>3
    <3> QED
      BY <3>2, <3>3
  <2> QED
    BY <2>1, <2>2 DEF AuditMatchesTrajectory
<1>7. Listed(trajectory)' /\ Listed(rows)' /\ RowsFollow' /\ Counted'
  BY <1>1 DEF RecordsInv, RowsFollow, Accepted, Listed, Counted, InStep
<1>8. RecordsAgree'
  <2>1. result = "running" /\ pc' # "done" /\ step = Len(trajectory) /\ taskRow.status = "running"
    BY <1>1 DEF RecordsInv, Counted
  <2> QED
    BY <1>1, <1>7, <2>1 DEF RecordsAgree, RowsFollow
<1> QED
  BY <1>2, <1>3, <1>5, <1>6, <1>7, <1>8 DEF RecordsInv

\* An accepted halt is recorded four times, alike.
LEMMA AcceptHaltKeepsRecords == ASSUME RecordsInv, AcceptHalt PROVE RecordsInv'
<1> DEFINE o == HaltOutcome[action.fields.status]
           row == [step |-> step, outcome |-> "success"]
<1>1. /\ pc = "halt" /\ pc' = "done" /\ result' = "success" /\ stepsTaken' = step + 1
      /\ Logged(o, FALSE, "") /\ Audited("halt_accepted") /\ rows' = Append(rows, row) /\ row.step = step
      /\ taskRow' = [status |-> "success", steps |-> step + 1]
      /\ UNCHANGED <<step, action>>
  BY DEF AcceptHalt, Return
<1>2. action.fields.status \in HaltStatuses
  BY <1>1 DEF RecordsInv, HaltsAreNamed
<1>3. o \notin Denials /\ "halt_accepted" \in EventsOf(o) /\ o \in {HaltOutcome[s] : s \in HaltStatuses}
  BY <1>2, HaltOutcomes
<1> HIDE DEF o, row
<1>4. /\ Listed(trajectory') /\ Len(trajectory') = step + 1 /\ step \in Nat /\ step < MaxSteps
      /\ trajectory'[step + 1].outcome = o
  BY <1>1, LoggedStep DEF RecordsInv, Counted, InStep
<1>5. Listed(audit') /\ AuditFollows' /\ AuditMatchesTrajectory'
  BY <1>1, <1>3, DecisionFits DEF InStep
<1>6. Listed(rows') /\ RowsFollow'
  BY <1>1, <1>3, AcceptedHasARow
<1>7. Counted' /\ HaltsAreNamed'
  <2>1. step' \in Nat /\ step' < MaxSteps /\ step' <= MaxSteps
    <3>1. MaxSteps \in Nat
      BY BudgetAssumption
    <3>2. step' = step
      BY <1>1
    <3> QED
      BY <1>4, <3>1, <3>2
  <2>2. Counted'
    BY <1>1, <2>1 DEF Counted, InStep
  <2>3. HaltsAreNamed'
    BY <1>1, <1>2 DEF HaltsAreNamed
  <2> QED
    BY <2>2, <2>3
<1>8. RecordsAgree'
  BY <1>1, <1>3, <1>4, <1>6 DEF RecordsAgree, RowsFollow
<1> QED
  BY <1>4, <1>5, <1>6, <1>7, <1>8 DEF RecordsInv

\* So is an accepted step of any other kind, its row of the task apart.
LEMMA SettleKeepsRecords == ASSUME RecordsInv, Settle PROVE RecordsInv'
<1> DEFINE row == [step |-> step, outcome |-> IF exec.success THEN "success" ELSE "error"]
           ref == IF EarnsEvidence THEN Ref ELSE ""
<1>1. /\ pc = "settle" /\ pc' = "top" /\ step' = step + 1
      /\ Logged("accepted", FALSE, ref) /\ Audited("action_accepted")
      /\ rows' = Append(rows, row) /\ row.step = step
      /\ UNCHANGED <<action, taskRow, result, stepsTaken>>
  BY DEF Settle, outcomeVars
<1>2. "accepted" \notin Denials /\ "action_accepted" \in EventsOf("accepted")
  BY DEF Denials, EventsOf
<1> HIDE DEF row, ref
<1>3. Listed(trajectory') /\ Len(trajectory') = step + 1 /\ step \in Nat /\ step < MaxSteps
  BY <1>1, LoggedStep DEF RecordsInv, Counted, InStep
<1>4. Listed(audit') /\ AuditFollows' /\ AuditMatchesTrajectory'
  BY <1>1, <1>2, DecisionFits DEF InStep
<1>5. Listed(rows') /\ RowsFollow'
  BY <1>1, <1>2, AcceptedHasARow
<1>6. Counted' /\ HaltsAreNamed'
  BY <1>1, <1>3, BudgetAssumption DEF RecordsInv, Counted, HaltsAreNamed, InStep
<1>7. RecordsAgree'
  BY <1>1, <1>3, <1>5, <1>6 DEF RecordsAgree, RowsFollow, Counted
<1> QED
  BY <1>3, <1>4, <1>5, <1>6, <1>7 DEF RecordsInv

\* The actions that record nothing and go on within the step.
LEMMA SilentActions ==
  ASSUME RecordsInv, BooksInv,
         \/ PassPolicy \/ PassVerify \/ DebitAction
         \/ ExecutePatchTool \/ ExecuteTool \/ ExecuteMemoryRecord \/ ExecuteRepair
         \/ ExecuteBudget \/ ExecuteVerify \/ ExecuteState
  PROVE  RecordsInv'
<1>1. CASE PassPolicy \/ PassVerify
  <2>1. /\ pc \in {"policy", "verify"} /\ pc' \in {"verify", "halt", "execute"}
        /\ pc' = "halt" => action.anchor = "halt"
        /\ UNCHANGED <<step, trajectory, rows, audit, taskRow, result, stepsTaken, action>>
    BY <1>1 DEF PassPolicy, PassVerify, recordVars, outcomeVars
  <2> QED
    BY <2>1, SilentStep DEF InStep
<1>2. CASE DebitAction
  <2>1. pc = "debit" /\ pc' = "settle"
    BY <1>2, DebitActionEffect
  <2>2. UNCHANGED <<step, trajectory, rows, audit, taskRow, result, stepsTaken, action>>
    BY <1>2, <2>1 DEF DebitAction, Return, recordVars
  <2> QED
    BY <2>1, <2>2, SilentStep DEF InStep
<1>3. CASE \/ ExecutePatchTool \/ ExecuteTool \/ ExecuteMemoryRecord \/ ExecuteRepair
           \/ ExecuteBudget \/ ExecuteVerify \/ ExecuteState
  <2>1. pc = "execute" /\ \E o : Executed(o)
    BY <1>3 DEF ExecutePatchTool, ExecuteTool, ExecuteMemoryRecord, ExecuteRepair,
                ExecuteBudget, ExecuteVerify, ExecuteState
  <2>2. pc' = "debit" /\ UNCHANGED <<step, trajectory, rows, audit, taskRow, result, stepsTaken, action>>
    BY <2>1 DEF Executed, recordVars, outcomeVars
  <2> QED
    BY <2>1, <2>2, SilentStep DEF InStep
<1> QED
  BY <1>1, <1>2, <1>3

\* A new step has no record yet.
LEMMA BeginStepKeepsRecords == ASSUME RecordsInv, BeginStep PROVE RecordsInv'
<1>1. /\ pc = "top" /\ pc' = "model" /\ step < MaxSteps
      /\ UNCHANGED <<step, trajectory, rows, audit, taskRow, result, stepsTaken, action>>
  BY DEF BeginStep, recordVars, outcomeVars
<1>2. Listed(trajectory)' /\ Listed(rows)' /\ Listed(audit)' /\ HaltsAreNamed' /\ RowsFollow'
  BY <1>1 DEF RecordsInv, HaltsAreNamed, RowsFollow, Listed, Accepted
<1>3. Counted'
  BY <1>1 DEF RecordsInv, Counted, InStep
<1>4. AuditFollows' /\ AuditMatchesTrajectory'
  BY <1>1 DEF RecordsInv, AuditFollows, AuditMatchesTrajectory
<1>5. RecordsAgree'
  <2>1. result = "running"
    BY <1>1 DEF RecordsInv, Counted
  <2> QED
    BY <1>1, <1>2, <2>1 DEF RecordsInv, RecordsAgree, Accepted
<1> QED
  BY <1>2, <1>3, <1>4, <1>5 DEF RecordsInv

\* The ways run() ends without a record of its own.
LEMMA ReturnKeepsRecords ==
  ASSUME RecordsInv, MaxStepsReached \/ BudgetExhausted \/ ExecuteRaises \/ SettleRaises
  PROVE  RecordsInv'
<1>1. /\ pc # "done" /\ pc' = "done"
      /\ UNCHANGED <<step, trajectory, rows, audit, action>>
      /\ \/ result' = "raised"
         \/ result' = "max_steps" /\ step = MaxSteps /\ taskRow'.status = "max_steps"
         \/ result' = "budget_exhausted" /\ stepsTaken' = step /\ step < MaxSteps
  <2> USE DEF Return, Raise, recordVars
  <2>1. CASE MaxStepsReached
    BY <2>1 DEF MaxStepsReached
  <2>2. CASE BudgetExhausted
    BY <2>2 DEF BudgetExhausted
  <2>3. CASE ExecuteRaises \/ SettleRaises
    BY <2>3 DEF ExecuteRaises, SettleRaises
  <2> QED
    BY <2>1, <2>2, <2>3
<1> QED
  BY <1>1, SilentReturn

\* RecordsInv is inductive beside the books: that no debit is refused is what
\* keeps run() from returning a number of steps that it has no record of.
LEMMA RecordsStep == RecordsInv /\ BooksInv /\ [RuntimeNext]_vars => RecordsInv'
<1> SUFFICES ASSUME RecordsInv, BooksInv, [RuntimeNext]_vars PROVE RecordsInv'
  OBVIOUS
<1>1. CASE TimePasses \/ UNCHANGED vars
  <2>1. UNCHANGED <<pc, step, trajectory, rows, audit, taskRow, result, stepsTaken, action>>
    BY <1>1 DEF TimePasses, vars, loopVars, recordVars, outcomeVars
  <2>2. Listed(trajectory)' /\ Listed(rows)' /\ Listed(audit)' /\ HaltsAreNamed' /\ RowsFollow'
    BY <2>1 DEF RecordsInv, HaltsAreNamed, RowsFollow, Listed, Accepted
  <2>3. Counted' /\ AuditFollows' /\ AuditMatchesTrajectory'
    BY <2>1 DEF RecordsInv, Counted, AuditFollows, AuditMatchesTrajectory
  <2>4. RecordsAgree'
    BY <2>1 DEF RecordsInv, RecordsAgree, Accepted
  <2> QED
    BY <2>2, <2>3, <2>4 DEF RecordsInv
<1> QED
  BY <1>1, SilentActions, AcceptHaltKeepsRecords, BeginStepKeepsRecords, ReturnKeepsRecords, DenyKeepsRecords,
     ProposeKeepsRecords, SettleKeepsRecords DEF RuntimeNext, LoopStep

\* The invariant of the records, beside that of the books (run()).
THEOREM RecordsInvHolds == RuntimeSpec => []RecordsInv
<1>1. RecordsInv /\ BooksInv /\ [RuntimeNext]_vars => RecordsInv'
  BY RecordsStep
<1> QED
  BY <1>1, RecordsInit, BooksAreKept, PTL DEF RuntimeSpec

\* The trajectory, the rows of the database and the status of a task agree, on every
\* way run() goes on or returns (log_step, finish_task, RuntimeResult).
THEOREM RecordsAlwaysAgree == RuntimeSpec => []RecordsAgree
<1>1. RecordsInv => RecordsAgree
  BY DEF RecordsInv
<1> QED
  BY <1>1, RecordsInvHolds, PTL

\* Whichever appends to the audit file fail, the lines that are there tell of the
\* decisions in the trajectory, in their order (_audit).
THEOREM AuditAlwaysMatches == RuntimeSpec => []AuditMatchesTrajectory
<1>1. RecordsInv => AuditMatchesTrajectory
  BY DEF RecordsInv
<1> QED
  BY <1>1, RecordsInvHolds, PTL

---------------------------------------------------------------------------
(* Effects: what a rollback can put back, whatever commands do to the files. *)

\* The registry and the rollback manager resolve names alike, and files are texts: what is
\* read is what is there.
OneWorkspace == SnapPath = ToolPath
TextFiles == \A c \in Contents : Decode[c] = c

Genuine == {s \in Snapshot : s.content = s.bytes}

Names(a) == a.anchor \in {"tool", "repair"} => Get(a.fields, "target", "") \in PathTexts \cup {""}

EffectsInv ==
  /\ files \in [Files -> Contents \cup {Absent}]
  /\ snapshots \in [PathTexts -> Seq(Genuine)]
  /\ Names(action)

\* What the emitter hands on names a target only if the reply did.
LEMMA EmittedTargets ==
  ASSUME NEW r \in Replies, NEW a \in Emitted(r)
  PROVE  Names(a)
<1> SUFFICES ASSUME a.anchor \in {"tool", "repair"}
             PROVE  Get(a.fields, "target", "") \in PathTexts \cup {""}
  BY DEF Names
<1>1. ASSUME NEW t, NEW h \in BOOLEAN, NEW b \in Salvaged(t, h)
      PROVE  b.anchor \notin {"tool", "repair"}
  <2>1. b \in {IntentHalt(t), IntentHalt(""), Unparseable, FallbackHalt}
    BY <1>1, Zenon DEF Salvaged
  <2>2. /\ \A x : IntentHalt(x).anchor = "halt"
        /\ Unparseable.anchor = "unparseable"
        /\ FallbackHalt.anchor = "halt"
    BY DEF IntentHalt, Unparseable, FallbackHalt, Scl
  <2> QED
    BY <2>1, <2>2
<1>2. ASSUME NEW x, x.anchor = "halt", NEW b \in RepairedHalts(x)
      PROVE  b.anchor = "halt"
  BY <1>2 DEF RepairedHalts, WithConfidence, Without, Scl
<1>3. FallbackHalt.anchor = "halt"
  BY DEF FallbackHalt, Scl
<1>4. r.form \in {"scl", "mended", "text", "crash"}
  BY RuntimeAssumption
<1>5. CASE r.form = "crash"
  BY <1>3, <1>5 DEF Emitted
<1>6. CASE r.form = "text"
  BY <1>1, <1>3, <1>6 DEF Emitted, Salvaged, IntentHalt, Unparseable, Scl
<1>7. CASE r.form \in {"scl", "mended"}
  <2>1. a = r.act
    BY <1>1, <1>2, <1>7 DEF Emitted
  <2> QED
    BY <1>7, <2>1, RuntimeAssumption
<1> QED
  BY <1>4, <1>5, <1>6, <1>7

\* The change a step makes to the disk and the stacks: a command's, or one that can be undone.
Undoable == \A f \in Files : files'[f] # files[f] => RunsCommand(action) \/ CanBeUndone(f)

Kept ==
  /\ files \in [Files -> Contents \cup {Absent}]
  /\ snapshots \in [PathTexts -> Seq(Genuine)]

\* A snapshot is of what is there; it is the last of its stack.
LEMMA SnapshotIsGenuine ==
  ASSUME TextFiles, Kept, NEW target \in PathTexts, SnapshotFile(target)
  PROVE  /\ snapshots' \in [PathTexts -> Seq(Genuine)]
         /\ Present(SnapPath[target]) =>
              /\ FileOf[SnapPath[target]] \in Files /\ SnapPath[target] \in PathTexts
              /\ snapshots'[SnapPath[target]] # snapshots[SnapPath[target]]
              /\ Last(snapshots'[SnapPath[target]]).file = FileOf[SnapPath[target]]
              /\ Last(snapshots'[SnapPath[target]]).content = files[FileOf[SnapPath[target]]]
<1> DEFINE path == SnapPath[target]
           f == FileOf[path]
           snap == [file |-> f, content |-> Decode[files[f]], bytes |-> files[f]]
<1>1. path \in PathTexts /\ f \in Files \cup {NoFile}
  BY RollbackAssumption
<1>2. CASE ~Present(path)
  BY <1>2 DEF Kept, SnapshotFile
<1>3. CASE Present(path)
  <2>1. f \in Files /\ files[f] \in Contents /\ Decode[files[f]] = files[f]
    BY <1>1, <1>3 DEF Kept, TextFiles, Present
  <2>2. snap \in Genuine /\ snap.file = f /\ snap.content = files[f]
    BY <2>1 DEF Genuine, Snapshot
  <2>3. snapshots' = [snapshots EXCEPT ![path] = Append(@, snap)]
    BY <1>3 DEF SnapshotFile
  <2> HIDE DEF snap
  <2>4. snapshots[path] \in Seq(Genuine) /\ snapshots'[path] = Append(snapshots[path], snap)
    BY <1>1, <2>3 DEF Kept
  <2>5. /\ Append(snapshots[path], snap) \in Seq(Genuine)
        /\ Append(snapshots[path], snap) # snapshots[path]
        /\ Last(Append(snapshots[path], snap)) = snap
    BY <2>2, <2>4 DEF Last
  <2> QED
    BY <1>1, <2>1, <2>2, <2>3, <2>4, <2>5 DEF Kept
<1> QED
  BY <1>2, <1>3

LEMMA PatchIsUndoable ==
  ASSUME OneWorkspace, TextFiles, Kept, NEW target \in PathTexts, SnapshotFile(target), PatchTool(target)
  PROVE  Kept' /\ Undoable
<1> DEFINE f == FileOf[SnapPath[target]]
<1>1. CASE ~Patchable(target)
  BY <1>1, SnapshotIsGenuine DEF PatchTool, Kept, Undoable
<1>2. CASE Patchable(target)
  <2>1. Present(SnapPath[target]) /\ FileOf[ToolPath[target]] = f
    BY <1>2 DEF Patchable, OneWorkspace
  <2>2. PICK c \in Contents \cup {Absent} : files' = [files EXCEPT ![f] = c]
    BY <1>2, <2>1 DEF PatchTool
  <2>3. /\ snapshots' \in [PathTexts -> Seq(Genuine)]
        /\ \E p \in PathTexts : /\ snapshots'[p] # snapshots[p]
                                 /\ Last(snapshots'[p]).file = f
                                 /\ Last(snapshots'[p]).content = files[f]
    BY <2>1, SnapshotIsGenuine
  <2> HIDE DEF f
  <2>4. files' \in [Files -> Contents \cup {Absent}] /\ \A g \in Files \ {f} : files'[g] = files[g]
    BY <2>2 DEF Kept
  <2>5. \A g \in Files : files'[g] # files[g] => g = f
    BY <2>4
  <2> QED
    BY <2>3, <2>4, <2>5 DEF Kept, Undoable, CanBeUndone
<1> QED
  BY <1>1, <1>2

LEMMA RestoreIsUndoable ==
  ASSUME Kept, NEW artifact, Restore(artifact), UNCHANGED snapshots
  PROVE  Kept' /\ Undoable
<1>1. CASE ~HasSnapshot(artifact)
  BY <1>1 DEF Restore, Kept, Undoable
<1>2. CASE HasSnapshot(artifact)
  <2> DEFINE snap == Last(snapshots[artifact])
  <2>1. artifact \in PathTexts /\ snapshots[artifact] \in Seq(Genuine) /\ snapshots[artifact] # <<>>
    BY <1>2 DEF HasSnapshot, Kept
  <2>2. snap \in Genuine
    BY <2>1 DEF Last
  <2>3. snap.file \in Files /\ snap.content \in Contents /\ snap.content = snap.bytes
    BY <2>2 DEF Genuine, Snapshot
  <2>4. files' = [files EXCEPT ![snap.file] = snap.content]
    BY <1>2 DEF Restore
  <2> HIDE DEF snap
  <2>5. files' \in [Files -> Contents \cup {Absent}] /\ files'[snap.file] = snap.bytes
        /\ \A g \in Files \ {snap.file} : files'[g] = files[g]
    BY <2>3, <2>4 DEF Kept
  <2> QED
    BY <1>2, <2>1, <2>5 DEF Kept, Undoable, CanBeUndone, snap
<1> QED
  BY <1>1, <1>2

\* A command changes files as it likes; the stacks stay.
LEMMA CommandsKeep ==
  ASSUME Kept, CommandsRun
  PROVE  Kept' /\ Undoable
BY DEF CommandsRun, CommandRuns, Kept, Undoable

LEMMA EffectsStep ==
  ASSUME OneWorkspace, TextFiles, EffectsInv, [RuntimeNext]_vars
  PROVE  EffectsInv' /\ Undoable
<1>1. Kept /\ Names(action)
  BY DEF EffectsInv, Kept
<1>2. ASSUME UNCHANGED rollbackVars
      PROVE  Kept' /\ Undoable
  BY <1>1, <1>2 DEF rollbackVars, Kept, Undoable
<1>3. ASSUME UNCHANGED <<action, rollbackVars>>
      PROVE  EffectsInv' /\ Undoable
  BY <1>1, <1>2, <1>3 DEF EffectsInv, Kept
<1>4. ASSUME UNCHANGED action, Kept', Undoable
      PROVE  EffectsInv' /\ Undoable
  BY <1>1, <1>4 DEF EffectsInv, Kept
<1>5. action.anchor \in {"tool", "repair"} /\ Target # "" => Target \in PathTexts
  BY <1>1 DEF Names, Target
<1>6. CASE UNCHANGED vars
  BY <1>3, <1>6 DEF vars, loopVars, effectVars
<1>7. CASE TimePasses
  BY <1>3, <1>7 DEF TimePasses, loopVars
<1>8. CASE MaxStepsReached \/ BudgetExhausted \/ BeginStep \/ PassPolicy \/ PassVerify
  BY <1>3, <1>8 DEF MaxStepsReached, BudgetExhausted, BeginStep, PassPolicy, PassVerify, effectVars
<1>9. CASE DenyParse \/ DenyPolicy \/ DenyVerify \/ DenyCalibration \/ RejectHalt \/ AcceptHalt
  BY <1>3, <1>9 DEF DenyParse, DenyPolicy, DenyVerify, DenyCalibration, RejectHalt, Deny, AcceptHalt, effectVars
<1>10. CASE ExecuteRaises \/ ExecuteMemoryRecord \/ ExecuteBudget \/ ExecuteState
  BY <1>3, <1>10 DEF ExecuteRaises, Raise, ExecuteMemoryRecord, ExecuteBudget, ExecuteState, Executed, effectVars
<1>15. CASE ExecuteTool \/ ExecuteVerify
  BY <1>1, <1>4, <1>15, CommandsKeep DEF ExecuteTool, ExecuteVerify, Executed
<1>11. CASE DebitAction \/ SettleRaises \/ SettleFails \/ Settle
  BY <1>3, <1>11 DEF DebitAction, SettleRaises, SettleFails, Settle, Raise, effectVars
<1>12. CASE Propose
  <2>1. PICK r \in Replies : action' \in Emitted(r)
    BY <1>12 DEF Propose
  <2>2. UNCHANGED rollbackVars
    BY <1>12 DEF Propose, effectVars
  <2> QED
    BY <1>2, <2>1, <2>2, EmittedTargets DEF EffectsInv, Kept
<1>13. CASE ExecutePatchTool
  <2>1. UNCHANGED action /\ action.anchor = "tool"
    BY <1>13 DEF ExecutePatchTool, Executed, IsToolCall, Is
  <2>2. CASE Target = ""
    BY <1>3, <1>13, <2>1, <2>2 DEF ExecutePatchTool
  <2>3. CASE Target # ""
    <3>1. SnapshotFile(Target) /\ PatchTool(Target) /\ Target \in PathTexts
      BY <1>5, <1>13, <2>1, <2>3 DEF ExecutePatchTool
    <3> QED
      BY <1>1, <1>4, <2>1, <3>1, PatchIsUndoable
  <2> QED
    BY <2>2, <2>3
<1>14. CASE ExecuteRepair
  <2>1. UNCHANGED action /\ action.anchor = "repair"
    BY <1>14 DEF ExecuteRepair, Executed
  <2>2. \/ UNCHANGED rollbackVars
        \/ UNCHANGED files /\ Target # "" /\ SnapshotFile(Target)
        \/ Restore(Artifact) /\ UNCHANGED snapshots
    BY <1>14 DEF ExecuteRepair, rollbackVars
  <2>3. ASSUME UNCHANGED files, Target # "", SnapshotFile(Target)
        PROVE  Kept' /\ Undoable
    <3>1. Target \in PathTexts
      BY <1>5, <2>1, <2>3
    <3> QED
      BY <1>1, <2>3, <3>1, SnapshotIsGenuine DEF Kept, Undoable
  <2> QED
    BY <1>1, <1>2, <1>4, <2>1, <2>2, <2>3, RestoreIsUndoable
<1> QED
  BY <1>6, <1>7, <1>8, <1>9, <1>10, <1>11, <1>12, <1>13, <1>14, <1>15 DEF RuntimeNext, LoopStep

LEMMA EffectsInit ==
  ASSUME RuntimeInit
  PROVE  EffectsInv
<1>1. files \in [Files -> Contents \cup {Absent}]
  BY RollbackAssumption DEF RuntimeInit, RollbackInit
<1>2. snapshots \in [PathTexts -> Seq(Genuine)]
  BY DEF RuntimeInit, RollbackInit
<1>3. action.anchor = ""
  BY DEF RuntimeInit, Nothing, Scl
<1> QED
  BY <1>1, <1>2, <1>3 DEF EffectsInv, Names

\* Each snapshot on a stack holds what its file held, and each record names paths.
THEOREM EffectsInvHolds ==
  ASSUME OneWorkspace, TextFiles
  PROVE  RuntimeSpec => []EffectsInv
<1>1. RuntimeInit => EffectsInv
  BY EffectsInit
<1>2. EffectsInv /\ [RuntimeNext]_vars => EffectsInv'
  BY EffectsStep
<1> QED
  BY <1>1, <1>2, PTL DEF RuntimeSpec

\* In one workspace of text files, whatever commands have done to it before, every change
\* that no command makes can be undone by a rollback, or is a rollback to what the file
\* once held (_snapshot_before_mutation, rollback).
THEOREM MutationsCanAlwaysBeUndone ==
  ASSUME OneWorkspace, TextFiles
  PROVE  RuntimeSpec => MutationsCanBeUndone
<1>1. EffectsInv /\ [RuntimeNext]_vars => [Undoable]_rollbackVars
  BY EffectsStep
<1> QED
  BY <1>1, EffectsInvHolds, PTL DEF RuntimeSpec, MutationsCanBeUndone, Undoable

---------------------------------------------------------------------------
(* The memory: what is kept of a sequence of entries, and what is read from it. *)

Fewer == {ss \in Nat \X Nat : ss[1] < ss[2]}

\* A set of numbers that holds 0 and every successor is all of them.
LEMMA EverySuccessor ==
  ASSUME NEW S \in SUBSET Nat, 0 \in S, \A n \in S : n + 1 \in S
  PROVE  S = Nat
<1> DEFINE T == Nat \ S
<1> SUFFICES ASSUME T # {} PROVE FALSE
  OBVIOUS
<1>1. IsWellFoundedOn(Fewer, Nat)
  BY NatLessThanWellFounded, Zenon DEF OpToRel, Fewer
<1>2. T \subseteq Nat /\ T # {}
  OBVIOUS
<1> HIDE DEF T
<1>3. PICK x \in T : \A y \in T : ~ (<<y, x>> \in Fewer)
  BY <1>1, <1>2, WFMin
<1> USE DEF T
<1>4. x # 0 /\ x \in Nat /\ x - 1 \in Nat /\ x - 1 < x /\ (x - 1) + 1 = x
  BY <1>3
<1>5. <<x - 1, x>> \in Fewer
  BY <1>4 DEF Fewer
<1>6. x - 1 \notin T
  BY <1>3, <1>5
<1> QED
  BY <1>3, <1>4, <1>6

Nil == <<>>

LEMMA NilFacts ==
  /\ Len(Nil) = 0 /\ ToSet(Nil) = {} /\ \A E : Nil \in Seq(E)
  /\ \A E : \A m \in Seq(E) : Len(m) = 0 => m = Nil
BY DEF Nil, ToSet

\* What Append makes of a sequence, and how every longer one is made.
LEMMA AppendFacts ==
  ASSUME NEW E, NEW m \in Seq(E), NEW e \in E
  PROVE  /\ Append(m, e) \in Seq(E) /\ Append(m, e) # Nil
         /\ Len(m) \in Nat /\ Len(Append(m, e)) = Len(m) + 1
         /\ \A i \in 1..Len(m) : Append(m, e)[i] = m[i] /\ m[i] \in E
         /\ Append(m, e)[Len(m) + 1] = e
         /\ ToSet(m) \subseteq E /\ ToSet(Append(m, e)) = ToSet(m) \cup {e}
<1>1. /\ Append(m, e) \in Seq(E) /\ Len(m) \in Nat /\ Len(Append(m, e)) = Len(m) + 1
      /\ \A i \in 1..Len(m) : Append(m, e)[i] = m[i] /\ m[i] \in E
      /\ Append(m, e)[Len(m) + 1] = e
      /\ DOMAIN m = 1..Len(m) /\ DOMAIN Append(m, e) = 1..Len(m) + 1
  OBVIOUS
<1>2. ToSet(m) \subseteq E /\ ToSet(Append(m, e)) = ToSet(m) \cup {e}
  BY <1>1 DEF ToSet
<1>3. Append(m, e) # Nil
  BY <1>1, NilFacts
<1> QED
  BY <1>1, <1>2, <1>3

AllBut(m, n) == [i \in 1..n |-> m[i]]

LEMMA LastAppended ==
  ASSUME NEW E, NEW n \in Nat, NEW m \in Seq(E), Len(m) = n + 1
  PROVE  /\ AllBut(m, n) \in Seq(E) /\ Len(AllBut(m, n)) = n
         /\ m[n + 1] \in E /\ m = Append(AllBut(m, n), m[n + 1])
<1>1. \A i \in 1..n + 1 : m[i] \in E
  OBVIOUS
<1>2. AllBut(m, n) \in Seq(E) /\ Len(AllBut(m, n)) = n
  BY <1>1 DEF AllBut
<1>3. m = Append(AllBut(m, n), m[n + 1])
  BY <1>1, <1>2 DEF AllBut
<1> QED
  BY <1>1, <1>2, <1>3

\* Induction over sequences: a set of them that holds the empty one, and with each
\* every longer one.
LEMMA EverySequence ==
  ASSUME NEW E, NEW Q \in SUBSET Seq(E), Nil \in Q,
         \A m \in Q : \A e \in E : Append(m, e) \in Q
  PROVE  Q = Seq(E)
<1> DEFINE S == {n \in Nat : \A m \in Seq(E) : Len(m) = n => m \in Q}
<1>1. 0 \in S
  BY NilFacts
<1>2. ASSUME NEW n \in S
      PROVE  n + 1 \in S
  <2>0. n \in Nat /\ \A m \in Seq(E) : Len(m) = n => m \in Q
    OBVIOUS
  <2> HIDE DEF S
  <2>1. ASSUME NEW m \in Seq(E), Len(m) = n + 1
        PROVE  m \in Q
    <3>1. n \in Nat /\ m \in Seq(E) /\ Len(m) = n + 1
      BY <2>0, <2>1
    <3>2. /\ AllBut(m, n) \in Seq(E) /\ Len(AllBut(m, n)) = n
          /\ m[n + 1] \in E /\ m = Append(AllBut(m, n), m[n + 1])
      BY <3>1, LastAppended
    <3>3. AllBut(m, n) \in Q
      BY <2>0, <3>2
    <3> QED
      BY <3>2, <3>3
  <2> QED
    BY <2>0, <2>1 DEF S
<1> HIDE DEF S
<1>3. S = Nat
  BY <1>1, <1>2, EverySuccessor DEF S
<1>4. \A m \in Seq(E) : Len(m) \in Nat
  OBVIOUS
<1> QED
  BY <1>3, <1>4 DEF S

\* What is kept of the first n, g telling for fewer.
Keep(g, m, S, n) ==
  IF n = 0 THEN <<>> ELSE IF m[n] \in S THEN Append(g[n - 1], m[n]) ELSE g[n - 1]

Keeps(g, m, S, n) == g = [i \in 0..n |-> Keep(g, m, S, i)]

LEMMA KeepsExist ==
  ASSUME NEW m, NEW S, NEW k \in Nat
  PROVE  \E g : Keeps(g, m, S, k)
<1> DEFINE N == {n \in Nat : \E g : Keeps(g, m, S, n)}
<1>1. 0 \in N
  <2> DEFINE g == [n \in 0..0 |-> <<>>]
  <2>1. \A n \in 0..0 : Keep(g, m, S, n) = <<>>
    BY DEF Keep
  <2>2. g = [n \in 0..0 |-> Keep(g, m, S, n)]
    BY <2>1
  <2> HIDE DEF g
  <2> QED
    BY <2>2 DEF Keeps
<1>2. ASSUME NEW n \in N
      PROVE  n + 1 \in N
  <2>1. PICK g : g = [i \in 0..n |-> Keep(g, m, S, i)]
    BY DEF Keeps
  <2> DEFINE last == Keep(g, m, S, n + 1)
             h == [i \in 0..(n + 1) |-> IF i = n + 1 THEN last ELSE g[i]]
  <2>2. n \in Nat
    OBVIOUS
  <2>3. \A i \in 0..n : i \in 0..(n + 1) /\ i # n + 1
    BY <2>2
  <2>4. \A i \in 0..(n + 1) : i # 0 => i - 1 \in 0..n
    BY <2>2
  <2>5. \A i \in 0..(n + 1) : i # n + 1 => i \in 0..n
    BY <2>2
  <2> HIDE DEF last
  <2>6. \A i \in 0..n : h[i] = g[i]
    BY <2>3
  <2> HIDE DEF h
  <2>7. \A i \in 0..(n + 1) : Keep(h, m, S, i) = Keep(g, m, S, i)
    BY <2>4, <2>6 DEF Keep
  <2>8. \A i \in 0..n : g[i] = Keep(g, m, S, i)
    BY <2>1
  <2>9. h = [i \in 0..(n + 1) |-> Keep(h, m, S, i)]
    BY <2>5, <2>7, <2>8 DEF h, last
  <2> QED
    BY <2>2, <2>9 DEF Keeps
<1> HIDE DEF N
<1>3. N = Nat
  BY <1>1, <1>2, EverySuccessor DEF N
<1> QED
  BY <1>3 DEF N

LEMMA ThoseKeeps ==
  ASSUME NEW m, NEW S, Len(m) \in Nat
  PROVE  \E g : Keeps(g, m, S, Len(m)) /\ Those(m, S) = g[Len(m)]
<1> DEFINE g == CHOOSE g : g = [n \in 0..Len(m) |-> Keep(g, m, S, n)]
<1>1. Keeps(g, m, S, Len(m))
  BY KeepsExist DEF Keeps
<1>2. Those(m, S) = g[Len(m)]
  BY DEF Those, Keep
<1> QED
  BY <1>1, <1>2

LEMMA ThoseOfNil == ASSUME NEW S PROVE Those(Nil, S) = Nil
<1>1. PICK g : Keeps(g, Nil, S, 0) /\ Those(Nil, S) = g[0]
  BY ThoseKeeps, NilFacts
<1>2. g[0] = Keep(g, Nil, S, 0)
  BY <1>1 DEF Keeps
<1> QED
  BY <1>1, <1>2 DEF Keep, Nil

\* The last entry is kept or not; what is kept of the others does not depend on it.
LEMMA ThoseOfAppend ==
  ASSUME NEW E, NEW m \in Seq(E), NEW e \in E, NEW S
  PROVE  Those(Append(m, e), S) = IF e \in S THEN Append(Those(m, S), e) ELSE Those(m, S)
<1> DEFINE longer == Append(m, e)
           n == Len(m)
<1>1. /\ n \in Nat /\ Len(longer) = n + 1 /\ longer[n + 1] = e
      /\ \A i \in 1..n : longer[i] = m[i]
  BY AppendFacts
<1> HIDE DEF longer
<1>2. PICK g : Keeps(g, m, S, n) /\ Those(m, S) = g[n]
  BY <1>1, ThoseKeeps
<1>3. PICK h : Keeps(h, longer, S, n + 1) /\ Those(longer, S) = h[n + 1]
  BY <1>1, ThoseKeeps
<1> HIDE DEF n
<1>4. \A i \in 0..n : g[i] = Keep(g, m, S, i)
  BY <1>2 DEF Keeps
<1>5. \A i \in 0..n + 1 : h[i] = Keep(h, longer, S, i)
  BY <1>3 DEF Keeps
<1> DEFINE N == {i \in Nat : i <= n => h[i] = g[i]}
<1>6. 0 \in N
  BY <1>1, <1>4, <1>5 DEF Keep
<1>7. ASSUME NEW i \in N
      PROVE  i + 1 \in N
  <2> SUFFICES ASSUME i + 1 <= n PROVE h[i + 1] = g[i + 1]
    OBVIOUS
  <2>1. i + 1 \in 0..n /\ i + 1 \in 0..n + 1 /\ i + 1 \in 1..n /\ (i + 1) - 1 = i /\ i + 1 # 0 /\ i <= n
    BY <1>1
  <2>2. h[i] = g[i] /\ longer[i + 1] = m[i + 1]
    BY <1>1, <2>1
  <2>3. h[i + 1] = Keep(h, longer, S, i + 1) /\ g[i + 1] = Keep(g, m, S, i + 1)
    BY <1>4, <1>5, <2>1
  <2> QED
    BY <2>1, <2>2, <2>3 DEF Keep
<1> HIDE DEF N
<1>8. N = Nat
  BY <1>6, <1>7, EverySuccessor DEF N
<1>9. h[n] = g[n]
  BY <1>1, <1>8 DEF N
<1>10. h[n + 1] = Keep(h, longer, S, n + 1) /\ (n + 1) - 1 = n /\ n + 1 # 0
  BY <1>1, <1>5
<1> QED
  BY <1>1, <1>2, <1>3, <1>9, <1>10 DEF Keep, longer

\* What is kept: the entries of m that are in S.
LEMMA ThoseAreThose ==
  ASSUME NEW E, NEW m \in Seq(E), NEW S
  PROVE  Those(m, S) \in Seq(E) /\ ToSet(Those(m, S)) = ToSet(m) \cap S
<1> DEFINE Q == {s \in Seq(E) : Those(s, S) \in Seq(E) /\ ToSet(Those(s, S)) = ToSet(s) \cap S}
<1>1. Nil \in Q
  BY ThoseOfNil, NilFacts
<1>2. ASSUME NEW s \in Q, NEW e \in E
      PROVE  Append(s, e) \in Q
  <2>1. Append(s, e) \in Seq(E) /\ ToSet(Append(s, e)) = ToSet(s) \cup {e}
    BY AppendFacts
  <2>2. Those(Append(s, e), S) = IF e \in S THEN Append(Those(s, S), e) ELSE Those(s, S)
    BY ThoseOfAppend
  <2>3. /\ Append(Those(s, S), e) \in Seq(E)
        /\ ToSet(Append(Those(s, S), e)) = (ToSet(s) \cap S) \cup {e}
    BY AppendFacts
  <2> QED
    BY <2>1, <2>2, <2>3
<1> HIDE DEF Q
<1>3. Q = Seq(E)
  BY <1>1, <1>2, EverySequence DEF Q
<1> QED
  BY <1>3 DEF Q

LEMMA ThoseOfAll ==
  ASSUME NEW E, NEW m \in Seq(E), NEW S, ToSet(m) \subseteq S
  PROVE  Those(m, S) = m
<1> DEFINE Q == {s \in Seq(E) : ToSet(s) \subseteq S => Those(s, S) = s}
<1>1. Nil \in Q
  BY ThoseOfNil, NilFacts
<1>2. ASSUME NEW s \in Q, NEW e \in E
      PROVE  Append(s, e) \in Q
  <2>1. Append(s, e) \in Seq(E) /\ ToSet(Append(s, e)) = ToSet(s) \cup {e}
    BY AppendFacts
  <2>2. Those(Append(s, e), S) = IF e \in S THEN Append(Those(s, S), e) ELSE Those(s, S)
    BY ThoseOfAppend
  <2> QED
    BY <2>1, <2>2
<1> HIDE DEF Q
<1>3. Q = Seq(E)
  BY <1>1, <1>2, EverySequence DEF Q
<1> QED
  BY <1>3 DEF Q

LEMMA ThoseOfThose ==
  ASSUME NEW E, NEW m \in Seq(E), NEW S, NEW T
  PROVE  Those(Those(m, S), T) = Those(m, S \cap T)
<1> DEFINE Q == {s \in Seq(E) : Those(Those(s, S), T) = Those(s, S \cap T)}
<1>1. Nil \in Q
  BY ThoseOfNil, NilFacts
<1>2. ASSUME NEW s \in Q, NEW e \in E
      PROVE  Append(s, e) \in Q
  <2>1. Append(s, e) \in Seq(E) /\ Those(s, S) \in Seq(E)
    BY AppendFacts, ThoseAreThose
  <2>2. Those(Append(s, e), S) = IF e \in S THEN Append(Those(s, S), e) ELSE Those(s, S)
    BY ThoseOfAppend
  <2>3. Those(Append(Those(s, S), e), T)
          = IF e \in T THEN Append(Those(Those(s, S), T), e) ELSE Those(Those(s, S), T)
    <3>1. \A kept \in Seq(E) :
            Those(Append(kept, e), T) = IF e \in T THEN Append(Those(kept, T), e) ELSE Those(kept, T)
      BY ThoseOfAppend
    <3> QED
      BY <2>1, <3>1, Zenon
  <2>4. Those(Append(s, e), S \cap T) = IF e \in S \cap T THEN Append(Those(s, S \cap T), e) ELSE Those(s, S \cap T)
    BY ThoseOfAppend
  <2>5. Those(Those(s, S), T) = Those(s, S \cap T)
    OBVIOUS
  <2> HIDE DEF Q
  <2>6. Those(Those(Append(s, e), S), T) = Those(Append(s, e), S \cap T)
    <3>1. CASE e \in S /\ e \in T
      BY <2>2, <2>3, <2>4, <2>5, <3>1, Zenon
    <3>2. CASE e \in S /\ e \notin T
      BY <2>2, <2>3, <2>4, <2>5, <3>2, Zenon
    <3>3. CASE e \notin S
      BY <2>2, <2>4, <2>5, <3>3, Zenon
    <3> QED
      BY <3>1, <3>2, <3>3
  <2> QED
    BY <2>1, <2>6 DEF Q
<1> HIDE DEF Q
<1>3. Q = Seq(E)
  BY <1>1, <1>2, EverySequence DEF Q
<1> QED
  BY <1>3 DEF Q

\* Only which of its own entries are asked for matters.
LEMMA SameThose ==
  ASSUME NEW E, NEW m \in Seq(E), NEW S, NEW T, ToSet(m) \cap S = ToSet(m) \cap T
  PROVE  Those(m, S) = Those(m, T)
<1>1. Those(m, ToSet(m)) = m
  BY ThoseOfAll
<1>2. Those(m, S) = Those(m, ToSet(m) \cap S) /\ Those(m, T) = Those(m, ToSet(m) \cap T)
  BY <1>1, ThoseOfThose
<1> QED
  BY <1>2

\* The entry a write makes, and those it leaves.
Entry(m, key, value, ttl, tier) ==
  [key |-> key, value |-> value, ttl |-> ttl,
   tier |-> IF Under(m, key) = {} THEN tier ELSE (CHOOSE e \in Under(m, key) : TRUE).tier]

Others(m, key) == Those(m, ToSet(m) \ Under(m, key))

LEMMA WriteParts ==
  ASSUME NEW E, NEW m \in Seq(E), NEW key, NEW value, NEW ttl, NEW tier
  PROVE  /\ Write(m, key, value, ttl, tier) = Append(Others(m, key), Entry(m, key, value, ttl, tier))
         /\ Entry(m, key, value, ttl, tier).key = key /\ Entry(m, key, value, ttl, tier).value = value
         /\ Others(m, key) \in Seq(E)
         /\ ToSet(Others(m, key)) = {e \in ToSet(m) : e.key # key}
<1>1. Write(m, key, value, ttl, tier) = Append(Others(m, key), Entry(m, key, value, ttl, tier))
  BY DEF Write, Others, Entry
<1>2. Others(m, key) \in Seq(E) /\ ToSet(Others(m, key)) = ToSet(m) \cap (ToSet(m) \ Under(m, key))
  BY ThoseAreThose DEF Others
<1>3. Entry(m, key, value, ttl, tier).key = key /\ Entry(m, key, value, ttl, tier).value = value
  BY DEF Entry
<1> QED
  BY <1>1, <1>2, <1>3 DEF Under

\* A second write of the same finds its own entry and puts it where it was.
LEMMA WriteAgain ==
  ASSUME NEW E, NEW m \in Seq(E), NEW key, NEW value, NEW ttl, NEW tier
  PROVE  LET once == Write(m, key, value, ttl, tier)
         IN  Write(once, key, value, ttl, tier) = once
<1> DEFINE e == Entry(m, key, value, ttl, tier)
           once == Write(m, key, value, ttl, tier)
           F == E \cup {e}
<1>1. /\ once = Append(Others(m, key), e) /\ e.key = key
      /\ Others(m, key) \in Seq(E) /\ ToSet(Others(m, key)) = {x \in ToSet(m) : x.key # key}
  <2> HIDE DEF F
  <2>1. Write(m, key, value, ttl, tier) = Append(Others(m, key), Entry(m, key, value, ttl, tier))
    BY WriteParts
  <2>2. Entry(m, key, value, ttl, tier).key = key
    BY WriteParts
  <2>3. Others(m, key) \in Seq(E) /\ ToSet(Others(m, key)) = {x \in ToSet(m) : x.key # key}
    BY WriteParts
  <2> QED
    BY <2>1, <2>2, <2>3
<1>2. e = [key |-> key, value |-> value, ttl |-> ttl, tier |-> e.tier]
  BY DEF Entry
<1> HIDE DEF e, once
<1>3. Others(m, key) \in Seq(F) /\ e \in F
  BY <1>1
<1> HIDE DEF F
<1>4. once \in Seq(F) /\ ToSet(once) = ToSet(Others(m, key)) \cup {e}
  BY <1>1, <1>3, AppendFacts
<1>5. Under(once, key) = {e}
  BY <1>1, <1>4 DEF Under
<1>6. Entry(once, key, value, ttl, tier) = e
  <2>1. (CHOOSE x \in Under(once, key) : TRUE) = e
    BY <1>5
  <2> QED
    BY <1>2, <1>5, <2>1 DEF Entry
<1>7. Others(once, key) = Others(m, key)
  <2> DEFINE S == ToSet(once) \ Under(once, key)
  <2>1. e \notin S /\ ToSet(Others(m, key)) \subseteq S
    BY <1>1, <1>4, <1>5
  <2> HIDE DEF S
  <2>2. Those(once, S) = Those(Others(m, key), S)
    BY <1>1, <1>3, <2>1, ThoseOfAppend
  <2>3. Those(Others(m, key), S) = Others(m, key)
    BY <1>3, <2>1, ThoseOfAll
  <2> QED
    BY <2>2, <2>3 DEF S, Others
<1>8. Write(once, key, value, ttl, tier) = Append(Others(once, key), Entry(once, key, value, ttl, tier))
  BY <1>4, WriteParts
<1> QED
  BY <1>1, <1>6, <1>7, <1>8 DEF once

LEMMA JoinFacts ==
  ASSUME NEW E, NEW s \in Seq(E), NEW t \in Seq(E)
  PROVE  s \o t \in Seq(E) /\ ToSet(s \o t) = ToSet(s) \cup ToSet(t)
<1>1. Len(s) \in Nat /\ Len(t) \in Nat /\ DOMAIN s = 1..Len(s) /\ DOMAIN t = 1..Len(t)
  OBVIOUS
<1>2. s \o t \in Seq(E) /\ Len(s \o t) = Len(s) + Len(t)
  BY <1>1
<1>3. /\ \A i \in 1..Len(s) : (s \o t)[i] = s[i]
      /\ \A j \in 1..Len(t) : (s \o t)[Len(s) + j] = t[j]
      /\ DOMAIN (s \o t) = 1..Len(s) + Len(t)
  BY <1>1
<1> DEFINE u == s \o t
<1> HIDE DEF u
<1>4. ToSet(u) \subseteq ToSet(s) \cup ToSet(t)
  <2>1. ASSUME NEW i \in DOMAIN u
        PROVE  u[i] \in ToSet(s) \cup ToSet(t)
    <3>1. CASE i \in 1..Len(s)
      BY <1>1, <1>3, <3>1 DEF u, ToSet
    <3>2. CASE i \notin 1..Len(s)
      <4>1. i - Len(s) \in 1..Len(t) /\ Len(s) + (i - Len(s)) = i
        BY <1>1, <1>3, <3>2 DEF u
      <4>2. u[i] = t[i - Len(s)]
        BY <1>3, <4>1 DEF u
      <4> QED
        BY <1>1, <4>1, <4>2 DEF ToSet
    <3> QED
      BY <3>1, <3>2
  <2> QED
    BY <2>1 DEF ToSet
<1>5. ToSet(s) \subseteq ToSet(u)
  BY <1>1, <1>3 DEF u, ToSet
<1>6. ToSet(t) \subseteq ToSet(u)
  <2>1. ASSUME NEW j \in 1..Len(t)
        PROVE  t[j] \in ToSet(u)
    <3>1. Len(s) + j \in DOMAIN u /\ u[Len(s) + j] = t[j]
      BY <1>1, <1>3 DEF u
    <3> QED
      BY <3>1 DEF ToSet
  <2> QED
    BY <1>1, <2>1 DEF ToSet
<1> QED
  BY <1>1, <1>2, <1>4, <1>5, <1>6 DEF u

\* read answers the entries that match, whichever key they have.
LEMMA ReadFinds ==
  ASSUME NEW E, NEW m \in Seq(E), NEW query
  PROVE  /\ Read(m, query) \in Seq(E) /\ ToSet(Read(m, query)) = Hits(m, query)
         /\ Hits(m, query) \subseteq ToSet(m)
<1> DEFINE first == Those(m, Hits(m, query) \cap Under(m, query))
           then == Those(m, Hits(m, query) \ Under(m, query))
<1>1. /\ first \in Seq(E) /\ ToSet(first) = ToSet(m) \cap (Hits(m, query) \cap Under(m, query))
      /\ then \in Seq(E) /\ ToSet(then) = ToSet(m) \cap (Hits(m, query) \ Under(m, query))
  BY ThoseAreThose
<1>2. Read(m, query) = first \o then
  BY DEF Read
<1> HIDE DEF first, then
<1>3. first \o then \in Seq(E) /\ ToSet(first \o then) = ToSet(first) \cup ToSet(then)
  BY <1>1, JoinFacts
<1>4. Hits(m, query) \subseteq ToSet(m)
  BY DEF Hits
<1> QED
  BY <1>1, <1>2, <1>3, <1>4

\* Where neither the old nor the new entry of a key matches, a write is not seen.
LEMMA ReadAfterWrite ==
  ASSUME NEW E, NEW m \in Seq(E), NEW key, NEW value, NEW ttl, NEW tier, NEW query,
         \A e \in Under(m, key) : ~Matches(query, e),
         ~Matches(query, Entry(m, key, value, ttl, tier))
  PROVE  Read(Write(m, key, value, ttl, tier), query) = Read(m, query)
<1> DEFINE e == Entry(m, key, value, ttl, tier)
           new == Write(m, key, value, ttl, tier)
           F == E \cup {e}
<1>1. /\ new = Append(Others(m, key), e) /\ e.key = key
      /\ Others(m, key) \in Seq(E) /\ ToSet(Others(m, key)) = {x \in ToSet(m) : x.key # key}
  BY WriteParts
<1> HIDE DEF e, new
<1>2. Others(m, key) \in Seq(F) /\ e \in F /\ m \in Seq(F)
  BY <1>1
<1> HIDE DEF F
<1>3. ToSet(new) = ToSet(Others(m, key)) \cup {e}
  BY <1>1, <1>2, AppendFacts
<1>4. ~Matches(query, e)
  BY DEF e
<1>5. Hits(new, query) = Hits(m, query) /\ e \notin Hits(m, query)
      /\ \A x \in Hits(m, query) : x \in ToSet(m) /\ x.key # key
  BY <1>1, <1>3, <1>4 DEF Hits, Under
<1>6. ASSUME NEW S, S \subseteq Hits(m, query)
      PROVE  Those(new, S) = Those(m, S)
  <2>1. Those(new, S) = Those(Others(m, key), S)
    BY <1>1, <1>2, <1>5, <1>6, ThoseOfAppend
  <2>2. Those(Others(m, key), S) = Those(m, (ToSet(m) \ Under(m, key)) \cap S)
    BY ThoseOfThose DEF Others
  <2>3. (ToSet(m) \ Under(m, key)) \cap S = S
    BY <1>5, <1>6 DEF Under
  <2> QED
    BY <2>1, <2>2, <2>3
<1>7. /\ Hits(new, query) \cap Under(new, query) = Hits(m, query) \cap Under(m, query)
      /\ Hits(new, query) \ Under(new, query) = Hits(m, query) \ Under(m, query)
  <2>1. \A x \in Hits(m, query) : x \in ToSet(new) /\ x \in ToSet(m)
    BY <1>5 DEF Hits
  <2> QED
    BY <1>5, <2>1 DEF Under
<1> QED
  BY <1>6, <1>7 DEF Read, new

\* The words of the first n entries, g telling for fewer.
Bar == <<"|">>

LEMMA BarFacts == \E S : Bar \in Seq(S)
<1>1. \A x : <<x>> \in Seq({x})
  OBVIOUS
<1> QED
  BY <1>1, Zenon DEF Bar

Join(g, s, n) == IF n = 1 THEN s[1].value ELSE g[n - 1] \o Bar \o s[n].value

Joins(g, s, n) == g = [i \in 1..n |-> Join(g, s, i)]

LEMMA JoinsExist ==
  ASSUME NEW s, NEW k \in Nat
  PROVE  \E g : Joins(g, s, k)
<1> DEFINE N == {n \in Nat : \E g : Joins(g, s, n)}
<1>1. 0 \in N
  <2> DEFINE g == [n \in 1..0 |-> <<>>]
  <2>1. g = [n \in 1..0 |-> Join(g, s, n)]
    OBVIOUS
  <2> HIDE DEF g
  <2> QED
    BY <2>1 DEF Joins
<1>2. ASSUME NEW n \in N
      PROVE  n + 1 \in N
  <2>1. PICK g : g = [i \in 1..n |-> Join(g, s, i)]
    BY DEF Joins
  <2> DEFINE last == Join(g, s, n + 1)
             h == [i \in 1..(n + 1) |-> IF i = n + 1 THEN last ELSE g[i]]
  <2>2. n \in Nat
    OBVIOUS
  <2>3. \A i \in 1..n : i \in 1..(n + 1) /\ i # n + 1
    BY <2>2
  <2>4. \A i \in 1..(n + 1) : i # 1 => i - 1 \in 1..n
    BY <2>2
  <2>5. \A i \in 1..(n + 1) : i # n + 1 => i \in 1..n
    BY <2>2
  <2> HIDE DEF last
  <2>6. \A i \in 1..n : h[i] = g[i]
    BY <2>3
  <2> HIDE DEF h
  <2>7. \A i \in 1..(n + 1) : Join(h, s, i) = Join(g, s, i)
    BY <2>4, <2>6 DEF Join
  <2>8. \A i \in 1..n : g[i] = Join(g, s, i)
    BY <2>1
  <2>9. h = [i \in 1..(n + 1) |-> Join(h, s, i)]
    BY <2>5, <2>7, <2>8 DEF h, last
  <2> QED
    BY <2>2, <2>9 DEF Joins
<1> HIDE DEF N
<1>3. N = Nat
  BY <1>1, <1>2, EverySuccessor DEF N
<1> QED
  BY <1>3 DEF N

LEMMA JoinedJoins ==
  ASSUME NEW s, Len(s) \in Nat
  PROVE  \E g : Joins(g, s, Len(s)) /\ Joined(s) = g[Len(s)]
<1> DEFINE g == CHOOSE g : g = [n \in 1..Len(s) |-> Join(g, s, n)]
<1>1. Joins(g, s, Len(s))
  BY JoinsExist DEF Joins
<1>2. Joined(s) = g[Len(s)]
  BY DEF Joined, Join, Bar
<1> QED
  BY <1>1, <1>2

Worded(s) == \A e \in ToSet(s) : Listed(e.value)

LEMMA JoinLists ==
  ASSUME NEW s, NEW t, Listed(s), Listed(t)
  PROVE  Listed(s \o t) /\ ToSet(s \o t) = ToSet(s) \cup ToSet(t)
<1>1. PICK E : s \in Seq(E)
  BY DEF Listed
<1>2. PICK F : t \in Seq(F)
  BY DEF Listed
<1>3. s \in Seq(E \cup F) /\ t \in Seq(E \cup F)
  BY <1>1, <1>2
<1>4. s \o t \in Seq(E \cup F) /\ ToSet(s \o t) = ToSet(s) \cup ToSet(t)
  BY <1>3, JoinFacts
<1> QED
  BY <1>4 DEF Listed

\* What is joined holds every word of every entry.
LEMMA JoinedHoldsAll ==
  ASSUME NEW E, NEW s \in Seq(E), s # Nil, Worded(s)
  PROVE  Listed(Joined(s)) /\ \A e \in ToSet(s) : ToSet(e.value) \subseteq ToSet(Joined(s))
<1> DEFINE n == Len(s)
<1>1. n \in Nat /\ n # 0 /\ DOMAIN s = 1..n
  BY NilFacts
<1>2. \A i \in 1..n : Listed(s[i].value)
  BY <1>1 DEF Worded, ToSet
<1>3. PICK g : Joins(g, s, n) /\ Joined(s) = g[n]
  BY <1>1, JoinedJoins
<1> HIDE DEF n
<1>4. \A i \in 1..n : g[i] = Join(g, s, i)
  BY <1>3 DEF Joins
<1> DEFINE Fine(k) == Listed(g[k]) /\ \A i \in 1..k : ToSet(s[i].value) \subseteq ToSet(g[k])
           N == {k \in Nat : k # 0 /\ k <= n => Fine(k)}
<1>5. 0 \in N
  OBVIOUS
<1>6. ASSUME NEW k \in N
      PROVE  k + 1 \in N
  <2> SUFFICES ASSUME k + 1 <= n PROVE Fine(k + 1)
    OBVIOUS
  <2>1. k \in Nat /\ k + 1 \in 1..n /\ (k + 1) - 1 = k /\ (k # 0 => Fine(k))
    BY <1>1
  <2>2. g[k + 1] = Join(g, s, k + 1)
    BY <1>4, <2>1
  <2> HIDE DEF N
  <2>3. CASE k = 0
    <3>1. k + 1 = 1 /\ 1 \in 1..n
      BY <2>1, <2>3
    <3>2. g[1] = s[1].value
      BY <2>2, <3>1 DEF Join
    <3>3. \A i \in 1..1 : i = 1
      OBVIOUS
    <3> QED
      BY <1>2, <3>1, <3>2, <3>3
  <2>4. CASE k # 0
    <3>0. k + 1 # 1 /\ g[(k + 1) - 1] = g[k]
      BY <2>1, <2>4
    <3>1. g[k + 1] = g[k] \o Bar \o s[k + 1].value
      BY <2>2, <3>0, Zenon DEF Join
    <3>2. Listed(g[k]) /\ Listed(s[k + 1].value)
      BY <1>2, <2>1, <2>4
    <3>3. Listed(Bar)
      BY BarFacts DEF Listed
    <3>4. Listed(g[k] \o Bar) /\ ToSet(g[k] \o Bar) = ToSet(g[k]) \cup ToSet(Bar)
      BY <3>2, <3>3, JoinLists
    <3>5. /\ Listed((g[k] \o Bar) \o s[k + 1].value)
          /\ ToSet((g[k] \o Bar) \o s[k + 1].value) = ToSet(g[k] \o Bar) \cup ToSet(s[k + 1].value)
      BY <3>2, <3>4, JoinLists
    <3>6. Listed(g[k + 1]) /\ ToSet(g[k + 1]) = (ToSet(g[k]) \cup ToSet(Bar)) \cup ToSet(s[k + 1].value)
      BY <3>1, <3>4, <3>5, Zenon
    <3>7. \A i \in 1..k + 1 : i \in 1..k \/ i = k + 1
      BY <2>1
    <3> QED
      BY <2>1, <2>4, <3>6, <3>7
  <2> QED
    BY <2>3, <2>4
<1> HIDE DEF N, Fine
<1>7. N = Nat
  BY <1>5, <1>6, EverySuccessor DEF N
<1>8. Fine(n)
  BY <1>1, <1>7 DEF N
<1> QED
  BY <1>1, <1>3, <1>8 DEF Fine, ToSet

\* A lesson is no longer than asked for, and was cut if it is as long.
LEMMA CompressedFits ==
  ASSUME NEW entries, Listed(Joined(entries)), NEW maxTokens \in Nat \ {0}
  PROVE  LET text == Compressed(entries, maxTokens) IN
         /\ Listed(text) /\ Len(text) \in Nat /\ Len(text) <= maxTokens
         /\ Len(text) < maxTokens => text = Joined(entries)
<1> DEFINE words == Joined(entries)
<1>1. PICK A : words \in Seq(A)
  BY DEF Listed
<1>2. Compressed(entries, maxTokens) = IF Len(words) > maxTokens THEN SubSeq(words, 1, maxTokens) ELSE words
  BY DEF Compressed
<1> HIDE DEF words
<1>3. Len(words) \in Nat
  BY <1>1
<1>4. CASE Len(words) > maxTokens
  <2>1. SubSeq(words, 1, maxTokens) \in Seq(A) /\ Len(SubSeq(words, 1, maxTokens)) = maxTokens
    BY <1>1, <1>3, <1>4
  <2>2. Listed(SubSeq(words, 1, maxTokens))
    BY <2>1 DEF Listed
  <2>3. Compressed(entries, maxTokens) = SubSeq(words, 1, maxTokens)
    BY <1>2, <1>4
  <2> QED
    BY <2>1, <2>2, <2>3
<1>5. CASE ~(Len(words) > maxTokens)
  BY <1>1, <1>2, <1>3, <1>5 DEF Listed, words
<1> QED
  BY <1>4, <1>5

---------------------------------------------------------------------------
(* One @memory record, applied once and again. *)

Stored(m) == Listed(m) /\ Worded(m)

\* Where an entry comes from: the seed, a write of it, or a lesson under its key that fits.
Founded(e) ==
  \/ e \in ToSet(Seed)
  \/ \E a \in MemoryActions :
       /\ a.relation = "write" /\ KeyOf(a.fields) = e.key /\ ValueOf(a.fields) = e.value
  \/ \E a \in MemoryActions :
       /\ a.relation = "compress" /\ TargetOf(a.fields) = e.key /\ Len(e.value) <= MaxTokensOf(a.fields)

LEMMA RecordFacts ==
  ASSUME NEW a \in MemoryActions
  PROVE  Listed(ValueOf(a.fields)) /\ MaxTokensOf(a.fields) \in Nat \ {0}
BY MemoryAssumption DEF ValueOf, MaxTokensOf, Listed

LEMMA SeedIsStored == Stored(Seed)
BY MemoryAssumption DEF Stored, Worded, Listed

LEMMA WriteStores ==
  ASSUME NEW m, Stored(m), NEW key, NEW value, Listed(value), NEW ttl, NEW tier
  PROVE  /\ Stored(Write(m, key, value, ttl, tier))
         /\ \A e \in ToSet(Write(m, key, value, ttl, tier)) : e \in ToSet(m) \/ (e.key = key /\ e.value = value)
<1>1. PICK E : m \in Seq(E)
  BY DEF Stored, Listed
<1> DEFINE e == Entry(m, key, value, ttl, tier)
           F == E \cup {e}
<1>2. Write(m, key, value, ttl, tier) = Append(Others(m, key), e) /\ e.key = key /\ e.value = value
  BY <1>1, WriteParts
<1>3. Others(m, key) \in Seq(E) /\ ToSet(Others(m, key)) = {x \in ToSet(m) : x.key # key}
  BY <1>1, WriteParts
<1> HIDE DEF e
<1>4. Others(m, key) \in Seq(F) /\ e \in F
  BY <1>3
<1> HIDE DEF F
<1>5. /\ Append(Others(m, key), e) \in Seq(F)
      /\ ToSet(Append(Others(m, key), e)) = ToSet(Others(m, key)) \cup {e}
  BY <1>4, AppendFacts
<1>6. Listed(Write(m, key, value, ttl, tier))
  BY <1>2, <1>5 DEF Listed
<1>7. \A x \in ToSet(Write(m, key, value, ttl, tier)) : x \in ToSet(m) \/ (x.key = key /\ x.value = value)
  BY <1>2, <1>3, <1>5
<1>8. Worded(Write(m, key, value, ttl, tier))
  BY <1>7 DEF Worded, Stored
<1> QED
  BY <1>6, <1>7, <1>8 DEF Stored

\* What compress reads, and what it makes of it.
LEMMA LessonFacts ==
  ASSUME NEW m, Stored(m), NEW source, Read(m, source) # <<>>, NEW maxTokens \in Nat \ {0}
  PROVE  LET text == Compressed(Read(m, source), maxTokens) IN
         /\ Listed(text) /\ Len(text) <= maxTokens
         /\ Len(text) < maxTokens =>
              \A e \in ToSet(m) : Matches(source, e) => ToSet(e.value) \subseteq ToSet(text)
<1>1. PICK E : m \in Seq(E)
  BY DEF Stored, Listed
<1> DEFINE read == Read(m, source)
<1>2. read \in Seq(E) /\ ToSet(read) = Hits(m, source) /\ Hits(m, source) \subseteq ToSet(m)
  BY <1>1, ReadFinds
<1>3. read # Nil
  BY DEF Nil
<1> HIDE DEF read
<1>4. Worded(read)
  BY <1>2 DEF Worded, Stored
<1>5. Listed(Joined(read)) /\ \A e \in ToSet(read) : ToSet(e.value) \subseteq ToSet(Joined(read))
  BY <1>2, <1>3, <1>4, JoinedHoldsAll
<1> DEFINE text == Compressed(read, maxTokens)
<1>6. Listed(text) /\ Len(text) <= maxTokens /\ (Len(text) < maxTokens => text = Joined(read))
  BY <1>5, CompressedFits
<1> HIDE DEF text
<1>7. \A e \in ToSet(m) : Matches(source, e) => e \in ToSet(read)
  BY <1>2 DEF Hits
<1> QED
  BY <1>5, <1>6, <1>7 DEF text, read

LEMMA MemoryKept ==
  ASSUME NEW m, Stored(m), \A e \in ToSet(m) : Founded(e), NEW a \in MemoryActions
  PROVE  Stored(MemoryAfter(m, a)) /\ \A e \in ToSet(MemoryAfter(m, a)) : Founded(e)
<1> DEFINE f == a.fields
<1>1. Listed(ValueOf(f)) /\ MaxTokensOf(f) \in Nat \ {0}
  BY RecordFacts
<1> HIDE DEF f
<1>2. CASE a.relation = "write"
  <2> DEFINE new == Write(m, KeyOf(f), ValueOf(f), Ttl(f), KeyTier[KeyOf(f)])
  <2>1. MemoryAfter(m, a) = new
    BY <1>2 DEF MemoryAfter, f
  <2>2. Stored(new) /\ \A e \in ToSet(new) : e \in ToSet(m) \/ (e.key = KeyOf(f) /\ e.value = ValueOf(f))
    BY <1>1, WriteStores
  <2> HIDE DEF new
  <2> QED
    BY <1>2, <2>1, <2>2 DEF Founded, f
<1>3. CASE a.relation = "compress"
  <2> DEFINE text == Compressed(Read(m, SourceOf(f)), MaxTokensOf(f))
             new == Write(m, TargetOf(f), text, "persistent", "episodic")
  <2>1. MemoryAfter(m, a) = IF Read(m, SourceOf(f)) = <<>> THEN m ELSE new
    BY <1>3 DEF MemoryAfter, Compress, f
  <2>2. CASE Read(m, SourceOf(f)) # <<>>
    <3>1. Listed(text) /\ Len(text) <= MaxTokensOf(f)
      BY <1>1, <2>2, LessonFacts
    <3> HIDE DEF text
    <3>2. Stored(new) /\ \A e \in ToSet(new) : e \in ToSet(m) \/ (e.key = TargetOf(f) /\ e.value = text)
      BY <3>1, WriteStores
    <3> HIDE DEF new
    <3> QED
      BY <1>3, <2>1, <2>2, <3>1, <3>2 DEF Founded, f
  <2> QED
    BY <2>1, <2>2
<1>4. CASE a.relation \notin {"write", "compress"}
  BY <1>4 DEF MemoryAfter
<1> QED
  BY <1>2, <1>3, <1>4

\* Applied to what it left itself, a record does nothing, unless it compresses a source
\* that its own target matches or that it had to cut.
LEMMA AppliedAgain ==
  ASSUME NEW m, Stored(m), NEW a \in MemoryActions,
         a.relation = "compress" =>
           \A e \in ToSet(MemoryAfter(m, a)) : e.key = TargetOf(a.fields) =>
             ~Matches(SourceOf(a.fields), e) /\ Len(e.value) < MaxTokensOf(a.fields)
  PROVE  MemoryAfter(MemoryAfter(m, a), a) = MemoryAfter(m, a)
<1> DEFINE f == a.fields
<1>0. PICK E : m \in Seq(E)
  BY DEF Stored, Listed
<1>1. Listed(ValueOf(f)) /\ MaxTokensOf(f) \in Nat \ {0}
  BY RecordFacts
<1> HIDE DEF f
<1>2. CASE a.relation = "write"
  <2>1. \A s : MemoryAfter(s, a) = Write(s, KeyOf(f), ValueOf(f), Ttl(f), KeyTier[KeyOf(f)])
    BY <1>2 DEF MemoryAfter, f
  <2> QED
    BY <1>0, <2>1, WriteAgain
<1>3. CASE a.relation = "compress"
  <2> DEFINE text(s) == Compressed(Read(s, SourceOf(f)), MaxTokensOf(f))
             new == Write(m, TargetOf(f), text(m), "persistent", "episodic")
             e == Entry(m, TargetOf(f), text(m), "persistent", "episodic")
  <2>1. \A s : MemoryAfter(s, a) = IF Read(s, SourceOf(f)) = <<>> THEN s
                                   ELSE Write(s, TargetOf(f), text(s), "persistent", "episodic")
    BY <1>3 DEF MemoryAfter, Compress, f
  <2>2. CASE Read(m, SourceOf(f)) = <<>>
    BY <2>1, <2>2
  <2>3. CASE Read(m, SourceOf(f)) # <<>>
    <3>1. MemoryAfter(m, a) = new
      BY <2>1, <2>3
    <3>2. /\ Len(text(m)) < MaxTokensOf(f) =>
               \A x \in ToSet(m) : Matches(SourceOf(f), x) => ToSet(x.value) \subseteq ToSet(text(m))
      BY <1>1, <2>3, LessonFacts
    <3>3. new = Append(Others(m, TargetOf(f)), e) /\ e.key = TargetOf(f) /\ e.value = text(m)
          /\ Others(m, TargetOf(f)) \in Seq(E)
      <4>1. new = Append(Others(m, TargetOf(f)), e)
        BY <1>0, WriteParts
      <4>2. e.key = TargetOf(f) /\ e.value = text(m)
        BY <1>0, WriteParts
      <4>3. Others(m, TargetOf(f)) \in Seq(E)
        BY <1>0, WriteParts
      <4> QED
        BY <4>1, <4>2, <4>3
    <3>4. e \in ToSet(new)
      <4> DEFINE F == E \cup {e}
      <4> HIDE DEF e, new
      <4>1. Others(m, TargetOf(f)) \in Seq(F) /\ e \in F
        BY <3>3
      <4> HIDE DEF F
      <4> QED
        BY <3>3, <4>1, AppendFacts
    <3>5. ~Matches(SourceOf(f), e) /\ Len(e.value) < MaxTokensOf(f)
      BY <1>3, <3>1, <3>3, <3>4 DEF f
    <3>6. \A x \in Under(m, TargetOf(f)) : ~Matches(SourceOf(f), x)
      <4> HIDE DEF e, new, text
      <4> SUFFICES ASSUME NEW x \in ToSet(m), x.key = TargetOf(f), Matches(SourceOf(f), x)
                   PROVE  FALSE
        BY DEF Under
      <4>1. ToSet(x.value) \subseteq ToSet(e.value)
        BY <3>2, <3>3, <3>5
      <4> QED
        BY <3>3, <3>5, <4>1 DEF Matches
    <3>7. Read(new, SourceOf(f)) = Read(m, SourceOf(f))
      BY <1>0, <3>5, <3>6, ReadAfterWrite
    <3>8. text(new) = text(m)
      BY <3>7
    <3>9. Write(new, TargetOf(f), text(m), "persistent", "episodic") = new
      BY <1>0, WriteAgain
    <3>10. MemoryAfter(new, a) = Write(new, TargetOf(f), text(new), "persistent", "episodic")
      BY <2>1, <2>3, <3>7
    <3> QED
      BY <3>1, <3>8, <3>9, <3>10
  <2> QED
    BY <2>2, <2>3
<1>4. CASE a.relation \notin {"write", "compress"}
  BY <1>4 DEF MemoryAfter
<1> QED
  BY <1>2, <1>3, <1>4

---------------------------------------------------------------------------
(* The memory of a task. *)

\* A record that was executed is the one in hand until it is applied, and the store is
\* what it left.
Unapplied ==
  /\ applying = <<action>> /\ action \in MemoryActions /\ pc \in {"debit", "settle", "done"}
  /\ \E m : Stored(m) /\ store = MemoryAfter(m, action)

MemoryInv ==
  /\ Stored(store) /\ \A e \in ToSet(store) : Founded(e)
  /\ action.anchor = "memory" => action \in MemoryActions
  /\ applying # <<>> => Unapplied

LEMMA EmittedMemory ==
  ASSUME NEW r \in Replies, NEW a \in Emitted(r), a.anchor = "memory"
  PROVE  a \in MemoryActions
<1>1. ASSUME NEW t, NEW h \in BOOLEAN, NEW b \in Salvaged(t, h)
      PROVE  b.anchor # "memory"
  <2>1. b \in {IntentHalt(t), IntentHalt(""), Unparseable, FallbackHalt}
    BY <1>1, Zenon DEF Salvaged
  <2>2. /\ \A x : IntentHalt(x).anchor = "halt"
        /\ Unparseable.anchor = "unparseable"
        /\ FallbackHalt.anchor = "halt"
    BY DEF IntentHalt, Unparseable, FallbackHalt, Scl
  <2> QED
    BY <2>1, <2>2
<1>2. ASSUME NEW x, x.anchor = "halt", NEW b \in RepairedHalts(x)
      PROVE  b.anchor = "halt"
  BY <1>2 DEF RepairedHalts, WithConfidence, Without, Scl
<1>3. FallbackHalt.anchor = "halt"
  BY DEF FallbackHalt, Scl
<1>4. r.form \in {"scl", "mended", "text", "crash"}
  BY RuntimeAssumption
<1>5. CASE r.form = "crash"
  BY <1>3, <1>5 DEF Emitted
<1>6. CASE r.form = "text"
  BY <1>1, <1>3, <1>6 DEF Emitted, Salvaged, IntentHalt, Unparseable, Scl
<1>7. CASE r.form \in {"scl", "mended"}
  <2>1. a = r.act
    BY <1>1, <1>2, <1>7 DEF Emitted
  <2> QED
    BY <1>7, <2>1, RuntimeAssumption
<1> QED
  BY <1>4, <1>5, <1>6, <1>7

LEMMA OneRecord == \A x : <<x>> # <<>> /\ <<x>>[1] = x
OBVIOUS

LEMMA MemoryInitHolds == ASSUME RuntimeInit PROVE MemoryInv
<1>1. store = Seed /\ applying = <<>>
  BY DEF RuntimeInit, MemoryInit
<1>2. action.anchor = ""
  BY DEF RuntimeInit, Nothing, Scl
<1> QED
  BY <1>1, <1>2, SeedIsStored DEF MemoryInv, Founded

\* The steps after execution that apply what was executed.
LEMMA ApplyKeeps ==
  ASSUME MemoryInv, SettleFails \/ Settle
  PROVE  /\ MemoryInv'
         /\ applying # <<>> /\ applying' = <<>> =>
              store = store' \/ (Unapplied /\ store' = MemoryAfter(store, action))
<1>1. action' = action /\ ApplyMemory
  BY DEF SettleFails, Settle
<1>2. pc = "settle" /\ pc' = "top"
  BY DEF SettleFails, Settle
<1>3. CASE applying = <<>>
  <2>1. store' = store /\ applying' = applying
    BY <1>1, <1>3 DEF ApplyMemory, memoryVars
  <2> QED
    BY <1>1, <1>3, <2>1 DEF MemoryInv
<1>4. CASE applying # <<>>
  <2>1. store' = MemoryAfter(store, action) /\ applying' = <<>>
    BY <1>1, <1>4 DEF ApplyMemory, ApplyIfRequested
  <2>2. Unapplied /\ action \in MemoryActions
    BY <1>4 DEF MemoryInv, Unapplied
  <2>3. Stored(store') /\ \A e \in ToSet(store') : Founded(e)
    BY <2>1, <2>2, MemoryKept DEF MemoryInv
  <2> QED
    BY <1>1, <2>1, <2>2, <2>3 DEF MemoryInv
<1> QED
  BY <1>3, <1>4

LEMMA ExecuteMemoryKeeps == ASSUME MemoryInv, ExecuteMemoryRecord PROVE MemoryInv'
<1>1. /\ action' = action /\ action.anchor = "memory" /\ pc' = "debit"
      /\ store' = MemoryAfter(store, action) /\ applying' = <<action>>
  BY DEF ExecuteMemoryRecord, ExecuteMemory, Executed
<1>2. action \in MemoryActions /\ Stored(store)
  BY <1>1 DEF MemoryInv
<1>3. Stored(store') /\ \A e \in ToSet(store') : Founded(e)
  BY <1>1, <1>2, MemoryKept DEF MemoryInv
<1>4. Unapplied'
  <2>1. applying' = <<action'>> /\ action' \in MemoryActions /\ pc' \in {"debit", "settle", "done"}
    BY <1>1, <1>2
  <2>2. \E m : Stored(m) /\ store' = MemoryAfter(m, action')
    BY <1>1, <1>2
  <2> QED
    BY <2>1, <2>2 DEF Unapplied
<1> QED
  BY <1>1, <1>2, <1>3, <1>4 DEF MemoryInv

LEMMA MemoryStep ==
  ASSUME MemoryInv, [RuntimeNext]_vars
  PROVE  /\ MemoryInv'
         /\ applying # <<>> /\ applying' = <<>> =>
              store = store' \/ (Unapplied /\ store' = MemoryAfter(store, action))
<1> DEFINE Idle == applying # <<>> /\ applying' = <<>> =>
                     store = store' \/ (Unapplied /\ store' = MemoryAfter(store, action))
<1>1. ASSUME UNCHANGED <<action, memoryVars>>, pc \in {"debit", "settle", "done"} => pc' \in {"debit", "settle", "done"}
      PROVE  MemoryInv' /\ Idle
  <2>1. action' = action /\ store' = store /\ applying' = applying
    BY <1>1 DEF memoryVars
  <2>2. Unapplied => Unapplied'
    BY <1>1, <2>1 DEF Unapplied
  <2> QED
    BY <2>1, <2>2 DEF MemoryInv
<1>2. CASE UNCHANGED vars
  BY <1>1, <1>2 DEF vars, loopVars, effectVars
<1>3. CASE TimePasses
  BY <1>1, <1>3 DEF TimePasses, loopVars
<1>4. CASE MaxStepsReached \/ BudgetExhausted \/ BeginStep \/ PassPolicy \/ PassVerify
  BY <1>1, <1>4 DEF MaxStepsReached, BudgetExhausted, BeginStep, PassPolicy, PassVerify, Return, effectVars
<1>5. CASE DenyParse \/ DenyPolicy \/ DenyVerify \/ DenyCalibration \/ RejectHalt \/ AcceptHalt
  BY <1>1, <1>5 DEF DenyParse, DenyPolicy, DenyVerify, DenyCalibration, RejectHalt, Deny, AcceptHalt, Return, effectVars
<1>6. CASE \/ ExecuteRaises \/ ExecutePatchTool \/ ExecuteTool \/ ExecuteRepair \/ ExecuteBudget
           \/ ExecuteVerify \/ ExecuteState
  BY <1>1, <1>6 DEF ExecuteRaises, Raise, Return, ExecutePatchTool, ExecuteTool, ExecuteRepair, ExecuteBudget,
                    ExecuteVerify, ExecuteState, CommandsRun, Executed, effectVars
<1>7. CASE DebitAction \/ SettleRaises
  BY <1>1, <1>7 DEF DebitAction, SettleRaises, Raise, Return, effectVars
<1>8. CASE SettleFails \/ Settle
  BY <1>8, ApplyKeeps
<1>9. CASE ExecuteMemoryRecord
  <2>1. applying' # <<>>
    BY <1>9, OneRecord DEF ExecuteMemoryRecord, ExecuteMemory
  <2> QED
    BY <1>9, <2>1, ExecuteMemoryKeeps
<1>10. CASE Propose
  <2>1. PICK r \in Replies : action' \in Emitted(r)
    BY <1>10 DEF Propose
  <2>2. store' = store /\ applying' = applying /\ pc = "model"
    BY <1>10 DEF Propose, effectVars, memoryVars
  <2>3. applying = <<>>
    BY <2>2 DEF MemoryInv, Unapplied
  <2>4. action'.anchor = "memory" => action' \in MemoryActions
    BY <2>1, EmittedMemory
  <2> QED
    BY <2>2, <2>3, <2>4 DEF MemoryInv
<1> QED
  BY <1>2, <1>3, <1>4, <1>5, <1>6, <1>7, <1>8, <1>9, <1>10 DEF RuntimeNext, LoopStep

\* Every entry of the store is a seeded rule, what some record wrote under its key, or a
\* lesson that fits; a record executed and not yet applied is the one that left the store
\* as it is (_execute_memory, apply_if_requested).
THEOREM MemoryInvHolds == RuntimeSpec => []MemoryInv
<1>1. RuntimeInit => MemoryInv
  BY MemoryInitHolds
<1>2. MemoryInv /\ [RuntimeNext]_vars => MemoryInv'
  BY MemoryStep
<1> QED
  BY <1>1, <1>2, PTL DEF RuntimeSpec

IdleAgain ==
  /\ applying # <<>>
  /\ applying' = <<>>
  /\ applying[1].relation = "compress" =>
       \A i \in DOMAIN store : store[i].key = TargetOf(applying[1].fields) =>
         /\ ~Matches(SourceOf(applying[1].fields), store[i])
         /\ Len(store[i].value) < MaxTokensOf(applying[1].fields)
  => store' = store

\* Applying a record a second time does nothing, unless it compresses a source that its own
\* target matches or that it had to cut (apply_if_requested after _execute_memory).
THEOREM SecondApplicationIsAlwaysIdle == RuntimeSpec => SecondApplicationIsIdle
<1>1. MemoryInv /\ [RuntimeNext]_vars => [IdleAgain]_memoryVars
  <2> SUFFICES ASSUME MemoryInv, [RuntimeNext]_vars, applying # <<>>, applying' = <<>>,
                      applying[1].relation = "compress" =>
                        \A i \in DOMAIN store : store[i].key = TargetOf(applying[1].fields) =>
                          /\ ~Matches(SourceOf(applying[1].fields), store[i])
                          /\ Len(store[i].value) < MaxTokensOf(applying[1].fields)
               PROVE  store' = store
    BY DEF IdleAgain
  <2>1. store = store' \/ (Unapplied /\ store' = MemoryAfter(store, action))
    BY MemoryStep
  <2>2. CASE Unapplied /\ store' = MemoryAfter(store, action)
    <3>1. applying = <<action>> /\ action \in MemoryActions
      BY <2>2 DEF Unapplied
    <3>2. applying[1] = action
      BY <3>1, OneRecord
    <3>3. PICK m : Stored(m) /\ store = MemoryAfter(m, action)
      BY <2>2 DEF Unapplied
    <3>4. action.relation = "compress" =>
            \A e \in ToSet(store) : e.key = TargetOf(action.fields) =>
              ~Matches(SourceOf(action.fields), e) /\ Len(e.value) < MaxTokensOf(action.fields)
      BY <3>2 DEF ToSet
    <3> QED
      BY <2>2, <3>1, <3>3, <3>4, AppliedAgain
  <2> QED
    BY <2>1, <2>2
<1> QED
  BY <1>1, MemoryInvHolds, PTL DEF RuntimeSpec, SecondApplicationIsIdle, IdleAgain

\* No record writes under the key of a lesson, and no rule is seeded there.
LessonsAreOnlyFolded ==
  \A a \in MemoryActions : a.relation = "compress" =>
    /\ \A b \in MemoryActions : b.relation = "write" => KeyOf(b.fields) # TargetOf(a.fields)
    /\ \A e \in ToSet(Seed) : e.key # TargetOf(a.fields)

\* However often lessons are folded into lessons, what is left under their key has at most
\* the words some compress asked for, as long as nothing is written there otherwise
\* (compress).
THEOREM LessonsAreAlwaysCompact ==
  ASSUME LessonsAreOnlyFolded PROVE RuntimeSpec => []LessonsAreCompact
<1>1. MemoryInv => LessonsAreCompact
  <2> SUFFICES ASSUME MemoryInv, NEW i \in DOMAIN store, NEW a \in MemoryActions,
                      a.relation = "compress", TargetOf(a.fields) = store[i].key
               PROVE  \E b \in MemoryActions : /\ b.relation = "compress" /\ TargetOf(b.fields) = store[i].key
                                               /\ Len(store[i].value) <= MaxTokensOf(b.fields)
    BY DEF LessonsAreCompact
  <2>1. Founded(store[i])
    BY DEF MemoryInv, ToSet
  <2> QED
    BY <2>1 DEF Founded, LessonsAreOnlyFolded
<1> QED
  BY <1>1, MemoryInvHolds, PTL

---------------------------------------------------------------------------
(* How long a task can last. *)

\* How far the iteration in hand still has to go.
Left == CASE pc = "top" -> 8 [] pc = "model" -> 7 [] pc = "policy" -> 6 [] pc = "verify" -> 5
          [] pc \in {"halt", "execute"} -> 4 [] pc = "debit" -> 3 [] pc = "settle" -> 2
          [] OTHER -> 0

\* What the task has left: whole iterations, and the rest of this one.
Fuel == 9 * (MaxSteps - step) + Left

\* An iteration is begun only where one is left.
Pace ==
  /\ pc \in {"top", "model", "policy", "verify", "halt", "execute", "debit", "settle", "done"}
  /\ step \in 0..MaxSteps
  /\ pc \notin {"top", "done"} => step < MaxSteps

LEMMA FuelIsNatural ==
  ASSUME Pace PROVE Fuel \in Nat /\ (pc # "done" => Fuel > 0) /\ Fuel <= 9 * MaxSteps + 8
<1>1. MaxSteps \in Nat
  BY BudgetAssumption
<1>2. Left \in 0..8 /\ (pc # "done" => Left > 0)
  BY DEF Pace, Left
<1> QED
  BY <1>1, <1>2 DEF Pace, Fuel

\* Every way through the loop: on to a later place of the iteration, to the next one, or out.
Onwards ==
  \/ step' = step /\ Left' < Left
  \/ step < MaxSteps /\ step' = step + 1 /\ pc' = "top"

LEMMA FurtherIsLess ==
  ASSUME NEW k \in Int, NEW a \in Int, NEW b \in Int, b < a
  PROVE  k + b < k + a
  OBVIOUS

LEMMA OnwardsBurns ==
  ASSUME Pace, Onwards PROVE Fuel' < Fuel
<1>1. MaxSteps \in Nat /\ step \in 0..MaxSteps
  BY BudgetAssumption DEF Pace
<1>2. Left \in 0..8 /\ Left' \in 0..8
  BY DEF Left
<1> DEFINE rest == MaxSteps - step
           rest2 == MaxSteps - step'
<1>3. CASE step' = step /\ Left' < Left
  <2>1. rest2 = rest /\ rest \in Int
    BY <1>1, <1>3
  <2>2. Fuel = 9 * rest + Left /\ Fuel' = 9 * rest + Left'
    BY <2>1 DEF Fuel
  <2>3. 9 * rest \in Int
    BY <2>1
  <2> HIDE DEF rest
  <2>4. 9 * rest + Left' < 9 * rest + Left
    BY <1>2, <1>3, <2>3, FurtherIsLess
  <2> QED
    BY <2>2, <2>4
<1>4. CASE step' = step + 1 /\ pc' = "top" /\ step < MaxSteps
  <2>1. rest2 = rest - 1 /\ rest \in Int
    BY <1>1, <1>4
  <2>2. Left' = 8
    BY <1>4 DEF Left
  <2>3. Fuel = 9 * rest + Left /\ Fuel' = 9 * rest2 + Left'
    BY DEF Fuel
  <2> HIDE DEF rest, rest2
  <2> QED
    BY <1>2, <2>1, <2>2, <2>3
<1> QED
  BY <1>3, <1>4 DEF Onwards

LEMMA StepsGoOn ==
  ASSUME Pace, LoopStep PROVE Pace' /\ Onwards
<1> DEFINE Goal == Pace' /\ Onwards
<1>1. ASSUME step' = step, pc' = "done", pc # "done"
      PROVE  Goal
  BY <1>1 DEF Pace, Onwards, Left
<1>2. ASSUME step' = step + 1, pc' = "top", pc \notin {"top", "done"}
      PROVE  Goal
  BY <1>2, BudgetAssumption DEF Pace, Onwards
<1> DEFINE Along == \/ pc = "model" /\ pc' = "policy"
                    \/ pc = "policy" /\ pc' = "verify"
                    \/ pc = "verify" /\ pc' \in {"halt", "execute"}
                    \/ pc = "execute" /\ pc' = "debit"
                    \/ pc = "debit" /\ pc' = "settle"
<1>3. ASSUME step' = step, Along
      PROVE  Goal
  BY <1>3 DEF Pace, Onwards, Left
<1> HIDE DEF Along
<1>4. CASE MaxStepsReached \/ BudgetExhausted \/ AcceptHalt
  BY <1>1, <1>4 DEF MaxStepsReached, BudgetExhausted, AcceptHalt, Return
<1>5. CASE BeginStep
  BY <1>5 DEF BeginStep, Pace, Onwards, Left
<1>6. CASE DenyParse \/ DenyPolicy \/ DenyVerify \/ DenyCalibration \/ RejectHalt
  BY <1>2, <1>6 DEF DenyParse, DenyPolicy, DenyVerify, DenyCalibration, RejectHalt, Deny
<1>7. CASE Propose \/ PassPolicy \/ PassVerify
  <2>1. Propose => step' = step /\ pc = "model" /\ pc' = "policy"
    BY DEF Propose
  <2>2. PassPolicy => step' = step /\ pc = "policy" /\ pc' = "verify"
    BY DEF PassPolicy
  <2>3. PassVerify => step' = step /\ pc = "verify" /\ pc' \in {"halt", "execute"}
    BY DEF PassVerify
  <2> QED
    BY <1>3, <1>7, <2>1, <2>2, <2>3, Zenon DEF Along
<1>8. CASE ExecuteRaises \/ SettleRaises
  BY <1>1, <1>8 DEF ExecuteRaises, SettleRaises, Raise, Return
<1>9. CASE \/ ExecutePatchTool \/ ExecuteTool \/ ExecuteMemoryRecord
           \/ ExecuteRepair \/ ExecuteBudget \/ ExecuteVerify \/ ExecuteState
  <2>1. pc = "execute" /\ pc' = "debit" /\ step' = step
    BY <1>9 DEF ExecutePatchTool, ExecuteTool, ExecuteMemoryRecord, ExecuteRepair, ExecuteBudget,
                ExecuteVerify, ExecuteState, Executed
  <2>2. Along
    BY <2>1, Zenon DEF Along
  <2> QED
    BY <1>3, <2>1, <2>2
<1>10. CASE DebitAction
  <2>1. step' = step /\ pc = "debit" /\ (pc' = "done" \/ Along)
    BY <1>10 DEF DebitAction, Return, Along
  <2> QED
    BY <1>1, <1>3, <2>1
<1>11. CASE SettleFails \/ Settle
  BY <1>2, <1>11 DEF SettleFails, Settle
<1> QED
  BY <1>4, <1>5, <1>6, <1>7, <1>8, <1>9, <1>10, <1>11 DEF LoopStep

\* The clock moves nothing but itself, and runs out once.
LEMMA TimeWaits ==
  ASSUME TimePasses \/ UNCHANGED vars, Pace PROVE Pace' /\ Fuel' = Fuel
<1>1. pc' = pc /\ step' = step
  BY DEF TimePasses, vars, loopVars
<1> QED
  BY <1>1 DEF Pace, Fuel, Left

\* A task lasts 9 * MaxSteps + 8 steps of the loop at most, whatever the model replies, the
\* tools report and the clock does: there is so much fuel at the beginning, each step of the
\* loop burns some, nothing gives any back, and none is left only when run() has returned.
TasksRunDown ==
  /\ [](Fuel \in 0..9 * MaxSteps + 8 /\ (Fuel = 0 => pc = "done"))
  /\ [][Fuel' <= Fuel /\ (LoopStep => Fuel' < Fuel)]_vars

THEOREM TasksAlwaysRunDown == RuntimeSpec => TasksRunDown
<1>1. RuntimeInit => Pace
  BY BudgetAssumption DEF RuntimeInit, Pace
<1>2. Pace /\ [RuntimeNext]_vars => Pace' /\ [Fuel' <= Fuel /\ (LoopStep => Fuel' < Fuel)]_vars
  <2> SUFFICES ASSUME Pace, [RuntimeNext]_vars
               PROVE  Pace' /\ [Fuel' <= Fuel /\ (LoopStep => Fuel' < Fuel)]_vars
    OBVIOUS
  <2>1. CASE LoopStep
    <3>1. Pace' /\ Fuel' < Fuel
      BY <2>1, StepsGoOn, OnwardsBurns
    <3>2. Fuel \in Nat
      BY FuelIsNatural
    <3>3. Fuel' \in Int
      <4>1. MaxSteps \in Nat
        BY BudgetAssumption
      <4>2. step' \in 0..MaxSteps /\ Left' \in 0..8
        BY <3>1 DEF Pace, Left
      <4> QED
        BY <4>1, <4>2 DEF Fuel
    <3> QED
      BY <3>1, <3>2, <3>3
  <2>2. CASE UNCHANGED vars
    BY <2>2, TimeWaits
  <2>3. CASE TimePasses /\ ~LoopStep
    <3>1. Pace' /\ Fuel' = Fuel
      BY <2>3, TimeWaits
    <3>2. Fuel \in Nat
      BY FuelIsNatural
    <3> QED
      BY <2>3, <3>1, <3>2
  <2> QED
    BY <2>1, <2>2, <2>3 DEF RuntimeNext
<1>3. Pace => Fuel \in 0..9 * MaxSteps + 8 /\ (Fuel = 0 => pc = "done")
  BY FuelIsNatural, BudgetAssumption
<1> QED
  BY <1>1, <1>2, <1>3, PTL DEF RuntimeSpec, TasksRunDown
=============================================================================

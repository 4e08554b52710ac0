--------------------------- MODULE MaterialProofs ---------------------------
(***************************************************************************)
(* What the material endpoints can be relied on for, however many requests *)
(* there are, whatever they ask and wherever they break off.  First where  *)
(* a request can be and what its gates have established by then; from this *)
(* follows that each step is one of GatedAction, and that nobody is told   *)
(* of a refusal of what was done.  Then the work tree, in which a patch    *)
(* reported as applied stays; and the scan of a proposal, which a single   *)
(* trouble around it does not turn against a harmless text.                *)
(***************************************************************************)
EXTENDS Material, FiniteSetTheorems, TLAPS

\* On the way to the act, and past its last gate.
Working ==
  Kinds \cup {"append", "apply", "write", "repo_status", "prophet_write", "preflight", "command", "session"}
Firm == {"apply", "write", "repo_status", "preflight", "command", "session"}

\* The third part of InPlace: the proposal, where one is asked for.
Linked(r) ==
  RequireProposals /\ ~body[r].direct =>
    \E i \in DOMAIN proposals :
      /\ proposals[i].id = body[r].proposal /\ proposals[i].status # "quarantined"
      /\ proposals[i].path # Undeclared => proposals[i].path = body[r].kind
      /\ proposals[i].capability # Undeclared => proposals[i].capability = CapabilityOf[body[r].kind]

\* The proposal a request names is on record, so nothing more is recorded of it.
Answered(r) == body[r].proposal # "none" => body[r].proposal \in Requests /\ pc[body[r].proposal] = "done"

\* Where a request can be, given what it asked for.
Place(r) ==
  /\ IF pc[r] = "idle" THEN body[r].kind = "none" ELSE body[r] \in Body /\ Answered(r)
  /\ pc[r] \in Kinds \ {"patch", "evaluate"} => body[r].kind = pc[r]
  /\ pc[r] = "append" => body[r].kind = "propose" /\ outcome[r] \in {"recorded", "quarantined"}
  /\ pc[r] = "patch" => body[r].kind \in {"patch", "build"}
  /\ pc[r] \in {"repo_status", "preflight"} => body[r].kind = "railway"
  /\ pc[r] = "command" => body[r].kind \in {"railway", "forge"}
  /\ pc[r] \in {"evaluate", "prophet_write"} /\ body[r].kind # "evaluate" =>
       body[r].kind = "railway" /\ body[r].witness /\ body[r].confirmed
  /\ pc[r] \in Firm => body[r].kind \in Gated /\ body[r].witness /\ body[r].confirmed
  /\ pc[r] \in Working /\ body[r].kind \in Gated => Linked(r)

\* What has been done for it and what is on record by then.
Traces(r) ==
  /\ pc[r] \in Working \cup {"idle"} => r \notin acted
  /\ pc[r] \notin {"answer", "done"} => r \notin ledger
  /\ pc[r] = "record" =>
       /\ outcome[r] \in Successes \cup {"failed"}
       /\ outcome[r] \in Successes => r \in acted
       /\ outcome[r] = "failed" /\ r \in acted => body[r].kind \in {"railway", "forge"}
  /\ pc[r] \in {"answer", "done"} =>
       /\ outcome[r] \in Successes => r \in acted /\ r \in ledger
       /\ outcome[r] = "failed" /\ r \in acted => body[r].kind \in {"railway", "forge"} /\ r \in ledger
       /\ outcome[r] = "refused" /\ r \in acted => r \in unheard
  /\ answer[r] = IF pc[r] = "done" THEN outcome[r] ELSE "none"
  /\ r \in acted => InPlace(r)

Proposal ==
  [id : Requests, status : {"recorded", "quarantined"}, path : Gated \cup {Undeclared},
   capability : {CapabilityOf[k] : k \in Gated} \cup {Undeclared}]

Functions ==
  /\ pc = [q \in Requests |-> pc[q]] /\ body = [q \in Requests |-> body[q]]
  /\ outcome = [q \in Requests |-> outcome[q]] /\ answer = [q \in Requests |-> answer[q]]
  /\ proposals \in Seq(Proposal)

MaterialInv == Functions /\ \A r \in Requests : Place(r) /\ Traces(r)

\* Nothing that the invariant says of q has changed.
Untouched(q) ==
  /\ pc'[q] = pc[q] /\ body'[q] = body[q] /\ outcome'[q] = outcome[q] /\ answer'[q] = answer[q]
  /\ (q \in acted') = (q \in acted) /\ (q \in ledger') = (q \in ledger)
  /\ q \in unheard => q \in unheard'

OthersUntouched(r) == \A q \in Requests \ {r} : Untouched(q)

---------------------------------------------------------------------------
(* Every step is of one request, and leaves the others alone. *)

LEMMA StepsAreOwn ==
  ASSUME Functions, NEW r \in Requests, Request(r)
  PROVE  OthersUntouched(r)
<1> USE DEF OthersUntouched, Untouched, Functions, GoesTo, WillAnswer, Ends, Recorded, OnlyRefuses, files, work, hist
<1>1. CASE Asks(r)
  BY <1>1 DEF Asks
<1>2. CASE ScansProposal(r) \/ AppendsProposal(r) \/ NextStep(r) \/ Quarantine(r)
  BY <1>2 DEF ScansProposal, AppendsProposal, NextStep, Quarantine
<1>3. CASE BuildChecks(r) \/ PatchChecks(r)
  BY <1>3 DEF BuildChecks, PatchChecks
<1>4. CASE GitReads(r) \/ GitWrites(r)
  BY <1>4 DEF GitReads, GitWrites
<1>5. CASE DeployGate(r) \/ RepoStatus(r)
  BY <1>5 DEF DeployGate, RepoStatus
<1>6. CASE ProphetChecks(r) \/ ProphetWrites(r)
  BY <1>6 DEF ProphetChecks, ProphetWrites
<1>7. CASE Preflight(r) \/ Command(r)
  BY <1>7 DEF Preflight, Command
<1>8. CASE CheckoutGate(r) \/ StripeSession(r)
  BY <1>8 DEF CheckoutGate, StripeSession
<1>9. CASE Records(r) \/ Answers(r) \/ BreaksOff(r)
  BY <1>9 DEF Records, Answers, BreaksOff
<1> QED
  BY <1>1, <1>2, <1>3, <1>4, <1>5, <1>6, <1>7, <1>8, <1>9 DEF Request

\* An answered request takes no step.
LEMMA DoneStays ==
  ASSUME Functions, NEW r \in Requests, Request(r), NEW q \in Requests, pc[q] = "done"
  PROVE  q # r /\ pc'[q] = "done"
<1>1. pc[r] # "done"
  BY DEF Request, At, Asks, ScansProposal, AppendsProposal, NextStep, Quarantine, BuildChecks, PatchChecks,
         GitReads, GitWrites, DeployGate, RepoStatus, ProphetChecks, ProphetWrites, Preflight, Command,
         CheckoutGate, StripeSession, Records, Answers, BreaksOff
<1> QED
  BY <1>1, StepsAreOwn DEF OthersUntouched, Untouched

\* Only the arrival of a request changes what it asks for.
LEMMA BodyStays ==
  ASSUME Functions, NEW r \in Requests, Request(r), ~Asks(r)
  PROVE  body' = body /\ (AppendsProposal(r) \/ proposals' = proposals)
<1> USE DEF files, work, hist, OnlyRefuses
<1>1. CASE ScansProposal(r) \/ NextStep(r) \/ Quarantine(r)
  BY <1>1 DEF ScansProposal, NextStep, Quarantine
<1>2. CASE AppendsProposal(r)
  BY <1>2 DEF AppendsProposal
<1>3. CASE BuildChecks(r) \/ PatchChecks(r) \/ DeployGate(r) \/ CheckoutGate(r)
  BY <1>3 DEF BuildChecks, PatchChecks, DeployGate, CheckoutGate
<1>4. CASE GitReads(r) \/ GitWrites(r) \/ RepoStatus(r) \/ Preflight(r) \/ Command(r)
  BY <1>4 DEF GitReads, GitWrites, RepoStatus, Preflight, Command
<1>5. CASE ProphetChecks(r) \/ ProphetWrites(r) \/ StripeSession(r) \/ Records(r) \/ Answers(r) \/ BreaksOff(r)
  BY <1>5 DEF ProphetChecks, ProphetWrites, StripeSession, Records, Answers, BreaksOff
<1> QED
  BY <1>1, <1>2, <1>3, <1>4, <1>5 DEF Request

\* InPlace, in its parts.
LEMMA InPlaceParts ==
  ASSUME NEW r \in Requests
  PROVE  InPlace(r) <=> body[r].kind \in Gated /\ body[r].witness /\ body[r].confirmed /\ Linked(r)
BY DEF InPlace, Linked

\* A proposal that is recorded now changes nothing for a request that named an
\* earlier one.
LEMMA LinkStays ==
  ASSUME MaterialInv, NEW r \in Requests, Request(r), NEW q \in Requests, body'[q] = body[q],
         pc[q] # "idle"
  PROVE  Linked(q)' <=> Linked(q)
<1>1. CASE proposals' = proposals
  BY <1>1 DEF Linked
<1>2. CASE AppendsProposal(r)
  <2>1. PICK p : p = [id |-> r, status |-> outcome[r], path |-> body[r].path, capability |-> body[r].capability]
    OBVIOUS
  <2>2. pc[r] = "append" /\ proposals' = Append(proposals, p)
    BY <1>2, <2>1 DEF AppendsProposal, At
  <2>3. p \in Proposal
    BY <2>1, <2>2 DEF Proposal, MaterialInv, Place, Body
  <2>4. body[q].proposal # r
    BY <2>2, MaterialAssumption DEF MaterialInv, Place, Answered
  <2>5. \A i \in DOMAIN proposals : i \in DOMAIN proposals' /\ proposals'[i] = proposals[i]
    BY <2>2, <2>3 DEF MaterialInv, Functions
  <2>6. \A i \in DOMAIN proposals' : i \in DOMAIN proposals \/ proposals'[i].id = r
    BY <2>1, <2>2, <2>3 DEF MaterialInv, Functions
  <2> QED
    BY <2>4, <2>5, <2>6 DEF Linked
<1>3. CASE Asks(r)
  BY <1>1, <1>3 DEF Asks, files
<1> QED
  BY <1>1, <1>2, <1>3, BodyStays DEF MaterialInv

\* The functions are functions of the requests.
LEMMA FunctionsStay ==
  ASSUME MaterialInv, NEW r \in Requests, Request(r)
  PROVE  Functions'
<1>1. CASE AppendsProposal(r)
  <2>1. PICK p : p = [id |-> r, status |-> outcome[r], path |-> body[r].path, capability |-> body[r].capability]
    OBVIOUS
  <2>2. p \in Proposal
    BY <1>1, <2>1 DEF AppendsProposal, At, Proposal, MaterialInv, Place, Body
  <2>3. proposals' \in Seq(Proposal)
    BY <1>1, <2>1, <2>2 DEF AppendsProposal, MaterialInv, Functions
  <2> QED
    BY <1>1, <2>3 DEF AppendsProposal, MaterialInv, Functions, GoesTo
<1>2. CASE ~AppendsProposal(r)
  <2> USE DEF MaterialInv, Functions, GoesTo, WillAnswer, Ends, OnlyRefuses, files, work, hist
  <2>1. CASE Asks(r)
    BY <2>1 DEF Asks
  <2>2. CASE ScansProposal(r) \/ NextStep(r) \/ Quarantine(r) \/ BuildChecks(r) \/ PatchChecks(r)
    BY <2>2 DEF ScansProposal, NextStep, Quarantine, BuildChecks, PatchChecks
  <2>3. CASE GitReads(r) \/ GitWrites(r) \/ DeployGate(r) \/ RepoStatus(r) \/ Preflight(r)
    BY <2>3 DEF GitReads, GitWrites, DeployGate, RepoStatus, Preflight
  <2>4. CASE ProphetChecks(r) \/ ProphetWrites(r) \/ Command(r) \/ CheckoutGate(r)
    BY <2>4 DEF ProphetChecks, ProphetWrites, Command, CheckoutGate
  <2>5. CASE StripeSession(r) \/ Records(r) \/ Answers(r) \/ BreaksOff(r)
    BY <2>5 DEF StripeSession, Records, Answers, BreaksOff
  <2> QED
    BY <1>2, <2>1, <2>2, <2>3, <2>4, <2>5 DEF Request
<1> QED
  BY <1>1, <1>2

---------------------------------------------------------------------------
(* What a step of r leaves true of the others. *)

LEMMA OthersKeep ==
  ASSUME MaterialInv, NEW r \in Requests, Request(r), NEW q \in Requests \ {r}
  PROVE  /\ Place(q)' /\ Traces(q)'
         /\ InPlace(q)' <=> InPlace(q)
         /\ Stage(q)' = Stage(q)
<1>1. Untouched(q)
  BY StepsAreOwn DEF MaterialInv, OthersUntouched
<1>2. Place(q) /\ Traces(q)
  BY DEF MaterialInv
<1>3. Answered(q) => Answered(q)'
  BY <1>1, DoneStays DEF Answered, Untouched, MaterialInv
<1>4. CASE pc[q] = "idle"
  <2>1. ~InPlace(q) /\ ~InPlace(q)' /\ pc'[q] = "idle"
    BY <1>1, <1>2, <1>4 DEF InPlace, Place, Untouched, Gated
  <2>2. Place(q)'
    BY <1>1, <1>2, <1>4 DEF Place, Untouched, Working, Kinds, Gated, Firm
  <2> QED
    BY <1>1, <1>2, <1>4, <2>1, <2>2 DEF Traces, Untouched, Stage, Working, Kinds, Gated
<1>5. CASE pc[q] # "idle"
  <2>1. Linked(q)' <=> Linked(q)
    BY <1>1, <1>5, LinkStays DEF Untouched
  <2>2. InPlace(q)' <=> InPlace(q)
    BY <1>1, <2>1, InPlaceParts DEF InPlace, Linked, Untouched
  <2>3. Place(q)'
    BY <1>1, <1>2, <1>3, <1>5, <2>1 DEF Place, Untouched
  <2> QED
    BY <1>1, <1>2, <2>2, <2>3 DEF Traces, Untouched, Stage
<1> QED
  BY <1>4, <1>5

---------------------------------------------------------------------------
(* What a step of r leaves true of r itself. *)

\* A step of GatedAction, as far as it is about r.
Advances(r) ==
  \/ Stage(r)' = Stage(r) /\ (InPlace(r) => InPlace(r)')
  \/ /\ InPlace(r)' <=> InPlace(r)
     /\ \/ InPlace(r) /\ Stage(r) = "open" /\ Stage(r)' = "acted"
        \/ Stage(r) = "acted" /\ Stage(r)' = "recorded"
        \/ Stage(r) = "recorded" /\ Stage(r)' = "told"

Kept(r) == Place(r)' /\ Traces(r)' /\ Advances(r)

\* What r asks for, and whether everything is in place for it, is settled once it
\* has been asked.
LEMMA SettledOnceAsked ==
  ASSUME MaterialInv, NEW r \in Requests, Request(r), ~Asks(r), pc[r] # "idle"
  PROVE  /\ body[r] \in Body /\ body' = body
         /\ Answered(r)' /\ (Linked(r)' <=> Linked(r)) /\ (InPlace(r)' <=> InPlace(r))
<1>1. body[r] \in Body /\ body' = body /\ Answered(r)
  BY BodyStays DEF MaterialInv, Place
<1>2. Answered(r)'
  BY <1>1, DoneStays DEF Answered, MaterialInv
<1>3. Linked(r)' <=> Linked(r)
  BY <1>1, LinkStays
<1> QED
  BY <1>1, <1>2, <1>3, InPlaceParts DEF InPlace, Linked

LEMMA AsksKeeps ==
  ASSUME MaterialInv, NEW r \in Requests, Asks(r)
  PROVE  Kept(r)
<1>1. Place(r) /\ Traces(r) /\ Functions /\ pc[r] = "idle" /\ UNCHANGED <<answer, proposals, ledger, acted, unheard>>
  BY DEF MaterialInv, Asks, At, files, hist
<1>2. PICK b \in Bodies[r] :
        /\ Known(b) /\ body' = [body EXCEPT ![r] = b]
        /\ IF PassesGate(b) THEN GoesTo(r, b.kind) /\ outcome' = outcome ELSE Ends(r, "refused")
  BY DEF Asks
<1>3. b \in Body /\ body'[r] = b
  BY <1>1, <1>2, MaterialAssumption DEF Functions
<1>4. b.kind \in Kinds /\ b.proposal \in Requests \cup {"none"}
  BY <1>3 DEF Body
<1>5. IF PassesGate(b) THEN pc'[r] = b.kind /\ outcome' = outcome ELSE pc'[r] = "answer" /\ outcome'[r] = "refused"
  BY <1>1, <1>2 DEF Functions, GoesTo, Ends, WillAnswer
<1>6. Answered(r)'
  <2>1. CASE b.proposal # "none"
    <3>1. pc[b.proposal] = "done" /\ b.proposal \in Requests /\ b.proposal # r
      BY <1>1, <1>2, <1>4, <2>1 DEF Known, At
    <3>2. pc'[b.proposal] = pc[b.proposal]
      BY <1>1, <1>2, <3>1 DEF Functions, GoesTo, Ends
    <3> QED
      BY <1>3, <3>1, <3>2 DEF Answered
  <2> QED
    BY <1>3, <2>1 DEF Answered
<1>7. PassesGate(b) /\ b.kind \in Gated => Linked(r)'
  <2> SUFFICES ASSUME Valid(b.proposal, b.kind)
               PROVE  Linked(r)'
    BY <1>1, <1>3 DEF PassesGate, Linked
  <2>1. PICK i \in DOMAIN proposals : proposals[i].id = b.proposal /\ Links(proposals[i], b.kind)
    BY DEF Valid, Window
  <2> QED
    BY <1>1, <1>3, <2>1 DEF Linked, Links, Undeclared
<1>8. Place(r)'
  BY <1>3, <1>4, <1>5, <1>6, <1>7 DEF Place, Working, Kinds, Gated, Firm
<1>9. r \notin acted /\ r \notin ledger /\ answer[r] = "none"
  BY <1>1 DEF Traces, Working
<1>10. Traces(r)'
  BY <1>1, <1>4, <1>5, <1>9 DEF Traces, Working, Kinds, Gated, Successes
<1>11. ~InPlace(r) /\ Stage(r)' = Stage(r)
  BY <1>1, <1>9 DEF Stage, InPlace, Place, Gated
<1> QED
  BY <1>8, <1>10, <1>11 DEF Kept, Advances

\* The steps that only go on or end in something other than a success.
LEMMA PlainStepsKeep ==
  ASSUME MaterialInv, NEW r \in Requests,
         \/ ScansProposal(r) \/ AppendsProposal(r) \/ NextStep(r) \/ Quarantine(r)
         \/ BuildChecks(r) \/ PatchChecks(r) \/ DeployGate(r) \/ CheckoutGate(r)
  PROVE  Kept(r)
<1>1. Request(r) /\ ~Asks(r) /\ pc[r] # "idle"
  BY DEF Request, At, ScansProposal, AppendsProposal, NextStep, Quarantine, BuildChecks, PatchChecks,
         DeployGate, CheckoutGate, Asks
<1>2. /\ body[r] \in Body /\ body' = body
      /\ Answered(r)' /\ (Linked(r)' <=> Linked(r)) /\ (InPlace(r)' <=> InPlace(r))
  BY <1>1, SettledOnceAsked
<1>3. Place(r) /\ Traces(r) /\ Functions
  BY DEF MaterialInv
<1>4. acted' = acted /\ unheard' = unheard /\ answer' = answer
  BY DEF ScansProposal, AppendsProposal, NextStep, Quarantine, BuildChecks, PatchChecks,
         DeployGate, CheckoutGate, OnlyRefuses, hist, GoesTo
<1>5. pc[r] \in Kinds \cup {"append"}
  BY DEF At, ScansProposal, AppendsProposal, NextStep, Quarantine, BuildChecks, PatchChecks,
         DeployGate, CheckoutGate, Kinds, Gated
<1>6. r \notin acted /\ r \notin ledger /\ answer[r] = "none"
  BY <1>3, <1>5 DEF Traces, Working, Kinds, Gated
<1>7. Stage(r)' = Stage(r)
  BY <1>4, <1>6 DEF Stage
<1> USE <1>2, <1>3, <1>4, <1>6
<1> USE DEF Functions, GoesTo, WillAnswer, Ends, At, Place, Traces, Working, Firm, Kinds, Gated, Successes
<1>8. CASE ScansProposal(r)
  BY <1>7, <1>8 DEF ScansProposal, files, Kept, Advances
<1>9. CASE AppendsProposal(r)
  BY <1>7, <1>9 DEF AppendsProposal, Kept, Advances
<1>10. CASE NextStep(r) \/ Quarantine(r)
  BY <1>7, <1>10 DEF NextStep, Quarantine, Recorded, Kept, Advances
<1>11. CASE BuildChecks(r) \/ PatchChecks(r)
  BY <1>7, <1>11 DEF BuildChecks, PatchChecks, OnlyRefuses, Kept, Advances
<1>12. CASE DeployGate(r) \/ CheckoutGate(r)
  BY <1>7, <1>12 DEF DeployGate, CheckoutGate, OnlyRefuses, Kept, Advances
<1> QED
  BY <1>8, <1>9, <1>10, <1>11, <1>12

\* The steps past the last gate, or on the way to it with something at hand.
LEMMA LateStepsKeep ==
  ASSUME MaterialInv, NEW r \in Requests,
         \/ GitReads(r) \/ GitWrites(r) \/ RepoStatus(r) \/ ProphetChecks(r) \/ ProphetWrites(r)
         \/ Preflight(r) \/ Command(r) \/ StripeSession(r) \/ BreaksOff(r)
  PROVE  Kept(r)
<1>1. Request(r) /\ ~Asks(r) /\ pc[r] # "idle"
  BY DEF Request, At, GitReads, GitWrites, RepoStatus, ProphetChecks, ProphetWrites, Preflight, Command,
         StripeSession, BreaksOff, Asks
<1>2. /\ body[r] \in Body /\ body' = body
      /\ Answered(r)' /\ (Linked(r)' <=> Linked(r)) /\ (InPlace(r)' <=> InPlace(r))
  BY <1>1, SettledOnceAsked
<1>3. Place(r) /\ Traces(r) /\ Functions
  BY DEF MaterialInv
<1>4. ledger' = ledger /\ answer' = answer
  BY DEF GitReads, GitWrites, RepoStatus, ProphetChecks, ProphetWrites, Preflight, Command,
         StripeSession, BreaksOff, files
<1>5. r \notin ledger /\ answer[r] = "none"
  BY <1>3 DEF Traces, At, GitReads, GitWrites, RepoStatus, ProphetChecks, ProphetWrites, Preflight, Command,
         StripeSession, BreaksOff
<1>6. pc[r] \in Firm => InPlace(r)
  BY <1>3, InPlaceParts DEF Place, Firm, Working
<1>7. pc[r] \in Working => r \notin acted
  BY <1>3 DEF Traces
<1>8. Stage(r) = (IF r \in acted THEN "acted" ELSE "open") /\ Stage(r)' = (IF r \in acted' THEN "acted" ELSE "open")
  BY <1>4, <1>5 DEF Stage, Successes
<1> USE <1>2, <1>3, <1>4, <1>5, <1>6, <1>7, <1>8
<1> USE DEF Functions, GoesTo, WillAnswer, Ends, At, Place, Traces, Working, Firm, Kinds, Gated, Successes
<1>9. CASE GitReads(r) \/ GitWrites(r)
  BY <1>9 DEF GitReads, GitWrites, files, Kept, Advances
<1>10. CASE RepoStatus(r)
  BY <1>10 DEF RepoStatus, hist, Kept, Advances
<1>11. CASE ProphetChecks(r)
  <2>1. acted' = acted /\ unheard' = unheard /\ outcome' = outcome /\ pc[r] = "evaluate"
    BY <1>11 DEF ProphetChecks, hist
  <2>2. pc'[r] \in {"broken", "prophet_write"}
    BY <1>11 DEF ProphetChecks
  <2>3. Place(r)'
    BY <2>1, <2>2
  <2> QED
    BY <2>1, <2>2, <2>3 DEF Kept, Advances
<1>12. CASE ProphetWrites(r)
  BY <1>12 DEF ProphetWrites, hist, Kept, Advances
<1>13. CASE Preflight(r)
  BY <1>13 DEF Preflight, hist, Kept, Advances
<1>14. CASE Command(r)
  BY <1>14 DEF Command, Kept, Advances
<1>15. CASE StripeSession(r)
  BY <1>15 DEF StripeSession, Kept, Advances
<1>16. CASE BreaksOff(r)
  BY <1>16 DEF BreaksOff, Kept, Advances
<1> QED
  BY <1>9, <1>10, <1>11, <1>12, <1>13, <1>14, <1>15, <1>16

\* The line on the ledger and the answer.
LEMMA LastStepsKeep ==
  ASSUME MaterialInv, NEW r \in Requests, Records(r) \/ Answers(r)
  PROVE  Kept(r)
<1>1. Request(r) /\ ~Asks(r) /\ pc[r] \in {"record", "answer"}
  BY DEF Request, At, Records, Answers, Asks
<1>2. /\ body[r] \in Body /\ body' = body
      /\ Answered(r)' /\ (Linked(r)' <=> Linked(r)) /\ (InPlace(r)' <=> InPlace(r))
  BY <1>1, SettledOnceAsked
<1>3. Place(r) /\ Traces(r) /\ Functions
  BY DEF MaterialInv
<1>4. acted' = acted /\ unheard' = unheard /\ answer[r] = "none"
  BY <1>1, <1>3 DEF Records, Answers, hist, Traces
<1> USE <1>2, <1>3, <1>4
<1> USE DEF Functions, GoesTo, WillAnswer, Ends, At, Place, Traces, Working, Firm, Kinds, Gated, Successes
<1>5. CASE Records(r)
  BY <1>5 DEF Records, Recorded, Stage, Kept, Advances
<1>6. CASE Answers(r)
  BY <1>6 DEF Answers, files, Stage, Kept, Advances
<1> QED
  BY <1>5, <1>6

LEMMA RequestsKeep ==
  ASSUME MaterialInv, NEW r \in Requests, Request(r)
  PROVE  MaterialInv' /\ Advances(r)
<1>1. Kept(r)
  BY AsksKeeps, PlainStepsKeep, LateStepsKeep, LastStepsKeep DEF Request
<1>2. \A q \in Requests \ {r} : Place(q)' /\ Traces(q)'
  BY OthersKeep
<1>3. Functions'
  BY FunctionsStay
<1> QED
  BY <1>1, <1>2, <1>3 DEF Kept, MaterialInv

---------------------------------------------------------------------------
LEMMA MaterialInitEstablishes == MaterialInit => MaterialInv
<1> SUFFICES ASSUME MaterialInit
             PROVE  MaterialInv
  OBVIOUS
<1>1. Functions
  BY DEF MaterialInit, Functions
<1>2. \A r \in Requests : Place(r)
  BY DEF MaterialInit, Place, Working, Kinds, Gated, Firm
<1>3. \A r \in Requests : Traces(r)
  BY DEF MaterialInit, Traces
<1> QED
  BY <1>1, <1>2, <1>3 DEF MaterialInv

\* The supervisor and whoever commits touch nothing a request relies on.
LEMMA BystandersKeep ==
  ASSUME MaterialInv, WriteStatus \/ Commit \/ UNCHANGED materialVars
  PROVE  /\ MaterialInv'
         /\ \A r \in Requests : (InPlace(r)' <=> InPlace(r)) /\ Stage(r)' = Stage(r)
<1>1. UNCHANGED <<pc, body, answer, outcome, proposals, ledger, acted, unheard>>
  BY DEF WriteStatus, Commit, materialVars, files, hist
<1>2. Functions'
  BY <1>1 DEF MaterialInv, Functions
<1>3. \A r \in Requests : Place(r)' /\ (InPlace(r)' <=> InPlace(r)) /\ Stage(r)' = Stage(r)
  BY <1>1 DEF MaterialInv, Place, Answered, Linked, InPlace, Stage
<1>4. \A r \in Requests : Traces(r)'
  BY <1>1, <1>3 DEF MaterialInv, Traces
<1> QED
  BY <1>2, <1>3, <1>4 DEF MaterialInv

LEMMA MaterialStepKeeps == MaterialInv /\ [MaterialNext]_materialVars => MaterialInv'
BY RequestsKeep, BystandersKeep DEF MaterialNext

\* Where every request is, and what was established before it got there, at all
\* times.
THEOREM MaterialInvHolds == MaterialSpec => []MaterialInv
BY MaterialInitEstablishes, MaterialStepKeeps, PTL DEF MaterialSpec

\* Whoever is told of a refusal finds nothing done in its name, except when the payment
\* provider acted and its answer was lost; what a failed deployment command may have
\* done is on the ledger before anyone is told (deploy_service, patch_service,
\* payments: every refusal comes before the command).
THEOREM RefusalsAreEmpty == MaterialSpec => []RefusedDidNothing
<1>1. MaterialInv => RefusedDidNothing
  BY DEF MaterialInv, Traces, RefusedDidNothing
<1> QED
  BY <1>1, MaterialInvHolds, PTL

---------------------------------------------------------------------------
LEMMA AbstractInit == MaterialInit => Abstract!Init
BY DEF MaterialInit, Abstract!Init, InPlace, Stage, Gated

\* A step of a request is a step of GatedAction, or none.
LEMMA RequestsAdvance ==
  ASSUME MaterialInv, NEW r \in Requests, Request(r)
  PROVE  [Abstract!Next]_(Abstract!vars)
<1>1. \A q \in Requests \ {r} : (InPlace(q)' <=> InPlace(q)) /\ Stage(q)' = Stage(q)
  BY OthersKeep
<1>2. Advances(r)
  BY RequestsKeep
<1> DEFINE allowed == {q \in Requests : InPlace(q)}
           stage == [q \in Requests |-> Stage(q)]
<1>3. CASE Stage(r)' = Stage(r) /\ (InPlace(r)' <=> InPlace(r))
  <2>1. UNCHANGED <<allowed, stage>>
    BY <1>1, <1>3
  <2> QED
    BY <2>1 DEF Abstract!vars
<1>4. CASE Stage(r)' = Stage(r) /\ ~InPlace(r) /\ InPlace(r)'
  <2>1. stage' = stage /\ r \notin allowed /\ allowed' = allowed \cup {r}
    BY <1>1, <1>4
  <2> QED
    BY <2>1 DEF Abstract!Next, Abstract!Sanction
<1>5. CASE Stage(r)' # Stage(r)
  <2>1. allowed' = allowed /\ stage' = [stage EXCEPT ![r] = Stage(r)']
    BY <1>1, <1>2, <1>5 DEF Advances
  <2>2. stage[r] = Stage(r) /\ (r \in allowed <=> InPlace(r))
    OBVIOUS
  <2>3. Abstract!Act(r) \/ Abstract!Record(r) \/ Abstract!Tell(r)
    BY <1>2, <1>5, <2>1, <2>2 DEF Advances, Abstract!Act, Abstract!Record, Abstract!Tell, Abstract!Advance
  <2> QED
    BY <2>3 DEF Abstract!Next
<1> QED
  BY <1>2, <1>3, <1>4, <1>5 DEF Advances

LEMMA AbstractStep ==
  MaterialInv /\ [MaterialNext]_materialVars => [Abstract!Next]_(Abstract!vars)
<1> SUFFICES ASSUME MaterialInv, [MaterialNext]_materialVars
             PROVE  [Abstract!Next]_(Abstract!vars)
  OBVIOUS
<1>1. CASE \E r \in Requests : Request(r)
  BY <1>1, RequestsAdvance
<1>2. CASE WriteStatus \/ Commit \/ UNCHANGED materialVars
  <2>1. \A r \in Requests : (InPlace(r)' <=> InPlace(r)) /\ Stage(r)' = Stage(r)
    BY <1>2, BystandersKeep
  <2>2. UNCHANGED <<{r \in Requests : InPlace(r)}, [r \in Requests |-> Stage(r)]>>
    BY <2>1
  <2> QED
    BY <2>2 DEF Abstract!vars
<1> QED
  BY <1>1, <1>2 DEF MaterialNext

\* The endpoints implement gated actions: for any number of requests, through every
\* interleaving and every break, nothing is done without its sanctions or twice,
\* and no success is told that is not on a ledger.
THEOREM EndpointsImplementGatedAction == MaterialSpec => ImplementsGatedAction
BY AbstractInit, AbstractStep, MaterialInvHolds, PTL
   DEF MaterialSpec, ImplementsGatedAction, Abstract!Spec

---------------------------------------------------------------------------
(* The workspace: what a patch that is about to be written stands on, and   *)
(* what has become of one that has been.                                    *)

Writes(r) == pc[r] = "write"
ToTheSameFile(q, r) == SameFile(body[q].hunk, body[r].hunk)
Overlapped(r) == FileOf[body[r].hunk] \in met

\* git apply holds a copy of the file with the change in it; unless applications to
\* this file have overlapped, nobody else holds one, and the file has not changed.
Stands(r) ==
  Writes(r) =>
    /\ \A g \in local[r] : SameFile(g, body[r].hunk)
    /\ ~Overlapped(r) =>
         /\ local[r] = {g \in tree : SameFile(g, body[r].hunk)} \cup {body[r].hunk}
         /\ \A q \in Requests \ {r} : ~(Writes(q) /\ ToTheSameFile(q, r))

\* What has been applied is in the tree from then on.
Remains(r) ==
  pc[r] \in {"record", "answer", "done"} /\ outcome[r] = "applied" =>
    body[r].hunk \in tree \/ Overlapped(r)

TreeInv == local = [q \in Requests |-> local[q]] /\ \A r \in Requests : Stands(r) /\ Remains(r)

\* A step of r that neither reads nor writes a file of the workspace.
Aside(r) ==
  /\ UNCHANGED <<tree, met>> /\ local' = [q \in Requests |-> local'[q]]
  /\ \A q \in Requests \ {r} : local'[q] = local[q]
  /\ pc'[r] # "write"
  /\ pc'[r] \in {"record", "answer", "done"} /\ outcome'[r] = "applied" =>
       pc[r] \in {"record", "answer"} /\ outcome[r] = "applied" /\ body'[r] = body[r]

LEMMA MostStepsAreAside ==
  ASSUME MaterialInv, TreeInv, NEW r \in Requests, Request(r), ~GitReads(r), ~GitWrites(r)
  PROVE  Aside(r)
<1>1. Place(r) /\ Functions /\ local = [q \in Requests |-> local[q]]
  BY DEF MaterialInv, TreeInv
<1> USE <1>1 DEF Aside, Functions, GoesTo, WillAnswer, Ends, At, OnlyRefuses, files, work, hist
<1>2. CASE Asks(r)
  <2>1. PICK b \in Bodies[r] :
          IF PassesGate(b) THEN GoesTo(r, b.kind) /\ outcome' = outcome ELSE Ends(r, "refused")
    BY <1>2 DEF Asks
  <2>2. b.kind \in Kinds
    BY MaterialAssumption DEF Body
  <2>3. UNCHANGED <<tree, met, local>>
    BY <1>2 DEF Asks
  <2>4. pc'[r] \in Kinds \/ (pc'[r] = "answer" /\ outcome'[r] = "refused")
    BY <2>1, <2>2
  <2> QED
    BY <2>3, <2>4 DEF Kinds, Gated
<1>3. CASE ScansProposal(r) \/ AppendsProposal(r) \/ NextStep(r) \/ Quarantine(r)
  BY <1>3 DEF ScansProposal, AppendsProposal, NextStep, Quarantine, Place
<1>4. CASE BuildChecks(r) \/ PatchChecks(r) \/ DeployGate(r) \/ CheckoutGate(r)
  BY <1>4 DEF BuildChecks, PatchChecks, DeployGate, CheckoutGate
<1>5. CASE RepoStatus(r) \/ ProphetChecks(r)
  BY <1>5 DEF RepoStatus, ProphetChecks
<1>6. CASE ProphetWrites(r) \/ Preflight(r) \/ Command(r) \/ StripeSession(r)
  BY <1>6 DEF ProphetWrites, Preflight, Command, StripeSession
<1>7. CASE Records(r)
  BY <1>7, BodyStays DEF Records, Request, Asks
<1>8. CASE Answers(r) \/ BreaksOff(r)
  BY <1>8 DEF Answers, BreaksOff
<1> QED
  BY <1>2, <1>3, <1>4, <1>5, <1>6, <1>7, <1>8 DEF Request

LEMMA AsideKeeps ==
  ASSUME MaterialInv, TreeInv, NEW r \in Requests, Request(r), Aside(r)
  PROVE  TreeInv'
<1>1. OthersUntouched(r)
  BY StepsAreOwn DEF MaterialInv
<1>2. ASSUME NEW q \in Requests
      PROVE  Writes(q)' => q # r /\ Writes(q) /\ body'[q] = body[q] /\ local'[q] = local[q]
  BY <1>1 DEF OthersUntouched, Untouched, Writes, Aside
<1>3. ASSUME NEW q \in Requests
      PROVE  Stands(q)'
  BY <1>2 DEF TreeInv, Stands, ToTheSameFile, Overlapped, SameFile, Aside
<1>4. ASSUME NEW q \in Requests
      PROVE  Remains(q)'
  BY <1>1 DEF OthersUntouched, Untouched, TreeInv, Remains, Overlapped, Aside
<1> QED
  BY <1>3, <1>4 DEF TreeInv, Aside

LEMMA GitReadsKeeps ==
  ASSUME MaterialInv, TreeInv, NEW r \in Requests, GitReads(r)
  PROVE  TreeInv'
<1>1. Request(r) /\ Functions /\ local = [q \in Requests |-> local[q]] /\ ~Asks(r)
  BY DEF MaterialInv, TreeInv, Request, GitReads, Asks, At
<1>2. OthersUntouched(r) /\ body' = body /\ tree' = tree
  BY <1>1, StepsAreOwn, BodyStays DEF MaterialInv, GitReads, work
<1> DEFINE h == body[r].hunk
<1>3. CASE ~Applies(h)
  <2>1. Aside(r)
    BY <1>1, <1>2, <1>3 DEF GitReads, Aside, Functions, GoesTo, WillAnswer
  <2> QED
    BY <1>1, <2>1, AsideKeeps
<1>4. CASE Applies(h)
  <2>1. /\ local' = [local EXCEPT ![r] = {g \in tree : SameFile(g, h)} \cup {h}]
        /\ pc'[r] = "write"
        /\ met' = met \cup {FileOf[h] : q \in {q \in Requests : Writes(q) /\ SameFile(body[q].hunk, h)}}
    BY <1>1, <1>4 DEF GitReads, Functions, GoesTo, Writes, Applying, At
  <2>2. met \subseteq met' /\ pc[r] = "apply"
    BY <2>1 DEF GitReads, At
  <2>3. ASSUME NEW q \in Requests \ {r}, Writes(q), SameFile(body[q].hunk, h)
        PROVE  FileOf[h] \in met'
    BY <2>1, <2>3
  <2>4. Stands(r)'
    BY <1>1, <1>2, <2>1, <2>3 DEF Stands, Overlapped, ToTheSameFile, SameFile, Writes, OthersUntouched, Untouched
  <2>5. ASSUME NEW q \in Requests \ {r}
        PROVE  Stands(q)'
    <3>1. pc'[q] = pc[q] /\ local'[q] = local[q] /\ Stands(q)
      BY <1>1, <1>2, <2>1 DEF OthersUntouched, Untouched, TreeInv
    <3>2. Writes(q) /\ ~Overlapped(q)' => ~Overlapped(q) /\ ~SameFile(body[r].hunk, body[q].hunk)
      BY <1>2, <2>2, <2>3 DEF Overlapped, SameFile
    <3>3. \A p \in Requests \ {r} : Writes(p)' <=> Writes(p)
      BY <1>2 DEF OthersUntouched, Untouched, Writes
    <3> QED
      BY <1>2, <3>1, <3>2, <3>3 DEF Stands, ToTheSameFile, SameFile, Writes, Overlapped
  <2>6. ASSUME NEW q \in Requests
        PROVE  Remains(q)'
    BY <1>2, <2>1, <2>2 DEF TreeInv, Remains, Overlapped, OthersUntouched, Untouched
  <2> QED
    BY <1>1, <2>1, <2>4, <2>5, <2>6 DEF TreeInv
<1> QED
  BY <1>3, <1>4

LEMMA GitWritesKeeps ==
  ASSUME MaterialInv, TreeInv, NEW r \in Requests, GitWrites(r)
  PROVE  TreeInv'
<1>1. Request(r) /\ Functions /\ local = [q \in Requests |-> local[q]] /\ ~Asks(r) /\ Writes(r) /\ Stands(r)
  BY DEF MaterialInv, TreeInv, Request, GitWrites, Asks, At, Writes
<1>2. OthersUntouched(r) /\ body' = body /\ met' = met
  BY <1>1, StepsAreOwn, BodyStays DEF MaterialInv, GitWrites
<1> DEFINE h == body[r].hunk
<1>3. /\ tree' = {g \in tree : ~SameFile(g, h)} \cup local[r]
      /\ local' = [local EXCEPT ![r] = {}]
      /\ pc'[r] = "record" /\ outcome'[r] = "applied"
  BY <1>1 DEF GitWrites, Functions, GoesTo, WillAnswer
<1>4. /\ \A g \in local[r] : SameFile(g, h)
      /\ ~Overlapped(r) => local[r] = {g \in tree : SameFile(g, h)} \cup {h}
  BY <1>1 DEF Stands
<1>5. ASSUME NEW q \in Requests \ {r}
      PROVE  Stands(q)'
  <2>1. pc'[q] = pc[q] /\ local'[q] = local[q] /\ Stands(q)
    BY <1>1, <1>2, <1>3 DEF OthersUntouched, Untouched, TreeInv
  <2>2. ASSUME Writes(q), ~Overlapped(q)
        PROVE  {g \in tree' : SameFile(g, body[q].hunk)} = {g \in tree : SameFile(g, body[q].hunk)}
    <3>1. ~SameFile(h, body[q].hunk)
      BY <1>1, <2>1, <2>2 DEF Stands, ToTheSameFile
    <3> QED
      BY <1>3, <1>4, <3>1 DEF SameFile
  <2>3. \A p \in Requests : Writes(p)' => Writes(p)
    BY <1>2, <1>3 DEF OthersUntouched, Untouched, Writes
  <2> QED
    BY <1>2, <2>1, <2>2, <2>3 DEF Stands, ToTheSameFile, SameFile, Writes, Overlapped
<1>6. Stands(r)' /\ Remains(r)'
  BY <1>2, <1>3, <1>4 DEF Stands, Remains, Writes, Overlapped
<1>7. ASSUME NEW q \in Requests \ {r}
      PROVE  Remains(q)'
  <2>1. body[q].hunk \in tree => body[q].hunk \in tree' \/ Overlapped(q)
    BY <1>3, <1>4 DEF Overlapped, SameFile
  <2> QED
    BY <1>2, <2>1 DEF TreeInv, Remains, Overlapped, OthersUntouched, Untouched
<1> QED
  BY <1>1, <1>3, <1>5, <1>6, <1>7 DEF TreeInv

LEMMA TreeStepKeeps == MaterialInv /\ TreeInv /\ [MaterialNext]_materialVars => TreeInv'
<1> SUFFICES ASSUME MaterialInv, TreeInv, [MaterialNext]_materialVars
             PROVE  TreeInv'
  OBVIOUS
<1>1. CASE \E r \in Requests : Request(r)
  BY <1>1, MostStepsAreAside, AsideKeeps, GitReadsKeeps, GitWritesKeeps
<1>2. CASE WriteStatus \/ Commit \/ UNCHANGED materialVars
  <2>1. UNCHANGED <<pc, body, outcome, local, tree, met>>
    BY <1>2 DEF WriteStatus, Commit, materialVars, work, hist
  <2> QED
    BY <2>1 DEF TreeInv, Stands, Remains, Writes, ToTheSameFile, Overlapped, SameFile
<1> QED
  BY <1>1, <1>2 DEF MaterialNext

THEOREM TreeInvHolds == MaterialSpec => []TreeInv
<1>1. MaterialInit => TreeInv
  BY DEF MaterialInit, TreeInv, Stands, Remains, Writes
<1> QED
  BY <1>1, TreeStepKeeps, MaterialInvHolds, PTL DEF MaterialSpec

\* A patch that was answered with "applied" is in the tree for good, unless two
\* applications to its file have overlapped (patch_service.py locks nothing, git
\* apply reads a file whole and writes it whole).
THEOREM AppliedIsAlwaysThere == MaterialSpec => []AppliedIsThere
<1>1. MaterialInv /\ TreeInv => AppliedIsThere
  BY DEF MaterialInv, Traces, TreeInv, Remains, Overlapped, AppliedIsThere
<1> QED
  BY <1>1, MaterialInvHolds, TreeInvHolds, PTL

---------------------------------------------------------------------------
(* The scan of a proposal: what it adds up, and what was wrong around it. *)

\* The default profile supervises every child the scan asks for; under the compact
\* and tiny profiles the children that are missing quarantine every proposal.
FullProfile == REQUIRED_CHILDREN \subseteq Children

StatusFiles ==
  /\ pid1 \in {Torn, Status(Children, Children), Status(Children, Children \ {Flaky})}
  /\ prophet \in {Absent, Torn, Report("pass"), Report("fail")}
  /\ refusals \in Nat

Harmless(r) == body[r].kind = "propose" /\ body[r].risks = {}
Troubles == {"children", "prophet", "refusals"}
Several(troubles) == troubles \subseteq Troubles /\ \E s, t \in troubles : s # t

\* A harmless proposal that is to be quarantined met with more than one trouble.
Sifted(r) ==
  Harmless(r) /\ pc[r] \in {"append", "record", "answer", "done"} /\ outcome[r] = "quarantined" => Several(trouble[r])

ScanInv == StatusFiles /\ trouble = [q \in Requests |-> trouble[q]] /\ \A r \in Requests : Sifted(r)

\* The sum over no antigen, and over one.
LEMMA TotalOfNone == Total({}) = 0
BY DEF Total, MapThenSumSet, MapThenFoldSet

LEMMA TotalOfOne ==
  ASSUME NEW a, Severity[a.kind] \in Int
  PROVE  Total({a}) = Severity[a.kind]
<1> DEFINE choose(s) == CHOOSE x \in s : TRUE
           f == [s \in SUBSET {a} |-> IF s = {} THEN 0 ELSE Severity[a.kind]]
           Folds(g) == g = [s \in SUBSET {a} |-> IF s = {} THEN 0 ELSE Severity[choose(s).kind] + g[s \ {choose(s)}]]
<1>1. SUBSET {a} = {{}, {a}}
  OBVIOUS
<1>2. choose({a}) = a
  OBVIOUS
<1>3. Folds(f)
  BY <1>1, <1>2
<1>4. Total({a}) = (CHOOSE g : Folds(g))[{a}]
  BY DEF Total, MapThenSumSet, MapThenFoldSet
<1>5. ASSUME NEW g, Folds(g)
      PROVE  g[{a}] = Severity[a.kind]
  <2>1. {} \in SUBSET {a} /\ {a} \in SUBSET {a} /\ {a} # {} /\ {a} \ {choose({a})} = {}
    BY <1>2
  <2>2. g[{}] = 0
    BY <1>5, <2>1
  <2>3. g[{a}] = Severity[choose({a}).kind] + g[{a} \ {choose({a})}]
    BY <1>5, <2>1
  <2> HIDE DEF choose, Folds
  <2>4. g[{a}] = Severity[a.kind] + 0
    BY <1>2, <2>1, <2>2, <2>3
  <2> QED
    BY <2>4
<1> QED
  BY <1>3, <1>4, <1>5

\* One trouble alone is one antigen at most, and one antigen of these kinds is no
\* more than a reason to watch.
LEMMA OneTroubleIsWatched ==
  ASSUME FullProfile, StatusFiles, ~Several(TroubleNow)
  PROVE  Scan({}, pid1, prophet, refusals) \in {"healthy", "watch"}
<1> DEFINE Slight == {"pid_child_missing", "pid_child_stopped", "prophet_failure", "repeated_refusal"}
           One(antigens) == antigens = {} \/ \E a : antigens = {a} /\ a.kind \in Slight
<1>1. TroubleNow \subseteq Troubles /\ \A s, t \in TroubleNow : s = t
  BY DEF TroubleNow, Several, Troubles
<1>2. /\ One(ChildAntigens(pid1))
      /\ "children" \notin TroubleNow => ChildAntigens(pid1) = {}
  <2>1. CASE pid1 = Torn
    <3>1. ChildAntigens(pid1) = {Antigen("pid_child_missing", "no json")} /\ "children" \in TroubleNow
      BY <2>1 DEF Torn, ChildAntigens, TroubleNow
    <3>2. Antigen("pid_child_missing", "no json").kind = "pid_child_missing"
      BY DEF Antigen
    <3> QED
      BY <3>1, <3>2
  <2>2. CASE pid1 = Status(Children, Children)
    <3>1. pid1.text = "whole" /\ REQUIRED_CHILDREN \ pid1.children = {}
          /\ (REQUIRED_CHILDREN \cap pid1.children) \ pid1.running = {}
      BY <2>2 DEF Status, FullProfile
    <3> QED
      BY <3>1 DEF ChildAntigens
  <2>3. CASE pid1 = Status(Children, Children \ {Flaky})
    <3>1. pid1.text = "whole" /\ pid1.children = Children /\ pid1.running = Children \ {Flaky}
      BY <2>3 DEF Status
    <3>2. ChildAntigens(pid1) =
            {Antigen("pid_child_stopped", c) : c \in (REQUIRED_CHILDREN \cap Children) \ (Children \ {Flaky})}
      BY <3>1 DEF ChildAntigens, FullProfile
    <3>3. ChildAntigens(pid1) \in {{}, {Antigen("pid_child_stopped", Flaky)}}
      BY <3>2
    <3>4. "children" \in TroubleNow
      BY <3>1 DEF TroubleNow
    <3> QED
      BY <3>3, <3>4 DEF Antigen
  <2> QED
    BY <2>1, <2>2, <2>3 DEF StatusFiles
<1>3. /\ One(ProphetAntigens(prophet))
      /\ "prophet" \notin TroubleNow => ProphetAntigens(prophet) = {}
  BY DEF ProphetAntigens, Antigen, TroubleNow
<1>4. /\ One(RefusalAntigens(refusals))
      /\ "refusals" \notin TroubleNow => RefusalAntigens(refusals) = {}
  BY DEF RefusalAntigens, Antigen, TroubleNow
<1> DEFINE antigens == Antigens({}, pid1, prophet, refusals)
<1>5. antigens = ChildAntigens(pid1) \cup ProphetAntigens(prophet) \cup RefusalAntigens(refusals)
  BY DEF Antigens
<1>6. One(antigens)
  <2> HIDE DEF One
  <2>1. antigens \in {{}, ChildAntigens(pid1), ProphetAntigens(prophet), RefusalAntigens(refusals)}
    BY <1>1, <1>2, <1>3, <1>4, <1>5
  <2>2. One({})
    BY DEF One
  <2> QED
    BY <1>2, <1>3, <1>4, <2>1, <2>2
<1>7. Total(antigens) \in 0..50
  <2> HIDE DEF antigens
  <2>1. CASE antigens = {}
    BY <2>1, TotalOfNone
  <2>2. ASSUME NEW a, antigens = {a}, a.kind \in Slight
        PROVE  Total(antigens) \in 0..50
    <3>1. Severity[a.kind] \in 0..50
      BY <2>2 DEF Severity
    <3> QED
      BY <2>2, <3>1, TotalOfOne
  <2> QED
    BY <1>6, <2>1, <2>2
<1>8. Scan({}, pid1, prophet, refusals) = State(Score(antigens))
  BY DEF Scan
<1>9. Score(antigens) \in 0..50
  <2> HIDE DEF antigens
  <2> QED
    BY <1>7 DEF Score
<1> QED
  BY <1>8, <1>9 DEF State

LEMMA StatusFilesStay ==
  ASSUME StatusFiles, NEW r \in Requests, Request(r)
  PROVE  StatusFiles'
<1> USE DEF StatusFiles, OnlyRefuses, files, work, hist
<1>1. CASE Asks(r) \/ ScansProposal(r) \/ AppendsProposal(r) \/ NextStep(r) \/ Quarantine(r)
  BY <1>1 DEF Asks, ScansProposal, AppendsProposal, NextStep, Quarantine
<1>2. CASE BuildChecks(r) \/ PatchChecks(r) \/ DeployGate(r) \/ CheckoutGate(r)
  BY <1>2 DEF BuildChecks, PatchChecks, DeployGate, CheckoutGate
<1>3. CASE GitReads(r) \/ GitWrites(r) \/ RepoStatus(r) \/ ProphetChecks(r) \/ ProphetWrites(r)
  BY <1>3 DEF GitReads, GitWrites, RepoStatus, ProphetChecks, ProphetWrites
<1>4. CASE Preflight(r) \/ Command(r) \/ StripeSession(r) \/ Records(r) \/ Answers(r) \/ BreaksOff(r)
  BY <1>4 DEF Preflight, Command, StripeSession, Records, Answers, BreaksOff
<1> QED
  BY <1>1, <1>2, <1>3, <1>4 DEF Request

\* Only a scan of its own says what was wrong, and only after one is a harmless
\* proposal to be quarantined.
LEMMA RequestsSift ==
  ASSUME FullProfile, MaterialInv, ScanInv, NEW r \in Requests, Request(r)
  PROVE  ScanInv'
<1>1. Place(r) /\ Functions /\ Sifted(r)
  BY DEF MaterialInv, ScanInv
<1>2. StatusFiles'
  BY StatusFilesStay DEF ScanInv
<1>3. CASE ScansProposal(r)
  <2>1. /\ trouble' = [trouble EXCEPT ![r] = TroubleNow] /\ body' = body /\ pc[r] = "propose"
        /\ outcome'[r] = IF ScanOf(r) \in {"inflamed", "quarantine"} THEN "quarantined" ELSE "recorded"
    BY <1>1, <1>3 DEF ScansProposal, WillAnswer, At, Functions
  <2>2. Harmless(r) /\ outcome'[r] = "quarantined" => Several(TroubleNow)
    BY <2>1, OneTroubleIsWatched DEF Harmless, ScanOf, ScanInv
  <2>3. Sifted(r)'
    BY <2>1, <2>2 DEF Sifted, Harmless, ScanInv
  <2> QED
    BY <1>2, <2>1, <2>3, StepsAreOwn DEF MaterialInv, ScanInv, OthersUntouched, Untouched, Sifted, Harmless
<1>4. CASE ~ScansProposal(r)
  <2>1. trouble' = trouble
    BY <1>4 DEF Request, Asks, AppendsProposal, NextStep, Quarantine, BuildChecks, PatchChecks, GitReads, GitWrites,
       DeployGate, RepoStatus, ProphetChecks, ProphetWrites, Preflight, Command, CheckoutGate, StripeSession,
       Records, Answers, BreaksOff, OnlyRefuses, hist
  <2>2. Sifted(r)'
    <3> USE <1>1, <2>1 DEF Functions, GoesTo, WillAnswer, Ends, At, Sifted, Harmless, Place
    <3>1. CASE Asks(r)
      <4>1. PICK b \in Bodies[r] :
              IF PassesGate(b) THEN GoesTo(r, b.kind) /\ outcome' = outcome ELSE Ends(r, "refused")
        BY <3>1 DEF Asks
      <4>2. b.kind \in Kinds
        BY MaterialAssumption DEF Body
      <4>3. pc'[r] \in Kinds \/ outcome'[r] = "refused"
        BY <4>1, <4>2
      <4> QED
        BY <4>3 DEF Kinds, Gated
    <3>2. CASE AppendsProposal(r)
      BY <3>2 DEF AppendsProposal
    <3>3. CASE NextStep(r) \/ Quarantine(r) \/ BuildChecks(r) \/ PatchChecks(r)
      BY <3>3 DEF NextStep, Quarantine, BuildChecks, PatchChecks, OnlyRefuses, Kinds, Gated
    <3>4. CASE GitReads(r) \/ GitWrites(r) \/ RepoStatus(r) \/ ProphetChecks(r) \/ BreaksOff(r)
      BY <3>4 DEF GitReads, GitWrites, RepoStatus, ProphetChecks, BreaksOff
    <3>5. CASE ProphetWrites(r) \/ Preflight(r) \/ Command(r) \/ StripeSession(r)
      BY <3>5 DEF ProphetWrites, Preflight, Command, StripeSession
    <3>6. CASE DeployGate(r) \/ CheckoutGate(r)
      BY <3>6 DEF DeployGate, CheckoutGate, OnlyRefuses
    <3>7. CASE Records(r) \/ Answers(r)
      BY <3>7 DEF Records, Answers
    <3> QED
      BY <1>4, <3>1, <3>2, <3>3, <3>4, <3>5, <3>6, <3>7 DEF Request
  <2> QED
    BY <1>2, <2>1, <2>2, StepsAreOwn DEF MaterialInv, ScanInv, OthersUntouched, Untouched, Sifted, Harmless
<1> QED
  BY <1>3, <1>4

LEMMA ScanStepKeeps ==
  ASSUME FullProfile
  PROVE  MaterialInv /\ ScanInv /\ [MaterialNext]_materialVars => ScanInv'
<1> SUFFICES ASSUME MaterialInv, ScanInv, [MaterialNext]_materialVars
             PROVE  ScanInv'
  OBVIOUS
<1>1. CASE \E r \in Requests : Request(r)
  BY <1>1, RequestsSift
<1>2. CASE WriteStatus \/ Commit \/ UNCHANGED materialVars
  <2>1. UNCHANGED <<pc, body, outcome, trouble, prophet, refusals>>
    BY <1>2 DEF WriteStatus, Commit, materialVars, files, hist
  <2>2. pid1' \in {pid1, Torn, Status(Children, Children), Status(Children, Children \ {Flaky})}
    <3>1. Children \ {} = Children
      OBVIOUS
    <3> QED
      BY <1>2, <3>1 DEF WriteStatus, Pid1Opens, Pid1Writes, Commit, materialVars, files
  <2> QED
    BY <2>1, <2>2 DEF ScanInv, StatusFiles, Sifted, Harmless
<1> QED
  BY <1>1, <1>2 DEF MaterialNext

THEOREM ScanInvHolds ==
  ASSUME FullProfile
  PROVE  MaterialSpec => []ScanInv
<1>1. MaterialInit => ScanInv
  BY MaterialAssumption DEF MaterialInit, ScanInv, StatusFiles, Sifted
<1> QED
  BY <1>1, ScanStepKeeps, MaterialInvHolds, PTL DEF MaterialSpec

\* Under the full profile no single trouble quarantines a proposal whose text matches
\* nothing, however many requests refuse, evaluate and scan at once (immune.py: each
\* weight alone stays within "watch").
THEOREM HarmlessIsAlwaysRecorded ==
  ASSUME FullProfile
  PROVE  MaterialSpec => []HarmlessIsRecorded
<1>1. ASSUME NEW troubles, Several(troubles)
      PROVE  Cardinality(troubles) >= 2
  <2>1. PICK s \in troubles, t \in troubles : s # t
    BY <1>1 DEF Several
  <2>2. IsFiniteSet(Troubles)
    <3>1. IsFiniteSet({"children"} \cup {"prophet"} \cup {"refusals"})
      BY FS_Singleton, FS_AddElement
    <3>2. Troubles = {"children"} \cup {"prophet"} \cup {"refusals"}
      BY DEF Troubles
    <3> QED
      BY <3>1, <3>2
  <2>3. IsFiniteSet(troubles) /\ {s, t} \subseteq troubles
    BY <1>1, <2>1, <2>2, FS_Subset DEF Several
  <2>4. Cardinality({s, t}) = 2
    <3>1. Cardinality({s} \cup {t}) = Cardinality({s}) + 1
      BY <2>1, FS_Singleton, FS_AddElement
    <3>2. {s} \cup {t} = {s, t}
      OBVIOUS
    <3>3. Cardinality({s}) = 1
      BY FS_Singleton, Zenon
    <3>4. Cardinality({s, t}) = 1 + 1
      BY <3>1, <3>2, <3>3, Zenon
    <3> QED
      BY <3>4
  <2> QED
    BY <2>3, <2>4, FS_Subset, FS_CardinalityType
<1>2. MaterialInv /\ ScanInv => HarmlessIsRecorded
  BY <1>1 DEF MaterialInv, Traces, ScanInv, Sifted, Harmless, HarmlessIsRecorded
<1> QED
  BY <1>2, MaterialInvHolds, ScanInvHolds, PTL
===============================================================================

------------------------------- MODULE Material -------------------------------
(***************************************************************************)
(* The material endpoints of cortex/web.py from the gate of proposals on   *)
(* (authentication is module SignIn), and the same services behind the     *)
(* role servers of cortex/service_server.py, which have no such gate:      *)
(* trust_boundary, patch_service, build_loop, deploy_service, payments,    *)
(* prophet.  Every request has a thread; what a step reads and what it     *)
(* writes is one access to a file, one command, or one decision between.   *)
(***************************************************************************)
EXTENDS Immune, Sequences

CONSTANTS
  Requests,          \* a proposal is named after the request that records it
  Bodies,            \* [Requests -> SUBSET Body]
  Hunks,             \* the changes patches make
  FileOf,            \* [Hunks -> the file a change is in]
  Needs,             \* [Hunks -> the changes its context consists of]
  Children,          \* what process 1 supervises (CORTEX_PROFILE)
  Flaky,             \* one of them, which may stop and come back
  RequireProposals,  \* CORTEX_REQUIRE_PROPOSAL_IDS
  ProposalWindow,    \* how many lines latest() reads; the code's 10_000
  OldRefusals,       \* lines refusals.jsonl has from before
  Commits,           \* bound: how often the workspace is committed
  Breaks             \* bound: how many requests break off

Gated == {"patch", "build", "railway", "forge", "checkout", "quarantine"}
Kinds == Gated \cup {"propose", "next_step", "evaluate"}
CapabilityOf ==
  [k \in Gated |-> CASE k = "patch" -> "patch:apply" [] k = "build" -> "build:apply"
                     [] k = "checkout" -> "payments:checkout" [] k = "quarantine" -> "immune:quarantine"
                     [] OTHER -> "deploy:execute"]
Undeclared == "any"   \* an intent without this key

\* direct: sent to a role server.  valid: passes the static checks (protected
\* paths and size of a patch; amount, currency and purpose of a payment).
\* path: what next_step asks for, or the path a proposal declares; capability: what
\* a proposal declares.  expects: the commit a deployment expects, 0 for none.
Body == [kind : Kinds, direct : BOOLEAN, witness : BOOLEAN, confirmed : BOOLEAN, valid : BOOLEAN,
         risks : SUBSET Risks, hunk : Hunks, path : Gated \cup {Undeclared},
         capability : {CapabilityOf[k] : k \in Gated} \cup {Undeclared},
         proposal : Requests \cup {"none"}, expects : 0..(Commits + 1)]

ASSUME MaterialAssumption ==
  /\ Bodies \in [Requests -> SUBSET Body] /\ "none" \notin Requests
  /\ Flaky \in Children /\ ProposalWindow \in Nat \ {0}
  /\ OldRefusals \in Nat /\ Commits \in Nat /\ Breaks \in Nat
  /\ RequireProposals \in BOOLEAN

VARIABLES
  pc, body, answer,   \* of each request
  outcome,            \* [Requests -> what it is going to answer]
  local,              \* [Requests -> what it has read and not yet used]
  proposals,          \* model-proposals.jsonl
  refusals,           \* lines of refusals.jsonl
  ledger,             \* the requests with a line on a ledger of what they came to
  pid1, prophet,      \* runtime/pid1.json, runtime/prophet/latest.json
  tree, committed,    \* the changes in the workspace; those in its last commit
  head,               \* the number of the last commit
  acted,              \* history: the requests whose effect has happened
  met,                \* history: the files two applications of patches to which overlapped
  trouble,            \* history: [Requests -> what was wrong when it scanned]
  unheard,            \* history: the requests whose provider acted without answering
  breaks

files == <<proposals, refusals, ledger, pid1, prophet>>
work == <<tree, committed, head>>
hist == <<acted, met, trouble, unheard, breaks>>
materialVars == <<pc, body, answer, outcome, local, files, work, hist>>

At(r, where) == pc[r] = where
GoesTo(r, where) == pc' = [pc EXCEPT ![r] = where]
WillAnswer(r, what) == outcome' = [outcome EXCEPT ![r] = what]
Ends(r, what) == WillAnswer(r, what) /\ GoesTo(r, "answer")
Recorded(r) == ledger' = ledger \cup {r}

-----------------------------------------------------------------------------
(* Proposals *)

Window == {proposals[i] : i \in {j \in DOMAIN proposals : j + ProposalWindow > Len(proposals)}}

\* _validate_proposal
Links(p, path) ==
  /\ p.status = "recorded"
  /\ p.path \in {Undeclared, path}
  /\ p.capability \in {Undeclared, CapabilityOf[path]}

Valid(id, path) == \E p \in Window : p.id = id /\ Links(p, path)

\* do_POST: a material path needs its proposal first; there is no gate in front
\* of the role servers.
PassesGate(b) ==
  b.kind \in Gated /\ RequireProposals /\ ~b.direct => Valid(b.proposal, b.kind)

\* A proposal a request names has been answered with; others are not found.
Known(b) == b.proposal # "none" => At(b.proposal, "done") /\ body[b.proposal].kind = "propose"

Asks(r) ==
  /\ At(r, "idle")
  /\ \E b \in Bodies[r] :
       /\ Known(b) /\ body' = [body EXCEPT ![r] = b]
       /\ IF PassesGate(b) THEN GoesTo(r, b.kind) /\ outcome' = outcome ELSE Ends(r, "refused")
  /\ UNCHANGED <<answer, local, files, work, hist>>

ScanOf(r) == Scan(body[r].risks, pid1, prophet, refusals)

\* What is wrong around a scan: a supervised child that does not run or a status
\* file in the middle of a write, a prophet that has failed or is being
\* written, refusals.
TroubleNow ==
  {t \in {"children", "prophet", "refusals"} :
     CASE t = "children" -> pid1.text = "torn" \/ Flaky \notin pid1.running
       [] t = "prophet"  -> prophet.text = "torn" \/ prophet = Report("fail")
       [] t = "refusals" -> refusals >= 5}

\* record_proposal: the scan, then the line.
ScansProposal(r) ==
  /\ At(r, "propose")
  /\ WillAnswer(r, IF ScanOf(r) \in {"inflamed", "quarantine"} THEN "quarantined" ELSE "recorded")
  /\ trouble' = [trouble EXCEPT ![r] = TroubleNow]
  /\ GoesTo(r, "append")
  /\ UNCHANGED <<body, answer, local, files, work, acted, met, unheard, breaks>>

AppendsProposal(r) ==
  /\ At(r, "append")
  /\ proposals' = Append(proposals, [id |-> r, status |-> outcome[r], path |-> body[r].path,
                                     capability |-> body[r].capability])
  /\ GoesTo(r, "answer")
  /\ UNCHANGED <<body, answer, outcome, local, refusals, ledger, pid1, prophet, work, hist>>

\* next_step: an orchestration hint, on record, that executes nothing.
NextStep(r) ==
  /\ At(r, "next_step")
  /\ IF Valid(body[r].proposal, body[r].path) THEN Ends(r, "ready") /\ Recorded(r)
                                              ELSE Ends(r, "refused") /\ ledger' = ledger
  /\ UNCHANGED <<body, answer, local, proposals, refusals, pid1, prophet, work, hist>>

\* quarantine: two records, and nothing a later scan looks at.
Quarantine(r) ==
  /\ At(r, "quarantine") /\ Ends(r, "quarantined") /\ Recorded(r)
  /\ UNCHANGED <<body, answer, local, proposals, refusals, pid1, prophet, work, hist>>

-----------------------------------------------------------------------------
(* PatchService and BuildLoopService *)

Applies(h) == h \notin tree /\ Needs[h] \subseteq tree
SameFile(h, g) == FileOf[h] = FileOf[g]

\* What a step leaves alone that only decides and may file a refusal.
OnlyRefuses == UNCHANGED <<body, answer, local, proposals, ledger, pid1, prophet, work, acted, met, unheard, breaks>>

\* BuildLoopService.apply: its check scans the text of the patch and has it
\* checked; a patch the scan quarantines goes no further.
BuildChecks(r) ==
  /\ At(r, "build")
  /\ IF body[r].valid /\ Applies(body[r].hunk) /\ ScanOf(r) # "quarantine"
       THEN GoesTo(r, "patch") /\ outcome' = outcome
       ELSE Ends(r, "refused")
  /\ UNCHANGED <<refusals, trouble>> /\ OnlyRefuses

PatchChecksUnconfirmed(r) ==
  /\ At(r, "patch")
  /\ IF body[r].witness /\ body[r].valid /\ Applies(body[r].hunk)
       THEN GoesTo(r, "apply") /\ UNCHANGED <<outcome, refusals>>
       ELSE Ends(r, "refused") /\ refusals' = refusals + 1
  /\ UNCHANGED trouble /\ OnlyRefuses

\* PatchService.apply up to git apply --check.  A static refusal is no line of
\* refusals.jsonl.
PatchChecks(r) ==
  /\ At(r, "patch")
  /\ LET b == body[r]
         sanctioned == b.witness /\ b.confirmed
     IN  \/ /\ sanctioned /\ b.valid /\ Applies(b.hunk)
            /\ GoesTo(r, "apply") /\ UNCHANGED <<outcome, refusals>>
         \/ /\ sanctioned /\ ~b.valid
            /\ Ends(r, "refused") /\ refusals' = refusals
         \/ /\ ~sanctioned \/ (b.valid /\ ~Applies(b.hunk))
            /\ Ends(r, "refused") /\ refusals' = refusals + 1
  /\ UNCHANGED trouble /\ OnlyRefuses

Applying(r) == At(r, "write")

\* git apply reads the file, looks for the context once more and writes the file.
GitReads(r) ==
  /\ At(r, "apply")
  /\ LET h == body[r].hunk
     IN  IF Applies(h)
           THEN /\ local' = [local EXCEPT ![r] = {g \in tree : SameFile(g, h)} \cup {h}]
                /\ GoesTo(r, "write") /\ outcome' = outcome
                /\ met' = met \cup {FileOf[h] : q \in {q \in Requests : Applying(q) /\ SameFile(body[q].hunk, h)}}
           ELSE WillAnswer(r, "failed") /\ GoesTo(r, "record") /\ UNCHANGED <<local, met>>
  /\ UNCHANGED <<body, answer, files, work, acted, trouble, unheard, breaks>>

GitWritesElsewhere(r) ==
  /\ At(r, "write")
  /\ acted' = acted \cup {r} /\ WillAnswer(r, "applied") /\ GoesTo(r, "record")
  /\ UNCHANGED <<body, answer, local, files, work, met, trouble, unheard, breaks>>

GitWrites(r) ==
  /\ At(r, "write")
  /\ tree' = {g \in tree : ~SameFile(g, body[r].hunk)} \cup local[r]
  /\ local' = [local EXCEPT ![r] = {}] /\ acted' = acted \cup {r}
  /\ WillAnswer(r, "applied") /\ GoesTo(r, "record")
  /\ UNCHANGED <<body, answer, files, committed, head, met, trouble, unheard, breaks>>

-----------------------------------------------------------------------------
(* DeployService *)

\* railway and forge ask for a witness and a confirmation before anything else.
DeployGate(r) ==
  /\ At(r, "railway") \/ At(r, "forge")
  /\ IF ~(body[r].witness /\ body[r].confirmed) THEN Ends(r, "refused")
     ELSE GoesTo(r, IF At(r, "railway") THEN "repo_status" ELSE "command") /\ outcome' = outcome
  /\ UNCHANGED <<refusals, trouble>> /\ OnlyRefuses

\* RepoService.status: the first of the facts the preflight collects.
RepoStatus(r) ==
  /\ At(r, "repo_status")
  /\ local' = [local EXCEPT ![r] = IF tree # committed THEN {"dirty"} ELSE {}]
  /\ GoesTo(r, "evaluate")
  /\ UNCHANGED <<body, answer, outcome, files, work, hist>>

\* ProphetService.evaluate, asked for or as part of a preflight: its checks, which
\* raise on a status file that is no JSON, then write_text.
ProphetChecks(r) ==
  /\ At(r, "evaluate")
  /\ IF pid1.text = "torn" THEN GoesTo(r, "broken") /\ UNCHANGED <<local, prophet>>
     ELSE /\ local' = [local EXCEPT ![r] = @ \cup {Evaluate(pid1)}]
          /\ prophet' = Torn /\ GoesTo(r, "prophet_write")
  /\ UNCHANGED <<body, answer, outcome, proposals, refusals, ledger, pid1, work, hist>>

ProphetWrites(r) ==
  /\ At(r, "prophet_write")
  /\ prophet' = Report(IF "pass" \in local[r] THEN "pass" ELSE "fail")
  /\ IF body[r].kind = "railway" THEN GoesTo(r, "preflight") /\ outcome' = outcome
     ELSE Ends(r, IF "pass" \in local[r] THEN "pass" ELSE "fail")
  /\ UNCHANGED <<body, answer, local, proposals, refusals, ledger, pid1, work, hist>>

\* check: the scan, the head, the blockers.
Preflight(r) ==
  /\ At(r, "preflight")
  /\ IF /\ "pass" \in local[r] /\ "dirty" \notin local[r]
        /\ ScanOf(r) \in {"healthy", "watch"}
        /\ body[r].expects \in {0, head}
       THEN GoesTo(r, "command") /\ outcome' = outcome
       ELSE Ends(r, "refused")
  /\ UNCHANGED <<body, answer, local, files, work, hist>>

\* The deployment command.  A non-zero return code says nothing of how far it has
\* come: forge/deploy.sh starts the container before its health check.
Command(r) ==
  /\ At(r, "command")
  /\ \/ acted' = acted \cup {r} /\ \E code \in {"deployed", "failed"} : WillAnswer(r, code)
     \/ acted' = acted /\ WillAnswer(r, "failed")
  /\ GoesTo(r, "record")
  /\ UNCHANGED <<body, answer, local, files, work, met, trouble, unheard, breaks>>

-----------------------------------------------------------------------------
(* PaymentService.checkout: the intent is on record before the provider is  *)
(* asked; no answer within 30 seconds is an exception and a refusal.        *)

CheckoutGate(r) ==
  /\ At(r, "checkout")
  /\ IF body[r].witness /\ body[r].confirmed /\ body[r].valid
       THEN GoesTo(r, "session") /\ outcome' = outcome
       ELSE Ends(r, "refused")
  /\ UNCHANGED <<refusals, trouble>> /\ OnlyRefuses

StripeSession(r) ==
  /\ At(r, "session")
  /\ \/ /\ acted' = acted \cup {r} /\ unheard' = unheard
        /\ WillAnswer(r, "checkout_created") /\ GoesTo(r, "record")
     \/ /\ acted' = acted \cup {r} /\ unheard' = unheard \cup {r}
        /\ Ends(r, "refused")
     \/ /\ UNCHANGED <<acted, unheard>>
        /\ Ends(r, "refused")
  /\ UNCHANGED <<body, answer, local, files, work, met, trouble, breaks>>

-----------------------------------------------------------------------------
Successes == {"applied", "deployed", "checkout_created"}

RecordsBuildAsRefused(r) ==
  /\ At(r, "record")
  /\ Recorded(r)
  /\ IF body[r].kind = "build" THEN Ends(r, "refused") ELSE GoesTo(r, "answer") /\ outcome' = outcome
  /\ UNCHANGED <<body, answer, local, proposals, refusals, pid1, prophet, work, hist>>

\* latest.json and the ledger line, of a failure too; BuildLoopService adds its own
\* of the same kind and calls everything a refusal that is not applied.
Records(r) ==
  /\ At(r, "record")
  /\ Recorded(r)
  /\ IF body[r].kind = "build" /\ outcome[r] = "failed" THEN Ends(r, "refused")
                                                         ELSE GoesTo(r, "answer") /\ outcome' = outcome
  /\ UNCHANGED <<body, answer, local, proposals, refusals, pid1, prophet, work, hist>>

Answers(r) ==
  /\ At(r, "answer") /\ GoesTo(r, "done")
  /\ answer' = [answer EXCEPT ![r] = outcome[r]]
  /\ UNCHANGED <<body, outcome, local, files, work, hist>>

\* A command that takes too long, a full disk, the end of the process: whatever the
\* step would have done may have happened, and nobody is answered.
BreaksOff(r) ==
  /\ breaks < Breaks /\ pc[r] \in {"append", "apply", "write", "prophet_write", "command", "session", "record"}
  /\ breaks' = breaks + 1 /\ GoesTo(r, "broken")
  /\ acted' = acted \cup (IF pc[r] \in {"command", "session"} THEN {r} ELSE {})
  /\ UNCHANGED <<body, answer, outcome, local, files, work, met, trouble, unheard>>

MaterialInit ==
  /\ pc = [r \in Requests |-> "idle"] /\ body = [r \in Requests |-> [kind |-> "none"]]
  /\ answer = [r \in Requests |-> "none"] /\ outcome = [r \in Requests |-> "none"]
  /\ local = [r \in Requests |-> {}]
  /\ proposals = <<>> /\ refusals = OldRefusals /\ ledger = {}
  /\ pid1 = Status(Children, Children) /\ prophet = Absent
  /\ tree = {} /\ committed = {} /\ head = 1
  /\ acted = {} /\ met = {} /\ trouble = [r \in Requests |-> {}] /\ unheard = {} /\ breaks = 0

Request(r) ==
  \/ Asks(r) \/ ScansProposal(r) \/ AppendsProposal(r) \/ NextStep(r) \/ Quarantine(r)
  \/ BuildChecks(r) \/ PatchChecks(r) \/ GitReads(r) \/ GitWrites(r)
  \/ DeployGate(r) \/ RepoStatus(r) \/ ProphetChecks(r) \/ ProphetWrites(r)
  \/ Preflight(r) \/ Command(r) \/ CheckoutGate(r) \/ StripeSession(r)
  \/ Records(r) \/ Answers(r) \/ BreaksOff(r)

\* CortexPID1.write_status, while the flaky child comes and goes.
Pid1Opens == pid1.text = "whole" /\ pid1' = Torn
Pid1Writes == pid1.text = "torn" /\ \E down \in {{}, {Flaky}} : pid1' = Status(Children, Children \ down)

WriteStatus ==
  /\ Pid1Opens \/ Pid1Writes
  /\ UNCHANGED <<pc, body, answer, outcome, local, proposals, refusals, ledger, prophet, work, hist>>

\* Somebody commits the workspace.
Commit ==
  /\ head <= Commits /\ tree # committed
  /\ committed' = tree /\ head' = head + 1
  /\ UNCHANGED <<pc, body, answer, outcome, local, files, tree, hist>>

MaterialNext == (\E r \in Requests : Request(r)) \/ WriteStatus \/ Commit

MaterialSpec == MaterialInit /\ [][MaterialNext]_materialVars

-----------------------------------------------------------------------------
\* Everything is in place for r: a witness, a confirmation, and where the gate
\* asks for one, a proposal that was scanned clean and declares nothing else.
InPlace(r) ==
  /\ body[r].kind \in Gated
  /\ body[r].witness /\ body[r].confirmed
  /\ RequireProposals /\ ~body[r].direct =>
       \E i \in DOMAIN proposals :
         LET p == proposals[i] IN
         /\ p.id = body[r].proposal /\ p.status # "quarantined"
         /\ p.path # Undeclared => p.path = body[r].kind
         /\ p.capability # Undeclared => p.capability = CapabilityOf[body[r].kind]

Stage(r) ==
  IF r \notin acted THEN "open"
  ELSE IF answer[r] \in Successes \cup {"failed"} THEN "told"
  ELSE IF r \in ledger THEN "recorded" ELSE "acted"

Abstract == INSTANCE GatedAction WITH
  Actions <- Requests, sanctioned <- {r \in Requests : InPlace(r)}, stage <- [r \in Requests |-> Stage(r)]

\* The endpoints implement gated actions (README.md: "Material actions must still
\* pass auth, signed intent, Guardian, witness, and ledger gates"): through every
\* interleaving and every break, nothing is done without its sanctions, or
\* twice for one request, and neither a success nor the failure of something begun
\* is told that is not on a ledger.
ImplementsGatedAction == Abstract!Spec

\* Who is told of a refusal finds nothing done in its name, except when the payment
\* provider acted and its answer was lost.  Who is told of a failure finds nothing
\* done either, except by a deployment command that came some of its way: then the
\* failure is on the ledger.
RefusedDidNothing ==
  \A r \in Requests : r \in acted =>
    /\ answer[r] = "refused" => r \in unheard
    /\ answer[r] = "failed" => body[r].kind \in {"railway", "forge"} /\ r \in ledger

\* A patch reported as applied is in the tree, unless applications to the same file
\* overlapped: neither the service nor git apply locks it.
AppliedIsThere ==
  \A r \in Requests : answer[r] = "applied" =>
    body[r].hunk \in tree \/ FileOf[body[r].hunk] \in met

\* No single trouble quarantines a proposal whose text matches nothing: not one
\* child that is down, not a failed prophet, not a file read while it is written,
\* and not all the refusals of the past.
HarmlessIsRecorded ==
  \A r \in Requests : answer[r] = "quarantined" /\ body[r].kind = "propose" /\ body[r].risks = {} =>
    Cardinality(trouble[r]) >= 2
===============================================================================

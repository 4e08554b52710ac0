-------------------------------- MODULE SignIn --------------------------------
(***************************************************************************)
(* cortex/auth.py and cortex/oauth.py behind the threads of                *)
(* ThreadingHTTPServer (cortex/web.py): who is let in, and the three JSON  *)
(* files that decide it.  Every change of a file is read, change, write,   *)
(* without a lock: write_text truncates the file when it opens it, and     *)
(* whoever reads it before the bytes are there finds no JSON and goes on   *)
(* with an empty dict.  A step is one access to a file, or one decision.   *)
(***************************************************************************)
EXTENDS Integers, FiniteSets

CONSTANTS
  Requests,        \* the requests; a state and a session are named after the
                   \* request that makes it
  Bodies,          \* [Requests -> SUBSET Body], what each may ask for
  TokenConfigured, \* CORTEX_AUTH_TOKEN is set
  OauthEnabled,    \* CORTEX_ENABLE_OAUTH_AUTH
  SignedRequired,  \* CORTEX_REQUIRE_SIGNED_INTENTS
  TokenGrants,     \* CORTEX_AUTH_CAPABILITIES
  OauthGrants,     \* CORTEX_OIDC_CAPABILITIES
  Capabilities,    \* those of PATH_CAPABILITIES the requests need
  MaxFailures,     \* CORTEX_AUTH_MAX_FAILURES
  CrashBound       \* bound: how often the server process dies

Bearers == {"none", "token", "wrong"} \cup Requests

\* What x-cortex-intent and its signature can be: absent, wrongly signed, too
\* old, signed for this path with a payload that names another, or good.
Intents == {"none", "forged", "expired", "mismatch", "good"}

\* login: GET /oauth/login or /oauth/start.  callback: GET /oauth/callback, of is
\* the login whose state it brings.  logout: POST /oauth/logout.  me: GET /oauth/me.
\* prepare: POST /oauth/intent.  act: a POST to a path with a capability.
Body == [kind : {"login", "callback", "logout", "me", "prepare", "act"}, of : Requests, bearer : Bearers,
         capability : Capabilities, intent : Intents]

ASSUME SignInAssumption ==
  /\ Bodies \in [Requests -> SUBSET Body]
  /\ {TokenConfigured, OauthEnabled, SignedRequired} \subseteq BOOLEAN
  /\ TokenGrants \subseteq Capabilities /\ OauthGrants \subseteq Capabilities
  /\ MaxFailures \in Nat \ {0} /\ CrashBound \in Nat

VARIABLES
  pc,        \* [Requests -> ...]
  body,      \* [Requests -> Body \cup {Unasked}]
  file,      \* [Files -> a text and the dict it is read as]
  hand,      \* [Requests -> the dict about to be written back]
  then,      \* [Requests -> where a request goes on when it has written]
  decision,  \* [Requests -> ...], what the gate answered
  failed,    \* the failures noted, numbered: the number is the timestamp
  aged,      \* failures up to this one have left the window
  stale,     \* states older than 600 seconds and sessions past expires_at
  cleared,   \* history: [Capabilities -> the last failure before the last clearing]
  made,      \* history: the sessions create_session has made
  ended,     \* history: the sessions logged out or dropped as expired
  lateFor,   \* history: [Requests -> the sessions logged out before it asked]
  met,       \* history: the files two updates of which overlapped
  lost,      \* history: the files a crash found in the middle of an update
  crashes

clockVars == <<failed, aged, stale>>
histVars == <<cleared, made, ended, lateFor, met, lost>>
vars == <<pc, body, file, hand, then, decision, clockVars, histVars, crashes>>

-----------------------------------------------------------------------------
(* Files.  A dict is the set of its entries: <<client, number>> for a       *)
(* failure's timestamp, a request for a state or a session.                 *)

Files == {"failures", "states", "sessions"}
FileOf == [note |-> "failures", clear |-> "failures", save |-> "states", pop |-> "states",
           create |-> "sessions", expire |-> "sessions", leave |-> "sessions"]

Whole(data) == [text |-> "whole", data |-> data]
Truncated == [text |-> "truncated", data |-> {}]
Mixed == [text |-> "mixed", data |-> {}]

\* _read_json and _read_failures: anything that is no JSON reads as the empty dict.
Read(f) == file[f].data

\* An update in progress: its file has been read and not yet written.
Updating(r, f) == pc[r] \in {<<s, u>> : s \in {"open", "write"}, u \in DOMAIN FileOf} /\ FileOf[pc[r][2]] = f

Overlaps(r, f) == IF \E q \in Requests \ {r} : Updating(q, f) THEN {f} ELSE {}

\* r has read the file of update u and is going to write data back, then go on
\* at next.
BeginsUpdate(r, u, data, next) ==
  /\ pc' = [pc EXCEPT ![r] = <<"open", u>>]
  /\ hand' = [hand EXCEPT ![r] = data] /\ then' = [then EXCEPT ![r] = next]
  /\ met' = met \cup Overlaps(r, FileOf[u])

GoesTo(r, next) == pc' = [pc EXCEPT ![r] = <<next, "">>]
At(r, where) == pc[r] = <<where, "">>

\* A request that read without changing anything goes on; what it read may have
\* been a file in the middle of another's update.
OnlyReads(r, f, next) ==
  /\ GoesTo(r, next) /\ met' = met \cup Overlaps(r, f)
  /\ UNCHANGED <<hand, then>>

Opens(r, u) ==
  /\ pc[r] = <<"open", u>>
  /\ pc' = [pc EXCEPT ![r] = <<"write", u>>]
  /\ file' = [file EXCEPT ![FileOf[u]] = Truncated]
  /\ UNCHANGED <<body, hand, then, decision, clockVars, histVars, crashes>>

\* If another has written since this request truncated the file, the shorter
\* text leaves a tail of the longer one behind it.
Writes(r, u) ==
  /\ pc[r] = <<"write", u>>
  /\ GoesTo(r, then[r])
  /\ hand' = [hand EXCEPT ![r] = {}] /\ then' = [then EXCEPT ![r] = "done"]
  /\ \E c \in {Whole(hand[r])} \cup (IF file[FileOf[u]] = Truncated THEN {} ELSE {Mixed}) :
       file' = [file EXCEPT ![FileOf[u]] = c]
  /\ made' = IF u = "create" THEN made \cup {r} ELSE made
  /\ ended' = IF u \in {"leave", "expire"} THEN ended \cup {body[r].bearer} ELSE ended
  /\ UNCHANGED <<body, decision, clockVars, cleared, lateFor, met, lost, crashes>>

-----------------------------------------------------------------------------
(* AuthService.check *)

Client(r) == body[r].capability   \* the rate key: address, actor, capability, path

InWindow(data, c) == {e \in data : e[1] = c /\ e[2] > aged}

\* _rate_limited, the dev-open mode, the bearer, the capability and the intent.
RateLimited(r) == Cardinality(InWindow(Read("failures"), Client(r))) >= MaxFailures

TokenIntentGood(i) == SignedRequired => i \in {"good", "mismatch"}

TokenAllows(r) ==
  /\ body[r].bearer = "token"
  /\ body[r].capability \in TokenGrants
  /\ TokenIntentGood(body[r].intent)

Decides(r, d) == decision' = [decision EXCEPT ![r] = d]

CheckToken(r) ==
  /\ At(r, "check")
  /\ IF RateLimited(r) THEN Decides(r, "limited") /\ GoesTo(r, "oauth")
     ELSE IF ~TokenConfigured THEN Decides(r, "open") /\ GoesTo(r, "done")
     ELSE IF TokenAllows(r) THEN Decides(r, "token") /\ GoesTo(r, "clear")
     ELSE Decides(r, "refused") /\ GoesTo(r, "note")
  /\ UNCHANGED <<body, file, hand, then, clockVars, histVars, crashes>>

Noted(r) == <<Client(r), Cardinality(failed) + 1>>

NoteFailureForgetting(r) ==
  /\ At(r, "note") /\ failed' = failed \cup {Noted(r)}
  /\ BeginsUpdate(r, "note", InWindow(Read("failures"), Client(r)) \cup {Noted(r)}, "oauth")
  /\ UNCHANGED <<body, file, decision, aged, stale, cleared, made, ended, lateFor, lost, crashes>>

\* _note_failure: of this client's failures, those outside the window go.
NoteFailure(r) ==
  /\ At(r, "note") /\ failed' = failed \cup {Noted(r)}
  /\ LET others == {e \in Read("failures") : e[1] # Client(r)}
         mine   == InWindow(Read("failures"), Client(r)) \cup {Noted(r)}
     IN  BeginsUpdate(r, "note", others \cup mine, "oauth")
  /\ UNCHANGED <<body, file, decision, aged, stale, cleared, made, ended, lateFor, lost, crashes>>

\* _clear_failures: nothing is written when there is nothing to clear.
ClearFailures(r) ==
  /\ At(r, "clear")
  /\ LET others == {e \in Read("failures") : e[1] # Client(r)}
     IN  IF others # Read("failures") THEN BeginsUpdate(r, "clear", others, "done")
                                      ELSE OnlyReads(r, "failures", "done")
  /\ cleared' = [cleared EXCEPT ![Client(r)] = Cardinality(failed)]
  /\ UNCHANGED <<body, file, decision, clockVars, made, ended, lateFor, lost, crashes>>

-----------------------------------------------------------------------------
(* OAuthService *)

OauthIntentGood(i) == SignedRequired => i = "good"

\* What the session is asked for: authorize, which do_POST calls after every
\* refusal, that of the rate limit included; intent_headers; me.
Asked(r) ==
  /\ body[r].kind \in {"act", "prepare"} => body[r].capability \in OauthGrants
  /\ body[r].kind = "act" => OauthIntentGood(body[r].intent)

\* check_session drops a session that it finds expired.
CheckSession(r) ==
  /\ At(r, "oauth")
  /\ LET found == /\ body[r].kind = "act" => OauthEnabled
                  /\ body[r].bearer \in Read("sessions")
         s == body[r].bearer
     IN  IF found /\ s \in stale
           THEN BeginsUpdate(r, "expire", Read("sessions") \ {s}, "done") /\ decision' = decision
           ELSE /\ OnlyReads(r, "sessions", "done")
                /\ IF found /\ Asked(r) THEN Decides(r, "session") ELSE decision' = decision
  /\ UNCHANGED <<body, file, clockVars, cleared, made, ended, lateFor, lost, crashes>>

Login(r) ==
  /\ At(r, "login")
  /\ BeginsUpdate(r, "save", Read("states") \cup {r}, "done")
  /\ UNCHANGED <<body, file, decision, clockVars, cleared, made, ended, lateFor, lost, crashes>>

CallbackKeepingState(r) ==
  /\ At(r, "callback")
  /\ LET good == body[r].of \in Read("states") \ stale
     IN  \E next \in IF good THEN {"create", "done"} ELSE {"done"} : OnlyReads(r, "states", next)
  /\ UNCHANGED <<body, file, decision, clockVars, cleared, made, ended, lateFor, lost, crashes>>

\* callback: the dict is written back whether the state was in it or not.
Callback(r) ==
  /\ At(r, "callback")
  /\ LET good == body[r].of \in Read("states") \ stale
     IN  \E next \in IF good THEN {"create", "done"} ELSE {"done"} :   \* the provider's answer
           BeginsUpdate(r, "pop", Read("states") \ {body[r].of}, next)
  /\ UNCHANGED <<body, file, decision, clockVars, cleared, made, ended, lateFor, lost, crashes>>

CreateSession(r) ==
  /\ At(r, "create")
  /\ BeginsUpdate(r, "create", Read("sessions") \cup {r}, "done")
  /\ UNCHANGED <<body, file, decision, clockVars, cleared, made, ended, lateFor, lost, crashes>>

LogoutUnwritten(r) ==
  /\ At(r, "logout")
  /\ OnlyReads(r, "sessions", "done")
  /\ ended' = ended \cup ({body[r].bearer} \cap Read("sessions"))
  /\ UNCHANGED <<body, file, decision, clockVars, cleared, made, lateFor, lost, crashes>>

Logout(r) ==
  /\ At(r, "logout")
  /\ IF body[r].bearer \in Read("sessions")
       THEN BeginsUpdate(r, "leave", Read("sessions") \ {body[r].bearer}, "done")
       ELSE OnlyReads(r, "sessions", "done")
  /\ UNCHANGED <<body, file, decision, clockVars, cleared, made, ended, lateFor, lost, crashes>>

-----------------------------------------------------------------------------
Unasked == [kind |-> "none"]

Init ==
  /\ pc = [r \in Requests |-> <<"idle", "">>] /\ body = [r \in Requests |-> Unasked]
  /\ file = [f \in Files |-> Whole({})]
  /\ hand = [r \in Requests |-> {}] /\ then = [r \in Requests |-> "done"]
  /\ decision = [r \in Requests |-> "none"]
  /\ failed = {} /\ aged = 0 /\ stale = {}
  /\ cleared = [c \in Capabilities |-> 0]
  /\ made = {} /\ ended = {} /\ lateFor = [r \in Requests |-> {}] /\ met = {} /\ lost = {}
  /\ crashes = 0

\* The browser comes back with the state a login has answered with; a bearer is a
\* session its callback has answered with.
Known(b) ==
  /\ b.kind = "callback" => At(b.of, "done") /\ body[b.of].kind = "login"
  /\ b.bearer \in Requests => At(b.bearer, "done") /\ b.bearer \in made

Asks(r) ==
  /\ At(r, "idle")
  /\ \E b \in Bodies[r] :
       /\ Known(b) /\ body' = [body EXCEPT ![r] = b]
       /\ GoesTo(r, CASE b.kind = "act" -> "check" [] b.kind \in {"me", "prepare"} -> "oauth"
                        [] OTHER -> b.kind)
  /\ lateFor' = [lateFor EXCEPT ![r] = ended]
  /\ UNCHANGED <<file, hand, then, decision, clockVars, cleared, made, ended, met, lost, crashes>>

Step(r) ==
  \/ Asks(r) \/ CheckToken(r) \/ NoteFailure(r) \/ ClearFailures(r)
  \/ CheckSession(r) \/ Login(r) \/ Callback(r) \/ CreateSession(r) \/ Logout(r)
  \/ \E u \in DOMAIN FileOf : Opens(r, u) \/ Writes(r, u)

\* Time: the oldest failure leaves the window, a state or a session expires.
FailureAges ==
  /\ aged < Cardinality(failed) /\ aged' = aged + 1
  /\ UNCHANGED <<pc, body, file, hand, then, decision, failed, stale, histVars, crashes>>

Expires ==
  /\ \E x \in Requests \ stale :
       (x \in Read("states") \/ x \in Read("sessions")) /\ stale' = stale \cup {x}
  /\ UNCHANGED <<pc, body, file, hand, then, decision, failed, aged, histVars, crashes>>

Busy(r) == pc[r][1] \notin {"idle", "done"}

\* The process dies with all its threads; the files stay as they are.  (With no
\* update in progress that is the same as no thread going on.)
Crash ==
  /\ crashes < CrashBound /\ \E r \in Requests, f \in Files : Updating(r, f)
  /\ crashes' = crashes + 1
  /\ pc' = [r \in Requests |-> IF Busy(r) THEN <<"dropped", "">> ELSE pc[r]]
  /\ hand' = [r \in Requests |-> {}] /\ then' = [r \in Requests |-> "done"]
  /\ lost' = lost \cup {f \in Files : \E r \in Requests : Updating(r, f)}
  /\ UNCHANGED <<body, file, decision, clockVars, cleared, made, ended, lateFor, met>>

Next == \/ \E r \in Requests : Step(r)
        \/ FailureAges \/ Expires \/ Crash

Spec == Init /\ [][Next]_vars

-----------------------------------------------------------------------------
\* Unless two updates of a file overlapped or a crash broke one off, and while
\* nobody is updating it, the sessions on file are exactly those made and neither
\* logged out nor dropped, and what counts against a client are exactly its
\* failures within the window since it last got in.
Settled(f) == f \notin met \cup lost /\ \A r \in Requests : ~Updating(r, f)

FilesFollow ==
  /\ Settled("sessions") => file["sessions"] = Whole(made \ ended)
  /\ Settled("failures") => \A c \in Capabilities :
       InWindow(file["failures"].data, c) = {e \in InWindow(failed, c) : e[2] > cleared[c]}

\* A login is good for one session, unless two callbacks of it overlapped.
LoginServesOnce ==
  "states" \notin met =>
    \A l \in Requests : Cardinality({r \in made : body[r].of = l}) <= 1

\* Whoever is let in by a session holds one that a callback made, and that was
\* not logged out or dropped before the request was asked, unless two updates of
\* the file overlapped; crashes do not bring a session back.
EntryIsCurrent ==
  \A r \in Requests : decision[r] = "session" =>
    /\ body[r].bearer \in made
    /\ body[r].bearer \in lateFor[r] => "sessions" \in met
===============================================================================

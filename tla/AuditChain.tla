------------------------------ MODULE AuditChain ------------------------------
(***************************************************************************)
(* cortex/audit_sink.py: the hash-chained file of audit events, shared by  *)
(* every process that runs a CortexRuntime.  append() reads the whole file *)
(* for the hash of its last event and then appends one line; nothing is    *)
(* locked.  A write may be cut short (the process dies, the disk is full). *)
(* run() swallows whatever append() raises, so a writer simply goes on.    *)
(***************************************************************************)
EXTENDS Integers, Sequences, FiniteSets, SequencesExt, Functions

CONSTANTS
  Writers,      \* the processes that append
  EventBound,   \* bound: how many events are ever begun
  TearBound,    \* bound: how many writes are cut short
  DamageBound   \* bound: how often somebody edits the file

ASSUME AuditAssumption == {EventBound, TearBound, DamageBound} \subseteq Nat

VARIABLES
  log,          \* the lines of the file
  open,         \* the last line lacks its newline
  hand,         \* [Writers -> Event \cup {NoEvent}], made of the hash just read
  begun,        \* how many events were begun
  overtaken,    \* history: the writers behind whose back another has written
  crossed,          \* history: an overtaken writer has written
  returned,     \* history: the events whose append returned
  written,      \* history: the events in the order of their lines
  tears, damage \* counters of the two bounds

fileVars == <<log, open>>
histVars == <<overtaken, crossed, returned, written>>
auditVars == <<fileVars, hand, begun, histVars, tears, damage>>

-----------------------------------------------------------------------------
(* SHA-256 over the canonical JSON of an event tells apart everything that  *)
(* goes into it: the event's own content and the previous hash.  The hash   *)
(* is modelled by just that, the chain of contents it stands for.           *)

GENESIS_HASH == <<>>
ComputeHash(e) == Append(e.previous, e.content)

Contents == 1..(EventBound + DamageBound)
Event == [content : Contents, previous : Seq(Contents), hash : Seq(Contents)]
NoEvent == [content |-> 0]
TornEvent == [content |-> -1]    \* a line json.loads does not take

Readable == \A i \in DOMAIN log : log[i] # TornEvent

LastHash == IF log = <<>> THEN GENESIS_HASH ELSE Last(log).hash

NewEventUnchained(content) ==
  LET e == [content |-> content, previous |-> GENESIS_HASH, hash |-> <<>>]
  IN  [e EXCEPT !.hash = ComputeHash(e)]

NewEvent(content) ==
  LET e == [content |-> content, previous |-> LastHash, hash |-> <<>>]
  IN  [e EXCEPT !.hash = ComputeHash(e)]

\* verify: "raises" is the JSONDecodeError of read_events.
PreviousMismatch(i) == log[i].previous # IF i = 1 THEN GENESIS_HASH ELSE log[i - 1].hash

HashMismatch(i) == log[i].hash # ComputeHash(log[i])

Verdict ==
  IF ~Readable THEN "raises"
  ELSE IF \E i \in DOMAIN log : PreviousMismatch(i) \/ HashMismatch(i) THEN "invalid"
  ELSE "valid"

\* What write(2) makes of the file when it gets the bytes `line`: they start a
\* line of their own only if the last one was ended.
Onto(line) == IF open THEN Append(Front(log), TornEvent) ELSE Append(log, line)

-----------------------------------------------------------------------------
AuditInit ==
  /\ log = <<>> /\ open = FALSE
  /\ hand = [w \in Writers |-> NoEvent] /\ begun = 0
  /\ overtaken = {} /\ crossed = FALSE /\ returned = {} /\ written = <<>>
  /\ tears = 0 /\ damage = 0

\* append up to the moment the file is opened for writing; last_hash raises on
\* a file that is not readable.
Begins(w) ==
  /\ hand[w] = NoEvent /\ begun < EventBound
  /\ begun' = begun + 1
  /\ hand' = [hand EXCEPT ![w] = IF Readable THEN NewEvent(begun + 1) ELSE NoEvent]
  /\ overtaken' = overtaken \ {w}
  /\ UNCHANGED <<fileVars, crossed, returned, written, tears, damage>>

\* Somebody has written: whoever holds an event made earlier is overtaken.
Overtakes(w) ==
  /\ overtaken' = overtaken \cup {v \in Writers \ {w} : hand[v] # NoEvent}
  /\ crossed' = (crossed \/ w \in overtaken)
  /\ hand' = [hand EXCEPT ![w] = NoEvent]

\* The rest of append: the line is written whole, and the event returned.
Writes(w) ==
  /\ hand[w] # NoEvent
  /\ log' = Onto(hand[w]) /\ open' = FALSE
  /\ written' = Append(written, hand[w]) /\ returned' = returned \cup {hand[w]}
  /\ Overtakes(w)
  /\ UNCHANGED <<begun, tears, damage>>

\* Only a part of the line reaches the disk: some of the event, or all of it
\* without the newline.  close() raises, or the process is gone.
TearsLine(w) ==
  /\ hand[w] # NoEvent /\ tears < TearBound
  /\ \/ log' = Onto(TornEvent) /\ written' = written
     \/ log' = Onto(hand[w]) /\ written' = Append(written, hand[w])
  /\ open' = TRUE /\ tears' = tears + 1
  /\ Overtakes(w)
  /\ UNCHANGED <<begun, returned, damage>>

\* The process dies between reading and writing.
Dies(w) ==
  /\ hand[w] # NoEvent
  /\ hand' = [hand EXCEPT ![w] = NoEvent] /\ overtaken' = overtaken \ {w}
  /\ UNCHANGED <<fileVars, begun, crossed, returned, written, tears, damage>>

\* Somebody edits the file, without a hash to match.
Damaged(newLog) ==
  /\ damage < DamageBound /\ damage' = damage + 1
  /\ log' = newLog
  /\ UNCHANGED <<open, hand, begun, histVars, tears>>

Modified(i) == [log EXCEPT ![i].content = EventBound + damage + 1]
Reordered(i) == [log EXCEPT ![i] = log[i + 1], ![i + 1] = log[i]]

Damage ==
  /\ Readable /\ ~open
  /\ \/ \E i \in DOMAIN log : Damaged(Modified(i)) \/ Damaged(RemoveAt(log, i))
     \/ \E i \in 1..Len(log) - 1 : Damaged(Reordered(i))

AuditNext ==
  \/ \E w \in Writers : Begins(w) \/ Writes(w) \/ TearsLine(w) \/ Dies(w)
  \/ Damage

AuditSpec == AuditInit /\ [][AuditNext]_auditVars

-----------------------------------------------------------------------------
\* The verdict on a file nobody has edited says exactly what its writers did to
\* each other: it is valid if and only if no append read the last hash before
\* another one wrote and wrote after it, and raises only if a write was cut.
VerdictIsExact ==
  damage = 0 =>
    /\ Readable => (Verdict = "valid" <=> ~crossed)
    /\ ~Readable => tears > 0

\* A file that verifies, whatever was done to it, tells of events that were all
\* written as it has them and in the order it has them: a modified or a
\* reordered record is found, also after overlapping appends.
VerifiedIsTrue ==
  Verdict = "valid" =>
    \A j \in DOMAIN log : \E q \in DOMAIN written :
      /\ written[q] = log[j]
      /\ \A i \in 1..j - 1 : \E p \in 1..q - 1 : written[p] = log[i]

VerdictsAreTrue == VerdictIsExact /\ VerifiedIsTrue
===============================================================================

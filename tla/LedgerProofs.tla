----------------------------- MODULE LedgerProofs -----------------------------
(***************************************************************************)
(* What files of lines are worth as evidence.                              *)
(*                                                                         *)
(* AuditChain: what the verdict on the audit file says, for any number of  *)
(* writers, events, torn writes and edits of the file.                     *)
(*                                                                         *)
(* Invocation: what the action and refusal ledgers tell of a request, for  *)
(* any number of requests and however often the role servers and the web   *)
(* server do the same work.  What a server does late it does for a call    *)
(* that is still among the accepted ones, so the invariant counts a call   *)
(* under way like the line it may still become.                            *)
(***************************************************************************)
EXTENDS AuditChain, Invocation, SequenceTheorems, WellFoundedInduction, TLAPS

---------------------------------------------------------------------------
(* The audit file *)

Line == Event \cup {TornEvent}

Types ==
  /\ log \in Seq(Line) /\ written \in Seq(Event) /\ hand \in [Writers -> Event \cup {NoEvent}]
  /\ open \in BOOLEAN /\ (open => log # <<>>)
  /\ begun \in 0..EventBound /\ tears \in Nat /\ damage \in Nat

\* A hash that one of the first n events on disk was given.
Given(h, n) == \E p \in 1..n : p \in DOMAIN written /\ written[p].hash = h

\* What an event was made of, and after which others.
MadeAfter(e, n) ==
  /\ e.hash = ComputeHash(e)
  /\ e.previous = GENESIS_HASH \/ Given(e.previous, n)

\* Nobody can make a hash: whatever was done to the file, every hash in it is one
\* that append gave to an event, which it made of a hash given before.
Genuine ==
  /\ \A w \in Writers : hand[w] # NoEvent => MadeAfter(hand[w], Len(written))
  /\ \A q \in DOMAIN written : MadeAfter(written[q], q - 1)
  /\ \A i \in DOMAIN log : log[i] # TornEvent => Given(log[i].hash, Len(written))

\* The contents of events are told apart, on the file and in the hands of writers.
Fresh ==
  /\ \A i \in DOMAIN log : log[i].content <= begun
  /\ \A w \in Writers : hand[w] # NoEvent =>
       /\ hand[w].content <= begun
       /\ \A i \in DOMAIN log : log[i].content # hand[w].content
       /\ \A v \in Writers \ {w} : hand[v] # NoEvent => hand[v].content # hand[w].content

\* Who is overtaken holds the hash of an earlier event, and nobody else does.
Behind ==
  /\ \A i \in DOMAIN log : log[i].hash = ComputeHash(log[i])
  /\ \A w \in Writers : hand[w] # NoEvent =>
       /\ w \in overtaken <=> hand[w].previous # LastHash
       /\ hand[w].previous = GENESIS_HASH \/ \E i \in DOMAIN log : hand[w].previous = log[i].hash
  /\ crossed <=> \E i \in DOMAIN log : PreviousMismatch(i)

Unedited ==
  damage = 0 => /\ open \/ ~Readable => tears > 0
                /\ Readable => Fresh /\ Behind

AuditInv == Types /\ Genuine /\ Unedited

---------------------------------------------------------------------------
(* Hashes and numbers. *)

LEMMA TornIsNoEvent == TornEvent \notin Event /\ NoEvent \notin Event
<1>1. \A c \in Contents : c > 0
  BY AuditAssumption DEF Contents
<1>2. \A e \in Event : e.content > 0
  BY <1>1 DEF Event
<1>3. ~(TornEvent.content > 0) /\ ~(NoEvent.content > 0)
  BY DEF TornEvent, NoEvent
<1> QED
  BY <1>2, <1>3

LEMMA HashTells ==
  ASSUME NEW a \in Event, NEW b \in Event, ComputeHash(a) = ComputeHash(b)
  PROVE  a.content = b.content /\ a.previous = b.previous
<1>1. PICK s \in Seq(Contents), t \in Seq(Contents), c \in Contents, d \in Contents :
        s = a.previous /\ t = b.previous /\ c = a.content /\ d = b.content
  BY DEF Event
<1>2. Append(s, c) = Append(t, d)
  BY <1>1 DEF ComputeHash
<1>3. c = d /\ Len(s) = Len(t) /\ \A i \in 1..Len(s) : s[i] = t[i]
  <2>1. /\ Len(Append(s, c)) = Len(s) + 1 /\ Append(s, c)[Len(s) + 1] = c
        /\ \A i \in 1..Len(s) : Append(s, c)[i] = s[i]
    OBVIOUS
  <2>2. /\ Len(Append(t, d)) = Len(t) + 1 /\ Append(t, d)[Len(t) + 1] = d
        /\ \A i \in 1..Len(t) : Append(t, d)[i] = t[i]
    OBVIOUS
  <2> QED
    BY <1>2, <2>1, <2>2
<1>4. s = t
  BY <1>3
<1> QED
  BY <1>1, <1>3, <1>4

LEMMA HashOfEvent ==
  ASSUME NEW e \in Event
  PROVE  /\ ComputeHash(e) \in Seq(Contents) /\ ComputeHash(e) # GENESIS_HASH
         /\ Len(ComputeHash(e)) \in Nat \ {0} /\ ComputeHash(e)[Len(ComputeHash(e))] = e.content
BY DEF Event, ComputeHash, GENESIS_HASH

\* An event is what its hash says, if the hash is its own.
LEMMA SameHashSameEvent ==
  ASSUME NEW a \in Event, NEW b \in Event, a.hash = b.hash,
         a.hash = ComputeHash(a), b.hash = ComputeHash(b)
  PROVE  a = b
<1>1. a.content = b.content /\ a.previous = b.previous
  BY HashTells
<1>2. /\ a = [content |-> a.content, previous |-> a.previous, hash |-> a.hash]
      /\ b = [content |-> b.content, previous |-> b.previous, hash |-> b.hash]
  BY DEF Event
<1> QED
  BY <1>1, <1>2

Below == {ss \in Nat \X Nat : ss[1] < ss[2]}

LEMMA LeastNumber ==
  ASSUME NEW T \in SUBSET Nat, T # {}
  PROVE  \E x \in T : \A y \in T : x <= y
<1>1. IsWellFoundedOn(Below, Nat)
  BY NatLessThanWellFounded, Zenon DEF OpToRel, Below
<1>2. PICK x \in T : \A y \in T : ~ (<<y, x>> \in Below)
  BY <1>1, WFMin
<1>3. ASSUME NEW y \in T
      PROVE  x <= y
  <2>1. x \in Nat /\ y \in Nat /\ ~ (<<y, x>> \in Below)
    BY <1>2
  <2>2. <<y, x>> \in Below <=> y < x
    BY <2>1 DEF Below
  <2> QED
    BY <2>1, <2>2
<1> QED
  BY <1>3

---------------------------------------------------------------------------
(* The verdict. *)

LEMMA VerdictSays ==
  /\ Verdict = "valid" <=> Readable /\ \A i \in DOMAIN log : ~PreviousMismatch(i) /\ ~HashMismatch(i)
  /\ Readable <=> Verdict # "raises"
BY DEF Verdict

LEMMA VerifiedLinesWereWritten ==
  ASSUME Types, Genuine, Verdict = "valid"
  PROVE  VerifiedIsTrue
<1>1. /\ \A i \in DOMAIN log : log[i] \in Event /\ log[i].hash = ComputeHash(log[i])
      /\ \A i \in DOMAIN log : i > 1 => log[i].previous = log[i - 1].hash
      /\ log \in Seq(Line) /\ written \in Seq(Event) /\ DOMAIN log = 1..Len(log) /\ Len(log) \in Nat
      /\ DOMAIN written = 1..Len(written) /\ Len(written) \in Nat
  BY VerdictSays DEF Types, Line, Readable, HashMismatch, PreviousMismatch
<1>2. ASSUME NEW i \in DOMAIN log, NEW n \in Nat, Given(log[i].hash, n)
      PROVE  \E p \in 1..n : p \in DOMAIN written /\ written[p] = log[i]
  <2>1. PICK p \in 1..n : p \in DOMAIN written /\ written[p].hash = log[i].hash
    BY <1>2 DEF Given
  <2>2. written[p] \in Event /\ written[p].hash = ComputeHash(written[p])
    BY <1>1, <2>1 DEF Genuine, MadeAfter
  <2>3. written[p] = log[i]
    BY <1>1, <2>1, <2>2, SameHashSameEvent
  <2> QED
    BY <2>1, <2>3
<1>3. ASSUME NEW i \in DOMAIN log, i > 1, NEW p \in DOMAIN written, written[p] = log[i]
      PROVE  \E o \in 1..p - 1 : o \in DOMAIN written /\ written[o] = log[i - 1]
  <2>1. i - 1 \in DOMAIN log /\ log[i].previous = log[i - 1].hash /\ p - 1 \in Nat
    BY <1>1, <1>3
  <2>2. log[i].previous # GENESIS_HASH
    BY <1>1, <2>1, HashOfEvent
  <2>3. Given(log[i - 1].hash, p - 1)
    BY <1>3, <2>1, <2>2 DEF Genuine, MadeAfter
  <2> QED
    BY <1>2, <2>1, <2>3
<1>4. ASSUME NEW j \in DOMAIN log
      PROVE  \E q \in DOMAIN written :
               written[q] = log[j] /\ \A i \in 1..j - 1 : \E p \in 1..q - 1 : written[p] = log[i]
  <2>0. Given(log[j].hash, Len(written))
    BY VerdictSays DEF Genuine, Readable
  <2>1. PICK q \in DOMAIN written : written[q] = log[j]
    BY <1>1, <1>2, <2>0
  <2> DEFINE Found(d) == \E p \in 1..q - 1 : p \in DOMAIN written /\ written[p] = log[j - d]
             Lost == {d \in Nat : d \in 1..j - 1 /\ ~Found(d)}
  <2>2. Lost = {}
    <3> SUFFICES ASSUME Lost # {} PROVE FALSE
      OBVIOUS
    <3>1. Lost \in SUBSET Nat
      OBVIOUS
    <3> HIDE DEF Lost
    <3>2. PICK d \in Lost : \A e \in Lost : d <= e
      BY <3>1, LeastNumber
    <3> USE DEF Lost
    <3>3. d \in 1..j - 1 /\ ~Found(d) /\ j \in Nat
      BY <1>1, <3>2
    <3>4. CASE d = 1
      BY <1>1, <1>3, <2>1, <3>3, <3>4
    <3>5. CASE d # 1
      <4>1. d - 1 \in 1..j - 1 /\ d - 1 \in Nat /\ d - 1 \notin Lost
        BY <3>2, <3>3, <3>5
      <4>2. PICK p \in 1..q - 1 : p \in DOMAIN written /\ written[p] = log[j - (d - 1)]
        BY <4>1
      <4>3. j - (d - 1) \in DOMAIN log /\ j - (d - 1) > 1 /\ j - (d - 1) - 1 = j - d
        <5>1. DOMAIN log = 1..Len(log) /\ Len(log) \in Nat /\ j \in 1..Len(log)
          BY <1>1
        <5>2. d \in 1..j - 1 /\ d # 1
          BY <3>3, <3>5
        <5> HIDE DEF Lost, Found
        <5> QED
          BY <5>1, <5>2
      <4>4. PICK o \in 1..p - 1 : o \in DOMAIN written /\ written[o] = log[j - d]
        BY <1>3, <4>2, <4>3
      <4>5. q \in Nat /\ \A x \in 1..q - 1 : \A y \in 1..x - 1 : y \in 1..q - 1
        BY <1>1, <2>1
      <4>6. o \in 1..q - 1 /\ o \in DOMAIN written /\ written[o] = log[j - d]
        BY <4>2, <4>4, <4>5
      <4>7. Found(d)
        BY <4>6
      <4> QED
        BY <3>3, <4>7
    <3> QED
      BY <3>4, <3>5
  <2>3. ASSUME NEW i \in 1..j - 1
        PROVE  \E p \in 1..q - 1 : written[p] = log[i]
    <3>1. j - i \in 1..j - 1 /\ j - i \in Nat /\ j - (j - i) = i
      BY <1>1
    <3>2. Found(j - i)
      BY <2>2, <3>1
    <3> QED
      BY <3>1, <3>2
  <2> QED
    BY <2>1, <2>3
<1> QED
  BY <1>4 DEF VerifiedIsTrue

LEMMA InvMakesVerdictsTrue == AuditInv => VerdictsAreTrue
<1> SUFFICES ASSUME AuditInv PROVE VerdictsAreTrue
  OBVIOUS
<1>1. VerifiedIsTrue
  <2>1. CASE Verdict = "valid"
    BY <2>1, VerifiedLinesWereWritten DEF AuditInv
  <2> QED
    BY <2>1 DEF VerifiedIsTrue
<1>2. VerdictIsExact
  BY VerdictSays DEF AuditInv, Unedited, Behind, VerdictIsExact, HashMismatch
<1> QED
  BY <1>1, <1>2 DEF VerdictsAreTrue

---------------------------------------------------------------------------
(* The steps. *)

LEMMA AuditInitEstablishes == ASSUME AuditInit PROVE AuditInv
<1> USE DEF AuditInit
<1>1. Types
  <2>1. EventBound \in Nat
    BY AuditAssumption
  <2>2. log \in Seq(Line) /\ written \in Seq(Event)
    OBVIOUS
  <2>3. hand \in [Writers -> Event \cup {NoEvent}]
    OBVIOUS
  <2> HIDE DEF AuditInit
  <2>4. begun \in 0..EventBound /\ tears \in Nat /\ damage \in Nat /\ open = FALSE
    BY <2>1 DEF AuditInit
  <2> QED
    BY <2>2, <2>3, <2>4 DEF Types
<1>2. Genuine
  BY DEF Genuine
<1>3. Unedited
  BY DEF Unedited, Fresh, Behind, Readable
<1> QED
  BY <1>1, <1>2, <1>3 DEF AuditInv

\* More events on disk take no hash away.
LEMMA GivenStays ==
  ASSUME NEW h, NEW n \in Nat, Given(h, n),
         \A p \in DOMAIN written : p \in DOMAIN written' /\ written'[p] = written[p]
  PROVE  \A m \in Nat : n <= m => Given(h, m)'
BY DEF Given

\* What is true of a file nobody has edited stays true when the file, and what is
\* in the hands of the writers, does.
LEMMA DiesKeeps ==
  ASSUME AuditInv, NEW w \in Writers, Dies(w)
  PROVE  AuditInv'
<1>1. /\ Types /\ Genuine /\ Unedited
      /\ UNCHANGED <<log, open, begun, crossed, written, tears, damage>>
      /\ overtaken' = overtaken \ {w} /\ hand' = [hand EXCEPT ![w] = NoEvent]
  BY DEF AuditInv, Dies, fileVars
<1>2. hand' \in [Writers -> Event \cup {NoEvent}] /\ hand'[w] = NoEvent /\ \A v \in Writers \ {w} : hand'[v] = hand[v]
  BY <1>1 DEF Types
<1>3. Types'
  BY <1>1, <1>2 DEF Types
<1>4. Genuine'
  BY <1>1, <1>2 DEF Genuine, MadeAfter, Given
<1>5. Readable' = Readable /\ LastHash' = LastHash /\ \A i \in DOMAIN log : PreviousMismatch(i)' = PreviousMismatch(i)
  BY <1>1 DEF Readable, LastHash, PreviousMismatch
<1>6. Fresh => Fresh'
  BY <1>1, <1>2 DEF Fresh
<1>7. Behind => Behind'
  BY <1>1, <1>2, <1>5 DEF Behind
<1>8. Unedited'
  BY <1>1, <1>5, <1>6, <1>7 DEF Unedited
<1> QED
  BY <1>3, <1>4, <1>8 DEF AuditInv

LEMMA BeginsKeeps ==
  ASSUME AuditInv, NEW w \in Writers, Begins(w)
  PROVE  AuditInv'
<1>1. /\ Types /\ Genuine /\ Unedited /\ begun < EventBound /\ begun' = begun + 1 /\ hand[w] = NoEvent
      /\ UNCHANGED <<log, open, crossed, written, tears, damage>>
      /\ overtaken' = overtaken \ {w}
      /\ hand' = [hand EXCEPT ![w] = IF Readable THEN NewEvent(begun + 1) ELSE NoEvent]
  BY DEF AuditInv, Begins, fileVars
<1>2. Readable' = Readable /\ LastHash' = LastHash /\ \A i \in DOMAIN log : PreviousMismatch(i)' = PreviousMismatch(i)
  BY <1>1 DEF Readable, LastHash, PreviousMismatch
<1>3. \A v \in Writers \ {w} : hand'[v] = hand[v]
  BY <1>1 DEF Types
<1>4. PICK e : e = NewEvent(begun + 1)
  OBVIOUS
<1>5. ASSUME Readable
      PROVE  /\ e \in Event /\ e.content = begun + 1 /\ e.previous = LastHash /\ e.hash = ComputeHash(e)
             /\ e.previous = GENESIS_HASH \/ Given(e.previous, Len(written))
             /\ e.previous = GENESIS_HASH \/ \E i \in DOMAIN log : e.previous = log[i].hash
  <2>1. LastHash = GENESIS_HASH \/ \E i \in DOMAIN log : LastHash = log[i].hash /\ log[i] \in Event
    BY <1>1, <1>5 DEF LastHash, Last, Types, Line, Readable
  <2>2. LastHash \in Seq(Contents)
    <3>1. GENESIS_HASH \in Seq(Contents)
      BY DEF GENESIS_HASH
    <3>2. \A i \in DOMAIN log : log[i] \in Event => log[i].hash \in Seq(Contents)
      BY DEF Event
    <3> QED
      BY <2>1, <3>1, <3>2
  <2>3. LastHash = GENESIS_HASH \/ Given(LastHash, Len(written))
    BY <1>1, <1>5, <2>1 DEF Genuine, Readable
  <2>4. begun + 1 \in Contents
    BY <1>1, AuditAssumption DEF Contents, Types
  <2>5. e = [content |-> begun + 1, previous |-> LastHash, hash |-> Append(LastHash, begun + 1)]
    BY <1>4 DEF NewEvent, ComputeHash
  <2>6. e \in Event
    BY <2>2, <2>4, <2>5 DEF Event
  <2>7. e.content = begun + 1 /\ e.previous = LastHash /\ e.hash = ComputeHash(e)
    BY <2>5 DEF ComputeHash
  <2> QED
    BY <2>1, <2>3, <2>6, <2>7
<1>6. hand'[w] = IF Readable THEN e ELSE NoEvent
  BY <1>1, <1>4 DEF Types
<1>7. hand' \in [Writers -> Event \cup {NoEvent}]
  BY <1>1, <1>4, <1>5 DEF Types
<1>8. Types'
  <2>1. EventBound \in Nat /\ begun + 1 \in 0..EventBound
    BY <1>1, AuditAssumption DEF Types
  <2> QED
    BY <1>1, <1>7, <2>1 DEF Types
<1>9. Genuine'
  <2>1. \A v \in Writers : hand'[v] # NoEvent => MadeAfter(hand'[v], Len(written))
    BY <1>1, <1>3, <1>5, <1>6 DEF Genuine, MadeAfter
  <2> QED
    BY <1>1, <2>1 DEF Genuine, MadeAfter, Given
<1>10. ASSUME Readable, Fresh
       PROVE  Fresh'
  <2>1. begun \in Nat
    BY <1>1, AuditAssumption DEF Types
  <2>2. \A i \in DOMAIN log : log[i] \in Event /\ log[i].content \in Int
    BY <1>1, <1>10, AuditAssumption DEF Types, Line, Readable, Event, Contents
  <2>3. \A v \in Writers : hand[v] # NoEvent => hand[v].content \in Int
    BY <1>1, AuditAssumption DEF Types, Event, Contents
  <2> QED
    BY <1>1, <1>3, <1>5, <1>6, <1>10, <2>1, <2>2, <2>3 DEF Fresh
<1>11. ASSUME Readable, Behind
       PROVE  Behind'
  BY <1>1, <1>2, <1>3, <1>5, <1>6, <1>11 DEF Behind
<1>12. Unedited'
  BY <1>1, <1>2, <1>10, <1>11 DEF Unedited
<1> QED
  BY <1>8, <1>9, <1>12 DEF AuditInv

LEMMA AppendedLine ==
  ASSUME NEW s \in Seq(Line), NEW e \in Line
  PROVE  /\ Append(s, e) \in Seq(Line) /\ Append(s, e) # <<>>
         /\ Len(Append(s, e)) = Len(s) + 1 /\ DOMAIN Append(s, e) = 1..Len(s) + 1
         /\ \A i \in 1..Len(s) : Append(s, e)[i] = s[i]
         /\ Append(s, e)[Len(s) + 1] = e
<1>1. Append(s, e) \in Seq(Line) /\ Len(Append(s, e)) = Len(s) + 1
  BY AppendProperties
<1>2. DOMAIN Append(s, e) = 1..Len(s) + 1
  BY <1>1
<1> QED
  BY <1>1, <1>2, AppendProperties

\* What a line written at the end of the file leaves of the file before it.
LEMMA OntoKeeps ==
  ASSUME Types, NEW line \in Line
  PROVE  /\ Onto(line) \in Seq(Line) /\ Onto(line) # <<>>
         /\ Len(Onto(line)) = IF open THEN Len(log) ELSE Len(log) + 1
         /\ \A i \in DOMAIN Onto(line) : Onto(line)[i] = IF i < Len(Onto(line)) THEN log[i]
                                                       ELSE IF open THEN TornEvent ELSE line
<1>1. TornEvent \in Line
  BY DEF Line
<1>2. CASE open
  <2>1. log \in Seq(Line) /\ Len(log) \in Nat /\ Len(log) > 0
    BY <1>2 DEF Types
  <2>2. Front(log) \in Seq(Line) /\ Len(Front(log)) = Len(log) - 1
        /\ \A i \in 1..Len(log) - 1 : Front(log)[i] = log[i]
    <3>1. PICK m \in Nat : m = Len(log) - 1
      BY <2>1
    <3>2. Front(log) = SubSeq(log, 1, m)
      BY <3>1 DEF Front
    <3>3. Front(log) = [i \in 1..m |-> log[i]]
      BY <2>1, <3>1, <3>2
    <3>4. \A i \in 1..m : log[i] \in Line
      BY <2>1, <3>1
    <3>5. Front(log) \in Seq(Line)
      BY <3>1, <3>3, <3>4
    <3>6. Len(Front(log)) = m
      BY <3>1, <3>3
    <3> QED
      BY <3>1, <3>3, <3>5, <3>6
  <2>3. Onto(line) = Append(Front(log), TornEvent)
    BY <1>2 DEF Onto
  <2>4. PICK k \in Nat : k = Len(log) /\ k > 0 /\ Len(Front(log)) + 1 = k
    BY <2>1, <2>2
  <2>5. /\ Onto(line) \in Seq(Line) /\ Onto(line) # <<>> /\ Len(Onto(line)) = k /\ DOMAIN Onto(line) = 1..k
        /\ Onto(line)[k] = TornEvent /\ \A i \in 1..k - 1 : Onto(line)[i] = log[i]
    BY <1>1, <2>2, <2>3, <2>4, AppendedLine
  <2>6. ASSUME NEW i \in DOMAIN Onto(line)
        PROVE  Onto(line)[i] = IF i < Len(Onto(line)) THEN log[i] ELSE TornEvent
    BY <2>5
  <2> QED
    BY <1>2, <2>4, <2>5, <2>6
<1>3. CASE ~open
  <2>1. PICK k \in Nat : k = Len(log) + 1 /\ Len(log) \in Nat /\ log \in Seq(Line)
    BY DEF Types
  <2>2. Onto(line) = Append(log, line)
    BY <1>3 DEF Onto
  <2>3. /\ Onto(line) \in Seq(Line) /\ Onto(line) # <<>> /\ Len(Onto(line)) = k /\ DOMAIN Onto(line) = 1..k
        /\ Onto(line)[k] = line /\ \A i \in 1..k - 1 : Onto(line)[i] = log[i]
    BY <2>1, <2>2, AppendedLine
  <2>4. ASSUME NEW i \in DOMAIN Onto(line)
        PROVE  Onto(line)[i] = IF i < Len(Onto(line)) THEN log[i] ELSE line
    BY <2>3
  <2> QED
    BY <1>3, <2>1, <2>3, <2>4
<1> QED
  BY <1>2, <1>3 DEF Types

\* Writer w puts a line at the end of the file: its event, or what a torn write
\* leaves of it.
Puts(w, line) ==
  /\ hand[w] # NoEvent /\ line \in {hand[w], TornEvent}
  /\ log' = Onto(line) /\ Overtakes(w)
  /\ written' = IF line = TornEvent THEN written ELSE Append(written, line)
  /\ open' \in BOOLEAN /\ tears' \in Nat /\ tears' >= tears
  /\ open' \/ line = TornEvent => tears' > 0
  /\ UNCHANGED <<begun, damage>>

LEMMA PutsKeeps ==
  ASSUME AuditInv, NEW w \in Writers, NEW line, Puts(w, line)
  PROVE  AuditInv'
<1>1. /\ Types /\ Genuine /\ Unedited
      /\ hand[w] # NoEvent /\ line \in {hand[w], TornEvent} /\ log' = Onto(line)
      /\ written' = IF line = TornEvent THEN written ELSE Append(written, line)
      /\ open' \in BOOLEAN /\ tears' \in Nat /\ tears' >= tears
      /\ open' \/ line = TornEvent => tears' > 0
      /\ UNCHANGED <<begun, damage>>
      /\ overtaken' = overtaken \cup {v \in Writers \ {w} : hand[v] # NoEvent}
      /\ crossed' = (crossed \/ w \in overtaken) /\ hand' = [hand EXCEPT ![w] = NoEvent]
  BY DEF AuditInv, Puts, Overtakes
<1>2. /\ hand[w] \in Event /\ hand[w] # TornEvent /\ line \in Line
      /\ \A i \in DOMAIN log : log[i] # TornEvent => log[i] \in Event
  BY <1>1, TornIsNoEvent DEF Types, Line
<1>3. /\ hand' \in [Writers -> Event \cup {NoEvent}] /\ hand'[w] = NoEvent
      /\ \A v \in Writers \ {w} : hand'[v] = hand[v]
  BY <1>1 DEF Types
<1>4. PICK n \in Nat : n = Len(log') /\ DOMAIN log' = 1..n /\ log' \in Seq(Line) /\ log' # <<>>
  BY <1>1, <1>2, OntoKeeps
<1>5. /\ n = IF open THEN Len(log) ELSE Len(log) + 1
      /\ \A i \in 1..n - 1 : i \in DOMAIN log /\ log'[i] = log[i]
      /\ n > 0 /\ log'[n] = IF open THEN TornEvent ELSE line
  <2>1. Len(log) \in Nat /\ DOMAIN log = 1..Len(log) /\ open \in BOOLEAN
    BY <1>1 DEF Types
  <2>2. n = IF open THEN Len(log) ELSE Len(log) + 1
    BY <1>1, <1>2, <1>4, OntoKeeps
  <2>3. n > 0
    BY <1>4
  <2>4. \A i \in 1..n : log'[i] = IF i < n THEN log[i] ELSE IF open THEN TornEvent ELSE line
    BY <1>1, <1>2, <1>4, OntoKeeps
  <2>5. log'[n] = IF open THEN TornEvent ELSE line
    BY <2>3, <2>4
  <2>6. ASSUME NEW i \in 1..n - 1
        PROVE  i \in DOMAIN log /\ log'[i] = log[i]
    <3>1. i \in Nat /\ 0 < i /\ i < n
      BY <1>4
    <3>2. i \in 1..n /\ i \in 1..Len(log)
      <4>1. i \in 1..n
        BY <1>4, <3>1
      <4>2. PICK k \in Nat : k = Len(log)
        BY <2>1
      <4>3. n = k \/ n = k + 1
        BY <2>2, <4>2
      <4>4. i \in 1..k
        BY <1>4, <3>1, <4>3
      <4> QED
        BY <4>1, <4>2, <4>4
    <3>3. log'[i] = IF i < n THEN log[i] ELSE IF open THEN TornEvent ELSE line
      BY <2>4, <3>2
    <3>4. log'[i] = log[i]
      BY <3>1, <3>3
    <3> QED
      BY <2>1, <3>2, <3>4
  <2> QED
    BY <2>2, <2>3, <2>5, <2>6
<1>6. Types'
  BY <1>1, <1>2, <1>3, <1>4 DEF Types
<1>7. /\ \A p \in DOMAIN written : p \in DOMAIN written' /\ written'[p] = written[p]
      /\ Len(written) \in Nat /\ Len(written') \in Nat /\ Len(written) <= Len(written')
      /\ line # TornEvent => Len(written') = Len(written) + 1 /\ DOMAIN written' = DOMAIN written \cup {Len(written) + 1}
                             /\ written'[Len(written) + 1] = line
      /\ DOMAIN written = 1..Len(written)
  BY <1>1, <1>2 DEF Types
<1>8. Genuine'
  <2>1. \A e, m, k : m \in Nat /\ k \in Nat /\ m <= k /\ MadeAfter(e, m) => MadeAfter(e, k)'
    BY <1>7, GivenStays DEF MadeAfter
  <2>2. \A v \in Writers : hand'[v] # NoEvent => MadeAfter(hand'[v], Len(written))
    BY <1>1, <1>3 DEF Genuine
  <2>3. ASSUME NEW v \in Writers, hand'[v] # NoEvent
        PROVE  MadeAfter(hand[v], Len(written))' /\ hand'[v] = hand[v]
    <3>1. PICK e : e = hand[v]
      OBVIOUS
    <3>2. PICK k \in Nat : k = Len(written')
      BY <1>7
    <3>3. hand'[v] = e /\ MadeAfter(e, k)'
      BY <1>3, <1>7, <2>1, <2>2, <2>3, <3>1, <3>2
    <3> QED
      BY <3>1, <3>2, <3>3 DEF MadeAfter
  <2>4. ASSUME NEW q \in DOMAIN written'
        PROVE  MadeAfter(written[q], q - 1)'
    <3>1. PICK e : e = written'[q]
      OBVIOUS
    <3>2. q - 1 \in Nat
      BY <1>1, <1>7
    <3>3. MadeAfter(e, q - 1)
      <4>1. CASE q \in DOMAIN written
        BY <1>1, <1>7, <3>1, <4>1 DEF Genuine
      <4>2. CASE q \notin DOMAIN written
        BY <1>1, <1>2, <1>7, <3>1, <4>2 DEF Genuine
      <4> QED
        BY <4>1, <4>2
    <3>4. MadeAfter(e, q - 1)'
      BY <2>1, <3>2, <3>3
    <3> QED
      BY <3>1, <3>4 DEF MadeAfter
  <2>5. ASSUME NEW i \in DOMAIN log', log'[i] # TornEvent
        PROVE  Given(log[i].hash, Len(written))'
    <3>0. PICK h : h = log'[i].hash
      OBVIOUS
    <3>1. PICK k \in Nat : h = log'[i].hash /\ k = Len(written')
      BY <1>7, <3>0
    <3>2. CASE i < n
      <4>1. Given(h, Len(written))
        BY <1>1, <1>4, <1>5, <2>5, <3>1, <3>2 DEF Genuine
      <4>2. Given(h, k)'
        BY <1>7, <3>1, <4>1, GivenStays
      <4> QED
        BY <3>1, <4>2 DEF Given
    <3>3. CASE i = n
      <4>1. log'[i] = line /\ line # TornEvent
        BY <1>5, <2>5, <3>3
      <4>2. k \in DOMAIN written' /\ written'[k] = line /\ k \in 1..k
        BY <1>7, <3>1, <4>1
      <4> QED
        BY <3>1, <4>1, <4>2 DEF Given
    <3> QED
      BY <1>4, <3>2, <3>3
  <2> QED
    BY <2>3, <2>4, <2>5 DEF Genuine
<1>9. ASSUME Readable'
      PROVE  Readable /\ ~open /\ log'[n] = hand[w] /\ line = hand[w] /\ n - 1 = Len(log)
  <2>1. \A i \in 1..n : log'[i] # TornEvent
    BY <1>4, <1>9 DEF Readable
  <2>2. ~open /\ line = hand[w] /\ log'[n] = hand[w]
    BY <1>1, <1>5, <2>1 DEF Types
  <2>3. Len(log) \in Nat /\ DOMAIN log = 1..Len(log) /\ n - 1 = Len(log)
    BY <1>1, <1>5, <2>2 DEF Types
  <2>4. ASSUME NEW i \in DOMAIN log
        PROVE  log[i] # TornEvent
    <3>1. i \in 1..n - 1 /\ i \in 1..n
      BY <2>3
    <3> QED
      BY <1>5, <2>1, <3>1
  <2> QED
    BY <2>2, <2>3, <2>4 DEF Readable
<1>10. damage' = 0 => (open' \/ ~Readable' => tears' > 0)
  <2>1. SUFFICES ASSUME damage = 0, ~Readable'
                PROVE  tears' > 0
    BY <1>1
  <2>2. PICK i \in DOMAIN log' : log'[i] = TornEvent
    BY <2>1 DEF Readable
  <2>3. CASE i < n
    <3>1. ~Readable
      BY <1>4, <1>5, <2>2, <2>3 DEF Readable
    <3> QED
      BY <1>1, <2>1, <3>1 DEF Unedited, Types
  <2>4. CASE i = n
    BY <1>1, <1>5, <2>1, <2>2, <2>4 DEF Unedited, Types
  <2> QED
    BY <1>4, <2>3, <2>4
<1>11. ASSUME Readable', Fresh
       PROVE  Fresh'
  <2>1. \A i \in DOMAIN log' : log'[i].content <= begun' /\ \A v \in Writers \ {w} : hand[v] # NoEvent => log'[i].content # hand[v].content
    <3>1. \A i \in 1..n - 1 : i \in DOMAIN log /\ log'[i] = log[i]
      BY <1>5
    <3>2. log'[n] = hand[w]
      BY <1>9, <1>11
    <3>3. \A i \in DOMAIN log' : i \in 1..n - 1 \/ i = n
      BY <1>4
    <3> QED
      BY <1>1, <1>11, <3>1, <3>2, <3>3 DEF Fresh
  <2> QED
    BY <1>1, <1>3, <1>11, <2>1 DEF Fresh
<1>12. ASSUME Readable', Fresh, Behind
       PROVE  Behind'
  <2>0. PICK e \in Event : e = hand[w]
    BY <1>2
  <2>1. /\ log'[n] = e /\ ~open /\ Readable /\ n - 1 = Len(log) /\ DOMAIN log = 1..n - 1
        /\ \A i \in 1..n - 1 : log'[i] = log[i] /\ log[i] \in Event
        /\ DOMAIN log' = DOMAIN log \cup {n} /\ n \notin DOMAIN log
    BY <1>1, <1>2, <1>4, <1>5, <1>9, <1>12, <2>0 DEF Readable, Types
  <2>2. LastHash' = e.hash
    BY <1>4, <2>1 DEF LastHash, Last
  <2>3. LastHash = IF n = 1 THEN GENESIS_HASH ELSE log[n - 1].hash
    <3>1. CASE n = 1
      <4>1. log = <<>>
        BY <1>1, <2>1, <3>1 DEF Types
      <4> QED
        BY <3>1, <4>1 DEF LastHash
    <3>2. CASE n # 1
      <4>1. log # <<>>
        BY <1>5, <2>1, <3>2
      <4> QED
        BY <2>1, <3>2, <4>1 DEF LastHash, Last
    <3> QED
      BY <3>1, <3>2
  <2>4. e.hash = ComputeHash(e) /\ \A i \in DOMAIN log' : log'[i].hash = ComputeHash(log'[i])
    BY <1>1, <1>12, <2>0, <2>1 DEF Genuine, MadeAfter, Behind
  <2>5. \A i \in DOMAIN log : log[i].hash # e.hash
    <3> SUFFICES ASSUME NEW i \in DOMAIN log, log[i].hash = e.hash PROVE FALSE
      OBVIOUS
    <3>1. log[i] \in Event /\ log[i].hash = ComputeHash(log[i])
      BY <1>12, <2>1 DEF Behind
    <3>2. log[i].content = e.content
      BY <2>4, <3>1, HashTells
    <3> QED
      BY <1>1, <1>12, <2>0, <3>2 DEF Fresh
  <2>6. ASSUME NEW v \in Writers, hand'[v] # NoEvent
        PROVE  /\ v \in overtaken' /\ hand'[v].previous # LastHash'
               /\ hand'[v].previous = GENESIS_HASH \/ \E i \in DOMAIN log' : hand'[v].previous = log'[i].hash
    <3>1. v # w /\ hand'[v] = hand[v] /\ hand[v] # NoEvent /\ v \in overtaken'
      BY <1>1, <1>3, <2>6
    <3>2. hand[v].previous = GENESIS_HASH \/ \E i \in DOMAIN log : hand[v].previous = log[i].hash
      BY <1>12, <3>1 DEF Behind
    <3>3. e.hash # GENESIS_HASH
      BY <2>4, HashOfEvent
    <3>4. hand[v].previous # e.hash
      BY <2>5, <3>2, <3>3
    <3>5. hand[v].previous = GENESIS_HASH \/ \E i \in DOMAIN log' : hand[v].previous = log'[i].hash
      BY <2>1, <3>2
    <3> QED
      BY <2>2, <3>1, <3>4, <3>5
  <2>7. crossed' <=> \E i \in DOMAIN log' : PreviousMismatch(i)'
    <3>1. \A i \in DOMAIN log : PreviousMismatch(i)' <=> PreviousMismatch(i)
      BY <2>1 DEF PreviousMismatch
    <3>2. PreviousMismatch(n)' <=> e.previous # LastHash
      <4>1. n # 1 => log'[n - 1] = log[n - 1]
        <5>0. n \in Nat /\ n > 0
          BY <1>5
        <5> SUFFICES ASSUME n # 1 PROVE log'[n - 1] = log[n - 1]
          OBVIOUS
        <5>1. n - 1 \in 1..n - 1
          BY <5>0
        <5> QED
          BY <1>5, <5>1
      <4> QED
        BY <2>1, <2>3, <4>1 DEF PreviousMismatch
    <3>3. w \in overtaken <=> e.previous # LastHash
      BY <1>1, <1>12, <2>0 DEF Behind
    <3>4. crossed <=> \E i \in DOMAIN log : PreviousMismatch(i)
      BY <1>12 DEF Behind
    <3>5. crossed' <=> (crossed \/ w \in overtaken)
      BY <1>1
    <3> QED
      BY <2>1, <3>1, <3>2, <3>3, <3>4, <3>5
  <2> QED
    BY <2>4, <2>6, <2>7 DEF Behind
<1>13. Unedited'
  BY <1>1, <1>9, <1>10, <1>11, <1>12 DEF Unedited
<1> QED
  BY <1>6, <1>8, <1>13 DEF AuditInv

LEMMA RemoveAtLeaves ==
  ASSUME NEW S, NEW s \in Seq(S), NEW i \in 1..Len(s)
  PROVE  /\ RemoveAt(s, i) \in Seq(S) /\ Len(RemoveAt(s, i)) = Len(s) - 1
         /\ \A k \in 1..Len(s) - 1 : RemoveAt(s, i)[k] = IF k < i THEN s[k] ELSE s[k + 1]
<1>1. PICK n \in Nat : n = Len(s) /\ DOMAIN s = 1..n /\ \A k \in 1..n : s[k] \in S
  OBVIOUS
<1>2. PICK a, b : a = SubSeq(s, 1, i - 1) /\ b = SubSeq(s, i + 1, n)
  OBVIOUS
<1>3. a \in Seq(S) /\ Len(a) = i - 1 /\ \A k \in 1..i - 1 : a[k] = s[k]
  <2>1. i - 1 \in Int /\ \A k \in 1..i - 1 : s[k] \in S
    BY <1>1
  <2>2. /\ SubSeq(s, 1, i - 1) \in Seq(S) /\ Len(SubSeq(s, 1, i - 1)) = IF 1 <= i - 1 THEN i - 1 - 1 + 1 ELSE 0
        /\ \A k \in 1..i - 1 - 1 + 1 : SubSeq(s, 1, i - 1)[k] = s[1 + k - 1]
    BY <2>1, SubSeqProperties
  <2> QED
    BY <1>1, <1>2, <2>2
<1>4. b \in Seq(S) /\ Len(b) = n - i /\ \A k \in 1..n - i : b[k] = s[i + k]
  <2>1. i + 1 \in Int /\ n \in Int /\ \A k \in i + 1..n : s[k] \in S
    BY <1>1
  <2>2. /\ SubSeq(s, i + 1, n) \in Seq(S) /\ Len(SubSeq(s, i + 1, n)) = IF i + 1 <= n THEN n - (i + 1) + 1 ELSE 0
        /\ \A k \in 1..n - (i + 1) + 1 : SubSeq(s, i + 1, n)[k] = s[i + 1 + k - 1]
    BY <2>1, SubSeqProperties
  <2> QED
    BY <1>1, <1>2, <2>2
<1>5. PICK t : t = a \o b
  OBVIOUS
<1>6. /\ t \in Seq(S) /\ Len(t) = Len(a) + Len(b)
      /\ \A k \in 1..Len(a) + Len(b) : t[k] = IF k <= Len(a) THEN a[k] ELSE b[k - Len(a)]
  BY <1>3, <1>4, <1>5, ConcatProperties
<1>7. t = RemoveAt(s, i)
  BY <1>1, <1>2, <1>5 DEF RemoveAt
<1>8. t \in Seq(S) /\ Len(t) = n - 1
  BY <1>1, <1>3, <1>4, <1>6
<1>9. ASSUME NEW k \in 1..n - 1
      PROVE  t[k] = IF k < i THEN s[k] ELSE s[k + 1]
  <2>1. CASE k < i
    <3>1. k \in 1..i - 1 /\ k <= Len(a) /\ k \in 1..Len(a) + Len(b)
      BY <1>1, <1>3, <1>4, <2>1
    <3> QED
      BY <1>3, <1>6, <2>1, <3>1
  <2>2. CASE ~(k < i)
    <3>1. k - Len(a) \in 1..n - i /\ ~(k <= Len(a)) /\ i + (k - Len(a)) = k + 1 /\ k \in 1..Len(a) + Len(b)
      BY <1>1, <1>3, <1>4, <2>2
    <3> QED
      BY <1>4, <1>6, <2>2, <3>1
  <2> QED
    BY <2>1, <2>2
<1> QED
  BY <1>1, <1>7, <1>8, <1>9

\* Who edits the file moves, removes or rewrites lines; the hashes stay among those given.
LEMMA DamageKeeps ==
  ASSUME AuditInv, Damage
  PROVE  AuditInv'
<1>1. /\ Types /\ Genuine /\ Readable /\ ~open
      /\ UNCHANGED <<open, hand, begun, written, tears>> /\ damage' = damage + 1 /\ damage < DamageBound
      /\ \/ \E i \in DOMAIN log : log' = Modified(i) \/ log' = RemoveAt(log, i)
         \/ \E i \in 1..Len(log) - 1 : log' = Reordered(i)
  BY DEF AuditInv, Damage, Damaged, histVars
<1>2. log \in Seq(Event) /\ Len(log) \in Nat /\ DOMAIN log = 1..Len(log)
  BY <1>1 DEF Types, Line, Readable
<1>3. log' \in Seq(Event) /\ \A k \in DOMAIN log' : \E i \in DOMAIN log : log'[k].hash = log[i].hash
  <2>1. CASE \E i \in DOMAIN log : log' = Modified(i)
    <3>1. PICK i \in DOMAIN log : log' = Modified(i)
      BY <2>1
    <3>2. EventBound + damage + 1 \in Contents
      BY <1>1, AuditAssumption DEF Types, Contents
    <3>3. PICK e : e = [log[i] EXCEPT !.content = EventBound + damage + 1]
      OBVIOUS
    <3>4. e \in Event /\ e.hash = log[i].hash
      <4>1. log[i] \in Event
        BY <1>2, <3>1
      <4>2. /\ log[i] = [content |-> log[i].content, previous |-> log[i].previous, hash |-> log[i].hash]
            /\ log[i].previous \in Seq(Contents) /\ log[i].hash \in Seq(Contents)
        BY <4>1 DEF Event
      <4>3. e = [content |-> EventBound + damage + 1, previous |-> log[i].previous, hash |-> log[i].hash]
        BY <3>3, <4>2
      <4> QED
        BY <3>2, <4>2, <4>3 DEF Event
    <3>5. log' = [log EXCEPT ![i] = e]
      BY <1>2, <3>1, <3>3 DEF Modified
    <3> QED
      BY <1>2, <3>1, <3>4, <3>5
  <2>2. CASE \E i \in DOMAIN log : log' = RemoveAt(log, i)
    <3>1. PICK i \in DOMAIN log : log' = RemoveAt(log, i)
      BY <2>2
    <3>2. /\ log' \in Seq(Event) /\ Len(log') = Len(log) - 1
          /\ \A k \in 1..Len(log) - 1 : log'[k] = IF k < i THEN log[k] ELSE log[k + 1]
      BY <1>2, <3>1, RemoveAtLeaves
    <3>3. ASSUME NEW k \in 1..Len(log) - 1
          PROVE  k \in DOMAIN log /\ k + 1 \in DOMAIN log
      BY <1>2
    <3>4. DOMAIN log' = 1..Len(log) - 1
      BY <1>2, <3>2
    <3>5. ASSUME NEW k \in DOMAIN log'
          PROVE  \E o \in DOMAIN log : log'[k].hash = log[o].hash
      <4>1. log'[k] = IF k < i THEN log[k] ELSE log[k + 1]
        BY <3>2, <3>4
      <4> QED
        BY <3>3, <3>4, <4>1
    <3> QED
      BY <3>2, <3>5
  <2>3. CASE \E i \in 1..Len(log) - 1 : log' = Reordered(i)
    BY <1>2, <2>3 DEF Reordered
  <2> QED
    BY <1>1, <2>1, <2>2, <2>3
<1>4. Types'
  BY <1>1, <1>3 DEF Types, Line
<1>5. Genuine'
  <2>1. \A w \in Writers : hand'[w] # NoEvent => MadeAfter(hand[w], Len(written))'
    BY <1>1 DEF Genuine, MadeAfter, Given
  <2>2. \A q \in DOMAIN written' : MadeAfter(written[q], q - 1)'
    BY <1>1 DEF Genuine, MadeAfter, Given
  <2>3. \A k \in DOMAIN log' : Given(log[k].hash, Len(written))'
    <3>1. \A i \in DOMAIN log : Given(log[i].hash, Len(written))
      BY <1>1 DEF Genuine, Readable
    <3> QED
      BY <1>1, <1>3, <3>1 DEF Given
  <2> QED
    BY <2>1, <2>2, <2>3 DEF Genuine
<1>6. Unedited'
  BY <1>1 DEF Unedited, Types
<1> QED
  BY <1>4, <1>5, <1>6 DEF AuditInv

LEMMA AuditStepKeeps ==
  ASSUME AuditInv, [AuditNext]_auditVars
  PROVE  AuditInv'
<1>1. ASSUME NEW w \in Writers, Writes(w)
      PROVE  AuditInv'
  <2>1. hand[w] # TornEvent
    BY <1>1, TornIsNoEvent DEF AuditInv, Types, Writes
  <2>2. Puts(w, hand[w])
    <3>1. tears \in Nat
      BY DEF AuditInv, Types
    <3>2. UNCHANGED <<begun, tears, damage>> /\ open' = FALSE /\ hand[w] # NoEvent /\ Overtakes(w)
          /\ log' = Onto(hand[w]) /\ written' = Append(written, hand[w])
      BY <1>1 DEF Writes
    <3>3. tears' \in Nat /\ tears' >= tears
      BY <3>1, <3>2
    <3> QED
      BY <2>1, <3>2, <3>3 DEF Puts
  <2> QED
    BY <2>2, PutsKeeps
<1>2. ASSUME NEW w \in Writers, TearsLine(w)
      PROVE  AuditInv'
  <2>1. hand[w] # TornEvent /\ tears \in Nat
    BY <1>2, TornIsNoEvent DEF AuditInv, Types, TearsLine
  <2>2. Puts(w, hand[w]) \/ Puts(w, TornEvent)
    BY <1>2, <2>1 DEF TearsLine, Puts
  <2> QED
    BY <2>2, PutsKeeps
<1>3. CASE UNCHANGED auditVars
  <2> USE <1>3 DEF auditVars, fileVars, histVars
  <2>1. Types'
    BY DEF AuditInv, Types
  <2>2. Genuine'
    BY DEF AuditInv, Genuine, MadeAfter, Given
  <2>3. Unedited'
    BY DEF AuditInv, Unedited, Fresh, Behind, Readable, LastHash, PreviousMismatch
  <2> QED
    BY <2>1, <2>2, <2>3 DEF AuditInv
<1> QED
  BY <1>1, <1>2, <1>3, BeginsKeeps, DiesKeeps, DamageKeeps DEF AuditNext

---------------------------------------------------------------------------
(* The theorems. *)

\* The inductive invariant of the audit file: every hash in it was given by append,
\* whoever was overtaken holds an older one, and nobody else does.
THEOREM AuditInvHolds == AuditSpec => []AuditInv
<1>1. AuditInit => AuditInv
  BY AuditInitEstablishes
<1>2. AuditInv /\ [AuditNext]_auditVars => AuditInv'
  BY AuditStepKeeps
<1> QED
  BY <1>1, <1>2, PTL DEF AuditSpec

\* For any number of writers, of torn writes and of edits: a file that verifies tells
\* of events that were written, in their order, and the verdict on a file nobody
\* edited says exactly whether its writers overlapped (append, verify).
THEOREM VerdictsAreAlwaysTrue == AuditSpec => []VerdictsAreTrue
<1> QED
  BY InvMakesVerdictsTrue, AuditInvHolds, PTL

---------------------------------------------------------------------------
(* The ledgers of the role servers *)

\* What ScribeService.append writes of a request.
Entry == [of : Requests, status : {"probe", "refused", "accepted", "proposed"}]

IpcTypes ==
  /\ kind \in [Requests -> AllKinds]
  /\ pc \in [Requests -> CallStages \cup {"answered", "raised", "probe", "tail"}]
  /\ waiting \in [Requests -> BOOLEAN] /\ verdict \in [Requests -> BOOLEAN]
  /\ \A r \in Requests : waiting[r] => pc[r] \in CallStages
  /\ \A r \in Requests : pc[r] \in {"probe", "tail"} => kind[r] = "self_test"
  /\ calls \subseteq Requests \X CallStages /\ replies \subseteq Requests \X CallStages
  /\ permitted \in BOOLEAN
  /\ actions \in Seq(Entry) /\ refusals \in Seq(Entry)

\* A server may still do what r has posted at stage.
Called(r, stage) == <<r, stage>> \in calls

Filed(r, status) == At(r, status) # {}
Refused(r) == Told(r, refusals) # {}

\* Accepted before it was proposed
Ordered(r) ==
  Filed(r, "proposed") => \E i \in At(r, "accepted") : \A j \in At(r, "proposed") : i < j

\* What there is of r on either way from the guardian's verdict.
OnRefusal(r) ==
  \/ pc[r] \in {"refusal", "refused"} \/ Called(r, "refusal") \/ Called(r, "refused")
  \/ Refused(r) \/ Filed(r, "refused")
OnAcceptance(r) ==
  \/ pc[r] \in {"accepted", "oracle", "proposed"} \/ Called(r, "accepted") \/ Called(r, "proposed")
  \/ Filed(r, "accepted") \/ Filed(r, "proposed")

\* No request goes both ways, neither by itself nor by what servers do late for it.
OneWay ==
  \A r \in Requests :
    /\ ~(OnRefusal(r) /\ OnAcceptance(r))
    /\ pc[r] = "check" => ~OnRefusal(r) /\ ~OnAcceptance(r)

\* What was done by the time a stage is reached: what the stages before it file.
FiledBefore ==
  \A r \in Requests :
    /\ IsInvocation(r) /\ (pc[r] \in {"oracle", "proposed"} \/ Called(r, "proposed")) => Filed(r, "accepted")
    /\ IsInvocation(r) => Ordered(r)
    /\ pc[r] = "refused" => Refused(r)
    /\ pc[r] = "answered" /\ (IsInvocation(r) \/ HasTask(r)) =>
         (Filed(r, "refused") /\ Refused(r)) \/ Filed(r, "proposed")

\* A reply is sent when the work is done.
RepliesAreKept ==
  \A r \in Requests :
    /\ <<r, "refusal">> \in replies => Refused(r)
    /\ \A s \in {"refused", "accepted", "proposed"} : <<r, s>> \in replies => Filed(r, s)

\* A verdict in favour was given while the permissions allowed it.
VerdictsAreFounded ==
  \A r \in Requests :
    /\ pc[r] = "check" /\ (permitted \/ verdict[r]) => r \in wasPermitted
    /\ pc[r] = "accepted" \/ Called(r, "accepted") \/ Filed(r, "accepted") =>
         r \in wasPermitted /\ HasTask(r)

IpcInv == IpcTypes /\ OneWay /\ FiledBefore /\ RepliesAreKept /\ VerdictsAreFounded

\* Lines are told apart, and one more line adds its own number.
LEMMA OneMoreLine ==
  ASSUME actions \in Seq(Entry), NEW q \in Requests, NEW s \in {"probe", "refused", "accepted", "proposed"},
         actions' = Append(actions, Record(q, s))
  PROVE  /\ actions' \in Seq(Entry)
         /\ \A r, t : r = q /\ t = s => At(r, t)' = At(r, t) \cup {Len(actions) + 1}
         /\ \A r, t : ~(r = q /\ t = s) => At(r, t)' = At(r, t)
         /\ \A r, t : \A i \in At(r, t) : i \in Nat /\ i < Len(actions) + 1
<1>. DEFINE e == Record(q, s)
<1>1. e \in Entry
  BY DEF Record, Entry
<1>2. \A r, t : Record(r, t) = e <=> r = q /\ t = s
  <2>1. \A r, t : Record(r, t).of = r /\ Record(r, t).status = t
    BY DEF Record
  <2>2. e.of = q /\ e.status = s
    BY DEF Record
  <2>. QED  BY <2>1, <2>2 DEF Record
<1>. HIDE DEF e
<1>3. Append(actions, e) \in Seq(Entry)
  BY <1>1
<1>4. /\ DOMAIN actions = 1..Len(actions) /\ Len(actions) \in Nat
      /\ DOMAIN actions' = 1..Len(actions) + 1
      /\ \A i \in 1..Len(actions) : actions'[i] = actions[i]
      /\ actions'[Len(actions) + 1] = e
  BY <1>1 DEF e
<1>5. \A r, t : At(r, t) = {i \in 1..Len(actions) : actions[i] = Record(r, t)}
  BY <1>4 DEF At
<1>6. \A r, t : At(r, t)' = {i \in 1..Len(actions) + 1 : actions'[i] = Record(r, t)}
  BY <1>4 DEF At, Record
<1>7. ASSUME NEW r, NEW t
      PROVE  At(r, t)' = At(r, t) \cup {i \in {Len(actions) + 1} : e = Record(r, t)}
  BY <1>4, <1>5, <1>6
<1>8. \A r, t : r = q /\ t = s => At(r, t)' = At(r, t) \cup {Len(actions) + 1}
  BY <1>2, <1>7
<1>9. \A r, t : ~(r = q /\ t = s) => At(r, t)' = At(r, t)
  BY <1>2, <1>7
<1>10. \A r, t : \A i \in At(r, t) : i \in Nat /\ i < Len(actions) + 1
  BY <1>4, <1>5
<1>11. actions' \in Seq(Entry)
  BY <1>3 DEF e
<1>. QED  BY <1>8, <1>9, <1>10, <1>11

LEMMA OneMoreRefusal ==
  ASSUME refusals \in Seq(Entry), NEW q \in Requests,
         refusals' = Append(refusals, Record(q, "refused"))
  PROVE  /\ refusals' \in Seq(Entry) /\ Refused(q)'
         /\ \A r : r # q => (Refused(r)' <=> Refused(r))
<1>. DEFINE e == Record(q, "refused")
<1>1. e \in Entry /\ e.of = q
  BY DEF Record, Entry
<1>2. \A r : Refused(r) <=> \E i \in DOMAIN refusals : refusals[i].of = r
  BY DEF Refused, Told
<1>3. \A r : Refused(r)' <=> \E i \in DOMAIN refusals' : refusals'[i].of = r
  BY DEF Refused, Told
<1>4. refusals' = Append(refusals, e)
  OBVIOUS
<1>. HIDE DEF e
<1>5. /\ refusals' \in Seq(Entry)
      /\ DOMAIN refusals = 1..Len(refusals) /\ Len(refusals) \in Nat
      /\ DOMAIN refusals' = 1..Len(refusals) + 1
      /\ \A i \in 1..Len(refusals) : refusals'[i] = refusals[i]
      /\ refusals'[Len(refusals) + 1] = e
  BY <1>1, <1>4
<1>. QED  BY <1>1, <1>2, <1>3, <1>5

\* What ScribeService.append adds for q at stage, and that it disturbs nothing else.
LEMMA Filing ==
  ASSUME IpcTypes, NEW q \in Requests, NEW stage \in CallStages, Appends(q, stage)
  PROVE  /\ actions' \in Seq(Entry) /\ refusals' \in Seq(Entry)
         /\ \A r : Refused(r)' <=> Refused(r) \/ (r = q /\ stage = "refusal")
         /\ \A r, t : Filed(r, t)' <=>
              Filed(r, t) \/ (r = q /\ t = stage /\ stage \in {"refused", "accepted", "proposed"})
         /\ \A r : Ordered(r) /\ (Filed(r, "accepted") \/ ~(r = q /\ stage = "proposed")) => Ordered(r)'
<1>1. actions \in Seq(Entry) /\ refusals \in Seq(Entry)
  BY DEF IpcTypes
<1>2. CASE stage \in {"refused", "accepted", "proposed"}
  <2>1. actions' = Append(actions, Record(q, stage)) /\ refusals' = refusals
    BY <1>2 DEF Appends
  <2>2. /\ actions' \in Seq(Entry)
        /\ \A r, t : r = q /\ t = stage => At(r, t)' = At(r, t) \cup {Len(actions) + 1}
        /\ \A r, t : ~(r = q /\ t = stage) => At(r, t)' = At(r, t)
        /\ \A r, t : \A i \in At(r, t) : i \in Nat /\ i < Len(actions) + 1
    BY <1>1, <1>2, <2>1, OneMoreLine
  <2>3. \A r : Refused(r)' <=> Refused(r)
    BY <2>1 DEF Refused, Told
  <2>4. ASSUME NEW r, Ordered(r), Filed(r, "accepted") \/ ~(r = q /\ stage = "proposed"), Filed(r, "proposed")'
        PROVE  \E i \in At(r, "accepted")' : \A j \in At(r, "proposed")' : i < j
    <3>1. PICK i \in At(r, "accepted") : \A j \in At(r, "proposed") : i < j
      <4>1. CASE Filed(r, "proposed")
        BY <4>1, <2>4 DEF Ordered
      <4>2. CASE ~Filed(r, "proposed")
        <5>1. Filed(r, "accepted")
          BY <4>2, <2>2, <2>4 DEF Filed
        <5>. QED  BY <4>2, <5>1 DEF Filed
      <4>. QED  BY <4>1, <4>2
    <3>2. i \in At(r, "accepted")'
      BY <2>2, <3>1
    <3>3. \A j \in At(r, "proposed")' : j \in At(r, "proposed") \/ j = Len(actions) + 1
      BY <2>2
    <3>4. i < Len(actions) + 1
      BY <2>2, <3>1
    <3>. QED  BY <3>1, <3>2, <3>3, <3>4
  <2>5. \A r : Ordered(r) /\ (Filed(r, "accepted") \/ ~(r = q /\ stage = "proposed")) => Ordered(r)'
    BY <2>4 DEF Ordered
  <2>6. \A r, t : Filed(r, t)' <=> Filed(r, t) \/ (r = q /\ t = stage)
    BY <2>2 DEF Filed
  <2>. QED  BY <1>1, <1>2, <2>1, <2>2, <2>3, <2>5, <2>6
<1>3. CASE stage \notin {"refused", "accepted", "proposed"}
  <2>1. actions' = actions
    BY <1>3 DEF Appends
  <2>2. (\A r, t : Filed(r, t)' <=> Filed(r, t)) /\ \A r : Ordered(r)' <=> Ordered(r)
    BY <2>1 DEF Filed, Ordered, At
  <2>3. CASE stage = "refusal"
    <3>1. refusals' = Append(refusals, Record(q, "refused"))
      BY <2>3 DEF Appends
    <3>2. /\ refusals' \in Seq(Entry) /\ Refused(q)'
          /\ \A r : r # q => (Refused(r)' <=> Refused(r))
      BY <1>1, <3>1, OneMoreRefusal
    <3>. QED  BY <1>1, <1>3, <2>1, <2>2, <2>3, <3>2
  <2>4. CASE stage # "refusal"
    <3>1. refusals' = refusals
      BY <2>4 DEF Appends
    <3>2. \A r : Refused(r)' <=> Refused(r)
      BY <3>1 DEF Refused, Told
    <3>. QED  BY <1>1, <1>3, <2>1, <2>2, <2>4, <3>1, <3>2
  <2>. QED  BY <2>3, <2>4
<1>. QED  BY <1>2, <1>3

LEMMA LedgersStay ==
  ASSUME UNCHANGED ledgerVars
  PROVE  /\ \A r : Refused(r)' <=> Refused(r)
         /\ \A r, t : Filed(r, t)' <=> Filed(r, t)
         /\ \A r : Ordered(r)' <=> Ordered(r)
BY DEF ledgerVars, Refused, Told, Filed, Ordered, At

\* q leaves its stage with what the stage files on file: a reply that was kept, or
\* the work done in the web process.
LEMMA AdvanceKeeps ==
  ASSUME IpcInv, NEW q \in Requests, NEW allowed \in BOOLEAN, NEW stage \in CallStages, pc[q] = stage,
         pc' = [pc EXCEPT ![q] = After(q, stage, allowed)],
         UNCHANGED <<kind, calls, permitted, wasPermitted>>,
         waiting' = [waiting EXCEPT ![q] = FALSE], replies' \subseteq replies,
         verdict' \in [Requests -> BOOLEAN], \A r \in Requests : r # q => verdict'[r] = verdict[r],
         stage = "check" /\ allowed => q \in wasPermitted,
         Appends(q, stage) \/ UNCHANGED ledgerVars,
         stage = "refusal" => Refused(q)',
         stage \in {"refused", "accepted", "proposed"} => Filed(q, stage)'
  PROVE  IpcInv'
<1>. USE DEF IpcInv
<1>1. \A r : (HasTask(r)' <=> HasTask(r)) /\ (IsInvocation(r)' <=> IsInvocation(r))
  BY DEF HasTask, IsInvocation
<1>2. \A r, s : Called(r, s)' <=> Called(r, s)
  BY DEF Called
<1>3. /\ actions' \in Seq(Entry) /\ refusals' \in Seq(Entry)
      /\ \A r : Refused(r)' <=> Refused(r) \/ (r = q /\ stage = "refusal")
      /\ \A r, t : Filed(r, t)' <=>
           Filed(r, t) \/ (r = q /\ t = stage /\ stage \in {"refused", "accepted", "proposed"})
      /\ \A r : Ordered(r) /\ (Filed(r, "accepted") \/ ~(r = q /\ stage = "proposed")) => Ordered(r)'
  <2>1. CASE Appends(q, stage)
    BY <2>1, Filing
  <2>2. CASE UNCHANGED ledgerVars
    <3>1. actions' \in Seq(Entry) /\ refusals' \in Seq(Entry)
      BY <2>2 DEF IpcTypes, ledgerVars
    <3>. QED  BY <2>2, <3>1, LedgersStay
  <2>. QED  BY <2>1, <2>2
<1>4. pc'[q] = After(q, stage, allowed) /\ \A r \in Requests : r # q => pc'[r] = pc[r]
  BY DEF IpcTypes
<1>5. /\ stage = "check" => pc'[q] = IF allowed /\ HasTask(q) THEN "accepted" ELSE "refusal"
      /\ stage = "refusal" => pc'[q] = "refused"
      /\ stage = "refused" => pc'[q] = "answered"
      /\ stage = "accepted" => pc'[q] = "oracle"
      /\ stage = "oracle" => pc'[q] = "proposed"
      /\ stage = "proposed" => pc'[q] = "answered"
  BY <1>4 DEF After
<1>6. stage \in {"check", "refusal", "refused", "accepted", "oracle", "proposed"}
  BY DEF CallStages
<1>7. IpcTypes'
  <2>1. pc' \in [Requests -> CallStages \cup {"answered", "raised", "probe", "tail"}]
    BY <1>5, <1>6 DEF IpcTypes, CallStages
  <2>2. waiting' \in [Requests -> BOOLEAN] /\ \A r \in Requests : waiting'[r] => r # q /\ waiting[r]
    BY DEF IpcTypes
  <2>3. \A r \in Requests : pc'[r] \in {"probe", "tail"} => kind[r] = "self_test"
    BY <1>4, <1>5, <1>6 DEF IpcTypes
  <2>. QED  BY <1>3, <1>4, <2>1, <2>2, <2>3 DEF IpcTypes
<1>8. OneWay'
  <2>1. ASSUME NEW r \in Requests, r # q
        PROVE  /\ OnRefusal(r)' <=> OnRefusal(r)
               /\ OnAcceptance(r)' <=> OnAcceptance(r)
    BY <1>2, <1>3, <1>4, <2>1 DEF OnRefusal, OnAcceptance
  <2>2. ~(OnRefusal(q)' /\ OnAcceptance(q)')
    BY <1>2, <1>3, <1>5, <1>6 DEF OneWay, OnRefusal, OnAcceptance
  <2>3. pc'[q] # "check"
    BY <1>5, <1>6
  <2>. QED  BY <1>4, <2>1, <2>2, <2>3 DEF OneWay
<1>9. FiledBefore'
  <2>1. ASSUME NEW r \in Requests, r # q
        PROVE  /\ IsInvocation(r)' /\ (pc'[r] \in {"oracle", "proposed"} \/ Called(r, "proposed")') => Filed(r, "accepted")'
               /\ IsInvocation(r)' => Ordered(r)'
               /\ pc'[r] = "refused" => Refused(r)'
               /\ pc'[r] = "answered" /\ (IsInvocation(r)' \/ HasTask(r)') =>
                    (Filed(r, "refused")' /\ Refused(r)') \/ Filed(r, "proposed")'
    BY <1>1, <1>2, <1>3, <1>4, <2>1 DEF FiledBefore
  <2>2. IsInvocation(q)' /\ (pc'[q] \in {"oracle", "proposed"} \/ Called(q, "proposed")') => Filed(q, "accepted")'
    BY <1>1, <1>2, <1>3, <1>5, <1>6 DEF FiledBefore
  <2>3. IsInvocation(q)' => Ordered(q)'
    BY <1>1, <1>3 DEF FiledBefore
  <2>4. pc'[q] = "refused" => Refused(q)'
    BY <1>5, <1>6
  <2>5. pc'[q] = "answered" => (Filed(q, "refused")' /\ Refused(q)') \/ Filed(q, "proposed")'
    BY <1>3, <1>5, <1>6 DEF FiledBefore
  <2>. QED  BY <2>1, <2>2, <2>3, <2>4, <2>5 DEF FiledBefore
<1>10. RepliesAreKept'
  BY <1>3 DEF RepliesAreKept
<1>11. VerdictsAreFounded'
  <2>1. ASSUME NEW r \in Requests, r # q
        PROVE  /\ pc'[r] = "check" /\ (permitted' \/ verdict'[r]) => r \in wasPermitted'
               /\ pc'[r] = "accepted" \/ Called(r, "accepted")' \/ Filed(r, "accepted")' =>
                    r \in wasPermitted' /\ HasTask(r)'
    BY <1>1, <1>2, <1>3, <1>4, <2>1 DEF VerdictsAreFounded
  <2>2. pc'[q] # "check"
    BY <1>5, <1>6
  <2>3. pc'[q] = "accepted" \/ Called(q, "accepted")' \/ Filed(q, "accepted")' =>
          q \in wasPermitted' /\ HasTask(q)'
    BY <1>1, <1>2, <1>3, <1>5, <1>6 DEF VerdictsAreFounded
  <2>. QED  BY <2>1, <2>2, <2>3 DEF VerdictsAreFounded
<1>. QED  BY <1>7, <1>8, <1>9, <1>10, <1>11

LEMMA ReceivesKeeps ==
  ASSUME IpcInv, NEW q \in Requests, Receives(q)
  PROVE  IpcInv'
<1>1. PICK stage \in CallStages : pc[q] = stage
  BY DEF IpcInv, IpcTypes, Receives
<1>2. <<q, stage>> \in replies
  BY <1>1 DEF Receives, Call
<1>3. /\ stage = "refusal" => Refused(q)
      /\ stage \in {"refused", "accepted", "proposed"} => Filed(q, stage)
  BY <1>2 DEF IpcInv, RepliesAreKept
<1>4. UNCHANGED ledgerVars
  BY DEF Receives
<1>5. /\ stage = "refusal" => Refused(q)'
      /\ stage \in {"refused", "accepted", "proposed"} => Filed(q, stage)'
  BY <1>3, <1>4, LedgersStay
<1>6. PICK allowed \in BOOLEAN : allowed = verdict[q]
  BY DEF IpcInv, IpcTypes
<1>7. stage = "check" /\ allowed => q \in wasPermitted
  BY <1>1, <1>6 DEF IpcInv, VerdictsAreFounded
<1>8. /\ pc' = [pc EXCEPT ![q] = After(q, stage, allowed)]
      /\ UNCHANGED <<kind, calls, permitted, wasPermitted>>
      /\ waiting' = [waiting EXCEPT ![q] = FALSE] /\ replies' \subseteq replies
      /\ verdict' = verdict
  BY <1>1, <1>6 DEF Receives
<1>9. verdict' \in [Requests -> BOOLEAN] /\ \A r \in Requests : r # q => verdict'[r] = verdict[r]
  BY <1>8 DEF IpcInv, IpcTypes
<1>. QED  BY <1>1, <1>4, <1>5, <1>7, <1>8, <1>9, AdvanceKeeps

\* The client does the work itself, whether the server has done it, will do it or never will.
LEMMA FallsBackKeeps ==
  ASSUME IpcInv, NEW q \in Requests, pc[q] \in CallStages, FallsBack(q),
         UNCHANGED <<kind, calls, permitted, wasPermitted>>
  PROVE  IpcInv'
<1>1. PICK stage \in CallStages : pc[q] = stage
  OBVIOUS
<1>2. Appends(q, stage)
  BY <1>1 DEF FallsBack
<1>3. /\ stage = "refusal" => Refused(q)'
      /\ stage \in {"refused", "accepted", "proposed"} => Filed(q, stage)'
  BY <1>2, Filing DEF IpcInv
<1>4. /\ verdict' \in [Requests -> BOOLEAN]
      /\ \A r \in Requests : r # q => verdict'[r] = verdict[r]
      /\ stage = "check" /\ verdict'[q] => permitted
  <2>1. verdict' = [verdict EXCEPT ![q] = IF stage = "check" THEN permitted ELSE verdict[q]]
    BY <1>1 DEF FallsBack, CheckInProcess, CheckInvocation
  <2>2. verdict \in [Requests -> BOOLEAN] /\ permitted \in BOOLEAN
    BY DEF IpcInv, IpcTypes
  <2>. QED  BY <2>1, <2>2
<1>5. PICK allowed \in BOOLEAN : allowed = verdict'[q]
  BY <1>4
<1>6. stage = "check" /\ allowed => q \in wasPermitted
  BY <1>1, <1>4, <1>5 DEF IpcInv, VerdictsAreFounded
<1>7. /\ pc' = [pc EXCEPT ![q] = After(q, stage, allowed)]
      /\ waiting' = [waiting EXCEPT ![q] = FALSE] /\ replies' \subseteq replies
  BY <1>1, <1>5 DEF FallsBack
<1>. QED  BY <1>1, <1>2, <1>3, <1>4, <1>6, <1>7, AdvanceKeeps

\* A server does late, or in time, what it accepted.
LEMMA ServesKeeps ==
  ASSUME IpcInv, NEW q \in Requests, NEW stage \in CallStages, Serves(q, stage)
  PROVE  IpcInv'
<1>. USE DEF IpcInv
<1>1. \A r : (HasTask(r)' <=> HasTask(r)) /\ (IsInvocation(r)' <=> IsInvocation(r))
  BY DEF HasTask, IsInvocation, Serves
<1>2. Called(q, stage) /\ \A r, s : Called(r, s)' => Called(r, s)
  BY DEF Called, Serves
<1>3. /\ actions' \in Seq(Entry) /\ refusals' \in Seq(Entry)
      /\ \A r : Refused(r)' <=> Refused(r) \/ (r = q /\ stage = "refusal")
      /\ \A r, t : Filed(r, t)' <=>
           Filed(r, t) \/ (r = q /\ t = stage /\ stage \in {"refused", "accepted", "proposed"})
      /\ \A r : Ordered(r) /\ (Filed(r, "accepted") \/ ~(r = q /\ stage = "proposed")) => Ordered(r)'
  BY Filing DEF Serves
<1>4. UNCHANGED <<kind, pc, waiting, permitted, wasPermitted>>
  BY DEF Serves
<1>5. /\ replies' \subseteq replies \cup {<<q, stage>>}
      /\ verdict' \in [Requests -> BOOLEAN]
      /\ \A r \in Requests : verdict'[r] => verdict[r] \/ (r = q /\ permitted)
  <2>1. verdict \in [Requests -> BOOLEAN] /\ permitted \in BOOLEAN
    BY DEF IpcTypes
  <2>. QED  BY <2>1 DEF Serves, CheckInvocation
<1>6. IpcTypes'
  <2>1. calls' \subseteq calls /\ <<q, stage>> \in Requests \X CallStages
    BY DEF Serves
  <2>. QED  BY <1>3, <1>4, <1>5, <2>1 DEF IpcTypes
<1>7. OneWay'
  <2>1. ASSUME NEW r \in Requests
        PROVE  (OnRefusal(r)' => OnRefusal(r)) /\ (OnAcceptance(r)' => OnAcceptance(r))
    BY <1>2, <1>3, <1>4 DEF OnRefusal, OnAcceptance
  <2>. QED  BY <1>4, <2>1 DEF OneWay
<1>8. FiledBefore'
  <2>1. ASSUME NEW r \in Requests
        PROVE  /\ IsInvocation(r)' /\ (pc'[r] \in {"oracle", "proposed"} \/ Called(r, "proposed")') => Filed(r, "accepted")'
               /\ IsInvocation(r)' => Ordered(r)'
               /\ pc'[r] = "refused" => Refused(r)'
               /\ pc'[r] = "answered" /\ (IsInvocation(r)' \/ HasTask(r)') =>
                    (Filed(r, "refused")' /\ Refused(r)') \/ Filed(r, "proposed")'
    BY <1>1, <1>2, <1>3, <1>4 DEF FiledBefore
  <2>. QED  BY <2>1 DEF FiledBefore
<1>9. RepliesAreKept'
  <2>1. ASSUME NEW r \in Requests, NEW s, <<r, s>> \in replies'
        PROVE  <<r, s>> \in replies \/ (r = q /\ s = stage)
    BY <2>1, <1>5
  <2>. QED  BY <1>3, <2>1 DEF RepliesAreKept
<1>10. VerdictsAreFounded'
  <2>1. ASSUME NEW r \in Requests
        PROVE  pc'[r] = "check" /\ (permitted' \/ verdict'[r]) => r \in wasPermitted'
    BY <1>4, <1>5 DEF VerdictsAreFounded
  <2>2. ASSUME NEW r \in Requests
        PROVE  pc'[r] = "accepted" \/ Called(r, "accepted")' \/ Filed(r, "accepted")' =>
                 r \in wasPermitted' /\ HasTask(r)'
    BY <1>1, <1>2, <1>3, <1>4 DEF VerdictsAreFounded
  <2>. QED  BY <2>1, <2>2 DEF VerdictsAreFounded
<1>. QED  BY <1>6, <1>7, <1>8, <1>9, <1>10

\* What leaves every request where it is, with the lines there are; a new call is
\* one for the stage its request is at.
LEMMA StaysKeep ==
  ASSUME IpcInv, UNCHANGED <<kind, pc, verdict, ledgerVars, permitted, wasPermitted>>,
         waiting' \in [Requests -> BOOLEAN], \A r \in Requests : waiting'[r] => pc[r] \in CallStages,
         replies' = replies, calls' \subseteq Requests \X CallStages,
         \A s : \A r \in Requests : Called(r, s)' => Called(r, s) \/ pc[r] = s
  PROVE  IpcInv'
<1>. USE DEF IpcInv
<1>1. \A r : (HasTask(r)' <=> HasTask(r)) /\ (IsInvocation(r)' <=> IsInvocation(r))
  BY DEF HasTask, IsInvocation
<1>2. /\ \A r : (Refused(r)' <=> Refused(r)) /\ (Ordered(r)' <=> Ordered(r))
      /\ \A r, t : Filed(r, t)' <=> Filed(r, t)
  BY LedgersStay
<1>3. IpcTypes'
  BY DEF IpcTypes, ledgerVars
<1>4. OneWay'
  <2>1. ASSUME NEW r \in Requests
        PROVE  (OnRefusal(r)' => OnRefusal(r)) /\ (OnAcceptance(r)' => OnAcceptance(r))
    BY <1>2 DEF OnRefusal, OnAcceptance
  <2>. QED  BY <2>1 DEF OneWay
<1>5. FiledBefore'
  BY <1>1, <1>2 DEF FiledBefore
<1>6. RepliesAreKept'
  BY <1>2 DEF RepliesAreKept
<1>7. VerdictsAreFounded'
  BY <1>1, <1>2 DEF VerdictsAreFounded
<1>. QED  BY <1>3, <1>4, <1>5, <1>6, <1>7

LEMMA PostsKeeps ==
  ASSUME IpcInv, NEW q \in Requests, Posts(q)
  PROVE  IpcInv'
<1>1. calls' = calls \cup {<<q, pc[q]>>} /\ pc[q] \in CallStages
  BY DEF Posts, Call
<1>2. ASSUME NEW r \in Requests, NEW s, Called(r, s)'
      PROVE  Called(r, s) \/ pc[r] = s
  <2>1. <<r, s>> \in calls \/ <<r, s>> = <<q, pc[q]>>
    BY <1>1, <1>2 DEF Called
  <2>. QED  BY <2>1 DEF Called
<1>3. calls' \subseteq Requests \X CallStages
  BY <1>1 DEF IpcInv, IpcTypes
<1>4. waiting' \in [Requests -> BOOLEAN] /\ \A r \in Requests : waiting'[r] => pc[r] \in CallStages
  BY DEF IpcInv, IpcTypes, Posts
<1>. QED  BY <1>2, <1>3, <1>4, StaysKeep DEF Posts, boundVars

\* The deaths and the returns of the role servers, and the calls that are lost.
LEMMA ServersKeep ==
  ASSUME IpcInv, (\E role \in Roles : ServerDies(role) \/ Starts(role)) \/ \E call \in calls : Drops(call)
  PROVE  IpcInv'
<1>1. /\ UNCHANGED <<kind, pc, waiting, verdict, ledgerVars, permitted, wasPermitted>>
      /\ replies' = replies /\ calls' \subseteq calls
  BY DEF ServerDies, Starts, Drops
<1>2. \A r, s : Called(r, s)' => Called(r, s)
  BY <1>1 DEF Called
<1>3. /\ calls' \subseteq Requests \X CallStages
      /\ waiting' \in [Requests -> BOOLEAN] /\ \A r \in Requests : waiting'[r] => pc[r] \in CallStages
  BY <1>1 DEF IpcInv, IpcTypes
<1>. QED  BY <1>1, <1>2, <1>3, StaysKeep

\* The request that ends, or goes on, with no line that counts.
LEMMA EndsKeep ==
  ASSUME IpcInv, NEW q \in Requests, NEW place \in {"raised", "tail", "answered"},
         pc' = [pc EXCEPT ![q] = place], UNCHANGED <<kind, calls, permitted, wasPermitted>>,
         place # "raised" => kind[q] = "self_test",
         waiting' \in [Requests -> BOOLEAN], \A r \in Requests : waiting'[r] => waiting[r] /\ pc'[r] = pc[r],
         replies' \subseteq replies,
         verdict' \in [Requests -> BOOLEAN], \A r \in Requests : r # q => verdict'[r] = verdict[r],
         actions' \in Seq(Entry), refusals' = refusals,
         \A r : \A t \in {"refused", "accepted", "proposed"} : At(r, t)' = At(r, t)
  PROVE  IpcInv'
<1>. USE DEF IpcInv
<1>1. \A r : (HasTask(r)' <=> HasTask(r)) /\ (IsInvocation(r)' <=> IsInvocation(r))
  BY DEF HasTask, IsInvocation
<1>2. \A r, s : Called(r, s)' <=> Called(r, s)
  BY DEF Called
<1>3. /\ \A r : (Refused(r)' <=> Refused(r)) /\ (Ordered(r)' <=> Ordered(r))
      /\ \A r : \A t \in {"refused", "accepted", "proposed"} : Filed(r, t)' <=> Filed(r, t)
  BY DEF Refused, Told, Ordered, Filed
<1>4. pc'[q] = place /\ \A r \in Requests : r # q => pc'[r] = pc[r]
  BY DEF IpcTypes
<1>5. place # "raised" => ~IsInvocation(q) /\ ~HasTask(q)
  BY DEF IsInvocation, HasTask
<1>6. IpcTypes'
  <2>1. pc' \in [Requests -> CallStages \cup {"answered", "raised", "probe", "tail"}]
    BY DEF IpcTypes
  <2>2. \A r \in Requests : pc'[r] \in {"probe", "tail"} => kind[r] = "self_test"
    BY <1>4 DEF IpcTypes
  <2>3. \A r \in Requests : waiting'[r] => pc'[r] \in CallStages
    BY DEF IpcTypes
  <2>4. replies' \subseteq Requests \X CallStages /\ calls' \subseteq Requests \X CallStages
    BY DEF IpcTypes
  <2>. QED  BY <2>1, <2>2, <2>3, <2>4 DEF IpcTypes
<1>7. OneWay'
  <2>1. ASSUME NEW r \in Requests
        PROVE  (OnRefusal(r)' => OnRefusal(r)) /\ (OnAcceptance(r)' => OnAcceptance(r))
    BY <1>2, <1>3, <1>4 DEF OnRefusal, OnAcceptance
  <2>. QED  BY <1>4, <2>1 DEF OneWay
<1>8. FiledBefore'
  <2>1. ASSUME NEW r \in Requests
        PROVE  /\ IsInvocation(r)' /\ (pc'[r] \in {"oracle", "proposed"} \/ Called(r, "proposed")') => Filed(r, "accepted")'
               /\ IsInvocation(r)' => Ordered(r)'
               /\ pc'[r] = "refused" => Refused(r)'
               /\ pc'[r] = "answered" /\ (IsInvocation(r)' \/ HasTask(r)') =>
                    (Filed(r, "refused")' /\ Refused(r)') \/ Filed(r, "proposed")'
    BY <1>1, <1>2, <1>3, <1>4, <1>5 DEF FiledBefore
  <2>. QED  BY <2>1 DEF FiledBefore
<1>9. RepliesAreKept'
  BY <1>3 DEF RepliesAreKept
<1>10. VerdictsAreFounded'
  BY <1>1, <1>2, <1>3, <1>4 DEF VerdictsAreFounded
<1>. QED  BY <1>6, <1>7, <1>8, <1>9, <1>10

LEMMA RaisesKeeps ==
  ASSUME IpcInv, NEW q \in Requests, Raises(q)
  PROVE  IpcInv'
<1>1. /\ waiting' = [waiting EXCEPT ![q] = FALSE] /\ replies' \subseteq replies
      /\ pc' = [pc EXCEPT ![q] = "raised"]
      /\ UNCHANGED <<kind, verdict, calls, actions, refusals, permitted, wasPermitted>>
  BY DEF Raises, ledgerVars
<1>2. \A r, t : At(r, t)' = At(r, t)
  BY <1>1 DEF At
<1>3. /\ waiting' \in [Requests -> BOOLEAN]
      /\ \A r \in Requests : waiting'[r] => waiting[r] /\ pc'[r] = pc[r]
      /\ verdict \in [Requests -> BOOLEAN] /\ actions \in Seq(Entry)
  BY <1>1 DEF IpcInv, IpcTypes
<1>4. verdict' \in [Requests -> BOOLEAN] /\ actions' \in Seq(Entry) /\ refusals' = refusals
  BY <1>1, <1>3
<1>. QED  BY <1>1, <1>2, <1>3, <1>4, EndsKeep

LEMMA SelfTestKeeps ==
  ASSUME IpcInv, NEW q \in Requests, Probes(q) \/ ReadsTail(q)
  PROVE  IpcInv'
<1>1. PICK place \in {"tail", "answered"} : pc' = [pc EXCEPT ![q] = place]
  BY DEF Probes, ReadsTail
<1>2. pc[q] \in {"probe", "tail"} /\ kind[q] = "self_test" /\ ~waiting[q]
  BY DEF Probes, ReadsTail, IpcInv, IpcTypes, CallStages
<1>3. UNCHANGED <<kind, waiting, calls, replies, refusals, permitted, wasPermitted>>
  BY DEF Probes, ReadsTail, serverVars, ledgerVars
<1>4. /\ waiting' \in [Requests -> BOOLEAN]
      /\ \A r \in Requests : waiting'[r] => waiting[r] /\ pc'[r] = pc[r]
  BY <1>1, <1>2, <1>3 DEF IpcInv, IpcTypes
<1>5. /\ verdict' \in [Requests -> BOOLEAN]
      /\ \A r \in Requests : r # q => verdict'[r] = verdict[r]
  <2>1. verdict \in [Requests -> BOOLEAN]
    BY DEF IpcInv, IpcTypes
  <2>2. CASE Probes(q)
    BY <2>1, <2>2 DEF Probes
  <2>3. CASE ReadsTail(q)
    <3>1. PICK b \in BOOLEAN : verdict' = [verdict EXCEPT ![q] = b]
      BY <2>3 DEF ReadsTail
    <3>. QED  BY <2>1, <3>1
  <2>. QED  BY <2>2, <2>3
<1>6. /\ actions' \in Seq(Entry)
      /\ \A r : \A t \in {"refused", "accepted", "proposed"} : At(r, t)' = At(r, t)
  <2>1. actions \in Seq(Entry)
    BY DEF IpcInv, IpcTypes
  <2>2. CASE Probes(q)
    <3>1. actions' = Append(actions, Record(q, "probe"))
      BY <2>2 DEF Probes
    <3>. QED  BY <2>1, <3>1, OneMoreLine
  <2>3. CASE ReadsTail(q)
    BY <2>1, <2>3 DEF ReadsTail, ledgerVars, At
  <2>. QED  BY <2>2, <2>3
<1>. QED  BY <1>1, <1>2, <1>3, <1>4, <1>5, <1>6, EndsKeep

LEMMA EditsKeeps ==
  ASSUME IpcInv, Edits
  PROVE  IpcInv'
<1>. USE DEF IpcInv
<1>1. /\ UNCHANGED <<kind, pc, waiting, verdict, calls, replies, ledgerVars>>
      /\ permitted' \in BOOLEAN /\ wasPermitted \subseteq wasPermitted'
      /\ permitted' => {r \in Requests : pc[r] = "check"} \subseteq wasPermitted'
  BY DEF Edits, serverVars, IpcTypes
<1>2. \A r : (HasTask(r)' <=> HasTask(r)) /\ (IsInvocation(r)' <=> IsInvocation(r))
  BY <1>1 DEF HasTask, IsInvocation
<1>3. \A r, s : Called(r, s)' <=> Called(r, s)
  BY <1>1 DEF Called
<1>4. /\ \A r : (Refused(r)' <=> Refused(r)) /\ (Ordered(r)' <=> Ordered(r))
      /\ \A r, t : Filed(r, t)' <=> Filed(r, t)
  BY <1>1, LedgersStay
<1>5. IpcTypes'
  BY <1>1 DEF IpcTypes, ledgerVars
<1>6. OneWay'
  BY <1>1, <1>3, <1>4 DEF OneWay, OnRefusal, OnAcceptance
<1>7. FiledBefore' /\ RepliesAreKept'
  BY <1>1, <1>2, <1>3, <1>4 DEF FiledBefore, RepliesAreKept
<1>8. VerdictsAreFounded'
  BY <1>1, <1>2, <1>3, <1>4 DEF VerdictsAreFounded
<1>. QED  BY <1>5, <1>6, <1>7, <1>8

LEMMA IpcInvInit ==
  ASSUME IpcInit
  PROVE  IpcInv
<1>1. \A r \in Requests : pc[r] = FirstStage(kind[r]) /\ kind[r] \in AllKinds
  BY DEF IpcInit
<1>2. ASSUME NEW r \in Requests
      PROVE  /\ pc[r] \in {"check", "oracle", "answered", "probe"}
             /\ pc[r] = "probe" => kind[r] = "self_test"
             /\ pc[r] = "check" => IsInvocation(r)
             /\ pc[r] # "check" => ~IsInvocation(r)
             /\ pc[r] = "answered" => ~HasTask(r)
  BY <1>1 DEF FirstStage, AllKinds, IsInvocation, HasTask
<1>3. /\ \A r, s : ~Called(r, s) /\ ~Filed(r, s)
      /\ \A r : ~Refused(r) /\ Ordered(r)
  BY DEF IpcInit, Called, Filed, At, Refused, Told, Ordered
<1>4. IpcTypes
  BY <1>2 DEF IpcInit, IpcTypes, CallStages
<1>5. OneWay
  BY <1>2, <1>3 DEF OneWay, OnRefusal, OnAcceptance
<1>6. FiledBefore
  BY <1>2, <1>3 DEF FiledBefore
<1>7. RepliesAreKept
  BY DEF RepliesAreKept, IpcInit
<1>8. VerdictsAreFounded
  BY <1>2, <1>3 DEF VerdictsAreFounded, IpcInit
<1>. QED  BY <1>4, <1>5, <1>6, <1>7, <1>8 DEF IpcInv

LEMMA IpcInvNext ==
  ASSUME IpcInv, [IpcNext]_ipcVars
  PROVE  IpcInv'
<1>1. ASSUME NEW q \in Requests, FindsNobody(q) \/ TimesOut(q)
      PROVE  IpcInv'
  <2>1. pc[q] \in CallStages
    BY <1>1 DEF FindsNobody, TimesOut, IpcInv, IpcTypes
  <2>. QED  BY <1>1, <2>1, FallsBackKeeps DEF FindsNobody, TimesOut
<1>2. ASSUME NEW call \in calls, Serves(call[1], call[2])
      PROVE  IpcInv'
  <2>1. call[1] \in Requests /\ call[2] \in CallStages
    BY DEF IpcInv, IpcTypes
  <2>2. PICK q \in Requests, stage \in CallStages : q = call[1] /\ stage = call[2]
    BY <2>1
  <2>. QED  BY <1>2, <2>2, ServesKeeps
<1>3. CASE UNCHANGED ipcVars
  <2>1. /\ UNCHANGED <<kind, pc, waiting, verdict, ledgerVars, permitted, wasPermitted>>
        /\ replies' = replies /\ calls' = calls
    BY <1>3 DEF ipcVars, serverVars
  <2>2. \A r, s : Called(r, s)' => Called(r, s)
    BY <2>1 DEF Called
  <2>3. /\ calls' \subseteq Requests \X CallStages
        /\ waiting' \in [Requests -> BOOLEAN] /\ \A r \in Requests : waiting'[r] => pc[r] \in CallStages
    BY <2>1 DEF IpcInv, IpcTypes
  <2>. QED  BY <2>1, <2>2, <2>3, StaysKeep
<1>. QED  BY <1>1, <1>2, <1>3, PostsKeeps, ReceivesKeeps, RaisesKeeps, SelfTestKeeps, ServersKeep,
             EditsKeeps DEF IpcNext

\* The invariant the two properties of the role servers' ledgers rest on.
THEOREM IpcInvHolds == IpcSpec => []IpcInv
<1>. QED  BY IpcInvInit, IpcInvNext, PTL DEF IpcSpec

\* ipc.py with service_server.py: for any requests, and however the servers hang,
\* die, lose calls and do late what the web process has done in their place, the
\* ledgers tell one story of each request, and the whole story of an answered one.
THEOREM LedgersAlwaysTell == IpcSpec => []LedgersTellTheAnswer
<1>1. IpcInv => LedgersTellTheAnswer
  BY DEF IpcInv, OneWay, FiledBefore, LedgersTellTheAnswer, OnRefusal, OnAcceptance, Refused, Filed, Ordered
<1>. QED  BY <1>1, IpcInvHolds, PTL

\* services.py, check_invocation, asked over ipc or in process: what is accepted
\* was permitted at some moment while its verdict was out, and has a task.
THEOREM AcceptedAlwaysPermitted == IpcSpec => []AcceptedWasPermitted
<1>1. IpcInv => AcceptedWasPermitted
  BY DEF IpcInv, VerdictsAreFounded, AcceptedWasPermitted, Filed
<1>. QED  BY <1>1, IpcInvHolds, PTL

---------------------------------------------------------------------------
(* How long a request can last. *)

\* How many stages a request may still go through, this one included.
StagesLeft(stage) ==
  CASE stage = "check" -> 4 [] stage = "accepted" -> 3 [] stage = "oracle" -> 2
    [] stage = "proposed" -> 1 [] stage = "refusal" -> 2 [] stage = "refused" -> 1
    [] stage = "probe" -> 2 [] stage = "tail" -> 1
    [] OTHER -> 0

\* A stage is a call that is posted and one that is over.
CallsLeft(r) == 2 * StagesLeft(pc[r]) - IF waiting[r] THEN 1 ELSE 0

Goes(r) == Posts(r) \/ Receives(r) \/ FindsNobody(r) \/ TimesOut(r) \/ Raises(r) \/ Probes(r) \/ ReadsTail(r)

LEMMA CallsLeftAreFew ==
  ASSUME IpcTypes, NEW r \in Requests
  PROVE  CallsLeft(r) \in 0..8 /\ (CallsLeft(r) = 0 => pc[r] \in {"answered", "raised"})
<1>1. pc[r] \in CallStages \cup {"answered", "raised", "probe", "tail"} /\ (waiting[r] => pc[r] \in CallStages)
  BY DEF IpcTypes
<1>2. /\ StagesLeft(pc[r]) \in 0..4
      /\ pc[r] \notin {"answered", "raised"} => StagesLeft(pc[r]) > 0
      /\ waiting[r] => StagesLeft(pc[r]) > 0
  BY <1>1 DEF StagesLeft, CallStages
<1>3. waiting[r] \in BOOLEAN
  BY DEF IpcTypes
<1> QED
  BY <1>1, <1>2, <1>3 DEF CallsLeft

\* Whatever the verdict, the stage that follows has less left.
LEMMA AfterIsNearer ==
  ASSUME NEW r \in Requests, NEW stage \in CallStages, NEW allowed
  PROVE  StagesLeft(After(r, stage, allowed)) < StagesLeft(stage)
  BY DEF After, StagesLeft, CallStages

\* Where a step of its own takes a request.
LEMMA GoingOn ==
  ASSUME IpcTypes, NEW r \in Requests, Goes(r)
  PROVE  /\ \/ ~waiting[r] /\ waiting'[r] /\ pc'[r] = pc[r]
            \/ ~waiting'[r] /\ StagesLeft(pc'[r]) < StagesLeft(pc[r])
         /\ \A q \in Requests \ {r} : pc'[q] = pc[q] /\ waiting'[q] = waiting[q]
<1> DEFINE Moved == \/ ~waiting[r] /\ waiting'[r] /\ pc'[r] = pc[r]
                    \/ ~waiting'[r] /\ StagesLeft(pc'[r]) < StagesLeft(pc[r])
           Alone == \A q \in Requests \ {r} : pc'[q] = pc[q] /\ waiting'[q] = waiting[q]
<1>1. DOMAIN pc = Requests /\ DOMAIN waiting = Requests /\ (waiting[r] => pc[r] \in CallStages)
  BY DEF IpcTypes
<1>2. ASSUME NEW allowed, pc[r] \in CallStages, pc' = [pc EXCEPT ![r] = After(r, pc[r], allowed)],
             waiting' = [waiting EXCEPT ![r] = FALSE]
      PROVE  Moved /\ Alone
  <2>1. pc'[r] = After(r, pc[r], allowed) /\ ~waiting'[r] /\ Alone
    BY <1>1, <1>2
  <2> QED
    BY <1>2, <2>1, AfterIsNearer
<1>3. CASE Posts(r)
  BY <1>1, <1>3 DEF Posts
<1>4. CASE Receives(r)
  BY <1>1, <1>2, <1>4 DEF Receives
<1>5. CASE FindsNobody(r) \/ TimesOut(r)
  <2>1. pc[r] \in CallStages /\ FallsBack(r)
    BY <1>1, <1>5 DEF FindsNobody, TimesOut
  <2>2. /\ pc' = [pc EXCEPT ![r] = After(r, pc[r], verdict'[r])]
        /\ waiting' = [waiting EXCEPT ![r] = FALSE]
    BY <2>1 DEF FallsBack
  <2> QED
    BY <1>2, <2>1, <2>2
<1>6. CASE Raises(r)
  <2>1. pc[r] \in CallStages /\ pc' = [pc EXCEPT ![r] = "raised"] /\ waiting' = [waiting EXCEPT ![r] = FALSE]
    BY <1>1, <1>6 DEF Raises
  <2>2. StagesLeft(pc[r]) > 0 /\ StagesLeft("raised") = 0
    BY <2>1 DEF StagesLeft, CallStages
  <2> QED
    BY <1>1, <2>1, <2>2
<1>7. CASE Probes(r) \/ ReadsTail(r)
  <2>1. /\ (pc[r] = "probe" /\ pc' = [pc EXCEPT ![r] = "tail"]) \/ (pc[r] = "tail" /\ pc' = [pc EXCEPT ![r] = "answered"])
        /\ waiting' = waiting
    BY <1>7 DEF Probes, ReadsTail
  <2>2. ~waiting[r]
    BY <1>1, <2>1 DEF CallStages
  <2>3. StagesLeft("probe") = 2 /\ StagesLeft("tail") = 1 /\ StagesLeft("answered") = 0
    BY DEF StagesLeft
  <2> QED
    BY <1>1, <2>1, <2>2, <2>3
<1> QED
  BY <1>3, <1>4, <1>5, <1>6, <1>7 DEF Goes

LEMMA OthersWait ==
  ASSUME [IpcNext]_ipcVars, NEW r \in Requests, ~Goes(r), IpcTypes
  PROVE  pc'[r] = pc[r] /\ waiting'[r] = waiting[r]
<1>1. CASE UNCHANGED ipcVars
  BY <1>1 DEF ipcVars
<1>2. ASSUME NEW q \in Requests, Goes(q)
      PROVE  pc'[r] = pc[r] /\ waiting'[r] = waiting[r]
  <2>1. q # r
    BY <1>2
  <2> QED
    BY <1>2, <2>1, GoingOn
<1>3. CASE \/ \E call \in calls : Serves(call[1], call[2]) \/ Drops(call)
           \/ \E role \in Roles : ServerDies(role) \/ Starts(role)
           \/ Edits
  BY <1>3 DEF Serves, Drops, ServerDies, Starts, Edits
<1> QED
  BY <1>1, <1>2, <1>3 DEF IpcNext, Goes

LEMMA CallsRunOut ==
  ASSUME IpcTypes, [IpcNext]_ipcVars, NEW r \in Requests
  PROVE  CallsLeft(r)' <= CallsLeft(r) /\ (Goes(r) => CallsLeft(r)' < CallsLeft(r))
<1>1. waiting[r] \in BOOLEAN
  BY DEF IpcTypes
<1>2. StagesLeft(pc[r]) \in 0..4 /\ StagesLeft(pc'[r]) \in 0..4
  BY DEF StagesLeft
<1>3. CASE Goes(r)
  <2>1. \/ ~waiting[r] /\ waiting'[r] /\ pc'[r] = pc[r]
        \/ ~waiting'[r] /\ StagesLeft(pc'[r]) < StagesLeft(pc[r])
    BY <1>3, GoingOn
  <2> QED
    BY <1>1, <1>2, <2>1 DEF CallsLeft
<1>4. CASE ~Goes(r)
  <2>1. pc'[r] = pc[r] /\ waiting'[r] = waiting[r]
    BY <1>4, OthersWait
  <2> QED
    BY <1>1, <1>2, <1>4, <2>1 DEF CallsLeft
<1> QED
  BY <1>3, <1>4

\* A request is over after eight steps of its own thread at most: every one of them leaves fewer
\* calls and stages, and nothing that role servers, late replies, deaths, edits and other requests
\* do brings one back (ipc.py, web.py).
CallsRunDown ==
  \A r \in Requests :
    /\ [](CallsLeft(r) \in 0..8 /\ (CallsLeft(r) = 0 => pc[r] \in {"answered", "raised"}))
    /\ [][CallsLeft(r)' <= CallsLeft(r) /\ (Goes(r) => CallsLeft(r)' < CallsLeft(r))]_ipcVars

THEOREM CallsAlwaysRunDown == IpcSpec => CallsRunDown
<1> SUFFICES ASSUME NEW r \in Requests
             PROVE  IpcSpec => /\ [](CallsLeft(r) \in 0..8 /\ (CallsLeft(r) = 0 => pc[r] \in {"answered", "raised"}))
                               /\ [][CallsLeft(r)' <= CallsLeft(r) /\ (Goes(r) => CallsLeft(r)' < CallsLeft(r))]_ipcVars
  BY DEF CallsRunDown
<1>1. IpcInv => CallsLeft(r) \in 0..8 /\ (CallsLeft(r) = 0 => pc[r] \in {"answered", "raised"})
  BY CallsLeftAreFew DEF IpcInv
<1>2. IpcInv /\ [IpcNext]_ipcVars => [CallsLeft(r)' <= CallsLeft(r) /\ (Goes(r) => CallsLeft(r)' < CallsLeft(r))]_ipcVars
  BY CallsRunOut DEF IpcInv
<1> QED
  BY <1>1, <1>2, IpcInvHolds, PTL DEF IpcSpec
===============================================================================

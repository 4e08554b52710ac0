----------------------------- MODULE PID1Proofs -----------------------------
(***************************************************************************)
(* What can be relied on of the supervisor's bookkeeping and of a          *)
(* shutdown, for any children, any numbers of restarts and failing calls,  *)
(* as long as the kernel does not give a pid out a second time.            *)
(*                                                                         *)
(* And of the older supervisor, Boot, for any registry: the order it       *)
(* writes down lists every service once, after what it stands on, and what *)
(* a shutdown answered for stays down.                                     *)
(***************************************************************************)
EXTENDS PID1, Boot, FiniteSetTheorems, WellFoundedInduction, TLAPS

Distinct(s) == \A i, j \in DOMAIN s : s[i] = s[j] => i = j

Kept == ToSet(children)
Of(n) == {p \in Pids : processes[p].of = n}

\* Where run() is, and the lists it works through: reap() polls each handle once.
Lists ==
  /\ pc \in {"start", "loop", "reap", "restart", "web", "term", "grace", "kill", "over"}
  /\ back \in {"web", "grace", "over"}
  /\ starting \in Seq(Names) /\ todo \in Seq(Pids)
  /\ pc \in {"reap", "restart"} => Distinct(todo) /\ ToSet(todo) \subseteq Kept

\* The handles kept are those of the processes nobody has collected yet.
Handles ==
  /\ children \in Seq(Pids) /\ states \in [Names -> ChildState] /\ processes \in [Pids -> Process]
  /\ Distinct(children)
  /\ \A p \in Pids : p \in Kept <=> processes[p].status \in {"live", "ok", "bad"}

\* A state remembers a process of its own, the last; what is kept is remembered.
Remembered ==
  /\ \A p \in Pids : processes[p].status = "unused" => processes[p].of = Nobody
  /\ \A n \in Names : states[n].pid \in Pids => processes[states[n].pid].of = n
  /\ \A p \in Kept : LET n == processes[p].of
                     IN  n \in Names /\ states[n].pid = p /\ states[n].status = "running"
  /\ \A n \in Names : states[n].status = "running" => states[n].pid \in Kept

\* A start is counted, and so is the restart it was.
Counted ==
  \A n \in Names :
    /\ IsFiniteSet(Of(n)) /\ Cardinality(Of(n)) = states[n].starts
    /\ states[n].starts <= 1 + states[n].restarts

Bookkeeping == Handles /\ Remembered /\ Counted

\* What is about to be started does not run, and its start is not yet counted.
Pending ==
  /\ pc = "start" =>
       /\ Distinct(starting)
       /\ \A i \in DOMAIN starting : states[starting[i]].starts = 0 /\ states[starting[i]].status # "running"
  /\ pc = "restart" =>
       /\ Len(starting) = 1 /\ states[starting[1]].status # "running"
       /\ states[starting[1]].starts <= states[starting[1]].restarts

\* Unless a call has failed, children are terminated in a shutdown only, nobody is
\* restarted in one, and whoever lives after the kill loop was killed.
Ending ==
  ~raised =>
    /\ pc \in {"term", "grace", "kill"} \/ (pc = "reap" /\ back # "web") => shuttingDown
    /\ pc = "restart" => back = "web"
    /\ pc = "over" \/ (pc = "reap" /\ back = "over") =>
         \A p \in Pids : Live(p) => p \in signalled /\ processes[p].killed

PID1Inv == Bookkeeping /\ Lists /\ Pending /\ Ending

---------------------------------------------------------------------------
(* Sequences of different elements. *)

LEMMA AppendDistinct ==
  ASSUME NEW S, NEW s \in Seq(S), NEW e \in S, Distinct(s), e \notin ToSet(s)
  PROVE  Append(s, e) \in Seq(S) /\ Distinct(Append(s, e)) /\ ToSet(Append(s, e)) = ToSet(s) \cup {e}
<1>1. /\ Append(s, e) \in Seq(S) /\ DOMAIN Append(s, e) = DOMAIN s \cup {Len(s) + 1}
      /\ Append(s, e)[Len(s) + 1] = e /\ \A i \in DOMAIN s : Append(s, e)[i] = s[i]
  OBVIOUS
<1>2. ToSet(Append(s, e)) = ToSet(s) \cup {e}
  BY <1>1 DEF ToSet
<1>3. Distinct(Append(s, e))
  BY <1>1 DEF Distinct, ToSet
<1> QED
  BY <1>1, <1>2, <1>3

LEMMA TailDistinct ==
  ASSUME NEW S, NEW s \in Seq(S), s # <<>>, Distinct(s)
  PROVE  /\ Head(s) \in ToSet(s) /\ Tail(s) \in Seq(S) /\ Distinct(Tail(s))
         /\ ToSet(Tail(s)) = ToSet(s) \ {Head(s)}
<1>1. /\ Tail(s) \in Seq(S) /\ Len(s) \in Nat \ {0} /\ Len(Tail(s)) = Len(s) - 1 /\ Head(s) = s[1]
      /\ \A i \in 1..Len(s) - 1 : Tail(s)[i] = s[i + 1]
  OBVIOUS
<1>2. DOMAIN s = 1..Len(s) /\ DOMAIN Tail(s) = 1..Len(s) - 1
  BY <1>1
<1>3. Distinct(Tail(s))
  BY <1>1, <1>2 DEF Distinct
<1>4. ToSet(Tail(s)) \subseteq ToSet(s) \ {Head(s)}
  BY <1>1, <1>2 DEF ToSet, Distinct
<1>5. ASSUME NEW e \in ToSet(s), e # Head(s)
      PROVE  e \in ToSet(Tail(s))
  <2>1. PICK i \in 2..Len(s) : e = s[i]
    BY <1>1, <1>2, <1>5 DEF ToSet
  <2>2. i - 1 \in DOMAIN Tail(s) /\ Tail(s)[i - 1] = e
    BY <1>1, <1>2, <2>1
  <2> QED
    BY <2>2 DEF ToSet
<1>6. Head(s) \in ToSet(s)
  BY <1>1, <1>2 DEF ToSet
<1> QED
  BY <1>1, <1>3, <1>4, <1>5, <1>6

LEMMA WithoutDistinct ==
  ASSUME children \in Seq(Pids), Distinct(children), NEW p \in Kept
  PROVE  /\ Without(p) \in Seq(Pids) /\ Distinct(Without(p))
         /\ ToSet(Without(p)) = Kept \ {p}
<1>1. PICK n \in Nat : n = Len(children) /\ DOMAIN children = 1..n /\ \A j \in 1..n : children[j] \in Pids
  OBVIOUS
<1>2. PICK k \in 1..n : children[k] = p /\ k = CHOOSE i \in DOMAIN children : children[i] = p
  BY <1>1 DEF Kept, ToSet
<1>3. PICK t : t = [i \in 1..n - 1 |-> children[IF i < k THEN i ELSE i + 1]]
  OBVIOUS
<1>4. t = Without(p)
  BY <1>1, <1>2, <1>3 DEF Without
<1>5. t \in Seq(Pids) /\ DOMAIN t = 1..n - 1
  <2>1. \A i \in 1..n - 1 : t[i] \in Pids
    BY <1>1, <1>2, <1>3
  <2>2. PICK m \in Nat : m = n - 1
    BY <1>2
  <2>3. t \in [1..m -> Pids]
    BY <1>3, <2>1, <2>2
  <2>4. t \in Seq(Pids)
    BY <2>3
  <2> QED
    BY <1>3, <2>4
<1>6. Distinct(t)
  <2> DEFINE Before(i) == IF i < k THEN i ELSE i + 1
  <2>1. \A i \in 1..n - 1 : Before(i) \in 1..n /\ t[i] = children[Before(i)]
    BY <1>1, <1>2, <1>3
  <2>2. \A i, j \in 1..n - 1 : Before(i) = Before(j) => i = j
    BY <1>1, <1>2
  <2> HIDE DEF Before
  <2>3. \A i, j \in 1..n : children[i] = children[j] => i = j
    BY <1>1 DEF Distinct
  <2>4. \A i, j \in 1..n - 1 : t[i] = t[j] => i = j
    BY <2>1, <2>2, <2>3
  <2> QED
    BY <1>5, <2>4 DEF Distinct
<1>7. ToSet(t) \subseteq Kept \ {p}
  BY <1>1, <1>2, <1>3, <1>5 DEF ToSet, Distinct, Kept
<1>8. ASSUME NEW e \in Kept, e # p
      PROVE  e \in ToSet(t)
  <2>1. PICK j \in 1..n : e = children[j] /\ j # k
    BY <1>1, <1>2, <1>8 DEF ToSet, Kept
  <2>2. CASE j < k
    <3>1. j \in DOMAIN t /\ t[j] = e
      BY <1>1, <1>2, <1>3, <1>5, <2>1, <2>2
    <3> QED
      BY <3>1 DEF ToSet
  <2>3. CASE j > k
    <3>1. j - 1 \in DOMAIN t /\ t[j - 1] = e
      BY <1>1, <1>2, <1>3, <1>5, <2>1, <2>3
    <3> QED
      BY <3>1 DEF ToSet
  <2> QED
    BY <1>1, <1>2, <2>1, <2>2, <2>3
<1> QED
  BY <1>4, <1>5, <1>6, <1>7, <1>8

---------------------------------------------------------------------------
\* The assumptions the proofs use.
LEMMA Basics ==
  /\ Specs \in Seq(Names) /\ Distinct(Specs) /\ Nobody \notin Names
  /\ MaxRestarts \in Nat /\ 0 \notin Pids
BY PID1Assumption DEF Distinct

LEMMA PID1InitEstablishes == ASSUME Init PROVE PID1Inv
<1> USE Basics DEF Init
<1>1. states \in [Names -> ChildState] /\ processes \in [Pids -> Process] /\ <<>> \in Seq(Pids)
  BY DEF ChildState, NoPid, Process
<1>2. Kept = {} /\ \A n \in Names : Of(n) = {}
  BY DEF Kept, ToSet, Of
<1>3. Handles
  <2>1. children \in Seq(Pids) /\ Distinct(children)
    BY <1>1 DEF Distinct
  <2>2. \A p \in Pids : p \notin Kept /\ processes[p].status = "unused"
    BY <1>2
  <2> QED
    BY <1>1, <2>1, <2>2 DEF Handles
<1>7. Remembered
  BY <1>2 DEF Remembered, NoPid
<1>6. Lists
  BY <1>1 DEF Lists
<1>4. Counted
  <2>1. \A n \in Names : Of(n) = {} /\ states[n].starts = 0 /\ states[n].restarts = 0
    BY <1>2
  <2>2. IsFiniteSet({}) /\ Cardinality({}) = 0
    BY FS_EmptySet
  <2>3. ASSUME NEW n \in Names
        PROVE  IsFiniteSet(Of(n)) /\ Cardinality(Of(n)) = states[n].starts /\ states[n].starts <= 1 + states[n].restarts
    <3>1. Of(n) = {} /\ states[n].starts = 0 /\ states[n].restarts = 0
      BY <2>1
    <3>2. IsFiniteSet(Of(n)) /\ Cardinality(Of(n)) = 0
      BY <3>1, <2>2, Zenon
    <3> HIDE DEF Init
    <3> QED
      BY <3>1, <3>2
  <2> QED
    BY <2>3 DEF Counted
<1>5. Pending /\ Ending
  BY DEF Pending, Ending, Distinct
<1> QED
  BY <1>3, <1>4, <1>5, <1>6, <1>7 DEF PID1Inv, Bookkeeping

---------------------------------------------------------------------------
(* Starting a child, by start_all or by _maybe_restart. *)

LEMMA StartKeeps ==
  ASSUME Bookkeeping, ~PidsRecycled, NEW name \in Names, StartChild(name),
         states[name].status # "running", states[name].starts <= states[name].restarts
  PROVE  /\ Bookkeeping' /\ Kept \subseteq Kept'
         /\ \A n \in Names \ {name} : states'[n] = states[n]
<1>1. PICK p \in Pids :
        /\ processes[p].status = "unused"
        /\ processes' = [processes EXCEPT ![p] = [of |-> name, status |-> "live", killed |-> FALSE]]
        /\ children' = Append(children, p)
        /\ states' = [states EXCEPT ![name].pid = p, ![name].status = "running", ![name].starts = @ + 1]
  BY DEF StartChild, FreePids, Unused
<1>2. p \notin Kept /\ processes[p].of = Nobody /\ name # Nobody
  BY <1>1, Basics DEF Bookkeeping, Handles, Remembered
<1>3. children' \in Seq(Pids) /\ Distinct(children)' /\ Kept' = Kept \cup {p}
  BY <1>1, <1>2, AppendDistinct DEF Bookkeeping, Handles, Kept
<1>4. PICK s : s = states[name]
  OBVIOUS
<1>5. PICK t : t = [pid |-> p, status |-> "running", starts |-> s.starts + 1, restarts |-> s.restarts]
  OBVIOUS
<1>6. s \in ChildState /\ s.starts \in 0..1 + MaxRestarts /\ s.restarts \in 0..MaxRestarts /\ s.starts <= s.restarts
  BY <1>4 DEF Bookkeeping, Handles, ChildState
<1>7. t \in ChildState
  BY <1>5, <1>6, Basics DEF ChildState
<1>8. states' = [states EXCEPT ![name] = t]
  BY <1>1, <1>4, <1>5, <1>6 DEF Bookkeeping, Handles, ChildState
<1>9. /\ states' \in [Names -> ChildState] /\ states'[name] = t
      /\ \A n \in Names \ {name} : states'[n] = states[n]
  BY <1>7, <1>8 DEF Bookkeeping, Handles
<1>10. /\ processes'[p] = [of |-> name, status |-> "live", killed |-> FALSE]
       /\ \A q \in Pids \ {p} : processes'[q] = processes[q]
       /\ processes' \in [Pids -> Process]
  BY <1>1 DEF Bookkeeping, Handles, Process
<1>11. \A q \in Pids : q \in Kept' <=> processes'[q].status \in {"live", "ok", "bad"}
  BY <1>3, <1>10 DEF Bookkeeping, Handles
<1>12. Remembered'
  <2>1. \A q \in Pids : processes'[q].status = "unused" => processes'[q].of = Nobody
    BY <1>10 DEF Bookkeeping, Handles, Remembered
  <2>2. ASSUME NEW n \in Names, states'[n].pid \in Pids
        PROVE  processes'[states'[n].pid].of = n
    <3>1. CASE n = name
      BY <1>5, <1>9, <1>10, <3>1
    <3>2. CASE n # name
      <4>1. states'[n].pid = states[n].pid /\ processes[states[n].pid].of = n /\ n # Nobody
        BY <1>9, <2>2, <3>2, Basics DEF Bookkeeping, Handles, Remembered
      <4> QED
        BY <1>2, <1>10, <2>2, <4>1
    <3> QED
      BY <3>1, <3>2
  <2>3. ASSUME NEW q \in Kept'
        PROVE  LET n == processes'[q].of
               IN  n \in Names /\ states'[n].pid = q /\ states'[n].status = "running"
    <3>1. CASE q = p
      BY <1>5, <1>9, <1>10, <3>1
    <3>2. CASE q # p
      <4>0. q \in Kept
        BY <1>3, <2>3, <3>2
      <4>1. q \in Kept /\ q \in Pids
        BY <4>0 DEF Bookkeeping, Handles, Kept, ToSet
      <4>2. PICK n \in Names : n = processes[q].of /\ states[n].pid = q /\ states[n].status = "running"
        BY <4>1 DEF Bookkeeping, Handles, Remembered
      <4>3. n # name /\ processes'[q].of = n
        BY <1>10, <3>2, <4>1, <4>2
      <4> QED
        BY <1>9, <4>2, <4>3, Zenon
    <3> QED
      BY <3>1, <3>2
  <2>4. ASSUME NEW n \in Names, states'[n].status = "running"
        PROVE  states'[n].pid \in Kept'
    BY <1>3, <1>5, <1>9, <2>4 DEF Bookkeeping, Handles, Remembered
  <2> QED
    BY <2>1, <2>2, <2>3, <2>4 DEF Remembered
<1>13. Counted'
  <2>1. Of(name)' = Of(name) \cup {p} /\ p \notin Of(name)
    BY <1>2, <1>10 DEF Of
  <2>2. IsFiniteSet(Of(name)) /\ Cardinality(Of(name)) = s.starts
    BY <1>4 DEF Bookkeeping, Handles, Counted
  <2>3. IsFiniteSet(Of(name)') /\ Cardinality(Of(name)') = s.starts + 1
    BY <2>1, <2>2, FS_AddElement
  <2>4. ASSUME NEW n \in Names \ {name}
        PROVE  Of(n)' = Of(n) /\ states'[n] = states[n]
    BY <1>2, <1>9, <1>10, Basics DEF Of
  <2>5. ASSUME NEW n \in Names
        PROVE  /\ IsFiniteSet(Of(n)') /\ Cardinality(Of(n)') = states'[n].starts
               /\ states'[n].starts <= 1 + states'[n].restarts
    <3>1. CASE n = name
      <4>1. states'[n].starts = s.starts + 1 /\ states'[n].restarts = s.restarts
        BY <1>5, <1>9, <3>1
      <4>2. s.starts + 1 <= 1 + s.restarts
        BY <1>6
      <4> QED
        BY <2>3, <3>1, <4>1, <4>2
    <3>2. CASE n # name
      BY <2>4, <3>2 DEF Bookkeeping, Handles, Counted
    <3> QED
      BY <3>1, <3>2
  <2> QED
    BY <2>5 DEF Counted
<1> QED
  BY <1>3, <1>9, <1>10, <1>11, <1>12, <1>13 DEF Bookkeeping, Handles

---------------------------------------------------------------------------
(* Collecting a process that has ended. *)

\* The state that remembers a pid is the one of the child it was started for.
LEMMA StateOfKept ==
  ASSUME Bookkeeping, NEW p \in Kept
  PROVE  StateOf(p) = processes[p].of /\ StateOf(p) \in Names /\ p \in Pids
<1>1. p \in Pids
  BY DEF Bookkeeping, Handles, Kept, ToSet
<1>2. PICK n \in Names : n = processes[p].of /\ states[n].pid = p
  BY DEF Bookkeeping, Handles, Remembered
<1>3. PICK i \in DOMAIN Specs : Specs[i] = n
  BY DEF Names, ToSet
<1>4. \A j \in DOMAIN Specs : Specs[j] \in Names
  BY DEF Names, ToSet
<1>5. Remembers(p) = {i}
  BY <1>1, <1>2, <1>3, <1>4, Basics DEF Remembers, Bookkeeping, Handles, Remembered, Distinct
<1>6. i \in Nat
  BY <1>3, Basics
<1>7. StateOf(p) = Specs[i]
  BY <1>5, <1>6 DEF StateOf
<1> QED
  BY <1>1, <1>2, <1>3, <1>7

\* What a turn of reap() does to the books when the process has ended.
Collect(p, name, t) ==
  /\ children' = Without(p) /\ processes' = [processes EXCEPT ![p].status = "reaped"]
  /\ states' = [states EXCEPT ![name] = t]
  /\ name = StateOf(p) /\ t.pid = states[name].pid /\ t.starts = states[name].starts
  /\ t.status # "running" /\ states[name].restarts <= t.restarts

LEMMA ReapKeeps ==
  ASSUME Bookkeeping, NEW p \in Kept, NEW name, NEW t \in ChildState, Collect(p, name, t)
  PROVE  /\ Bookkeeping' /\ Kept' = Kept \ {p}
         /\ \A n \in Names \ {name} : states'[n] = states[n]
         /\ states'[name] = t /\ name \in Names /\ t.starts <= 1 + states[name].restarts
<1> USE DEF Collect
<1>1. name \in Names /\ name = processes[p].of /\ p \in Pids
  BY StateOfKept
<1>2. children' \in Seq(Pids) /\ Distinct(children)' /\ Kept' = Kept \ {p}
  BY WithoutDistinct DEF Bookkeeping, Handles, Kept
<1>3. PICK s : s = states[name]
  OBVIOUS
<1>4. t.starts = s.starts /\ t.pid = s.pid /\ s.restarts <= t.restarts
  BY <1>3
<1>5. s \in ChildState /\ s.starts \in Int /\ s.restarts \in Int /\ t.restarts \in Int /\ s.pid = p
  BY <1>1, <1>3, Basics DEF Bookkeeping, Handles, ChildState, Remembered
<1>6. s.starts <= 1 + s.restarts
  BY <1>1, <1>3 DEF Bookkeeping, Handles, Counted
<1>7. t.starts <= 1 + t.restarts
  BY <1>4, <1>5, <1>6
<1>8. /\ states' \in [Names -> ChildState] /\ states'[name] = t
      /\ \A n \in Names \ {name} : states'[n] = states[n]
  BY <1>1 DEF Bookkeeping, Handles
<1>9. /\ processes'[p].status = "reaped" /\ processes'[p].of = name
      /\ \A q \in Pids \ {p} : processes'[q] = processes[q]
      /\ processes' \in [Pids -> Process]
  BY <1>1 DEF Bookkeeping, Handles, Process
<1>10. \A q \in Pids : q \in Kept' <=> processes'[q].status \in {"live", "ok", "bad"}
  BY <1>2, <1>9 DEF Bookkeeping, Handles
<1>11. Remembered'
  <2>1. \A q \in Pids : processes'[q].status = "unused" => processes'[q].of = Nobody
    BY <1>9 DEF Bookkeeping, Handles, Remembered
  <2>2. \A n \in Names : states'[n].pid = states[n].pid
    <3>1. states'[name].pid = states[name].pid
      BY <1>8
    <3> QED
      BY <1>8, <3>1
  <2>3. \A q \in Pids : processes'[q].of = processes[q].of
    BY <1>1, <1>9
  <2>4. \A n \in Names : states'[n].pid \in Pids => processes'[states'[n].pid].of = n
    BY <2>2, <2>3 DEF Bookkeeping, Handles, Remembered
  <2>5. ASSUME NEW q \in Kept'
        PROVE  LET n == processes'[q].of
               IN  n \in Names /\ states'[n].pid = q /\ states'[n].status = "running"
    <3>1. q \in Kept /\ q # p
      BY <1>2, <2>5
    <3>2. q \in Pids
      BY <3>1 DEF Bookkeeping, Handles, Kept, ToSet
    <3>3. PICK n \in Names : n = processes[q].of /\ states[n].pid = q /\ states[n].status = "running"
      BY <3>1 DEF Bookkeeping, Handles, Remembered
    <3>4. n # name /\ processes'[q].of = n
      BY <1>3, <1>5, <2>3, <3>1, <3>2, <3>3
    <3> QED
      BY <1>8, <3>3, <3>4, Zenon
  <2>6. ASSUME NEW n \in Names, states'[n].status = "running"
        PROVE  states'[n].pid \in Kept'
    <3>1. n # name
      BY <1>8, <2>6
    <3>2. states[n].pid \in Kept /\ states'[n].pid = states[n].pid
      BY <1>8, <2>6, <3>1 DEF Bookkeeping, Handles, Remembered
    <3>3. states[n].pid # p
      BY <1>1, <3>1 DEF Bookkeeping, Handles, Remembered
    <3> QED
      BY <1>2, <3>2, <3>3
  <2> QED
    BY <2>1, <2>4, <2>5, <2>6 DEF Remembered
<1>12. Counted'
  <2>1. \A n \in Names : Of(n)' = Of(n)
    BY <1>1, <1>9 DEF Of
  <2>2. ASSUME NEW n \in Names
        PROVE  states'[n].starts = states[n].starts /\ states'[n].starts <= 1 + states'[n].restarts
    <3>1. states[n].starts <= 1 + states[n].restarts
      BY DEF Bookkeeping, Handles, Counted
    <3>2. CASE n = name
      BY <1>3, <1>4, <1>7, <1>8, <3>2
    <3>3. CASE n # name
      BY <1>8, <3>1, <3>3
    <3> QED
      BY <3>2, <3>3
  <2>3. ASSUME NEW n \in Names
        PROVE  IsFiniteSet(Of(n)') /\ Cardinality(Of(n)') = states'[n].starts
    BY <2>1, <2>2, Zenon DEF Bookkeeping, Handles, Counted
  <2> QED
    BY <2>2, <2>3 DEF Counted
<1>13. Bookkeeping'
  <2>1. Handles'
    <3>1. children' \in Seq(Pids) /\ Distinct(children)'
      BY <1>2
    <3>2. states' \in [Names -> ChildState]
      BY <1>8, Zenon
    <3>3. processes' \in [Pids -> Process]
      BY <1>9, Zenon
    <3> QED
      BY <1>10, <3>1, <3>2, <3>3 DEF Handles
  <2> QED
    BY <1>11, <1>12, <2>1 DEF Bookkeeping
<1>14. t.starts <= 1 + states[name].restarts
  BY <1>3, <1>4, <1>6
<1> QED
  BY <1>1, <1>2, <1>8, <1>13, <1>14

---------------------------------------------------------------------------
(* The steps.  First those that leave the books alone.                     *)

LEMMA SameBooks ==
  ASSUME Bookkeeping, UNCHANGED <<children, states, processes>>
  PROVE  Bookkeeping' /\ Kept' = Kept
<1>1. Kept' = Kept /\ \A n \in Names : Of(n)' = Of(n)
  BY DEF Kept, Of
<1>2. Remembered'
  BY <1>1 DEF Bookkeeping, Handles, Remembered
<1>3. Counted'
  BY <1>1 DEF Bookkeeping, Handles, Counted
<1> QED
  BY <1>1, <1>2, <1>3 DEF Bookkeeping, Handles, Distinct

LEMMA QuietStepsKeep ==
  ASSUME PID1Inv, LoopHead \/ ReapEnds \/ CheckWeb \/ Terminate \/ Grace \/ Fault \/ Shutdown \/ Deadline
                    \/ UNCHANGED vars
  PROVE  PID1Inv'
<1>1. UNCHANGED <<children, states, processes>>
  BY DEF LoopHead, ReapEnds, CheckWeb, Terminate, Grace, Fault, Shutdown, Deadline,
         vars, supervisorVars, processVars
<1>2. Bookkeeping' /\ Kept' = Kept /\ Distinct(children) /\ Kept = ToSet(children) /\ children \in Seq(Pids)
  BY <1>1, SameBooks DEF PID1Inv, Bookkeeping, Handles, Kept
<1>3. Lists /\ Pending /\ Ending
  BY DEF PID1Inv
<1>4. CASE LoopHead
  BY <1>1, <1>2, <1>3, <1>4 DEF PID1Inv, LoopHead, Lists, Pending, Ending, Distinct
<1>5. CASE ReapEnds
  BY <1>1, <1>2, <1>3, <1>5 DEF PID1Inv, ReapEnds, Lists, Pending, Ending, Live, processVars
<1>6. CASE CheckWeb
  BY <1>1, <1>2, <1>3, <1>6 DEF PID1Inv, CheckWeb, Lists, Pending, Ending
<1>7. CASE Terminate
  BY <1>1, <1>2, <1>3, <1>7 DEF PID1Inv, Terminate, Lists, Pending, Ending
<1>8. CASE Grace
  BY <1>1, <1>2, <1>3, <1>8 DEF PID1Inv, Grace, Lists, Pending, Ending, Distinct
<1>9. CASE Fault
  BY <1>1, <1>2, <1>3, <1>9 DEF PID1Inv, Fault, Lists, Pending, Ending
<1>10. CASE Shutdown \/ Deadline \/ UNCHANGED vars
  BY <1>1, <1>2, <1>3, <1>10
     DEF PID1Inv, Shutdown, Deadline, vars, supervisorVars, processVars, Lists, Pending, Ending, Live, Distinct
<1> QED
  BY <1>4, <1>5, <1>6, <1>7, <1>8, <1>9, <1>10

\* A process that ends, or is killed, stays the one it was.
LEMMA KernelStepsKeep ==
  ASSUME Bookkeeping, UNCHANGED <<children, states>>, processes' \in [Pids -> Process],
         \A p \in Pids : /\ processes'[p].of = processes[p].of
                         /\ processes[p].status = "unused" <=> processes'[p].status = "unused"
                         /\ processes[p].status \in {"live", "ok", "bad"} <=> processes'[p].status \in {"live", "ok", "bad"}
  PROVE  Bookkeeping' /\ Kept' = Kept
<1>1. Kept' = Kept /\ Kept \subseteq Pids
  BY DEF Kept, ToSet, Bookkeeping, Handles
<1>2. \A n \in Names : Of(n)' = Of(n)
  BY DEF Of
<1>3. Remembered'
  BY <1>1 DEF Bookkeeping, Handles, Remembered
<1>4. Counted'
  BY <1>2 DEF Bookkeeping, Handles, Counted
<1> QED
  BY <1>1, <1>3, <1>4 DEF Bookkeeping, Handles, Distinct

LEMMA ExitKeeps ==
  ASSUME PID1Inv, NEW p \in Pids, Exit(p)
  PROVE  PID1Inv'
<1>1. PICK code \in {"ok", "bad"} : processes' = [processes EXCEPT ![p].status = code]
  BY DEF Exit
<1>2. Bookkeeping /\ Lists /\ Pending /\ Ending /\ processes[p].status = "live"
  BY DEF PID1Inv, Exit, Live
<1>3. /\ processes' \in [Pids -> Process]
      /\ processes'[p].status = code /\ processes'[p].of = processes[p].of
      /\ \A q \in Pids \ {p} : processes'[q] = processes[q]
  BY <1>1, <1>2 DEF Bookkeeping, Handles, Process
<1>4. UNCHANGED <<pc, starting, todo, back, children, states, shuttingDown, raised, signalled>>
  BY DEF Exit, supervisorVars
<1>5. Bookkeeping' /\ Kept' = Kept
  BY <1>2, <1>3, <1>4, KernelStepsKeep
<1>6. Lists' /\ Pending'
  BY <1>2, <1>4, <1>5 DEF Lists, Pending, Distinct
<1>7. Ending'
  BY <1>2, <1>3, <1>4 DEF Ending, Live
<1> QED
  BY <1>5, <1>6, <1>7 DEF PID1Inv

LEMMA KillKeeps ==
  ASSUME PID1Inv, Kill
  PROVE  PID1Inv'
<1>1. Bookkeeping /\ Lists /\ Pending /\ Ending /\ pc = "kill"
  BY DEF PID1Inv, Kill
<1>2. /\ UNCHANGED <<children, states, shuttingDown, raised, starting>>
      /\ pc' = "reap" /\ back' = "over" /\ todo' = children
      /\ processes' = [p \in Pids |-> IF p \in Kept /\ Live(p) THEN [processes[p] EXCEPT !.killed = TRUE]
                                                              ELSE processes[p]]
      /\ signalled' = signalled \cup {p \in Kept : Live(p)}
  BY DEF Kill, Kept, Signal
<1>3. ASSUME NEW p \in Pids
      PROVE  /\ processes'[p] \in Process
             /\ processes'[p].of = processes[p].of /\ processes'[p].status = processes[p].status
             /\ processes'[p].status = "live" => processes'[p].killed /\ p \in signalled'
  BY <1>1, <1>2 DEF Bookkeeping, Handles, Process, Live
<1>4. processes' \in [Pids -> Process]
  BY <1>2, <1>3
<1>5. Bookkeeping' /\ Kept' = Kept
  BY <1>1, <1>2, <1>3, <1>4, KernelStepsKeep
<1>6. Lists'
  BY <1>1, <1>2, <1>5 DEF Lists, Bookkeeping, Handles, Kept, Distinct
<1>7. Pending' /\ Ending'
  BY <1>1, <1>2, <1>3 DEF Pending, Ending, Live
<1> QED
  BY <1>5, <1>6, <1>7 DEF PID1Inv

---------------------------------------------------------------------------
(* The steps that start a child or collect one. *)

LEMMA StartNextKeeps ==
  ASSUME PID1Inv, ~PidsRecycled, StartNext
  PROVE  PID1Inv'
<1>1. /\ Bookkeeping /\ Lists /\ Pending /\ Ending /\ pc = "start"
      /\ UNCHANGED <<todo, back, shuttingDown, raised>>
  BY DEF PID1Inv, StartNext
<1>2. CASE starting = <<>>
  <2>1. pc' = "loop" /\ UNCHANGED <<starting, children, states, processes, signalled>>
    BY <1>2 DEF StartNext, processVars
  <2>2. Bookkeeping' /\ Kept' = Kept
    BY <1>1, <2>1, SameBooks
  <2> QED
    BY <1>1, <2>1, <2>2 DEF PID1Inv, Lists, Pending, Ending
<1>3. CASE starting # <<>>
  <2>1. PICK name : name = Head(starting)
    OBVIOUS
  <2>2. StartChild(name) /\ starting' = Tail(starting) /\ pc' = "start"
    BY <1>1, <1>3, <2>1 DEF StartNext
  <2>3. /\ name \in Names /\ name \in ToSet(starting) /\ Tail(starting) \in Seq(Names) /\ Distinct(Tail(starting))
        /\ ToSet(Tail(starting)) = ToSet(starting) \ {name}
    BY <1>1, <1>3, <2>1, TailDistinct DEF Lists, Pending
  <2>4. \A n \in ToSet(starting) : n \in Names /\ states[n].starts = 0 /\ states[n].status # "running"
    BY <1>1 DEF Lists, Pending, ToSet
  <2>5. states[name].starts <= states[name].restarts
    BY <1>1, <2>3, <2>4, Basics DEF Bookkeeping, Handles, ChildState
  <2>6. /\ Bookkeeping' /\ \A n \in Names \ {name} : states'[n] = states[n]
    BY <1>1, <2>2, <2>3, <2>4, <2>5, StartKeeps
  <2>7. Pending'
    <3>1. ASSUME NEW i \in DOMAIN starting'
          PROVE  states'[starting'[i]].starts = 0 /\ states'[starting'[i]].status # "running"
      <4>1. starting'[i] \in ToSet(starting) /\ starting'[i] # name
        BY <2>2, <2>3, <3>1 DEF ToSet
      <4> QED
        BY <2>4, <2>6, <4>1
    <3> QED
      BY <2>2, <2>3, <3>1 DEF Pending, Distinct
  <2> QED
    BY <1>1, <2>2, <2>3, <2>6, <2>7 DEF PID1Inv, Lists, Ending
<1> QED
  BY <1>2, <1>3

LEMMA RestartKeeps ==
  ASSUME PID1Inv, ~PidsRecycled, Restart
  PROVE  PID1Inv'
<1>1. /\ Bookkeeping /\ Lists /\ Pending /\ Ending /\ pc = "restart"
      /\ starting' = <<>> /\ pc' = "reap" /\ UNCHANGED <<todo, back, shuttingDown, raised>>
  BY DEF PID1Inv, Restart
<1>2. PICK name : name = Head(starting)
  OBVIOUS
<1>3. name \in Names /\ states[name].status # "running" /\ states[name].starts <= states[name].restarts
  BY <1>1, <1>2 DEF Lists, Pending
<1>4. Bookkeeping' /\ Kept \subseteq Kept'
  BY <1>1, <1>2, <1>3, StartKeeps DEF Restart
<1> QED
  BY <1>1, <1>4 DEF PID1Inv, Lists, Pending, Ending, Distinct

LEMMA ReapNextKeeps ==
  ASSUME PID1Inv, ReapNext
  PROVE  PID1Inv'
<1>1. /\ Bookkeeping /\ Lists /\ Pending /\ Ending /\ pc = "reap" /\ todo # <<>>
      /\ todo' = Tail(todo) /\ UNCHANGED <<back, shuttingDown, raised>>
  BY DEF PID1Inv, ReapNext
<1>2. PICK p : p = Head(todo)
  OBVIOUS
<1>3. /\ p \in Kept /\ p \in Pids /\ Tail(todo) \in Seq(Pids) /\ Distinct(Tail(todo))
      /\ ToSet(Tail(todo)) \subseteq Kept \ {p}
  BY <1>1, <1>2, TailDistinct DEF Lists
<1>4. CASE Live(p)
  <2>1. UNCHANGED <<pc, starting, children, states, processes, signalled>>
    BY <1>2, <1>4 DEF ReapNext, processVars
  <2>2. Bookkeeping' /\ Kept' = Kept
    BY <1>1, <2>1, SameBooks
  <2> QED
    BY <1>1, <1>3, <2>1, <2>2 DEF PID1Inv, Lists, Pending, Ending, Live, Distinct
<1>5. CASE ~Live(p)
  <2>1. PICK name, code, s : name = StateOf(p) /\ code = processes[p].status /\ s = states[name]
    OBVIOUS
  <2>2. PICK again \in BOOLEAN : again <=> Restarts(name, code)
    OBVIOUS
  <2>3. PICK t : t = [pid |-> s.pid, status |-> IF code = "ok" THEN "exited" ELSE "failed", starts |-> s.starts,
                      restarts |-> IF again THEN s.restarts + 1 ELSE s.restarts]
    OBVIOUS
  <2>4. name \in Names /\ s \in ChildState
    BY <1>1, <1>3, <2>1, StateOfKept DEF Bookkeeping, Handles
  <2>5. s.restarts \in 0..MaxRestarts /\ (again => s.restarts < MaxRestarts /\ ~shuttingDown)
    BY <2>1, <2>2, <2>4 DEF ChildState, Restarts
  <2>6. t \in ChildState /\ t.status # "running" /\ t.pid = s.pid /\ t.starts = s.starts
    BY <2>3, <2>4, <2>5, Basics DEF ChildState
  <2>7. s.restarts <= t.restarts /\ (again => t.restarts = s.restarts + 1)
    BY <2>3, <2>5, Basics
  <2>8. /\ children' = Without(p) /\ processes' = [processes EXCEPT ![p].status = "reaped"] /\ signalled' = signalled
        /\ IF again THEN pc' = "restart" /\ starting' = <<name>> ELSE pc' = pc /\ starting' = starting
        /\ states' = [states EXCEPT ![name].status = IF code = "ok" THEN "exited" ELSE "failed",
                                    ![name].restarts = IF again THEN @ + 1 ELSE @]
    BY <1>2, <1>5, <2>1, <2>2 DEF ReapNext
  <2>9. states' = [states EXCEPT ![name] = t]
    <3>1. PICK status : status = IF code = "ok" THEN "exited" ELSE "failed"
      OBVIOUS
    <3>2. states' = [states EXCEPT ![name].status = status, ![name].restarts = IF again THEN @ + 1 ELSE @]
      BY <2>8, <3>1
    <3>3. PICK u : u = [s EXCEPT !.status = status, !.restarts = IF again THEN @ + 1 ELSE @]
      OBVIOUS
    <3>4. s = [pid |-> s.pid, status |-> s.status, starts |-> s.starts, restarts |-> s.restarts]
      BY <2>4 DEF ChildState
    <3>6. ASSUME again PROVE u = t
      <4>1. u = [pid |-> s.pid, status |-> status, starts |-> s.starts, restarts |-> s.restarts + 1]
        BY <3>3, <3>4, <3>6
      <4> QED
        BY <2>3, <3>1, <3>6, <4>1
    <3>7. ASSUME ~again PROVE u = t
      <4>1. u = [pid |-> s.pid, status |-> status, starts |-> s.starts, restarts |-> s.restarts]
        BY <3>3, <3>4, <3>7
      <4> QED
        BY <2>3, <3>1, <3>7, <4>1
    <3>8. u = t
      BY <3>6, <3>7
    <3>5. states' = [states EXCEPT ![name] = u]
      BY <1>1, <2>1, <2>4, <3>2, <3>3 DEF Bookkeeping, Handles, ChildState
    <3> QED
      BY <3>5, <3>8
  <2>10. /\ Bookkeeping' /\ Kept' = Kept \ {p} /\ \A n \in Names \ {name} : states'[n] = states[n]
         /\ states'[name] = t /\ t.starts <= 1 + s.restarts
    <3>1. name = StateOf(p) /\ t.status # "running" /\ t.pid = states[name].pid
          /\ t.starts = states[name].starts /\ states[name].restarts <= t.restarts
      BY <2>1, <2>6, <2>7
    <3>2. Collect(p, name, t)
      BY <2>8, <2>9, <3>1 DEF Collect
    <3>3. s.restarts = states[name].restarts
      BY <2>1
    <3>4. /\ Bookkeeping' /\ Kept' = Kept \ {p}
          /\ \A n \in Names \ {name} : states'[n] = states[n]
          /\ states'[name] = t /\ name \in Names /\ t.starts <= 1 + states[name].restarts
      BY <1>1, <1>3, <2>6, <3>2, ReapKeeps
    <3> QED
      BY <3>3, <3>4
  <2>11. Lists'
    <3>1. starting' \in Seq(Names)
      <4>1. <<name>> \in Seq(Names) /\ starting \in Seq(Names)
        BY <1>1, <2>4 DEF Lists
      <4> QED
        BY <2>8, <4>1
    <3>2. pc' \in {"reap", "restart"}
      BY <1>1, <2>8
    <3>3. Distinct(todo)' /\ todo' \in Seq(Pids) /\ ToSet(todo') \subseteq Kept'
      BY <1>1, <1>3, <2>10 DEF Distinct
    <3> QED
      BY <1>1, <3>1, <3>2, <3>3 DEF Lists
  <2>12. Pending'
    <3>1. CASE again
      <4>1. pc' = "restart" /\ starting' = <<name>>
        BY <2>8, <3>1
      <4>2. states'[name].status # "running" /\ states'[name].starts <= states'[name].restarts
        <5>1. t.starts \in Int /\ t.restarts \in Int /\ s.restarts \in Int
          BY <2>5, <2>6, Basics DEF ChildState
        <5> QED
          BY <2>6, <2>7, <2>10, <3>1, <5>1
      <4>3. Len(<<name>>) = 1 /\ <<name>>[1] = name
        OBVIOUS
      <4> QED
        BY <4>1, <4>2, <4>3 DEF Pending
    <3>2. CASE ~again
      BY <1>1, <2>8, <3>2 DEF Pending
    <3> QED
      BY <3>1, <3>2
  <2>13. Ending'
    <3>1. \A q \in Pids : Live(q)' => Live(q) /\ processes'[q].killed = processes[q].killed
      BY <1>1, <2>8 DEF Live, Bookkeeping, Handles, Process
    <3> QED
      BY <1>1, <2>5, <2>8, <3>1 DEF Ending
  <2> QED
    BY <2>10, <2>11, <2>12, <2>13 DEF PID1Inv
<1> QED
  BY <1>4, <1>5

LEMMA PID1StepKeeps ==
  ASSUME PID1Inv, ~PidsRecycled, [Next]_vars
  PROVE  PID1Inv'
<1>1. CASE StartNext
  BY <1>1, StartNextKeeps
<1>2. CASE Restart
  BY <1>2, RestartKeeps
<1>3. CASE ReapNext
  BY <1>3, ReapNextKeeps
<1>4. CASE Kill
  BY <1>4, KillKeeps
<1>5. CASE \E p \in Pids : Exit(p)
  BY <1>5, ExitKeeps
<1>6. CASE LoopHead \/ ReapEnds \/ CheckWeb \/ Terminate \/ Grace \/ Fault \/ Shutdown \/ Deadline
             \/ UNCHANGED vars
  BY <1>6, QuietStepsKeep
<1> QED
  BY <1>1, <1>2, <1>3, <1>4, <1>5, <1>6 DEF Next, Supervise

---------------------------------------------------------------------------
(* The theorems. *)

\* The bookkeeping invariant, under any faults, signals and deaths: handles,
\* states and processes agree at every step of run(), and what is about to be
\* started does not run yet.
THEOREM PID1InvHolds ==
  ASSUME ~PidsRecycled PROVE Spec => []PID1Inv
<1>1. Init => PID1Inv
  BY PID1InitEstablishes
<1>2. PID1Inv /\ [Next]_vars => PID1Inv'
  BY PID1StepKeeps
<1> QED
  BY <1>1, <1>2, PTL DEF Spec

\* When run() returns of its own accord, every process it ever started has ended,
\* or was signalled and killed (terminate_children): for any number of children,
\* restarts and calls that fail on the way.
THEOREM ShutdownIsAlwaysComplete ==
  ASSUME ~PidsRecycled PROVE Spec => []ShutdownIsComplete
<1>1. PID1Inv => ShutdownIsComplete
  BY DEF PID1Inv, Ending, ShutdownIsComplete
<1> QED
  BY <1>1, PID1InvHolds, PTL

LEMMA InvAccountsForChildren == PID1Inv => ChildrenAreAccountedFor
<1> SUFFICES ASSUME PID1Inv PROVE ChildrenAreAccountedFor
  OBVIOUS
<1>1. Handles /\ Remembered /\ Counted
  BY DEF PID1Inv, Bookkeeping
<1>2. ASSUME NEW n \in Names, NEW p \in Pids, Live(p), processes[p].of = n
      PROVE  states[n].pid = p
  BY <1>1, <1>2 DEF Handles, Remembered, Live
<1>3. ASSUME NEW n \in Names
      PROVE  Cardinality({p \in Pids : processes[p].of = n}) <= 1 + MaxRestarts
  <2>1. Cardinality(Of(n)) = states[n].starts /\ states[n].starts \in 0..1 + MaxRestarts
    BY <1>1 DEF Handles, Counted, ChildState
  <2> QED
    BY <2>1, Basics DEF Of
<1>4. OneProcessPerService
  BY <1>2, <1>3 DEF OneProcessPerService
<1>5. ASSUME NEW n \in Names, states[n].pid \in ToSet(children)
      PROVE  states[n].status = "running" /\ processes[states[n].pid].of = n
  BY <1>1, <1>5 DEF Handles, Remembered, Kept, ToSet
<1>6. StatesMatchHandles
  BY <1>1, <1>5 DEF StatesMatchHandles, Remembered, Kept
<1> QED
  BY <1>4, <1>6 DEF ChildrenAreAccountedFor

\* No service ever runs twice or more often than its restarts allow, and
\* pid1.json calls a child running exactly while its handle is kept (start_child,
\* reap, _maybe_restart).
THEOREM ChildrenStayAccountedFor ==
  ASSUME ~PidsRecycled PROVE Spec => []ChildrenAreAccountedFor
<1> QED
  BY InvAccountsForChildren, PID1InvHolds, PTL

---------------------------------------------------------------------------
(* The older supervisor (Boot): the order in which boot lists the services. *)

Fewer == {ss \in Nat \X Nat : ss[1] < ss[2]}

\* A set of numbers that holds 0 and every successor is all of them.
LEMMA EverySuccessor ==
  ASSUME NEW S \in SUBSET Nat, 0 \in S, \A n \in S : n + 1 \in S
  PROVE  S = Nat
<1> DEFINE T == Nat \ S
<1> SUFFICES ASSUME T # {} PROVE FALSE
  OBVIOUS
<1>1. IsWellFoundedOn(Fewer, Nat)
  BY NatLessThanWellFounded, Zenon DEF OpToRel, Fewer
<1>2. T \subseteq Nat /\ T # {}
  OBVIOUS
<1> HIDE DEF T
<1>3. PICK x \in T : \A y \in T : ~ (<<y, x>> \in Fewer)
  BY <1>1, <1>2, WFMin
<1> USE DEF T
<1>4. x # 0 /\ x \in Nat /\ x - 1 \in Nat /\ x - 1 < x /\ (x - 1) + 1 = x
  BY <1>3
<1>5. <<x - 1, x>> \in Fewer
  BY <1>4 DEF Fewer
<1>6. x - 1 \notin T
  BY <1>3, <1>5
<1> QED
  BY <1>3, <1>4, <1>6

\* Where the walk is when k names of the list have been visited, a telling for fewer.
Hop(a, visit, walk, names, k) ==
  IF k = 0 THEN walk
  ELSE IF names[k] \in ServiceNames THEN visit[a[k - 1]][names[k]] ELSE a[k - 1]

Hops(a, visit, walk, names, n) == a = [k \in 0..n |-> Hop(a, visit, walk, names, k)]

LEMMA HopsExist ==
  ASSUME NEW visit, NEW walk, NEW names, NEW m \in Nat
  PROVE  \E a : Hops(a, visit, walk, names, m)
<1> DEFINE S == {n \in Nat : \E a : Hops(a, visit, walk, names, n)}
<1>1. 0 \in S
  <2> DEFINE a == [k \in 0..0 |-> walk]
  <2>1. \A k \in 0..0 : Hop(a, visit, walk, names, k) = walk
    BY DEF Hop
  <2>2. a = [k \in 0..0 |-> Hop(a, visit, walk, names, k)]
    BY <2>1
  <2> HIDE DEF a
  <2> QED
    BY <2>2 DEF Hops
<1>2. ASSUME NEW n \in S
      PROVE  n + 1 \in S
  <2>1. PICK a : a = [k \in 0..n |-> Hop(a, visit, walk, names, k)]
    BY DEF Hops
  <2> DEFINE last == Hop(a, visit, walk, names, n + 1)
             b == [k \in 0..(n + 1) |-> IF k = n + 1 THEN last ELSE a[k]]
  <2>2. n \in Nat
    OBVIOUS
  <2>3. \A k \in 0..n : k \in 0..(n + 1) /\ k # n + 1
    BY <2>2
  <2>4. \A k \in 0..(n + 1) : k # 0 => k - 1 \in 0..n
    BY <2>2
  <2>5. \A k \in 0..(n + 1) : k # n + 1 => k \in 0..n
    BY <2>2
  <2> HIDE DEF last
  <2>6. \A k \in 0..n : b[k] = a[k]
    BY <2>3
  <2> HIDE DEF b
  <2>7. \A k \in 0..(n + 1) : Hop(b, visit, walk, names, k) = Hop(a, visit, walk, names, k)
    BY <2>4, <2>6 DEF Hop
  <2>8. \A k \in 0..n : a[k] = Hop(a, visit, walk, names, k)
    BY <2>1
  <2>9. b = [k \in 0..(n + 1) |-> Hop(b, visit, walk, names, k)]
    BY <2>5, <2>7, <2>8 DEF b, last
  <2> QED
    BY <2>2, <2>9 DEF Hops
<1> HIDE DEF S
<1>3. S = Nat
  BY <1>1, <1>2, EverySuccessor DEF S
<1> QED
  BY <1>3 DEF S

LEMMA ThroughHops ==
  ASSUME NEW visit, NEW walk, NEW names, Len(names) \in Nat
  PROVE  \E a : Hops(a, visit, walk, names, Len(names)) /\ Through(visit, walk, names) = a[Len(names)]
<1> DEFINE a == CHOOSE a : a = [k \in 0..Len(names) |-> Hop(a, visit, walk, names, k)]
<1>1. Hops(a, visit, walk, names, Len(names))
  BY HopsExist DEF Hops
<1>2. Through(visit, walk, names) = a[Len(names)]
  BY DEF Through, Hop
<1> QED
  BY <1>1, <1>2

Enter(walk, name) == [walk EXCEPT !.seen = @ \cup {name}]
List(walk, name) == [walk EXCEPT !.ordered = Append(@, name)]

\* What visit answers at a depth, v telling for the depths below.
Visited(v, registry, depth) ==
  [walk \in Walk |-> [name \in ServiceNames |->
     IF depth = 0 \/ name \in walk.seen THEN walk
     ELSE List(Through(v[depth - 1], Enter(walk, name), registry[name]), name)]]

VisitedTo(v, registry, n) == v = [depth \in 0..n |-> Visited(v, registry, depth)]

LEMMA VisitedExists ==
  ASSUME NEW registry, NEW m \in Nat
  PROVE  \E v : VisitedTo(v, registry, m)
<1> DEFINE S == {n \in Nat : \E v : VisitedTo(v, registry, n)}
<1>1. 0 \in S
  <2> DEFINE same == [walk \in Walk |-> [name \in ServiceNames |-> walk]]
             v == [depth \in 0..0 |-> same]
  <2>1. \A depth \in 0..0 : Visited(v, registry, depth) = same
    BY DEF Visited
  <2> HIDE DEF same
  <2>2. v = [depth \in 0..0 |-> Visited(v, registry, depth)]
    BY <2>1
  <2> HIDE DEF v
  <2> QED
    BY <2>2 DEF VisitedTo
<1>2. ASSUME NEW n \in S
      PROVE  n + 1 \in S
  <2>1. PICK v : v = [depth \in 0..n |-> Visited(v, registry, depth)]
    BY DEF VisitedTo
  <2> DEFINE last == Visited(v, registry, n + 1)
             w == [depth \in 0..(n + 1) |-> IF depth = n + 1 THEN last ELSE v[depth]]
  <2>2. n \in Nat
    OBVIOUS
  <2>3. \A k \in 0..n : k \in 0..(n + 1) /\ k # n + 1
    BY <2>2
  <2>4. \A k \in 0..(n + 1) : k # 0 => k - 1 \in 0..n
    BY <2>2
  <2>5. \A k \in 0..(n + 1) : k # n + 1 => k \in 0..n
    BY <2>2
  <2> HIDE DEF last
  <2>6. \A k \in 0..n : w[k] = v[k]
    BY <2>3
  <2> HIDE DEF w
  <2>7. ASSUME NEW k \in 0..(n + 1)
        PROVE  Visited(w, registry, k) = Visited(v, registry, k)
    <3>1. CASE k = 0
      BY <3>1 DEF Visited
    <3>2. CASE k # 0
      <4>1. w[k - 1] = v[k - 1]
        BY <2>4, <2>6, <3>2
      <4> QED
        BY <3>2, <4>1 DEF Visited
    <3> QED
      BY <3>1, <3>2
  <2>8. \A k \in 0..n : v[k] = Visited(v, registry, k)
    BY <2>1
  <2>9. w = [k \in 0..(n + 1) |-> Visited(w, registry, k)]
    BY <2>5, <2>7, <2>8 DEF w, last
  <2> QED
    BY <2>2, <2>9 DEF VisitedTo
<1> HIDE DEF S
<1>3. S = Nat
  BY <1>1, <1>2, EverySuccessor DEF S
<1> QED
  BY <1>3 DEF S

LEMMA VisitVisited ==
  ASSUME NEW registry, Cardinality(ServiceNames) \in Nat
  PROVE  \E v : /\ VisitedTo(v, registry, Cardinality(ServiceNames))
                /\ Visit(registry) = v[Cardinality(ServiceNames)]
<1> DEFINE n == Cardinality(ServiceNames)
           v == CHOOSE v : v = [depth \in 0..n |-> Visited(v, registry, depth)]
<1>1. VisitedTo(v, registry, n)
  BY VisitedExists DEF VisitedTo
<1>2. Visit(registry) = v[n]
  BY DEF Visit, Visited, Enter, List
<1> QED
  BY <1>1, <1>2

---------------------------------------------------------------------------
\* What services.json may hold.
Registry == Registries \cup {UsualRegistry}

LEMMA ServiceFacts ==
  /\ Registered \in Seq(ServiceNames)
  /\ IsFiniteSet(ServiceNames) /\ Cardinality(ServiceNames) \in Nat
  /\ \A registry \in Registry, name \in ServiceNames :
       /\ Len(registry[name]) \in Nat /\ DOMAIN registry[name] = 1..Len(registry[name])
       /\ ToSet(registry[name]) = {registry[name][k] : k \in 1..Len(registry[name])}
<1>1. Registered \in Seq(ServiceNames)
  BY BootAssumption DEF ServiceNames
<1>2. DOMAIN Registered = 1..Len(Registered) /\ Len(Registered) \in Nat
  BY <1>1
<1>3. Registered \in Surjection(1..Len(Registered), ServiceNames)
  BY <1>1, <1>2 DEF Surjection, ServiceNames, ToSet
<1>4. IsFiniteSet(1..Len(Registered))
  BY <1>2, FS_Interval
<1>5. IsFiniteSet(ServiceNames)
  BY <1>3, <1>4, FS_Surjection
<1>6. Cardinality(ServiceNames) \in Nat
  BY <1>5, FS_CardinalityType
<1>7. ASSUME NEW registry \in Registry, NEW name \in ServiceNames
      PROVE  /\ Len(registry[name]) \in Nat /\ DOMAIN registry[name] = 1..Len(registry[name])
             /\ ToSet(registry[name]) = {registry[name][k] : k \in 1..Len(registry[name])}
  <2>1. registry[name] \in Seq(ToSet(registry[name]))
    BY BootAssumption DEF Registry, ServiceNames
  <2>2. Len(registry[name]) \in Nat /\ DOMAIN registry[name] = 1..Len(registry[name])
    BY <2>1
  <2> QED
    BY <2>2 DEF ToSet
<1> QED
  BY <1>1, <1>5, <1>6, <1>7

\* A service reaches what it depends on, and whatever that depends on.
LEMMA ReachCloses ==
  ASSUME NEW registry, NEW a \in ServiceNames
  PROVE  /\ DependenciesOf(registry, a) \subseteq Reach(registry, a)
         /\ \A b \in Reach(registry, a) : DependenciesOf(registry, b) \subseteq Reach(registry, a)
<1>1. \A n : DependenciesOf(registry, n) \subseteq ServiceNames
  BY DEF DependenciesOf
<1> HIDE DEF DependenciesOf
<1>2. DependenciesOf(registry, a) \subseteq Reach(registry, a)
  BY <1>1 DEF Reach
<1>3. ASSUME NEW b \in Reach(registry, a), NEW c \in DependenciesOf(registry, b)
      PROVE  c \in Reach(registry, a)
  <2>1. ASSUME NEW S \in SUBSET ServiceNames, DependenciesOf(registry, a) \subseteq S, Closed(registry, S)
        PROVE  c \in S
    BY <2>1 DEF Reach, Closed
  <2> QED
    BY <1>1, <2>1 DEF Reach
<1> QED
  BY <1>2, <1>3

\* Names whose visit has begun and not ended.
Open(walk) == walk.seen \ ToSet(walk.ordered)

\* Every name once, and after what it depends on, or in a cycle with it.
InOrder(registry, order) ==
  /\ Distinct(order)
  /\ \A i \in DOMAIN order : \A d \in DependenciesOf(registry, order[i]) :
       order[i] \in Reach(registry, d) \/ \E j \in DOMAIN order : j < i /\ order[j] = d

Proper(registry, walk) ==
  /\ walk \in Walk /\ ToSet(walk.ordered) \subseteq walk.seen
  /\ InOrder(registry, walk.ordered)

\* What a visit leaves of a walk it was called on.
Continues(registry, walk, after) ==
  /\ Proper(registry, after) /\ walk.seen \subseteq after.seen
  /\ Open(after) = Open(walk)

\* visit at this depth: the names entered and not left reach the one to be visited.
Sound(registry, visit, depth) ==
  \A walk \in Walk, name \in ServiceNames :
    /\ Proper(registry, walk)
    /\ Cardinality(ServiceNames \ walk.seen) <= depth
    /\ \A o \in Open(walk) : name \in Reach(registry, o)
    => Continues(registry, walk, visit[walk][name]) /\ name \in visit[walk][name].seen

LEMMA UnseenShrinks ==
  ASSUME NEW old, NEW new, old \subseteq new
  PROVE  /\ Cardinality(ServiceNames \ new) \in Nat /\ Cardinality(ServiceNames \ old) \in Nat
         /\ Cardinality(ServiceNames \ new) <= Cardinality(ServiceNames \ old)
<1>1. IsFiniteSet(ServiceNames \ old) /\ IsFiniteSet(ServiceNames \ new)
  BY ServiceFacts, FS_Difference
<1>2. ServiceNames \ new \in SUBSET (ServiceNames \ old)
  OBVIOUS
<1>3. Cardinality(ServiceNames \ new) <= Cardinality(ServiceNames \ old)
  BY <1>1, <1>2, FS_Subset
<1>4. Cardinality(ServiceNames \ new) \in Nat /\ Cardinality(ServiceNames \ old) \in Nat
  BY <1>1, FS_CardinalityType
<1> QED
  BY <1>3, <1>4

LEMMA EnterKeeps ==
  ASSUME NEW registry, NEW walk \in Walk, NEW name \in ServiceNames,
         Proper(registry, walk), name \notin walk.seen
  PROVE  /\ Proper(registry, Enter(walk, name))
         /\ Enter(walk, name).seen = walk.seen \cup {name}
         /\ Open(Enter(walk, name)) = Open(walk) \cup {name}
         /\ Cardinality(ServiceNames \ Enter(walk, name).seen) = Cardinality(ServiceNames \ walk.seen) - 1
<1>1. /\ Enter(walk, name) \in Walk /\ Enter(walk, name).seen = walk.seen \cup {name}
      /\ Enter(walk, name).ordered = walk.ordered
  BY DEF Enter, Walk
<1> HIDE DEF Enter
<1>2. Proper(registry, Enter(walk, name))
  BY <1>1 DEF Proper
<1>3. Open(Enter(walk, name)) = Open(walk) \cup {name}
  BY <1>1 DEF Proper, Open
<1>4. ServiceNames \ Enter(walk, name).seen = (ServiceNames \ walk.seen) \ {name}
  BY <1>1
<1>5. name \in ServiceNames \ walk.seen /\ IsFiniteSet(ServiceNames \ walk.seen)
  BY ServiceFacts, FS_Difference
<1>6. Cardinality((ServiceNames \ walk.seen) \ {name}) = Cardinality(ServiceNames \ walk.seen) - 1
  BY <1>5, FS_RemoveElement
<1> QED
  BY <1>1, <1>2, <1>3, <1>4, <1>6

\* A name is listed when what it depends on has been visited or is waiting for it.
LEMMA ListKeeps ==
  ASSUME NEW registry, NEW walk \in Walk, NEW name \in ServiceNames,
         Proper(registry, walk), name \in Open(walk),
         DependenciesOf(registry, name) \subseteq walk.seen,
         \A o \in Open(walk) \ {name} : name \in Reach(registry, o)
  PROVE  /\ Proper(registry, List(walk, name))
         /\ List(walk, name).seen = walk.seen
         /\ Open(List(walk, name)) = Open(walk) \ {name}
<1> DEFINE order == walk.ordered
           longer == Append(order, name)
<1>1. /\ List(walk, name).seen = walk.seen /\ List(walk, name).ordered = longer
      /\ order \in Seq(ServiceNames) /\ walk.seen \in SUBSET ServiceNames
      /\ (longer \in Seq(ServiceNames) => List(walk, name) \in Walk)
  BY DEF List, Walk
<1>2. Distinct(order) /\ name \notin ToSet(order)
  BY DEF Proper, InOrder, Open
<1>3. longer \in Seq(ServiceNames) /\ Distinct(longer) /\ ToSet(longer) = ToSet(order) \cup {name}
  BY <1>1, <1>2, AppendDistinct
<1>4. /\ DOMAIN order = 1..Len(order) /\ Len(order) \in Nat
      /\ DOMAIN longer = 1..Len(order) + 1
      /\ longer[Len(order) + 1] = name /\ \A i \in 1..Len(order) : longer[i] = order[i]
  BY <1>1
<1> HIDE DEF longer
<1>5. ASSUME NEW i \in DOMAIN longer, NEW d \in DependenciesOf(registry, longer[i])
      PROVE  longer[i] \in Reach(registry, d) \/ \E j \in DOMAIN longer : j < i /\ longer[j] = d
  <2>1. CASE i \in 1..Len(order)
    <3>1. i \in DOMAIN order /\ longer[i] = order[i] /\ d \in DependenciesOf(registry, order[i])
      BY <1>4, <1>5, <2>1
    <3>2. order[i] \in Reach(registry, d) \/ \E j \in DOMAIN order : j < i /\ order[j] = d
      BY <3>1 DEF Proper, InOrder
    <3> QED
      BY <1>4, <3>1, <3>2
  <2>2. CASE i = Len(order) + 1
    <3>1. longer[i] = name /\ d \in DependenciesOf(registry, name) /\ d \in walk.seen /\ d \in ServiceNames
      BY <1>4, <1>5, <2>2 DEF DependenciesOf
    <3>2. CASE d = name
      BY <3>1, <3>2, ReachCloses
    <3>3. CASE d \in Open(walk) \ {name}
      BY <3>1, <3>3
    <3>4. CASE d \in ToSet(order)
      <4>1. PICK j \in DOMAIN order : order[j] = d
        BY <3>4 DEF ToSet
      <4>2. j \in DOMAIN longer /\ j < i /\ longer[j] = d
        BY <1>4, <2>2, <4>1
      <4> QED
        BY <4>2
    <3> QED
      BY <3>1, <3>2, <3>3, <3>4 DEF Open
  <2> QED
    BY <1>4, <2>1, <2>2
<1>6. InOrder(registry, longer)
  BY <1>3, <1>5 DEF InOrder
<1>7. ToSet(longer) \subseteq walk.seen
  BY <1>3 DEF Proper, Open
<1> HIDE DEF List
<1>8. Proper(registry, List(walk, name))
  BY <1>1, <1>3, <1>6, <1>7 DEF Proper
<1>9. Open(List(walk, name)) = Open(walk) \ {name}
  BY <1>1, <1>3 DEF Open
<1> QED
  BY <1>1, <1>8, <1>9

\* One visit after another leaves no name open, and every registered one seen.
LEMMA ThroughKeeps ==
  ASSUME NEW registry, NEW visit, NEW depth \in Nat, NEW walk, NEW names, Len(names) \in Nat,
         Proper(registry, walk), Sound(registry, visit, depth),
         Cardinality(ServiceNames \ walk.seen) <= depth,
         \A k \in 1..Len(names) : names[k] \in ServiceNames =>
           \A o \in Open(walk) : names[k] \in Reach(registry, o)
  PROVE  /\ Continues(registry, walk, Through(visit, walk, names))
         /\ \A k \in 1..Len(names) : names[k] \in ServiceNames => names[k] \in Through(visit, walk, names).seen
<1> DEFINE n == Len(names)
<1>1. PICK a : Hops(a, visit, walk, names, n) /\ Through(visit, walk, names) = a[n]
  BY ThroughHops
<1>2. \A k \in 0..n : a[k] = Hop(a, visit, walk, names, k)
  BY <1>1 DEF Hops
<1> DEFINE Fine(k) ==
             /\ Continues(registry, walk, a[k])
             /\ \A j \in 1..k : names[j] \in ServiceNames => names[j] \in a[k].seen
           S == {k \in Nat : k <= n => Fine(k)}
<1>3. 0 \in S
  <2>1. a[0] = walk
    BY <1>2 DEF Hop
  <2> QED
    BY <2>1 DEF Continues
<1>4. ASSUME NEW k \in S
      PROVE  k + 1 \in S
  <2> SUFFICES ASSUME k + 1 <= n PROVE Fine(k + 1)
    OBVIOUS
  <2>1. k \in 0..n /\ k + 1 \in 1..n /\ k + 1 \in 0..n /\ (k + 1) - 1 = k /\ k + 1 # 0
    OBVIOUS
  <2>2. Fine(k)
    BY <2>1
  <2>3. \A j \in 1..(k + 1) : j \in 1..k \/ j = k + 1
    BY <2>1
  <2>4. a[k + 1] = IF names[k + 1] \in ServiceNames THEN visit[a[k]][names[k + 1]] ELSE a[k]
    BY <1>2, <2>1 DEF Hop
  <2> HIDE DEF n, S
  <2>5. CASE names[k + 1] \notin ServiceNames
    BY <2>2, <2>3, <2>4, <2>5
  <2>6. CASE names[k + 1] \in ServiceNames
    <3>1. a[k] \in Walk /\ Proper(registry, a[k]) /\ walk.seen \subseteq a[k].seen /\ Open(a[k]) = Open(walk)
      BY <2>2 DEF Continues, Proper
    <3>2. Cardinality(ServiceNames \ a[k].seen) <= depth
      <4>1. /\ Cardinality(ServiceNames \ a[k].seen) \in Nat
            /\ Cardinality(ServiceNames \ walk.seen) \in Nat
            /\ Cardinality(ServiceNames \ a[k].seen) <= Cardinality(ServiceNames \ walk.seen)
        BY <3>1, UnseenShrinks
      <4> QED
        BY <4>1
    <3>3. \A o \in Open(a[k]) : names[k + 1] \in Reach(registry, o)
      BY <2>1, <2>6, <3>1 DEF n
    <3>4. Continues(registry, a[k], a[k + 1]) /\ names[k + 1] \in a[k + 1].seen
      BY <2>4, <2>6, <3>1, <3>2, <3>3 DEF Sound
    <3> QED
      BY <2>2, <2>3, <3>1, <3>4 DEF Continues
  <2> QED
    BY <2>5, <2>6
<1> HIDE DEF Fine, S
<1>5. S = Nat
  BY <1>3, <1>4, EverySuccessor DEF S
<1>6. Fine(n)
  BY <1>5 DEF S
<1> QED
  BY <1>1, <1>6 DEF Fine

\* The calls nest no deeper than there are names.
LEMMA VisitSound ==
  ASSUME NEW registry \in Registry
  PROVE  Sound(registry, Visit(registry), Cardinality(ServiceNames))
<1> DEFINE n == Cardinality(ServiceNames)
<1>1. PICK v : VisitedTo(v, registry, n) /\ Visit(registry) = v[n]
  BY ServiceFacts, VisitVisited
<1>2. \A k \in 0..n : v[k] = Visited(v, registry, k)
  BY <1>1 DEF VisitedTo
<1>3. n \in Nat
  BY ServiceFacts
<1> HIDE DEF n
<1> DEFINE S == {k \in Nat : k <= n => Sound(registry, v[k], k)}
<1>4. 0 \in S
  <2>1. ASSUME NEW walk \in Walk, NEW name \in ServiceNames, Proper(registry, walk),
               Cardinality(ServiceNames \ walk.seen) <= 0
        PROVE  Continues(registry, walk, v[0][walk][name]) /\ name \in v[0][walk][name].seen
    <3>1. v[0][walk][name] = walk
      <4>1. v[0] = Visited(v, registry, 0)
        BY <1>2, <1>3
      <4>2. Visited(v, registry, 0) = [w \in Walk |-> [m \in ServiceNames |-> w]]
        BY DEF Visited
      <4> QED
        BY <4>1, <4>2
    <3>2. IsFiniteSet(ServiceNames \ walk.seen)
      BY ServiceFacts, FS_Difference
    <3>3. Cardinality(ServiceNames \ walk.seen) = 0
      BY <2>1, <3>2, FS_CardinalityType
    <3>4. name \in walk.seen
      BY <3>2, <3>3, FS_EmptySet
    <3> QED
      BY <2>1, <3>1, <3>4 DEF Continues
  <2> QED
    BY <2>1 DEF Sound
<1>5. ASSUME NEW k \in S
      PROVE  k + 1 \in S
  <2> SUFFICES ASSUME k + 1 <= n
               PROVE  Sound(registry, v[k + 1], k + 1)
    OBVIOUS
  <2> SUFFICES ASSUME NEW walk \in Walk, NEW name \in ServiceNames, Proper(registry, walk),
                      Cardinality(ServiceNames \ walk.seen) <= k + 1,
                      \A o \in Open(walk) : name \in Reach(registry, o)
               PROVE  /\ Continues(registry, walk, v[k + 1][walk][name])
                      /\ name \in v[k + 1][walk][name].seen
    BY DEF Sound
  <2>1. k \in Nat /\ k <= n /\ k + 1 \in 0..n /\ (k + 1) - 1 = k /\ k + 1 # 0
    BY <1>3
  <2>2. Sound(registry, v[k], k)
    BY <1>5, <2>1
  <2> HIDE DEF S
  <2> DEFINE entered == Enter(walk, name)
             below == Through(v[k], entered, registry[name])
  <2>3. v[k + 1] = Visited(v, registry, k + 1)
    BY <1>2, <2>1
  <2>4. v[k + 1][walk][name] = IF name \in walk.seen THEN walk ELSE List(below, name)
    <3>1. v[(k + 1) - 1] = v[k]
      BY <2>1
    <3> QED
      BY <2>1, <2>3, <3>1 DEF Visited
  <2>5. CASE name \in walk.seen
    BY <2>4, <2>5 DEF Continues
  <2>6. CASE name \notin walk.seen
    <3>1. /\ Proper(registry, entered) /\ entered.seen = walk.seen \cup {name}
          /\ Open(entered) = Open(walk) \cup {name}
          /\ Cardinality(ServiceNames \ entered.seen) = Cardinality(ServiceNames \ walk.seen) - 1
      BY <2>6, EnterKeeps
    <3> HIDE DEF entered
    <3>2. Cardinality(ServiceNames \ walk.seen) \in Nat
      BY UnseenShrinks
    <3>3. Cardinality(ServiceNames \ entered.seen) <= k
      BY <2>1, <3>1, <3>2
    <3>4. /\ Len(registry[name]) \in Nat
          /\ ToSet(registry[name]) = {registry[name][j] : j \in 1..Len(registry[name])}
      BY ServiceFacts
    <3>5. \A d : d \in ToSet(registry[name]) /\ d \in ServiceNames => d \in DependenciesOf(registry, name)
      BY DEF DependenciesOf
    <3>6. \A d \in DependenciesOf(registry, name) : \A o \in Open(entered) : d \in Reach(registry, o)
      <4>1. Open(walk) \subseteq ServiceNames
        BY DEF Open, Walk
      <4> QED
        BY <3>1, <4>1, ReachCloses
    <3>7. \A j \in 1..Len(registry[name]) : registry[name][j] \in ServiceNames =>
            \A o \in Open(entered) : registry[name][j] \in Reach(registry, o)
      BY <3>4, <3>5, <3>6
    <3>8. /\ Continues(registry, entered, below)
          /\ \A j \in 1..Len(registry[name]) : registry[name][j] \in ServiceNames => registry[name][j] \in below.seen
      BY <2>1, <2>2, <3>1, <3>3, <3>4, <3>7, ThroughKeeps
    <3> HIDE DEF below
    <3>9. DependenciesOf(registry, name) \subseteq below.seen
      BY <3>4, <3>8 DEF DependenciesOf
    <3>10. below \in Walk /\ Proper(registry, below) /\ Open(below) = Open(walk) \cup {name}
           /\ entered.seen \subseteq below.seen
      BY <3>1, <3>8 DEF Continues, Proper
    <3>11. name \notin Open(walk)
      BY <2>6 DEF Open
    <3>12. \A o \in Open(below) \ {name} : name \in Reach(registry, o)
      BY <3>10
    <3>13. /\ Proper(registry, List(below, name)) /\ List(below, name).seen = below.seen
           /\ Open(List(below, name)) = Open(below) \ {name}
      BY <3>9, <3>10, <3>12, ListKeeps
    <3>14. Continues(registry, walk, List(below, name)) /\ name \in List(below, name).seen
      BY <3>1, <3>10, <3>11, <3>13 DEF Continues
    <3> QED
      BY <2>4, <2>6, <3>14
  <2> QED
    BY <2>5, <2>6
<1> HIDE DEF S
<1>6. S = Nat
  BY <1>4, <1>5, EverySuccessor DEF S
<1>7. Sound(registry, v[n], n)
  BY <1>3, <1>6 DEF S
<1> QED
  BY <1>1, <1>7 DEF n

\* Every registered service once, in order.
LEMMA OrderIsSound ==
  ASSUME NEW registry \in Registry
  PROVE  LET order == OrderServices(registry) IN
         /\ order \in Seq(ServiceNames) /\ ToSet(order) = ServiceNames /\ InOrder(registry, order)
<1> DEFINE none == [seen |-> {}, ordered |-> <<>>]
           walk == Through(Visit(registry), none, Registered)
<1>1. none \in Walk /\ none.seen = {} /\ none.ordered = <<>>
  BY DEF Walk
<1>2. ToSet(<<>>) = {} /\ Distinct(<<>>) /\ DOMAIN <<>> = {}
  BY DEF ToSet, Distinct
<1> HIDE DEF none
<1>3. Proper(registry, none) /\ Open(none) = {}
  BY <1>1, <1>2 DEF Proper, InOrder, Open
<1>4. Registered \in Seq(ServiceNames) /\ Cardinality(ServiceNames) \in Nat
  BY ServiceFacts
<1>5. /\ Len(Registered) \in Nat /\ \A k \in 1..Len(Registered) : Registered[k] \in ServiceNames
      /\ ServiceNames = {Registered[k] : k \in 1..Len(Registered)}
  BY <1>4 DEF ServiceNames, ToSet
<1>6. Cardinality(ServiceNames \ none.seen) <= Cardinality(ServiceNames)
  <2>1. ServiceNames \ none.seen = ServiceNames
    BY <1>1
  <2>2. Cardinality(ServiceNames \ none.seen) = Cardinality(ServiceNames)
    BY <2>1, Zenon
  <2> QED
    BY <1>4, <2>2
<1>7. /\ Continues(registry, none, walk)
      /\ \A k \in 1..Len(Registered) : Registered[k] \in ServiceNames => Registered[k] \in walk.seen
  BY <1>3, <1>4, <1>5, <1>6, VisitSound, ThroughKeeps
<1>8. OrderServices(registry) = walk.ordered
  BY DEF OrderServices, none
<1> HIDE DEF walk
<1>9. walk.ordered \in Seq(ServiceNames) /\ InOrder(registry, walk.ordered)
  BY <1>7 DEF Continues, Proper, Walk
<1>10. ToSet(walk.ordered) = ServiceNames
  BY <1>3, <1>5, <1>7 DEF Continues, Proper, Open, Walk
<1> QED
  BY <1>8, <1>9, <1>10

---------------------------------------------------------------------------
(* The state file, whoever writes it and whenever a command dies. *)

SavedState(state) ==
  /\ state = [text |-> "whole", status |-> state.status]
  /\ state.status = [n \in DOMAIN state.status |-> state.status[n]]

Quiet(state) == \A n \in DOMAIN state.status : state.status[n] # "running"

\* A line of the ledger: what boot logs is the order it took the services in.
Lines(registry) ==
  {line \in [event : {"boot", "shutdown", "reap", "failed"}, services : Seq(ServiceNames)] :
     line.event = "boot" => line.services = OrderServices(registry)}

Command(registry, c) ==
  /\ c = [at |-> c.at, state |-> c.state, line |-> c.line, behind |-> c.behind]
  /\ c.at \in {"open", "write", "log"} /\ c.behind \in BOOLEAN
  /\ SavedState(c.state) /\ c.line \in Lines(registry)
  /\ c.line.event = "shutdown" => Quiet(c.state)

\* Once a shutdown is saved: what may still be saved starts nothing, or was loaded before.
Obedient(c) == c = AtEase \/ c.at = "log" \/ c.behind \/ Quiet(c.state)

\* The commands that have begun, what they are to log, and what a shutdown leaves behind.
BootInv ==
  /\ dependsOn \in Registry /\ down \in BOOLEAN /\ outrun \in BOOLEAN
  /\ stateFile = TornState \/ SavedState(stateFile)
  /\ signals \in Seq(Lines(dependsOn))
  /\ operator = [o \in Operators |-> operator[o]]
  /\ \A o \in Operators : operator[o] = AtEase \/ Command(dependsOn, operator[o])
  /\ down /\ ~outrun =>
       /\ stateFile = TornState \/ Quiet(stateFile)
       /\ \A o \in Operators : Obedient(operator[o])

LEMMA BootTexts ==
  /\ TornState.text = "torn" /\ \A state : SavedState(state) => state.text = "whole" /\ state # TornState
  /\ AtEase.at = "ease" /\ \A registry, c : Command(registry, c) => c # AtEase
<1>1. TornState.text = "torn" /\ AtEase.at = "ease"
  BY DEF TornState, AtEase
<1>2. ASSUME NEW state, SavedState(state)
      PROVE  state.text = "whole"
  BY <1>2 DEF SavedState
<1>3. ASSUME NEW registry, NEW c, Command(registry, c)
      PROVE  c.at \in {"open", "write", "log"}
  BY <1>3 DEF Command
<1> QED
  BY <1>1, <1>2, <1>3

LEMMA BootInitHolds == ASSUME BootInit PROVE BootInv
<1>1. SavedState(NoState) /\ stateFile = NoState
  <2>1. NoState.status = <<>> /\ NoState = [text |-> "whole", status |-> <<>>]
    BY DEF NoState
  <2>2. DOMAIN <<>> = {} /\ <<>> = [n \in {} |-> <<>>[n]]
    OBVIOUS
  <2>3. stateFile = NoState
    BY DEF BootInit
  <2> QED
    BY <2>1, <2>2, <2>3 DEF SavedState
<1>2. /\ dependsOn \in Registry /\ outrun = FALSE /\ down = FALSE /\ signals = <<>>
      /\ operator = [o \in Operators |-> AtEase]
  BY DEF BootInit, Registry
<1>3. operator = [o \in Operators |-> operator[o]] /\ \A o \in Operators : operator[o] = AtEase
  BY <1>2
<1>4. signals \in Seq(Lines(dependsOn))
  <2>1. \A S : <<>> \in Seq(S)
    OBVIOUS
  <2> QED
    BY <1>2, <2>1
<1>5. (stateFile = TornState \/ SavedState(stateFile)) /\ down \in BOOLEAN /\ outrun \in BOOLEAN /\ ~down
  BY <1>1, <1>2
<1> QED
  BY <1>2, <1>3, <1>4, <1>5 DEF BootInv

\* A command begins with what it is going to save and to log.
LEMMA BeginKeeps ==
  ASSUME BootInv, NEW o \in Operators, Starts(o), NEW state,
         NEW event \in {"boot", "shutdown", "reap", "failed"}, NEW services \in Seq(ServiceNames),
         WillSave(o, state, event, services), SavedState(state),
         event = "boot" => services = OrderServices(dependsOn), event = "shutdown" => Quiet(state),
         down' \in BOOLEAN, down' => down /\ (~outrun => Quiet(state))
  PROVE  BootInv'
<1> DEFINE line == [event |-> event, services |-> services]
           c == [at |-> "open", state |-> state, line |-> line, behind |-> FALSE]
<1>1. /\ dependsOn' = dependsOn /\ stateFile' = stateFile /\ signals' = signals /\ outrun' = outrun
      /\ operator' = [operator EXCEPT ![o] = c]
  BY DEF Starts, WillSave
<1>2. line \in Lines(dependsOn) /\ line.event = event
  BY DEF Lines
<1> HIDE DEF line
<1>3. Command(dependsOn, c) /\ c # AtEase /\ c.state = state
  <2>1. /\ c.at = "open" /\ c.state = state /\ c.line = line /\ c.behind = FALSE
        /\ c = [at |-> c.at, state |-> c.state, line |-> c.line, behind |-> c.behind]
    OBVIOUS
  <2> HIDE DEF c
  <2>2. Command(dependsOn, c)
    BY <1>2, <2>1 DEF Command
  <2> QED
    BY <2>1, <2>2, BootTexts
<1> HIDE DEF c
<1>4. /\ operator' = [p \in Operators |-> operator'[p]]
      /\ operator'[o] = c /\ \A p \in Operators \ {o} : operator'[p] = operator[p]
  BY <1>1 DEF BootInv
<1>5. \A p \in Operators : operator'[p] = AtEase \/ Command(dependsOn', operator'[p])
  BY <1>1, <1>3, <1>4 DEF BootInv
<1>6. down' /\ ~outrun' =>
        /\ stateFile' = TornState \/ Quiet(stateFile')
        /\ \A p \in Operators : Obedient(operator'[p])
  BY <1>1, <1>3, <1>4 DEF BootInv, Obedient
<1> QED
  BY <1>1, <1>4, <1>5, <1>6 DEF BootInv

LEMMA BootedIsSaved == SavedState(Booted)
<1> DEFINE status == [n \in ToSet(OrderServices(dependsOn)) |-> "running"]
<1>1. Booted = [text |-> "whole", status |-> status]
  BY DEF Booted
<1>2. status = [n \in DOMAIN status |-> status[n]]
  OBVIOUS
<1> HIDE DEF status
<1>3. Booted.status = status
  BY <1>1
<1> QED
  BY <1>1, <1>2, <1>3 DEF SavedState

\* What shutdown, reap and fail make of what they loaded: none of them starts a service.
LEMMA ChangedIsSaved ==
  ASSUME NEW state, SavedState(state)
  PROVE  /\ SavedState(ShutDown(state)) /\ Quiet(ShutDown(state))
         /\ SavedState(Reaped(state)) /\ (Quiet(state) => Quiet(Reaped(state)))
         /\ \A name \in DOMAIN state.status :
              SavedState(Failed(state, name)) /\ (Quiet(state) => Quiet(Failed(state, name)))
<1>1. /\ state = [text |-> "whole", status |-> state.status]
      /\ state.status = [n \in DOMAIN state.status |-> state.status[n]]
  BY DEF SavedState
<1>2. ASSUME NEW new, NEW status, new = [state EXCEPT !.status = status],
             status = [n \in DOMAIN state.status |-> status[n]]
      PROVE  SavedState(new) /\ new.status = status /\ DOMAIN status = DOMAIN state.status
  <2>1. new.status = status /\ new = [text |-> "whole", status |-> new.status]
    BY <1>1, <1>2
  <2>2. DOMAIN status = DOMAIN state.status
    BY <1>2
  <2> QED
    BY <1>2, <2>1, <2>2 DEF SavedState
<1>3. SavedState(ShutDown(state)) /\ Quiet(ShutDown(state))
  <2> DEFINE status == [n \in DOMAIN state.status |-> "stopped"]
  <2>1. ShutDown(state) = [state EXCEPT !.status = status]
    BY DEF ShutDown
  <2>2. \A n \in DOMAIN state.status : status[n] = "stopped"
    OBVIOUS
  <2>3. status = [n \in DOMAIN state.status |-> status[n]]
    OBVIOUS
  <2> HIDE DEF status
  <2>4. SavedState(ShutDown(state)) /\ ShutDown(state).status = status /\ DOMAIN status = DOMAIN state.status
    BY <1>2, <2>1, <2>3
  <2> QED
    BY <2>2, <2>4 DEF Quiet
<1>4. SavedState(Reaped(state)) /\ (Quiet(state) => Quiet(Reaped(state)))
  <2> DEFINE status == [n \in DOMAIN state.status |-> IF state.status[n] = "failed" THEN "stopped" ELSE state.status[n]]
  <2>1. Reaped(state) = [state EXCEPT !.status = status]
    BY DEF Reaped
  <2>2. \A n \in DOMAIN state.status :
          status[n] = IF state.status[n] = "failed" THEN "stopped" ELSE state.status[n]
    OBVIOUS
  <2>3. status = [n \in DOMAIN state.status |-> status[n]]
    OBVIOUS
  <2> HIDE DEF status
  <2>4. SavedState(Reaped(state)) /\ Reaped(state).status = status /\ DOMAIN status = DOMAIN state.status
    BY <1>2, <2>1, <2>3
  <2> QED
    BY <2>2, <2>4 DEF Quiet
<1>5. ASSUME NEW name \in DOMAIN state.status
      PROVE  SavedState(Failed(state, name)) /\ (Quiet(state) => Quiet(Failed(state, name)))
  <2> DEFINE status == [state.status EXCEPT ![name] = "failed"]
  <2>1. Failed(state, name) = [state EXCEPT !.status = status]
    BY DEF Failed
  <2>2. \A n \in DOMAIN state.status : status[n] = IF n = name THEN "failed" ELSE state.status[n]
    BY <1>1
  <2>3. status = [n \in DOMAIN state.status |-> status[n]]
    BY <1>1
  <2> HIDE DEF status
  <2>4. SavedState(Failed(state, name)) /\ Failed(state, name).status = status /\ DOMAIN status = DOMAIN state.status
    BY <1>2, <2>1, <2>3
  <2> QED
    BY <2>2, <2>4 DEF Quiet
<1> QED
  BY <1>3, <1>4, <1>5

LEMMA OpenKeeps ==
  ASSUME BootInv, NEW o \in Operators, OpensState(o)
  PROVE  BootInv'
<1>1. /\ operator[o].at = "open" /\ operator' = [operator EXCEPT ![o].at = "write"] /\ stateFile' = TornState
      /\ dependsOn' = dependsOn /\ signals' = signals /\ down' = down /\ outrun' = outrun
  BY DEF OpensState
<1>2. Command(dependsOn, operator[o]) /\ operator[o] # AtEase
  BY <1>1, BootTexts DEF BootInv
<1>3. /\ operator'[o] = [operator[o] EXCEPT !.at = "write"]
      /\ \A p \in Operators \ {o} : operator'[p] = operator[p]
      /\ operator' = [p \in Operators |-> operator'[p]]
  BY <1>1 DEF BootInv
<1>4. /\ operator'[o].at = "write" /\ operator'[o].state = operator[o].state
      /\ operator'[o].line = operator[o].line /\ operator'[o].behind = operator[o].behind
      /\ operator'[o] = [at |-> operator'[o].at, state |-> operator'[o].state,
                         line |-> operator'[o].line, behind |-> operator'[o].behind]
  BY <1>2, <1>3 DEF Command
<1>5. Command(dependsOn, operator'[o])
  BY <1>2, <1>4 DEF Command
<1>6. \A p \in Operators : operator'[p] = AtEase \/ Command(dependsOn', operator'[p])
  BY <1>1, <1>3, <1>5 DEF BootInv
<1>7. Obedient(operator[o]) => Obedient(operator'[o])
  BY <1>1, <1>2, <1>4 DEF Obedient
<1>8. down' /\ ~outrun' => \A p \in Operators : Obedient(operator'[p])
  BY <1>1, <1>3, <1>7 DEF BootInv
<1> QED
  BY <1>1, <1>3, <1>6, <1>8 DEF BootInv

\* Whoever has loaded before a shutdown and saves after it outruns it.
LEMMA SaveKeeps ==
  ASSUME BootInv, NEW o \in Operators, SavesState(o)
  PROVE  BootInv'
<1>1. /\ operator[o].at = "write" /\ operator' = LeftBehind(o)
      /\ stateFile' = TornState \/ stateFile' = operator[o].state
      /\ dependsOn' = dependsOn /\ signals' = signals
      /\ IF operator[o].line.event = "shutdown"
         THEN down' = TRUE /\ outrun' = FALSE
         ELSE down' = down /\ outrun' = (outrun \/ operator[o].behind)
  BY DEF SavesState
<1>2. Command(dependsOn, operator[o]) /\ operator[o] # AtEase
  BY <1>1, BootTexts DEF BootInv
<1>3. /\ operator' = [p \in Operators |-> operator'[p]]
      /\ operator'[o] = [operator[o] EXCEPT !.at = "log"]
      /\ \A p \in Operators \ {o} : operator'[p] =
           IF operator[o].line.event = "shutdown" /\ operator[p].at \in {"open", "write"}
           THEN [operator[p] EXCEPT !.behind = TRUE] ELSE operator[p]
  BY <1>1 DEF LeftBehind
<1>4. operator'[o].at = "log" /\ Command(dependsOn, operator'[o])
  <2>1. /\ operator'[o].at = "log" /\ operator'[o].state = operator[o].state
        /\ operator'[o].line = operator[o].line /\ operator'[o].behind = operator[o].behind
        /\ operator'[o] = [at |-> operator'[o].at, state |-> operator'[o].state,
                           line |-> operator'[o].line, behind |-> operator'[o].behind]
    BY <1>2, <1>3 DEF Command
  <2> QED
    BY <1>2, <2>1 DEF Command
<1>5. ASSUME NEW p \in Operators \ {o}, operator[o].line.event = "shutdown", operator[p].at \in {"open", "write"}
      PROVE  operator'[p].behind /\ Command(dependsOn, operator'[p])
  <2>1. Command(dependsOn, operator[p])
    BY <1>5, BootTexts DEF BootInv
  <2>2. operator'[p] = [operator[p] EXCEPT !.behind = TRUE]
    BY <1>3, <1>5
  <2>3. /\ operator'[p].at = operator[p].at /\ operator'[p].state = operator[p].state
        /\ operator'[p].line = operator[p].line /\ operator'[p].behind = TRUE
        /\ operator'[p] = [at |-> operator'[p].at, state |-> operator'[p].state,
                           line |-> operator'[p].line, behind |-> operator'[p].behind]
    BY <2>1, <2>2 DEF Command
  <2> QED
    BY <2>1, <2>3 DEF Command
<1>6. \A p \in Operators : operator'[p] = AtEase \/ Command(dependsOn', operator'[p])
  BY <1>1, <1>3, <1>4, <1>5 DEF BootInv
<1>7. stateFile' = TornState \/ SavedState(stateFile')
  BY <1>1, <1>2 DEF Command
<1>8. down' \in BOOLEAN /\ outrun' \in BOOLEAN
  BY <1>1, <1>2 DEF BootInv, Command
<1>9. CASE operator[o].line.event = "shutdown"
  <2>1. stateFile' = TornState \/ Quiet(stateFile')
    BY <1>1, <1>2, <1>9 DEF Command
  <2>2. ASSUME NEW p \in Operators \ {o} PROVE Obedient(operator'[p])
    <3>1. CASE operator[p].at \in {"open", "write"}
      BY <1>5, <1>9, <3>1 DEF Obedient
    <3>2. CASE operator[p].at \notin {"open", "write"}
      <4>1. operator'[p] = operator[p]
        BY <1>3, <3>2
      <4>2. operator[p] = AtEase \/ operator[p].at = "log"
        BY <3>2 DEF BootInv, Command
      <4> QED
        BY <4>1, <4>2 DEF Obedient
    <3> QED
      BY <3>1, <3>2
  <2>3. \A p \in Operators : Obedient(operator'[p])
    BY <1>4, <2>2 DEF Obedient
  <2> QED
    BY <1>1, <1>3, <1>6, <1>7, <1>8, <2>1, <2>3 DEF BootInv
<1>10. CASE operator[o].line.event # "shutdown"
  <2>1. \A p \in Operators \ {o} : operator'[p] = operator[p]
    BY <1>3, <1>10
  <2>2. ASSUME down', ~outrun'
        PROVE  (stateFile' = TornState \/ Quiet(stateFile')) /\ \A p \in Operators : Obedient(operator'[p])
    <3>1. down /\ ~outrun /\ ~operator[o].behind
      BY <1>1, <1>2, <1>10, <2>2 DEF BootInv, Command
    <3>2. \A p \in Operators : Obedient(operator[p])
      BY <3>1 DEF BootInv
    <3>3. Quiet(operator[o].state)
      BY <1>1, <1>2, <3>1, <3>2 DEF Obedient
    <3>4. Obedient(operator'[o])
      BY <1>4 DEF Obedient
    <3> QED
      BY <1>1, <2>1, <3>2, <3>3, <3>4
  <2> QED
    BY <1>1, <1>3, <1>6, <1>7, <1>8, <2>2 DEF BootInv
<1> QED
  BY <1>9, <1>10

\* A command ends with its line on the ledger, or dies wherever it is.
LEMMA EndKeeps ==
  ASSUME BootInv, NEW o \in Operators, LogsSignal(o) \/ CommandDies(o)
  PROVE  BootInv'
<1>1. /\ operator' = [operator EXCEPT ![o] = AtEase]
      /\ dependsOn' = dependsOn /\ stateFile' = stateFile /\ down' = down /\ outrun' = outrun
  BY DEF LogsSignal, CommandDies
<1>2. signals' \in Seq(Lines(dependsOn))
  <2>1. CASE LogsSignal(o)
    <3>1. operator[o].at = "log" /\ signals' = Append(signals, operator[o].line)
      BY <2>1 DEF LogsSignal
    <3>2. operator[o].line \in Lines(dependsOn)
      BY <3>1, BootTexts DEF BootInv, Command
    <3> QED
      BY <3>1, <3>2 DEF BootInv
  <2>2. CASE CommandDies(o)
    BY <2>2 DEF CommandDies, BootInv
  <2> QED
    BY <2>1, <2>2
<1>3. /\ operator'[o] = AtEase /\ \A p \in Operators \ {o} : operator'[p] = operator[p]
      /\ operator' = [p \in Operators |-> operator'[p]]
  BY <1>1 DEF BootInv
<1>4. \A p \in Operators : operator'[p] = AtEase \/ Command(dependsOn', operator'[p])
  BY <1>1, <1>3 DEF BootInv
<1>5. down' /\ ~outrun' => \A p \in Operators : Obedient(operator'[p])
  BY <1>1, <1>3 DEF BootInv, Obedient
<1> QED
  BY <1>1, <1>2, <1>3, <1>4, <1>5 DEF BootInv

LEMMA BootStepKeeps == ASSUME BootInv, [BootNext]_bootVars PROVE BootInv'
<1>1. ASSUME NEW o \in Operators, Boots(o)
      PROVE  BootInv'
  <2>1. Starts(o) /\ WillSave(o, Booted, "boot", OrderServices(dependsOn)) /\ down' = FALSE
    BY <1>1 DEF Boots
  <2>2. OrderServices(dependsOn) \in Seq(ServiceNames)
    BY OrderIsSound DEF BootInv
  <2> QED
    BY <2>1, <2>2, BootedIsSaved, BeginKeeps
<1>2. ASSUME NEW o \in Operators, Loads(o)
      PROVE  /\ Starts(o) /\ down' = down /\ down \in BOOLEAN /\ SavedState(stateFile)
             /\ down' => down /\ (~outrun => Quiet(stateFile))
  BY <1>2, BootTexts DEF Loads, BootInv
<1>3. <<>> \in Seq(ServiceNames)
  OBVIOUS
<1>4. ASSUME NEW o \in Operators, ShutsDown(o)
      PROVE  BootInv'
  <2>1. Loads(o) /\ WillSave(o, ShutDown(stateFile), "shutdown", <<>>)
    BY <1>4 DEF ShutsDown
  <2>2. SavedState(ShutDown(stateFile)) /\ Quiet(ShutDown(stateFile))
    BY <1>2, <2>1, ChangedIsSaved
  <2> QED
    BY <1>2, <1>3, <2>1, <2>2, BeginKeeps
<1>5. ASSUME NEW o \in Operators, Reaps(o)
      PROVE  BootInv'
  <2>1. Loads(o) /\ WillSave(o, Reaped(stateFile), "reap", <<>>)
    BY <1>5 DEF Reaps
  <2>2. SavedState(Reaped(stateFile)) /\ (Quiet(stateFile) => Quiet(Reaped(stateFile)))
    BY <1>2, <2>1, ChangedIsSaved
  <2> QED
    BY <1>2, <1>3, <2>1, <2>2, BeginKeeps
<1>6. ASSUME NEW o \in Operators, NEW name, Fails(o, name)
      PROVE  BootInv'
  <2>1. Loads(o) /\ name \in DOMAIN stateFile.status /\ WillSave(o, Failed(stateFile, name), "failed", <<>>)
    BY <1>6 DEF Fails
  <2>2. /\ SavedState(Failed(stateFile, name))
        /\ Quiet(stateFile) => Quiet(Failed(stateFile, name))
    BY <1>2, <2>1, ChangedIsSaved
  <2> QED
    BY <1>2, <1>3, <2>1, <2>2, BeginKeeps
<1>7. CASE UNCHANGED bootVars
  BY <1>7 DEF bootVars, BootInv
<1> QED
  BY <1>1, <1>4, <1>5, <1>6, <1>7, OpenKeeps, SaveKeeps, EndKeeps DEF BootNext

\* Whatever is about to be saved or logged (save_state, log_signal): a boot logs the order
\* it took the services in, a shutdown saves nothing running, and once one is saved
\* only a command that loaded before it has anything running to save.
THEOREM BootInvHolds == BootSpec => []BootInv
<1> QED
  BY BootInitHolds, BootStepKeeps, PTL DEF BootSpec

\* A sequence that holds every element of a finite set once is as long as the set is large.
LEMMA LengthOfOrder ==
  ASSUME NEW S, NEW s \in Seq(S), ToSet(s) = S, Distinct(s)
  PROVE  Len(s) = Cardinality(S)
<1>1. DOMAIN s = 1..Len(s) /\ Len(s) \in Nat /\ s \in [1..Len(s) -> S]
  OBVIOUS
<1>2. s \in Surjection(1..Len(s), S)
  BY <1>1 DEF Surjection, ToSet
<1>3. s \in Injection(1..Len(s), S)
  BY <1>1 DEF Injection, IsInjective, Distinct
<1>4. IsFiniteSet(1..Len(s)) /\ Cardinality(1..Len(s)) = Len(s)
  BY <1>1, FS_Interval
<1> QED
  BY <1>2, <1>3, <1>4, FS_Surjection

LEMMA PositionInOrder ==
  ASSUME NEW order, Distinct(order), NEW i \in DOMAIN order
  PROVE  Position(order, order[i]) = i
BY DEF Distinct, Position

LEMMA InvSupervises == BootInv => SupervisionIsSound
<1> SUFFICES ASSUME BootInv PROVE SupervisionIsSound
  OBVIOUS
<1>1. ASSUME NEW i \in DOMAIN signals, signals[i].event = "boot"
      PROVE  Ordered(signals[i].services)
  <2> DEFINE order == signals[i].services
  <2>1. signals[i] \in Lines(dependsOn)
    BY DEF BootInv
  <2>2. order = OrderServices(dependsOn) /\ dependsOn \in Registry
    BY <1>1, <2>1 DEF Lines, BootInv
  <2>3. order \in Seq(ServiceNames) /\ ToSet(order) = ServiceNames /\ InOrder(dependsOn, order)
    BY <2>2, OrderIsSound
  <2> HIDE DEF order
  <2>4. Distinct(order)
    BY <2>3 DEF InOrder
  <2>5. Len(order) = Cardinality(ServiceNames)
    BY <2>3, <2>4, LengthOfOrder
  <2>6. ASSUME NEW s \in ServiceNames, NEW d \in DependenciesOf(dependsOn, s), s \notin Reach(dependsOn, d)
        PROVE  Position(order, d) < Position(order, s)
    <3>1. PICK k \in DOMAIN order : order[k] = s
      BY <2>3 DEF ToSet
    <3>2. PICK j \in DOMAIN order : j < k /\ order[j] = d
      BY <2>3, <2>6, <3>1 DEF InOrder
    <3>3. Position(order, s) = k /\ Position(order, d) = j
      BY <2>4, <3>1, <3>2, PositionInOrder
    <3> QED
      BY <3>2, <3>3
  <2>7. Ordered(order)
    BY <2>3, <2>5, <2>6 DEF Ordered
  <2> QED
    BY <2>7 DEF order
<1>2. DependenciesComeFirst
  BY <1>1 DEF DependenciesComeFirst
<1>3. ShutdownIsObeyed
  BY BootTexts DEF BootInv, ShutdownIsObeyed, Quiet
<1> QED
  BY <1>2, <1>3 DEF SupervisionIsSound

\* Whatever depends_on says, every boot takes every registered service once and after what
\* it stands on; after a shutdown nothing runs until the next boot, however commands
\* overlap and wherever they die, unless what was loaded before it is saved after it
\* (_order_services, shutdown, reap, fail).
THEOREM SupervisionIsAlwaysSound == BootSpec => []SupervisionIsSound
<1> QED
  BY InvSupervises, BootInvHolds, PTL

---------------------------------------------------------------------------
(* How long a shutdown can last. *)

Reaping == pc \in {"reap", "restart"}

\* The stretches of run() that are still to come, in their order; the grace period is two,
\* because its wait polls the children.
Stretch ==
  CASE pc = "start" -> 9 [] Reaping /\ back = "web" -> 8 [] pc = "web" -> 7 [] pc = "loop" -> 6
    [] pc = "term" -> 5 [] Reaping /\ back = "grace" -> 4 [] pc = "grace" -> 3 [] pc = "kill" -> 2
    [] Reaping /\ back = "over" -> 1 [] OTHER -> 0

\* What there is to do of this one.
Agenda ==
  CASE pc = "start" -> Len(starting)
    [] pc = "reap" -> 2 * Len(todo) [] pc = "restart" -> 2 * Len(todo) + 1
    [] OTHER -> 0

Nearer == Stretch' < Stretch \/ (Stretch' = Stretch /\ Agenda' < Agenda)

\* The lists run() works through, recycled pids or not.
Agendas ==
  /\ pc \in {"start", "loop", "reap", "restart", "web", "term", "grace", "kill", "over"}
  /\ back \in {"web", "grace", "over"}
  /\ todo \in Seq(Pids) /\ children \in Seq(Pids)
  /\ pc = "start" => starting \in Seq(Names)

LEMMA WithoutIsSequence ==
  ASSUME children \in Seq(Pids), NEW p PROVE Without(p) \in Seq(Pids)
<1>1. PICK n \in Nat : n = Len(children) /\ DOMAIN children = 1..n /\ \A j \in 1..n : children[j] \in Pids
  OBVIOUS
<1>2. PICK k : k = CHOOSE i \in DOMAIN children : children[i] = p
  OBVIOUS
<1>3. PICK t : t = [i \in 1..n - 1 |-> children[IF i < k THEN i ELSE i + 1]]
  OBVIOUS
<1>4. t = Without(p)
  BY <1>1, <1>2, <1>3 DEF Without
<1>5. PICK m \in Nat : 1..n - 1 = 1..m /\ m <= n /\ (m = n => n = 0)
  <2>1. CASE n = 0
    <3>1. 1..n - 1 = 1..0
      BY <2>1
    <3> QED
      BY <2>1, <3>1
  <2>2. CASE n # 0
    <3>1. n - 1 \in Nat
      BY <2>2
    <3> QED
      BY <3>1
  <2> QED
    BY <2>1, <2>2
<1>6. \A i \in 1..m : i \in 1..n /\ i + 1 \in 1..n
  BY <1>5
<1>7. \A i \in 1..m : t[i] \in Pids
  <2> SUFFICES ASSUME NEW i \in 1..m PROVE t[i] \in Pids
    OBVIOUS
  <2>1. t[i] = children[i] \/ t[i] = children[i + 1]
    BY <1>3, <1>5
  <2> QED
    BY <1>1, <1>6, <2>1
<1>8. t \in [1..m -> Pids]
  BY <1>3, <1>5, <1>7
<1>9. t \in Seq(Pids)
  BY <1>8
<1> QED
  BY <1>4, <1>9

LEMMA ShorterTail ==
  ASSUME NEW S, NEW s \in Seq(S), s # <<>>
  PROVE  Tail(s) \in Seq(S) /\ Len(s) \in Nat /\ Len(Tail(s)) \in Nat /\ Len(Tail(s)) < Len(s)
  OBVIOUS

LEMMA StartedSequence ==
  ASSUME children \in Seq(Pids), NEW name, StartChild(name)
  PROVE  children' \in Seq(Pids)
<1>1. PICK p \in FreePids : children' = Append(children, p)
  BY DEF StartChild
<1>2. p \in Pids
  BY DEF FreePids, Unused
<1> QED
  BY <1>1, <1>2

LEMMA AgendasHold ==
  ASSUME Agendas, [Next]_vars PROVE Agendas'
<1>1. CASE UNCHANGED vars \/ Shutdown \/ Deadline \/ \E p \in Pids : Exit(p)
  BY <1>1 DEF Agendas, vars, supervisorVars, Shutdown, Deadline, Exit
<1>2. CASE Fault \/ LoopHead \/ ReapEnds \/ CheckWeb \/ Terminate \/ Grace \/ Kill
  BY <1>2 DEF Agendas, Fault, LoopHead, ReapEnds, CheckWeb, Terminate, Grace, Kill
<1>3. CASE StartNext
  <2>1. CASE starting = <<>>
    BY <1>3, <2>1 DEF Agendas, StartNext
  <2>2. CASE starting # <<>>
    <3>1. /\ pc = "start" /\ pc' = pc /\ starting' = Tail(starting) /\ StartChild(Head(starting))
          /\ todo' = todo /\ back' = back
      BY <1>3, <2>2 DEF StartNext
    <3>2. children' \in Seq(Pids)
      BY <3>1, StartedSequence DEF Agendas
    <3> QED
      BY <2>2, <3>1, <3>2, ShorterTail DEF Agendas
  <2> QED
    BY <2>1, <2>2
<1>4. CASE Restart
  <2>1. pc' = "reap" /\ StartChild(Head(starting)) /\ todo' = todo /\ back' = back
    BY <1>4 DEF Restart
  <2>2. children' \in Seq(Pids)
    BY <2>1, StartedSequence DEF Agendas
  <2> QED
    BY <2>1, <2>2 DEF Agendas
<1>5. CASE ReapNext
  <2>1. /\ pc = "reap" /\ todo # <<>> /\ todo' = Tail(todo) /\ back' = back
        /\ pc' \in {"reap", "restart"}
        /\ children' = children \/ children' = Without(Head(todo))
    BY <1>5 DEF ReapNext
  <2>2. children' \in Seq(Pids)
    BY <2>1, WithoutIsSequence DEF Agendas
  <2>3. todo' \in Seq(Pids)
    BY <2>1, ShorterTail DEF Agendas
  <2> QED
    BY <2>1, <2>2, <2>3 DEF Agendas
<1> QED
  BY <1>1, <1>2, <1>3, <1>4, <1>5 DEF Next, Supervise

LEMMA AgendasBegin ==
  ASSUME Init PROVE Agendas
<1>1. Specs \in Seq(Names) /\ <<>> \in Seq(Pids)
  BY PID1Assumption
<1> QED
  BY <1>1 DEF Init, Agendas

\* The wait of the grace period: some child lives, and the time is not over.
Waits == pc = "grace" /\ ~graceOver /\ \E p \in ToSet(children) : Live(p)

LEMMA ShutdownGoesOn ==
  ASSUME Agendas, shuttingDown, Supervise \/ Fault
  PROVE  shuttingDown' /\ (graceOver => graceOver') /\ (Nearer \/ Waits)
<1>0. shuttingDown' /\ (graceOver => graceOver')
  <2>1. Fault \/ StartNext \/ LoopHead => UNCHANGED <<shuttingDown, graceOver>>
    BY DEF Fault, StartNext, LoopHead
  <2>2. ReapNext => UNCHANGED <<shuttingDown, graceOver>>
    BY DEF ReapNext
  <2>3. Restart \/ ReapEnds \/ Terminate => UNCHANGED <<shuttingDown, graceOver>>
    BY DEF Restart, ReapEnds, Terminate
  <2>4. Grace \/ Kill => UNCHANGED <<shuttingDown, graceOver>>
    BY DEF Grace, Kill
  <2>5. CheckWeb => shuttingDown' /\ graceOver' = graceOver
    BY DEF CheckWeb
  <2>6. UNCHANGED <<shuttingDown, graceOver>> \/ (shuttingDown' /\ graceOver' = graceOver)
    BY <2>1, <2>2, <2>3, <2>4, <2>5, Zenon DEF Supervise
  <2>7. shuttingDown' = shuttingDown => shuttingDown'
    BY Zenon
  <2>8. graceOver' = graceOver => (graceOver => graceOver')
    BY Zenon
  <2> QED
    BY <2>6, <2>7, <2>8, Zenon
<1>1. CASE StartNext
  <2>1. CASE starting = <<>>
    BY <1>1, <2>1 DEF StartNext, Nearer, Stretch, Reaping
  <2>2. CASE starting # <<>>
    <3>1. pc = "start" /\ pc' = "start" /\ starting' = Tail(starting)
      BY <1>1, <2>2 DEF StartNext
    <3>2. Len(starting') < Len(starting)
      BY <2>2, <3>1, ShorterTail DEF Agendas
    <3>3. Stretch = 9 /\ Stretch' = 9
      BY <3>1 DEF Stretch, Reaping
    <3>4. Agenda = Len(starting) /\ Agenda' = Len(starting')
      BY <3>1 DEF Agenda
    <3> QED
      BY <1>0, <3>2, <3>3, <3>4 DEF Nearer
  <2> QED
    BY <1>0, <2>1, <2>2
<1>2. CASE LoopHead \/ CheckWeb \/ Terminate
  <2>1. \/ pc = "loop" /\ pc' = "term"
        \/ pc = "web" /\ pc' \in {"term", "loop"}
        \/ pc = "term" /\ pc' = "grace"
    BY <1>2 DEF LoopHead, CheckWeb, Terminate
  <2> QED
    BY <1>0, <2>1 DEF Nearer, Stretch, Reaping
<1>3. CASE Grace
  <2>1. CASE Waits
    BY <1>0, <2>1
  <2>2. CASE ~Waits
    <3>1. pc = "grace" /\ pc' = "kill"
      BY <1>3, <2>2 DEF Grace, Waits
    <3> QED
      BY <1>0, <3>1 DEF Nearer, Stretch, Reaping
  <2> QED
    BY <2>1, <2>2
<1>4. CASE Kill
  <2>1. pc = "kill" /\ pc' = "reap" /\ back' = "over"
    BY <1>4 DEF Kill
  <2> QED
    BY <1>0, <2>1 DEF Nearer, Stretch, Reaping
<1>5. CASE ReapEnds
  <2>1. pc = "reap" /\ pc' = back /\ back \in {"web", "grace", "over"}
    BY <1>5 DEF ReapEnds, Agendas
  <2> QED
    BY <1>0, <2>1 DEF Nearer, Stretch, Reaping
<1>6. CASE ReapNext
  <2>1. pc = "reap" /\ pc' = "reap" /\ back' = back /\ todo # <<>> /\ todo' = Tail(todo)
    BY <1>6 DEF ReapNext, Restarts
  <2>2. Stretch' = Stretch
    BY <2>1 DEF Stretch, Reaping
  <2>3. Len(todo) \in Nat /\ Len(todo') \in Nat /\ Len(todo') < Len(todo)
    BY <2>1, ShorterTail DEF Agendas
  <2>4. Agenda = 2 * Len(todo) /\ Agenda' = 2 * Len(todo')
    BY <2>1 DEF Agenda
  <2> QED
    BY <1>0, <2>2, <2>3, <2>4 DEF Nearer
<1>7. CASE Restart
  <2>1. pc = "restart" /\ pc' = "reap" /\ back' = back /\ todo' = todo
    BY <1>7 DEF Restart
  <2>2. Stretch' = Stretch
    BY <2>1 DEF Stretch, Reaping
  <2>3. Len(todo) \in Nat
    BY DEF Agendas
  <2>4. Agenda = 2 * Len(todo) + 1 /\ Agenda' = 2 * Len(todo)
    BY <2>1 DEF Agenda
  <2> QED
    BY <1>0, <2>2, <2>3, <2>4 DEF Nearer
<1>8. CASE Fault
  <2>1. /\ pc # "over" /\ back' = back
        /\ \/ pc \in {"loop", "web"} /\ pc' = "term"
           \/ Reaping /\ back = "web" /\ pc' = "term"
           \/ pc \notin {"loop", "web", "over"} /\ pc' = "over"
    BY <1>8 DEF Fault, Reaping
  <2>2. Stretch' \in {0, 5} /\ (Stretch' = 5 => pc' = "term")
    BY <2>1 DEF Stretch, Reaping
  <2>3. Stretch \in 1..9
    BY <2>1 DEF Stretch, Reaping, Agendas
  <2>4. pc' = "term" => Stretch > 5
    BY <2>1 DEF Stretch, Reaping
  <2> QED
    BY <1>0, <2>2, <2>3, <2>4 DEF Nearer
<1> QED
  BY <1>1, <1>2, <1>3, <1>4, <1>5, <1>6, <1>7, <1>8 DEF Supervise

LEMMA OthersHoldNothingUp ==
  ASSUME [Next]_vars, ~(Supervise \/ Fault)
  PROVE  shuttingDown => shuttingDown' /\ (graceOver => graceOver') /\ Stretch' = Stretch /\ Agenda' = Agenda
<1>1. UNCHANGED supervisorVars /\ (shuttingDown => shuttingDown') /\ (graceOver => graceOver')
  BY DEF Next, vars, Shutdown, Deadline, Exit
<1> QED
  BY <1>1 DEF supervisorVars, Stretch, Agenda, Reaping

\* A shutdown that was asked for is taken nearer to its end by every step of run() and every
\* failing call, in the stretch it is in or to a later one; no signal and no death sets it
\* back, and the one thing it may wait for is the grace period, which no step makes longer.
\* Neither restarts nor recycled pids hold it up (terminate_children, run).
ShutdownRunsDown ==
  /\ [](Stretch \in 0..9 /\ Agenda \in Nat /\ (Stretch = 0 <=> pc = "over"))
  /\ [][shuttingDown =>
          /\ shuttingDown' /\ (graceOver => graceOver')
          /\ IF Supervise \/ Fault THEN Nearer \/ Waits ELSE Stretch' = Stretch /\ Agenda' = Agenda]_vars

THEOREM ShutdownAlwaysRunsDown == Spec => ShutdownRunsDown
<1>1. Init => Agendas
  BY AgendasBegin
<1>2. Agendas /\ [Next]_vars => Agendas'
  BY AgendasHold
<1>3. Agendas => Stretch \in 0..9 /\ Agenda \in Nat /\ (Stretch = 0 <=> pc = "over")
  <2> SUFFICES ASSUME Agendas PROVE Stretch \in 0..9 /\ Agenda \in Nat /\ (Stretch = 0 <=> pc = "over")
    OBVIOUS
  <2>1. Len(todo) \in Nat /\ (pc = "start" => Len(starting) \in Nat)
    BY DEF Agendas
  <2>2. Agenda \in Nat
    BY <2>1 DEF Agenda
  <2>3. Stretch \in 0..9 /\ (Stretch = 0 <=> pc = "over")
    BY DEF Agendas, Stretch, Reaping
  <2> QED
    BY <2>2, <2>3
<1>4. Agendas /\ [Next]_vars =>
        [shuttingDown =>
           /\ shuttingDown' /\ (graceOver => graceOver')
           /\ IF Supervise \/ Fault THEN Nearer \/ Waits ELSE Stretch' = Stretch /\ Agenda' = Agenda]_vars
  BY ShutdownGoesOn, OthersHoldNothingUp
<1> QED
  BY <1>1, <1>2, <1>3, <1>4, PTL DEF Spec, ShutdownRunsDown
=============================================================================

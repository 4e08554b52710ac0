--------------------------- MODULE LearningProofs ---------------------------
(***************************************************************************)
(* What the learning loop keeps true, for any set of rows, any relation of *)
(* nearness, any thresholds and any number of crashes.                     *)
(*                                                                         *)
(* The checkpoint on file names a training that ended well: directories    *)
(* are numbered without gaps, and a training writes into the one after the *)
(* last.                                                                   *)
(*                                                                         *)
(* A training reads what the database held when the run began: the last    *)
(* pass of a run has read every row that a query returns, a row that is    *)
(* once outranked stays so, and deduplication, however its greedy window   *)
(* moves, keeps for every row it drops one that is near and no worse.      *)
(* That is an induction over the rows in the order of visit; it is made of *)
(* a set of numbers closed under the successor.                            *)
(*                                                                         *)
(* And of the decoder, for every algebra whose words are no prefixes of    *)
(* each other: what the mask admits leads to a record the parser reads,    *)
(* and it keeps out no character by which emit would go on.  The parser's  *)
(* language, what emit writes and the mask are taken apart alike, at the   *)
(* anchor, the arrow, the relation and the bracket, and compared part by   *)
(* part.                                                                   *)
(***************************************************************************)
EXTENDS Learning, Decoder, FiniteSetTheorems, WellFoundedInduction, TLAPS

(* The directories of checkpoints. *)

RunShape ==
  run = [pc |-> run.pc, mode |-> run.mode, pass |-> run.pass, strategy |-> run.strategy, clean |-> run.clean,
         prevOut |-> run.prevOut, dir |-> run.dir, base |-> run.base, since |-> run.since]

\* n directories are there, and the one that is trained into would be the next.
Numbered(n) ==
  /\ dirs \in [1..n -> BOOLEAN]
  /\ checkpoint \in 0..n /\ (checkpoint # 0 => dirs[checkpoint])
  /\ At("training") => run.dir = n + 1 /\ run.base \in 0..n
  /\ At("name") => run.dir \in 1..n /\ dirs[run.dir]

CheckpointInv == RunShape /\ \E n \in Nat : Numbered(n)

LEMMA CountIsTheLast ==
  ASSUME NEW n \in Nat, Numbered(n)
  PROVE  Cardinality(DOMAIN dirs) = n
<1>1. DOMAIN dirs = 1..n
  BY DEF Numbered
<1>2. Cardinality(1..n) = IF 1 > n THEN 0 ELSE n - 1 + 1
  BY FS_Interval
<1> QED
  BY <1>1, <1>2

LEMMA OneMoreDir ==
  ASSUME NEW n \in Nat, Numbered(n), At("training"), NEW ok \in BOOLEAN
  PROVE  /\ WithDir(ok) \in [1..(n + 1) -> BOOLEAN] /\ WithDir(ok)[n + 1] = ok
         /\ \A d \in 1..n : WithDir(ok)[d] = dirs[d]
<1>1. run.dir = n + 1 /\ DOMAIN dirs = 1..n /\ dirs \in [1..n -> BOOLEAN]
  BY DEF Numbered
<1>2. 1..n \cup {n + 1} = 1..(n + 1)
  OBVIOUS
<1>3. WithDir(ok) = [d \in 1..(n + 1) |-> IF d = n + 1 THEN ok ELSE dirs[d]]
  BY <1>1, <1>2 DEF WithDir
<1>4. \A d \in 1..n : d \in 1..(n + 1) /\ d # n + 1
  OBVIOUS
<1>5. n + 1 \in 1..(n + 1) /\ \A d \in 1..(n + 1) : d # n + 1 => d \in 1..n
  OBVIOUS
<1> QED
  BY <1>1, <1>3, <1>4, <1>5

LEMMA CheckpointNext ==
  ASSUME CheckpointInv, [Next]_vars
  PROVE  CheckpointInv'
<1>1. PICK n \in Nat : Numbered(n)
  BY DEF CheckpointInv
<1>2. RunShape
  BY DEF CheckpointInv
<1> USE DEF models, At
<1>3. ASSUME UNCHANGED models, RunShape', run'.pc \notin {"training", "name"}
      PROVE  CheckpointInv'
  BY <1>1, <1>3 DEF Numbered, CheckpointInv
<1>4. ASSUME UNCHANGED models, RunShape', run'.pc = run.pc, run'.dir = run.dir, run'.base = run.base
      PROVE  CheckpointInv'
  BY <1>1, <1>4 DEF Numbered, CheckpointInv
<1>5. RunShape' \/ run' # Idle
  BY DEF RunShape, Idle
<1>6. CASE UNCHANGED vars
  BY <1>2, <1>4, <1>6 DEF vars, RunShape
<1>7. ASSUME NEW i \in Ids, NEW k \in Kinds, Stamp(i, k)
      PROVE  CheckpointInv'
  BY <1>2, <1>4, <1>7 DEF Stamp, RunShape
<1>8. ASSUME NEW i \in Ids, Commit(i)
      PROVE  CheckpointInv'
  BY <1>2, <1>4, <1>8 DEF Commit, RunShape
<1>9. ASSUME NEW c \in Commands, Start(c[1], c[2])
      PROVE  CheckpointInv'
  <2>1. RunShape' /\ run'.pc = "fetch"
    BY <1>9 DEF Start, RunShape, Idle
  <2> QED
    BY <1>3, <1>9, <2>1 DEF Start
<1>10. CASE Fetch \/ WriteTrain \/ WriteVal \/ LogCompaction \/ CheckRetrain \/ ClearSentinel
  <2>1. UNCHANGED models /\ RunShape' /\ run'.pc \notin {"training", "name"}
    BY <1>2, <1>10 DEF Fetch, WriteTrain, WriteVal, LogCompaction, CheckRetrain, ClearSentinel, RunShape
  <2> QED
    BY <1>3, <2>1
<1>11. CASE NoRetrain
  BY <1>3, <1>5, <1>11 DEF NoRetrain, Idle
<1>12. CASE Launch
  <2>1. RunShape' /\ run'.pc = "training" /\ run'.dir = NextCheckpointDir /\ run'.base = checkpoint
    BY <1>2, <1>12 DEF Launch, RunShape
  <2>2. NextCheckpointDir = n + 1
    BY <1>1, CountIsTheLast DEF NextCheckpointDir
  <2> QED
    BY <1>1, <1>12, <2>1, <2>2 DEF Launch, Numbered, CheckpointInv
<1>13. CASE TrainingEnds
  <2>1. RunShape' /\ run'.pc = "name" /\ run'.dir = run.dir
    BY <1>2, <1>13 DEF TrainingEnds, RunShape
  <2>2. run.dir = n + 1 /\ dirs' \in [1..(n + 1) -> BOOLEAN] /\ dirs'[n + 1] = TRUE /\ \A d \in 1..n : dirs'[d] = dirs[d]
    BY <1>1, <1>13, OneMoreDir DEF TrainingEnds, Numbered
  <2>3. n + 1 \in 1..(n + 1) /\ checkpoint \in 0..(n + 1) /\ (checkpoint # 0 => checkpoint \in 1..n) /\ n + 1 \in Nat
    BY <1>1 DEF Numbered
  <2>4. Numbered(n + 1)'
    BY <1>1, <1>13, <2>1, <2>2, <2>3 DEF TrainingEnds, Numbered
  <2> QED
    BY <2>1, <2>3, <2>4 DEF CheckpointInv
<1>14. CASE NameCheckpoint
  <2>1. RunShape' /\ run'.pc = "idle"
    BY <1>5, <1>14 DEF NameCheckpoint, Idle
  <2>2. Numbered(n)'
    BY <1>1, <1>14, <2>1 DEF NameCheckpoint, Numbered
  <2> QED
    BY <2>1, <2>2 DEF CheckpointInv
<1>15. ASSUME run' = Idle, UNCHANGED checkpoint, dirs' = dirs \/ (At("training") /\ dirs' = WithDir(FALSE))
       PROVE  CheckpointInv'
  <2>1. RunShape' /\ run'.pc = "idle"
    BY <1>5, <1>15 DEF Idle
  <2>2. CASE dirs' = dirs
    BY <1>3, <1>15, <2>1, <2>2
  <2>3. CASE At("training") /\ dirs' = WithDir(FALSE)
    <3>1. dirs' \in [1..(n + 1) -> BOOLEAN] /\ \A d \in 1..n : dirs'[d] = dirs[d]
      BY <1>1, <2>3, OneMoreDir
    <3>2. checkpoint \in 0..(n + 1) /\ (checkpoint # 0 => checkpoint \in 1..n) /\ n + 1 \in Nat
      BY <1>1 DEF Numbered
    <3>3. Numbered(n + 1)'
      BY <1>1, <1>15, <2>1, <3>1, <3>2 DEF Numbered
    <3> QED
      BY <2>1, <3>2, <3>3 DEF CheckpointInv
  <2> QED
    BY <1>15, <2>2, <2>3
<1>16. CASE TrainingFails
  BY <1>15, <1>16 DEF TrainingFails
<1>17. CASE Crash
  BY <1>15, <1>17 DEF Crash
<1> QED
  BY <1>6, <1>7, <1>8, <1>9, <1>10, <1>11, <1>12, <1>13, <1>14, <1>16, <1>17 DEF Next, LearnerStep

\* Checkpoint directories are numbered without gaps, and a training writes into the one
\* after the last.
THEOREM CheckpointInvHolds == Spec => []CheckpointInv
<1>1. Init => CheckpointInv
  <2>1. ASSUME Init
        PROVE  RunShape /\ Numbered(0)
    BY <2>1 DEF Init, RunShape, Numbered, Idle, At, Nothing
  <2> QED
    BY <2>1 DEF CheckpointInv
<1>2. CheckpointInv /\ [Next]_vars => CheckpointInv'
  BY CheckpointNext
<1> QED
  BY <1>1, <1>2, PTL DEF Spec

\* Whatever failed or was killed, the checkpoint on file is of a training that ended well.
THEOREM CheckpointIsAlwaysTrained == Spec => []CheckpointIsTrained
<1>1. CheckpointInv => CheckpointIsTrained
  BY DEF CheckpointInv, Numbered, CheckpointIsTrained, At
<1> QED
  BY <1>1, CheckpointInvHolds, PTL

---------------------------------------------------------------------------
Below == {ss \in Nat \X Nat : ss[1] < ss[2]}

\* A set of numbers that holds 0 and every successor is all of them.
LEMMA Successors ==
  ASSUME NEW S \in SUBSET Nat, 0 \in S, \A n \in S : n + 1 \in S
  PROVE  S = Nat
<1> DEFINE T == Nat \ S
<1> SUFFICES ASSUME T # {} PROVE FALSE
  OBVIOUS
<1>1. IsWellFoundedOn(Below, Nat)
  BY NatLessThanWellFounded, Zenon DEF OpToRel, Below
<1>2. T \subseteq Nat /\ T # {}
  OBVIOUS
<1> HIDE DEF T
<1>3. PICK x \in T : \A y \in T : ~ (<<y, x>> \in Below)
  BY <1>1, <1>2, WFMin
<1> USE DEF T
<1>4. x # 0 /\ x \in Nat /\ x - 1 \in Nat /\ x - 1 < x /\ (x - 1) + 1 = x
  BY <1>3
<1>5. <<x - 1, x>> \in Below
  BY <1>4 DEF Below
<1>6. x - 1 \notin T
  BY <1>3, <1>5
<1> QED
  BY <1>3, <1>4, <1>6

---------------------------------------------------------------------------
(* Deduplication. *)

\* What is kept when the first n of s have been looked at, g telling for fewer.
Visit(g, s, n) ==
  IF n = 0 THEN <<>>
  ELSE IF SeenBefore(s, n) \/ NearKept(g[n - 1], s[n]) THEN g[n - 1]
  ELSE Append(g[n - 1], s[n])

Visits(g, s, m) == g = [n \in 0..m |-> Visit(g, s, n)]

LEMMA VisitsExist ==
  ASSUME NEW s, NEW m \in Nat
  PROVE  \E g : Visits(g, s, m)
<1> DEFINE S == {n \in Nat : \E g : Visits(g, s, n)}
<1>1. 0 \in S
  <2> DEFINE g == [n \in 0..0 |-> <<>>]
  <2>1. \A n \in 0..0 : Visit(g, s, n) = <<>>
    BY DEF Visit
  <2>2. g = [n \in 0..0 |-> Visit(g, s, n)]
    BY <2>1
  <2> HIDE DEF g
  <2> QED
    BY <2>2 DEF Visits
<1>2. ASSUME NEW n \in S
      PROVE  n + 1 \in S
  <2>1. PICK g : g = [i \in 0..n |-> Visit(g, s, i)]
    BY DEF Visits
  <2> DEFINE last == Visit(g, s, n + 1)
             h == [i \in 0..(n + 1) |-> IF i = n + 1 THEN last ELSE g[i]]
  <2>2. n \in Nat
    OBVIOUS
  <2>3. \A i \in 0..n : i \in 0..(n + 1) /\ i # n + 1
    BY <2>2
  <2>4. \A i \in 0..(n + 1) : i # 0 => i - 1 \in 0..n
    BY <2>2
  <2>5. \A i \in 0..(n + 1) : i # n + 1 => i \in 0..n
    BY <2>2
  <2>6. n + 1 \in 0..(n + 1)
    BY <2>2
  <2> HIDE DEF last
  <2>7. \A i \in 0..n : h[i] = g[i]
    BY <2>3
  <2> HIDE DEF h
  <2>8. \A i \in 0..(n + 1) : Visit(h, s, i) = Visit(g, s, i)
    BY <2>4, <2>7 DEF Visit
  <2>9. \A i \in 0..n : g[i] = Visit(g, s, i)
    BY <2>1
  <2>10. h = [i \in 0..(n + 1) |-> Visit(h, s, i)]
    BY <2>5, <2>8, <2>9 DEF h, last
  <2> QED
    BY <2>2, <2>10 DEF Visits
<1> HIDE DEF S
<1>3. S = Nat
  BY <1>1, <1>2, Successors DEF S
<1> QED
  BY <1>3 DEF S

LEMMA DeduplicateVisits ==
  ASSUME NEW s, Len(s) \in Nat
  PROVE  \E g : Visits(g, s, Len(s)) /\ Deduplicate(s) = g[Len(s)]
<1> DEFINE g == CHOOSE g : g = [n \in 0..Len(s) |-> Visit(g, s, n)]
<1>1. Visits(g, s, Len(s))
  BY VisitsExist DEF Visits
<1>2. Deduplicate(s) = g[Len(s)]
  BY DEF Deduplicate, Visit
<1> QED
  BY <1>1, <1>2

\* What the window shows is what was kept.
LEMMA WindowShowsKept ==
  ASSUME NEW X, NEW kept \in Seq(X), NEW i \in DOMAIN LastFew(kept, Window)
  PROVE  \E j \in 1..Len(kept) : LastFew(kept, Window)[i] = kept[j]
<1> DEFINE a == IF Len(kept) > Window THEN Len(kept) - Window + 1 ELSE 1
<1>1. Len(kept) \in Nat /\ Window \in Nat
  BY LearningAssumption
<1>2. a \in 1..(Len(kept) + 1)
  BY <1>1
<1>3. LastFew(kept, Window) = SubSeq(kept, a, Len(kept))
  BY DEF LastFew
<1> HIDE DEF a
<1>4. SubSeq(kept, a, Len(kept)) = [k \in 1..(Len(kept) - a + 1) |-> kept[k + a - 1]]
  BY <1>1, <1>2
<1>5. i \in 1..(Len(kept) - a + 1)
  BY <1>3, <1>4
<1>6. i + a - 1 \in 1..Len(kept)
  BY <1>1, <1>2, <1>5
<1> QED
  BY <1>3, <1>4, <1>5, <1>6

\* What is kept stands for everything that was looked at.
StandsFor(kept, s, n) ==
  /\ \A i \in 1..Len(kept) : \E j \in 1..n : kept[i] = s[j]
  /\ \A m \in 1..n : \E i \in 1..Len(kept) : Similar(kept[i].p, s[m].p) /\ kept[i].q >= s[m].q

BestFirst(s) ==
  /\ \A i \in 1..Len(s) : s[i].q \in Nat
  /\ \A i, j \in 1..Len(s) : i < j => s[i].q >= s[j].q

LEMMA VisitStandsFor ==
  ASSUME NEW X, NEW s \in Seq(X), BestFirst(s), NEW n \in 0..Len(s), n + 1 <= Len(s),
         NEW kept \in Seq(X), StandsFor(kept, s, n),
         NEW next, next = IF SeenBefore(s, n + 1) \/ NearKept(kept, s[n + 1]) THEN kept ELSE Append(kept, s[n + 1])
  PROVE  next \in Seq(X) /\ StandsFor(next, s, n + 1)
<1> DEFINE k == s[n + 1]
<1>1. n \in Nat /\ n + 1 \in 1..Len(s) /\ k \in X /\ k.q \in Nat
  BY DEF BestFirst
<1>2. \A j \in 1..n : j \in 1..Len(s) /\ j \in 1..(n + 1) /\ s[j].q \in Nat /\ s[j].q >= k.q
  BY <1>1 DEF BestFirst
<1>3. \A m \in 1..(n + 1) : m # n + 1 => m \in 1..n
  BY <1>1
<1>4. n + 1 \in 1..(n + 1)
  BY <1>1
<1>5. (n + 1) - 1 = n
  BY <1>1
<1> HIDE DEF k
<1>6. ASSUME \E i \in 1..Len(kept) : Similar(kept[i].p, k.p) /\ kept[i].q >= k.q
      PROVE  StandsFor(kept, s, n + 1)
  BY <1>2, <1>3, <1>6 DEF StandsFor, k
<1>7. \A i \in 1..Len(kept) : kept[i].q \in Nat /\ kept[i].q >= k.q
  BY <1>2 DEF StandsFor
<1>8. CASE SeenBefore(s, n + 1)
  <2>1. PICK i \in 1..n : s[i].p = k.p
    BY <1>5, <1>8 DEF SeenBefore, k
  <2>2. PICK j \in 1..Len(kept) : Similar(kept[j].p, s[i].p)
    BY DEF StandsFor
  <2> QED
    BY <1>6, <1>7, <1>8, <2>1, <2>2
<1>9. CASE NearKept(kept, k)
  <2>1. PICK i \in DOMAIN LastFew(kept, Window) : Similar(k.p, LastFew(kept, Window)[i].p)
    BY <1>9 DEF NearKept
  <2>2. PICK j \in 1..Len(kept) : LastFew(kept, Window)[i] = kept[j]
    BY WindowShowsKept
  <2>3. Similar(kept[j].p, k.p)
    BY <2>1, <2>2 DEF Similar
  <2> QED
    BY <1>6, <1>7, <1>9, <2>3 DEF k
<1>10. CASE ~(SeenBefore(s, n + 1) \/ NearKept(kept, k))
  <2>1. next = Append(kept, k)
    BY <1>10 DEF k
  <2>2. /\ Append(kept, k) \in Seq(X) /\ Len(Append(kept, k)) = Len(kept) + 1 /\ Len(kept) \in Nat
        /\ Append(kept, k)[Len(kept) + 1] = k
        /\ \A i \in 1..Len(kept) : Append(kept, k)[i] = kept[i]
    BY <1>1
  <2>3. Len(kept) + 1 \in 1..(Len(kept) + 1)
        /\ \A i \in 1..(Len(kept) + 1) : i # Len(kept) + 1 => i \in 1..Len(kept)
    BY <2>2
  <2>4. \A i \in 1..Len(kept) : i \in 1..(Len(kept) + 1)
    BY <2>2
  <2>5. Similar(k.p, k.p) /\ k.q >= k.q
    BY <1>1 DEF Similar
  <2>6. \A i \in 1..(Len(kept) + 1) : \E j \in 1..(n + 1) : Append(kept, k)[i] = s[j]
    <3> TAKE i \in 1..(Len(kept) + 1)
    <3>1. CASE i = Len(kept) + 1
      BY <1>4, <2>2, <3>1 DEF k
    <3>2. CASE i # Len(kept) + 1
      <4>1. i \in 1..Len(kept) /\ Append(kept, k)[i] = kept[i]
        BY <2>2, <2>3, <3>2
      <4>2. PICK j \in 1..n : kept[i] = s[j]
        BY <4>1 DEF StandsFor
      <4> QED
        BY <1>2, <4>1, <4>2
    <3> QED
      BY <3>1, <3>2
  <2>7. \A m \in 1..(n + 1) : \E i \in 1..(Len(kept) + 1) :
          Similar(Append(kept, k)[i].p, s[m].p) /\ Append(kept, k)[i].q >= s[m].q
    <3> TAKE m \in 1..(n + 1)
    <3>1. CASE m = n + 1
      BY <2>2, <2>3, <2>5, <3>1 DEF k
    <3>2. CASE m # n + 1
      <4>1. PICK i \in 1..Len(kept) : Similar(kept[i].p, s[m].p) /\ kept[i].q >= s[m].q
        BY <1>3, <3>2 DEF StandsFor
      <4> QED
        BY <2>2, <2>4, <4>1
    <3> QED
      BY <3>1, <3>2
  <2>8. /\ \A i \in 1..Len(next) : \E j \in 1..(n + 1) : next[i] = s[j]
        /\ \A m \in 1..(n + 1) : \E i \in 1..Len(next) :
             Similar(next[i].p, s[m].p) /\ next[i].q >= s[m].q
    BY <2>1, <2>2, <2>6, <2>7, Zenon
  <2>9. next \in Seq(X)
    BY <2>1, <2>2
  <2> QED
    BY <2>8, <2>9 DEF StandsFor
<1> QED
  BY <1>8, <1>9, <1>10 DEF k

\* For every row there is one that is kept, near and no worse.
LEMMA KeptStandsForAll ==
  ASSUME NEW X, NEW s \in Seq(X), BestFirst(s)
  PROVE  /\ ToSet(Deduplicate(s)) \subseteq X
         /\ \A m \in 1..Len(s) : \E e \in ToSet(Deduplicate(s)) : Similar(e.p, s[m].p) /\ e.q >= s[m].q
<1>1. Len(s) \in Nat
  OBVIOUS
<1>2. PICK g : Visits(g, s, Len(s)) /\ Deduplicate(s) = g[Len(s)]
  BY <1>1, DeduplicateVisits
<1> DEFINE S == {n \in Nat : n <= Len(s) => g[n] \in Seq(X) /\ StandsFor(g[n], s, n)}
<1>3. \A n \in 0..Len(s) : g[n] = Visit(g, s, n)
  BY <1>2 DEF Visits
<1>4. 0 \in S
  <2>1. g[0] = <<>>
    BY <1>1, <1>3 DEF Visit
  <2>2. <<>> \in Seq(X) /\ Len(<<>>) = 0 /\ 1..0 = {}
    OBVIOUS
  <2>3. StandsFor(g[0], s, 0)
    BY <2>1, <2>2 DEF StandsFor
  <2> QED
    BY <2>1, <2>2, <2>3
<1>5. ASSUME NEW n \in S
      PROVE  n + 1 \in S
  <2> SUFFICES ASSUME n + 1 <= Len(s)
               PROVE  g[n + 1] \in Seq(X) /\ StandsFor(g[n + 1], s, n + 1)
    OBVIOUS
  <2>1. n \in 0..Len(s) /\ n + 1 \in 0..Len(s) /\ n + 1 # 0 /\ (n + 1) - 1 = n /\ n <= Len(s)
    BY <1>1
  <2>2. g[n] \in Seq(X) /\ StandsFor(g[n], s, n)
    BY <2>1
  <2>3. g[n + 1] = IF SeenBefore(s, n + 1) \/ NearKept(g[n], s[n + 1]) THEN g[n] ELSE Append(g[n], s[n + 1])
    BY <1>3, <2>1 DEF Visit
  <2> HIDE DEF S
  <2> QED
    BY <2>1, <2>2, <2>3, VisitStandsFor
<1> HIDE DEF S
<1>6. S = Nat
  BY <1>4, <1>5, Successors DEF S
<1>7. Deduplicate(s) \in Seq(X) /\ StandsFor(Deduplicate(s), s, Len(s))
  BY <1>1, <1>2, <1>6 DEF S
<1>8. DOMAIN Deduplicate(s) = 1..Len(Deduplicate(s)) /\ \A i \in DOMAIN Deduplicate(s) : Deduplicate(s)[i] \in X
  BY <1>7
<1>9. ToSet(Deduplicate(s)) = {Deduplicate(s)[i] : i \in DOMAIN Deduplicate(s)}
  BY DEF ToSet
<1>10. PICK d : d = Deduplicate(s)
  OBVIOUS
<1>11. ASSUME NEW m \in 1..Len(s)
       PROVE  \E e \in ToSet(d) : Similar(e.p, s[m].p) /\ e.q >= s[m].q
  <2>1. PICK i \in 1..Len(d) : Similar(d[i].p, s[m].p) /\ d[i].q >= s[m].q
    BY <1>7, <1>10 DEF StandsFor
  <2>2. d[i] \in ToSet(d)
    BY <1>8, <1>9, <1>10
  <2> QED
    BY <2>1, <2>2
<1> QED
  BY <1>8, <1>9, <1>10, <1>11
---------------------------------------------------------------------------
(* What the files hold. *)

\* The exported rows in E stand for what the database held when the run began, as far
\* as a query can return it.
Covered(E) ==
  \A i \in DOMAIN rows \ run.since :
    Passing(rows[i]) => (\E e \in E : Similar(e.p, rows[i].p) /\ e.q >= rows[i].q) \/ Outranked(i)

KindsOf(f) == \A i \in DOMAIN f : f[i] \in Kinds

\* No row is committed twice.
Pending == DOMAIN rows \cap DOMAIN stamped = {}

\* Only the first pass may have read less than everything, and it is never the last.
FirstPass == run.pass = 1 /\ run.prevOut = -1

DataInv ==
  /\ RunShape
  /\ IsFiniteSet(DOMAIN rows) /\ KindsOf(rows) /\ KindsOf(stamped) /\ Pending
  /\ ~At("idle") => run.strategy = "quality_filter" \/ FirstPass
  /\ run.pc \in {"write_train", "write_val", "log", "check"} /\ run.strategy = "quality_filter" =>
       Covered(ToSet(run.clean))
  /\ run.pc \in {"write_val", "log", "check"} => train = ToSet(run.clean) \ HeldOut(run.clean)
  /\ run.pc \in {"log", "check"} => val = HeldOut(run.clean)
  /\ run.pc \in {"decide", "launch", "training"} => Covered(train \cup val) /\ train \cap val = {}

\* The orders of visit are of all the rows of a finite set.
LEMMA EveryRowIsVisited ==
  ASSUME NEW D, IsFiniteSet(D), D \subseteq DOMAIN rows, KindsOf(rows), NEW s \in ByQuality({Row(i) : i \in D})
  PROVE  /\ s \in Seq({Row(i) : i \in D}) /\ BestFirst(s)
         /\ \A i \in D : \E m \in 1..Len(s) : s[m] = Row(i)
<1> DEFINE R == {Row(i) : i \in D}
           f == [i \in D |-> Row(i)]
           n == Cardinality(R)
<1>1. f \in Surjection(D, R)
  BY DEF Surjection
<1>2. IsFiniteSet(R)
  BY <1>1, FS_Surjection
<1>3. n \in Nat
  BY <1>2, FS_CardinalityType
<1>4. s \in [1..n -> R] /\ \A i, j \in 1..n : i # j => s[i] # s[j]
  BY DEF ByQuality, SetToSeqs
<1>5. \A i, j \in 1..Len(s) : i < j => s[i].q >= s[j].q
  BY DEF ByQuality
<1>6. \A r \in R : r.q \in Nat
  BY LearningAssumption DEF KindsOf, Row
<1> HIDE DEF R, f
<1>7. s \in Seq(R) /\ Len(s) = n
  BY <1>3, <1>4
<1> HIDE DEF n
<1>8. BestFirst(s)
  BY <1>4, <1>5, <1>6, <1>7 DEF BestFirst
<1>9. s \in Injection(1..n, R)
  BY <1>4 DEF Injection, IsInjective
<1>10. Cardinality(1..n) = n
  <2>1. Cardinality(1..n) = IF 1 > n THEN 0 ELSE n - 1 + 1
    BY <1>3, FS_Interval
  <2> QED
    BY <1>3, <2>1
<1>11. s \in Surjection(1..n, R)
  BY <1>2, <1>9, <1>10, FS_Injection DEF n
<1>12. \A r \in R : \E m \in 1..n : s[m] = r
  BY <1>11 DEF Surjection
<1> QED
  BY <1>7, <1>8, <1>12 DEF R

\* A pass that has read D stands for D.
LEMMA PassStandsFor ==
  ASSUME NEW D, IsFiniteSet(D), D \subseteq DOMAIN rows, KindsOf(rows), NEW s \in ByQuality({Row(i) : i \in D})
  PROVE  \A i \in D : \E e \in ToSet(Deduplicate(s)) : Similar(e.p, rows[i].p) /\ e.q >= rows[i].q
<1> TAKE i \in D
<1>1. PICK m \in 1..Len(s) : s[m] = Row(i)
  BY EveryRowIsVisited
<1>2. \E e \in ToSet(Deduplicate(s)) : Similar(e.p, s[m].p) /\ e.q >= s[m].q
  BY EveryRowIsVisited, KeptStandsForAll
<1>3. s[m].p = rows[i].p /\ s[m].q = rows[i].q
  BY <1>1 DEF Row
<1> QED
  BY <1>2, <1>3

LEMMA FetchCovers ==
  ASSUME DataInv, Fetch
  PROVE  /\ RunShape' /\ run'.pc = "write_train" /\ run'.strategy = run.strategy
         /\ run'.pass = run.pass /\ run'.prevOut = run.prevOut
         /\ run.strategy = "quality_filter" => Covered(ToSet(run.clean))'
<1> DEFINE D == {j \in Fetched(run.strategy) : Passing(rows[j])}
<1>1. PICK s \in ByQuality({Row(i) : i \in D}) :
        run' = [run EXCEPT !.pc = "write_train", !.clean = Deduplicate(s)]
  BY DEF Fetch
<1>2. /\ RunShape' /\ run'.pc = "write_train" /\ run'.strategy = run.strategy /\ run'.clean = Deduplicate(s)
      /\ run'.pass = run.pass /\ run'.prevOut = run.prevOut /\ run'.since = run.since
  BY <1>1 DEF DataInv, RunShape
<1>3. ASSUME run.strategy = "quality_filter"
      PROVE  Covered(ToSet(run.clean))'
  <2>1. D = {j \in DOMAIN rows : ~Outranked(j) /\ Passing(rows[j])}
    BY <1>3 DEF Fetched, Queried
  <2>2. D \subseteq DOMAIN rows /\ IsFiniteSet(D)
    BY <2>1, FS_Subset DEF DataInv
  <2>3. \A i \in D : \E e \in ToSet(Deduplicate(s)) : Similar(e.p, rows[i].p) /\ e.q >= rows[i].q
    BY <2>2, PassStandsFor DEF DataInv
  <2>4. rows' = rows
    BY DEF Fetch, database
  <2> QED
    <3>1. ASSUME NEW i \in DOMAIN rows', Passing(rows'[i])
          PROVE  (\E e \in ToSet(run'.clean) : Similar(e.p, rows'[i].p) /\ e.q >= rows'[i].q) \/ Outranked(i)'
      <4>1. Outranked(i)' = Outranked(i)
        BY <2>4 DEF Outranked, Ahead
      <4> QED
        BY <1>2, <2>1, <2>3, <2>4, <3>1, <4>1
    <3> QED
      BY <3>1 DEF Covered
<1> QED
  BY <1>2, <1>3

LEMMA HeldOutIsOfThem ==
  ASSUME NEW s
  PROVE  HeldOut(s) \subseteq ToSet(s)
BY DEF HeldOut, ToSet

\* No row that is committed later helps one that is outranked.
LEMMA CommitKeepsOutranked ==
  ASSUME DataInv, NEW i \in Ids, Commit(i), NEW j \in DOMAIN rows, rows'[j] = rows[j], Outranked(j)
  PROVE  Outranked(j)'
<1> DEFINE before == {k \in DOMAIN rows : Ahead(k, j)}
           after == {k \in DOMAIN rows' : Ahead(k, j)'}
<1>1. DOMAIN rows' = DOMAIN rows \cup {i} /\ i \notin DOMAIN rows /\ \A k \in DOMAIN rows : rows'[k] = rows[k]
  BY DEF Commit, DataInv, Pending
<1>2. before \subseteq after
  BY <1>1 DEF Ahead
<1>3. IsFiniteSet(after)
  <2>1. IsFiniteSet(DOMAIN rows')
    BY <1>1, FS_AddElement DEF DataInv
  <2> QED
    BY <2>1, FS_Subset
<1> HIDE DEF before, after
<1>4. Cardinality(before) <= Cardinality(after) /\ IsFiniteSet(before)
  BY <1>2, <1>3, FS_Subset
<1>5. Cardinality(before) \in Nat /\ Cardinality(after) \in Nat
  BY <1>3, <1>4, FS_CardinalityType
<1>6. Cardinality(before) >= Limit /\ Limit \in Nat
  BY LearningAssumption DEF before, Outranked
<1>7. Cardinality(after) >= Limit
  BY <1>4, <1>5, <1>6
<1> QED
  BY <1>7 DEF after, Outranked

\* A row that is committed beside a run does not count against it.
LEMMA CommitKeepsCovered ==
  ASSUME DataInv, NEW i \in Ids, Commit(i)
  PROVE  DataInv'
<1>1. DOMAIN rows' = DOMAIN rows \cup {i} /\ rows'[i] = stamped[i]
      /\ \A j \in DOMAIN rows : j # i => rows'[j] = rows[j]
  BY DEF Commit
<1>2. IsFiniteSet(DOMAIN rows') /\ KindsOf(rows')
  <2>1. IsFiniteSet(DOMAIN rows \cup {i})
    BY FS_AddElement DEF DataInv
  <2> QED
    BY <1>1, <2>1 DEF DataInv, KindsOf, Commit
<1>3. KindsOf(stamped') /\ Pending'
  BY DEF DataInv, KindsOf, Commit, Pending
<1>4. CASE At("idle")
  BY <1>2, <1>3, <1>4 DEF DataInv, Commit, At, RunShape, FirstPass
<1>5. CASE ~At("idle")
  <2>1. /\ RunShape' /\ run'.pc = run.pc /\ run'.strategy = run.strategy /\ run'.clean = run.clean
        /\ run'.pass = run.pass /\ run'.prevOut = run.prevOut /\ run'.since = run.since \cup {i}
    BY <1>5 DEF DataInv, Commit, RunShape
  <2>2. ASSUME NEW E, Covered(E), NEW j \in DOMAIN rows' \ run'.since, Passing(rows'[j])
        PROVE  (\E e \in E : Similar(e.p, rows'[j].p) /\ e.q >= rows'[j].q) \/ Outranked(j)'
    <3>1. j \in DOMAIN rows \ run.since /\ rows'[j] = rows[j]
      BY <1>1, <2>1, <2>2
    <3> QED
      BY <2>2, <3>1, CommitKeepsOutranked DEF Covered
  <2>3. train' = train /\ val' = val
    BY DEF Commit, files
  <2>4. Covered(ToSet(run.clean)) => Covered(ToSet(run.clean))'
    BY <2>1, <2>2 DEF Covered
  <2>5. Covered(train \cup val) => Covered(train \cup val)'
    BY <2>2, <2>3 DEF Covered
  <2> QED
    BY <1>2, <1>3, <2>1, <2>3, <2>4, <2>5 DEF DataInv, At, FirstPass
<1> QED
  BY <1>4, <1>5

LEMMA DataNext ==
  ASSUME DataInv, [Next]_vars
  PROVE  DataInv'
<1> DEFINE Exported == {"write_val", "log", "check"}
<1>1. ASSUME UNCHANGED <<rows, stamped>>
      PROVE  IsFiniteSet(DOMAIN rows') /\ KindsOf(rows') /\ KindsOf(stamped') /\ Pending'
  BY <1>1 DEF DataInv, KindsOf, Pending
<1>2. ASSUME UNCHANGED rows, run'.since = run.since
      PROVE  /\ Covered(ToSet(run.clean)) /\ run'.clean = run.clean => Covered(ToSet(run.clean))'
             /\ Covered(train \cup val) /\ train' \cup val' = train \cup val => Covered(train \cup val)'
  BY <1>2 DEF Covered, Outranked, Ahead
<1>3. ASSUME UNCHANGED <<rows, stamped, train, val>>, RunShape', run'.pc \in {run.pc, "name"},
             run'.strategy = run.strategy, run'.clean = run.clean, run'.pass = run.pass,
             run'.prevOut = run.prevOut, run'.since = run.since, ~At("idle") \/ run' = run
      PROVE  DataInv'
  BY <1>1, <1>2, <1>3 DEF DataInv, At, FirstPass
<1>4. ASSUME UNCHANGED <<rows, stamped>>, run' = Idle
      PROVE  DataInv'
  BY <1>1, <1>4 DEF DataInv, RunShape, Idle, At
<1>5. CASE UNCHANGED vars
  BY <1>3, <1>5 DEF vars, DataInv, RunShape, At
<1>6. ASSUME NEW i \in Ids, NEW k \in Kinds, Stamp(i, k)
      PROVE  DataInv'
  <2>1. KindsOf(stamped') /\ Pending' /\ UNCHANGED <<rows, train, val, run>>
    BY <1>6 DEF Stamp, DataInv, KindsOf, files, Pending
  <2> QED
    BY <1>2, <2>1 DEF DataInv, RunShape, At, FirstPass
<1>7. ASSUME NEW i \in Ids, Commit(i)
      PROVE  DataInv'
  BY <1>7, CommitKeepsCovered
<1>8. ASSUME NEW c \in Commands, Start(c[1], c[2])
      PROVE  DataInv'
  <2>1. RunShape' /\ run'.pc = "fetch" /\ run'.pass = 1 /\ run'.prevOut = -1
    BY <1>8 DEF Start, RunShape, Idle
  <2> QED
    BY <1>1, <1>8, <2>1 DEF Start, DataInv, FirstPass, At, database
<1>9. CASE Fetch
  <2>1. UNCHANGED <<rows, stamped>> /\ ~At("idle")
    BY <1>9 DEF Fetch, database, At
  <2> QED
    BY <1>1, <1>9, <2>1, FetchCovers DEF DataInv, FirstPass, At
<1>10. CASE WriteTrain
  <2>1. /\ RunShape' /\ run'.pc = "write_val" /\ run'.strategy = run.strategy /\ run'.clean = run.clean
        /\ run'.pass = run.pass /\ run'.prevOut = run.prevOut /\ run'.since = run.since
    BY <1>10 DEF WriteTrain, DataInv, RunShape
  <2>2. UNCHANGED <<rows, stamped>> /\ train' = ToSet(run.clean) \ HeldOut(run.clean) /\ run.pc = "write_train"
    BY <1>10 DEF WriteTrain, database, At
  <2> QED
    BY <1>1, <1>2, <2>1, <2>2 DEF DataInv, FirstPass, At
<1>11. CASE WriteVal
  <2>1. /\ RunShape' /\ run'.pc = "log" /\ run'.strategy = run.strategy /\ run'.clean = run.clean
        /\ run'.pass = run.pass /\ run'.prevOut = run.prevOut /\ run'.since = run.since
    BY <1>11 DEF WriteVal, DataInv, RunShape
  <2>2. UNCHANGED <<rows, stamped, train>> /\ val' = HeldOut(run.clean) /\ run.pc = "write_val"
    BY <1>11 DEF WriteVal, database, At
  <2> QED
    BY <1>1, <1>2, <2>1, <2>2 DEF DataInv, FirstPass, At
<1>12. CASE LogCompaction
  <2>1. /\ RunShape' /\ run'.pc = "check" /\ run'.strategy = run.strategy /\ run'.clean = run.clean
        /\ run'.pass = run.pass /\ run'.prevOut = run.prevOut /\ run'.since = run.since
    BY <1>12 DEF LogCompaction, DataInv, RunShape
  <2>2. UNCHANGED <<rows, stamped, train, val>> /\ run.pc = "log"
    BY <1>12 DEF LogCompaction, files, At
  <2> QED
    BY <1>1, <1>2, <2>1, <2>2 DEF DataInv, FirstPass, At
<1>13. CASE CheckRetrain
  <2>1. UNCHANGED <<rows, stamped, train, val>> /\ run.pc = "check"
    BY <1>13 DEF CheckRetrain, database, files, At
  <2>2. CASE Stable(run) \/ run.pass = 5
    <3>1. RunShape' /\ run'.pc = "decide" /\ run'.strategy = run.strategy /\ run'.since = run.since
      BY <1>13, <2>2 DEF CheckRetrain, DataInv, RunShape
    <3>2. run.strategy = "quality_filter"
      <4>1. ~FirstPass
        BY <2>2 DEF FirstPass, Stable
      <4> QED
        BY <2>1, <4>1 DEF DataInv, At
    <3>3. Covered(ToSet(run.clean)) /\ train = ToSet(run.clean) \ HeldOut(run.clean) /\ val = HeldOut(run.clean)
      BY <2>1, <3>2 DEF DataInv
    <3>4. train \cup val = ToSet(run.clean) /\ train \cap val = {}
      BY <3>3, HeldOutIsOfThem
    <3>5. Covered(train \cup val)'
      BY <1>2, <2>1, <3>1, <3>3, <3>4
    <3> QED
      BY <1>1, <2>1, <3>1, <3>2, <3>4, <3>5 DEF DataInv, At
  <2>3. CASE ~(Stable(run) \/ run.pass = 5)
    <3>1. RunShape' /\ run'.pc = "fetch" /\ run'.strategy = "quality_filter"
      BY <1>13, <2>3 DEF CheckRetrain, DataInv, RunShape
    <3> QED
      BY <1>1, <2>1, <3>1 DEF DataInv, At
  <2> QED
    BY <2>2, <2>3
<1>14. CASE ClearSentinel \/ Launch
  <2>1. /\ RunShape' /\ run.pc \in {"decide", "launch"} /\ run'.pc \in {"launch", "training"}
        /\ run'.strategy = run.strategy /\ run'.pass = run.pass /\ run'.prevOut = run.prevOut
        /\ run'.since = run.since
    BY <1>14 DEF ClearSentinel, Launch, DataInv, RunShape, At
  <2>2. UNCHANGED <<rows, stamped, train, val>>
    BY <1>14 DEF ClearSentinel, Launch, database, files
  <2> QED
    BY <1>1, <1>2, <2>1, <2>2 DEF DataInv, FirstPass, At
<1>15. CASE TrainingEnds
  <2>1. /\ RunShape' /\ run.pc = "training" /\ run'.pc = "name" /\ run'.strategy = run.strategy
        /\ run'.clean = run.clean /\ run'.pass = run.pass /\ run'.prevOut = run.prevOut
        /\ run'.since = run.since
    BY <1>15 DEF TrainingEnds, DataInv, RunShape, At
  <2> QED
    BY <1>3, <1>15, <2>1 DEF TrainingEnds, database, files, At
<1>16. CASE NoRetrain \/ NameCheckpoint \/ TrainingFails \/ Crash
  BY <1>4, <1>16 DEF NoRetrain, NameCheckpoint, TrainingFails, Crash, database
<1> QED
  BY <1>5, <1>6, <1>7, <1>8, <1>9, <1>10, <1>11, <1>12, <1>13, <1>14, <1>15, <1>16 DEF Next, LearnerStep

\* At every point of a run, what is exported or about to be stands for the database as the
\* run found it and as far as a query returns it, once a pass has read all of that.
THEOREM DataInvHolds == Spec => []DataInv
<1>1. Init => DataInv
  <2> SUFFICES ASSUME Init PROVE DataInv
    OBVIOUS
  <2>1. RunShape /\ run.pc = "idle"
    BY DEF Init, RunShape, Idle
  <2>2. DOMAIN rows = {} /\ DOMAIN stamped = {}
    BY DEF Init, Nothing
  <2> QED
    BY <2>1, <2>2, FS_EmptySet DEF DataInv, KindsOf, At, Pending
<1>2. DataInv /\ [Next]_vars => DataInv'
  BY DataNext
<1> QED
  BY <1>1, <1>2, PTL DEF Spec

\* No training misses a row that passes the filters without a better one near it, unless
\* as many rows as a query returns are ahead of it, and none reads a row that it is
\* validated with (compact_recursive, _fetch, query).
THEOREM AlwaysTrainedOnTheDatabase == Spec => []TrainedOnTheDatabase
<1>1. DataInv => TrainedOnTheDatabase
  BY DEF DataInv, TrainedOnTheDatabase, At, Missing, Represented, Covered
<1> QED
  BY <1>1, DataInvHolds, PTL

---------------------------------------------------------------------------
(* Decoding: texts and their prefixes. *)

AsciiSigns == {"-", ">"}
Signs == {" ", ArrowSign, "["} \cup AsciiSigns
Char == Characters \cup Signs
Nil == <<>>


Bracket == <<" ", "[">>

\* A prefix, character by character.
LEMMA PrefixIs ==
  ASSUME NEW s \in Seq(Char), NEW t \in Seq(Char)
  PROVE  IsPrefix(s, t) <=> Len(s) <= Len(t) /\ \A i \in 1..Len(s) : s[i] = t[i]
<1>1. Len(s) \in Nat /\ Len(t) \in Nat
  OBVIOUS
<1>2. SubSeq(s, 1, Len(s)) = s
  OBVIOUS
<1>3. ASSUME Len(s) <= Len(t)
      PROVE  SubSeq(t, 1, Len(s)) = [i \in 1..Len(s) |-> t[i]]
  BY <1>1, <1>3
<1>4. s = [i \in 1..Len(s) |-> s[i]]
  OBVIOUS
<1> QED
  BY <1>1, <1>2, <1>3, <1>4 DEF IsPrefix

LEMMA TextsJoined ==
  ASSUME NEW x \in Seq(Char), NEW y \in Seq(Char)
  PROVE  /\ x \o y \in Seq(Char) /\ Len(x \o y) = Len(x) + Len(y)
         /\ \A i \in 1..(Len(x) + Len(y)) : (x \o y)[i] = IF i <= Len(x) THEN x[i] ELSE y[i - Len(x)]
OBVIOUS

LEMMA SameText ==
  ASSUME NEW s \in Seq(Char), NEW t \in Seq(Char), Len(s) = Len(t), \A i \in 1..Len(s) : s[i] = t[i]
  PROVE  s = t
OBVIOUS

\* A token of one character behind a text.
LEMMA OneMore ==
  ASSUME NEW s \in Seq(Char), NEW t \in Seq(Char), Len(t) = 1
  PROVE  /\ s \o t \in Seq(Char) /\ Len(s \o t) = Len(s) + 1 /\ Len(s) \in Nat
         /\ (s \o t)[Len(s) + 1] = t[1] /\ \A i \in 1..Len(s) : (s \o t)[i] = s[i]
<1>1. Len(s) \in Nat /\ Len(s) + 1 \in 1..(Len(s) + 1) /\ (Len(s) + 1) - Len(s) = 1 /\ ~(Len(s) + 1 <= Len(s))
  OBVIOUS
<1>2. \A i \in 1..Len(s) : i \in 1..(Len(s) + 1) /\ i <= Len(s)
  BY <1>1
<1> DEFINE n == Len(t)
<1>3. /\ s \o t \in Seq(Char) /\ Len(s \o t) = Len(s) + n
      /\ \A i \in 1..(Len(s) + n) : (s \o t)[i] = IF i <= Len(s) THEN s[i] ELSE t[i - Len(s)]
  BY TextsJoined, Zenon
<1>4. n = 1
  OBVIOUS
<1> HIDE DEF n
<1> QED
  BY <1>1, <1>2, <1>3, <1>4

LEMMA RestIs ==
  ASSUME NEW s \in Seq(Char), NEW t \in Seq(Char), IsPrefix(s, t)
  PROVE  /\ Rest(t, s) \in Seq(Char) /\ Len(Rest(t, s)) = Len(t) - Len(s)
         /\ \A i \in 1..(Len(t) - Len(s)) : Rest(t, s)[i] = t[i + Len(s)]
<1>1. Len(s) \in Nat /\ Len(t) \in Nat /\ Len(s) <= Len(t)
  BY PrefixIs
<1>2. Rest(t, s) = SubSeq(t, Len(s) + 1, Len(t))
  BY DEF Rest
<1> QED
  BY <1>1, <1>2

\* When one more character is there: what is a prefix, and what the text is a prefix of.
LEMMA LongerText ==
  ASSUME NEW s \in Seq(Char), NEW t \in Seq(Char), Len(t) = 1, NEW w \in Seq(Char)
  PROVE  /\ IsPrefix(w, s) => IsPrefix(w, s \o t)
         /\ IsPrefix(w, s \o t) => IsPrefix(w, s) \/ IsPrefix(s \o t, w)
         /\ IsPrefix(s \o t, w) <=> IsStrictPrefix(s, w) /\ w[Len(s) + 1] = t[1]
<1>1. /\ s \o t \in Seq(Char) /\ Len(s \o t) = Len(s) + 1 /\ Len(s) \in Nat /\ Len(w) \in Nat
      /\ (s \o t)[Len(s) + 1] = t[1] /\ \A i \in 1..Len(s) : (s \o t)[i] = s[i]
  BY OneMore
<1> DEFINE st == s \o t
<1> HIDE DEF st
<1>2. /\ st \in Seq(Char) /\ Len(st) = Len(s) + 1 /\ Len(s) \in Nat /\ Len(w) \in Nat
      /\ st[Len(s) + 1] = t[1] /\ \A i \in 1..Len(s) : st[i] = s[i]
  BY <1>1 DEF st
<1>3. IsPrefix(w, s) <=> Len(w) <= Len(s) /\ \A i \in 1..Len(w) : w[i] = s[i]
  BY PrefixIs
<1>4. IsPrefix(w, st) <=> Len(w) <= Len(s) + 1 /\ \A i \in 1..Len(w) : w[i] = st[i]
  BY <1>2, PrefixIs
<1>5. IsPrefix(st, w) <=> Len(s) + 1 <= Len(w) /\ \A i \in 1..(Len(s) + 1) : st[i] = w[i]
  BY <1>2, PrefixIs
<1>6. IsPrefix(s, w) <=> Len(s) <= Len(w) /\ \A i \in 1..Len(s) : s[i] = w[i]
  BY PrefixIs
<1>7. \A i \in 1..Len(s) : i \in 1..(Len(s) + 1)
  BY <1>2
<1>8. Len(w) <= Len(s) => \A i \in 1..Len(w) : i \in 1..Len(s)
  BY <1>2
<1>9. \A i \in 1..(Len(s) + 1) : i # Len(s) + 1 => i \in 1..Len(s)
  BY <1>2
<1>10. IsPrefix(w, s) => IsPrefix(w, st)
  BY <1>2, <1>3, <1>4, <1>8
<1>11. IsPrefix(w, st) => IsPrefix(w, s) \/ IsPrefix(st, w)
  <2> SUFFICES ASSUME IsPrefix(w, st)
               PROVE  IsPrefix(w, s) \/ IsPrefix(st, w)
    OBVIOUS
  <2>1. CASE Len(w) <= Len(s)
    BY <1>2, <1>3, <1>4, <1>8, <2>1
  <2>2. CASE ~(Len(w) <= Len(s))
    <3>1. Len(w) = Len(s) + 1
      BY <1>2, <1>4, <2>2
    <3> QED
      BY <1>2, <1>4, <1>5, <3>1
  <2> QED
    BY <2>1, <2>2
<1>12. IsPrefix(st, w) => IsStrictPrefix(s, w) /\ w[Len(s) + 1] = t[1]
  <2> SUFFICES ASSUME IsPrefix(st, w)
               PROVE  IsStrictPrefix(s, w) /\ w[Len(s) + 1] = t[1]
    OBVIOUS
  <2>1. Len(s) + 1 <= Len(w) /\ Len(s) + 1 \in 1..(Len(s) + 1)
    BY <1>2, <1>5
  <2>2. s # w
    BY <1>2, <2>1
  <2> QED
    BY <1>2, <1>5, <1>6, <1>7, <2>1, <2>2 DEF IsStrictPrefix
<1>13. IsStrictPrefix(s, w) /\ w[Len(s) + 1] = t[1] => IsPrefix(st, w)
  <2> SUFFICES ASSUME IsPrefix(s, w), s # w, w[Len(s) + 1] = t[1]
               PROVE  IsPrefix(st, w)
    BY DEF IsStrictPrefix
  <2>1. Len(s) # Len(w)
    <3> SUFFICES ASSUME Len(s) = Len(w) PROVE s = w
      OBVIOUS
    <3>1. \A i \in 1..Len(w) : s[i] = w[i]
      BY <1>6
    <3> QED
      BY <3>1
  <2>2. Len(s) + 1 <= Len(w)
    BY <1>2, <1>6, <2>1
  <2> QED
    BY <1>2, <1>5, <1>6, <1>9, <2>2
<1> QED
  BY <1>10, <1>11, <1>12, <1>13 DEF st

\* Two prefixes of one text.
LEMMA PrefixesCompare ==
  ASSUME NEW v \in Seq(Char), NEW w \in Seq(Char), NEW s \in Seq(Char), IsPrefix(v, s), IsPrefix(w, s)
  PROVE  IsPrefix(v, w) \/ IsPrefix(w, v)
<1>1. Len(v) \in Nat /\ Len(w) \in Nat /\ Len(s) \in Nat
  OBVIOUS
<1>2. Len(v) <= Len(w) => \A i \in 1..Len(v) : i \in 1..Len(w)
  BY <1>1
<1>3. Len(w) <= Len(v) => \A i \in 1..Len(w) : i \in 1..Len(v)
  BY <1>1
<1>4. (\A i \in 1..Len(v) : v[i] = s[i]) /\ (\A i \in 1..Len(w) : w[i] = s[i])
  BY PrefixIs
<1> QED
  BY <1>1, <1>2, <1>3, <1>4, PrefixIs

LEMMA PrefixIsAnOrder ==
  ASSUME NEW s \in Seq(Char), NEW t \in Seq(Char)
  PROVE  /\ IsPrefix(s, s)
         /\ IsPrefix(s, t) /\ IsPrefix(t, s) => s = t
         /\ \A w \in Seq(Char) : IsPrefix(s, t) /\ IsPrefix(t, w) => IsPrefix(s, w)
<1>1. Len(s) \in Nat /\ Len(t) \in Nat
  OBVIOUS
<1>2. IsPrefix(s, s)
  BY <1>1, PrefixIs
<1>3. ASSUME IsPrefix(s, t), IsPrefix(t, s)
      PROVE  s = t
  <2>1. Len(s) = Len(t) /\ \A i \in 1..Len(s) : s[i] = t[i]
    BY <1>1, <1>3, PrefixIs
  <2> QED
    BY <2>1
<1>4. ASSUME NEW w \in Seq(Char), IsPrefix(s, t), IsPrefix(t, w)
      PROVE  IsPrefix(s, w)
  <2>1. Len(w) \in Nat /\ Len(s) <= Len(t) /\ Len(t) <= Len(w)
    BY <1>1, <1>4, PrefixIs
  <2>2. \A i \in 1..Len(s) : i \in 1..Len(t) /\ s[i] = t[i] /\ t[i] = w[i]
    BY <1>1, <1>4, <2>1, PrefixIs
  <2> QED
    BY <1>1, <2>1, <2>2, PrefixIs
<1> QED
  BY <1>2, <1>3, <1>4

\* What is left of a text when another is taken off its front.
LEMMA RestOfLonger ==
  ASSUME NEW s \in Seq(Char), NEW x \in Seq(Char), IsPrefix(x, s), NEW t \in Seq(Char), Len(t) = 1
  PROVE  Rest(s \o t, x) = Rest(s, x) \o t
<1>1. Len(s) \in Nat /\ Len(x) \in Nat /\ Len(x) <= Len(s)
  BY PrefixIs
<1> DEFINE u == s \o t
           r == Rest(s, x)
           a == Rest(u, x)
           b == r \o t
<1>2. /\ u \in Seq(Char) /\ Len(u) = Len(s) + 1 /\ u[Len(s) + 1] = t[1]
      /\ \A i \in 1..Len(s) : u[i] = s[i]
  BY OneMore
<1>3. r \in Seq(Char) /\ Len(r) = Len(s) - Len(x) /\ \A i \in 1..(Len(s) - Len(x)) : r[i] = s[i + Len(x)]
  BY RestIs
<1>4. IsPrefix(x, u)
  BY LongerText
<1> HIDE DEF u, r
<1>5. a \in Seq(Char) /\ Len(a) = Len(u) - Len(x) /\ \A i \in 1..(Len(u) - Len(x)) : a[i] = u[i + Len(x)]
  BY <1>2, <1>4, RestIs
<1>6. /\ b \in Seq(Char) /\ Len(b) = Len(r) + 1 /\ b[Len(r) + 1] = t[1]
      /\ \A i \in 1..Len(r) : b[i] = r[i]
  BY <1>3, OneMore
<1> HIDE DEF a, b
<1>7. Len(a) = Len(b) /\ Len(b) = Len(s) - Len(x) + 1
  BY <1>1, <1>2, <1>3, <1>5, <1>6
<1>8. \A i \in 1..Len(a) : a[i] = b[i]
  <2> TAKE i \in 1..Len(a)
  <2>1. CASE i = Len(s) - Len(x) + 1
    <3>1. i + Len(x) = Len(s) + 1 /\ i = Len(r) + 1 /\ i \in 1..(Len(u) - Len(x))
      BY <1>1, <1>2, <1>3, <2>1
    <3> QED
      BY <1>2, <1>5, <1>6, <3>1
  <2>2. CASE i # Len(s) - Len(x) + 1
    <3>1. i \in 1..(Len(s) - Len(x)) /\ i + Len(x) \in 1..Len(s) /\ i \in 1..(Len(u) - Len(x))
      BY <1>1, <1>2, <1>7, <2>2
    <3> QED
      BY <1>2, <1>3, <1>5, <1>6, <3>1
  <2> QED
    BY <2>1, <2>2
<1>9. a = b
  BY <1>5, <1>6, <1>7, <1>8, SameText
<1> QED
  BY <1>9 DEF u, r, a, b

LEMMA ConcatIsPrefix ==
  ASSUME NEW x \in Seq(Char), NEW y \in Seq(Char), NEW t \in Seq(Char)
  PROVE  /\ IsPrefix(x \o y, t) <=> IsPrefix(x, t) /\ IsPrefix(y, Rest(t, x))
         /\ IsPrefix(t, x \o y) <=> IsPrefix(t, x) \/ (IsPrefix(x, t) /\ IsPrefix(Rest(t, x), y))
<1> DEFINE xy == x \o y
           r == Rest(t, x)
<1>1. /\ xy \in Seq(Char) /\ Len(xy) = Len(x) + Len(y)
      /\ \A i \in 1..(Len(x) + Len(y)) : xy[i] = IF i <= Len(x) THEN x[i] ELSE y[i - Len(x)]
  OBVIOUS
<1>2. Len(x) \in Nat /\ Len(y) \in Nat /\ Len(t) \in Nat
  OBVIOUS
<1>3. \A i \in 1..Len(x) : i \in 1..(Len(x) + Len(y)) /\ i <= Len(x)
  BY <1>2
<1>4. \A i \in 1..Len(y) : i + Len(x) \in 1..(Len(x) + Len(y)) /\ ~(i + Len(x) <= Len(x)) /\ (i + Len(x)) - Len(x) = i
  BY <1>2
<1> HIDE DEF xy
<1>5. (\A i \in 1..Len(x) : xy[i] = x[i]) /\ (\A i \in 1..Len(y) : xy[i + Len(x)] = y[i])
  BY <1>1, <1>3, <1>4
<1>6. \A i \in 1..(Len(x) + Len(y)) : i \in 1..Len(x) \/ (i - Len(x) \in 1..Len(y) /\ (i - Len(x)) + Len(x) = i)
  BY <1>2
<1>7. IsPrefix(x, xy)
  BY <1>1, <1>2, <1>5, PrefixIs
<1>8. ASSUME IsPrefix(x, t)
      PROVE  (IsPrefix(xy, t) <=> IsPrefix(y, r)) /\ (IsPrefix(t, xy) <=> IsPrefix(r, y))
  <2>1. r \in Seq(Char) /\ Len(r) = Len(t) - Len(x) /\ \A i \in 1..(Len(t) - Len(x)) : r[i] = t[i + Len(x)]
    BY <1>8, RestIs
  <2>2. Len(x) <= Len(t) /\ \A i \in 1..Len(x) : x[i] = t[i]
    BY <1>8, PrefixIs
  <2> HIDE DEF r
  <2>3. IsPrefix(y, r) <=> Len(y) <= Len(t) - Len(x) /\ \A i \in 1..Len(y) : y[i] = r[i]
    BY <2>1, PrefixIs
  <2>4. IsPrefix(xy, t) <=> Len(x) + Len(y) <= Len(t) /\ \A i \in 1..(Len(x) + Len(y)) : xy[i] = t[i]
    BY <1>1, PrefixIs
  <2>5. Len(y) <= Len(t) - Len(x) <=> Len(x) + Len(y) <= Len(t)
    BY <1>2
  <2>6. ASSUME IsPrefix(y, r) PROVE IsPrefix(xy, t)
    <3>1. \A i \in 1..Len(y) : i \in 1..(Len(t) - Len(x)) /\ xy[i + Len(x)] = t[i + Len(x)]
      BY <1>2, <1>5, <2>1, <2>3, <2>6
    <3>2. \A i \in 1..(Len(x) + Len(y)) : xy[i] = t[i]
      BY <1>5, <1>6, <2>2, <3>1
    <3> QED
      BY <2>3, <2>4, <2>5, <2>6, <3>2
  <2>7. ASSUME IsPrefix(xy, t) PROVE IsPrefix(y, r)
    <3>1. \A i \in 1..Len(y) : i \in 1..(Len(t) - Len(x)) /\ xy[i + Len(x)] = t[i + Len(x)]
      BY <1>2, <1>4, <2>4, <2>5, <2>7
    <3> QED
      BY <1>5, <2>1, <2>3, <2>4, <2>5, <2>7, <3>1
  <2>8. IsPrefix(r, y) <=> Len(t) - Len(x) <= Len(y) /\ \A i \in 1..(Len(t) - Len(x)) : r[i] = y[i]
    BY <2>1, PrefixIs
  <2>9. IsPrefix(t, xy) <=> Len(t) <= Len(x) + Len(y) /\ \A i \in 1..Len(t) : t[i] = xy[i]
    BY <1>1, PrefixIs
  <2>10. Len(t) - Len(x) <= Len(y) <=> Len(t) <= Len(x) + Len(y)
    BY <1>2
  <2>11. \A i \in 1..(Len(t) - Len(x)) : i + Len(x) \in 1..Len(t)
    BY <1>2, <2>2
  <2>12. \A i \in 1..Len(t) : i \in 1..Len(x) \/ (i - Len(x) \in 1..(Len(t) - Len(x)) /\ (i - Len(x)) + Len(x) = i)
    BY <1>2, <2>2
  <2>13. Len(t) - Len(x) <= Len(y) => \A i \in 1..(Len(t) - Len(x)) : i \in 1..Len(y)
    BY <1>2, <2>2
  <2>14. ASSUME IsPrefix(r, y) PROVE IsPrefix(t, xy)
    <3>1. \A i \in 1..(Len(t) - Len(x)) : t[i + Len(x)] = xy[i + Len(x)]
      BY <1>5, <2>1, <2>8, <2>13, <2>14
    <3>2. \A i \in 1..Len(t) : t[i] = xy[i]
      BY <1>5, <2>2, <2>12, <3>1
    <3> QED
      BY <2>8, <2>9, <2>10, <2>14, <3>2
  <2>15. ASSUME IsPrefix(t, xy) PROVE IsPrefix(r, y)
    BY <1>5, <2>1, <2>8, <2>9, <2>10, <2>11, <2>13, <2>15
  <2> QED
    BY <2>6, <2>7, <2>14, <2>15
<1>9. IsPrefix(xy, t) => IsPrefix(x, t)
  BY <1>1, <1>7, PrefixIsAnOrder
<1>10. IsPrefix(t, x) => IsPrefix(t, xy)
  BY <1>1, <1>7, PrefixIsAnOrder
<1>11. IsPrefix(t, xy) => IsPrefix(t, x) \/ IsPrefix(x, t)
  BY <1>1, <1>7, PrefixesCompare
<1> QED
  BY <1>8, <1>9, <1>10, <1>11 DEF xy

LEMMA JoinedTwice ==
  ASSUME NEW x \in Seq(Char), NEW y \in Seq(Char), NEW z \in Seq(Char)
  PROVE  (x \o y) \o z = x \o (y \o z)
OBVIOUS

LEMMA Spelling ==
  /\ Arrow \in Seq(Char) /\ Len(Arrow) = 3 /\ Arrow[1] = " "
  /\ Bracket \in Seq(Char) /\ Len(Bracket) = 2 /\ Bracket[1] = " " /\ Bracket[2] = "["
BY DEF Arrow, Bracket, Char, Signs

LEMMA NilIsEmpty == Nil \in Seq(Char) /\ Len(Nil) = 0 /\ \A s \in Seq(Char) : Len(s) = 0 => s = Nil
<1>1. Nil \in Seq(Char) /\ Len(Nil) = 0
  BY DEF Nil
<1> QED
  BY <1>1, SameText

LEMMA NothingIsPrefix ==
  ASSUME NEW s \in Seq(Char)
  PROVE  /\ IsPrefix(Nil, s) /\ (IsPrefix(s, Nil) <=> s = Nil)
         /\ s # Nil <=> Len(s) # 0
<1>1. Len(s) \in Nat
  OBVIOUS
<1>2. s # Nil <=> Len(s) # 0
  BY NilIsEmpty
<1>3. IsPrefix(Nil, s)
  <2>1. 1..0 = {} /\ 0 <= Len(s)
    BY <1>1
  <2> QED
    BY <2>1, NilIsEmpty, PrefixIs
<1>4. IsPrefix(s, Nil) => s = Nil
  <2>1. IsPrefix(s, Nil) => Len(s) <= Len(Nil)
    BY NilIsEmpty, PrefixIs
  <2> QED
    BY <1>1, <1>2, <2>1, NilIsEmpty
<1>5. IsPrefix(Nil, Nil)
  BY NilIsEmpty, PrefixIsAnOrder
<1> QED
  BY <1>2, <1>3, <1>4, <1>5

LEMMA WordsAreTexts ==
  /\ \A a \in ANCHORS : a \in Seq(Char) /\ a # Nil
  /\ \A a \in ANCHORS : \A r \in ANCHOR_RELATIONS[a] : r \in Seq(Char) /\ r # Nil
  /\ \A t \in Vocabulary : t \in Seq(Char) /\ t # Nil
<1>1. Characters \subseteq Char
  BY DEF Char
<1>2. \A s \in Seq(Characters) : s \in Seq(Char)
  BY <1>1
<1> QED
  BY <1>2, DecoderAssumption DEF Words, Nil

---------------------------------------------------------------------------
(* What emit writes, part by part. *)

AfterRelation(a, r, w) ==
  IF <<a, r>> \in REQUIRED_FIELDS THEN IsPrefix(w, Bracket) \/ IsPrefix(Bracket, w) ELSE w = Nil

AfterArrow(a, v) ==
  \E r \in ANCHOR_RELATIONS[a] : IsPrefix(v, r) \/ (IsPrefix(r, v) /\ AfterRelation(a, r, Rest(v, r)))

AfterAnchor(a, u) ==
  IsPrefix(u, Arrow) \/ (IsPrefix(Arrow, u) /\ AfterArrow(a, Rest(u, Arrow)))

Begun(t) ==
  \E a \in ANCHORS : IsPrefix(t, a) \/ (IsPrefix(a, t) /\ AfterAnchor(a, Rest(t, a)))

LEMMA EmittedIsText ==
  ASSUME NEW a \in ANCHORS, NEW r \in ANCHOR_RELATIONS[a]
  PROVE  Emitted(a, r) \in Seq(Char)
<1>1. a \in Seq(Char) /\ r \in Seq(Char) /\ Arrow \in Seq(Char) /\ Bracket \in Seq(Char) /\ Nil \in Seq(Char)
  BY WordsAreTexts, Spelling, NilIsEmpty
<1> DEFINE ar == (a \o Arrow) \o r
<1>2. ar \in Seq(Char)
  <2>1. a \o Arrow \in Seq(Char)
    BY <1>1, TextsJoined
  <2> QED
    BY <1>1, <2>1, TextsJoined
<1> HIDE DEF ar
<1>3. ar \o Bracket \in Seq(Char) /\ ar \o Nil \in Seq(Char)
  BY <1>1, <1>2, TextsJoined
<1>4. Emitted(a, r) = IF <<a, r>> \in REQUIRED_FIELDS THEN ar \o Bracket ELSE ar \o Nil
  BY DEF Emitted, ar, Bracket, Nil
<1> QED
  BY <1>3, <1>4

LEMMA EmittedByParts ==
  ASSUME NEW a \in ANCHORS, NEW r \in ANCHOR_RELATIONS[a], NEW t \in Seq(Char)
  PROVE  (IsPrefix(t, Emitted(a, r)) \/ (<<a, r>> \in REQUIRED_FIELDS /\ IsPrefix(Emitted(a, r), t)))
         <=> \/ IsPrefix(t, a)
             \/ /\ IsPrefix(a, t)
                /\ \/ IsPrefix(Rest(t, a), Arrow)
                   \/ /\ IsPrefix(Arrow, Rest(t, a))
                      /\ \/ IsPrefix(Rest(Rest(t, a), Arrow), r)
                         \/ /\ IsPrefix(r, Rest(Rest(t, a), Arrow))
                            /\ AfterRelation(a, r, Rest(Rest(Rest(t, a), Arrow), r))
<1> DEFINE x == IF <<a, r>> \in REQUIRED_FIELDS THEN Bracket ELSE Nil
           u == Rest(t, a)
           v == Rest(u, Arrow)
           w == Rest(v, r)
<1>1. a \in Seq(Char) /\ r \in Seq(Char) /\ Arrow \in Seq(Char) /\ x \in Seq(Char)
  <2>1. Bracket \in Seq(Char) /\ Nil \in Seq(Char)
    BY Spelling, NilIsEmpty
  <2>2. x \in Seq(Char)
    BY <2>1
  <2> QED
    BY <2>2, WordsAreTexts, Spelling
<1>2. Emitted(a, r) = ((a \o Arrow) \o r) \o x
  BY DEF Emitted, Bracket, Nil
<1> DEFINE rx == r \o x
           arx == Arrow \o rx
<1> HIDE DEF x
<1>3. rx \in Seq(Char)
  BY <1>1, TextsJoined
<1>4. arx \in Seq(Char)
  <2> HIDE DEF rx
  <2> QED
    BY <1>1, <1>3, TextsJoined
<1>5. Emitted(a, r) = a \o arx
  <2>1. a \o Arrow \in Seq(Char)
    BY <1>1, TextsJoined
  <2>2. ((a \o Arrow) \o r) \o x = (a \o Arrow) \o rx
    BY <1>1, <2>1, JoinedTwice
  <2>3. (a \o Arrow) \o rx = a \o arx
    <3> HIDE DEF rx, arx
    <3>1. \A y \in Seq(Char), z \in Seq(Char) : (a \o y) \o z = a \o (y \o z)
      BY <1>1, JoinedTwice
    <3>2. (a \o Arrow) \o rx = a \o (Arrow \o rx)
      BY <1>1, <1>3, <3>1
    <3> QED
      BY <3>2 DEF arx
  <2> QED
    BY <1>2, <2>2, <2>3
<1>6. IsPrefix(a, t) => u \in Seq(Char)
  BY <1>1, RestIs
<1>7. IsPrefix(a, t) /\ IsPrefix(Arrow, u) => v \in Seq(Char)
  BY <1>1, <1>6, RestIs
<1>8. IsPrefix(a, t) /\ IsPrefix(Arrow, u) /\ IsPrefix(r, v) => w \in Seq(Char)
  BY <1>1, <1>7, RestIs
<1> HIDE DEF u, v, w
<1>9. /\ IsPrefix(a \o arx, t) <=> IsPrefix(a, t) /\ IsPrefix(arx, u)
      /\ IsPrefix(t, a \o arx) <=> IsPrefix(t, a) \/ (IsPrefix(a, t) /\ IsPrefix(u, arx))
  <2> HIDE DEF arx
  <2> QED
    BY <1>1, <1>4, ConcatIsPrefix DEF u
<1>10. u \in Seq(Char) =>
         /\ IsPrefix(arx, u) <=> IsPrefix(Arrow, u) /\ IsPrefix(rx, v)
         /\ IsPrefix(u, arx) <=> IsPrefix(u, Arrow) \/ (IsPrefix(Arrow, u) /\ IsPrefix(v, rx))
  <2> HIDE DEF rx
  <2> QED
    BY <1>1, <1>3, ConcatIsPrefix DEF v
<1>11. v \in Seq(Char) =>
         /\ IsPrefix(rx, v) <=> IsPrefix(r, v) /\ IsPrefix(x, w)
         /\ IsPrefix(v, rx) <=> IsPrefix(v, r) \/ (IsPrefix(r, v) /\ IsPrefix(w, x))
  BY <1>1, ConcatIsPrefix DEF w
<1>12. w \in Seq(Char) =>
         (AfterRelation(a, r, w) <=> IsPrefix(w, x) \/ (<<a, r>> \in REQUIRED_FIELDS /\ IsPrefix(x, w)))
  BY NothingIsPrefix DEF AfterRelation, x
<1> HIDE DEF rx, arx
<1>13. (IsPrefix(t, Emitted(a, r)) \/ (<<a, r>> \in REQUIRED_FIELDS /\ IsPrefix(Emitted(a, r), t)))
       <=> \/ IsPrefix(t, a)
           \/ /\ IsPrefix(a, t)
              /\ \/ IsPrefix(u, Arrow)
                 \/ /\ IsPrefix(Arrow, u)
                    /\ \/ IsPrefix(v, r)
                       \/ /\ IsPrefix(r, v)
                          /\ AfterRelation(a, r, w)
  BY <1>5, <1>6, <1>7, <1>8, <1>9, <1>10, <1>11, <1>12
<1> QED
  BY <1>13 DEF u, v, w

LEMMA LanguageOfEmit ==
  ASSUME NEW t \in Seq(Char)
  PROVE  IsPrefixOfEmitted(t) <=> Begun(t)
<1>1. IsPrefixOfEmitted(t) => Begun(t)
  <2> SUFFICES ASSUME NEW a \in ANCHORS, NEW r \in ANCHOR_RELATIONS[a],
                      IsPrefix(t, Emitted(a, r)) \/ (<<a, r>> \in REQUIRED_FIELDS /\ IsPrefix(Emitted(a, r), t))
               PROVE  Begun(t)
    BY DEF IsPrefixOfEmitted
  <2> QED
    BY EmittedByParts DEF Begun, AfterAnchor, AfterArrow
<1>2. ASSUME NEW a \in ANCHORS, IsPrefix(t, a) \/ (IsPrefix(a, t) /\ AfterAnchor(a, Rest(t, a)))
      PROVE  IsPrefixOfEmitted(t)
  <2>1. PICK r \in ANCHOR_RELATIONS[a] :
          \/ IsPrefix(t, a)
          \/ /\ IsPrefix(a, t)
             /\ \/ IsPrefix(Rest(t, a), Arrow)
                \/ /\ IsPrefix(Arrow, Rest(t, a))
                   /\ \/ IsPrefix(Rest(Rest(t, a), Arrow), r)
                      \/ /\ IsPrefix(r, Rest(Rest(t, a), Arrow))
                         /\ AfterRelation(a, r, Rest(Rest(Rest(t, a), Arrow), r))
    <3>1. PICK r \in ANCHOR_RELATIONS[a] : TRUE
      BY DecoderAssumption
    <3> QED
      BY <1>2, <3>1 DEF AfterAnchor, AfterArrow
  <2> QED
    BY <2>1, EmittedByParts DEF IsPrefixOfEmitted
<1> QED
  BY <1>1, <1>2 DEF Begun

---------------------------------------------------------------------------
(* The mask, part by part, against what emit writes. *)

Going == {"start", "in_anchor", "after_anchor", "in_arrow", "after_arrow", "in_relation", "after_relation"}

LEMMA TokensOf ==
  /\ ValidTokens(Partial("complete", {})) = {}
  /\ \A next : ValidTokens(Partial("in_fields", next)) = Vocabulary
  /\ \A next : \A state \in Going : ValidTokens(Partial(state, next)) = {t \in Vocabulary : t[1] \in next}
BY DEF ValidTokens, Partial, Going

LEMMA Continued ==
  ASSUME NEW v \in Seq(Char), NEW t \in Seq(Char), Len(t) = 1, NEW W, \A w \in W : w \in Seq(Char)
  PROVE  t[1] \in Continuations(v, W) <=> \E w \in W : IsPrefix(v \o t, w)
<1>1. \A w \in W : IsPrefix(v \o t, w) <=> IsStrictPrefix(v, w) /\ w[Len(v) + 1] = t[1]
  BY LongerText
<1> QED
  BY <1>1 DEF Continuations

\* A text that no word of W begins goes on as one of them or not at all.
LEMMA NoneYet ==
  ASSUME NEW v \in Seq(Char), NEW t \in Seq(Char), Len(t) = 1, NEW W, \A w \in W : w \in Seq(Char),
         \A w \in W : ~IsPrefix(w, v)
  PROVE  \A w \in W : IsPrefix(w, v \o t) => IsPrefix(v \o t, w)
BY LongerText

\* A text that a word of a prefix-free W begins goes on behind that word.
LEMMA OneIs ==
  ASSUME NEW v \in Seq(Char), NEW t \in Seq(Char), Len(t) = 1, NEW W, \A w \in W : w \in Seq(Char),
         PrefixFree(W), NEW w \in W, IsPrefix(w, v)
  PROVE  /\ \A x \in W : IsPrefix(x, v) \/ IsPrefix(v, x) \/ IsPrefix(x, v \o t) => x = w
         /\ \A x \in W : ~IsPrefix(v \o t, x)
<1>1. v \o t \in Seq(Char) /\ IsPrefix(w, v \o t) /\ Len(v \o t) = Len(v) + 1 /\ Len(v) \in Nat
  BY OneMore, LongerText
<1>2. ASSUME NEW x \in W, IsPrefix(x, v) \/ IsPrefix(v, x) \/ IsPrefix(x, v \o t)
      PROVE  x = w
  <2>1. IsPrefix(x, w) \/ IsPrefix(w, x)
    <3>1. w \in Seq(Char) /\ x \in Seq(Char)
      OBVIOUS
    <3>2. CASE IsPrefix(v, x)
      BY <3>1, <3>2, PrefixIsAnOrder
    <3>3. CASE IsPrefix(x, v)
      BY <3>1, <3>3, PrefixesCompare
    <3>4. CASE IsPrefix(x, v \o t)
      BY <1>1, <3>1, <3>4, PrefixesCompare
    <3> QED
      BY <1>2, <3>2, <3>3, <3>4
  <2> QED
    BY <2>1 DEF PrefixFree
<1>3. ASSUME NEW x \in W, IsPrefix(v \o t, x)
      PROVE  FALSE
  <2>1. IsPrefix(v, x) /\ v # x
    BY <1>3, LongerText DEF IsStrictPrefix
  <2>2. x = w
    BY <1>2, <2>1
  <2> QED
    BY <2>1, <2>2, PrefixIsAnOrder
<1> QED
  BY <1>2, <1>3

LEMMA Singles ==
  /\ <<" ">> \in Seq(Char) /\ Len(<<" ">>) = 1 /\ <<" ">>[1] = " "
  /\ <<"[">> \in Seq(Char) /\ Len(<<"[">>) = 1 /\ <<"[">>[1] = "["
BY DEF Char, Signs

LEMMA TokensOfOne ==
  ASSUME NEW c, NEW t \in Vocabulary, NEW state \in Going
  PROVE  t \in ValidTokens(Partial(state, {c})) <=> t[1] = c
<1>1. ValidTokens(Partial(state, {c})) = {u \in Vocabulary : u[1] \in {c}}
  BY TokensOf
<1> QED
  BY <1>1

LEMMA RelationMask ==
  ASSUME NEW a, NEW r, NEW w \in Seq(Char), AfterRelation(a, r, w), NEW t \in Vocabulary, Len(t) = 1
  PROVE  t \in ValidTokens(FieldsState(a, r, w)) <=> AfterRelation(a, r, w \o t)
<1>0. "after_relation" \in Going
  BY DEF Going
<1>1. t \in Seq(Char) /\ Bracket \in Seq(Char) /\ Len(Bracket) = 2
  BY WordsAreTexts, Spelling
<1>2. /\ w \o t \in Seq(Char) /\ Len(w \o t) = Len(w) + 1 /\ Len(w) \in Nat /\ w \o t # Nil
  BY <1>1, OneMore, NilIsEmpty
<1>3. /\ IsPrefix(Bracket, w) => IsPrefix(Bracket, w \o t)
      /\ IsPrefix(Bracket, w \o t) => IsPrefix(Bracket, w) \/ IsPrefix(w \o t, Bracket)
      /\ IsPrefix(w \o t, Bracket) <=> IsStrictPrefix(w, Bracket) /\ Bracket[Len(w) + 1] = t[1]
  BY <1>1, LongerText
<1>4. CASE <<a, r>> \notin REQUIRED_FIELDS
  <2>1. w = Nil /\ ~AfterRelation(a, r, w \o t)
    BY <1>2, <1>4 DEF AfterRelation
  <2>2. FieldsState(a, r, w) = Partial("complete", {})
    BY <1>4, <2>1 DEF FieldsState, Nil
  <2> QED
    BY <2>1, <2>2, TokensOf
<1>5. CASE <<a, r>> \in REQUIRED_FIELDS /\ w = Nil
  <2>1. FieldsState(a, r, w) = Partial("after_relation", {" "})
    BY <1>5 DEF FieldsState, Nil
  <2>2. t \in ValidTokens(FieldsState(a, r, w)) <=> t[1] = " "
    BY <2>1, <1>0, TokensOfOne
  <2>3. IsStrictPrefix(w, Bracket) /\ ~IsPrefix(Bracket, w) /\ Len(w) + 1 = 1 /\ Bracket[1] = " "
    <3>1. Len(w) = 0
      BY <1>5, NilIsEmpty
    <3> QED
      <4>1. IsPrefix(Nil, Bracket) /\ Bracket # Nil
        <5>1. IsPrefix(Nil, Bracket)
          BY <1>1, NothingIsPrefix
        <5>2. Bracket # Nil
          <6>1. Len(Bracket) = 2 /\ Len(Nil) = 0
            BY <1>1, NilIsEmpty
          <6>2. 2 # 0
            OBVIOUS
          <6> QED
            BY <6>1, <6>2
        <5> QED
          BY <5>1, <5>2
      <4>2. ~IsPrefix(Bracket, Nil)
        BY <1>1, <4>1, NothingIsPrefix
      <4> QED
        <5>1. Len(w) + 1 = 1
          BY <3>1
        <5>2. IsStrictPrefix(Nil, Bracket)
          BY <4>1, Zenon DEF IsStrictPrefix
        <5> QED
          BY <1>5, <4>2, <5>1, <5>2, Spelling
  <2> QED
    BY <1>3, <1>5, <2>2, <2>3 DEF AfterRelation
<1>6. CASE <<a, r>> \in REQUIRED_FIELDS /\ IsPrefix(Bracket, w)
  <2>1. w # Nil
    <3>1. Len(w) >= 2
      BY <1>1, <1>2, <1>6, PrefixIs
    <3> QED
      BY <3>1, NilIsEmpty
  <2>2. FieldsState(a, r, w) = Partial("in_fields", AnyCharacter)
    BY <1>6, <2>1 DEF FieldsState, Nil, Bracket
  <2> QED
    BY <1>3, <1>6, <2>2, TokensOf DEF AfterRelation
<1>7. CASE <<a, r>> \in REQUIRED_FIELDS /\ w # Nil /\ ~IsPrefix(Bracket, w)
  <2>1. IsPrefix(w, Bracket)
    BY <1>7 DEF AfterRelation
  <2>2. Len(w) = 1 /\ w[1] = " "
    <3>1. Len(w) <= 2 /\ (\A i \in 1..Len(w) : w[i] = Bracket[i]) /\ Len(w) # 0
      BY <1>1, <1>7, <2>1, PrefixIs, NothingIsPrefix
    <3>2. Len(w) # 2
      <4> SUFFICES ASSUME Len(w) = 2 PROVE FALSE
        OBVIOUS
      <4>1. w = Bracket
        BY <1>1, <3>1, SameText
      <4> QED
        BY <1>1, <1>7, <4>1, PrefixIsAnOrder
    <3> QED
      <4>1. Len(w) = 1 /\ 1 \in 1..1
        <5>1. Len(w) \in Nat
          OBVIOUS
        <5>2. Len(w) <= 2 /\ Len(w) # 0 /\ Len(w) # 2
          BY <3>1, <3>2
        <5>3. \A n \in Nat : n <= 2 /\ n # 0 /\ n # 2 => n = 1
          OBVIOUS
        <5>4. 1 \in 1..1
          OBVIOUS
        <5> QED
          BY <5>1, <5>2, <5>3, <5>4
      <4> QED
        BY <3>1, <4>1, Spelling
  <2>3. w = <<" ">>
    <3> DEFINE blank == <<" ">>
    <3>1. blank \in Seq(Char) /\ Len(blank) = 1 /\ blank[1] = " "
      BY Singles
    <3> HIDE DEF blank
    <3>2. \A i \in 1..1 : i = 1
      OBVIOUS
    <3>3. w = blank
      BY <2>2, <3>1, <3>2, SameText
    <3> QED
      BY <3>3 DEF blank
  <2>4. ~IsPrefix(<<"[">>, w)
    <3>1. w[1] # "["
      BY <2>2
    <3>2. 1 \in 1..1
      OBVIOUS
    <3> QED
      BY <2>2, <3>1, <3>2, Singles, PrefixIs
  <2>5. FieldsState(a, r, w) = Partial("after_relation", {"["})
    BY <1>7, <2>3, <2>4 DEF FieldsState, Nil, Bracket
  <2>6. t \in ValidTokens(FieldsState(a, r, w)) <=> t[1] = "["
    BY <2>5, <1>0, TokensOfOne
  <2>7. IsStrictPrefix(w, Bracket) /\ Bracket[Len(w) + 1] = "["
    <3>1. w # Bracket /\ Len(w) + 1 = 2
      <4>1. 1 # 2 /\ 1 + 1 = 2
        OBVIOUS
      <4> QED
        BY <1>1, <2>2, <4>1
    <3> QED
      BY <2>1, <3>1, Spelling DEF IsStrictPrefix
  <2> QED
    BY <1>3, <1>7, <2>6, <2>7 DEF AfterRelation
<1> QED
  BY <1>4, <1>5, <1>6, <1>7 DEF AfterRelation

LEMMA ArrowMask ==
  ASSUME NEW a \in ANCHORS, NEW v \in Seq(Char), AfterArrow(a, v), NEW t \in Vocabulary, Len(t) = 1
  PROVE  t \in ValidTokens(RelationState(a, v)) <=> AfterArrow(a, v \o t)
<1> DEFINE R == ANCHOR_RELATIONS[a]
<1>1. /\ t \in Seq(Char) /\ PrefixFree(R)
      /\ \A r \in R : r \in Seq(Char) /\ r # Nil
  BY WordsAreTexts, DecoderAssumption
<1>2. CASE \A r \in R : ~IsPrefix(r, v)
  <2>1. AfterArrow(a, v \o t) <=> \E r \in R : IsPrefix(v \o t, r)
    BY <1>1, <1>2, NoneYet DEF AfterArrow
  <2>2. \E state \in Going : RelationState(a, v) = Partial(state, Continuations(v, R))
    <3>1. \E r \in R : IsPrefix(v, r)
      BY <1>2 DEF AfterArrow
    <3>2. {r \in R : IsPrefix(r, v)} = {}
      BY <1>2
    <3>3. RelationState(a, v) = IF v = Nil THEN Partial("after_arrow", Continuations(v, R))
                                ELSE Partial("in_relation", Continuations(v, R))
      BY <3>1, <3>2 DEF RelationState, Nil
    <3>4. "after_arrow" \in Going /\ "in_relation" \in Going
      BY DEF Going
    <3> QED
      BY <3>3, <3>4
  <2>3. t \in ValidTokens(RelationState(a, v)) <=> t[1] \in Continuations(v, R)
    BY <2>2, TokensOf
  <2> QED
    BY <1>1, <2>1, <2>3, Continued
<1>3. CASE \E r \in R : IsPrefix(r, v)
  <2>1. PICK r \in R : IsPrefix(r, v)
    BY <1>3
  <2>2. /\ \A x \in R : IsPrefix(x, v) \/ IsPrefix(v, x) \/ IsPrefix(x, v \o t) => x = r
        /\ \A x \in R : ~IsPrefix(v \o t, x)
    BY <1>1, <2>1, OneIs
  <2> DEFINE w == Rest(v, r)
  <2>3. w \in Seq(Char)
    BY <1>1, <2>1, RestIs
  <2>4. RelationState(a, v) = FieldsState(a, r, w)
    <3>1. v # Nil
      BY <1>1, <2>1, NothingIsPrefix
    <3>2. {x \in R : IsPrefix(x, v)} = {r}
      BY <2>1, <2>2
    <3>3. (CHOOSE x \in {r} : TRUE) = r
      OBVIOUS
    <3> QED
      BY <3>1, <3>2, <3>3 DEF RelationState, Nil
  <2>5. AfterRelation(a, r, w)
    <3>1. PICK x \in R : IsPrefix(v, x) \/ (IsPrefix(x, v) /\ AfterRelation(a, x, Rest(v, x)))
      BY DEF AfterArrow
    <3>2. x = r
      BY <2>2, <3>1
    <3>3. CASE IsPrefix(v, x)
      <4>1. v = r
        BY <1>1, <2>1, <3>2, <3>3, PrefixIsAnOrder
      <4>2. w = Nil
        <5>1. Len(w) = Len(v) - Len(r) /\ Len(r) \in Nat
          BY <1>1, <2>1, RestIs
        <5>2. Len(w) = 0
          BY <4>1, <5>1
        <5> QED
          BY <2>3, <5>2, NilIsEmpty
      <4> QED
        BY <4>2, Spelling, NothingIsPrefix DEF AfterRelation
    <3> QED
      BY <3>1, <3>2, <3>3
  <2>6. AfterArrow(a, v \o t) <=> AfterRelation(a, r, Rest(v \o t, r))
    <3>1. IsPrefix(r, v \o t)
      BY <1>1, <2>1, LongerText
    <3> QED
      BY <2>2, <3>1 DEF AfterArrow
  <2>7. Rest(v \o t, r) = w \o t
    BY <1>1, <2>1, RestOfLonger
  <2> HIDE DEF w
  <2> QED
    BY <2>3, <2>4, <2>5, <2>6, <2>7, RelationMask
<1> QED
  BY <1>2, <1>3

LEMMA AnchorMask ==
  ASSUME NEW a \in ANCHORS, NEW u \in Seq(Char), AfterAnchor(a, u), NEW t \in Vocabulary, Len(t) = 1
  PROVE  t \in ValidTokens(ArrowState(a, u)) <=> AfterAnchor(a, u \o t)
<1>1. t \in Seq(Char) /\ Arrow \in Seq(Char) /\ Len(Arrow) = 3 /\ Arrow[1] = " " /\ Arrow # Nil
  <2>1. Arrow # Nil
    <3>1. Len(Arrow) = 3 /\ Len(Nil) = 0
      BY Spelling, NilIsEmpty
    <3>2. 3 # 0
      OBVIOUS
    <3> QED
      BY <3>1, <3>2
  <2>2. t \in Seq(Char)
    BY WordsAreTexts
  <2> QED
    BY <2>1, <2>2, Spelling
<1>2. /\ IsPrefix(Arrow, u) => IsPrefix(Arrow, u \o t)
      /\ IsPrefix(Arrow, u \o t) => IsPrefix(Arrow, u) \/ IsPrefix(u \o t, Arrow)
      /\ IsPrefix(u \o t, Arrow) <=> IsStrictPrefix(u, Arrow) /\ Arrow[Len(u) + 1] = t[1]
  BY <1>1, LongerText
<1>3. CASE ~IsPrefix(Arrow, u)
  <2>1. AfterAnchor(a, u \o t) <=> IsPrefix(u \o t, Arrow)
    BY <1>2, <1>3 DEF AfterAnchor
  <2>2. IsPrefix(u, Arrow) /\ u # Arrow
    BY <1>1, <1>3, PrefixIsAnOrder DEF AfterAnchor
  <2>3. CASE u = Nil
    <3>1. ArrowState(a, u) = Partial("after_anchor", {" "})
      BY <2>3 DEF ArrowState, Nil
    <3>2. "after_anchor" \in Going
      BY DEF Going
    <3>3. t \in ValidTokens(ArrowState(a, u)) <=> t[1] = " "
      BY <3>1, <3>2, TokensOfOne
    <3>4. Len(u) + 1 = 1
      <4>1. Len(u) = 0
        BY <2>3, NilIsEmpty
      <4> QED
        BY <4>1
    <3> QED
      BY <1>1, <1>2, <2>1, <2>2, <3>3, <3>4 DEF IsStrictPrefix
  <2>4. CASE u # Nil
    <3>1. ArrowState(a, u) = Partial("in_arrow", Continuations(u, {Arrow}))
      BY <1>3, <2>2, <2>4 DEF ArrowState, Nil
    <3>2. "in_arrow" \in Going
      BY DEF Going
    <3>3. t \in ValidTokens(ArrowState(a, u)) <=> t[1] \in Continuations(u, {Arrow})
      BY <3>1, <3>2, TokensOf
    <3>4. t[1] \in Continuations(u, {Arrow}) <=> IsPrefix(u \o t, Arrow)
      <4>1. \A w \in {Arrow} : w \in Seq(Char)
        BY <1>1
      <4> DEFINE W == {Arrow}
      <4> HIDE DEF W
      <4>2. \A w \in W : w \in Seq(Char)
        BY <4>1 DEF W
      <4>3. t[1] \in Continuations(u, W) <=> \E w \in W : IsPrefix(u \o t, w)
        BY <1>1, <4>2, Continued
      <4> QED
        BY <4>3 DEF W
    <3> QED
      BY <2>1, <3>3, <3>4
  <2> QED
    BY <2>3, <2>4
<1>4. CASE IsPrefix(Arrow, u)
  <2> DEFINE v == Rest(u, Arrow)
  <2>1. v \in Seq(Char) /\ Rest(u \o t, Arrow) = v \o t
    BY <1>1, <1>4, RestIs, RestOfLonger
  <2>2. u # Nil
    BY <1>1, <1>4, NothingIsPrefix
  <2>3. ArrowState(a, u) = RelationState(a, v)
    BY <1>4, <2>2 DEF ArrowState, Nil
  <2>4. AfterArrow(a, v)
    <3>1. CASE IsPrefix(u, Arrow)
      <4>1. u = Arrow
        BY <1>1, <1>4, <3>1, PrefixIsAnOrder
      <4>2. Len(v) = Len(u) - Len(Arrow)
        BY <1>1, <1>4, RestIs
      <4>3. Len(v) = 0
        <5>1. 3 - 3 = 0
          OBVIOUS
        <5>2. Len(u) = 3 /\ Len(Arrow) = 3
          BY <1>1, <4>1
        <5> QED
          BY <4>2, <5>1, <5>2
      <4>4. v = Nil
        BY <2>1, <4>3, NilIsEmpty
      <4>5. \E r \in ANCHOR_RELATIONS[a] : r \in Seq(Char)
        BY WordsAreTexts, DecoderAssumption
      <4> QED
        BY <4>4, <4>5, NothingIsPrefix DEF AfterArrow
    <3> QED
      BY <3>1 DEF AfterAnchor
  <2>5. AfterAnchor(a, u \o t) <=> AfterArrow(a, v \o t)
    <3>1. ~IsPrefix(u \o t, Arrow)
      BY <1>1, <1>2, <1>4, PrefixIsAnOrder DEF IsStrictPrefix
    <3> QED
      BY <1>2, <1>4, <2>1, <3>1 DEF AfterAnchor
  <2> HIDE DEF v
  <2> QED
    BY <2>1, <2>3, <2>4, <2>5, ArrowMask
<1> QED
  BY <1>3, <1>4

\* A text that begins with the sign of an anchor has no blank to strip.
LEMMA NothingToStrip ==
  ASSUME NEW s \in Seq(Char), s = Nil \/ s[1] = "@"
  PROVE  Stripped(s) = s
<1> DEFINE inked == {i \in DOMAIN s : s[i] # " "}
<1>1. DOMAIN s = 1..Len(s) /\ Len(s) \in Nat
  OBVIOUS
<1>2. CASE s = Nil
  <2>1. DOMAIN s = {}
    BY <1>1, <1>2, NilIsEmpty
  <2> QED
    BY <1>2, <2>1 DEF Stripped, Nil
<1>3. CASE s # Nil
  <2>1. Len(s) # 0
    BY <1>3, NothingIsPrefix
  <2>2. 1 \in inked /\ \A j \in inked : j \in Nat /\ 1 <= j
    <3>1. 1 \in DOMAIN s /\ \A j \in DOMAIN s : j \in Nat /\ 1 <= j
      BY <1>1, <2>1
    <3>2. s[1] = "@"
      BY <1>3
    <3>3. s[1] # " "
      BY <3>2
    <3> QED
      BY <3>1, <3>3
  <2> HIDE DEF inked
  <2>3. (CHOOSE i \in inked : \A j \in inked : i <= j) = 1
    <3> DEFINE least == CHOOSE i \in inked : \A j \in inked : i <= j
    <3>1. least \in inked /\ \A j \in inked : least <= j
      BY <2>2
    <3> HIDE DEF least
    <3>2. least = 1
      BY <2>2, <3>1
    <3> QED
      BY <3>2 DEF least
  <2>4. Stripped(s) = SubSeq(s, 1, Len(s))
    BY <2>2, <2>3 DEF Stripped, inked
  <2> QED
    BY <2>4
<1> QED
  BY <1>2, <1>3

LEMMA Mask ==
  ASSUME NEW s \in Seq(Char), Begun(s), NEW t \in Vocabulary, Len(t) = 1
  PROVE  t \in ValidTokens(Compute(s)) <=> Begun(s \o t)
<1>1. /\ t \in Seq(Char) /\ PrefixFree(ANCHORS) /\ ANCHORS # {}
      /\ \A a \in ANCHORS : a \in Seq(Char) /\ a # Nil /\ a[1] = "@" /\ Len(a) \in Nat /\ Len(a) # 0
  BY WordsAreTexts, DecoderAssumption, NothingIsPrefix
<1>2. s = Nil \/ s[1] = "@"
  <2> SUFFICES ASSUME s # Nil PROVE s[1] = "@"
    OBVIOUS
  <2>1. Len(s) \in Nat /\ Len(s) # 0
    BY NothingIsPrefix
  <2>2. PICK a \in ANCHORS : IsPrefix(s, a) \/ IsPrefix(a, s)
    BY DEF Begun
  <2>3. 1 \in 1..Len(s) /\ 1 \in 1..Len(a)
    BY <1>1, <2>1
  <2> QED
    BY <1>1, <2>2, <2>3, PrefixIs
<1>3. Stripped(s) = s
  BY <1>2, NothingToStrip
<1>4. CASE \A a \in ANCHORS : ~IsPrefix(a, s)
  <2>1. Begun(s \o t) <=> \E a \in ANCHORS : IsPrefix(s \o t, a)
    BY <1>1, <1>4, NoneYet DEF Begun
  <2>2. {a \in ANCHORS : IsPrefix(a, s)} = {}
    BY <1>4
  <2>3. t[1] \in Continuations(s, ANCHORS) <=> Begun(s \o t)
    BY <1>1, <2>1, Continued
  <2>4. CASE s = Nil
    <3>1. Compute(s) = Partial("start", {"@"})
      BY <1>3, <2>4 DEF Compute, Nil
    <3>2. "start" \in Going
      BY DEF Going
    <3>3. t \in ValidTokens(Compute(s)) <=> t[1] = "@"
      BY <3>1, <3>2, TokensOfOne
    <3>4. Continuations(s, ANCHORS) = {"@"}
      <4>1. Len(s) + 1 = 1
        <5>1. Len(s) = 0
          BY <2>4, NilIsEmpty
        <5> QED
          BY <5>1
      <4>2. \A a \in ANCHORS : IsStrictPrefix(s, a)
        BY <1>1, <2>4, NothingIsPrefix DEF IsStrictPrefix
      <4>3. {a \in ANCHORS : IsStrictPrefix(s, a)} = ANCHORS
        BY <4>2
      <4>4. Continuations(s, ANCHORS) = {a[1] : a \in ANCHORS}
        BY <4>1, <4>3 DEF Continuations
      <4> QED
        BY <1>1, <4>4
    <3> QED
      BY <2>3, <3>3, <3>4
  <2>5. CASE s # Nil
    <3>1. \E a \in ANCHORS : IsPrefix(s, a)
      BY <1>4 DEF Begun
    <3>2. Compute(s) = Partial("in_anchor", Continuations(s, ANCHORS))
      BY <1>3, <2>2, <2>5, <3>1 DEF Compute, Nil
    <3>3. "in_anchor" \in Going
      BY DEF Going
    <3>4. t \in ValidTokens(Compute(s)) <=> t[1] \in Continuations(s, ANCHORS)
      BY <3>2, <3>3, TokensOf
    <3> QED
      BY <2>3, <3>4
  <2> QED
    BY <2>4, <2>5
<1>5. CASE \E a \in ANCHORS : IsPrefix(a, s)
  <2>1. PICK a \in ANCHORS : IsPrefix(a, s)
    BY <1>5
  <2>2. /\ \A x \in ANCHORS : IsPrefix(x, s) \/ IsPrefix(s, x) \/ IsPrefix(x, s \o t) => x = a
        /\ \A x \in ANCHORS : ~IsPrefix(s \o t, x)
    BY <1>1, <2>1, OneIs
  <2> DEFINE u == Rest(s, a)
  <2>3. u \in Seq(Char) /\ Rest(s \o t, a) = u \o t
    BY <1>1, <2>1, RestIs, RestOfLonger
  <2>4. Compute(s) = ArrowState(a, u)
    <3>1. s # Nil
      BY <1>1, <2>1, NothingIsPrefix
    <3>2. {x \in ANCHORS : IsPrefix(x, s)} = {a}
      BY <2>1, <2>2
    <3>3. (CHOOSE x \in {a} : TRUE) = a
      OBVIOUS
    <3> QED
      BY <1>3, <3>1, <3>2, <3>3 DEF Compute, Nil
  <2>5. AfterAnchor(a, u)
    <3>1. PICK x \in ANCHORS : IsPrefix(s, x) \/ (IsPrefix(x, s) /\ AfterAnchor(x, Rest(s, x)))
      BY DEF Begun
    <3>2. x = a
      BY <2>2, <3>1
    <3>3. CASE IsPrefix(s, x)
      <4>1. s = a
        BY <1>1, <2>1, <3>2, <3>3, PrefixIsAnOrder
      <4>2. Len(u) = Len(s) - Len(a)
        BY <1>1, <2>1, RestIs
      <4>3. Len(u) = 0
        BY <1>1, <4>1, <4>2
      <4>4. u = Nil
        BY <2>3, <4>3, NilIsEmpty
      <4> QED
        BY <4>4, Spelling, NothingIsPrefix DEF AfterAnchor
    <3> QED
      BY <3>1, <3>2, <3>3
  <2>6. Begun(s \o t) <=> AfterAnchor(a, u \o t)
    <3>1. IsPrefix(a, s \o t)
      BY <1>1, <2>1, LongerText
    <3> QED
      BY <2>2, <2>3, <3>1 DEF Begun
  <2> HIDE DEF u
  <2> QED
    BY <2>3, <2>4, <2>5, <2>6, AnchorMask
<1> QED
  BY <1>4, <1>5

---------------------------------------------------------------------------
(* The mask against what the parser reads.  Here a text may be any text     *)
(* without a closing bracket: what the mask admits does the rest.          *)

Open(s) == \A i \in 1..Len(s) : s[i] # "]"

LEMMA RestIsOpen ==
  ASSUME NEW s \in Seq(Char), NEW x \in Seq(Char), IsPrefix(x, s), Open(s)
  PROVE  Rest(s, x) \in Seq(Char) /\ Open(Rest(s, x))
<1> DEFINE r == Rest(s, x)
<1>1. /\ r \in Seq(Char) /\ Len(r) = Len(s) - Len(x) /\ \A i \in 1..(Len(s) - Len(x)) : r[i] = s[i + Len(x)]
  BY RestIs
<1>2. Len(s) \in Nat /\ Len(x) \in Nat
  OBVIOUS
<1> HIDE DEF r
<1>3. \A i \in 1..(Len(s) - Len(x)) : i + Len(x) \in 1..Len(s)
  BY <1>2
<1>4. Open(r)
  BY <1>1, <1>3 DEF Open
<1> QED
  BY <1>1, <1>4 DEF r

LEMMA RestTwice ==
  ASSUME NEW x \in Seq(Char), NEW y \in Seq(Char), NEW t \in Seq(Char), IsPrefix(x \o y, t)
  PROVE  Rest(t, x \o y) = Rest(Rest(t, x), y)
<1> DEFINE xy == x \o y
           r == Rest(t, x)
<1>1. xy \in Seq(Char) /\ Len(xy) = Len(x) + Len(y) /\ Len(x) \in Nat /\ Len(y) \in Nat /\ Len(t) \in Nat
  BY TextsJoined
<1>2. IsPrefix(x, t) /\ IsPrefix(y, r)
  BY ConcatIsPrefix
<1>3. r \in Seq(Char) /\ Len(r) = Len(t) - Len(x) /\ \A i \in 1..(Len(t) - Len(x)) : r[i] = t[i + Len(x)]
  BY <1>2, RestIs
<1> DEFINE p == Rest(t, xy)
           q == Rest(r, y)
<1> HIDE DEF r, xy
<1>4. /\ q \in Seq(Char) /\ Len(q) = Len(r) - Len(y) /\ \A i \in 1..(Len(r) - Len(y)) : q[i] = r[i + Len(y)]
  BY <1>2, <1>3, RestIs
<1>5. /\ p \in Seq(Char) /\ Len(p) = Len(t) - Len(xy) /\ \A i \in 1..(Len(t) - Len(xy)) : p[i] = t[i + Len(xy)]
  BY <1>1, RestIs DEF xy
<1> HIDE DEF p, q
<1>6. Len(p) = Len(q) /\ Len(q) = (Len(t) - Len(x)) - Len(y)
  BY <1>1, <1>3, <1>4, <1>5
<1>7. \A i \in 1..Len(p) : p[i] = q[i]
  <2> TAKE i \in 1..Len(p)
  <2>1. /\ i \in 1..(Len(t) - Len(xy)) /\ i \in 1..(Len(r) - Len(y)) /\ i + Len(y) \in 1..(Len(t) - Len(x))
        /\ (i + Len(y)) + Len(x) = i + Len(xy)
    BY <1>1, <1>3, <1>4, <1>5, <1>6
  <2> QED
    BY <1>3, <1>4, <1>5, <2>1
<1>8. p = q
  BY <1>4, <1>5, <1>6, <1>7, SameText
<1> QED
  BY <1>8 DEF p, q, r, xy

LEMMA JoinedIs ==
  ASSUME NEW x \in Seq(Char), NEW y \in Seq(Char), NEW s \in Seq(Char), Len(s) = Len(x) + Len(y),
         \A i \in 1..Len(x) : s[i] = x[i], \A i \in 1..Len(y) : s[i + Len(x)] = y[i]
  PROVE  x \o y = s
<1> DEFINE xy == x \o y
<1>1. /\ xy \in Seq(Char) /\ Len(xy) = Len(x) + Len(y) /\ Len(x) \in Nat /\ Len(y) \in Nat
      /\ \A i \in 1..(Len(x) + Len(y)) : xy[i] = IF i <= Len(x) THEN x[i] ELSE y[i - Len(x)]
  BY TextsJoined
<1> HIDE DEF xy
<1>2. \A i \in 1..Len(xy) : xy[i] = s[i]
  <2> TAKE i \in 1..Len(xy)
  <2>1. CASE i <= Len(x)
    <3>1. i \in 1..Len(x) /\ i \in 1..(Len(x) + Len(y))
      BY <1>1, <2>1
    <3> QED
      BY <1>1, <2>1, <3>1
  <2>2. CASE ~(i <= Len(x))
    <3>1. i - Len(x) \in 1..Len(y) /\ (i - Len(x)) + Len(x) = i /\ i \in 1..(Len(x) + Len(y))
      BY <1>1, <2>2
    <3> QED
      BY <1>1, <2>2, <3>1
  <2> QED
    BY <2>1, <2>2
<1>3. xy = s
  BY <1>1, <1>2, SameText
<1> QED
  BY <1>3 DEF xy

LEMMA TwoSigns ==
  ASSUME NEW x \in Char, NEW y \in Char
  PROVE  <<x>> \o <<y>> = <<x, y>>
<1> DEFINE p == <<x>>
           q == <<y>>
           s == <<x, y>>
<1>1. /\ p \in Seq(Char) /\ q \in Seq(Char) /\ s \in Seq(Char)
      /\ Len(p) = 1 /\ Len(q) = 1 /\ Len(s) = 2 /\ p[1] = x /\ q[1] = y /\ s[1] = x /\ s[2] = y
  OBVIOUS
<1> HIDE DEF p, q, s
<1>2. \A i \in 1..1 : i = 1
  OBVIOUS
<1>3. 1 + 1 = 2
  OBVIOUS
<1>4. Len(s) = Len(p) + Len(q) /\ \A i \in 1..Len(p) : s[i] = p[i]
  BY <1>1, <1>2, <1>3
<1>5. \A i \in 1..Len(q) : s[i + Len(p)] = q[i]
  <2> TAKE i \in 1..Len(q)
  <2>1. i = 1 /\ i + Len(p) = 2
    BY <1>1, <1>2, <1>3
  <2> QED
    BY <1>1, <2>1
<1>6. p \o q = s
  BY <1>1, <1>4, <1>5, JoinedIs
<1> QED
  BY <1>6 DEF p, q, s

LEMMA OneSign ==
  ASSUME NEW c \in Char
  PROVE  /\ [i \in 1..1 |-> c] \in Seq(Char) /\ Len([i \in 1..1 |-> c]) = 1
         /\ [i \in 1..1 |-> c][1] = c
         /\ <<c>> \in Seq(Char) /\ Len(<<c>>) = 1 /\ <<c>>[1] = c
OBVIOUS

LEMMA SomeBlanks ==
  /\ Blanks(0) = Nil /\ Blanks(1) = <<" ">>
  /\ \A s \in Seq(Char) : Nil \o s = s
<1>1. Blanks(0) = Nil
  BY DEF Blanks, Nil
<1>2. Blanks(1) = <<" ">>
  <2> DEFINE blank == <<" ">>
             one == Blanks(1)
  <2>1. " " \in Char
    BY DEF Char, Signs
  <2>2. one \in Seq(Char) /\ Len(one) = 1 /\ one[1] = " "
    BY <2>1, OneSign DEF Blanks
  <2>3. blank \in Seq(Char) /\ Len(blank) = 1 /\ blank[1] = " "
    BY Singles
  <2>4. \A i \in 1..1 : i = 1
    OBVIOUS
  <2> HIDE DEF blank, one
  <2>5. one = blank
    BY <2>2, <2>3, <2>4, SameText
  <2> QED
    BY <2>5 DEF one, blank
<1>3. \A s \in Seq(Char) : Nil \o s = s
  BY DEF Nil
<1> QED
  BY <1>1, <1>2, <1>3

\* Behind the relation: a blank, a bracket, and anything.
LEMMA FieldsSound ==
  ASSUME NEW a, NEW r, NEW w \in Seq(Char), Open(w), NEW t \in Vocabulary, Len(t) = 1,
         t \in ValidTokens(FieldsState(a, r, w))
  PROVE  BeginsFields(w \o t)
<1> DEFINE x == w \o t
<1>1. /\ t \in Seq(Char) /\ Bracket \in Seq(Char)
      /\ x \in Seq(Char) /\ Len(x) = Len(w) + 1 /\ Len(w) \in Nat
      /\ x[Len(w) + 1] = t[1] /\ \A i \in 1..Len(w) : x[i] = w[i]
  BY WordsAreTexts, Spelling, OneMore
<1> HIDE DEF x
<1>2. \A i \in DOMAIN x : x[i] = "]" => \A j \in (i + 1)..Len(x) : x[j] = " "
  <2> SUFFICES ASSUME NEW i \in DOMAIN x, x[i] = "]", NEW j \in (i + 1)..Len(x)
               PROVE  FALSE
    OBVIOUS
  <2>1. i \in 1..(Len(w) + 1) /\ i < Len(w) + 1
    BY <1>1
  <2>2. i \in 1..Len(w)
    BY <1>1, <2>1
  <2> QED
    BY <1>1, <2>2 DEF Open
<1>3. Blanks(0) \o <<"[">> = <<"[">> /\ Blanks(1) \o <<"[">> = Bracket
  <2>1. <<" ">> \o <<"[">> = Bracket
    <3>1. " " \in Char /\ "[" \in Char
      BY DEF Char, Signs
    <3> QED
      BY <3>1, TwoSigns DEF Bracket
  <2>2. Nil \o <<"[">> = <<"[">>
    BY Singles, SomeBlanks
  <2> QED
    BY <2>1, <2>2, SomeBlanks
<1>4. 0 \in 0..Len(x) /\ 1 \in 0..Len(x)
  BY <1>1
<1>5. ASSUME IsPrefix(Bracket, x) \/ IsPrefix(<<"[">>, x)
      PROVE  BeginsFields(x)
  BY <1>2, <1>3, <1>4, <1>5 DEF BeginsFields
<1>6. CASE w = Nil
  <2>1. FieldsState(a, r, w) \in {Partial("after_relation", {" "}), Partial("complete", {})}
    BY <1>6 DEF FieldsState, Nil
  <2>2. "after_relation" \in Going
    BY DEF Going
  <2>3. t[1] = " "
    BY <2>1, <2>2, TokensOf, TokensOfOne
  <2>4. x = <<" ">>
    <3> DEFINE blank == <<" ">>
    <3>1. blank \in Seq(Char) /\ Len(blank) = 1 /\ blank[1] = " "
      BY Singles
    <3>2. Len(x) = 1 /\ x[1] = " "
      <4>1. Len(w) = 0
        BY <1>6, NilIsEmpty
      <4>2. 0 + 1 = 1
        OBVIOUS
      <4> QED
        BY <1>1, <2>3, <4>1, <4>2
    <3> HIDE DEF blank
    <3>3. x = blank
      <4>1. \A i \in 1..1 : i = 1
        OBVIOUS
      <4> QED
        BY <1>1, <3>1, <3>2, <4>1, SameText
    <3> QED
      BY <3>3 DEF blank
  <2> QED
    BY <1>4, <2>4, SomeBlanks DEF BeginsFields, x
<1>7. CASE w # Nil /\ (IsPrefix(Bracket, w) \/ IsPrefix(<<"[">>, w))
  <2>1. IsPrefix(Bracket, x) \/ IsPrefix(<<"[">>, x)
    BY <1>1, <1>7, Singles, LongerText DEF x
  <2> QED
    BY <1>5, <2>1 DEF x
<1>8. CASE w # Nil /\ ~IsPrefix(Bracket, w) /\ ~IsPrefix(<<"[">>, w)
  <2>1. CASE w = <<" ">>
    <3>1. FieldsState(a, r, w) = Partial("after_relation", {"["})
      BY <1>8, <2>1 DEF FieldsState, Nil, Bracket
    <3>2. "after_relation" \in Going
      BY DEF Going
    <3>3. t[1] = "["
      BY <3>1, <3>2, TokensOfOne
    <3>4. Len(w) = 1 /\ w[1] = " "
      BY <2>1, Singles
    <3>5. x = Bracket
      <4>1. Len(x) = 2 /\ x[1] = " " /\ x[2] = "["
        <5>1. 1 + 1 = 2 /\ 1 \in 1..1
          OBVIOUS
        <5> QED
          BY <1>1, <3>3, <3>4, <5>1
      <4>2. \A i \in 1..2 : i = 1 \/ i = 2
        OBVIOUS
      <4> QED
        BY <1>1, <4>1, <4>2, Spelling, SameText
    <3> QED
      BY <1>1, <1>5, <3>5, PrefixIsAnOrder DEF x
  <2>2. CASE w # <<" ">>
    <3>1. FieldsState(a, r, w) = Partial("complete", {})
      BY <1>8, <2>2 DEF FieldsState, Nil, Bracket
    <3> QED
      BY <3>1, TokensOf
  <2> QED
    BY <2>1, <2>2
<1> QED
  BY <1>6, <1>7, <1>8

RelationRead(a, v) ==
  \E r \in ANCHOR_RELATIONS[a] : IsPrefix(v, r) \/ (IsPrefix(r, v) /\ BeginsFields(Rest(v, r)))

LEMMA RelationSound ==
  ASSUME NEW a \in ANCHORS, NEW v \in Seq(Char), Open(v), NEW t \in Vocabulary, Len(t) = 1,
         t \in ValidTokens(RelationState(a, v))
  PROVE  RelationRead(a, v \o t)
<1> DEFINE R == ANCHOR_RELATIONS[a]
<1>1. t \in Seq(Char) /\ \A r \in R : r \in Seq(Char) /\ r # Nil
  BY WordsAreTexts
<1>2. ASSUME NEW state \in Going, RelationState(a, v) = Partial(state, Continuations(v, R))
      PROVE  RelationRead(a, v \o t)
  <2>1. t[1] \in Continuations(v, R)
    BY <1>2, TokensOf
  <2> QED
    BY <1>1, <2>1, Continued DEF RelationRead
<1>3. "after_arrow" \in Going /\ "in_relation" \in Going
  BY DEF Going
<1>4. CASE v = Nil
  BY <1>2, <1>3, <1>4 DEF RelationState, Nil
<1>5. CASE v # Nil /\ \E r \in R : IsPrefix(r, v)
  <2> DEFINE r == CHOOSE r \in {x \in R : IsPrefix(x, v)} : TRUE
  <2>1. r \in R /\ IsPrefix(r, v)
    BY <1>5
  <2>2. RelationState(a, v) = FieldsState(a, r, Rest(v, r))
    BY <1>5 DEF RelationState, Nil
  <2> HIDE DEF r
  <2>3. Rest(v, r) \in Seq(Char) /\ Open(Rest(v, r))
    BY <1>1, <2>1, RestIsOpen
  <2>4. BeginsFields(Rest(v, r) \o t)
    BY <2>2, <2>3, FieldsSound
  <2>5. Rest(v \o t, r) = Rest(v, r) \o t /\ IsPrefix(r, v \o t)
    BY <1>1, <2>1, RestOfLonger, LongerText
  <2> QED
    BY <2>1, <2>4, <2>5 DEF RelationRead
<1>6. CASE v # Nil /\ ~\E r \in R : IsPrefix(r, v)
  <2>1. {r \in R : IsPrefix(r, v)} = {}
    BY <1>6
  <2>2. CASE \E r \in R : IsPrefix(v, r)
    <3>1. RelationState(a, v) = Partial("in_relation", Continuations(v, R))
      BY <1>6, <2>1, <2>2 DEF RelationState, Nil
    <3> QED
      BY <1>2, <1>3, <3>1
  <2>3. CASE ~\E r \in R : IsPrefix(v, r)
    <3>1. RelationState(a, v) = Error
      BY <1>6, <2>1, <2>3 DEF RelationState, Nil
    <3> QED
      BY <3>1 DEF Error, Partial, ValidTokens
  <2> QED
    BY <2>2, <2>3
<1> QED
  BY <1>4, <1>5, <1>6

AnchorRead(a, x) ==
  \/ IsPrefix(x, Arrow) \/ IsPrefix(x, ArrowAscii)
  \/ IsPrefix(Arrow, x) /\ RelationRead(a, Rest(x, Arrow))

Dash == "-"
Point == ">"

\* The blanks around an arrow.
LEMMA BetweenBlanks ==
  ASSUME NEW c \in Char, NEW p \in Seq(Char), NEW s \in Seq(Char), Len(s) = Len(p) + 2,
         s[1] = c, s[Len(s)] = c, \A i \in 1..Len(p) : s[i + 1] = p[i]
  PROVE  s = (<<c>> \o p) \o <<c>>
<1> DEFINE b == <<c>>
           m == b \o p
<1>0. b \in Seq(Char) /\ Len(b) = 1 /\ b[1] = c
  OBVIOUS
<1> HIDE DEF b
<1>1. b \in Seq(Char) /\ Len(b) = 1 /\ b[1] = c /\ Len(p) \in Nat
  BY <1>0
<1>2. /\ m \in Seq(Char) /\ Len(m) = 1 + Len(p)
      /\ \A i \in 1..(1 + Len(p)) : m[i] = IF i <= 1 THEN b[i] ELSE p[i - 1]
  <2>1. /\ m \in Seq(Char) /\ Len(m) = Len(b) + Len(p)
        /\ \A i \in 1..(Len(b) + Len(p)) : m[i] = IF i <= Len(b) THEN b[i] ELSE p[i - Len(b)]
    BY <1>1, TextsJoined
  <2> HIDE DEF m
  <2> QED
    BY <1>1, <2>1
<1> HIDE DEF m
<1>3. \A i \in 1..Len(m) : s[i] = m[i]
  <2> TAKE i \in 1..Len(m)
  <2>1. CASE i = 1
    <3>1. m[1] = b[1]
      BY <1>1, <1>2, <2>1
    <3> QED
      BY <1>1, <2>1, <3>1
  <2>2. CASE i # 1
    <3>1. i - 1 \in 1..Len(p) /\ (i - 1) + 1 = i /\ ~(i <= 1) /\ i \in 1..(1 + Len(p))
      BY <1>1, <1>2, <2>2
    <3> QED
      BY <1>2, <3>1
  <2> QED
    BY <2>1, <2>2
<1>4. \A i \in 1..Len(b) : s[i + Len(m)] = b[i]
  <2>1. Len(s) = 1 + Len(m) /\ \A i \in 1..1 : i = 1
    BY <1>1, <1>2
  <2> QED
    BY <1>1, <2>1
<1>5. m \o b = s
  <2>1. Len(s) = Len(m) + Len(b) /\ \A i \in 1..Len(m) : s[i] = m[i]
    BY <1>1, <1>2, <1>3
  <2> QED
    BY <1>1, <1>2, <1>4, <2>1, JoinedIs
<1> QED
  BY <1>5 DEF m, b

LEMMA AroundTwo ==
  ASSUME NEW c \in Char, NEW x \in Char, NEW y \in Char
  PROVE  /\ <<x, y>> \in Seq(Char) /\ <<c, x, y, c>> \in Seq(Char)
         /\ <<c, x, y, c>> = (<<c>> \o <<x, y>>) \o <<c>>
<1> DEFINE p == <<x, y>>
           s == <<c, x, y, c>>
<1>1. /\ p \in Seq(Char) /\ Len(p) = 2 /\ p[1] = x /\ p[2] = y
      /\ s \in Seq(Char) /\ Len(s) = 4 /\ s[1] = c /\ s[2] = x /\ s[3] = y /\ s[4] = c
  OBVIOUS
<1> HIDE DEF p, s
<1>2. \A i \in 1..2 : i = 1 \/ i = 2
  OBVIOUS
<1>3. 2 + 2 = 4 /\ 1 + 1 = 2 /\ 2 + 1 = 3
  OBVIOUS
<1>4. s = (<<c>> \o p) \o <<c>>
  BY <1>1, <1>2, <1>3, BetweenBlanks
<1> QED
  BY <1>1, <1>4 DEF p, s

LEMMA Signposts ==
  /\ Arrows \subseteq Seq(Char) /\ ArrowAscii \in Seq(Char)
  /\ <<ArrowSign>> \in Arrows /\ Arrow = (<<" ">> \o <<ArrowSign>>) \o <<" ">>
  /\ \E sign \in Arrows : ArrowAscii = (<<" ">> \o sign) \o <<" ">>
<1> DEFINE ascii == <<Dash, Point>>
<1>0. " " \in Char /\ ArrowSign \in Char
  BY DEF Char, Signs
<1>1. Dash \in Char /\ Point \in Char
  BY Zenon DEF Char, Signs, AsciiSigns, Dash, Point
<1>2. Arrows = {<<ArrowSign>>, ascii}
  BY Zenon DEF Arrows, Dash, Point
<1>3. ArrowAscii = <<" ", Dash, Point, " ">>
  BY Zenon DEF ArrowAscii, Dash, Point
<1>4. ascii \in Seq(Char) /\ ArrowAscii \in Seq(Char) /\ ArrowAscii = (<<" ">> \o ascii) \o <<" ">>
  BY <1>0, <1>1, <1>3, AroundTwo
<1>5. <<ArrowSign>> \in Seq(Char) /\ Arrow = (<<" ">> \o <<ArrowSign>>) \o <<" ">>
  <2> DEFINE p == <<ArrowSign>>
  <2>2. p \in Seq(Char) /\ Len(p) = 1 /\ p[1] = ArrowSign
    BY <1>0, OneSign
  <2>3. Arrow \in Seq(Char) /\ Len(Arrow) = 3 /\ Arrow[1] = " " /\ Arrow[2] = ArrowSign /\ Arrow[3] = " "
    BY Spelling DEF Arrow
  <2> HIDE DEF p
  <2>4. \A i \in 1..1 : i = 1
    OBVIOUS
  <2>5. 1 + 2 = 3 /\ 1 + 1 = 2
    OBVIOUS
  <2>6. Arrow = (<<" ">> \o p) \o <<" ">>
    BY <1>0, <2>2, <2>3, <2>4, <2>5, BetweenBlanks
  <2> QED
    BY <2>2, <2>6 DEF p
<1> HIDE DEF ascii
<1> QED
  BY <1>2, <1>4, <1>5

LEMMA AnchorSound ==
  ASSUME NEW a \in ANCHORS, NEW u \in Seq(Char), Open(u), NEW t \in Vocabulary, Len(t) = 1,
         t \in ValidTokens(ArrowState(a, u))
  PROVE  AnchorRead(a, u \o t)
<1>1. t \in Seq(Char) /\ Arrow \in Seq(Char) /\ ArrowAscii \in Seq(Char)
  BY WordsAreTexts, Spelling, Signposts
<1>2. "after_anchor" \in Going /\ "in_arrow" \in Going
  BY DEF Going
<1>3. ASSUME NEW arrow \in Seq(Char), arrow = Arrow \/ arrow = ArrowAscii,
             t[1] \in Continuations(u, {arrow})
      PROVE  AnchorRead(a, u \o t)
  <2> DEFINE W == {arrow}
  <2>1. \A w \in W : w \in Seq(Char)
    OBVIOUS
  <2> HIDE DEF W
  <2>2. \E w \in W : IsPrefix(u \o t, w)
    BY <1>1, <1>3, <2>1, Continued DEF W
  <2> QED
    BY <1>3, <2>2 DEF AnchorRead, W
<1>4. CASE u = Nil
  <2>1. ArrowState(a, u) = Partial("after_anchor", {" "})
    BY <1>4 DEF ArrowState, Nil
  <2>2. t[1] = " "
    BY <1>2, <2>1, TokensOfOne
  <2>3. IsStrictPrefix(u, Arrow) /\ Len(u) + 1 = 1
    <3>1. Len(u) = 0 /\ Len(Arrow) = 3
      BY <1>4, NilIsEmpty, Spelling
    <3>2. IsPrefix(u, Arrow)
      BY <1>1, <1>4, NothingIsPrefix
    <3> QED
      BY <3>1, <3>2 DEF IsStrictPrefix
  <2>4. IsPrefix(u \o t, Arrow)
    BY <1>1, <2>2, <2>3, LongerText, Spelling
  <2> QED
    BY <2>4 DEF AnchorRead
<1>5. CASE u # Nil /\ IsPrefix(Arrow, u)
  <2> DEFINE v == Rest(u, Arrow)
  <2>1. v \in Seq(Char) /\ Open(v) /\ Rest(u \o t, Arrow) = v \o t /\ IsPrefix(Arrow, u \o t)
    BY <1>1, <1>5, RestIsOpen, RestOfLonger, LongerText
  <2>2. ArrowState(a, u) = RelationState(a, v)
    BY <1>5 DEF ArrowState, Nil
  <2> HIDE DEF v
  <2> QED
    BY <2>1, <2>2, RelationSound DEF AnchorRead
<1>6. CASE u # Nil /\ ~IsPrefix(Arrow, u) /\ IsPrefix(u, Arrow)
  <2>1. ArrowState(a, u) = Partial("in_arrow", Continuations(u, {Arrow}))
    BY <1>6 DEF ArrowState, Nil
  <2> QED
    BY <1>1, <1>2, <1>3, <2>1, TokensOf
<1>7. CASE u # Nil /\ ~IsPrefix(Arrow, u) /\ ~IsPrefix(u, Arrow)
  <2>1. ArrowState(a, u) \in {Raising, Error, Partial("in_arrow", Continuations(u, {ArrowAscii}))}
    BY <1>7 DEF ArrowState, Nil
  <2>2. ValidTokens(Raising) = {} /\ ValidTokens(Error) = {}
    BY DEF Raising, Error, Partial, ValidTokens
  <2> QED
    BY <1>1, <1>2, <1>3, <2>1, <2>2, TokensOf
<1> QED
  BY <1>4, <1>5, <1>6, <1>7

\* With one blank on either side of the arrow, which the mask wants and the parser allows.
LEMMA ReadByParser ==
  ASSUME NEW a \in ANCHORS, NEW x \in Seq(Char), AnchorRead(a, x)
  PROVE  BeginsArrow(a, x)
<1> DEFINE blank == <<" ">>
<1>1. blank \in Seq(Char) /\ Len(blank) = 1 /\ Blanks(1) = blank /\ Blanks(0) = Nil
  BY Singles, SomeBlanks
<1> HIDE DEF blank
<1>2. CASE x = Nil
  <2>1. Blanks(0) \o <<ArrowSign>> = <<ArrowSign>> /\ <<ArrowSign>> \in Seq(Char) /\ 0 \in 0..Len(x)
    <3>1. <<ArrowSign>> \in Seq(Char)
      BY Signposts
    <3>2. Blanks(0) \o <<ArrowSign>> = <<ArrowSign>>
      BY <3>1, SomeBlanks
    <3>3. 0 \in 0..Len(x)
      OBVIOUS
    <3> QED
      BY <3>1, <3>2, <3>3
  <2>2. IsPrefix(x, Blanks(0) \o <<ArrowSign>>)
    BY <1>2, <2>1, NothingIsPrefix
  <2> QED
    BY <2>1, <2>2, Signposts DEF BeginsArrow
<1>3. CASE x # Nil
  <2>1. Len(x) \in Nat /\ 1 \in 0..Len(x)
    <3>1. Len(x) \in Nat /\ Len(x) # 0
      BY <1>3, NothingIsPrefix
    <3> QED
      BY <3>1
  <2>2. ASSUME NEW sign \in Arrows,
               IsPrefix(x, blank \o sign) \/ (IsPrefix(blank \o sign, x) /\ BeginsRelation(a, Rest(x, blank \o sign)))
        PROVE  BeginsArrow(a, x)
    BY <1>1, <2>1, <2>2 DEF BeginsArrow
  <2>3. \A sign \in Arrows : sign \in Seq(Char) /\ blank \o sign \in Seq(Char)
    BY <1>1, Signposts, TextsJoined
  <2>4. PICK r \in ANCHOR_RELATIONS[a] : r \in Seq(Char)
    BY WordsAreTexts, DecoderAssumption
  <2>5. ASSUME NEW sign \in Arrows, IsPrefix(x, (blank \o sign) \o blank)
        PROVE  BeginsArrow(a, x)
    <3> DEFINE bs == blank \o sign
               y == Rest(x, bs)
    <3>1. bs \in Seq(Char)
      BY <2>3
    <3> HIDE DEF bs
    <3>2. IsPrefix(x, bs) \/ (IsPrefix(bs, x) /\ IsPrefix(y, blank))
      BY <1>1, <2>5, <3>1, ConcatIsPrefix DEF bs
    <3>3. ASSUME IsPrefix(bs, x), IsPrefix(y, blank)
          PROVE  BeginsRelation(a, y)
      <4>1. y \in Seq(Char)
        BY <3>1, <3>3, RestIs
      <4> HIDE DEF y
      <4>2. CASE y = Nil
        <5>1. 0 \in 0..Len(y)
          BY <4>1
        <5>2. Blanks(0) \o r = r
          BY <2>4, SomeBlanks
        <5>3. IsPrefix(y, r)
          BY <2>4, <4>2, NothingIsPrefix
        <5> QED
          BY <5>1, <5>2, <5>3 DEF BeginsRelation
      <4>3. CASE y # Nil
        <5>1. Len(y) \in Nat /\ Len(y) # 0
          BY <4>1, <4>3, NothingIsPrefix
        <5>2. 1 \in 0..Len(y)
          BY <5>1
        <5>3. IsPrefix(y, blank \o r)
          BY <1>1, <2>4, <3>3, <4>1, ConcatIsPrefix
        <5> QED
          BY <1>1, <5>2, <5>3 DEF BeginsRelation
      <4> QED
        BY <4>2, <4>3
    <3> QED
      BY <2>2, <3>2, <3>3 DEF bs
  <2>6. ASSUME IsPrefix(Arrow, x), RelationRead(a, Rest(x, Arrow))
        PROVE  BeginsArrow(a, x)
    <3> DEFINE bs == blank \o <<ArrowSign>>
               y == Rest(x, bs)
    <3>1. bs \in Seq(Char) /\ Arrow = bs \o blank
      BY <2>3, Signposts DEF blank
    <3> HIDE DEF bs
    <3>2. IsPrefix(bs, x) /\ IsPrefix(blank, y) /\ Rest(x, Arrow) = Rest(y, blank)
      BY <1>1, <2>6, <3>1, ConcatIsPrefix, RestTwice
    <3>3. y \in Seq(Char)
      BY <3>1, <3>2, RestIs
    <3> HIDE DEF y
    <3>4. PICK q \in ANCHOR_RELATIONS[a] :
            LET v == Rest(y, blank) IN IsPrefix(v, q) \/ (IsPrefix(q, v) /\ BeginsFields(Rest(v, q)))
      BY <2>6, <3>2 DEF RelationRead
    <3>5. q \in Seq(Char)
      BY WordsAreTexts
    <3> DEFINE bq == blank \o q
    <3>6. IsPrefix(y, bq) \/ (IsPrefix(bq, y) /\ BeginsFields(Rest(y, bq)))
      BY <1>1, <3>2, <3>3, <3>4, <3>5, ConcatIsPrefix, RestTwice
    <3>7. 1 \in 0..Len(y)
      <4>1. Len(blank) <= Len(y)
        BY <1>1, <3>2, <3>3, PrefixIs
      <4>2. Len(y) \in Nat /\ 1 <= Len(y)
        BY <1>1, <3>3, <4>1
      <4> QED
        BY <4>2
    <3>8. BeginsRelation(a, y)
      BY <1>1, <3>6, <3>7 DEF BeginsRelation
    <3>9. <<ArrowSign>> \in Arrows
      BY Signposts
    <3> QED
      BY <2>2, <3>2, <3>8, <3>9 DEF bs, y
  <2>7. ASSUME IsPrefix(x, Arrow) \/ IsPrefix(x, ArrowAscii)
        PROVE  BeginsArrow(a, x)
    <3>1. PICK sign \in Arrows : IsPrefix(x, (blank \o sign) \o blank)
      BY <2>7, Signposts DEF blank
    <3> QED
      BY <2>5, <3>1
  <2> QED
    BY <2>6, <2>7 DEF AnchorRead
<1> QED
  BY <1>2, <1>3

LEMMA MaskSound ==
  ASSUME NEW s \in Seq(Char), s = Nil \/ s[1] = "@", Open(s), NEW t \in Vocabulary, Len(t) = 1,
         t \in ValidTokens(Compute(s))
  PROVE  IsPrefixOfScl(s \o t)
<1>1. /\ t \in Seq(Char) /\ ANCHORS # {}
      /\ \A a \in ANCHORS : a \in Seq(Char) /\ a # Nil /\ a[1] = "@"
  BY WordsAreTexts, DecoderAssumption
<1>2. Stripped(s) = s
  BY NothingToStrip
<1>3. "start" \in Going /\ "in_anchor" \in Going
  BY DEF Going
<1>4. CASE s = Nil
  <2>1. t[1] = "@"
    BY <1>2, <1>3, <1>4, TokensOfOne DEF Compute, Nil
  <2>2. PICK a \in ANCHORS : TRUE
    BY <1>1
  <2>3. Len(s) + 1 = 1 /\ IsStrictPrefix(s, a)
    <3>1. Len(s) = 0
      BY <1>4, NilIsEmpty
    <3>2. IsPrefix(s, a) /\ s # a
      BY <1>1, <1>4, NothingIsPrefix
    <3> QED
      BY <3>1, <3>2 DEF IsStrictPrefix
  <2>4. IsPrefix(s \o t, a)
    BY <1>1, <2>1, <2>3, LongerText
  <2> QED
    BY <2>4 DEF IsPrefixOfScl
<1>5. CASE s # Nil /\ \E a \in ANCHORS : IsPrefix(a, s)
  <2> DEFINE a == CHOOSE a \in {x \in ANCHORS : IsPrefix(x, s)} : TRUE
  <2>1. a \in ANCHORS /\ IsPrefix(a, s)
    BY <1>5
  <2>2. Compute(s) = ArrowState(a, Rest(s, a))
    BY <1>2, <1>5 DEF Compute, Nil
  <2> HIDE DEF a
  <2>3. Rest(s, a) \in Seq(Char) /\ Open(Rest(s, a))
    BY <1>1, <2>1, RestIsOpen
  <2>4. AnchorRead(a, Rest(s, a) \o t)
    BY <2>1, <2>2, <2>3, AnchorSound
  <2>5. Rest(s \o t, a) = Rest(s, a) \o t /\ IsPrefix(a, s \o t)
    BY <1>1, <2>1, RestOfLonger, LongerText
  <2>6. Rest(s, a) \o t \in Seq(Char)
    BY <1>1, <2>3, OneMore
  <2> QED
    BY <2>1, <2>4, <2>5, <2>6, ReadByParser DEF IsPrefixOfScl
<1>6. CASE s # Nil /\ ~\E a \in ANCHORS : IsPrefix(a, s)
  <2>1. {a \in ANCHORS : IsPrefix(a, s)} = {}
    BY <1>6
  <2>2. CASE \E a \in ANCHORS : IsPrefix(s, a)
    <3>1. Compute(s) = Partial("in_anchor", Continuations(s, ANCHORS))
      BY <1>2, <1>6, <2>1, <2>2 DEF Compute, Nil
    <3>2. t[1] \in Continuations(s, ANCHORS)
      BY <1>3, <3>1, TokensOf
    <3> QED
      BY <1>1, <3>2, Continued DEF IsPrefixOfScl
  <2>3. CASE ~\E a \in ANCHORS : IsPrefix(s, a)
    <3>1. Compute(s) = Error
      BY <1>2, <1>6, <2>1, <2>3 DEF Compute, Nil
    <3> QED
      BY <3>1 DEF Error, Partial, ValidTokens
  <2> QED
    BY <2>2, <2>3
<1> QED
  BY <1>4, <1>5, <1>6

---------------------------------------------------------------------------
(* A generation under the mask. *)

\* Whatever is generated is a text; behind the prompt, it begins with an anchor's sign.
TextInv ==
  /\ generated \in Seq(Char)
  /\ promptKept => generated = Nil \/ generated[1] = "@"

LEMMA GeneratedIsText == DecoderSpec => []TextInv
<1>1. DecoderInit => TextInv
  BY NilIsEmpty DEF DecoderInit, Nil, TextInv
<1>2. TextInv /\ [DecoderNext]_decoderVars => TextInv'
  <2> SUFFICES ASSUME TextInv, [DecoderNext]_decoderVars
               PROVE  TextInv'
    OBVIOUS
  <2>1. CASE Samples
    <3>1. \A p : ValidTokens(p) \subseteq Vocabulary
      BY DEF ValidTokens
    <3>2. PICK t \in ValidTokens(GeneratedSoFar) : generated' = generated \o t
      BY <2>1 DEF Samples
    <3>3. t \in Vocabulary /\ t \in Seq(Char) /\ t # Nil /\ Len(t) \in Nat /\ Len(t) # 0
      BY <3>1, <3>2, WordsAreTexts, NothingIsPrefix
    <3>4. generated \in Seq(Char) /\ promptKept' = promptKept
      BY <2>1 DEF TextInv, Samples
    <3>5. generated' \in Seq(Char)
      BY <3>2, <3>3, <3>4, TextsJoined
    <3>6. ASSUME promptKept, generated = Nil
          PROVE  generated'[1] = "@"
      <4>1. Stripped(generated) = generated
        BY <3>4, <3>6, NothingToStrip
      <4>2. GeneratedSoFar = Partial("start", {"@"})
        BY <3>6, <4>1 DEF GeneratedSoFar, Compute, Nil
      <4>3. t[1] = "@"
        <5>1. "start" \in Going
          BY DEF Going
        <5> QED
          BY <3>2, <3>3, <4>2, <5>1, TokensOfOne
      <4>4. generated' = t
        BY <3>2, <3>3, <3>6, SomeBlanks
      <4> QED
        BY <4>3, <4>4
    <3>7. ASSUME promptKept, generated # Nil
          PROVE  generated'[1] = "@"
      <4>1. generated[1] = "@"
        BY <3>7 DEF TextInv
      <4>2. Len(generated) \in Nat /\ Len(generated) # 0
        BY <3>4, <3>7, NothingIsPrefix
      <4>3. 1 \in 1..(Len(generated) + Len(t)) /\ 1 <= Len(generated)
        BY <3>3, <4>2
      <4> QED
        BY <3>2, <3>3, <3>4, <4>1, <4>3, TextsJoined
    <3> QED
      BY <3>4, <3>5, <3>6, <3>7 DEF TextInv, Char, Characters, Nil
  <2> QED
    BY <2>1 DEF DecoderNext, SamplesEos, RunsOut, RaisesIndexError, decoderVars, TextInv, Char, Characters, Nil
<1> QED
  BY <1>1, <1>2, PTL DEF DecoderSpec

\* What the mask admits leads to a record the parser reads, until a bracket is closed, and
\* every record goes on as emit would write it: for any algebra no word of which is a prefix
\* of another, any vocabulary and any length.
THEOREM MaskIsAlwaysTrueToScl == DecoderSpec => []MaskIsTrueToScl
<1>1. TextInv => MaskIsTrueToScl
  <2> SUFFICES ASSUME TextInv, promptKept, NEW t \in Vocabulary, Len(t) = 1
               PROVE  /\ t \in ValidTokens(Compute(generated)) /\ ~Contains(generated, "]")
                           => IsPrefixOfScl(generated \o t)
                      /\ IsPrefixOfEmitted(generated \o t) => t \in ValidTokens(Compute(generated))
    BY DEF MaskIsTrueToScl
  <2>1. /\ generated \in Seq(Char) /\ (generated = Nil \/ generated[1] = "@")
        /\ t \in Seq(Char) /\ generated \o t \in Seq(Char)
    BY WordsAreTexts, OneMore DEF TextInv
  <2>2. ~Contains(generated, "]") => Open(generated)
    BY <2>1 DEF Contains, Open
  <2>3. t \in ValidTokens(Compute(generated)) /\ ~Contains(generated, "]") => IsPrefixOfScl(generated \o t)
    BY <2>1, <2>2, MaskSound
  <2>4. IsPrefixOfEmitted(generated \o t) => IsPrefixOfEmitted(generated)
    <3> SUFFICES ASSUME NEW a \in ANCHORS, NEW r \in ANCHOR_RELATIONS[a],
                        \/ IsPrefix(generated \o t, Emitted(a, r))
                        \/ <<a, r>> \in REQUIRED_FIELDS /\ IsPrefix(Emitted(a, r), generated \o t)
                 PROVE  IsPrefix(generated, Emitted(a, r))
                        \/ (<<a, r>> \in REQUIRED_FIELDS /\ IsPrefix(Emitted(a, r), generated))
      BY DEF IsPrefixOfEmitted
    <3>1. Emitted(a, r) \in Seq(Char)
      BY EmittedIsText
    <3> QED
      BY <2>1, <3>1, LongerText DEF IsStrictPrefix
  <2> QED
    BY <2>1, <2>3, <2>4, LanguageOfEmit, Mask
<1> QED
  BY <1>1, GeneratedIsText, PTL
=============================================================================

----------------------------- MODULE SignInProofs -----------------------------
(***************************************************************************)
(* Proofs about SignIn: what the three files of the sign-in say, and who   *)
(* is let in by them, for any requests with any bodies, in any             *)
(* interleaving, with any number of crashes and under every setting.       *)
(*                                                                         *)
(* FilesFollow holds only of a file nobody is updating, so the invariant   *)
(* says of an update in progress what it is going to leave behind, as long *)
(* as no other update of the file overlapped with it; LoginServesOnce      *)
(* needs to know of every callback that has found its state that no dict   *)
(* about to be written has that state in it; and EntryIsCurrent needs      *)
(* every dict, the written and the unwritten, to hold sessions that were   *)
(* made.                                                                   *)
(***************************************************************************)
EXTENDS SignIn, FiniteSetTheorems, TLAPS

Points == {"idle", "check", "note", "clear", "oauth", "login", "callback", "create",
           "logout", "done", "dropped"}
Updates == {"note", "clear", "save", "pop", "create", "expire", "leave"}
Failures == Capabilities \X Nat

\* r is in the midst of update u: it has a dict in hand that will replace the file.
Opening(r, u) == pc[r] = <<"open", u>>
Writing(r, u) == pc[r] = <<"write", u>>
Doing(r, u) == Opening(r, u) \/ Writing(r, u)
Holds(r, f) == \E u \in Updates : FileOf[u] = f /\ Doing(r, u)

\* Every request is at a point or in the midst of an update.
Placed ==
  /\ DOMAIN pc = Requests
  /\ \A r \in Requests : (\E w \in Points : At(r, w)) \/ \E u \in Updates : Doing(r, u)

TypesOK ==
  /\ Placed
  /\ body \in [Requests -> Body \cup {Unasked}]
  /\ DOMAIN file = Files
  /\ DOMAIN hand = Requests /\ DOMAIN then = Requests
  /\ DOMAIN decision = Requests /\ DOMAIN lateFor = Requests
  /\ IsFiniteSet(failed) /\ failed \subseteq Failures
  /\ aged \in Nat /\ cleared \in [Capabilities -> Nat]
  /\ made \subseteq Requests

\* Where a request is tells what it has been asked and what it goes on with.
PlacesOK ==
  \A r \in Requests :
    /\ At(r, "idle") => decision[r] = "none"
    /\ ~At(r, "idle") => body[r] \in Body
    /\ Doing(r, "note") => then[r] = "oauth"
    /\ Doing(r, "pop") => then[r] \in {"create", "done"}
    /\ \A u \in Updates \ {"note", "pop"} : Doing(r, u) => then[r] = "done"
    /\ r \in made => At(r, "done")
    /\ lateFor[r] \subseteq ended

\* The numbers of the failures are theirs alone, and in order.
ClockOK ==
  /\ aged <= Cardinality(failed)
  /\ \A e \in failed : e[2] <= Cardinality(failed)
  /\ \A c \in Capabilities : cleared[c] <= Cardinality(failed)

\* A file met by no second update has one writer at most, who has truncated it
\* by the time it writes.
OneWriter(f) ==
  f \notin met =>
    /\ \A r, q \in Requests : Holds(r, f) /\ Holds(q, f) => r = q
    /\ \A r \in Requests, u \in Updates : FileOf[u] = f /\ Writing(r, u) => file[f] = Truncated

\* What the dict in a request's hand must be for the file to follow.
Leaves(r) ==
  IF Doing(r, "create") THEN (made \ ended) \cup {r} ELSE (made \ ended) \ {body[r].bearer}

SessionsOK ==
  /\ ended \subseteq made
  /\ Read("sessions") \subseteq made
  /\ \A r \in Requests :
       /\ Doing(r, "create") => hand[r] \subseteq made \cup {r}
       /\ \A u \in {"leave", "expire"} :
            Doing(r, u) => hand[r] \subseteq made /\ body[r].bearer \in made
  /\ "sessions" \notin met =>
       /\ Read("sessions") \cap ended = {}
       /\ \A r \in Requests : Holds(r, "sessions") => hand[r] \cap ended = {}
       /\ \A r \in Requests, u \in {"leave", "expire"} :
            Doing(r, u) => body[r].bearer \notin hand[r]
  /\ "sessions" \notin met \cup lost =>
       /\ (\A r \in Requests : ~Holds(r, "sessions")) => file["sessions"] = Whole(made \ ended)
       /\ \A r \in Requests, u \in {"create", "leave", "expire"} :
            /\ Opening(r, u) => file["sessions"] = Whole(made \ ended)
            /\ Doing(r, u) => hand[r] = Leaves(r)

\* data counts against every client its failures of the window since its last clearing.
Counts(data) ==
  \A c \in Capabilities : InWindow(data, c) = {e \in InWindow(failed, c) : e[2] > cleared[c]}

FailuresOK ==
  /\ Read("failures") \subseteq Failures
  /\ \A r \in Requests : Holds(r, "failures") => hand[r] \subseteq Failures
  /\ "failures" \notin met \cup lost =>
       /\ (\A r \in Requests : ~Holds(r, "failures")) => Counts(Read("failures"))
       /\ \A r \in Requests : Holds(r, "failures") => Counts(hand[r])

\* A callback whose state was found makes a session, or has made one.
Taken(r) ==
  \/ r \in made \/ At(r, "create") \/ Doing(r, "create")
  \/ Doing(r, "pop") /\ then[r] = "create"

StatesOK ==
  /\ \A r \in Requests :
       Taken(r) \/ At(r, "callback") \/ Doing(r, "pop") =>
         body[r].of \in Requests /\ At(body[r].of, "done")
  /\ "states" \notin met =>
       /\ \A r, q \in Requests : Taken(r) /\ Taken(q) /\ body[r].of = body[q].of => r = q
       /\ \A r \in Requests : Taken(r) =>
            /\ body[r].of \in Read("states") => Opening(r, "pop")
            /\ \A q \in Requests : Holds(q, "states") => body[r].of \notin hand[q]

SignInInv ==
  /\ TypesOK /\ PlacesOK /\ ClockOK /\ \A f \in Files : OneWriter(f)
  /\ SessionsOK /\ FailuresOK /\ StatesOK /\ EntryIsCurrent

-----------------------------------------------------------------------------
(* Places and updates *)

\* The components of a pair.
LEMMA Pair ==
  ASSUME NEW x
  PROVE  \A a, b : x = <<a, b>> => x[1] = a /\ x[2] = b
<1>1. ASSUME NEW a, NEW b, x = <<a, b>>
      PROVE  x[1] = a /\ x[2] = b
  <2>1. x[1] = a
    BY <1>1, Zenon
  <2>2. x[2] = b
    BY <1>1, Zenon
  <2>. QED  BY <2>1, <2>2
<1>. QED  BY <1>1, Zenon

\* A place is one point, or before or behind the truncation of one update.
LEMMA OnePlace ==
  ASSUME NEW p
  PROVE  /\ \A w, v : p = <<w, "">> /\ p = <<v, "">> => w = v
         /\ \A u : \A w \in Points : p = <<w, "">> => p # <<"open", u>> /\ p # <<"write", u>>
         /\ \A u, v : p = <<"open", u>> => p # <<"write", v>> /\ (p = <<"open", v>> => u = v)
         /\ \A u, v : p = <<"write", u>> /\ p = <<"write", v>> => u = v
<1>1. \A a, b : p = <<a, b>> => p[1] = a /\ p[2] = b
  BY Pair, Zenon
<1>2. "open" \notin Points /\ "write" \notin Points /\ "open" # "write"
  BY DEF Points
<1>3. ASSUME NEW a, NEW b, NEW c, NEW d, p = <<a, b>>, p = <<c, d>>
      PROVE  a = c /\ b = d
  <2>1. p[1] = a /\ p[2] = b
    BY <1>1, <1>3, Zenon
  <2>2. p[1] = c /\ p[2] = d
    BY <1>1, <1>3, Zenon
  <2>. QED  BY <2>1, <2>2
<1>4. \A w, v : p = <<w, "">> /\ p = <<v, "">> => w = v
  BY <1>3, Zenon
<1>5. \A u : \A w \in Points : p = <<w, "">> => p # <<"open", u>> /\ p # <<"write", u>>
  BY <1>2, <1>3, Zenon
<1>6. \A u, v : p = <<"open", u>> => p # <<"write", v>>
  BY <1>2, <1>3, Zenon
<1>7. \A u, v : p = <<"open", u>> /\ p = <<"open", v>> => u = v
  BY <1>3, Zenon
<1>8. \A u, v : p = <<"write", u>> /\ p = <<"write", v>> => u = v
  BY <1>3, Zenon
<1>. QED  BY <1>4, <1>5, <1>6, <1>7, <1>8, Zenon

LEMMA PlacesExclude ==
  ASSUME NEW r
  PROVE  /\ \A w, v : At(r, w) /\ At(r, v) => w = v
         /\ \A u : \A w \in Points : At(r, w) => ~Doing(r, u)
         /\ \A u, v : Opening(r, u) => ~Writing(r, v)
         /\ \A u, v : Doing(r, u) /\ Doing(r, v) => u = v
         /\ \A u : Doing(r, u) <=> Opening(r, u) \/ Writing(r, u)
BY OnePlace, Zenon DEF At, Opening, Writing, Doing

\* The updates of each file.
LEMMA HoldsIs ==
  ASSUME NEW r
  PROVE  /\ Holds(r, "failures") <=> Doing(r, "note") \/ Doing(r, "clear")
         /\ Holds(r, "states") <=> Doing(r, "save") \/ Doing(r, "pop")
         /\ Holds(r, "sessions") <=> Doing(r, "create") \/ Doing(r, "expire") \/ Doing(r, "leave")
BY DEF Holds, FileOf, Updates

\* Who is updating a file holds it.
LEMMA UpdatingHolds ==
  ASSUME NEW r, NEW f
  PROVE  Updating(r, f) <=> Holds(r, f)
<1>1. DOMAIN FileOf = Updates
  BY DEF FileOf, Updates
<1>2. \A u : Doing(r, u) => pc[r][2] = u
  BY Pair, Zenon DEF Doing, Opening, Writing
<1>3. (\E s \in {"open", "write"}, u \in Updates : pc[r] = <<s, u>>)
        <=> \E u \in Updates : pc[r] = <<"open", u>> \/ pc[r] = <<"write", u>>
  OBVIOUS
<1>4. pc[r] \in {<<s, u>> : s \in {"open", "write"}, u \in Updates}
        <=> \E s \in {"open", "write"}, u \in Updates : pc[r] = <<s, u>>
  OBVIOUS
<1>5. pc[r] \in {<<s, u>> : s \in {"open", "write"}, u \in DOMAIN FileOf}
        <=> \E u \in Updates : Doing(r, u)
  BY <1>1, <1>3, <1>4 DEF Doing, Opening, Writing
<1>. QED  BY <1>2, <1>5 DEF Updating, Holds

\* What a step of r changes of the places is where r is.
LEMMA Elsewhere ==
  ASSUME TypesOK, NEW r \in Requests, NEW x, pc' = [pc EXCEPT ![r] = x]
  PROVE  /\ pc'[r] = x
         /\ \A q \in Requests \ {r} :
              /\ \A w : At(q, w)' <=> At(q, w)
              /\ \A u : Doing(q, u)' <=> Doing(q, u)
              /\ \A u : Opening(q, u)' <=> Opening(q, u)
              /\ \A u : Writing(q, u)' <=> Writing(q, u)
              /\ \A f : Holds(q, f)' <=> Holds(q, f)
<1>1. pc'[r] = x /\ \A q \in Requests \ {r} : pc'[q] = pc[q]
  BY DEF TypesOK, Placed
<1>. QED  BY <1>1, Zenon DEF At, Doing, Opening, Writing, Holds

\* r goes on to a point, or into an update.
LEMMA ToPoint ==
  ASSUME TypesOK, NEW r \in Requests, NEW w \in Points, GoesTo(r, w)
  PROVE  /\ At(r, w)' /\ \A v : At(r, v)' => v = w
         /\ \A u : ~Doing(r, u)' /\ ~Opening(r, u)' /\ ~Writing(r, u)'
         /\ \A f : ~Holds(r, f)'
<1>1. pc'[r] = <<w, "">>
  BY Elsewhere DEF GoesTo
<1>2. At(r, w)' /\ \A v : At(r, v)' => v = w
  BY <1>1, OnePlace, Zenon DEF At
<1>3. \A u : ~Doing(r, u)' /\ ~Opening(r, u)' /\ ~Writing(r, u)'
  <2>1. \A u : ~Opening(r, u)'
    BY <1>1, OnePlace, Zenon DEF Opening
  <2>2. \A u : ~Writing(r, u)'
    BY <1>1, OnePlace, Zenon DEF Writing
  <2>. QED  BY <2>1, <2>2, Zenon DEF Doing
<1>. QED  BY <1>2, <1>3, Zenon DEF Holds

LEMMA ToUpdate ==
  ASSUME TypesOK, NEW r \in Requests, NEW u \in Updates, pc' = [pc EXCEPT ![r] = <<"open", u>>]
  PROVE  /\ Opening(r, u)' /\ Doing(r, u)' /\ \A v : Doing(r, v)' => v = u
         /\ \A v : ~Writing(r, v)'
         /\ \A w \in Points : ~At(r, w)'
<1>1. pc'[r] = <<"open", u>>
  BY Elsewhere
<1>2. Opening(r, u)' /\ Doing(r, u)' /\ (\A v : ~Writing(r, v)') /\ \A v : Doing(r, v)' => v = u
  BY <1>1, OnePlace, Zenon DEF Doing, Opening, Writing
<1>3. \A v : \A w \in Points : pc'[r] = <<w, "">> => pc'[r] # <<"open", v>>
  BY OnePlace, Zenon
<1>4. \A w \in Points : pc'[r] # <<w, "">>
  BY <1>1, <1>3, Zenon
<1>. QED  BY <1>2, <1>4, Zenon DEF At

\* A file that an access has not put among the met ones is in no other hand.
LEMMA NoOther ==
  ASSUME NEW r, NEW f, NEW q \in Requests \ {r},
         met' = met \cup Overlaps(r, f), f \notin met'
  PROVE  ~Holds(q, f)
BY UpdatingHolds DEF Overlaps

-----------------------------------------------------------------------------
(* What a step leaves alone *)

\* The step neither begins nor ends an update of file f, nor touches the file.
Spares(f) ==
  /\ file'[f] = file[f] /\ met \subseteq met' /\ lost \subseteq lost'
  /\ \A q \in Requests, u \in Updates : FileOf[u] = f =>
       /\ (Opening(q, u)' <=> Opening(q, u)) /\ (Writing(q, u)' <=> Writing(q, u))
       /\ Doing(q, u) => hand'[q] = hand[q] /\ then'[q] = then[q] /\ body'[q] = body[q]

LEMMA SparedUpdates ==
  ASSUME NEW f, Spares(f), NEW q \in Requests
  PROVE  /\ \A u \in Updates : FileOf[u] = f => (Doing(q, u)' <=> Doing(q, u))
         /\ Holds(q, f)' <=> Holds(q, f)
         /\ Holds(q, f) => hand'[q] = hand[q] /\ then'[q] = then[q] /\ body'[q] = body[q]
<1>1. \A u \in Updates : FileOf[u] = f => (Doing(q, u)' <=> Doing(q, u))
  BY DEF Spares, Doing
<1>. QED  BY <1>1 DEF Spares, Holds

LEMMA SparedWriter ==
  ASSUME NEW f, Spares(f), OneWriter(f)
  PROVE  OneWriter(f)'
BY SparedUpdates DEF OneWriter, Spares

LEMMA SparedSessions ==
  ASSUME SessionsOK, Spares("sessions"), UNCHANGED <<made, ended>>
  PROVE  SessionsOK'
<1>1. \A u \in {"create", "expire", "leave"} : u \in Updates /\ FileOf[u] = "sessions"
  BY DEF Updates, FileOf
<1>2. \A q \in Requests :
        /\ \A u \in {"create", "expire", "leave"} :
             /\ (Doing(q, u)' <=> Doing(q, u)) /\ (Opening(q, u)' <=> Opening(q, u))
             /\ Doing(q, u) => hand'[q] = hand[q] /\ body'[q] = body[q]
        /\ Holds(q, "sessions")' <=> Holds(q, "sessions")
        /\ Holds(q, "sessions") => hand'[q] = hand[q]
  BY <1>1, SparedUpdates DEF Spares
<1>3. \A q \in Requests, u \in {"create", "expire", "leave"} : Doing(q, u) => Leaves(q)' = Leaves(q)
  BY <1>2 DEF Leaves
<1>4. file'["sessions"] = file["sessions"] /\ met \subseteq met' /\ lost \subseteq lost'
  BY DEF Spares
<1>5. Read("sessions")' = Read("sessions")
  BY <1>4 DEF Read
<1>6. ASSUME "sessions" \notin met'
      PROVE  /\ Read("sessions")' \cap ended' = {}
             /\ \A r \in Requests : Holds(r, "sessions")' => hand'[r] \cap ended' = {}
             /\ \A r \in Requests, u \in {"leave", "expire"} : Doing(r, u)' => body'[r].bearer \notin hand'[r]
  BY <1>2, <1>4, <1>5, <1>6 DEF SessionsOK
<1>7. ASSUME "sessions" \notin met' \cup lost'
      PROVE  /\ (\A r \in Requests : ~Holds(r, "sessions")') => file'["sessions"] = Whole(made' \ ended')
             /\ \A r \in Requests, u \in {"create", "leave", "expire"} :
                  /\ Opening(r, u)' => file'["sessions"] = Whole(made' \ ended')
                  /\ Doing(r, u)' => hand'[r] = Leaves(r)'
  BY <1>2, <1>3, <1>4, <1>7 DEF SessionsOK
<1>8. \A r \in Requests :
        /\ Doing(r, "create")' => hand'[r] \subseteq made' \cup {r}
        /\ \A u \in {"leave", "expire"} :
             Doing(r, u)' => hand'[r] \subseteq made' /\ body'[r].bearer \in made'
  BY <1>2 DEF SessionsOK
<1>9. ended' \subseteq made' /\ Read("sessions")' \subseteq made'
  BY <1>5 DEF SessionsOK
<1>. QED  BY <1>6, <1>7, <1>8, <1>9 DEF SessionsOK

LEMMA SparedFailures ==
  ASSUME FailuresOK, Spares("failures"), UNCHANGED <<failed, aged, cleared>>
  PROVE  FailuresOK'
<1>2. \A q \in Requests :
        /\ Holds(q, "failures")' <=> Holds(q, "failures")
        /\ Holds(q, "failures") => hand'[q] = hand[q]
  BY SparedUpdates
<1>3. Read("failures")' = Read("failures") /\ met \subseteq met' /\ lost \subseteq lost'
  BY DEF Spares, Read
<1>4. Counts(Read("failures"))' <=> Counts(Read("failures"))
  BY <1>3 DEF Counts, InWindow
<1>5. ASSUME NEW q \in Requests, Holds(q, "failures")
      PROVE  Counts(hand[q])' <=> Counts(hand[q])
  <2>1. hand'[q] = hand[q]
    BY <1>2, <1>5
  <2>. QED  BY <2>1 DEF Counts, InWindow
<1>6. ASSUME NEW q \in Requests, Holds(q, "failures")'
      PROVE  hand'[q] \subseteq Failures /\ ("failures" \notin met \cup lost => Counts(hand[q])')
  BY <1>2, <1>5, <1>6 DEF FailuresOK
<1>. QED  BY <1>2, <1>3, <1>4, <1>6 DEF FailuresOK

LEMMA SparedStates ==
  ASSUME StatesOK, Spares("states"),
         \A q \in Requests :
           /\ Taken(q)' => Taken(q) /\ body'[q] = body[q]
           /\ At(q, "callback")' => body'[q].of \in Requests /\ At(body[q].of, "done")'
           /\ At(q, "done") => At(q, "done")'
  PROVE  StatesOK'
<1>1. /\ "pop" \in Updates /\ FileOf["pop"] = "states"
  BY DEF Updates, FileOf
<1>2. \A q \in Requests :
        /\ Doing(q, "pop")' <=> Doing(q, "pop")
        /\ Opening(q, "pop")' <=> Opening(q, "pop")
        /\ Doing(q, "pop") => body'[q] = body[q]
        /\ Holds(q, "states")' <=> Holds(q, "states")
        /\ Holds(q, "states") => hand'[q] = hand[q]
  BY <1>1, SparedUpdates DEF Spares
<1>3. Read("states")' = Read("states") /\ met \subseteq met'
  BY DEF Spares, Read
<1>4. ASSUME NEW q \in Requests, Taken(q)' \/ At(q, "callback")' \/ Doing(q, "pop")'
      PROVE  body'[q].of \in Requests /\ At(body[q].of, "done")'
  <2>1. CASE At(q, "callback")'
    BY <2>1
  <2>2. CASE Taken(q)' \/ Doing(q, "pop")'
    <3>1. body'[q] = body[q] /\ body[q].of \in Requests /\ At(body[q].of, "done")
      BY <1>2, <2>2 DEF StatesOK
    <3>2. At(body[q].of, "done")'
      BY <3>1
    <3>. QED  BY <3>1, <3>2
  <2>. QED  BY <1>4, <2>1, <2>2
<1>5. "states" \notin met' =>
        /\ \A r, q \in Requests : Taken(r)' /\ Taken(q)' /\ body'[r].of = body'[q].of => r = q
        /\ \A r \in Requests : Taken(r)' =>
             /\ body'[r].of \in Read("states")' => Opening(r, "pop")'
             /\ \A q \in Requests : Holds(q, "states")' => body'[r].of \notin hand'[q]
  BY <1>2, <1>3 DEF StatesOK
<1>. QED  BY <1>4, <1>5 DEF StatesOK

LEMMA StaysPlaced ==
  ASSUME TypesOK, NEW r \in Requests
  PROVE  /\ \A w \in Points : pc' = [pc EXCEPT ![r] = <<w, "">>] => Placed'
         /\ \A u \in Updates : pc' = [pc EXCEPT ![r] = <<"open", u>>] => Placed'
         /\ \A u \in Updates : pc' = [pc EXCEPT ![r] = <<"write", u>>] => Placed'
<1>1. ASSUME NEW x, pc' = [pc EXCEPT ![r] = x],
             (\E w \in Points : x = <<w, "">>) \/ \E u \in Updates : x = <<"open", u>> \/ x = <<"write", u>>
      PROVE  Placed'
  <2>1. DOMAIN pc' = Requests /\ pc'[r] = x
    BY <1>1 DEF TypesOK, Placed
  <2>2. (\E w \in Points : At(r, w)') \/ \E u \in Updates : Doing(r, u)'
    BY <1>1, <2>1, Zenon DEF At, Doing, Opening, Writing
  <2>3. ASSUME NEW q \in Requests \ {r}
        PROVE  (\E w \in Points : At(q, w)') \/ \E u \in Updates : Doing(q, u)'
    BY <1>1, Elsewhere DEF TypesOK, Placed
  <2>. QED  BY <2>1, <2>2, <2>3 DEF Placed
<1>. QED  BY <1>1, Zenon

\* From point to point nothing is updated.
LEMMA PointSpares ==
  ASSUME TypesOK, NEW r \in Requests, NEW w \in Points, NEW v \in Points, At(r, w), GoesTo(r, v),
         UNCHANGED <<file, hand, then>>, met \subseteq met', lost \subseteq lost',
         \A q \in Requests \ {r} : body'[q] = body[q],
         NEW f
  PROVE  Spares(f)
<1>1. \A u : ~Doing(r, u) /\ ~Opening(r, u) /\ ~Writing(r, u)
  BY PlacesExclude, Zenon
<1>2. \A u : ~Opening(r, u)' /\ ~Writing(r, u)'
  BY ToPoint
<1>3. \A u : \A q \in Requests \ {r} :
        (Opening(q, u)' <=> Opening(q, u)) /\ (Writing(q, u)' <=> Writing(q, u))
  BY Elsewhere DEF GoesTo
<1>. QED  BY <1>1, <1>2, <1>3 DEF Spares

\* An access to one file spares the others.
LEMMA BeginSpares ==
  ASSUME TypesOK, NEW r \in Requests, NEW w \in Points, At(r, w),
         NEW u \in Updates, NEW data, NEW next, BeginsUpdate(r, u, data, next),
         UNCHANGED <<body, file, lost>>,
         NEW f, f # FileOf[u]
  PROVE  Spares(f)
<1>1. \A v : ~Doing(r, v) /\ ~Opening(r, v) /\ ~Writing(r, v)
  BY PlacesExclude, Zenon
<1>2. /\ \A v : ~Writing(r, v)' /\ (Doing(r, v)' => v = u)
      /\ \A v : Opening(r, v)' => Doing(r, v)'
  BY ToUpdate DEF BeginsUpdate, Doing
<1>3. /\ \A v : \A q \in Requests \ {r} :
           (Opening(q, v)' <=> Opening(q, v)) /\ (Writing(q, v)' <=> Writing(q, v))
  BY Elsewhere DEF BeginsUpdate
<1>4. \A q \in Requests \ {r} : hand'[q] = hand[q] /\ then'[q] = then[q]
  BY DEF BeginsUpdate, TypesOK
<1>5. met \subseteq met'
  BY DEF BeginsUpdate
<1>. QED  BY <1>1, <1>2, <1>3, <1>4, <1>5 DEF Spares

LEMMA OpenSpares ==
  ASSUME TypesOK, NEW r \in Requests, NEW u \in Updates, Opens(r, u), NEW f, f # FileOf[u]
  PROVE  Spares(f)
<1>1. Opening(r, u) /\ Writing(r, u)'
  BY Elsewhere DEF Opens, Opening, Writing
<1>2. /\ \A v : Opening(r, v) => v = u
      /\ \A v : ~Writing(r, v)
      /\ \A v : Doing(r, v) => v = u
  BY <1>1, PlacesExclude, Zenon
<1>3. \A v : ~Opening(r, v)' /\ (Writing(r, v)' => v = u)
  <2>1. pc'[r] = <<"write", u>>
    BY Elsewhere DEF Opens
  <2>. QED  BY <2>1, OnePlace, Zenon DEF Opening, Writing
<1>4. /\ \A v : \A q \in Requests \ {r} :
           (Opening(q, v)' <=> Opening(q, v)) /\ (Writing(q, v)' <=> Writing(q, v))
  BY Elsewhere DEF Opens
<1>5. file'[f] = file[f]
  BY DEF Opens, TypesOK
<1>6. UNCHANGED <<body, hand, then, met, lost>>
  BY DEF Opens, histVars
<1>. QED  BY <1>2, <1>3, <1>4, <1>5, <1>6 DEF Spares

LEMMA WriteSpares ==
  ASSUME TypesOK, PlacesOK, NEW r \in Requests, NEW u \in Updates, Writes(r, u), NEW f, f # FileOf[u]
  PROVE  Spares(f)
<1>1. Writing(r, u) /\ Doing(r, u)
  BY DEF Writes, Writing, Doing
<1>2. /\ \A v : ~Opening(r, v)
      /\ \A v : Writing(r, v) => v = u
      /\ \A v : Doing(r, v) => v = u
  BY <1>1, PlacesExclude, Zenon
<1>3. then[r] \in Points
  BY <1>1 DEF PlacesOK, Points
<1>4. \A v : ~Opening(r, v)' /\ ~Writing(r, v)'
  BY <1>3, ToPoint DEF Writes
<1>5. /\ \A v : \A q \in Requests \ {r} :
           (Opening(q, v)' <=> Opening(q, v)) /\ (Writing(q, v)' <=> Writing(q, v))
  BY Elsewhere DEF Writes, GoesTo
<1>6. \A q \in Requests \ {r} : hand'[q] = hand[q] /\ then'[q] = then[q]
  BY DEF Writes, TypesOK
<1>7. file'[f] = file[f]
  BY DEF Writes, TypesOK
<1>8. UNCHANGED <<body, met, lost>>
  BY DEF Writes
<1>. QED  BY <1>2, <1>4, <1>5, <1>6, <1>7, <1>8 DEF Spares

-----------------------------------------------------------------------------
(* The file of an update *)

LEMMA BeginWriter ==
  ASSUME TypesOK, NEW r \in Requests, NEW w \in Points, At(r, w),
         NEW u \in Updates, NEW data, NEW next, BeginsUpdate(r, u, data, next),
         UNCHANGED file, OneWriter(FileOf[u])
  PROVE  /\ OneWriter(FileOf[u])'
         /\ Opening(r, u)' /\ Doing(r, u)' /\ Holds(r, FileOf[u])' /\ hand'[r] = data
         /\ ~Holds(r, FileOf[u])
         /\ \A q \in Requests \ {r} :
              /\ \A v : Doing(q, v)' <=> Doing(q, v)
              /\ FileOf[u] \notin met' => ~Holds(q, FileOf[u]) /\ ~Holds(q, FileOf[u])'
<1>. DEFINE f == FileOf[u]
<1>1. ~Holds(r, f)
  BY PlacesExclude, Zenon DEF Holds
<1>2. Opening(r, u)' /\ Doing(r, u)' /\ \A v : ~Writing(r, v)'
  BY ToUpdate DEF BeginsUpdate
<1>3. Holds(r, f)'
  BY <1>2 DEF Holds
<1>4. \A q \in Requests \ {r} :
        /\ \A v : (Writing(q, v)' <=> Writing(q, v)) /\ (Doing(q, v)' <=> Doing(q, v))
        /\ Holds(q, f)' <=> Holds(q, f)
  BY Elsewhere DEF BeginsUpdate
<1>5. hand'[r] = data
  BY DEF BeginsUpdate, TypesOK
<1>6. ASSUME f \notin met', NEW q \in Requests \ {r}
      PROVE  ~Holds(q, f)
  BY <1>6, NoOther DEF BeginsUpdate
<1>7. ASSUME f \notin met', NEW q \in Requests \ {r}, NEW v \in Updates, FileOf[v] = f
      PROVE  ~Writing(q, v)'
  BY <1>4, <1>6, <1>7 DEF Holds, Doing
<1>8. OneWriter(f)'
  BY <1>2, <1>4, <1>6, <1>7 DEF OneWriter
<1>. QED  BY <1>1, <1>2, <1>3, <1>4, <1>5, <1>6, <1>8

LEMMA OpenWriter ==
  ASSUME TypesOK, NEW r \in Requests, NEW u \in Updates, Opens(r, u), OneWriter(FileOf[u])
  PROVE  /\ OneWriter(FileOf[u])' /\ Opening(r, u) /\ Writing(r, u)' /\ ~Opening(r, u)'
         /\ file'[FileOf[u]] = Truncated /\ UNCHANGED <<body, hand, then, made, ended, met, lost>>
         /\ \A q \in Requests :
              /\ \A v : Doing(q, v)' <=> Doing(q, v)
              /\ \A g : Holds(q, g)' <=> Holds(q, g)
              /\ q # r /\ FileOf[u] \notin met => ~Holds(q, FileOf[u])
<1>. DEFINE f == FileOf[u]
<1>1. Opening(r, u) /\ Writing(r, u)' /\ pc'[r] = <<"write", u>>
  BY Elsewhere DEF Opens, Opening, Writing
<1>2. Doing(r, u) /\ Doing(r, u)' /\ \A v : ~Opening(r, v)'
  BY <1>1, OnePlace, Zenon DEF Doing, Opening
<1>3. \A v : (Doing(r, v) => v = u) /\ (Doing(r, v)' => v = u)
  <2>1. \A v : Doing(r, v) => v = u
    BY <1>2, PlacesExclude, Zenon
  <2>2. \A v : Writing(r, v)' => v = u
    BY <1>1, OnePlace, Zenon DEF Writing
  <2>. QED  BY <1>2, <2>1, <2>2 DEF Doing
<1>4. \A v : \A q \in Requests : Doing(q, v)' <=> Doing(q, v)
  <2>1. \A v : \A q \in Requests \ {r} : Doing(q, v)' <=> Doing(q, v)
    BY Elsewhere DEF Opens
  <2>. QED  BY <1>2, <1>3, <2>1
<1>5. \A g : \A q \in Requests : Holds(q, g)' <=> Holds(q, g)
  BY <1>4 DEF Holds
<1>6. UNCHANGED <<body, hand, then, made, ended, met, lost>> /\ FileOf[u] \in Files
  BY DEF Opens, histVars, Files, FileOf, Updates
<1>7. file'[f] = Truncated
  BY <1>6 DEF Opens, TypesOK
<1>8. Holds(r, f)
  BY <1>2 DEF Holds
<1>9. \A q \in Requests : q # r /\ f \notin met => ~Holds(q, f)
  BY <1>8 DEF OneWriter
<1>10. OneWriter(f)'
  BY <1>5, <1>6, <1>7 DEF OneWriter
<1>. QED  BY <1>1, <1>2, <1>4, <1>5, <1>6, <1>7, <1>9, <1>10

LEMMA WriteWriter ==
  ASSUME TypesOK, PlacesOK, NEW r \in Requests, NEW u \in Updates, Writes(r, u), OneWriter(FileOf[u])
  PROVE  /\ OneWriter(FileOf[u])' /\ Writing(r, u) /\ Doing(r, u) /\ Holds(r, FileOf[u])
         /\ UNCHANGED <<body, decision, failed, aged, cleared, met, lost>>
         /\ FileOf[u] \notin met => file'[FileOf[u]] = Whole(hand[r])
         /\ Read(FileOf[u])' \in {hand[r], {}}
         /\ (\A v : ~Doing(r, v)') /\ (\A g : ~Holds(r, g)')
         /\ \A q \in Requests \ {r} :
              /\ hand'[q] = hand[q] /\ then'[q] = then[q]
              /\ \A v : (Doing(q, v)' <=> Doing(q, v)) /\ (Opening(q, v)' <=> Opening(q, v))
              /\ \A g : Holds(q, g)' <=> Holds(q, g)
              /\ FileOf[u] \notin met => ~Holds(q, FileOf[u])
<1>. DEFINE f == FileOf[u]
<1>1. Writing(r, u) /\ Doing(r, u) /\ then[r] \in Points
  BY DEF Writes, Writing, Doing, PlacesOK, Points
<1>2. Holds(r, f) /\ f \in Files
  BY <1>1 DEF Holds, Files, FileOf, Updates
<1>3. UNCHANGED <<body, decision, failed, aged, cleared, met, lost>>
  BY DEF Writes, clockVars
<1>4. (\A v : ~Doing(r, v)') /\ (\A g : ~Holds(r, g)')
  BY <1>1, ToPoint DEF Writes
<1>5. \A q \in Requests \ {r} :
        /\ hand'[q] = hand[q] /\ then'[q] = then[q]
        /\ \A v : (Doing(q, v)' <=> Doing(q, v)) /\ (Opening(q, v)' <=> Opening(q, v))
        /\ \A g : Holds(q, g)' <=> Holds(q, g)
  BY Elsewhere DEF Writes, GoesTo, TypesOK
<1>6. \A q \in Requests \ {r} : f \notin met => ~Holds(q, f)
  BY <1>2 DEF OneWriter
<1>7. f \notin met => file[f] = Truncated
  BY <1>1 DEF OneWriter
<1>8. PICK c \in {Whole(hand[r])} \cup (IF file[f] = Truncated THEN {} ELSE {Mixed}) :
        file' = [file EXCEPT ![f] = c]
  BY DEF Writes
<1>9. file'[f] = c
  BY <1>2, <1>8 DEF TypesOK
<1>10. Read(f)' \in {hand[r], {}}
  BY <1>8, <1>9 DEF Read, Whole, Mixed
<1>11. \A q \in Requests, v \in Updates : FileOf[v] = f /\ Writing(q, v)' /\ f \notin met' => FALSE
  BY <1>3, <1>4, <1>5, <1>6 DEF Holds, Doing
<1>12. OneWriter(f)'
  BY <1>3, <1>4, <1>5, <1>6, <1>11 DEF OneWriter
<1>. QED  BY <1>1, <1>2, <1>3, <1>4, <1>5, <1>6, <1>7, <1>8, <1>9, <1>10, <1>12

\* Who is done stays done, whatever a request does that is not.
LEMMA DoneStays ==
  ASSUME TypesOK, NEW r \in Requests, ~At(r, "done"), NEW x, pc' = [pc EXCEPT ![r] = x],
         NEW q \in Requests, At(q, "done")
  PROVE  At(q, "done")'
<1>1. q # r
  OBVIOUS
<1>. QED  BY <1>1, Elsewhere

-----------------------------------------------------------------------------
(* The steps *)

LEMMA AsksKeeps ==
  ASSUME SignInInv, NEW r \in Requests, Asks(r)
  PROVE  SignInInv'
<1>. USE DEF SignInInv
<1>1. PICK b \in Bodies[r] :
        /\ Known(b) /\ body' = [body EXCEPT ![r] = b]
        /\ GoesTo(r, CASE b.kind = "act" -> "check" [] b.kind \in {"me", "prepare"} -> "oauth"
                         [] OTHER -> b.kind)
  BY Zenon DEF Asks
<1>2. b \in Body
  BY SignInAssumption
<1>. DEFINE v == CASE b.kind = "act" -> "check" [] b.kind \in {"me", "prepare"} -> "oauth"
                   [] OTHER -> b.kind
<1>3. v \in Points \ {"idle"} /\ (v \in {"create", "done"} => FALSE)
      /\ (v = "callback" => b.kind = "callback")
  BY <1>2 DEF Body, Points
<1>4. GoesTo(r, v)
  BY <1>1
<1>. HIDE DEF v
<1>5. /\ UNCHANGED <<file, hand, then, decision, failed, aged, cleared, made, ended, met, lost>>
      /\ lateFor' = [lateFor EXCEPT ![r] = ended] /\ At(r, "idle") /\ "idle" \in Points
  BY DEF Asks, clockVars, Points
<1>6. /\ body'[r] = b /\ lateFor'[r] = ended
      /\ \A q \in Requests \ {r} : body'[q] = body[q] /\ lateFor'[q] = lateFor[q]
  BY <1>1, <1>5 DEF TypesOK
<1>7. /\ At(r, v)' /\ (\A w : At(r, w)' => w = v) /\ \A u : ~Doing(r, u)'
      /\ \A q \in Requests \ {r} : (\A w : At(q, w)' <=> At(q, w)) /\ (\A u : Doing(q, u)' <=> Doing(q, u))
  BY <1>3, <1>4, ToPoint, Elsewhere DEF GoesTo
<1>8. \A w : At(r, w) => w = "idle"
  BY <1>5, PlacesExclude, Zenon
<1>9. \A u : ~Doing(r, u)
  BY <1>5, PlacesExclude, Zenon
<1>10. \A f : Spares(f)
  BY <1>3, <1>4, <1>5, <1>6, PointSpares
<1>11. TypesOK'
  <2>1. Placed'
    BY <1>3, <1>4, StaysPlaced DEF GoesTo
  <2>2. body' \in [Requests -> Body \cup {Unasked}]
    BY <1>1, <1>2 DEF TypesOK
  <2>3. DOMAIN lateFor' = Requests
    BY <1>5 DEF TypesOK
  <2>. QED  BY <2>1, <2>2, <2>3, <1>5 DEF TypesOK
<1>12. PlacesOK'
  BY <1>2, <1>3, <1>5, <1>6, <1>7, <1>8 DEF PlacesOK
<1>13. ClockOK'
  BY <1>5 DEF ClockOK
<1>14. SessionsOK' /\ FailuresOK' /\ \A f \in Files : OneWriter(f)'
  BY <1>5, <1>10, SparedSessions, SparedFailures, SparedWriter
<1>15. \A q \in Requests : Taken(q)' => Taken(q) /\ body'[q] = body[q]
  <2>1. r \notin made
    BY <1>8 DEF PlacesOK
  <2>. QED  BY <2>1, <1>3, <1>5, <1>6, <1>7 DEF Taken
<1>16. \A q \in Requests : At(q, "done") => At(q, "done")'
  BY <1>4, <1>8, DoneStays DEF GoesTo
<1>17. \A q \in Requests : At(q, "callback")' => body'[q].of \in Requests /\ At(body[q].of, "done")'
  <2>1. ASSUME At(r, "callback")'
        PROVE  b.of \in Requests /\ At(b.of, "done")
    BY <2>1, <1>1, <1>2, <1>3, <1>7 DEF Known, Body
  <2>2. ASSUME At(r, "callback")'
        PROVE  body'[r].of \in Requests /\ At(body[r].of, "done")'
    <3>1. b.of # r
      BY <2>1, <2>2, <1>8
    <3>2. At(b.of, "done")'
      BY <2>1, <2>2, <1>16
    <3>. QED  BY <2>1, <2>2, <3>2, <1>6
  <2>3. ASSUME NEW q \in Requests \ {r}, At(q, "callback")'
        PROVE  body'[q].of \in Requests /\ At(body[q].of, "done")'
    <3>1. body'[q] = body[q] /\ body[q].of \in Requests /\ At(body[q].of, "done")
      BY <2>3, <1>6, <1>7 DEF StatesOK
    <3>2. At(body[q].of, "done")'
      BY <3>1, <1>16
    <3>. QED  BY <3>1, <3>2
  <2>. QED  BY <2>2, <2>3
<1>18. StatesOK'
  BY <1>10, <1>15, <1>16, <1>17, SparedStates
<1>19. EntryIsCurrent'
  <2>1. decision[r] = "none"
    BY <1>5 DEF PlacesOK
  <2>. QED  BY <2>1, <1>5, <1>6 DEF EntryIsCurrent
<1>. QED  BY <1>11, <1>12, <1>13, <1>14, <1>18, <1>19

\* A request on its way goes from one point to another and changes no file.
LEMMA PointKeeps ==
  ASSUME TypesOK, PlacesOK, StatesOK, SessionsOK, \A f \in Files : OneWriter(f), NEW r \in Requests,
         NEW w \in Points \ {"idle", "done"}, At(r, w),
         NEW v \in Points \ {"idle", "callback", "create"}, GoesTo(r, v),
         UNCHANGED <<body, file, hand, then, made, ended, lateFor, lost>>, met \subseteq met',
         \A q \in Requests \ {r} : decision'[q] = decision[q]
  PROVE  /\ Placed' /\ PlacesOK' /\ SessionsOK' /\ StatesOK'
         /\ \A f \in Files : OneWriter(f)'
         /\ \A f : Spares(f)
<1>1. \A f : Spares(f)
  BY PointSpares
<1>2. Placed'
  BY StaysPlaced DEF GoesTo
<1>3. /\ At(r, v)' /\ (\A x : At(r, x)' => x = v) /\ \A u : ~Doing(r, u)'
      /\ \A q \in Requests \ {r} : (\A x : At(q, x)' <=> At(q, x)) /\ (\A u : Doing(q, u)' <=> Doing(q, u))
  BY ToPoint, Elsewhere DEF GoesTo
<1>4. \A x : At(r, x) => x = w
  BY PlacesExclude, Zenon
<1>5. PlacesOK'
  BY <1>3, <1>4 DEF PlacesOK
<1>6. \A q \in Requests : Taken(q)' => Taken(q)
  BY <1>3 DEF Taken
<1>7. \A q \in Requests : At(q, "done") => At(q, "done")'
  BY <1>4, DoneStays DEF GoesTo
<1>8. \A q \in Requests : At(q, "callback")' => body'[q].of \in Requests /\ At(body[q].of, "done")'
  <2>1. \A q \in Requests : At(q, "callback")' => At(q, "callback")
    BY <1>3
  <2>2. \A q \in Requests : At(q, "callback") => body[q].of \in Requests /\ At(body[q].of, "done")
    BY DEF StatesOK
  <2>. QED  BY <1>7, <2>1, <2>2
<1>9. StatesOK'
  BY <1>1, <1>6, <1>7, <1>8, SparedStates
<1>10. SessionsOK' /\ \A f \in Files : OneWriter(f)'
  BY <1>1, SparedSessions, SparedWriter
<1>. QED  BY <1>1, <1>2, <1>5, <1>9, <1>10

\* A request on its way begins an update.
LEMMA BeginKeeps ==
  ASSUME TypesOK, PlacesOK, \A f \in Files : OneWriter(f), NEW r \in Requests,
         NEW w \in Points \ {"idle", "done"}, At(r, w),
         NEW u \in Updates, NEW data, NEW next, BeginsUpdate(r, u, data, next),
         IF u = "note" THEN next = "oauth" ELSE IF u = "pop" THEN next \in {"create", "done"}
                                                             ELSE next = "done",
         UNCHANGED <<body, file, made, ended, lateFor, lost>>,
         \A q \in Requests \ {r} : decision'[q] = decision[q]
  PROVE  /\ Placed' /\ DOMAIN hand' = Requests /\ DOMAIN then' = Requests
         /\ PlacesOK' /\ \A f \in Files : OneWriter(f)'
         /\ \A q \in Requests : At(q, "done") => At(q, "done")'
         /\ Doing(r, u)' /\ Opening(r, u)' /\ hand'[r] = data /\ then'[r] = next /\ r \notin made
         /\ \A x \in Points : ~At(r, x)'
         /\ \A x : Doing(r, x)' => x = u
         /\ \A x : At(r, x) => x = w
         /\ \A x : ~Doing(r, x)
         /\ \A q \in Requests \ {r} :
              /\ hand'[q] = hand[q] /\ then'[q] = then[q]
              /\ \A x : At(q, x)' <=> At(q, x)
              /\ \A x : (Doing(q, x)' <=> Doing(q, x)) /\ (Opening(q, x)' <=> Opening(q, x))
              /\ \A g : Holds(q, g)' <=> Holds(q, g)
<1>1. Placed' /\ DOMAIN hand' = Requests /\ DOMAIN then' = Requests
  BY StaysPlaced DEF BeginsUpdate, TypesOK
<1>2. /\ Doing(r, u)' /\ Opening(r, u)' /\ (\A x : Doing(r, x)' => x = u)
      /\ \A x \in Points : ~At(r, x)'
  BY ToUpdate DEF BeginsUpdate
<1>3. /\ hand'[r] = data /\ then'[r] = next
      /\ \A q \in Requests \ {r} : hand'[q] = hand[q] /\ then'[q] = then[q]
  BY DEF BeginsUpdate, TypesOK
<1>4. \A q \in Requests \ {r} :
        /\ \A x : At(q, x)' <=> At(q, x)
        /\ \A x : (Doing(q, x)' <=> Doing(q, x)) /\ (Opening(q, x)' <=> Opening(q, x))
        /\ \A g : Holds(q, g)' <=> Holds(q, g)
  BY Elsewhere DEF BeginsUpdate
<1>5. \A x : At(r, x) => x = w
  BY PlacesExclude, Zenon
<1>6. \A x : ~Doing(r, x)
  BY PlacesExclude, Zenon
<1>7. r \notin made
  BY <1>5 DEF PlacesOK
<1>8. PlacesOK'
  <2>1. "idle" \in Points /\ "done" \in Points
    BY DEF Points
  <2>2. ASSUME NEW q \in Requests \ {r}
        PROVE  /\ At(q, "idle")' => decision'[q] = "none"
               /\ ~At(q, "idle")' => body'[q] \in Body
               /\ Doing(q, "note")' => then'[q] = "oauth"
               /\ Doing(q, "pop")' => then'[q] \in {"create", "done"}
               /\ \A x \in Updates \ {"note", "pop"} : Doing(q, x)' => then'[q] = "done"
               /\ q \in made' => At(q, "done")'
               /\ lateFor'[q] \subseteq ended'
    BY <1>3, <1>4 DEF PlacesOK
  <2>3. body[r] \in Body /\ lateFor[r] \subseteq ended
    BY <1>5 DEF PlacesOK
  <2>4. /\ ~At(r, "idle")' /\ body'[r] \in Body /\ r \notin made' /\ lateFor'[r] \subseteq ended'
        /\ \A x : Doing(r, x)' => x = u
    BY <1>2, <1>7, <2>1, <2>3
  <2>5. /\ Doing(r, "note")' => then'[r] = "oauth"
        /\ Doing(r, "pop")' => then'[r] \in {"create", "done"}
        /\ \A x \in Updates \ {"note", "pop"} : Doing(r, x)' => then'[r] = "done"
    BY <1>3, <2>4
  <2>. QED  BY <2>2, <2>4, <2>5 DEF PlacesOK
<1>9. \A f \in Files : OneWriter(f)'
  <2>1. OneWriter(FileOf[u])'
    BY BeginWriter DEF FileOf, Files, Updates
  <2>2. ASSUME NEW f \in Files, f # FileOf[u]
        PROVE  OneWriter(f)'
    BY <2>2, BeginSpares, SparedWriter
  <2>. QED  BY <2>1, <2>2
<1>10. \A q \in Requests : At(q, "done") => At(q, "done")'
  BY <1>5, DoneStays DEF BeginsUpdate
<1>. QED  BY <1>1, <1>2, <1>3, <1>4, <1>5, <1>6, <1>7, <1>8, <1>9, <1>10

LEMMA CheckTokenKeeps ==
  ASSUME SignInInv, NEW r \in Requests, CheckToken(r)
  PROVE  SignInInv'
<1>. USE DEF SignInInv
<1>1. PICK v \in {"oauth", "done", "clear", "note"}, d \in {"limited", "open", "token", "refused"} :
        Decides(r, d) /\ GoesTo(r, v)
  BY Zenon DEF CheckToken
<1>2. /\ UNCHANGED <<body, file, hand, then, failed, aged, cleared, made, ended, lateFor, met, lost>>
      /\ At(r, "check")
  BY DEF CheckToken, clockVars, histVars
<1>3. /\ DOMAIN decision' = Requests /\ decision'[r] # "session"
      /\ \A q \in Requests \ {r} : decision'[q] = decision[q]
  BY <1>1 DEF Decides, TypesOK
<1>4. v \in Points \ {"idle", "callback", "create"} /\ "check" \in Points \ {"idle", "done"}
  BY DEF Points
<1>5. /\ Placed' /\ PlacesOK' /\ SessionsOK' /\ StatesOK'
      /\ (\A f \in Files : OneWriter(f)') /\ \A f : Spares(f)
  BY <1>1, <1>2, <1>3, <1>4, PointKeeps
<1>6. TypesOK'
  BY <1>2, <1>3, <1>5 DEF TypesOK
<1>7. ClockOK' /\ FailuresOK'
  BY <1>2, <1>5, SparedFailures DEF ClockOK
<1>8. EntryIsCurrent'
  BY <1>2, <1>3 DEF EntryIsCurrent
<1>. QED  BY <1>5, <1>6, <1>7, <1>8

\* An update of another file leaves the states as they are.
LEMMA BeginStates ==
  ASSUME TypesOK, PlacesOK, StatesOK, \A f \in Files : OneWriter(f), NEW r \in Requests,
         NEW w \in Points \ {"idle", "done"}, At(r, w),
         NEW u \in Updates \ {"save", "pop"}, u = "create" => w = "create",
         NEW data, NEW next, BeginsUpdate(r, u, data, next),
         IF u = "note" THEN next = "oauth" ELSE next = "done",
         UNCHANGED <<body, file, made, ended, lateFor, lost>>,
         \A q \in Requests \ {r} : decision'[q] = decision[q]
  PROVE  StatesOK'
<1>1. /\ ~Doing(r, "pop")' /\ ~At(r, "create")' /\ ~At(r, "callback")' /\ r \notin made
      /\ Doing(r, "create")' => u = "create"
      /\ \A q \in Requests \ {r} :
           /\ then'[q] = then[q] /\ \A x : (At(q, x)' <=> At(q, x)) /\ (Doing(q, x)' <=> Doing(q, x))
      /\ \A q \in Requests : At(q, "done") => At(q, "done")'
  BY BeginKeeps DEF Points
<1>2. \A q \in Requests : Taken(q)' => Taken(q)
  BY <1>1 DEF Taken
<1>3. \A q \in Requests : At(q, "callback")' => body'[q].of \in Requests /\ At(body[q].of, "done")'
  <2>1. \A q \in Requests : At(q, "callback")' => body[q].of \in Requests /\ At(body[q].of, "done")
    BY <1>1 DEF StatesOK
  <2>. QED  BY <1>1, <2>1
<1>4. Spares("states")
  BY BeginSpares DEF FileOf, Updates
<1>. QED  BY <1>1, <1>2, <1>3, <1>4, SparedStates

LEMMA LoginKeeps ==
  ASSUME SignInInv, NEW r \in Requests, Login(r)
  PROVE  SignInInv'
<1>. USE DEF SignInInv
<1>. DEFINE data == Read("states") \cup {r}
<1>1. BeginsUpdate(r, "save", data, "done")
  BY DEF Login
<1>. HIDE DEF data
<1>2. /\ UNCHANGED <<body, file, decision, failed, aged, cleared, made, ended, lateFor, lost>>
      /\ At(r, "login")
  BY DEF Login, clockVars
<1>3. /\ "login" \in Points \ {"idle", "done"} /\ "save" \in Updates /\ FileOf["save"] = "states"
      /\ FileOf["pop"] = "states" /\ "pop" \in Updates /\ "states" \in Files
      /\ {"done", "create", "callback"} \subseteq Points
  BY DEF Points, Updates, FileOf, Files
<1>4. /\ Placed' /\ DOMAIN hand' = Requests /\ DOMAIN then' = Requests
      /\ PlacesOK' /\ (\A f \in Files : OneWriter(f)')
      /\ \A q \in Requests : At(q, "done") => At(q, "done")'
  BY <1>1, <1>2, <1>3, BeginKeeps
<1>5. /\ r \notin made /\ hand'[r] = data
      /\ (\A x \in Points : ~At(r, x)') /\ (\A x : Doing(r, x)' => x = "save")
      /\ (\A x : At(r, x) => x = "login") /\ (\A x : ~Doing(r, x))
      /\ \A q \in Requests \ {r} :
           /\ hand'[q] = hand[q] /\ then'[q] = then[q]
           /\ (\A x : At(q, x)' <=> At(q, x))
           /\ \A x : (Doing(q, x)' <=> Doing(q, x)) /\ (Opening(q, x)' <=> Opening(q, x))
  BY <1>1, <1>2, <1>3, BeginKeeps
<1>6. TypesOK'
  BY <1>2, <1>4 DEF TypesOK
<1>7. ClockOK'
  BY <1>2 DEF ClockOK
<1>8. SessionsOK' /\ FailuresOK'
  <2>1. Spares("sessions") /\ Spares("failures")
    BY <1>1, <1>2, <1>3, BeginSpares
  <2>. QED  BY <2>1, <1>2, SparedSessions, SparedFailures
<1>9. EntryIsCurrent'
  <2>1. met \subseteq met'
    BY <1>1 DEF BeginsUpdate
  <2>. QED  BY <2>1, <1>2 DEF EntryIsCurrent
<1>10. \A q \in Requests : Taken(q)' => Taken(q) /\ q # r
  BY <1>2, <1>3, <1>5 DEF Taken
<1>11. ASSUME NEW q \in Requests, Taken(q)' \/ At(q, "callback")' \/ Doing(q, "pop")'
       PROVE  body'[q].of \in Requests /\ At(body[q].of, "done")' /\ body[q].of # r
  <2>1. q # r
    BY <1>3, <1>5, <1>10, <1>11
  <2>2. Taken(q) \/ At(q, "callback") \/ Doing(q, "pop")
    BY <2>1, <1>5, <1>10, <1>11
  <2>3. body[q].of \in Requests /\ At(body[q].of, "done")
    BY <2>2 DEF StatesOK
  <2>4. body[q].of # r
    BY <2>3, <1>5
  <2>. QED  BY <2>3, <2>4, <1>2, <1>4
<1>12. ASSUME "states" \notin met'
       PROVE  /\ \A p, q \in Requests : Taken(p)' /\ Taken(q)' /\ body'[p].of = body'[q].of => p = q
              /\ \A p \in Requests : Taken(p)' =>
                   /\ body'[p].of \in Read("states")' => Opening(p, "pop")'
                   /\ \A q \in Requests : Holds(q, "states")' => body'[p].of \notin hand'[q]
  <2>1. \A q \in Requests \ {r} : ~Holds(q, "states") /\ ~Holds(q, "states")'
    BY <1>1, <1>2, <1>3, <1>12, BeginWriter
  <2>2. "states" \notin met
    BY <1>1, <1>12 DEF BeginsUpdate
  <2>3. \A p \in Requests : Taken(p)' => body[p].of \notin Read("states")
    BY <2>1, <2>2, <1>3, <1>10 DEF StatesOK, Holds, Doing
  <2>4. \A p \in Requests : Taken(p)' => body[p].of \notin data
    BY <2>3, <1>11 DEF data
  <2>5. Read("states")' = Read("states")
    BY <1>2 DEF Read
  <2>6. \A p, q \in Requests : Taken(p)' /\ Taken(q)' /\ body'[p].of = body'[q].of => p = q
    BY <2>2, <1>2, <1>10 DEF StatesOK
  <2>. QED  BY <2>1, <2>3, <2>4, <2>5, <2>6, <1>2, <1>5
<1>13. StatesOK'
  BY <1>11, <1>12 DEF StatesOK
<1>. QED  BY <1>4, <1>6, <1>7, <1>8, <1>9, <1>13

LEMMA CallbackKeeps ==
  ASSUME SignInInv, NEW r \in Requests, Callback(r)
  PROVE  SignInInv'
<1>. USE DEF SignInInv
<1>. DEFINE l    == body[r].of
            data == Read("states") \ {l}
<1>1. PICK next \in {"create", "done"} :
        /\ BeginsUpdate(r, "pop", data, next)
        /\ next = "create" => l \in Read("states")
  BY DEF Callback
<1>. HIDE DEF data
<1>2. /\ UNCHANGED <<body, file, decision, failed, aged, cleared, made, ended, lateFor, lost>>
      /\ At(r, "callback")
  BY DEF Callback, clockVars
<1>3. /\ "callback" \in Points \ {"idle", "done"} /\ "pop" \in Updates /\ FileOf["pop"] = "states"
      /\ "states" \in Files /\ {"done", "create", "callback"} \subseteq Points
  BY DEF Points, Updates, FileOf, Files
<1>4. /\ Placed' /\ DOMAIN hand' = Requests /\ DOMAIN then' = Requests
      /\ PlacesOK' /\ (\A f \in Files : OneWriter(f)')
      /\ \A q \in Requests : At(q, "done") => At(q, "done")'
  BY <1>1, <1>2, <1>3, BeginKeeps
<1>5. /\ r \notin made /\ hand'[r] = data /\ then'[r] = next /\ Opening(r, "pop")'
      /\ (\A x \in Points : ~At(r, x)') /\ (\A x : Doing(r, x)' => x = "pop")
      /\ \A q \in Requests \ {r} :
           /\ hand'[q] = hand[q] /\ then'[q] = then[q]
           /\ (\A x : At(q, x)' <=> At(q, x))
           /\ \A x : (Doing(q, x)' <=> Doing(q, x)) /\ (Opening(q, x)' <=> Opening(q, x))
  BY <1>1, <1>2, <1>3, BeginKeeps
<1>6. TypesOK'
  BY <1>2, <1>4 DEF TypesOK
<1>7. ClockOK'
  BY <1>2 DEF ClockOK
<1>8. SessionsOK' /\ FailuresOK'
  <2>1. Spares("sessions") /\ Spares("failures")
    BY <1>1, <1>2, <1>3, BeginSpares
  <2>. QED  BY <2>1, <1>2, SparedSessions, SparedFailures
<1>9. EntryIsCurrent'
  <2>1. met \subseteq met'
    BY <1>1 DEF BeginsUpdate
  <2>. QED  BY <2>1, <1>2 DEF EntryIsCurrent
<1>10. /\ \A q \in Requests \ {r} : Taken(q)' => Taken(q)
       /\ Taken(r)' => l \in Read("states")
  <2>1. Taken(r)' => next = "create"
    BY <1>2, <1>3, <1>5 DEF Taken
  <2>2. \A q \in Requests \ {r} : Taken(q)' => Taken(q)
    BY <1>2, <1>5 DEF Taken
  <2>. QED  BY <2>1, <2>2, <1>1
<1>11. ASSUME NEW q \in Requests, Taken(q)' \/ At(q, "callback")' \/ Doing(q, "pop")'
       PROVE  body'[q].of \in Requests /\ At(body[q].of, "done")'
  <2>1. Taken(q) \/ At(q, "callback") \/ Doing(q, "pop")
    BY <1>2, <1>5, <1>10, <1>11
  <2>2. body[q].of \in Requests /\ At(body[q].of, "done")
    BY <2>1 DEF StatesOK
  <2>. QED  BY <2>2, <1>2, <1>4
<1>12. ASSUME "states" \notin met'
       PROVE  /\ \A p, q \in Requests : Taken(p)' /\ Taken(q)' /\ body'[p].of = body'[q].of => p = q
              /\ \A p \in Requests : Taken(p)' =>
                   /\ body'[p].of \in Read("states")' => Opening(p, "pop")'
                   /\ \A q \in Requests : Holds(q, "states")' => body'[p].of \notin hand'[q]
  <2>1. \A q \in Requests \ {r} : ~Holds(q, "states") /\ ~Holds(q, "states")'
    BY <1>1, <1>2, <1>3, <1>12, BeginWriter
  <2>2. "states" \notin met
    BY <1>1, <1>12 DEF BeginsUpdate
  <2>3. \A p \in Requests \ {r} : Taken(p)' => body[p].of \notin Read("states")
    BY <2>1, <2>2, <1>3, <1>10 DEF StatesOK, Holds, Doing
  <2>4. \A p \in Requests : Taken(p)' => body[p].of \notin data
    BY <2>3 DEF data
  <2>5. Read("states")' = Read("states")
    BY <1>2 DEF Read
  <2>6. \A p, q \in Requests : Taken(p)' /\ Taken(q)' /\ body'[p].of = body'[q].of => p = q
    <3>1. \A p, q \in Requests \ {r} : Taken(p)' /\ Taken(q)' /\ body[p].of = body[q].of => p = q
      BY <2>2, <1>10 DEF StatesOK
    <3>2. \A p \in Requests \ {r} : Taken(p)' /\ Taken(r)' => body[p].of # body[r].of
      BY <2>3, <1>10
    <3>. QED  BY <3>1, <3>2, <1>2
  <2>. QED  BY <2>1, <2>3, <2>4, <2>5, <2>6, <1>2, <1>5
<1>13. StatesOK'
  BY <1>11, <1>12 DEF StatesOK
<1>. QED  BY <1>4, <1>6, <1>7, <1>8, <1>9, <1>13

\* An update of the sessions takes in hand what is to follow.
LEMMA BeginSessions ==
  ASSUME TypesOK, PlacesOK, SessionsOK, \A f \in Files : OneWriter(f), NEW r \in Requests,
         NEW w \in Points \ {"idle", "done"}, At(r, w),
         NEW u \in {"create", "expire", "leave"}, NEW data, BeginsUpdate(r, u, data, "done"),
         IF u = "create" THEN data = Read("sessions") \cup {r}
         ELSE data = Read("sessions") \ {body[r].bearer} /\ body[r].bearer \in Read("sessions"),
         UNCHANGED <<body, file, made, ended, lateFor, lost>>,
         \A q \in Requests \ {r} : decision'[q] = decision[q]
  PROVE  SessionsOK'
<1>1. u \in Updates /\ FileOf[u] = "sessions" /\ "sessions" \in Files
  BY DEF Updates, FileOf, Files
<1>2. /\ hand'[r] = data /\ r \notin made /\ Doing(r, u)' /\ (\A x : Doing(r, x)' => x = u)
      /\ \A q \in Requests \ {r} :
           /\ hand'[q] = hand[q]
           /\ \A x : (Doing(q, x)' <=> Doing(q, x)) /\ (Opening(q, x)' <=> Opening(q, x))
  BY <1>1, BeginKeeps
<1>3. /\ ~Holds(r, "sessions") /\ Holds(r, "sessions")'
      /\ \A q \in Requests \ {r} : "sessions" \notin met' => ~Holds(q, "sessions") /\ ~Holds(q, "sessions")'
  BY <1>1, BeginWriter
<1>4. met \subseteq met' /\ Read("sessions")' = Read("sessions")
  BY DEF BeginsUpdate, Read
<1>5. ended' \subseteq made' /\ Read("sessions")' \subseteq made'
  BY <1>4 DEF SessionsOK
<1>6. /\ Doing(r, "create")' => hand'[r] \subseteq made' \cup {r}
      /\ \A x \in {"leave", "expire"} : Doing(r, x)' => hand'[r] \subseteq made' /\ body'[r].bearer \in made'
  BY <1>2, <1>4, <1>5
<1>7. \A q \in Requests \ {r} :
        /\ Doing(q, "create")' => hand'[q] \subseteq made' \cup {q}
        /\ \A x \in {"leave", "expire"} : Doing(q, x)' => hand'[q] \subseteq made' /\ body'[q].bearer \in made'
  BY <1>2 DEF SessionsOK
<1>8. ASSUME "sessions" \notin met'
      PROVE  /\ Read("sessions")' \cap ended' = {}
             /\ \A q \in Requests : Holds(q, "sessions")' => hand'[q] \cap ended' = {}
             /\ \A q \in Requests, x \in {"leave", "expire"} : Doing(q, x)' => body'[q].bearer \notin hand'[q]
  <2>1. Read("sessions") \cap ended = {} /\ ended \subseteq made
    BY <1>4, <1>8 DEF SessionsOK
  <2>2. hand'[r] \cap ended' = {}
    BY <2>1, <1>2
  <2>3. \A x \in {"leave", "expire"} : Doing(r, x)' => body'[r].bearer \notin hand'[r]
    BY <1>2
  <2>4. \A q \in Requests \ {r}, x \in {"leave", "expire"} : ~Doing(q, x)'
    BY <1>3, <1>8 DEF Holds, FileOf, Updates
  <2>. QED  BY <2>1, <2>2, <2>3, <2>4, <1>3, <1>4, <1>8
<1>9. ASSUME "sessions" \notin met' \cup lost'
      PROVE  /\ (\A q \in Requests : ~Holds(q, "sessions")') => file'["sessions"] = Whole(made' \ ended')
             /\ \A q \in Requests, x \in {"create", "leave", "expire"} :
                  /\ Opening(q, x)' => file'["sessions"] = Whole(made' \ ended')
                  /\ Doing(q, x)' => hand'[q] = Leaves(q)'
  <2>1. file["sessions"] = Whole(made \ ended)
    BY <1>3, <1>4, <1>9 DEF SessionsOK
  <2>2. Read("sessions") = made \ ended
    BY <2>1 DEF Read, Whole
  <2>3. hand'[r] = Leaves(r)'
    BY <2>2, <1>2 DEF Leaves
  <2>4. \A q \in Requests \ {r}, x \in {"create", "leave", "expire"} : ~Doing(q, x)'
    BY <1>3, <1>9 DEF Holds, FileOf, Updates
  <2>. QED  BY <2>1, <2>3, <2>4
<1>10. \A q \in Requests :
        /\ Doing(q, "create")' => hand'[q] \subseteq made' \cup {q}
        /\ \A x \in {"leave", "expire"} : Doing(q, x)' => hand'[q] \subseteq made' /\ body'[q].bearer \in made'
  BY <1>6, <1>7
<1>. QED  BY <1>5, <1>8, <1>9, <1>10 DEF SessionsOK

LEMMA CreateSessionKeeps ==
  ASSUME SignInInv, NEW r \in Requests, CreateSession(r)
  PROVE  SignInInv'
<1>. USE DEF SignInInv
<1>1. /\ BeginsUpdate(r, "create", Read("sessions") \cup {r}, "done") /\ At(r, "create")
      /\ UNCHANGED <<body, file, decision, failed, aged, cleared, made, ended, lateFor, lost>>
  BY DEF CreateSession, clockVars
<1>2. "create" \in Points \ {"idle", "done"} /\ "create" \in Updates \ {"save", "pop"}
      /\ FileOf["create"] = "sessions"
  BY DEF Points, Updates, FileOf
<1>3. /\ Placed' /\ DOMAIN hand' = Requests /\ DOMAIN then' = Requests
      /\ PlacesOK' /\ \A f \in Files : OneWriter(f)'
  BY <1>1, <1>2, BeginKeeps
<1>4. SessionsOK'
  BY <1>1, <1>2, BeginSessions
<1>5. StatesOK'
  BY <1>1, <1>2, BeginStates
<1>6. FailuresOK'
  BY <1>1, <1>2, BeginSpares, SparedFailures
<1>7. TypesOK' /\ ClockOK'
  BY <1>1, <1>3 DEF TypesOK, ClockOK
<1>8. EntryIsCurrent'
  BY <1>1 DEF EntryIsCurrent, BeginsUpdate
<1>. QED  BY <1>3, <1>4, <1>5, <1>6, <1>7, <1>8

LEMMA LogoutKeeps ==
  ASSUME SignInInv, NEW r \in Requests, Logout(r)
  PROVE  SignInInv'
<1>. USE DEF SignInInv
<1>1. /\ At(r, "logout")
      /\ UNCHANGED <<body, file, decision, failed, aged, cleared, made, ended, lateFor, lost>>
  BY DEF Logout, clockVars
<1>2. /\ "logout" \in Points \ {"idle", "done"} /\ "leave" \in Updates \ {"save", "pop"}
      /\ "done" \in Points \ {"idle", "callback", "create"} /\ FileOf["leave"] = "sessions"
  BY DEF Points, Updates, FileOf
<1>3. ClockOK'
  BY <1>1 DEF ClockOK
<1>4. CASE body[r].bearer \in Read("sessions")
  <2>1. BeginsUpdate(r, "leave", Read("sessions") \ {body[r].bearer}, "done")
    BY <1>4 DEF Logout
  <2>2. /\ Placed' /\ DOMAIN hand' = Requests /\ DOMAIN then' = Requests
        /\ PlacesOK' /\ \A f \in Files : OneWriter(f)'
    BY <2>1, <1>1, <1>2, BeginKeeps
  <2>3. SessionsOK'
    BY <2>1, <1>1, <1>2, <1>4, BeginSessions
  <2>4. StatesOK'
    BY <2>1, <1>1, <1>2, BeginStates
  <2>5. FailuresOK'
    BY <2>1, <1>1, <1>2, BeginSpares, SparedFailures
  <2>6. TypesOK'
    BY <2>2, <1>1 DEF TypesOK
  <2>7. EntryIsCurrent'
    BY <2>1, <1>1 DEF EntryIsCurrent, BeginsUpdate
  <2>. QED  BY <2>2, <2>3, <2>4, <2>5, <2>6, <2>7, <1>3
<1>5. CASE body[r].bearer \notin Read("sessions")
  <2>1. GoesTo(r, "done") /\ met \subseteq met' /\ UNCHANGED <<hand, then>>
    BY <1>5 DEF Logout, OnlyReads
  <2>2. /\ Placed' /\ PlacesOK' /\ SessionsOK' /\ StatesOK'
        /\ (\A f \in Files : OneWriter(f)') /\ \A f : Spares(f)
    BY <2>1, <1>1, <1>2, PointKeeps
  <2>3. TypesOK'
    BY <2>1, <2>2, <1>1 DEF TypesOK
  <2>4. FailuresOK' /\ EntryIsCurrent'
    BY <2>1, <2>2, <1>1, SparedFailures DEF EntryIsCurrent
  <2>. QED  BY <2>2, <2>3, <2>4, <1>3
<1>. QED  BY <1>4, <1>5

LEMMA CheckSessionKeeps ==
  ASSUME SignInInv, NEW r \in Requests, CheckSession(r)
  PROVE  SignInInv'
<1>. USE DEF SignInInv
<1>1. /\ At(r, "oauth")
      /\ UNCHANGED <<body, file, failed, aged, cleared, made, ended, lateFor, lost>>
  BY DEF CheckSession, clockVars
<1>2. /\ "oauth" \in Points \ {"idle", "done"} /\ "expire" \in Updates \ {"save", "pop"}
      /\ "done" \in Points \ {"idle", "callback", "create"} /\ FileOf["expire"] = "sessions"
  BY DEF Points, Updates, FileOf
<1>3. ClockOK'
  BY <1>1 DEF ClockOK
<1>4. \/ /\ body[r].bearer \in Read("sessions") /\ decision' = decision
         /\ BeginsUpdate(r, "expire", Read("sessions") \ {body[r].bearer}, "done")
      \/ /\ OnlyReads(r, "sessions", "done")
         /\ \/ body[r].bearer \in Read("sessions") /\ Decides(r, "session")
            \/ decision' = decision
  BY Zenon DEF CheckSession
<1>5. CASE /\ body[r].bearer \in Read("sessions") /\ decision' = decision
           /\ BeginsUpdate(r, "expire", Read("sessions") \ {body[r].bearer}, "done")
  <2>1. /\ Placed' /\ DOMAIN hand' = Requests /\ DOMAIN then' = Requests
        /\ PlacesOK' /\ \A f \in Files : OneWriter(f)'
    BY <1>1, <1>2, <1>5, BeginKeeps
  <2>2. SessionsOK'
    BY <1>1, <1>2, <1>5, BeginSessions
  <2>3. StatesOK'
    BY <1>1, <1>2, <1>5, BeginStates
  <2>4. FailuresOK'
    BY <1>1, <1>2, <1>5, BeginSpares, SparedFailures
  <2>5. TypesOK'
    BY <2>1, <1>1, <1>5 DEF TypesOK
  <2>6. EntryIsCurrent'
    BY <1>1, <1>5 DEF EntryIsCurrent, BeginsUpdate
  <2>. QED  BY <2>1, <2>2, <2>3, <2>4, <2>5, <2>6, <1>3
<1>6. CASE /\ OnlyReads(r, "sessions", "done")
           /\ \/ body[r].bearer \in Read("sessions") /\ Decides(r, "session")
              \/ decision' = decision
  <2>1. GoesTo(r, "done") /\ met \subseteq met' /\ UNCHANGED <<hand, then>>
    BY <1>6 DEF OnlyReads
  <2>2. /\ DOMAIN decision' = Requests
        /\ \A q \in Requests \ {r} : decision'[q] = decision[q]
        /\ decision'[r] = "session" => decision[r] = "session" \/ body[r].bearer \in Read("sessions")
    BY <1>6 DEF Decides, TypesOK
  <2>3. /\ Placed' /\ PlacesOK' /\ SessionsOK' /\ StatesOK'
        /\ (\A f \in Files : OneWriter(f)') /\ \A f : Spares(f)
    BY <2>1, <2>2, <1>1, <1>2, PointKeeps
  <2>4. TypesOK'
    BY <2>1, <2>2, <2>3, <1>1 DEF TypesOK
  <2>5. FailuresOK'
    BY <2>3, <1>1, SparedFailures
  <2>6. body[r].bearer \in Read("sessions") =>
          body[r].bearer \in made /\ (body[r].bearer \in lateFor[r] => "sessions" \in met)
    BY DEF SessionsOK, PlacesOK
  <2>7. EntryIsCurrent'
    BY <2>1, <2>2, <2>6, <1>1 DEF EntryIsCurrent
  <2>. QED  BY <2>3, <2>4, <2>5, <2>7, <1>3
<1>. QED  BY <1>4, <1>5, <1>6

\* What it will count, after the step, to count D.
WillCount(D) ==
  \A c \in Capabilities :
    {e \in D : e[1] = c /\ e[2] > aged'}
      = {e \in {x \in failed' : x[1] = c /\ x[2] > aged'} : e[2] > cleared'[c]}

\* An update of the failures takes in hand what is to count from then on.
LEMMA BeginFailures ==
  ASSUME TypesOK, FailuresOK, \A f \in Files : OneWriter(f), NEW r \in Requests,
         NEW w \in Points, At(r, w), NEW u \in {"note", "clear"}, NEW data, NEW next,
         BeginsUpdate(r, u, data, next), UNCHANGED <<file, lost>>, data \subseteq Failures,
         Counts(Read("failures")) => WillCount(data)
  PROVE  FailuresOK'
<1>1. u \in Updates /\ FileOf[u] = "failures" /\ "failures" \in Files
  BY DEF Updates, FileOf, Files
<1>2. /\ hand'[r] = data /\ ~Holds(r, "failures") /\ Holds(r, "failures")'
      /\ \A q \in Requests \ {r} :
           "failures" \notin met' => ~Holds(q, "failures") /\ ~Holds(q, "failures")'
  BY <1>1, BeginWriter
<1>3. \A q \in Requests \ {r} : hand'[q] = hand[q] /\ (Holds(q, "failures")' <=> Holds(q, "failures"))
  BY Elsewhere DEF BeginsUpdate, TypesOK
<1>4. met \subseteq met' /\ Read("failures")' = Read("failures")
  BY DEF BeginsUpdate, Read
<1>5. \A q \in Requests : Holds(q, "failures")' => hand'[q] \subseteq Failures
  BY <1>2, <1>3 DEF FailuresOK
<1>6. ASSUME "failures" \notin met' \cup lost'
      PROVE  \A q \in Requests : Holds(q, "failures")' => q = r /\ WillCount(data)
  BY <1>2, <1>4, <1>6 DEF FailuresOK
<1>7. WillCount(data) <=> Counts(hand[r])'
  BY <1>2 DEF WillCount, Counts, InWindow
<1>. QED  BY <1>2, <1>4, <1>5, <1>6, <1>7 DEF FailuresOK

LEMMA NoteFailureKeeps ==
  ASSUME SignInInv, NEW r \in Requests, NoteFailure(r)
  PROVE  SignInInv'
<1>. USE DEF SignInInv
<1>. DEFINE n    == Noted(r)
            N    == Cardinality(failed)
            data == {e \in Read("failures") : e[1] # Client(r)}
                      \cup InWindow(Read("failures"), Client(r)) \cup {n}
<1>1. /\ At(r, "note") /\ failed' = failed \cup {n}
      /\ BeginsUpdate(r, "note", data, "oauth")
      /\ UNCHANGED <<body, file, decision, aged, cleared, made, ended, lateFor, lost>>
  <2>1. \A A, B, C : A \cup (B \cup C) = A \cup B \cup C
    OBVIOUS
  <2>. QED  BY <2>1 DEF NoteFailure
<1>2. /\ "note" \in Points \ {"idle", "done"} /\ "note" \in Updates \ {"save", "pop"}
      /\ FileOf["note"] = "failures" /\ {"idle", "done"} \subseteq Points
  BY DEF Points, Updates, FileOf
<1>3. Client(r) \in Capabilities
  <2>1. ~At(r, "idle")
    BY <1>1, PlacesExclude, Zenon
  <2>. QED  BY <2>1 DEF PlacesOK, Body, Client
<1>4. N \in Nat
  BY FS_CardinalityType DEF TypesOK
<1>5. n[1] = Client(r) /\ n[2] = N + 1 /\ n \in Failures
  BY <1>3, <1>4 DEF Noted, Failures
<1>. HIDE DEF n
<1>6. n \notin failed
  BY <1>4, <1>5 DEF ClockOK
<1>7. IsFiniteSet(failed') /\ Cardinality(failed') = N + 1
  BY <1>1, <1>6, FS_AddElement DEF TypesOK
<1>8. ClockOK'
  <2>1. aged \in Nat /\ cleared \in [Capabilities -> Nat] /\ \A e \in failed : e[2] \in Nat
    BY DEF TypesOK, Failures
  <2>2. aged <= N /\ (\A e \in failed : e[2] <= N) /\ \A c \in Capabilities : cleared[c] <= N
    BY DEF ClockOK
  <2>. HIDE DEF N
  <2>3. aged <= N + 1 /\ (\A e \in failed : e[2] <= N + 1) /\ \A c \in Capabilities : cleared[c] <= N + 1
    BY <2>1, <2>2, <1>4
  <2>4. n[2] <= N + 1
    BY <1>4, <1>5
  <2>5. \A e \in failed' : e[2] <= N + 1
    BY <2>3, <2>4, <1>1
  <2>. QED  BY <2>3, <2>5, <1>1, <1>7 DEF ClockOK
<1>. HIDE DEF N
<1>9. /\ Placed' /\ DOMAIN hand' = Requests /\ DOMAIN then' = Requests
      /\ PlacesOK' /\ \A f \in Files : OneWriter(f)'
  BY <1>1, <1>2, BeginKeeps
<1>10. StatesOK'
  BY <1>1, <1>2, BeginStates
<1>11. SessionsOK'
  BY <1>1, <1>2, BeginSpares, SparedSessions
<1>12. TypesOK'
  BY <1>1, <1>5, <1>7, <1>9 DEF TypesOK
<1>13. EntryIsCurrent'
  BY <1>1 DEF EntryIsCurrent, BeginsUpdate
<1>14. data \subseteq Failures
  BY <1>5 DEF FailuresOK, InWindow
<1>15. ASSUME Counts(Read("failures")), NEW c \in Capabilities
       PROVE  {e \in data : e[1] = c /\ e[2] > aged'}
                = {e \in {x \in failed' : x[1] = c /\ x[2] > aged'} : e[2] > cleared'[c]}
  <2>. DEFINE R == Read("failures")
  <2>1. InWindow(R, c) = {e \in InWindow(failed, c) : e[2] > cleared[c]}
    BY <1>15 DEF Counts
  <2>. HIDE DEF R
  <2>2. n[2] > aged /\ n[2] > cleared[c]
    BY <1>4, <1>5 DEF ClockOK, TypesOK, N
  <2>4. data = {e \in R : e[1] # Client(r)} \cup InWindow(R, Client(r)) \cup {n}
    BY DEF R
  <2>5. failed' = failed \cup {n}
    BY <1>1
  <2>. HIDE DEF data
  <2>6. {e \in data : e[1] = c /\ e[2] > aged}
          = InWindow(R, c) \cup (IF c = Client(r) THEN {n} ELSE {})
    BY <2>2, <2>4, <1>5 DEF InWindow
  <2>7. {e \in {x \in failed' : x[1] = c /\ x[2] > aged} : e[2] > cleared[c]}
          = {e \in InWindow(failed, c) : e[2] > cleared[c]} \cup (IF c = Client(r) THEN {n} ELSE {})
    BY <2>2, <2>5, <1>5 DEF InWindow
  <2>. QED  BY <2>1, <2>6, <2>7, <1>1
<1>16. Counts(Read("failures")) => WillCount(data)
  BY <1>15 DEF WillCount
<1>. HIDE DEF data
<1>17. FailuresOK'
  BY <1>1, <1>2, <1>14, <1>16, BeginFailures
<1>. QED  BY <1>8, <1>9, <1>10, <1>11, <1>12, <1>13, <1>17

LEMMA ClearFailuresKeeps ==
  ASSUME SignInInv, NEW r \in Requests, ClearFailures(r)
  PROVE  SignInInv'
<1>. USE DEF SignInInv
<1>. DEFINE N    == Cardinality(failed)
            R    == Read("failures")
            data == {e \in R : e[1] # Client(r)}
<1>1. /\ At(r, "clear") /\ cleared' = [cleared EXCEPT ![Client(r)] = N]
      /\ UNCHANGED <<body, file, decision, failed, aged, made, ended, lateFor, lost>>
  BY DEF ClearFailures, clockVars
<1>2. /\ "clear" \in Points \ {"idle", "done"} /\ "clear" \in Updates \ {"save", "pop"}
      /\ "done" \in Points \ {"idle", "callback", "create"} /\ FileOf["clear"] = "failures"
  BY DEF Points, Updates, FileOf
<1>3. Client(r) \in Capabilities
  <2>1. ~At(r, "idle")
    BY <1>1, PlacesExclude, Zenon DEF Points
  <2>. QED  BY <2>1 DEF PlacesOK, Body, Client
<1>4. N \in Nat
  BY FS_CardinalityType DEF TypesOK
<1>5. cleared' \in [Capabilities -> Nat] /\ cleared'[Client(r)] = N
      /\ \A c \in Capabilities : c # Client(r) => cleared'[c] = cleared[c]
  BY <1>1, <1>3, <1>4 DEF TypesOK
<1>6. ClockOK'
  BY <1>1, <1>4, <1>5 DEF ClockOK
<1>7. \A e \in failed : e[2] \in Nat /\ e[2] <= N
  BY DEF ClockOK, TypesOK, Failures
<1>8. ASSUME Counts(R), NEW c \in Capabilities
      PROVE  {e \in data : e[1] = c /\ e[2] > aged'}
               = {e \in {x \in failed' : x[1] = c /\ x[2] > aged'} : e[2] > cleared'[c]}
  <2>1. InWindow(R, c) = {e \in InWindow(failed, c) : e[2] > cleared[c]}
    BY <1>8 DEF Counts
  <2>2. {x \in failed' : x[1] = c /\ x[2] > aged'} = InWindow(failed, c) /\ aged' = aged
    BY <1>1 DEF InWindow
  <2>4. CASE c = Client(r)
    <3>1. {e \in InWindow(failed, c) : e[2] > cleared'[c]} = {}
      BY <2>4, <1>4, <1>5, <1>7 DEF InWindow
    <3>2. {e \in data : e[1] = c /\ e[2] > aged} = {}
      BY <2>4
    <3>. QED  BY <3>1, <3>2, <2>2
  <2>5. CASE c # Client(r)
    <3>1. {e \in data : e[1] = c /\ e[2] > aged} = InWindow(R, c)
      BY <2>5 DEF InWindow
    <3>. QED  BY <3>1, <2>1, <2>2, <2>5, <1>5
  <2>. QED  BY <2>4, <2>5
<1>9. Counts(R) => WillCount(data)
  BY <1>8 DEF WillCount
<1>10. data \subseteq Failures
  BY DEF FailuresOK
<1>. HIDE DEF data, N, R
<1>11. CASE BeginsUpdate(r, "clear", data, "done")
  <2>1. /\ Placed' /\ DOMAIN hand' = Requests /\ DOMAIN then' = Requests
        /\ PlacesOK' /\ \A f \in Files : OneWriter(f)'
    BY <1>1, <1>2, <1>11, BeginKeeps
  <2>2. StatesOK'
    BY <1>1, <1>2, <1>11, BeginStates
  <2>3. SessionsOK'
    BY <1>1, <1>2, <1>11, BeginSpares, SparedSessions
  <2>4. TypesOK'
    BY <1>1, <1>5, <2>1 DEF TypesOK
  <2>5. EntryIsCurrent'
    BY <1>1, <1>11 DEF EntryIsCurrent, BeginsUpdate
  <2>6. FailuresOK'
    BY <1>1, <1>2, <1>9, <1>10, <1>11, BeginFailures DEF R
  <2>. QED  BY <2>1, <2>2, <2>3, <2>4, <2>5, <2>6, <1>6
<1>12. CASE data = R /\ OnlyReads(r, "failures", "done")
  <2>1. /\ GoesTo(r, "done") /\ UNCHANGED <<hand, then>>
        /\ met' = met \cup Overlaps(r, "failures") /\ met \subseteq met'
    BY <1>12 DEF OnlyReads
  <2>2. /\ Placed' /\ PlacesOK' /\ SessionsOK' /\ StatesOK'
        /\ (\A f \in Files : OneWriter(f)') /\ \A f : Spares(f)
    BY <2>1, <1>1, <1>2, PointKeeps
  <2>3. TypesOK'
    BY <2>1, <2>2, <1>1, <1>5 DEF TypesOK
  <2>4. EntryIsCurrent'
    BY <2>1, <1>1 DEF EntryIsCurrent
  <2>5. FailuresOK'
    <3>1. \A q \in Requests :
            /\ Holds(q, "failures")' <=> Holds(q, "failures")
            /\ Holds(q, "failures") => hand'[q] = hand[q]
      BY <2>2, SparedUpdates
    <3>2. ~Holds(r, "failures")
      BY <1>1, <1>2, PlacesExclude, Zenon DEF Holds
    <3>3. \A q \in Requests : "failures" \notin met' => ~Holds(q, "failures")
      BY <2>1, <3>2, NoOther
    <3>4. Read("failures")' = R
      BY <1>1 DEF Read, R
    <3>5. "failures" \notin met' \cup lost' => Counts(R)
      BY <2>1, <3>3, <1>1 DEF FailuresOK, R
    <3>6. Counts(R) => Counts(Read("failures"))'
      <4>1. Counts(Read("failures"))' <=> WillCount(data)
        BY <3>4, <1>12 DEF WillCount, Counts, InWindow
      <4>. QED  BY <4>1, <1>9
    <3>. QED  BY <3>1, <3>3, <3>4, <3>5, <3>6 DEF FailuresOK, R
  <2>. QED  BY <2>2, <2>3, <2>4, <2>5, <1>6
<1>13. \/ BeginsUpdate(r, "clear", data, "done")
       \/ data = R /\ OnlyReads(r, "failures", "done")
  BY DEF ClearFailures, data, R
<1>. QED  BY <1>11, <1>12, <1>13

LEMMA OpensKeeps ==
  ASSUME SignInInv, NEW r \in Requests, NEW u \in Updates, Opens(r, u)
  PROVE  SignInInv'
<1>. USE DEF SignInInv
<1>. DEFINE f == FileOf[u]
<1>1. f \in Files /\ {"idle", "done", "callback", "create"} \subseteq Points
  BY DEF FileOf, Files, Updates, Points
<1>2. /\ OneWriter(f)' /\ Opening(r, u) /\ Writing(r, u)' /\ ~Opening(r, u)'
      /\ file'[f] = Truncated /\ UNCHANGED <<body, hand, then, made, ended, met, lost>>
      /\ \A q \in Requests :
           /\ \A v : Doing(q, v)' <=> Doing(q, v)
           /\ \A g : Holds(q, g)' <=> Holds(q, g)
           /\ q # r /\ f \notin met => ~Holds(q, f)
  BY <1>1, OpenWriter
<1>3. UNCHANGED <<decision, failed, aged, cleared, lateFor>>
  BY DEF Opens, clockVars, histVars
<1>4. Doing(r, u) /\ Holds(r, f)
  BY <1>2 DEF Doing, Holds
<1>5. \A w \in Points : ~At(r, w) /\ ~At(r, w)'
  <2>1. \A w \in Points : ~At(r, w)
    BY <1>4, PlacesExclude, Zenon
  <2>2. pc'[r] = <<"write", u>>
    BY Elsewhere DEF Opens
  <2>3. \A x : \A w \in Points : pc'[r] = <<w, "">> => pc'[r] # <<"write", x>>
    BY OnePlace, Zenon
  <2>4. \A w \in Points : pc'[r] # <<w, "">>
    BY <2>2, <2>3, Zenon
  <2>. QED  BY <2>1, <2>4, Zenon DEF At
<1>6. \A q \in Requests, w \in Points : At(q, w)' <=> At(q, w)
  <2>1. \A q \in Requests \ {r}, w \in Points : At(q, w)' <=> At(q, w)
    BY Elsewhere DEF Opens
  <2>. QED  BY <1>5, <2>1
<1>7. \A g \in Files : g # f => Spares(g)
  BY OpenSpares
<1>8. \A g \in Files : OneWriter(g)'
  BY <1>2, <1>7, SparedWriter
<1>9. TypesOK'
  <2>1. Placed'
    BY StaysPlaced DEF Opens
  <2>2. DOMAIN file' = Files
    BY DEF Opens, TypesOK
  <2>. QED  BY <1>2, <1>3, <2>1, <2>2 DEF TypesOK
<1>10. PlacesOK'
  BY <1>1, <1>2, <1>3, <1>6 DEF PlacesOK
<1>11. ClockOK' /\ EntryIsCurrent'
  BY <1>2, <1>3 DEF ClockOK, EntryIsCurrent
<1>12. \A q \in Requests : Taken(q)' <=> Taken(q)
  BY <1>1, <1>2, <1>6 DEF Taken
<1>13. Read(f)' = {}
  BY <1>2 DEF Read, Truncated
<1>14. SessionsOK'
  <2>1. CASE f # "sessions"
    BY <2>1, <1>2, <1>7, SparedSessions DEF Files
  <2>2. CASE f = "sessions"
    <3>1. Read("sessions")' = {} /\ Holds(r, "sessions") /\ Holds(r, "sessions")'
      BY <2>2, <1>2, <1>4, <1>13
    <3>2. \A q \in Requests : Leaves(q)' = Leaves(q)
      BY <1>2 DEF Leaves
    <3>3. \A q \in Requests, x \in {"create", "leave", "expire"} : "sessions" \notin met => ~Opening(q, x)'
      <4>1. ASSUME NEW q \in Requests, NEW x \in {"create", "leave", "expire"},
                   "sessions" \notin met, Opening(q, x)'
            PROVE  FALSE
        <5>1. Doing(q, x)'
          BY <4>1 DEF Doing
        <5>2. Holds(q, "sessions") /\ Doing(q, x)
          BY <5>1, <1>2 DEF Holds, Updates, FileOf
        <5>3. q = r
          BY <5>2, <4>1, <2>2, <1>2
        <5>4. x = u
          BY <5>2, <5>3, <1>4, PlacesExclude, Zenon
        <5>. QED  BY <4>1, <5>3, <5>4, <1>2
      <4>. QED  BY <4>1
    <3>4. \A q \in Requests :
            /\ Doing(q, "create")' => hand'[q] \subseteq made' \cup {q}
            /\ \A x \in {"leave", "expire"} : Doing(q, x)' => hand'[q] \subseteq made' /\ body'[q].bearer \in made'
      BY <1>2 DEF SessionsOK
    <3>5. "sessions" \notin met' =>
            /\ \A q \in Requests : Holds(q, "sessions")' => hand'[q] \cap ended' = {}
            /\ \A q \in Requests, x \in {"leave", "expire"} : Doing(q, x)' => body'[q].bearer \notin hand'[q]
      BY <1>2 DEF SessionsOK
    <3>6. "sessions" \notin met' \cup lost' =>
            \A q \in Requests, x \in {"create", "leave", "expire"} : Doing(q, x)' => hand'[q] = Leaves(q)'
      BY <3>2, <1>2 DEF SessionsOK
    <3>7. ended' \subseteq made'
      BY <1>2 DEF SessionsOK
    <3>. QED  BY <3>1, <3>3, <3>4, <3>5, <3>6, <3>7, <1>2 DEF SessionsOK
  <2>. QED  BY <2>1, <2>2
<1>15. FailuresOK'
  <2>1. CASE f # "failures"
    BY <2>1, <1>3, <1>7, SparedFailures DEF Files
  <2>2. CASE f = "failures"
    <3>1. Read("failures")' = {} /\ Holds(r, "failures")'
      BY <2>2, <1>2, <1>4, <1>13
    <3>2. \A q \in Requests : Counts(hand[q])' <=> Counts(hand[q])
      BY <1>2, <1>3 DEF Counts, InWindow
    <3>. QED  BY <3>1, <3>2, <1>2 DEF FailuresOK
  <2>. QED  BY <2>1, <2>2
<1>16. StatesOK'
  <2>1. "states" \notin met' => \A p \in Requests : Taken(p)' =>
          (body'[p].of \in Read("states")' => Opening(p, "pop")')
    <3>1. CASE f = "states"
      BY <3>1, <1>13
    <3>2. CASE f # "states"
      <4>1. Spares("states")
        BY <3>2, <1>7 DEF Files
      <4>2. Read("states")' = Read("states") /\ \A q \in Requests : Opening(q, "pop") => Opening(q, "pop")'
        BY <4>1 DEF Spares, Read, FileOf, Updates
      <4>. QED  BY <4>2, <1>2, <1>12 DEF StatesOK
    <3>. QED  BY <3>1, <3>2
  <2>2. ASSUME NEW q \in Requests, Taken(q)' \/ At(q, "callback")' \/ Doing(q, "pop")'
        PROVE  body'[q].of \in Requests /\ At(body[q].of, "done")'
    <3>1. Taken(q) \/ At(q, "callback") \/ Doing(q, "pop")
      BY <2>2, <1>1, <1>2, <1>6, <1>12
    <3>2. body[q].of \in Requests /\ At(body[q].of, "done")
      BY <3>1 DEF StatesOK
    <3>3. At(body[q].of, "done")'
      BY <3>2, <1>1, <1>2, <1>6
    <3>. QED  BY <3>2, <3>3, <1>2
  <2>3. "states" \notin met' =>
          /\ \A p, q \in Requests : Taken(p)' /\ Taken(q)' /\ body'[p].of = body'[q].of => p = q
          /\ \A p \in Requests : Taken(p)' =>
               \A q \in Requests : Holds(q, "states")' => body'[p].of \notin hand'[q]
    BY <1>2, <1>12 DEF StatesOK
  <2>. QED  BY <2>1, <2>2, <2>3 DEF StatesOK
<1>. QED  BY <1>8, <1>9, <1>10, <1>11, <1>14, <1>15, <1>16

LEMMA WritesKeeps ==
  ASSUME SignInInv, NEW r \in Requests, NEW u \in Updates, Writes(r, u)
  PROVE  SignInInv'
<1>. USE DEF SignInInv
<1>. DEFINE f == FileOf[u]
<1>1. f \in Files /\ {"idle", "done", "callback", "create", "oauth"} \subseteq Points
  BY DEF FileOf, Files, Updates, Points
<1>2. /\ OneWriter(f)' /\ Doing(r, u) /\ Holds(r, f)
      /\ UNCHANGED <<body, decision, failed, aged, cleared, met, lost>>
      /\ f \notin met => file'[f] = Whole(hand[r])
      /\ Read(f)' \in {hand[r], {}}
      /\ (\A v : ~Doing(r, v)') /\ (\A g : ~Holds(r, g)')
  BY <1>1, WriteWriter
<1>3. \A q \in Requests \ {r} :
        /\ hand'[q] = hand[q] /\ then'[q] = then[q]
        /\ \A v : (Doing(q, v)' <=> Doing(q, v)) /\ (Opening(q, v)' <=> Opening(q, v))
        /\ \A g : Holds(q, g)' <=> Holds(q, g)
        /\ f \notin met => ~Holds(q, f)
  BY <1>1, WriteWriter
<1>4. PICK v \in {"done", "create", "oauth"} :
        then[r] = v /\ (v = "create" => u = "pop") /\ (u = "create" => v = "done")
  BY <1>2 DEF PlacesOK, Updates
<1>5. /\ At(r, v)' /\ (\A w : At(r, w)' => w = v)
      /\ \A w : \A q \in Requests \ {r} : At(q, w)' <=> At(q, w)
  <2>1. v \in Points /\ GoesTo(r, v)
    BY <1>1, <1>4 DEF Writes
  <2>. QED  BY <2>1, ToPoint, Elsewhere DEF GoesTo
<1>6. \A w \in Points : ~At(r, w)
  BY <1>2, PlacesExclude, Zenon
<1>7. /\ made' = IF u = "create" THEN made \cup {r} ELSE made
      /\ ended' = IF u \in {"leave", "expire"} THEN ended \cup {body[r].bearer} ELSE ended
      /\ lateFor' = lateFor
  BY DEF Writes
<1>8. r \notin made
  BY <1>1, <1>6 DEF PlacesOK
<1>9. \A g \in Files : g # f => Spares(g)
  BY WriteSpares
<1>10. \A g \in Files : OneWriter(g)'
  BY <1>2, <1>9, SparedWriter
<1>11. TypesOK'
  <2>1. Placed'
    BY <1>1, <1>4, StaysPlaced DEF Writes, GoesTo
  <2>2. DOMAIN file' = Files /\ DOMAIN hand' = Requests /\ DOMAIN then' = Requests
    BY DEF Writes, TypesOK
  <2>. QED  BY <1>2, <1>7, <2>1, <2>2 DEF TypesOK
<1>12. PlacesOK'
  <2>1. \A q \in Requests \ {r} :
          /\ At(q, "idle")' => decision'[q] = "none"
          /\ ~At(q, "idle")' => body'[q] \in Body
          /\ Doing(q, "note")' => then'[q] = "oauth"
          /\ Doing(q, "pop")' => then'[q] \in {"create", "done"}
          /\ \A x \in Updates \ {"note", "pop"} : Doing(q, x)' => then'[q] = "done"
          /\ q \in made' => At(q, "done")'
          /\ lateFor'[q] \subseteq ended'
    BY <1>2, <1>3, <1>5, <1>7 DEF PlacesOK
  <2>2. body[r] \in Body /\ lateFor[r] \subseteq ended
    BY <1>1, <1>6 DEF PlacesOK
  <2>3. /\ ~At(r, "idle")' /\ body'[r] \in Body /\ lateFor'[r] \subseteq ended'
        /\ (r \in made' => At(r, "done")') /\ \A x : ~Doing(r, x)'
    BY <2>2, <1>2, <1>4, <1>5, <1>7, <1>8
  <2>. QED  BY <2>1, <2>3 DEF PlacesOK
<1>13. ClockOK' /\ EntryIsCurrent'
  BY <1>2, <1>7 DEF ClockOK, EntryIsCurrent
<1>14. \A q \in Requests : Taken(q)' => Taken(q)
  <2>1. \A q \in Requests \ {r} : Taken(q)' => Taken(q)
    BY <1>3, <1>5, <1>7 DEF Taken
  <2>2. Taken(r)' => Taken(r)
    BY <1>2, <1>4, <1>5, <1>7, <1>8 DEF Taken
  <2>. QED  BY <2>1, <2>2
<1>15. /\ \A q \in Requests : At(q, "done") => At(q, "done")'
       /\ ~At(r, "callback")'
  BY <1>1, <1>4, <1>5, <1>6
<1>16. \A q \in Requests : At(q, "callback")' => body'[q].of \in Requests /\ At(body[q].of, "done")'
  <2>1. \A q \in Requests : At(q, "callback")' => body[q].of \in Requests /\ At(body[q].of, "done")
    BY <1>5, <1>15 DEF StatesOK
  <2>. QED  BY <2>1, <1>2, <1>15
<1>17. StatesOK'
  <2>1. CASE f # "states"
    <3>1. Spares("states")
      BY <2>1, <1>9 DEF Files
    <3>. QED  BY <3>1, <1>2, <1>14, <1>15, <1>16, SparedStates
  <2>2. CASE f = "states"
    <3>1. ASSUME NEW q \in Requests, Taken(q)' \/ At(q, "callback")' \/ Doing(q, "pop")'
          PROVE  body'[q].of \in Requests /\ At(body[q].of, "done")'
      <4>1. Taken(q) \/ At(q, "callback") \/ Doing(q, "pop")
        BY <3>1, <1>2, <1>3, <1>5, <1>14, <1>15
      <4>2. body[q].of \in Requests /\ At(body[q].of, "done")
        BY <4>1 DEF StatesOK
      <4>. QED  BY <4>2, <1>2, <1>15
    <3>2. \A p \in Requests : Taken(p)' /\ "states" \notin met' => body[p].of \notin Read("states")'
      BY <2>2, <1>2, <1>14 DEF StatesOK
    <3>3. \A q \in Requests : "states" \notin met' => ~Holds(q, "states")'
      BY <2>2, <1>2, <1>3
    <3>4. "states" \notin met' =>
            \A p, q \in Requests : Taken(p)' /\ Taken(q)' /\ body'[p].of = body'[q].of => p = q
      BY <1>2, <1>14 DEF StatesOK
    <3>. QED  BY <3>1, <3>2, <3>3, <3>4, <1>2 DEF StatesOK
  <2>. QED  BY <2>1, <2>2
<1>18. FailuresOK'
  <2>1. CASE f # "failures"
    BY <2>1, <1>2, <1>9, SparedFailures DEF Files
  <2>2. CASE f = "failures"
    <3>1. Read("failures")' \subseteq Failures
      BY <2>2, <1>2 DEF FailuresOK
    <3>2. \A q \in Requests : Holds(q, "failures")' => q # r /\ hand'[q] = hand[q] /\ Holds(q, "failures")
      BY <1>2, <1>3
    <3>3. \A q \in Requests : "failures" \notin met' => ~Holds(q, "failures")'
      BY <2>2, <1>2, <1>3
    <3>4. ASSUME "failures" \notin met' \cup lost'
          PROVE  Counts(Read("failures"))'
      <4>1. Counts(hand[r])
        BY <2>2, <3>4, <1>2 DEF FailuresOK
      <4>2. Read("failures")' = hand[r]
        BY <2>2, <3>4, <1>2 DEF Read, Whole
      <4>. QED  BY <4>1, <4>2, <1>2 DEF Counts, InWindow
    <3>. QED  BY <3>1, <3>2, <3>3, <3>4 DEF FailuresOK
  <2>. QED  BY <2>1, <2>2
<1>19. SessionsOK'
  <2>1. CASE f # "sessions"
    <3>1. UNCHANGED <<made, ended>>
      BY <2>1, <1>7 DEF FileOf
    <3>. QED  BY <2>1, <3>1, <1>9, SparedSessions DEF Files
  <2>2. CASE f = "sessions"
    <3>1. u \in {"create", "leave", "expire"}
      BY <2>2 DEF FileOf, Updates
    <3>2. made \subseteq made' /\ ended \subseteq made /\ (u # "create" => body[r].bearer \in made)
      BY <3>1, <1>2, <1>7 DEF SessionsOK
    <3>3. hand[r] \subseteq made'
      BY <3>1, <1>2, <1>7 DEF SessionsOK
    <3>4. ended' \subseteq made' /\ Read("sessions")' \subseteq made'
      BY <2>2, <3>2, <3>3, <1>2, <1>7
    <3>5. \A q \in Requests :
            /\ Doing(q, "create")' => hand'[q] \subseteq made' \cup {q}
            /\ \A x \in {"leave", "expire"} : Doing(q, x)' => hand'[q] \subseteq made' /\ body'[q].bearer \in made'
      <4>1. \A q \in Requests \ {r} :
              /\ Doing(q, "create") => hand[q] \subseteq made \cup {q}
              /\ \A x \in {"leave", "expire"} : Doing(q, x) => hand[q] \subseteq made /\ body[q].bearer \in made
        BY DEF SessionsOK
      <4>. QED  BY <4>1, <3>2, <1>2, <1>3
    <3>6. \A q \in Requests : "sessions" \notin met' =>
            ~Holds(q, "sessions")' /\ \A x \in {"create", "leave", "expire"} : ~Doing(q, x)' /\ ~Opening(q, x)'
      <4>1. \A q \in Requests : "sessions" \notin met' => ~Holds(q, "sessions")'
        BY <2>2, <1>2, <1>3
      <4>. QED  BY <4>1 DEF Holds, Doing, FileOf, Updates
    <3>7. ASSUME "sessions" \notin met'
          PROVE  Read("sessions")' \cap ended' = {}
      <4>1. hand[r] \cap ended = {} /\ (u # "create" => body[r].bearer \notin hand[r])
        BY <2>2, <3>1, <3>7, <1>2 DEF SessionsOK
      <4>2. hand[r] \cap ended' = {}
        BY <3>1, <4>1, <1>7
      <4>. QED  BY <2>2, <4>2, <1>2
    <3>8. ASSUME "sessions" \notin met' \cup lost'
          PROVE  file'["sessions"] = Whole(made' \ ended')
      <4>1. hand[r] = Leaves(r)
        BY <3>1, <3>8, <1>2 DEF SessionsOK
      <4>2. Doing(r, "create") <=> u = "create"
        BY <3>1, <1>2, PlacesExclude, Zenon
      <4>3. hand[r] = made' \ ended'
        BY <3>1, <3>2, <4>1, <4>2, <1>7, <1>8 DEF Leaves
      <4>. QED  BY <2>2, <3>8, <4>3, <1>2
    <3>. QED  BY <3>4, <3>5, <3>6, <3>7, <3>8 DEF SessionsOK
  <2>. QED  BY <2>1, <2>2
<1>. QED  BY <1>10, <1>11, <1>12, <1>13, <1>17, <1>18, <1>19

LEMMA QuietStates ==
  ASSUME StatesOK, Spares("states"), UNCHANGED <<pc, body, then, made>>
  PROVE  StatesOK'
<1>1. \A q : /\ \A w : At(q, w)' <=> At(q, w)
             /\ \A u : Doing(q, u)' <=> Doing(q, u)
  BY DEF At, Doing, Opening, Writing
<1>2. \A q \in Requests : Taken(q)' => Taken(q) /\ body'[q] = body[q]
  BY <1>1 DEF Taken
<1>3. \A q \in Requests : At(q, "callback")' => body'[q].of \in Requests /\ At(body[q].of, "done")'
  BY <1>1 DEF StatesOK
<1>. QED  BY <1>1, <1>2, <1>3, SparedStates

LEMMA FailureAgesKeeps ==
  ASSUME SignInInv, FailureAges
  PROVE  SignInInv'
<1>. USE DEF SignInInv
<1>1. /\ aged < Cardinality(failed) /\ aged' = aged + 1
      /\ UNCHANGED <<pc, body, file, hand, then, decision, failed, cleared, made, ended, lateFor, met, lost>>
  BY DEF FailureAges, histVars
<1>2. Cardinality(failed) \in Nat
  BY FS_CardinalityType DEF TypesOK
<1>3. TypesOK' /\ ClockOK'
  <2>1. Placed'
    BY <1>1 DEF TypesOK, Placed, At, Doing, Opening, Writing
  <2>2. aged \in Nat
    BY DEF TypesOK
  <2>3. aged' \in Nat /\ aged' <= Cardinality(failed)
    BY <2>2, <1>1, <1>2
  <2>. QED  BY <2>1, <2>3, <1>1 DEF TypesOK, ClockOK
<1>4. \A f : Spares(f)
  BY <1>1 DEF Spares, Opening, Writing
<1>5. PlacesOK' /\ EntryIsCurrent'
  BY <1>1 DEF PlacesOK, EntryIsCurrent, At, Doing, Opening, Writing
<1>6. SessionsOK' /\ \A f \in Files : OneWriter(f)'
  BY <1>1, <1>4, SparedSessions, SparedWriter
<1>7. StatesOK'
  BY <1>1, <1>4, QuietStates
<1>8. ASSUME NEW D, D \subseteq Failures, Counts(D)
      PROVE  WillCount(D)
  <2>1. ASSUME NEW c \in Capabilities
        PROVE  {e \in D : e[1] = c /\ e[2] > aged'}
                 = {e \in {x \in failed' : x[1] = c /\ x[2] > aged'} : e[2] > cleared'[c]}
    <3>1. {e \in D : e[1] = c /\ e[2] > aged}
            = {e \in {x \in failed : x[1] = c /\ x[2] > aged} : e[2] > cleared[c]}
      BY <1>8 DEF Counts, InWindow
    <3>2. \A e \in D \cup failed : e[2] \in Nat
      BY <1>8 DEF Failures, TypesOK
    <3>3. aged \in Nat /\ \A x \in Nat : x > aged + 1 => x > aged
      BY DEF TypesOK
    <3>. QED  BY <3>1, <3>2, <3>3, <1>1
  <2>. QED  BY <2>1 DEF WillCount
<1>10. Counts(Read("failures")) => Counts(Read("failures"))'
  <2>1. Read("failures") \subseteq Failures /\ Read("failures")' = Read("failures")
    BY <1>1 DEF FailuresOK, Read
  <2>2. Counts(Read("failures")) => WillCount(Read("failures"))
    BY <2>1, <1>8
  <2>3. WillCount(Read("failures")) => Counts(Read("failures"))'
    BY <2>1 DEF WillCount, Counts, InWindow
  <2>. QED  BY <2>2, <2>3
<1>11. ASSUME NEW q \in Requests, Holds(q, "failures")
       PROVE  Counts(hand[q]) => Counts(hand[q])'
  <2>1. hand[q] \subseteq Failures /\ hand' = hand
    BY <1>1, <1>11 DEF FailuresOK
  <2>2. Counts(hand[q]) => WillCount(hand[q])
    BY <2>1, <1>8
  <2>3. WillCount(hand[q]) => Counts(hand[q])'
    BY <2>1 DEF WillCount, Counts, InWindow
  <2>. QED  BY <2>2, <2>3
<1>12. FailuresOK'
  <2>1. \A q \in Requests : Holds(q, "failures")' <=> Holds(q, "failures")
    BY <1>4, SparedUpdates
  <2>2. \A q \in Requests : Holds(q, "failures")' =>
          hand'[q] \subseteq Failures /\ ("failures" \notin met' \cup lost' => Counts(hand[q])')
    BY <2>1, <1>1, <1>11 DEF FailuresOK
  <2>3. Read("failures")' \subseteq Failures
    BY <1>1 DEF FailuresOK, Read
  <2>4. "failures" \notin met' \cup lost' /\ (\A q \in Requests : ~Holds(q, "failures")') => Counts(Read("failures"))'
    BY <2>1, <1>1, <1>10 DEF FailuresOK
  <2>. QED  BY <2>2, <2>3, <2>4 DEF FailuresOK
<1>. QED  BY <1>3, <1>5, <1>6, <1>7, <1>12

LEMMA QuietKeeps ==
  ASSUME SignInInv,
         UNCHANGED <<pc, body, file, hand, then, decision, failed, aged, cleared, made, ended, lateFor, met, lost>>
  PROVE  SignInInv'
<1>. USE DEF SignInInv
<1>1. \A f : Spares(f)
  BY DEF Spares, Opening, Writing
<1>2. SessionsOK' /\ FailuresOK' /\ \A f \in Files : OneWriter(f)'
  BY <1>1, SparedSessions, SparedFailures, SparedWriter
<1>3. StatesOK'
  BY <1>1, QuietStates
<1>4. TypesOK' /\ PlacesOK' /\ ClockOK' /\ EntryIsCurrent'
  BY DEF TypesOK, Placed, PlacesOK, ClockOK, EntryIsCurrent, At, Doing, Opening, Writing
<1>. QED  BY <1>2, <1>3, <1>4

LEMMA CrashKeeps ==
  ASSUME SignInInv, Crash
  PROVE  SignInInv'
<1>. USE DEF SignInInv
<1>1. /\ pc' = [r \in Requests |-> IF Busy(r) THEN <<"dropped", "">> ELSE pc[r]]
      /\ hand' = [r \in Requests |-> {}] /\ then' = [r \in Requests |-> "done"]
      /\ UNCHANGED <<body, file, decision, failed, aged, cleared, made, ended, lateFor, met>>
      /\ lost' = lost \cup {f \in Files : \E r \in Requests : Updating(r, f)}
  BY DEF Crash, clockVars
<1>2. /\ \A f \in Files, q \in Requests : f \notin lost' => ~Holds(q, f)
      /\ lost \subseteq lost'
  BY <1>1, UpdatingHolds
<1>3. ASSUME NEW q \in Requests
      PROVE  Busy(q) \/ At(q, "idle") \/ At(q, "done")
  <2>1. ~Busy(q) => pc[q][1] \notin {"open", "write"}
    BY DEF Busy
  <2>2. \A x : \A s \in {"open", "write"} : pc[q] = <<s, x>> => pc[q][1] = s
    BY Pair, Zenon
  <2>3. (\E w \in Points : At(q, w)) \/ \E u \in Updates : Doing(q, u)
    BY DEF TypesOK, Placed
  <2>4. (\E s \in {"open", "write"}, x \in Updates : pc[q] = <<s, x>>)
          \/ \E w \in Points : pc[q] = <<w, "">>
    BY <2>3 DEF At, Doing, Opening, Writing
  <2>5. ASSUME NEW w \in Points, pc[q] = <<w, "">>, ~Busy(q)
        PROVE  At(q, "idle") \/ At(q, "done")
    <3>1. pc[q][1] = w
      BY <2>5, Pair, Zenon
    <3>2. w = "idle" \/ w = "done"
      BY <3>1, <2>5 DEF Busy
    <3>. QED  BY <2>5, <3>2 DEF At
  <2>. QED  BY <2>1, <2>2, <2>4, <2>5
<1>4. ASSUME NEW q \in Requests
      PROVE  /\ At(q, "done")' <=> At(q, "done")
             /\ At(q, "idle")' <=> At(q, "idle")
             /\ ~At(q, "callback")' /\ ~At(q, "create")'
             /\ \A u : ~Doing(q, u)' /\ ~Opening(q, u)' /\ ~Writing(q, u)'
  <2>1. {"idle", "done", "dropped", "callback", "create"} \subseteq Points
    BY DEF Points
  <2>2. CASE Busy(q)
    <3>1. pc'[q] = <<"dropped", "">>
      BY <1>1, <2>2
    <3>2. \A w : pc'[q] = <<w, "">> => w = "dropped"
      <4>1. \A w, v : pc'[q] = <<w, "">> /\ pc'[q] = <<v, "">> => w = v
        BY OnePlace, Zenon
      <4>. QED  BY <3>1, <4>1, Zenon
    <3>3. \A w : At(q, w)' => w = "dropped"
      BY <3>2 DEF At
    <3>4. \A u : ~Opening(q, u)' /\ ~Writing(q, u)'
      BY <3>1, <2>1, OnePlace, Zenon DEF Opening, Writing
    <3>5. ~At(q, "idle") /\ ~At(q, "done")
      <4>1. \A w : pc[q] = <<w, "">> => pc[q][1] = w
        BY Pair, Zenon
      <4>. QED  BY <4>1, <2>2 DEF At, Busy
    <3>. QED  BY <3>3, <3>4, <3>5 DEF Doing
  <2>3. CASE ~Busy(q)
    <3>1. pc'[q] = pc[q]
      BY <1>1, <2>3
    <3>2. PICK w \in {"idle", "done"} : At(q, w)
      BY <1>3, <2>3
    <3>3. w \in Points /\ (\A v : At(q, v) => v = w)
      BY <3>2, <2>1, PlacesExclude, Zenon
    <3>4. \A u : ~Doing(q, u)
      BY <3>2, <3>3, PlacesExclude, Zenon
    <3>. QED  BY <3>1, <3>2, <3>3, <3>4 DEF At, Doing, Opening, Writing
  <2>. QED  BY <2>2, <2>3
<1>5. \A f : \A q \in Requests : ~Holds(q, f)'
  BY <1>4 DEF Holds
<1>6. TypesOK'
  <2>1. DOMAIN pc' = Requests
    BY <1>1
  <2>2. ASSUME NEW q \in Requests
        PROVE  \E w \in Points : At(q, w)'
    <3>1. CASE Busy(q)
      <4>1. pc'[q] = <<"dropped", "">> /\ "dropped" \in Points
        BY <1>1, <3>1 DEF Points
      <4>. QED  BY <4>1, Zenon DEF At
    <3>2. CASE ~Busy(q)
      BY <1>3, <1>4, <3>2 DEF Points
    <3>. QED  BY <3>1, <3>2
  <2>. QED  BY <2>1, <2>2, <1>1 DEF TypesOK, Placed
<1>7. PlacesOK'
  BY <1>1, <1>4 DEF PlacesOK
<1>8. ClockOK' /\ EntryIsCurrent'
  BY <1>1 DEF ClockOK, EntryIsCurrent
<1>9. \A f \in Files : OneWriter(f)'
  BY <1>4, <1>5 DEF OneWriter
<1>10. \A f : Read(f)' = Read(f)
  BY <1>1 DEF Read
<1>11. SessionsOK'
  BY <1>1, <1>2, <1>4, <1>5, <1>10 DEF SessionsOK, Files
<1>12. FailuresOK'
  <2>1. Counts(Read("failures"))' <=> Counts(Read("failures"))
    BY <1>1, <1>10 DEF Counts, InWindow
  <2>. QED  BY <2>1, <1>1, <1>2, <1>5, <1>10 DEF FailuresOK, Files
<1>13. \A q \in Requests : Taken(q)' => Taken(q)
  BY <1>1, <1>4 DEF Taken
<1>14. StatesOK'
  <2>1. ASSUME NEW q \in Requests, Taken(q)' \/ At(q, "callback")' \/ Doing(q, "pop")'
        PROVE  body'[q].of \in Requests /\ At(body[q].of, "done")'
    BY <2>1, <1>1, <1>4, <1>13 DEF StatesOK
  <2>2. \A p \in Requests : "states" \notin met' /\ Taken(p)' => body[p].of \notin Read("states")
    <3>1. ASSUME NEW p \in Requests, Taken(p)'
          PROVE  ~Opening(p, "pop")
      <4>1. p \in made
        BY <3>1, <1>1, <1>4 DEF Taken
      <4>2. At(p, "done") /\ "done" \in Points
        BY <4>1 DEF PlacesOK, Points
      <4>3. ~Doing(p, "pop")
        BY <4>2, PlacesExclude, Zenon
      <4>. QED  BY <4>3 DEF Doing
    <3>. QED  BY <3>1, <1>1, <1>13 DEF StatesOK
  <2>3. "states" \notin met' =>
          \A p, q \in Requests : Taken(p)' /\ Taken(q)' /\ body'[p].of = body'[q].of => p = q
    BY <1>1, <1>13 DEF StatesOK
  <2>. QED  BY <2>1, <2>2, <2>3, <1>1, <1>5, <1>10 DEF StatesOK
<1>. QED  BY <1>6, <1>7, <1>8, <1>9, <1>11, <1>12, <1>14

-----------------------------------------------------------------------------
(* The theorems *)

LEMMA SignInInvInit ==
  ASSUME Init
  PROVE  SignInInv
<1>1. \A r \in Requests : At(r, "idle")
  BY DEF Init, At
<1>2. \A u : \A r \in Requests : ~Doing(r, u) /\ ~Opening(r, u) /\ ~Writing(r, u)
  <2>1. "idle" \in Points
    BY DEF Points
  <2>. QED  BY <1>1, <2>1, PlacesExclude, Zenon
<1>3. \A w : \A r \in Requests : At(r, w) => w = "idle"
  BY <1>1, PlacesExclude, Zenon
<1>4. \A f : \A r \in Requests : ~Holds(r, f)
  BY <1>2 DEF Holds
<1>5. failed = {} /\ Cardinality(failed) = 0 /\ IsFiniteSet(failed)
  BY FS_EmptySet DEF Init
<1>6. TypesOK
  <2>1. Placed
    BY <1>1 DEF Init, Placed, Points
  <2>. QED  BY <1>5, <2>1 DEF Init, TypesOK
<1>7. PlacesOK
  BY <1>1, <1>2 DEF Init, PlacesOK
<1>8. ClockOK
  <2>1. aged = 0 /\ \A c \in Capabilities : cleared[c] = 0
    BY DEF Init
  <2>. QED  BY <1>5, <2>1 DEF ClockOK
<1>9. \A f \in Files : OneWriter(f)
  BY <1>2, <1>4 DEF OneWriter
<1>10. \A f \in Files : Read(f) = {}
  BY DEF Init, Read, Whole
<1>11. SessionsOK
  <2>1. file["sessions"] = Whole(made \ ended)
    BY DEF Init, Files
  <2>. QED  BY <2>1, <1>2, <1>4, <1>10 DEF Init, SessionsOK, Files
<1>12. FailuresOK
  BY <1>4, <1>5, <1>10 DEF Init, FailuresOK, Counts, InWindow, Files
<1>13. \A r \in Requests : ~Taken(r)
  BY <1>1, <1>2, <1>3 DEF Init, Taken
<1>14. StatesOK
  BY <1>2, <1>3, <1>13 DEF StatesOK
<1>15. EntryIsCurrent
  BY DEF Init, EntryIsCurrent
<1>. QED  BY <1>6, <1>7, <1>8, <1>9, <1>11, <1>12, <1>14, <1>15 DEF SignInInv

LEMMA SignInInvNext ==
  ASSUME SignInInv, [Next]_vars
  PROVE  SignInInv'
<1>1. ASSUME NEW r \in Requests, Step(r)
      PROVE  SignInInv'
  <2>1. DOMAIN FileOf = Updates
    BY DEF FileOf, Updates
  <2>. QED  BY <1>1, <2>1, AsksKeeps, CheckTokenKeeps, NoteFailureKeeps, ClearFailuresKeeps,
              CheckSessionKeeps, LoginKeeps, CallbackKeeps, CreateSessionKeeps, LogoutKeeps,
              OpensKeeps, WritesKeeps
           DEF Step
<1>2. CASE Expires
  BY <1>2, QuietKeeps DEF Expires, histVars
<1>3. CASE UNCHANGED vars
  BY <1>3, QuietKeeps DEF vars, clockVars, histVars
<1>. QED  BY <1>1, <1>2, <1>3, FailureAgesKeeps, CrashKeeps DEF Next

\* The invariant the three properties of the sign-in rest on.
THEOREM SignInInvHolds == Spec => []SignInInv
<1>. QED  BY SignInInvInit, SignInInvNext, PTL DEF Spec

\* auth.py and oauth.py, whatever is asked and however the threads interleave and
\* the process dies: an undisturbed sessions file has exactly the sessions made
\* and neither logged out nor dropped, and an undisturbed failures file counts
\* against each client exactly its failures since it last got in.
THEOREM FilesAlwaysFollow == Spec => []FilesFollow
<1>1. SignInInv => FilesFollow
  <2>1. ASSUME NEW f, Settled(f)
        PROVE  f \notin met \cup lost /\ \A r \in Requests : ~Holds(r, f)
    BY <2>1, UpdatingHolds DEF Settled
  <2>. QED  BY <2>1 DEF SignInInv, FilesFollow, SessionsOK, FailuresOK, Counts, Read
<1>. QED  BY <1>1, SignInInvHolds, PTL

\* oauth.py, callback: a login's state makes one session at most, as long as no
\* two updates of the states file overlap.
THEOREM LoginsServeOnce == Spec => []LoginServesOnce
<1>1. SignInInv => LoginServesOnce
  <2>1. ASSUME SignInInv, "states" \notin met, NEW l \in Requests
        PROVE  Cardinality({r \in made : body[r].of = l}) <= 1
    <3>. DEFINE S == {r \in made : body[r].of = l}
    <3>1. \A r, q \in S : r = q
      BY <2>1 DEF SignInInv, StatesOK, Taken, TypesOK
    <3>2. CASE S = {}
      BY <3>2, FS_EmptySet
    <3>3. CASE S # {}
      <4>1. PICK x : S = {x}
        BY <3>1, <3>3
      <4>2. Cardinality({x}) = 1
        BY FS_Singleton
      <4>. QED  BY <4>1, <4>2
    <3>. QED  BY <3>2, <3>3
  <2>. QED  BY <2>1 DEF LoginServesOnce
<1>. QED  BY <1>1, SignInInvHolds, PTL

\* oauth.py, check_session: whoever is let in by a session holds one a callback
\* made, and none that was ended before the request, unless updates overlapped.
THEOREM EntriesAreCurrent == Spec => []EntryIsCurrent
<1>1. SignInInv => EntryIsCurrent
  BY DEF SignInInv
<1>. QED  BY <1>1, SignInInvHolds, PTL
===============================================================================

----------------------------- MODULE GatedAction -----------------------------
(***************************************************************************)
(* What the gates of cortex promise of material actions (src/README.md:    *)
(* witness, confirmation and, where it is required, a proposal come first; *)
(* every action is on a ledger before anyone is told of it): an action is  *)
(* done only once it is sanctioned, at most once for one request, and what *)
(* came of it is told only after it is on record.  A request may break off *)
(* anywhere.                                                               *)
(***************************************************************************)
CONSTANT Actions

VARIABLES
  sanctioned,   \* the requests everything is in place for
  stage         \* [Actions -> {"open", "acted", "recorded", "told"}]

vars == <<sanctioned, stage>>

Init == sanctioned = {} /\ stage = [a \in Actions |-> "open"]

Sanction(a) ==
  /\ a \notin sanctioned /\ sanctioned' = sanctioned \cup {a}
  /\ UNCHANGED stage

Advance(a, from, to) ==
  /\ stage[a] = from /\ stage' = [stage EXCEPT ![a] = to]
  /\ UNCHANGED sanctioned

Act(a) == a \in sanctioned /\ Advance(a, "open", "acted")
Record(a) == Advance(a, "acted", "recorded")
Tell(a) == Advance(a, "recorded", "told")

Next == \E a \in Actions : Sanction(a) \/ Act(a) \/ Record(a) \/ Tell(a)

Spec == Init /\ [][Next]_vars
===============================================================================

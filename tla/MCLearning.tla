----------------------------- MODULE MCLearning -----------------------------
(* Three rows, of which a query returns two: good ones with near prompts and   *)
(* little reward, and one that fails the filters with more.                    *)
EXTENDS Learning

MCKinds == {[p |-> "a", q |-> 2, r |-> 0, goal |-> TRUE], [p |-> "b", q |-> 3, r |-> 0, goal |-> TRUE],
            [p |-> "c", q |-> 1, r |-> 1, goal |-> FALSE]}

MCNear == {<<"a", "b">>}

MCCommands ==
  {<<"watch", "incremental">>, <<"force", "full">>}
=============================================================================

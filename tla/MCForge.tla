------------------------------ MODULE MCForge ------------------------------
(* Two requests for one app: a job that deploys, and beside it a job without *)
(* authority or a deployment in the request's own thread.                    *)
EXTENDS Forge

Asks(kind, scope, async, authorised) ==
  [kind |-> kind, scope |-> scope, async |-> async, authorised |-> authorised]

MCBodies == [r \in Requests |->
  IF r = "r1" THEN {Asks("deploy", "app", TRUE, TRUE)}
  ELSE {Asks("rollback", "app", TRUE, FALSE)} \cup {Asks("deploy", s, FALSE, TRUE) : s \in {"app", "root"}}]
=============================================================================

----------------------------- MODULE MCInvocation -----------------------------
EXTENDS Invocation, TLC
CONSTANTS r1, r2
MCRequests == {r1, r2}
MCKinds == r1 :> {"invoke", "empty invoke"} @@ r2 :> {"oracle", "empty oracle", "self_test"}
===============================================================================

------------------------------- MODULE MCSignIn -------------------------------
(* One login, two callbacks of it, and two requests that log out, act with the *)
(* session, with the token or without either; or three that act, to the limit. *)
EXTENDS SignIn

Asking(kind, of, bearer, capability, intent) ==
  [kind |-> kind, of |-> of, bearer |-> bearer, capability |-> capability, intent |-> intent]

Act(bearer, capability, intent) == Asking("act", "r1", bearer, capability, intent)

MCBodies == [r \in Requests |->
  CASE r = "r1" -> {Asking("login", "r1", "none", "patch", "none")}
    [] r = "r2" -> {Asking("callback", "r1", "none", "patch", "none")}
    [] r = "r3" -> {Asking("callback", "r1", "none", "patch", "none"), Act("wrong", "deploy", "none")}
    [] r = "r4" -> {Asking("logout", "r1", "r2", "patch", "none"), Act("token", "patch", "mismatch"),
                    Asking("prepare", "r1", "r2", "deploy", "none")}
    [] OTHER    -> {Act("r2", "patch", "good"), Act("wrong", "patch", "none")}]
===============================================================================

------------------------------- MODULE MCPID1 -------------------------------
(* The web service and another; as many pids as there can be starts; one   *)
(* failing call.                                                           *)
EXTENDS PID1

MCSpecs == <<"web", "oracle">>
=============================================================================

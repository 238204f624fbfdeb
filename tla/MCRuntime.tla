------------------------------ MODULE MCRuntime ------------------------------
(* An instance of Runtime for TLC: a service beside a job that is restarted  *)
(* only when it fails.                                                       *)
EXTENDS Runtime

MCPolicy == <<"always", "on_failure">>
=============================================================================

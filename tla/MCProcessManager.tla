-------------------------- MODULE MCProcessManager --------------------------
(* Instances of ProcessManager for TLC: a service that is always restarted,  *)
(* after a delay, beside one that is restarted at once and only when it      *)
(* fails.                                                                    *)
EXTENDS ProcessManager

CONSTANTS web, job

MCName    == {web, job}
MCPolicy  == [n \in Name |-> IF n = web THEN "always" ELSE "on_failure"]
MCDelayed == {web} \cap Name

OneName   == {web}
=============================================================================

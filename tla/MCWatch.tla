------------------------------- MODULE MCWatch -------------------------------
(* Instances of Watch for TLC.  The unit of time is half a second: the       *)
(* maintenance interval of two seconds is four units.                        *)
EXTENDS Watch

TwoSeconds   == 4
Delayed      == {0, 2}
ThreeSeconds == {6}
=============================================================================

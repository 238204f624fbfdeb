---------------------------- MODULE MCDashboard -----------------------------
(* Instances of Dashboard for TLC.  A name is the key that types it, so that *)
(* a key that acts on a process is also text.                                *)
EXTENDS Dashboard

Up   == [status |-> "running", health |-> "unhealthy", cpu |-> 1, ram |-> 1, restarts |-> 0]
Down == [status |-> "stopped", health |-> "unknown", cpu |-> 0, ram |-> 0, restarts |-> 1]

MCLooks  == {Up, Down}
MCListed == {[id |-> 1, name |-> "d", look |-> Down], [id |-> 2, name |-> "s", look |-> Up]}

Terminal(w, h) == [width |-> w, height |-> h]

\* Wide enough for the sidebar and the table, which then has two rows; and too low.
TwoSizes == {Terminal(150, 21), Terminal(105, 19)}
=============================================================================

-------------------------------- MODULE Watch --------------------------------
(***************************************************************************)
(* Restarting a process when its files change.  Every maintenance tick     *)
(* first performs the watch restarts that are due and then compares the    *)
(* fingerprint of the watched files with the one taken when the process    *)
(* was last started; with watch_delay_secs a difference makes a restart    *)
(* due only later.  Files are edited at any time, also while a handler of  *)
(* the daemon's loop runs, so here a handler takes time and several steps. *)
(*                                                                         *)
(* One watched process, discrete time.  What the rest of the manager does  *)
(* to it is Spawn, Ready and Stops; what it does for others is Serve.      *)
(***************************************************************************)
EXTENDS Integers

CONSTANTS
    MaxEdits,   \* bound: edits of the watched files
    Period,     \* the maintenance interval
    Delays,     \* the values of watch_delay_secs
    Work        \* bound: the time one step of a handler takes

ASSUME EditsAssumption == MaxEdits \in Nat
ASSUME TimeAssumption  == Period \in Nat \ {0} /\ Delays \subseteq Nat /\ Work \in Nat

VARIABLES
    delay,      \* watch_delay_secs of the process
    tree,       \* version of the watched files, which the fingerprint tells
    running,    \* status is running, and there is a child
    started,    \* the version the last spawned child started from
    baseline,   \* watch_fingerprints[name]
    pending,    \* pending_watch_restarts[name]
    restarts,   \* the watch restarts in restart_count
    clock,      \* time since the interval's last tick
    tickDue,    \* a tick waits for the loop
    step,       \* what the loop's handler is doing
    busy        \* the time the step has taken

process == <<running, started, baseline, pending, restarts>>
time    == <<delay, clock, tickDue>>
loop    == <<step, busy>>
vars    == <<tree, process, time, loop>>

Version   == 0 .. MaxEdits
NoVersion == -1
NoRestart == [due |-> 0, fingerprint |-> NoVersion]

\* A handler at "restarting" or "readying" for a watch restart carries the
\* fingerprint that triggered it; for any other spawn it carries NoVersion.
Step(at, v) == [at |-> at, fingerprint |-> v]
Idle        == Step("idle", NoVersion)
Goto(s)     == step' = s /\ busy' = 0

-----------------------------------------------------------------------------
(* Time and the files.                                                      *)

Edit ==
    /\ tree < MaxEdits
    /\ tree' = tree + 1
    /\ UNCHANGED <<process, time, loop>>

Sooner(p) == IF p.due > 0 THEN [p EXCEPT !.due = @ - 1] ELSE p

\* An idle loop serves a tick at once; ticks it missed are skipped.
Advance ==
    /\ IF step = Idle THEN ~tickDue ELSE busy < Work
    /\ clock' = (clock + 1) % Period
    /\ tickDue' = (tickDue \/ clock' = 0)
    /\ pending' = Sooner(pending)
    /\ busy' = IF step = Idle THEN 0 ELSE busy + 1
    /\ UNCHANGED <<delay, tree, running, started, baseline, restarts, step>>

-----------------------------------------------------------------------------
(* The maintenance tick.                                                    *)

\* A slip: a restart is due only once its time has passed.
Due_TooLate(p) == p # NoRestart /\ p.due < 0

Due(p) == p # NoRestart /\ p.due = 0

\* run_due_watch_restarts.
Tick ==
    /\ step = Idle
    /\ tickDue
    /\ tickDue' = FALSE
    /\ IF Due(pending)
       THEN /\ pending' = NoRestart
            /\ Goto(IF running THEN Step("restarting", pending.fingerprint)
                               ELSE Step("scanning", NoVersion))
       ELSE /\ UNCHANGED pending
            /\ Goto(Step("scanning", NoVersion))
    /\ UNCHANGED <<delay, tree, running, started, baseline, restarts, clock>>

Changed == running /\ baseline \notin {NoVersion, tree}

\* run_watch_checks, when the watched paths can be read.
Scan ==
    /\ step.at = "scanning"
    /\ IF Changed /\ delay = 0
       THEN /\ Goto(Step("restarting", tree))
            /\ UNCHANGED <<baseline, pending>>
       ELSE /\ Goto(Idle)
            /\ baseline' = IF running /\ baseline = NoVersion THEN tree ELSE baseline
            /\ pending' = CASE Changed                     -> [due |-> delay, fingerprint |-> tree]
                            [] running /\ baseline = tree -> NoRestart
                            [] OTHER                      -> pending
    /\ UNCHANGED <<tree, running, started, restarts, time>>

\* run_watch_checks, when they cannot.
ScanFails ==
    /\ step.at = "scanning"
    /\ Goto(Idle)
    /\ UNCHANGED <<tree, process, time>>

\* The old child is gone and the new one starts from the files as they are now.
Fork ==
    /\ step.at = "restarting"
    /\ started' = tree
    /\ pending' = NoRestart
    /\ Goto([step EXCEPT !.at = "readying"])
    /\ UNCHANGED <<tree, running, baseline, restarts, time>>

\* The handler goes on after a watch restart: one that was due is followed by the scan.
After(s) ==
    IF s.fingerprint # NoVersion /\ delay > 0 THEN Step("scanning", NoVersion) ELSE Idle

\* A slip: a watch restart keeps the fingerprint it started from.
NewBaseline_Kept(s) == IF s.fingerprint = NoVersion THEN tree ELSE baseline

\* update_watch_fingerprint takes the files as they are when the child is ready; a
\* watch restart then puts back the fingerprint that triggered it.
NewBaseline(s) == IF s.fingerprint = NoVersion THEN tree ELSE s.fingerprint

\* The end of spawn_existing, start_process or reload_process: the child is ready.
Ready ==
    /\ step.at = "readying"
    /\ running' = TRUE
    /\ baseline' = NewBaseline(step)
    /\ pending' = NoRestart
    /\ restarts' = IF step.fingerprint = NoVersion THEN restarts ELSE restarts + 1
    /\ Goto(After(step))
    /\ UNCHANGED <<tree, started, time>>

\* ... or it does not become ready, and the process is marked errored.
NotReady ==
    /\ step.at = "readying"
    /\ running' = FALSE
    /\ baseline' = NoVersion
    /\ pending' = NoRestart
    /\ Goto(After(step))
    /\ UNCHANGED <<tree, started, restarts, time>>

-----------------------------------------------------------------------------
(* The rest of the loop.                                                    *)

\* A start, a restart or a reload by command, or an automatic restart; only the
\* commands reset restart_count.
Spawn ==
    /\ step = Idle
    /\ started' = tree
    /\ restarts' \in {0, restarts}
    /\ Goto(Step("readying", NoVersion))
    /\ UNCHANGED <<tree, running, baseline, pending, time>>

\* stop_process, or the exit of the child.
Stops ==
    /\ step = Idle
    /\ running
    /\ running' = FALSE
    /\ baseline' = NoVersion
    /\ pending' = NoRestart
    /\ UNCHANGED <<tree, started, restarts, time, loop>>

\* A handler for another process.
Serve ==
    /\ step = Idle
    /\ Goto(Step("serving", NoVersion))
    /\ UNCHANGED <<tree, process, time>>

Served ==
    /\ step.at = "serving"
    /\ Goto(Idle)
    /\ UNCHANGED <<tree, process, time>>

-----------------------------------------------------------------------------
Init ==
    /\ delay \in Delays
    /\ tree = 0
    /\ running = FALSE
    /\ started = 0
    /\ baseline = NoVersion
    /\ pending = NoRestart
    /\ restarts = 0
    /\ clock = 0
    /\ tickDue = FALSE
    /\ step = Idle
    /\ busy = 0

Next ==
    \/ Edit \/ Advance
    \/ Tick \/ Scan \/ ScanFails \/ Fork \/ Ready \/ NotReady
    \/ Spawn \/ Stops \/ Serve \/ Served

Spec == Init /\ [][Next]_vars

\* Time passes and handlers finish; select! takes a ready branch at random, so a tick
\* is not passed over for ever; and the watched paths can be read now and then.
FairSpec ==
    /\ Spec
    /\ WF_vars(Advance)
    /\ WF_vars(Fork)
    /\ WF_vars(Ready \/ NotReady)
    /\ WF_vars(Served)
    /\ WF_vars(Scan \/ ScanFails)
    /\ SF_vars(Tick)
    /\ SF_vars(Scan)

-----------------------------------------------------------------------------
(* Properties.                                                              *)

TypeOK ==
    /\ delay \in Delays
    /\ tree \in Version
    /\ running \in BOOLEAN
    /\ started \in Version
    /\ baseline \in Version \cup {NoVersion}
    /\ pending \in [due : 0 .. delay, fingerprint : Version] \cup {NoRestart}
    /\ restarts \in Nat
    /\ clock \in 0 .. Period - 1
    /\ tickDue \in BOOLEAN
    /\ step \in [at : {"idle", "scanning", "restarting", "readying", "serving"},
                 fingerprint : Version \cup {NoVersion}]
    /\ busy \in 0 .. Work

\* One edit causes at most one watch restart, although an edit during a restart is
\* compared with the fingerprint from before it.
RestartsPaidByEdits == restarts <= tree

\* A change the fingerprint tells while no handler runs is acted upon: the process is
\* started again from files that have it, unless it stops.  "`watch_delay_secs` debounces restart after a
\* detected change" (docs/OXFILE.md).
DetectedChangeRestarts ==
    \A v \in Version :
        running /\ step = Idle /\ tree = v /\ baseline \in 0 .. v - 1
            ~> started >= v \/ ~running

=============================================================================

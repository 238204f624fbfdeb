------------------------------- MODULE Runtime -------------------------------
(***************************************************************************)
(* The runtime command: a foreground supervisor, meant for containers.  It *)
(* spawns one child per entry of the configuration, then polls: children   *)
(* that exited are spawned again after their delay, and when one may not   *)
(* be, or a shutdown signal has come, every child is stopped and the       *)
(* supervisor exits.                                                       *)
(*                                                                         *)
(* Children exit and signals arrive between any two steps; a pass over the *)
(* entries is one step or two per entry.  Delays are abstracted: a restart *)
(* becomes due, and restarts leave the crash-loop window, at any moment.   *)
(***************************************************************************)
EXTENDS Integers

CONSTANTS
    Entries,      \* the number of configured entries, started in order
    Policy,       \* restart_policy of each entry
    MaxRestarts,  \* max_restarts
    CrashLimit,   \* crash_restart_limit, 0 switches the cutoff off
    InitProcess   \* is the supervisor PID 1, which default signal actions spare?

Entry == 1 .. Entries

ASSUME EntriesAssumption == Entries \in Nat \ {0}
ASSUME PolicyAssumption  == Policy \in [Entry -> {"always", "on_failure", "never"}]
ASSUME LimitAssumption   == MaxRestarts \in Nat /\ CrashLimit \in Nat
ASSUME InitAssumption    == InitProcess \in BOOLEAN

VARIABLES
    phase,    \* what run() is doing: starting, polling, checking, reaping, stopping, gone
    at,       \* the entry its loop is at
    child,    \* the entry's process: none, alive, doomed (being killed) or dead
    held,     \* entry.child is Some
    count,    \* restart_count
    window,   \* the restarts in auto_restart_history
    next,     \* next_restart_at: none, waiting or passed
    signal    \* the shutdown signal: none, early (no handler was installed), pending

entries == <<child, held, count, window, next>>
vars    == <<phase, at, entries, signal>>

-----------------------------------------------------------------------------
(* The surroundings.                                                        *)

ChildExits(i) ==
    /\ child[i] \in {"alive", "doomed"}
    /\ child' = [child EXCEPT ![i] = "dead"]
    /\ UNCHANGED <<phase, at, held, count, window, next, signal>>

DelayPasses(i) ==
    /\ next[i] = "waiting"
    /\ next' = [next EXCEPT ![i] = "passed"]
    /\ UNCHANGED <<phase, at, child, held, count, window, signal>>

\* The handlers are installed when the select! first polls wait_for_shutdown_signal,
\* after every entry was spawned.  Until then the signal's default action applies.
SignalArrives ==
    /\ phase # "gone"
    /\ signal = "none"
    /\ IF phase = "starting"
       THEN /\ signal' = "early"
            /\ phase' = IF InitProcess THEN phase ELSE "gone"
       ELSE /\ signal' = "pending"
            /\ UNCHANGED phase
    /\ UNCHANGED <<at, entries>>

-----------------------------------------------------------------------------
(* The supervisor.                                                          *)

Spawned(i) ==
    /\ child' = [child EXCEPT ![i] = "alive"]
    /\ held' = [held EXCEPT ![i] = TRUE]

\* run() up to its loop: the first entry that fails to start ends it.
StartEntry ==
    /\ phase = "starting"
    /\ at <= Entries
    /\ \/ Spawned(at) /\ at' = at + 1 /\ UNCHANGED phase
       \/ phase' = "gone" /\ UNCHANGED <<at, child, held>>
    /\ UNCHANGED <<count, window, next, signal>>

Started ==
    /\ phase = "starting"
    /\ at = Entries + 1
    /\ phase' = "polling"
    /\ UNCHANGED <<at, entries, signal>>

\* A slip: stopping begins at the entry the loop is at.
StopAll_FromHere == phase' = "stopping" /\ UNCHANGED at

StopAll == phase' = "stopping" /\ at' = 1

TakeSignal ==
    /\ phase = "polling"
    /\ signal = "pending"
    /\ StopAll
    /\ UNCHANGED <<entries, signal>>

\* The 250 ms sleep ends.
Poll ==
    /\ phase = "polling"
    /\ phase' = "checking"
    /\ at' = 1
    /\ UNCHANGED <<entries, signal>>

\* A slip: only an entry with a child is looked at.
Due_IfHeld(i) == held[i] /\ next[i] = "passed"

Due(i) == next[i] = "passed"

\* The first half of a turn of the loop: a restart that is due.
CheckEntry ==
    /\ phase = "checking"
    /\ IF Due(at)
       THEN /\ next' = [next EXCEPT ![at] = "none"]
            /\ \/ Spawned(at) /\ phase' = "reaping" /\ UNCHANGED at
               \/ StopAll /\ UNCHANGED <<child, held>>
       ELSE phase' = "reaping" /\ UNCHANGED <<at, child, held, next>>
    /\ UNCHANGED <<count, window, signal>>

ShouldRestart(i, success) ==
    CASE Policy[i] = "always"     -> TRUE
      [] Policy[i] = "on_failure" -> ~success
      [] Policy[i] = "never"      -> FALSE

\* should_restart, with inWindow restarts left in the five-minute window.
MayRestart(i, success, inWindow) ==
    /\ ShouldRestart(i, success)
    /\ count[i] < MaxRestarts
    /\ ~(CrashLimit > 0 /\ inWindow >= CrashLimit)

NextEntry ==
    /\ phase' = IF at = Entries THEN "polling" ELSE "checking"
    /\ at' = at + 1

\* A slip: the restart is counted, but no time is set for it.
Schedule_Forgotten(i) == next

Schedule(i) == [next EXCEPT ![i] = "waiting"]

\* The second half: try_wait, which may fail, and what follows from an exit.
ReapEntry ==
    /\ phase = "reaping"
    /\ \/ /\ ~held[at] \/ child[at] = "alive"
          /\ NextEntry
          /\ UNCHANGED entries
       \/ /\ held[at]
          /\ StopAll
          /\ UNCHANGED entries
       \/ /\ held[at]
          /\ child[at] = "dead"
          /\ child' = [child EXCEPT ![at] = "none"]
          /\ held' = [held EXCEPT ![at] = FALSE]
          /\ \E success \in BOOLEAN, inWindow \in 0 .. window[at] :
                IF MayRestart(at, success, inWindow)
                THEN /\ count' = [count EXCEPT ![at] = @ + 1]
                     /\ window' = [window EXCEPT ![at] = IF CrashLimit = 0 THEN @
                                                         ELSE inWindow + 1]
                     /\ next' = Schedule(at)
                     /\ NextEntry
                ELSE StopAll /\ UNCHANGED <<count, window, next>>
    /\ UNCHANGED signal

\* A slip: the stop signal, which a child may ignore, and no SIGKILL.
Killed_Asked(i) == child[i]

\* terminate_child ends with a SIGKILL: the child is doomed, or already reaped.
Killed(i) == IF child[i] = "alive" THEN "doomed" ELSE child[i]

\* shutdown_all_entries, one entry after the other.
StopEntry ==
    /\ phase = "stopping"
    /\ at <= Entries
    /\ child' = [child EXCEPT ![at] = IF held[at] THEN Killed(at) ELSE @]
    /\ held' = [held EXCEPT ![at] = FALSE]
    /\ next' = [next EXCEPT ![at] = "none"]
    /\ at' = at + 1
    /\ UNCHANGED <<phase, count, window, signal>>

Exit ==
    /\ phase = "stopping"
    /\ at = Entries + 1
    /\ phase' = "gone"
    /\ UNCHANGED <<at, entries, signal>>

-----------------------------------------------------------------------------
Init ==
    /\ phase = "starting"
    /\ at = 1
    /\ child = [i \in Entry |-> "none"]
    /\ held = [i \in Entry |-> FALSE]
    /\ count = [i \in Entry |-> 0]
    /\ window = [i \in Entry |-> 0]
    /\ next = [i \in Entry |-> "none"]
    /\ signal = "none"

Proceed == \/ StartEntry \/ Started \/ Poll \/ CheckEntry \/ ReapEntry
           \/ StopEntry \/ Exit

Next ==
    \/ Proceed \/ TakeSignal \/ SignalArrives
    \/ \E i \in Entry : ChildExits(i) \/ DelayPasses(i)

Spec == Init /\ [][Next]_vars

\* The supervisor runs, its select! does not pass over a signal at every turn, delays
\* end, and a killed child dies.
FairSpec ==
    /\ Spec
    /\ WF_vars(Proceed)
    /\ SF_vars(TakeSignal)
    /\ \A i \in Entry : WF_vars(DelayPasses(i))
    /\ \A i \in Entry : WF_vars(child[i] = "doomed" /\ ChildExits(i))

-----------------------------------------------------------------------------
(* Properties.                                                              *)

TypeOK ==
    /\ phase \in {"starting", "polling", "checking", "reaping", "stopping", "gone"}
    /\ at \in 1 .. Entries + 1
    /\ phase \in {"checking", "reaping"} => at \in Entry
    /\ child \in [Entry -> {"none", "alive", "doomed", "dead"}]
    /\ held \in [Entry -> BOOLEAN]
    /\ count \in [Entry -> 0 .. MaxRestarts]
    /\ window \in [Entry -> Nat]
    /\ next \in [Entry -> {"none", "waiting", "passed"}]
    /\ signal \in {"none", "early", "pending"}

\* While it polls, the supervisor has for each entry either a child, dead or alive, or a
\* restart to do, never both: no entry is dropped in silence, and none gets a second
\* child beside the first.
EachAttended ==
    phase \in {"polling", "checking", "reaping"} =>
        \A i \in Entry : IF held[i] THEN child[i] # "none" /\ next[i] = "none"
                                    ELSE child[i] = "none" /\ next[i] # "none"

\* A supervisor that exits after a signal or a failed entry, rather than because one did
\* not start, has killed every child of every entry.
StoppedTogether ==
    phase = "gone" /\ at = Entries + 1 /\ (signal = "early" => InitProcess) =>
        \A i \in Entry : child[i] # "alive"

\* A signal that a handler took ends the supervisor and every child, however the
\* children behave.
SignalStops ==
    signal = "pending" ~> phase = "gone" /\ \A i \in Entry : child[i] \in {"none", "dead"}

\* A restart that was announced happens, unless the supervisor exits.
RestartHappens ==
    \A i \in Entry : next[i] # "none" ~> held[i] \/ phase = "gone"

\* No supervisor that got a shutdown signal leaves a child running when it exits:
\* "Handles `SIGTERM` / `SIGINT` and gracefully stops children." (docs/RUNTIME.md)
SignalLeavesNone ==
    signal # "none" /\ phase = "gone" => \A i \in Entry : child[i] # "alive"

=============================================================================

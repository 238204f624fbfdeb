--------------------------- MODULE ProcessManager ---------------------------
(***************************************************************************)
(* The daemon's process manager: the table of managed processes, the OS    *)
(* children it spawns and kills, the exit events they send back, the       *)
(* restart timers, and the state file it writes.                           *)
(*                                                                         *)
(* One task owns the ProcessManager and runs every handler to completion,  *)
(* so each handler is one action.  Children exit at any time, concurrently *)
(* with it: an exit becomes visible to the manager only when the event its *)
(* waiter task sent is handled.  The daemon may crash between handlers and *)
(* is then started again; children outlive it.                             *)
(*                                                                         *)
(* Loops over all processes that do the same per process and stop at the   *)
(* first error (restart all, pull all, the maintenance tick) are sequences *)
(* of the per-process actions below.  Times are abstracted: a timer may    *)
(* fire, and a crash-loop window may slide, at any moment.                 *)
(***************************************************************************)
EXTENDS Integers, FiniteSets

CONSTANTS
    Name,           \* names a process can be registered under
    NoName,         \* the name of a child that does not exist yet
    MaxPid,         \* bound: children spawned over the whole behaviour
    Policy,         \* restart_policy of each name
    Delayed,        \* names with restart_delay_secs > 0
    MaxRestarts,    \* max_restarts
    CrashLimit,     \* crash_restart_limit, 0 switches the cutoff off
    SaveMayFail,    \* may writing the state file fail?
    KillMayFail,    \* may signalling a live child fail (EPERM)?
    VerifyMayMiss   \* may recovery fail to recognise a live stale child?

ASSUME NameAssumption == NoName \notin Name
ASSUME PolicyAssumption ==
    /\ Policy \in [Name -> {"always", "on_failure", "never"}]
    /\ Delayed \subseteq Name
ASSUME BoundAssumption ==
    /\ MaxPid \in Nat
    /\ MaxRestarts \in Nat
    /\ CrashLimit \in Nat
ASSUME FaultAssumption == {SaveMayFail, KillMayFail, VerifyMayMiss} \subseteq BOOLEAN

VARIABLES
    phase,       \* "up", "down" or "recovering"
    procs,       \* the process table; while the daemon is down, the state file
    scheduled,   \* names with an entry in scheduled_restarts
    toStart,     \* names recovery has still to spawn
    children,    \* every child ever spawned, indexed by pid
    lastPid,     \* the pid given last
    waiting,     \* children whose waiter task has not sent its exit event
    exits,       \* children whose exit event is queued
    disk,        \* the process table in the state file
    saveFailed   \* did the last save() of this daemon fail?

memory == <<phase, procs, scheduled, toStart>>
os     == <<children, lastPid, waiting>>
file   == <<disk, saveFailed>>
vars   == <<memory, os, exits, file>>

Pid  == 1 .. MaxPid
None == 0

Status == {"absent", "running", "stopped", "crashed", "restarting", "errored"}

Process == [status   : Status,
            desired  : {"running", "stopped"},
            pid      : Pid \cup {None},
            restarts : Nat,
            history  : Nat]

Child == [name : Name \cup {NoName}, state : {"unborn", "alive", "doomed", "dead"}]

Absent == [status |-> "absent", desired |-> "stopped", pid |-> None,
           restarts |-> 0, history |-> 0]
Unborn == [name |-> NoName, state |-> "unborn"]

Present(n) == procs[n].status # "absent"
Tracked    == {procs[n].pid : n \in Name} \ {None}

-----------------------------------------------------------------------------
(* Children. terminate_pid answers ESRCH with success, waits for the child  *)
(* and ends with a SIGKILL it does not wait for: a terminated child is      *)
(* doomed and may still run for a while.  With KillMayFail a signal may be  *)
(* refused, and the child stays alive.                                      *)

Terminated(cs, pids) ==
    [p \in Pid |-> IF p \in pids /\ cs[p].state = "alive"
                   THEN [cs[p] EXCEPT !.state = "doomed"]
                   ELSE cs[p]]

\* The subsets of the pids to terminate whose children refuse the signal.
Refusals(pids) ==
    IF KillMayFail THEN SUBSET {p \in pids : children[p].state = "alive"} ELSE {{}}

FreshPid == lastPid + 1

\* How spawn_child_with_readiness followed by save() can end:
\*   ready    the child runs, is ready, and the table is saved
\*   unsaved  the child runs and is ready, but save() fails
\*   unready  the child ran and was killed: not ready, no cgroup, or it exited
\*   stray    as unready, but the child refused the signal
\*   refused  no child was created
Outcomes ==
    {"refused"} \cup
    (IF lastPid < MaxPid
     THEN {"ready", "unready"}
          \cup (IF SaveMayFail THEN {"unsaved"} ELSE {})
          \cup (IF KillMayFail THEN {"stray"} ELSE {})
     ELSE {})

\* A slip: no waiter task is started for the child.
SpawnChild_Unwatched(n, out, cs) ==
    IF out = "refused"
    THEN /\ children' = cs
         /\ UNCHANGED <<lastPid, waiting>>
    ELSE /\ children' = [cs EXCEPT ![FreshPid] =
                            [name  |-> n,
                             state |-> IF out = "unready" THEN "doomed" ELSE "alive"]]
         /\ lastPid' = FreshPid
         /\ UNCHANGED waiting

\* spawn_child for n, starting from the children cs.
SpawnChild(n, out, cs) ==
    IF out = "refused"
    THEN /\ children' = cs
         /\ UNCHANGED <<lastPid, waiting>>
    ELSE /\ children' = [cs EXCEPT ![FreshPid] =
                            [name  |-> n,
                             state |-> IF out = "unready" THEN "doomed" ELSE "alive"]]
         /\ lastPid' = FreshPid
         /\ waiting' = waiting \cup {FreshPid}

\* A child exits, and its waiter task, if its daemon still runs, sends the event.
ChildExits(p) ==
    /\ children[p].state \in {"alive", "doomed"}
    /\ children' = [children EXCEPT ![p].state = "dead"]
    /\ waiting' = waiting \ {p}
    /\ exits' = exits \cup ({p} \cap waiting)
    /\ UNCHANGED <<memory, lastPid, file>>

-----------------------------------------------------------------------------
(* The state file.                                                          *)

SaveSucceeds == disk' = procs' /\ saveFailed' = FALSE
SaveFails    == SaveMayFail /\ disk' = disk /\ saveFailed' = TRUE
Save         == SaveSucceeds \/ SaveFails

-----------------------------------------------------------------------------
(* Commands.                                                                *)

\* start_process: a process whose child does not come up is not registered.
Start(n) ==
    /\ phase = "up"
    /\ ~Present(n)
    /\ \E out \in Outcomes :
          /\ SpawnChild(n, out, children)
          /\ IF out \in {"ready", "unsaved"}
             THEN /\ procs' = [procs EXCEPT ![n] =
                                 [status |-> "running", desired |-> "running",
                                  pid |-> FreshPid, restarts |-> 0, history |-> 0]]
                  /\ IF out = "ready" THEN SaveSucceeds ELSE SaveFails
             ELSE UNCHANGED <<procs, file>>
    /\ UNCHANGED <<phase, scheduled, toStart, exits>>

StoppedProcess(r) ==
    [r EXCEPT !.status = "stopped", !.desired = "stopped", !.pid = None, !.history = 0]

\* stop_process: when the signal is refused the command fails and changes nothing.
Stop(n) ==
    /\ phase = "up"
    /\ Present(n)
    /\ procs' = [procs EXCEPT ![n] = StoppedProcess(@)]
    /\ children' = Terminated(children, {procs[n].pid})
    /\ scheduled' = scheduled \ {n}
    /\ Save
    /\ UNCHANGED <<phase, toStart, lastPid, waiting, exits>>

AllStopped == [n \in Name |-> IF Present(n) THEN StoppedProcess(procs[n]) ELSE procs[n]]

StopAll ==
    /\ phase = "up"
    /\ procs' = AllStopped
    /\ \E kept \in Refusals(Tracked) : children' = Terminated(children, Tracked \ kept)
    /\ scheduled' = {}
    /\ Save
    /\ UNCHANGED <<phase, toStart, lastPid, waiting, exits>>

\* delete_process ignores a refused signal and forgets the process all the same.
Delete(n) ==
    /\ phase = "up"
    /\ Present(n)
    /\ procs' = [procs EXCEPT ![n] = Absent]
    /\ \E kept \in Refusals({procs[n].pid} \ {None}) :
          children' = Terminated(children, {procs[n].pid} \ kept)
    /\ scheduled' = scheduled \ {n}
    /\ Save
    /\ UNCHANGED <<phase, toStart, lastPid, waiting, exits>>

DeleteAll ==
    /\ phase = "up"
    /\ procs' = [n \in Name |-> Absent]
    /\ \E kept \in Refusals(Tracked) : children' = Terminated(children, Tracked \ kept)
    /\ scheduled' = {}
    /\ Save
    /\ UNCHANGED <<phase, toStart, lastPid, waiting, exits>>

\* A slip: a failed spawn leaves the process as it was.
Respawned_LeftRestarting(r, out) ==
    IF out \in {"ready", "unsaved"}
    THEN [r EXCEPT !.status = "running", !.desired = "running", !.pid = FreshPid]
    ELSE r

\* spawn_existing for r, a process without a child, and what each of its callers
\* but recovery does when it fails: mark the process errored and stopped.  When
\* only save() failed, spawn_existing has already recorded the new child.
Respawned(r, out) ==
    CASE out = "ready"   -> [r EXCEPT !.status = "running", !.desired = "running",
                                      !.pid = FreshPid]
      [] out = "unsaved" -> [r EXCEPT !.status = "errored", !.desired = "stopped",
                                      !.pid = FreshPid]
      [] OTHER           -> [r EXCEPT !.status = "errored", !.desired = "stopped"]

\* restart_process: restart_process_internal with the counters reset.  Also
\* reload_process of a process without a child, and pull of one that should run.
Restart(n) ==
    /\ phase = "up"
    /\ Present(n)
    /\ \E out \in Outcomes :
          /\ SpawnChild(n, out, Terminated(children, {procs[n].pid}))
          /\ procs' = [procs EXCEPT ![n] =
                         Respawned([@ EXCEPT !.pid = None, !.restarts = 0, !.history = 0],
                                   out)]
          /\ IF out = "ready" THEN SaveSucceeds ELSE Save
    /\ scheduled' = scheduled \ {n}
    /\ UNCHANGED <<phase, toStart, exits>>

\* reload_process of a process with a child: the replacement must come up before
\* the old child is terminated; when save() fails the old child is left alone.  Also
\* pull, when the new HEAD differs, of a running process.
Reload(n) ==
    /\ phase = "up"
    /\ procs[n].pid # None
    /\ \E out \in Outcomes :
          IF out \in {"ready", "unsaved"}
          THEN /\ \E kept \in Refusals({procs[n].pid}) :
                     SpawnChild(n, out, IF out = "ready"
                                        THEN Terminated(children, {procs[n].pid} \ kept)
                                        ELSE children)
               /\ procs' = [procs EXCEPT ![n] =
                              [@ EXCEPT !.status = "running", !.desired = "running",
                                        !.pid = FreshPid, !.history = 0]]
               /\ scheduled' = scheduled \ {n}
               /\ IF out = "ready" THEN SaveSucceeds ELSE SaveFails
          ELSE /\ SpawnChild(n, out, children)
               /\ UNCHANGED <<procs, scheduled, file>>
    /\ UNCHANGED <<phase, toStart, exits>>

-----------------------------------------------------------------------------
(* Exit events.                                                             *)

ShouldRestart(n, success) ==
    CASE Policy[n] = "always"     -> TRUE
      [] Policy[n] = "on_failure" -> ~success
      [] Policy[n] = "never"      -> FALSE

\* A slip: any exit event is taken for the current child's.
ExitMatches_AnyPid(r, p) == r.pid # None \/ r.desired # "running"

\* A slip: only the events of processes shown as running are taken.
ExitMatches_RunningOnly(r, p) == r.status = "running" /\ r.pid = p

\* exit_event_matches_process: without a child, only a process that should not run
\* accepts events.
ExitMatches(r, p) ==
    IF r.pid # None THEN r.pid = p ELSE r.desired # "running"

CanAutoRestart(n, kind) ==
    /\ kind # "wait_error"
    /\ ShouldRestart(n, kind = "success")
    /\ procs[n].restarts < MaxRestarts

\* r.history counts the automatic restarts in the five-minute window; any number
\* of them may have left it by now.
CrashLooping(inWindow) == CrashLimit > 0 /\ inWindow >= CrashLimit

TerminalStatus(kind) ==
    CASE kind = "wait_error" -> "errored"
      [] kind = "success"    -> "stopped"
      [] kind = "failure"    -> "crashed"

\* A slip: the settled process is not persisted.
Settle_Unsaved(n, r) ==
    /\ procs' = [procs EXCEPT ![n] = r]
    /\ scheduled' = scheduled \ {n}
    /\ UNCHANGED <<file, os>>

\* finish_requested_stop, finish_crash_loop and finish_terminal_exit: the process
\* gets no new child.
Settle(n, r) ==
    /\ procs' = [procs EXCEPT ![n] = r]
    /\ scheduled' = scheduled \ {n}
    /\ Save
    /\ UNCHANGED os

\* A slip: a delayed restart is announced but no timer is set.
AutoRestart_NoTimer(n, r) ==
    /\ procs' = [procs EXCEPT ![n] = r]
    /\ scheduled' = scheduled \ {n}
    /\ Save
    /\ UNCHANGED os

\* handle_auto_restart past the crash-loop cutoff.
AutoRestart(n, r) ==
    IF n \in Delayed
    THEN /\ procs' = [procs EXCEPT ![n] = r]
         /\ scheduled' = scheduled \cup {n}
         /\ Save
         /\ UNCHANGED os
    ELSE \E out \in Outcomes :
            /\ SpawnChild(n, out, children)
            /\ procs' = [procs EXCEPT ![n] = Respawned(r, out)]
            /\ scheduled' = scheduled \ {n}
            /\ IF out = "ready" THEN SaveSucceeds ELSE Save

AfterExit(n, kind) ==
    LET gone == [procs[n] EXCEPT !.pid = None]
    IN  IF gone.desired = "stopped"
        THEN Settle(n, [gone EXCEPT !.status = "stopped", !.history = 0])
        ELSE IF ~CanAutoRestart(n, kind)
        THEN Settle(n, [gone EXCEPT !.status = TerminalStatus(kind), !.history = 0])
        ELSE \E inWindow \in 0 .. gone.history :
                IF CrashLooping(inWindow)
                THEN Settle(n, [gone EXCEPT !.status = "errored", !.desired = "stopped",
                                            !.history = inWindow])
                ELSE AutoRestart(n,
                        [gone EXCEPT !.status = "restarting",
                                     !.restarts = @ + 1,
                                     !.history = IF CrashLimit = 0 THEN inWindow
                                                 ELSE inWindow + 1])

\* handle_exit_event: events of unknown processes and of earlier children are ignored.
HandleExit(p) ==
    LET n == children[p].name
    IN  /\ phase = "up"
        /\ p \in exits
        /\ exits' = exits \ {p}
        /\ IF Present(n) /\ ExitMatches(procs[n], p)
           THEN \E kind \in {"success", "failure", "wait_error"} : AfterExit(n, kind)
           ELSE UNCHANGED <<procs, scheduled, os, file>>
        /\ UNCHANGED <<phase, toStart>>

-----------------------------------------------------------------------------
(* Timers and the maintenance tick.                                         *)

\* run_scheduled_restarts, for one due entry.
ScheduledRestart(n) ==
    /\ phase = "up"
    /\ n \in scheduled
    /\ scheduled' = scheduled \ {n}
    /\ IF procs[n].desired = "running" /\ procs[n].status = "restarting"
       THEN \E out \in Outcomes :
               /\ SpawnChild(n, out, children)
               /\ procs' = [procs EXCEPT ![n] = Respawned(@, out)]
               /\ IF out = "ready" THEN SaveSucceeds ELSE Save
       ELSE UNCHANGED <<procs, os, file>>
    /\ UNCHANGED <<phase, toStart, exits>>

\* restart_process_internal without a reset, as the maintenance tick calls it: a
\* restart that came up is counted and saved once more, a failed one is marked
\* errored.  When the old child refuses the signal it stays tracked.
CountedRestart(n) ==
    \/ /\ Refusals({procs[n].pid}) # {{}}
       /\ procs' = [procs EXCEPT ![n].status = "errored"]
       /\ Save
       /\ UNCHANGED <<scheduled, os>>
    \/ \E out \in Outcomes :
          /\ SpawnChild(n, out, Terminated(children, {procs[n].pid}))
          /\ LET r == Respawned([procs[n] EXCEPT !.pid = None], out)
             IN  IF out = "ready"
                 THEN /\ procs' = [procs EXCEPT ![n] = [r EXCEPT !.restarts = @ + 1]]
                      /\ \/ SaveSucceeds
                         \/ /\ SaveMayFail
                            /\ disk' = [procs EXCEPT ![n] = r]
                            /\ saveFailed' = TRUE
                 ELSE /\ procs' = [procs EXCEPT ![n] = r]
                      /\ Save
          /\ scheduled' = scheduled \ {n}

\* A slip: the process is marked, and its child left alone.
GiveUp_Unkilled(n) ==
    /\ procs' = [procs EXCEPT ![n].status = "errored", ![n].desired = "stopped"]
    /\ Save
    /\ UNCHANGED <<scheduled, os>>

\* The resource and health checks stop a process that has used up max_restarts.
GiveUp(n) ==
    /\ procs' = [procs EXCEPT ![n] = [@ EXCEPT !.status = "errored",
                                               !.desired = "stopped", !.pid = None]]
    /\ \E kept \in Refusals({procs[n].pid}) :
          children' = Terminated(children, {procs[n].pid} \ kept)
    /\ Save
    /\ UNCHANGED <<scheduled, lastPid, waiting>>

Watchable(n) ==
    /\ phase = "up"
    /\ procs[n].status = "running"
    /\ procs[n].pid # None

\* run_cron_restarts, for a process whose next_cron_restart has passed.
CronRestart(n) ==
    /\ Watchable(n)
    /\ procs[n].desired = "running"
    /\ CountedRestart(n)
    /\ UNCHANGED <<phase, toStart, exits>>

\* run_watch_checks and run_due_watch_restarts, once a change is to be acted upon.
WatchRestart(n) ==
    /\ Watchable(n)
    /\ CountedRestart(n)
    /\ UNCHANGED <<phase, toStart, exits>>

\* run_resource_limit_checks for a process over its limits, and run_health_checks
\* for one whose check has failed max_failures times in a row.
FailedCheck(n) ==
    /\ Watchable(n)
    /\ IF procs[n].restarts >= MaxRestarts THEN GiveUp(n) ELSE CountedRestart(n)
    /\ UNCHANGED <<phase, toStart, exits>>

-----------------------------------------------------------------------------
(* The daemon's own life.                                                   *)

\* What is left when the daemon is gone: the state file and the children.
DaemonGone ==
    /\ phase' = "down"
    /\ procs' = disk'
    /\ scheduled' = {}
    /\ toStart' = {}
    /\ waiting' = {}
    /\ exits' = {}

\* shutdown_all, then the daemon leaves its loop.
Shutdown ==
    /\ phase = "up"
    /\ \E kept \in Refusals(Tracked) : children' = Terminated(children, Tracked \ kept)
    /\ disk' = AllStopped \/ (SaveMayFail /\ disk' = disk)
    /\ saveFailed' = FALSE
    /\ DaemonGone
    /\ UNCHANGED lastPid

Crash ==
    /\ phase # "down"
    /\ disk' = disk
    /\ saveFailed' = FALSE
    /\ DaemonGone
    /\ UNCHANGED <<children, lastPid>>

Cleared == [n \in Name |-> IF Present(n)
                           THEN [procs[n] EXCEPT !.status = "stopped", !.pid = None]
                           ELSE procs[n]]

\* A slip: everything in the state file is started.
ShouldStart_Everything == {n \in Name : Present(n)}

ShouldStart == {n \in Name : procs[n].desired = "running"}

\* recover_processes up to its first save(): stale children it recognises are
\* terminated, then every process is set to stopped.  If save() fails the daemon
\* exits again.
RecoverTable ==
    /\ phase = "down"
    /\ \E kept \in SUBSET {p \in Tracked : children[p].state = "alive"} :
          /\ kept \in Refusals(Tracked) \/ VerifyMayMiss
          /\ children' = Terminated(children, Tracked \ kept)
    /\ \/ /\ phase' = "recovering"
          /\ procs' = Cleared
          /\ toStart' = ShouldStart
          /\ SaveSucceeds
       \/ /\ SaveMayFail
          /\ UNCHANGED <<phase, procs, toStart, file>>
    /\ UNCHANGED <<scheduled, lastPid, waiting, exits>>

\* One turn of recover_processes' spawn loop.  A failure leaves the desired state alone.
RecoverProcess(n) ==
    /\ phase = "recovering"
    /\ n \in toStart
    /\ toStart' = toStart \ {n}
    /\ \E out \in Outcomes :
          /\ SpawnChild(n, out, children)
          /\ procs' = [procs EXCEPT ![n] = [Respawned(@, out) EXCEPT !.desired = "running"]]
          /\ CASE out = "ready"   -> SaveSucceeds
               [] out = "unsaved" -> SaveFails
               [] OTHER           -> UNCHANGED file
    /\ UNCHANGED <<phase, scheduled, exits>>

\* The last save() of recover_processes; if it fails the daemon exits again.
RecoverDone ==
    /\ phase = "recovering"
    /\ toStart = {}
    /\ UNCHANGED <<children, lastPid>>
    /\ \/ /\ phase' = "up"
          /\ UNCHANGED <<procs, scheduled, toStart, waiting, exits>>
          /\ SaveSucceeds
       \/ /\ SaveMayFail
          /\ disk' = disk
          /\ saveFailed' = FALSE
          /\ DaemonGone

-----------------------------------------------------------------------------
Init ==
    /\ phase = "up"
    /\ procs = [n \in Name |-> Absent]
    /\ scheduled = {}
    /\ toStart = {}
    /\ children = [p \in Pid |-> Unborn]
    /\ lastPid = 0
    /\ waiting = {}
    /\ exits = {}
    /\ disk = procs
    /\ saveFailed = FALSE

Commands(n)   == Start(n) \/ Stop(n) \/ Delete(n) \/ Restart(n) \/ Reload(n)
Background(n) == \/ ScheduledRestart(n) \/ CronRestart(n) \/ WatchRestart(n)
                 \/ FailedCheck(n) \/ RecoverProcess(n)

Next ==
    \/ \E n \in Name : Commands(n) \/ Background(n)
    \/ \E p \in Pid : HandleExit(p) \/ ChildExits(p)
    \/ StopAll \/ DeleteAll
    \/ Shutdown \/ Crash \/ RecoverTable \/ RecoverDone

\* A doomed child dies (SIGKILL cannot be ignored), the select loop serves its exit
\* events and timers, and a supervisor starts the daemon again.
Fairness ==
    /\ \A p \in Pid : WF_vars(children[p].state = "doomed" /\ ChildExits(p))
    /\ \A p \in Pid : WF_vars(HandleExit(p))
    /\ \A n \in Name : WF_vars(ScheduledRestart(n))
    /\ \A n \in Name : WF_vars(RecoverProcess(n))
    /\ WF_vars(RecoverTable)
    /\ WF_vars(RecoverDone)

Spec     == Init /\ [][Next]_vars
FairSpec == Spec /\ Fairness

-----------------------------------------------------------------------------
(* Properties.                                                              *)

TypeOK ==
    /\ phase \in {"up", "down", "recovering"}
    /\ procs \in [Name -> Process]
    /\ scheduled \subseteq Name
    /\ toStart \subseteq Name
    /\ children \in [Pid -> Child]
    /\ lastPid \in 0 .. MaxPid
    /\ waiting \subseteq Pid
    /\ exits \subseteq Pid
    /\ disk \in [Name -> Process]
    /\ saveFailed \in BOOLEAN

\* While the daemon is up, the reported status agrees with the rest of the manager's
\* state: a running process has a child and is meant to run, a restarting one has no
\* child and a timer in scheduled_restarts, and nothing else has a timer.  A restart
\* announced without a timer would never happen.
StatusAgrees ==
    phase = "up" =>
        /\ \A n \in Name : procs[n].status = "running" =>
              procs[n].pid # None /\ procs[n].desired = "running"
        /\ \A n \in Name : procs[n].status = "restarting" =>
              procs[n].pid = None /\ procs[n].desired = "running"
        /\ scheduled = {n \in Name : procs[n].status = "restarting"}

\* The child a running manager tracks for a process is that process's, and its exit
\* is still to be told: its waiter task runs or its exit event is queued.  Otherwise
\* the manager would believe for ever in a child that is gone.
TrackedIsWatched ==
    phase # "down" =>
        \A n \in Name : procs[n].pid # None =>
            /\ children[procs[n].pid].name = n
            /\ procs[n].pid \in waiting \cup exits

\* Every child that has not been terminated is the tracked child of its process,
\* across crashes of the daemon too: no restart, reload, recovery or stale exit event
\* leaves a second instance behind.
NoOrphan ==
    \A p \in Pid : children[p].state = "alive" => procs[children[p].name].pid = p

\* Between two handlers the state file holds the process table, unless the last save()
\* failed: a daemon killed at that moment comes back with every acknowledged command.
DiskInSync == phase # "recovering" /\ ~saveFailed => disk = procs

\* A process whose desired state is stopped (by the user, by the crash-loop cutoff, by
\* an exhausted budget) gets a new child by a command only: "The process should remain
\* stopped until explicitly started again."
RevivedByCommandOnly ==
    [][\A n \in Name :
          /\ procs[n].desired = "stopped"
          /\ lastPid' # lastPid
          /\ children'[lastPid'].name = n
          => Start(n) \/ Restart(n) \/ Reload(n)]_vars

\* For the services this is all a Supervisor does: what the table, the state file, the
\* exit events and the timers add is not to be seen, across crashes of the daemon too.
Promise == INSTANCE Supervisor WITH
    Id        <- Pid,
    wanted    <- {n \in Name : procs[n].desired = "running"},
    used      <- [n \in Name |-> procs[n].restarts],
    instances <- [n \in Name |-> {p \in Pid : children[p].name = n /\ children[p].state = "alive"}],
    born      <- {p \in Pid : children[p].state # "unborn"}

Supervised == Promise!Spec

\* A process marked errored with its restart budget used up stays so until a command,
\* or a new daemon, changes it: "if restart budget is exhausted, process is marked
\* `errored`" (docs/OXFILE.md).
ErroredSticks ==
    [][\A n \in Name :
          /\ procs[n].status = "errored"
          /\ procs[n].restarts >= MaxRestarts
          /\ procs'[n].status # "errored"
          => Commands(n) \/ StopAll \/ DeleteAll \/ Shutdown \/ RecoverTable]_vars

\* A child that died while tracked is noticed: the manager stops tracking it.
DeathIsNoticed ==
    \A n \in Name : \A p \in Pid :
        procs[n].pid = p /\ children[p].state = "dead" ~> procs[n].pid # p

\* A process shown as restarting does not stay so.
RestartCompletes ==
    \A n \in Name : procs[n].status = "restarting" ~> procs[n].status # "restarting"

\* When a process is not meant to run, each of its children is gone in the end,
\* unless it is meant to run again before that.
StoppedDies ==
    \A n \in Name : \A p \in Pid :
        children[p].name = n /\ procs[n].desired = "stopped"
            ~> children[p].state = "dead" \/ procs[n].desired = "running"

=============================================================================

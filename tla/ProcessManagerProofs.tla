------------------------ MODULE ProcessManagerProofs ------------------------
(***************************************************************************)
(* Proofs about ProcessManager, for every set of names, every bound on the *)
(* children and every combination of faults:                               *)
(*   - type correctness;                                                   *)
(*   - the status agrees with the children and the timers, and a tracked   *)
(*     child is watched (StatusAgrees, TrackedIsWatched), whatever fails;  *)
(*   - the state file holds the table (DiskInSync), and a process that is  *)
(*     meant to be stopped is revived by a command only.                   *)
(***************************************************************************)
EXTENDS ProcessManager, TLAPS

-----------------------------------------------------------------------------
(* The inductive invariant.                                                 *)

\* Pids are given in order, and a table entry's child was spawned for that entry's
\* name, so no two entries share a child.  Unknown names have no child.
RowOK(n, r) ==
    /\ r.pid # None => r.pid <= lastPid /\ children[r.pid].name = n
    /\ r.status = "absent" => r.pid = None /\ r.desired = "stopped"

\* A queued or awaited exit event belongs to a spawned child.
EventsOK == \A p \in waiting \cup exits : p <= lastPid /\ children[p].name \in Name

\* What each phase leaves empty.
PhaseOK ==
    /\ phase # "up" => scheduled = {}
    /\ phase # "recovering" => toStart = {}
    /\ phase = "down" => procs = disk

\* StatusAgrees and TrackedIsWatched for one process, said of a recovering daemon too.
LiveRow(n) ==
    /\ procs[n].pid # None => procs[n].pid \in waiting \cup exits
    /\ procs[n].status = "running" => procs[n].pid # None /\ procs[n].desired = "running"
    /\ procs[n].status = "restarting" => procs[n].pid = None /\ procs[n].desired = "running"
    /\ n \in scheduled <=> procs[n].status = "restarting"
    /\ n \in toStart => procs[n].pid = None /\ procs[n].desired = "running"

ManagerInv ==
    /\ TypeOK
    /\ EventsOK
    /\ PhaseOK
    /\ \A n \in Name : RowOK(n, procs[n]) /\ RowOK(n, disk[n])
    /\ phase # "down" => \A n \in Name : LiveRow(n)

\* A step that spawns children forgets nothing of the older ones.
Grown ==
    /\ lastPid <= lastPid'
    /\ \A p \in Pid : p <= lastPid => children'[p].name = children[p].name

-----------------------------------------------------------------------------
(* What the helpers of the actions return.                                  *)

\* Terminating children changes no child's name and brings none to life.
LEMMA TerminatedType ==
    ASSUME NEW cs \in [Pid -> Child], NEW S
    PROVE  /\ Terminated(cs, S) \in [Pid -> Child]
           /\ \A p \in Pid : /\ Terminated(cs, S)[p].name = cs[p].name
                             /\ cs[p].state = "dead" => Terminated(cs, S)[p].state = "dead"
                             /\ Terminated(cs, S)[p].state = "alive" =>
                                   cs[p].state = "alive" /\ p \notin S
  BY DEF Terminated, Child

\* A spawn that succeeded used a pid that is in range.
LEMMA OutcomeFresh ==
    ASSUME TypeOK, NEW out \in Outcomes
    PROVE  out \in {"refused", "unready", "stray", "ready", "unsaved"}
           /\ (out # "refused" => FreshPid \in Pid /\ FreshPid \in Nat /\ FreshPid # None)
  BY BoundAssumption DEF TypeOK, Outcomes, FreshPid, Pid, None

\* spawn_child keeps the children well-typed and gives a pid only to a new child.
LEMMA SpawnChildType ==
    ASSUME TypeOK, NEW n \in Name, NEW out \in Outcomes, NEW cs \in [Pid -> Child],
           SpawnChild(n, out, cs)
    PROVE  children' \in [Pid -> Child] /\ lastPid' \in 0 .. MaxPid /\ waiting' \subseteq Pid
<1>1. CASE out = "refused"
  BY <1>1 DEF SpawnChild, TypeOK
<1>2. CASE out # "refused"
  <2>1. FreshPid \in Pid
    BY <1>2, OutcomeFresh
  <2>2. [name |-> n, state |-> IF out = "unready" THEN "doomed" ELSE "alive"] \in Child
    BY DEF Child
  <2>3. children' \in [Pid -> Child]
    BY <1>2, <2>1, <2>2 DEF SpawnChild
  <2>4. lastPid' \in 0 .. MaxPid
    BY <1>2, <2>1, BoundAssumption DEF SpawnChild, Pid
  <2>5. waiting' \subseteq Pid
    BY <1>2, <2>1 DEF SpawnChild, TypeOK
  <2> QED
    BY <2>3, <2>4, <2>5
<1> QED
  BY <1>1, <1>2

\* The settlements that touch no counter keep a row well-typed: a counted restart that
\* gives up, a failed check that does, and recovery's clearing of the table.
LEMMA SettledType ==
    ASSUME NEW r \in Process
    PROVE  /\ [r EXCEPT !.status = "errored"] \in Process
           /\ [r EXCEPT !.status = "errored", !.desired = "stopped", !.pid = None] \in Process
           /\ [r EXCEPT !.status = "stopped", !.pid = None] \in Process
<1>1. [r EXCEPT !.status = "errored"] \in Process
  BY DEF Process, Status
<1>2. [r EXCEPT !.status = "errored", !.desired = "stopped", !.pid = None] \in Process
  BY DEF Process, Status, None
<1>3. [r EXCEPT !.status = "stopped", !.pid = None] \in Process
  BY DEF Process, Status, None
<1> QED
  BY <1>1, <1>2, <1>3

\* spawn_existing keeps a row well-typed.
LEMMA RespawnedType ==
    ASSUME TypeOK, NEW r \in Process, NEW out \in Outcomes
    PROVE  Respawned(r, out) \in Process
<1>1. out # "refused" => FreshPid \in Pid
  BY OutcomeFresh
<1> QED
  BY <1>1, OutcomeFresh DEF Respawned, Process, Status

\* Its child and status, outcome by outcome.
LEMMA RespawnedFields ==
    ASSUME TypeOK, NEW r \in Process, NEW out \in Outcomes
    PROVE  /\ out \in {"ready", "unsaved"} =>
                 /\ Respawned(r, out).pid = FreshPid
                 /\ Respawned(r, out).status \in {"running", "errored"}
           /\ out = "ready" => Respawned(r, out).status = "running"
           /\ Respawned(r, out).status = "running" => Respawned(r, out).desired = "running"
           /\ out \notin {"ready", "unsaved"} =>
                 Respawned(r, out).pid = r.pid /\ Respawned(r, out).status = "errored"
<1>1. CASE out = "ready"
  <2>1. Respawned(r, out) = [r EXCEPT !.status = "running", !.desired = "running",
                                      !.pid = FreshPid]
    BY <1>1 DEF Respawned
  <2> QED
    BY <1>1, <2>1 DEF Process
<1>2. CASE out = "unsaved"
  <2>1. Respawned(r, out) = [r EXCEPT !.status = "errored", !.desired = "stopped",
                                      !.pid = FreshPid]
    BY <1>2 DEF Respawned
  <2> QED
    BY <1>2, <2>1 DEF Process
<1>3. CASE out \notin {"ready", "unsaved"}
  <2>1. Respawned(r, out) = [r EXCEPT !.status = "errored", !.desired = "stopped"]
    BY <1>3 DEF Respawned
  <2> QED
    BY <1>3, <2>1 DEF Process
<1> QED
  BY <1>1, <1>2, <1>3

\* A save keeps the state file well-typed.
LEMMA SaveType ==
    ASSUME TypeOK, procs' \in [Name -> Process], Save
    PROVE  disk' \in [Name -> Process] /\ saveFailed' \in BOOLEAN
  BY DEF TypeOK, Save, SaveSucceeds, SaveFails

\* So does stopping a process,
LEMMA StoppedType ==
    ASSUME NEW r \in Process
    PROVE  StoppedProcess(r) \in Process
  BY DEF StoppedProcess, Process, Status, None

\* and forgetting it.
LEMMA AbsentType == Absent \in Process
  BY DEF Absent, Process, Status, None

-----------------------------------------------------------------------------
(* Type correctness.                                                        *)

\* The initial state is well-typed.
LEMMA InitType == Init => TypeOK
<1> SUFFICES ASSUME Init PROVE TypeOK
  OBVIOUS
<1>1. procs \in [Name -> Process] /\ disk \in [Name -> Process]
  BY AbsentType DEF Init
<1>2. children \in [Pid -> Child]
  BY DEF Init, Child, Unborn
<1>3. lastPid \in 0 .. MaxPid
  BY BoundAssumption DEF Init
<1> QED
  BY <1>1, <1>2, <1>3 DEF Init, TypeOK

\* The table, the timers, the children and the events keep their types when an exit
\* event is handled.
LEMMA AfterExitType ==
    ASSUME TypeOK, NEW n \in Name, NEW kind \in {"success", "failure", "wait_error"},
           AfterExit(n, kind)
    PROVE  /\ procs' \in [Name -> Process]
           /\ scheduled' \subseteq Name
           /\ children' \in [Pid -> Child]
           /\ lastPid' \in 0 .. MaxPid
           /\ waiting' \subseteq Pid
           /\ disk' \in [Name -> Process]
           /\ saveFailed' \in BOOLEAN
<1> DEFINE gone == [procs[n] EXCEPT !.pid = None]
           again(w) == [gone EXCEPT !.status = "restarting", !.restarts = @ + 1,
                                    !.history = IF CrashLimit = 0 THEN w ELSE w + 1]
<1>1. gone \in Process
  BY DEF TypeOK, Process, None
<1>2. ASSUME NEW r \in Process, Settle(n, r)
      PROVE  /\ procs' \in [Name -> Process] /\ scheduled' \subseteq Name
             /\ children' \in [Pid -> Child] /\ lastPid' \in 0 .. MaxPid
             /\ waiting' \subseteq Pid
             /\ disk' \in [Name -> Process] /\ saveFailed' \in BOOLEAN
  <2>1. procs' \in [Name -> Process] /\ Save
    BY <1>2 DEF Settle, TypeOK
  <2> QED
    BY <1>2, <2>1, SaveType DEF Settle, TypeOK, os
<1>3. ASSUME NEW r \in Process, AutoRestart(n, r)
      PROVE  /\ procs' \in [Name -> Process] /\ scheduled' \subseteq Name
             /\ children' \in [Pid -> Child] /\ lastPid' \in 0 .. MaxPid
             /\ waiting' \subseteq Pid
             /\ disk' \in [Name -> Process] /\ saveFailed' \in BOOLEAN
  <2>1. CASE n \in Delayed
    <3>1. procs' \in [Name -> Process] /\ Save
      BY <1>3, <2>1 DEF AutoRestart, TypeOK
    <3> QED
      BY <1>3, <2>1, <3>1, SaveType DEF AutoRestart, TypeOK, os
  <2>2. CASE n \notin Delayed
    <3>1. PICK out \in Outcomes :
             /\ SpawnChild(n, out, children)
             /\ procs' = [procs EXCEPT ![n] = Respawned(r, out)]
             /\ scheduled' = scheduled \ {n}
             /\ IF out = "ready" THEN SaveSucceeds ELSE Save
      BY <1>3, <2>2 DEF AutoRestart
    <3>2. procs' \in [Name -> Process] /\ Save
      BY <3>1, RespawnedType DEF TypeOK, Save
    <3>3. children \in [Pid -> Child]
      BY DEF TypeOK
    <3> QED
      BY <3>1, <3>2, <3>3, SaveType, SpawnChildType DEF TypeOK
  <2> QED
    BY <2>1, <2>2
<1>4. CASE gone.desired = "stopped"
  <2>1. [gone EXCEPT !.status = "stopped", !.history = 0] \in Process
    BY <1>1 DEF Process, Status
  <2> QED
    BY <1>2, <1>4, <2>1 DEF AfterExit
<1>5. CASE gone.desired # "stopped" /\ ~CanAutoRestart(n, kind)
  <2>1. [gone EXCEPT !.status = TerminalStatus(kind), !.history = 0] \in Process
    BY <1>1 DEF Process, Status, TerminalStatus
  <2> QED
    BY <1>2, <1>5, <2>1 DEF AfterExit
<1>6. CASE gone.desired # "stopped" /\ CanAutoRestart(n, kind)
  <2>1. PICK w \in 0 .. gone.history :
           IF CrashLooping(w)
           THEN Settle(n, [gone EXCEPT !.status = "errored", !.desired = "stopped",
                                       !.history = w])
           ELSE AutoRestart(n, again(w))
    BY <1>6 DEF AfterExit
  <2>2. w \in Nat
    BY <1>1 DEF Process
  <2>3. [gone EXCEPT !.status = "errored", !.desired = "stopped", !.history = w] \in Process
    BY <1>1, <2>2 DEF Process, Status
  <2>4. again(w) \in Process
    <3>1. gone.restarts + 1 \in Nat /\ (IF CrashLimit = 0 THEN w ELSE w + 1) \in Nat
      BY <1>1, <2>2 DEF Process
    <3>2. again(w) = [gone EXCEPT !.status = "restarting", !.restarts = gone.restarts + 1,
                                  !.history = IF CrashLimit = 0 THEN w ELSE w + 1]
      BY <1>1 DEF Process
    <3> HIDE DEF gone
    <3> QED
      BY <1>1, <3>1, <3>2 DEF Process, Status
  <2> QED
    BY <1>2, <1>3, <2>1, <2>3, <2>4
<1> QED
  BY <1>4, <1>5, <1>6

\* Every step keeps the types.
LEMMA TypeStep == TypeOK /\ EventsOK /\ [Next]_vars => TypeOK'
<1> SUFFICES ASSUME TypeOK, EventsOK, [Next]_vars PROVE TypeOK'
  OBVIOUS
<1> USE DEF TypeOK
<1>s. \A S : Terminated(children, S) \in [Pid -> Child]
  BY TerminatedType
<1>r. \A n \in Name : [procs[n] EXCEPT !.pid = None] \in Process
  BY DEF Process, None
<1>d. ASSUME disk' \in [Name -> Process], DaemonGone
      PROVE  /\ phase' \in {"up", "down", "recovering"} /\ procs' \in [Name -> Process]
             /\ scheduled' \subseteq Name /\ toStart' \subseteq Name
             /\ waiting' \subseteq Pid /\ exits' \subseteq Pid
  BY <1>d DEF DaemonGone
<1>a. AllStopped \in [Name -> Process]
  BY StoppedType DEF AllStopped
<1>1. ASSUME NEW n \in Name, Start(n) PROVE TypeOK'
  <2>1. PICK out \in Outcomes :
           /\ SpawnChild(n, out, children)
           /\ IF out \in {"ready", "unsaved"}
              THEN /\ procs' = [procs EXCEPT ![n] =
                                  [status |-> "running", desired |-> "running",
                                   pid |-> FreshPid, restarts |-> 0, history |-> 0]]
                   /\ IF out = "ready" THEN SaveSucceeds ELSE SaveFails
              ELSE UNCHANGED <<procs, file>>
    BY <1>1 DEF Start
  <2>2. children' \in [Pid -> Child] /\ lastPid' \in 0 .. MaxPid /\ waiting' \subseteq Pid
    BY <2>1, SpawnChildType
  <2>3. CASE out \in {"ready", "unsaved"}
    <3>1. [status |-> "running", desired |-> "running", pid |-> FreshPid,
           restarts |-> 0, history |-> 0] \in Process
      BY <2>3, OutcomeFresh DEF Process, Status
    <3>2. procs' \in [Name -> Process] /\ Save
      BY <2>1, <2>3, <3>1 DEF Save
    <3> QED
      BY <1>1, <2>2, <3>2, SaveType DEF Start
  <2>4. CASE out \notin {"ready", "unsaved"}
    BY <1>1, <2>1, <2>2, <2>4 DEF Start, file
  <2> QED
    BY <2>3, <2>4
<1>2. ASSUME NEW n \in Name, Stop(n) PROVE TypeOK'
  <2>1. procs' \in [Name -> Process] /\ Save
    BY <1>2, StoppedType DEF Stop
  <2> QED
    BY <1>2, <1>s, <2>1, SaveType DEF Stop
<1>3. CASE StopAll
  <2>1. procs' \in [Name -> Process] /\ Save
    BY <1>3, <1>a DEF StopAll
  <2> QED
    BY <1>3, <1>s, <2>1, SaveType DEF StopAll
<1>4. ASSUME NEW n \in Name, Delete(n) PROVE TypeOK'
  <2>1. procs' \in [Name -> Process] /\ Save
    BY <1>4, AbsentType DEF Delete
  <2> QED
    BY <1>4, <1>s, <2>1, SaveType DEF Delete
<1>5. CASE DeleteAll
  <2>1. procs' \in [Name -> Process] /\ Save
    BY <1>5, AbsentType DEF DeleteAll
  <2> QED
    BY <1>5, <1>s, <2>1, SaveType DEF DeleteAll
<1>6. ASSUME NEW n \in Name, Restart(n) PROVE TypeOK'
  <2> DEFINE r == [procs[n] EXCEPT !.pid = None, !.restarts = 0, !.history = 0]
  <2>1. PICK out \in Outcomes :
           /\ SpawnChild(n, out, Terminated(children, {procs[n].pid}))
           /\ procs' = [procs EXCEPT ![n] = Respawned(r, out)]
           /\ IF out = "ready" THEN SaveSucceeds ELSE Save
    BY <1>6 DEF Restart
  <2>2. children' \in [Pid -> Child] /\ lastPid' \in 0 .. MaxPid /\ waiting' \subseteq Pid
    BY <1>s, <2>1, SpawnChildType
  <2>3. r \in Process
    BY DEF Process, None
  <2>4. procs' \in [Name -> Process] /\ Save
    BY <2>1, <2>3, RespawnedType DEF Save
  <2> QED
    BY <1>6, <2>2, <2>4, SaveType DEF Restart
<1>7. ASSUME NEW n \in Name, Reload(n) PROVE TypeOK'
  <2>1. PICK out \in Outcomes :
          IF out \in {"ready", "unsaved"}
          THEN /\ \E kept \in Refusals({procs[n].pid}) :
                     SpawnChild(n, out, IF out = "ready"
                                        THEN Terminated(children, {procs[n].pid} \ kept)
                                        ELSE children)
               /\ procs' = [procs EXCEPT ![n] =
                              [procs[n] EXCEPT !.status = "running", !.desired = "running",
                                               !.pid = FreshPid, !.history = 0]]
               /\ scheduled' = scheduled \ {n}
               /\ IF out = "ready" THEN SaveSucceeds ELSE SaveFails
          ELSE /\ SpawnChild(n, out, children)
               /\ UNCHANGED <<procs, scheduled, file>>
    BY <1>7 DEF Reload
  <2>2. CASE out \in {"ready", "unsaved"}
    <3>1. children' \in [Pid -> Child] /\ lastPid' \in 0 .. MaxPid /\ waiting' \subseteq Pid
      BY <1>s, <2>1, <2>2, SpawnChildType
    <3>2. [procs[n] EXCEPT !.status = "running", !.desired = "running",
                           !.pid = FreshPid, !.history = 0] \in Process
      <4>1. FreshPid \in Pid
        BY <2>2, OutcomeFresh
      <4>2. procs[n] \in Process
        OBVIOUS
      <4> QED
        BY <4>1, <4>2 DEF Process, Status
    <3>3. procs' \in [Name -> Process] /\ Save
      BY <2>1, <2>2, <3>2 DEF Save
    <3> QED
      BY <1>7, <2>1, <2>2, <3>1, <3>3, SaveType DEF Reload
  <2>3. CASE out \notin {"ready", "unsaved"}
    <3>1. children' \in [Pid -> Child] /\ lastPid' \in 0 .. MaxPid /\ waiting' \subseteq Pid
      BY <2>1, <2>3, SpawnChildType
    <3> QED
      BY <1>7, <2>1, <2>3, <3>1 DEF Reload, file
  <2> QED
    BY <2>2, <2>3
<1>8. ASSUME NEW p \in Pid, HandleExit(p) PROVE TypeOK'
  <2> DEFINE n == children[p].name
  <2>1. CASE Present(n) /\ ExitMatches(procs[n], p)
    <3>1. n \in Name
      BY <1>8 DEF HandleExit, EventsOK
    <3>2. PICK kind \in {"success", "failure", "wait_error"} : AfterExit(n, kind)
      BY <1>8, <2>1 DEF HandleExit
    <3>3. /\ phase' = phase /\ toStart' = toStart /\ exits' \subseteq Pid
      BY <1>8 DEF HandleExit
    <3> HIDE DEF n
    <3> QED
      BY <3>1, <3>2, <3>3, AfterExitType
  <2>2. CASE ~(Present(n) /\ ExitMatches(procs[n], p))
    BY <1>8, <2>2 DEF HandleExit, os, file
  <2> QED
    BY <2>1, <2>2
<1>9. ASSUME NEW p \in Pid, ChildExits(p) PROVE TypeOK'
  <2>1. children' \in [Pid -> Child]
    BY <1>9 DEF ChildExits, Child
  <2> QED
    BY <1>9, <2>1 DEF ChildExits, memory, file
<1>10. ASSUME NEW n \in Name, ScheduledRestart(n) PROVE TypeOK'
  <2>1. CASE procs[n].desired = "running" /\ procs[n].status = "restarting"
    <3>1. PICK out \in Outcomes :
             /\ SpawnChild(n, out, children)
             /\ procs' = [procs EXCEPT ![n] = Respawned(procs[n], out)]
             /\ IF out = "ready" THEN SaveSucceeds ELSE Save
      BY <1>10, <2>1 DEF ScheduledRestart
    <3>2. children' \in [Pid -> Child] /\ lastPid' \in 0 .. MaxPid /\ waiting' \subseteq Pid
      BY <3>1, SpawnChildType
    <3>3. procs' \in [Name -> Process] /\ Save
      BY <3>1, RespawnedType DEF Save
    <3> QED
      BY <1>10, <3>2, <3>3, SaveType DEF ScheduledRestart
  <2>2. CASE ~(procs[n].desired = "running" /\ procs[n].status = "restarting")
    BY <1>10, <2>2 DEF ScheduledRestart, os, file
  <2> QED
    BY <2>1, <2>2
<1>11. ASSUME NEW n \in Name, CountedRestart(n), UNCHANGED <<phase, toStart, exits>>
       PROVE  TypeOK'
  <2>1. CASE /\ procs' = [procs EXCEPT ![n].status = "errored"]
             /\ Save
             /\ UNCHANGED <<scheduled, os>>
    <3>1. [procs[n] EXCEPT !.status = "errored"] \in Process
      BY <1>11, SettledType
    <3>2. procs' \in [Name -> Process]
      BY <2>1, <3>1
    <3> QED
      BY <1>11, <2>1, <3>2, SaveType DEF os
  <2> DEFINE r(out) == Respawned([procs[n] EXCEPT !.pid = None], out)
  <2>2. ASSUME NEW out \in Outcomes,
               SpawnChild(n, out, Terminated(children, {procs[n].pid})),
               out = "ready",
               procs' = [procs EXCEPT ![n] = [r(out) EXCEPT !.restarts = @ + 1]],
               SaveSucceeds \/ (disk' = [procs EXCEPT ![n] = r(out)] /\ saveFailed' = TRUE),
               scheduled' = scheduled \ {n}
        PROVE  TypeOK'
    <3>1. children' \in [Pid -> Child] /\ lastPid' \in 0 .. MaxPid /\ waiting' \subseteq Pid
      BY <1>s, <2>2, SpawnChildType
    <3>2. r(out) \in Process
      BY <1>r, <2>2, RespawnedType
    <3>3. [r(out) EXCEPT !.restarts = @ + 1] \in Process
      <4> HIDE DEF r
      <4> QED
        BY <3>2 DEF Process
    <3> HIDE DEF r
    <3>4. procs' \in [Name -> Process]
      BY <2>2, <3>3
    <3>5. disk' \in [Name -> Process] /\ saveFailed' \in BOOLEAN
      BY <2>2, <3>2, <3>4 DEF SaveSucceeds
    <3> QED
      BY <1>11, <2>2, <3>1, <3>4, <3>5
  <2>3. ASSUME NEW out \in Outcomes,
               SpawnChild(n, out, Terminated(children, {procs[n].pid})),
               procs' = [procs EXCEPT ![n] = r(out)],
               Save,
               scheduled' = scheduled \ {n}
        PROVE  TypeOK'
    <3>1. children' \in [Pid -> Child] /\ lastPid' \in 0 .. MaxPid /\ waiting' \subseteq Pid
      BY <1>s, <2>3, SpawnChildType
    <3>2. r(out) \in Process
      BY <1>r, <2>3, RespawnedType
    <3> HIDE DEF r
    <3>3. procs' \in [Name -> Process]
      BY <2>3, <3>2
    <3> QED
      BY <1>11, <2>3, <3>1, <3>3, SaveType
  <2> QED
    BY <1>11, <2>1, <2>2, <2>3 DEF CountedRestart
<1>12. ASSUME NEW n \in Name, FailedCheck(n) PROVE TypeOK'
  <2>1. CASE GiveUp(n)
    <3>1. [procs[n] EXCEPT !.status = "errored", !.desired = "stopped", !.pid = None]
            \in Process
      BY <1>12, SettledType
    <3>2. procs' \in [Name -> Process] /\ Save
      BY <2>1, <3>1 DEF GiveUp
    <3> QED
      BY <1>12, <1>s, <2>1, <3>2, SaveType DEF GiveUp, FailedCheck
  <2> QED
    BY <1>11, <1>12, <2>1 DEF FailedCheck
<1>13. CASE Shutdown
  <2>1. disk' \in [Name -> Process]
    BY <1>13, <1>a DEF Shutdown
  <2> QED
    BY <1>13, <1>d, <1>s, <2>1 DEF Shutdown
<1>14. CASE Crash
  BY <1>14, <1>d DEF Crash
<1>15. CASE RecoverTable
  <2>1. Cleared \in [Name -> Process]
    BY SettledType DEF Cleared
  <2>2. ShouldStart \subseteq Name
    BY DEF ShouldStart
  <2> QED
    BY <1>15, <1>s, <2>1, <2>2 DEF RecoverTable, SaveSucceeds, file
<1>16. ASSUME NEW n \in Name, RecoverProcess(n) PROVE TypeOK'
  <2>1. PICK out \in Outcomes :
          /\ SpawnChild(n, out, children)
          /\ procs' = [procs EXCEPT ![n] =
                         [Respawned(procs[n], out) EXCEPT !.desired = "running"]]
          /\ CASE out = "ready"   -> SaveSucceeds
               [] out = "unsaved" -> SaveFails
               [] OTHER           -> UNCHANGED file
    BY <1>16 DEF RecoverProcess
  <2>2. children' \in [Pid -> Child] /\ lastPid' \in 0 .. MaxPid /\ waiting' \subseteq Pid
    BY <2>1, SpawnChildType
  <2>3. Respawned(procs[n], out) \in Process
    BY RespawnedType
  <2>4. procs' \in [Name -> Process]
    BY <2>1, <2>3 DEF Process
  <2>5. disk' \in [Name -> Process] /\ saveFailed' \in BOOLEAN
    BY <2>1, <2>4 DEF SaveSucceeds, SaveFails, file
  <2> QED
    BY <1>16, <2>2, <2>4, <2>5 DEF RecoverProcess
<1>17. CASE RecoverDone
  <2>1. CASE phase' = "up" /\ UNCHANGED <<procs, scheduled, toStart, waiting, exits>>
             /\ SaveSucceeds
    BY <1>17, <2>1 DEF RecoverDone, SaveSucceeds
  <2>2. CASE disk' = disk /\ saveFailed' = FALSE /\ DaemonGone
    BY <1>17, <1>d, <2>2 DEF RecoverDone
  <2> QED
    BY <1>17, <2>1, <2>2 DEF RecoverDone
<1>18. CASE UNCHANGED vars
  BY <1>18 DEF vars, memory, os, file
<1>19. ASSUME NEW n \in Name, CronRestart(n) \/ WatchRestart(n) PROVE TypeOK'
  BY <1>11, <1>19 DEF CronRestart, WatchRestart
<1> QED
  BY <1>1, <1>2, <1>3, <1>4, <1>5, <1>6, <1>7, <1>8, <1>9, <1>10, <1>12, <1>13,
     <1>14, <1>15, <1>16, <1>17, <1>18, <1>19 DEF Next, Commands, Background

-----------------------------------------------------------------------------
(* The inductive invariant is preserved.                                    *)

\* A spawn adds at most one child, for the process it was asked for, and awaits it.
LEMMA SpawnChildGrows ==
    ASSUME TypeOK, NEW n \in Name, NEW out \in Outcomes, NEW cs \in [Pid -> Child],
           \A p \in Pid : cs[p].name = children[p].name,
           SpawnChild(n, out, cs)
    PROVE  /\ Grown
           /\ waiting \subseteq waiting'
           /\ out = "refused" => waiting' = waiting
           /\ out # "refused" => /\ FreshPid = lastPid' /\ FreshPid \in waiting'
                                 /\ FreshPid \in Pid /\ children'[FreshPid].name = n
                                 /\ waiting' = waiting \cup {FreshPid}
<1>1. CASE out = "refused"
  BY <1>1 DEF SpawnChild, Grown, TypeOK
<1>2. CASE out # "refused"
  <2>1. FreshPid \in Pid
    BY <1>2, OutcomeFresh
  <2>2. children'[FreshPid].name = n
    BY <1>2, <2>1 DEF SpawnChild
  <2>3. lastPid' = lastPid + 1 /\ lastPid \in Nat
    BY <1>2 DEF SpawnChild, FreshPid, TypeOK
  <2>4. \A p \in Pid : p <= lastPid => children'[p].name = children[p].name
    <3> SUFFICES ASSUME NEW p \in Pid, p <= lastPid
                 PROVE  children'[p].name = children[p].name
      OBVIOUS
    <3>1. p # FreshPid
      BY <2>3, BoundAssumption DEF FreshPid, Pid
    <3> QED
      BY <1>2, <2>1, <3>1 DEF SpawnChild
  <2> QED
    BY <1>2, <2>1, <2>2, <2>3, <2>4 DEF SpawnChild, Grown, FreshPid
<1> QED
  BY <1>1, <1>2

\* A table entry stays right while children are added.
LEMMA RowGrown ==
    ASSUME TypeOK, TypeOK', Grown, NEW n \in Name, NEW r \in Process, RowOK(n, r)
    PROVE  /\ r.pid # None => r.pid <= lastPid' /\ children'[r.pid].name = n
           /\ r.status = "absent" => r.pid = None /\ r.desired = "stopped"
<1>1. lastPid \in Int /\ lastPid' \in Int /\ (r.pid # None => r.pid \in Pid /\ r.pid \in Int)
  BY BoundAssumption DEF TypeOK, Process, Pid
<1> QED
  BY <1>1 DEF Grown, RowOK

\* A step of a running daemon that touches one process.
LEMMA OneProcessStep ==
    ASSUME ManagerInv, TypeOK', EventsOK', NEW n \in Name,
           phase # "down", phase' = phase, Grown,
           \A m \in Name \ {n} : /\ procs'[m] = procs[m]
                                 /\ m \in scheduled' <=> m \in scheduled
                                 /\ m \in toStart' => m \in toStart
                                 /\ RowOK(m, disk[m])',
           \A p \in waiting \cup exits : children[p].name # n => p \in waiting' \cup exits',
           phase # "up" => n \notin scheduled',
           phase # "recovering" => toStart' = {},
           RowOK(n, procs[n])', RowOK(n, disk[n])', LiveRow(n)'
    PROVE  ManagerInv'
<1>1. ASSUME NEW m \in Name, m # n
      PROVE  RowOK(m, procs[m])' /\ LiveRow(m)'
  <2>1. procs[m] \in Process /\ RowOK(m, procs[m]) /\ LiveRow(m) /\ procs'[m] = procs[m]
    BY <1>1 DEF ManagerInv, TypeOK
  <2>2. RowOK(m, procs[m])'
    BY <2>1, RowGrown DEF ManagerInv, RowOK
  <2>3. procs[m].pid # None => procs[m].pid \in waiting' \cup exits'
    BY <1>1, <2>1 DEF RowOK, LiveRow
  <2> QED
    BY <1>1, <2>1, <2>2, <2>3 DEF LiveRow
<1>2. PhaseOK'
  BY DEF PhaseOK, ManagerInv, TypeOK
<1> QED
  BY <1>1, <1>2 DEF ManagerInv

\* What save() leaves in the state file is right if the table is.
LEMMA SaveRows ==
    ASSUME ManagerInv, TypeOK', Grown, Save \/ UNCHANGED file, NEW m \in Name,
           RowOK(m, procs[m])'
    PROVE  RowOK(m, disk[m])'
<1>1. disk'[m] = procs'[m] \/ disk'[m] = disk[m]
  BY DEF Save, SaveSucceeds, SaveFails, file
<1>2. disk[m] \in Process /\ RowOK(m, disk[m])
  BY DEF ManagerInv, TypeOK
<1> QED
  BY <1>1, <1>2, RowGrown DEF ManagerInv, RowOK

\* The rows of the processes a step does not touch.
LEMMA OtherRows ==
    ASSUME ManagerInv, TypeOK', Grown, NEW m \in Name, procs'[m] = procs[m]
    PROVE  RowOK(m, procs[m])'
  BY RowGrown DEF ManagerInv, TypeOK, RowOK

\* OneProcessStep for a step of n that saves, or fails to, at its end.
LEMMA SavedStep ==
    ASSUME ManagerInv, TypeOK', EventsOK', NEW n \in Name,
           phase # "down", phase' = phase, Grown, Save \/ UNCHANGED file,
           NEW r \in Process, procs' = [procs EXCEPT ![n] = r],
           \A m \in Name \ {n} : m \in scheduled' <=> m \in scheduled,
           toStart' \subseteq toStart,
           \A p \in waiting \cup exits : children[p].name # n => p \in waiting' \cup exits',
           phase # "up" => n \notin scheduled',
           RowOK(n, procs[n])', LiveRow(n)'
    PROVE  ManagerInv'
<1>1. \A m \in Name \ {n} : procs'[m] = procs[m]
  BY DEF ManagerInv, TypeOK
<1>2. \A m \in Name : RowOK(m, procs[m])'
  BY <1>1, OtherRows
<1>3. \A m \in Name : RowOK(m, disk[m])'
  BY <1>2, SaveRows
<1>4. phase # "recovering" => toStart' = {}
  BY DEF ManagerInv, PhaseOK
<1> QED
  BY <1>1, <1>3, <1>4, OneProcessStep

\* A step without a spawn.
LEMMA NoSpawnGrows ==
    ASSUME TypeOK, lastPid' = lastPid,
           children' = children \/ \E S : children' = Terminated(children, S)
    PROVE  Grown
  BY TerminatedType DEF Grown, TypeOK

\* ... also keeps the events it does not handle.
LEMMA EventsKept ==
    ASSUME TypeOK, TypeOK', EventsOK, Grown,
           \A p \in waiting' \cup exits' :
              p \in waiting \cup exits \/ (p = lastPid' /\ children'[p].name \in Name)
    PROVE  EventsOK'
<1> SUFFICES ASSUME NEW p \in waiting' \cup exits'
             PROVE  p <= lastPid' /\ children'[p].name \in Name
  BY DEF EventsOK
<1>1. p \in Pid /\ p \in Int /\ lastPid \in Int /\ lastPid' \in Int
  BY BoundAssumption DEF TypeOK, Pid
<1> QED
  BY <1>1 DEF EventsOK, Grown

\* A spawn for n: what the invariant needs to know of it.
LEMMA SpawnStep ==
    ASSUME ManagerInv, TypeOK', NEW n \in Name, NEW out \in Outcomes,
           NEW cs, cs = children \/ (\E S : cs = Terminated(children, S)),
           SpawnChild(n, out, cs), exits' \subseteq exits
    PROVE  /\ Grown
           /\ EventsOK'
           /\ waiting \subseteq waiting'
           /\ out # "refused" =>
                 /\ FreshPid = lastPid' /\ FreshPid # None
                 /\ FreshPid \in waiting' /\ children'[FreshPid].name = n
<1>1. cs \in [Pid -> Child] /\ \A p \in Pid : cs[p].name = children[p].name
  BY TerminatedType DEF ManagerInv, TypeOK
<1>2. TypeOK /\ EventsOK
  BY DEF ManagerInv
<1>3. /\ Grown
      /\ waiting \subseteq waiting'
      /\ out = "refused" => waiting' = waiting
      /\ out # "refused" => /\ FreshPid = lastPid' /\ FreshPid \in waiting'
                            /\ FreshPid \in Pid /\ children'[FreshPid].name = n
                            /\ waiting' = waiting \cup {FreshPid}
  BY <1>1, <1>2, SpawnChildGrows
<1>4. EventsOK'
  BY <1>2, <1>3, EventsKept
<1> QED
  BY <1>2, <1>3, <1>4, OutcomeFresh

\* A process that was given the child just spawned is tracked and watched.
LEMMA FreshRow ==
    ASSUME NEW n \in Name, procs'[n].pid = FreshPid, FreshPid = lastPid',
           FreshPid \in waiting', children'[FreshPid].name = n,
           procs'[n].status \in {"running", "errored"},
           procs'[n].status = "running" => procs'[n].desired = "running",
           FreshPid # None, n \notin scheduled', n \notin toStart', lastPid' \in Int
    PROVE  RowOK(n, procs[n])' /\ LiveRow(n)'
  BY DEF RowOK, LiveRow

\* A process without a child that neither runs nor waits for a timer.
LEMMA IdleRow ==
    ASSUME NEW n \in Name, procs'[n].pid = None,
           procs'[n].status \notin {"running", "restarting"},
           procs'[n].status = "absent" => procs'[n].desired = "stopped",
           n \notin scheduled', n \notin toStart'
    PROVE  RowOK(n, procs[n])' /\ LiveRow(n)'
  BY DEF RowOK, LiveRow

\* spawn_existing for a process r without a child, followed by its caller's clean-up.
LEMMA RespawnStep ==
    ASSUME ManagerInv, TypeOK', NEW n \in Name, phase = "up", phase' = phase,
           NEW r \in Process, r.pid = None, r.status # "absent",
           NEW out \in Outcomes,
           NEW cs, cs = children \/ (\E S : cs = Terminated(children, S)),
           SpawnChild(n, out, cs),
           procs' = [procs EXCEPT ![n] = Respawned(r, out)],
           scheduled' = scheduled \ {n}, toStart' = toStart,
           exits' \subseteq exits,
           \A p \in exits : children[p].name # n => p \in exits',
           Save
    PROVE  ManagerInv'
<1>1. /\ Grown /\ EventsOK' /\ waiting \subseteq waiting'
      /\ out # "refused" =>
            /\ FreshPid = lastPid' /\ FreshPid # None
            /\ FreshPid \in waiting' /\ children'[FreshPid].name = n
  BY SpawnStep
<1>2. TypeOK /\ lastPid' \in Int /\ toStart' = {} /\ n \notin scheduled'
  BY DEF ManagerInv, PhaseOK, TypeOK
<1>3. procs'[n] = Respawned(r, out)
  BY <1>2 DEF TypeOK
<1>4. CASE out \in {"ready", "unsaved"}
  <2>1. /\ procs'[n].pid = FreshPid /\ procs'[n].status \in {"running", "errored"}
        /\ procs'[n].status = "running" => procs'[n].desired = "running"
    BY <1>2, <1>3, <1>4, RespawnedFields
  <2>2. RowOK(n, procs[n])' /\ LiveRow(n)'
    BY <1>1, <1>2, <1>4, <2>1, FreshRow
  <2> QED
    BY <1>1, <1>2, <1>3, <2>2, SavedStep, RespawnedType
<1>5. CASE out \notin {"ready", "unsaved"}
  <2>1. procs'[n].pid = None /\ procs'[n].status = "errored"
    BY <1>2, <1>3, <1>5, RespawnedFields
  <2>2. RowOK(n, procs[n])' /\ LiveRow(n)'
    BY <1>2, <2>1, IdleRow
  <2> QED
    BY <1>1, <1>2, <1>3, <2>2, SavedStep, RespawnedType
<1> QED
  BY <1>4, <1>5

\* A step that leaves n without a child and does not spawn.
LEMMA IdleStep ==
    ASSUME ManagerInv, TypeOK', NEW n \in Name, phase = "up", phase' = phase,
           NEW r \in Process, procs' = [procs EXCEPT ![n] = r],
           r.pid = None, r.status \notin {"running", "restarting"},
           r.status = "absent" => r.desired = "stopped",
           children' = children \/ (\E S : children' = Terminated(children, S)),
           lastPid' = lastPid, waiting' = waiting, exits' \subseteq exits,
           \A p \in exits : children[p].name # n => p \in exits',
           scheduled' = scheduled \ {n}, toStart' = toStart, Save
    PROVE  ManagerInv'
<1>1. TypeOK /\ EventsOK /\ toStart' = {} /\ n \notin scheduled' /\ procs'[n] = r
  BY DEF ManagerInv, PhaseOK, TypeOK
<1>2. Grown
  BY <1>1, NoSpawnGrows
<1>3. EventsOK'
  BY <1>1, <1>2, EventsKept
<1>4. RowOK(n, procs[n])' /\ LiveRow(n)'
  BY <1>1, IdleRow
<1> QED
  BY <1>1, <1>2, <1>3, <1>4, SavedStep

\* Every entry of a table that has no children is right.
LEMMA ClearStep ==
    ASSUME ManagerInv, TypeOK', EventsOK', Grown, phase' # "up" => scheduled' = {},
           phase' # "recovering" => toStart' = {}, phase' # "down",
           scheduled' = {},
           \A n \in Name : /\ procs'[n].pid = None
                           /\ procs'[n].status \in {"absent", "stopped"}
                           /\ procs'[n].status = "absent" => procs'[n].desired = "stopped"
                           /\ n \in toStart' => procs'[n].desired = "running",
           Save
    PROVE  ManagerInv'
<1>1. \A n \in Name : RowOK(n, procs[n])' /\ LiveRow(n)'
  BY DEF RowOK, LiveRow
<1>2. \A n \in Name : RowOK(n, disk[n])'
  BY <1>1, SaveRows
<1> QED
  BY <1>1, <1>2 DEF ManagerInv, PhaseOK

\* A daemon that is gone leaves a right state file.
LEMMA GoneStep ==
    ASSUME ManagerInv, TypeOK', Grown, DaemonGone, lastPid' = lastPid,
           \A n \in Name : disk'[n] = disk[n] \/ disk'[n].pid = None,
           \A n \in Name : disk'[n].status = "absent" =>
                              disk'[n].pid = None /\ disk'[n].desired = "stopped"
    PROVE  ManagerInv'
<1>1. ASSUME NEW n \in Name PROVE RowOK(n, disk[n])'
  <2>1. CASE disk'[n] = disk[n]
    <3>1. disk[n] \in Process /\ RowOK(n, disk[n])
      BY DEF ManagerInv, TypeOK
    <3> QED
      BY <2>1, <3>1, RowGrown DEF ManagerInv, RowOK
  <2>2. CASE disk'[n].pid = None
    BY <2>2 DEF RowOK
  <2> QED
    BY <2>1, <2>2
<1>2. EventsOK'
  BY DEF EventsOK, DaemonGone
<1>3. PhaseOK' /\ phase' = "down" /\ procs' = disk'
  BY DEF PhaseOK, DaemonGone
<1> QED
  BY <1>1, <1>2, <1>3 DEF ManagerInv

\* start_process keeps the invariant.
LEMMA InvStart ==
    ASSUME ManagerInv, TypeOK', NEW n \in Name, Start(n) PROVE ManagerInv'
<1> DEFINE r == [status |-> "running", desired |-> "running", pid |-> FreshPid,
                 restarts |-> 0, history |-> 0]
<1>1. PICK out \in Outcomes :
         /\ SpawnChild(n, out, children)
         /\ IF out \in {"ready", "unsaved"}
            THEN /\ procs' = [procs EXCEPT ![n] = r]
                 /\ IF out = "ready" THEN SaveSucceeds ELSE SaveFails
            ELSE UNCHANGED <<procs, file>>
  BY DEF Start
<1>2. /\ phase = "up" /\ phase' = phase /\ procs[n].status = "absent"
      /\ scheduled' = scheduled /\ toStart' = toStart /\ exits' = exits
  BY DEF Start, Present
<1>3. /\ Grown /\ EventsOK' /\ waiting \subseteq waiting'
      /\ out # "refused" =>
            /\ FreshPid = lastPid' /\ FreshPid # None
            /\ FreshPid \in waiting' /\ children'[FreshPid].name = n
  BY <1>1, <1>2, SpawnStep
<1>4. /\ TypeOK /\ lastPid' \in Int /\ toStart' = {}
      /\ n \notin scheduled' /\ LiveRow(n) /\ RowOK(n, procs[n])
  BY <1>2 DEF ManagerInv, PhaseOK, TypeOK, LiveRow
<1>5. CASE out \in {"ready", "unsaved"}
  <2>1. procs' = [procs EXCEPT ![n] = r] /\ Save
    BY <1>1, <1>5 DEF Save
  <2>2. procs'[n] = r /\ r \in Process
    BY <1>4, <1>5, <2>1, OutcomeFresh DEF TypeOK, Process, Status
  <2>3. RowOK(n, procs[n])' /\ LiveRow(n)'
    BY <1>3, <1>4, <1>5, <2>2, FreshRow
  <2> HIDE DEF r
  <2> QED
    BY <1>2, <1>3, <1>4, <2>1, <2>2, <2>3, SavedStep
<1>6. CASE out \notin {"ready", "unsaved"}
  <2>1. UNCHANGED <<procs, file>>
    BY <1>1, <1>6
  <2>2. procs' = [procs EXCEPT ![n] = procs[n]] /\ procs[n] \in Process
    BY <1>4, <2>1 DEF TypeOK
  <2>3. RowOK(n, procs[n])' /\ LiveRow(n)'
    BY <1>2, <1>4, <2>1 DEF RowOK, LiveRow
  <2> QED
    BY <1>2, <1>3, <1>4, <2>1, <2>2, <2>3, SavedStep
<1> QED
  BY <1>5, <1>6

\* reload_process keeps the invariant, whatever fails.
LEMMA InvReload ==
    ASSUME ManagerInv, TypeOK', NEW n \in Name, Reload(n) PROVE ManagerInv'
<1> DEFINE r == [procs[n] EXCEPT !.status = "running", !.desired = "running",
                                 !.pid = FreshPid, !.history = 0]
<1>1. PICK out \in Outcomes :
        IF out \in {"ready", "unsaved"}
        THEN /\ \E kept \in Refusals({procs[n].pid}) :
                   SpawnChild(n, out, IF out = "ready"
                                      THEN Terminated(children, {procs[n].pid} \ kept)
                                      ELSE children)
             /\ procs' = [procs EXCEPT ![n] = r]
             /\ scheduled' = scheduled \ {n}
             /\ IF out = "ready" THEN SaveSucceeds ELSE SaveFails
        ELSE /\ SpawnChild(n, out, children)
             /\ UNCHANGED <<procs, scheduled, file>>
  BY DEF Reload
<1>2. PICK cs : /\ cs = children \/ (\E S : cs = Terminated(children, S))
                /\ SpawnChild(n, out, cs)
  BY <1>1
<1>3. /\ phase = "up" /\ phase' = phase /\ toStart' = toStart /\ exits' = exits
  BY DEF Reload
<1>4. /\ Grown /\ EventsOK' /\ waiting \subseteq waiting'
      /\ out # "refused" =>
            /\ FreshPid = lastPid' /\ FreshPid # None
            /\ FreshPid \in waiting' /\ children'[FreshPid].name = n
  BY <1>2, <1>3, SpawnStep
<1>5. /\ TypeOK /\ lastPid' \in Int /\ toStart' = {}
      /\ LiveRow(n) /\ RowOK(n, procs[n]) /\ procs[n] \in Process
  BY <1>3 DEF ManagerInv, PhaseOK, TypeOK
<1>6. CASE out \in {"ready", "unsaved"}
  <2>1. /\ procs' = [procs EXCEPT ![n] = r] /\ scheduled' = scheduled \ {n} /\ Save
    BY <1>1, <1>6 DEF Save
  <2>2. FreshPid \in Pid
    BY <1>5, <1>6, OutcomeFresh
  <2>3. /\ procs'[n] = r /\ r \in Process
        /\ r.status = "running" /\ r.desired = "running" /\ r.pid = FreshPid
    BY <1>5, <2>1, <2>2 DEF TypeOK, Process, Status
  <2> HIDE DEF r
  <2>4. RowOK(n, procs[n])' /\ LiveRow(n)'
    BY <1>4, <1>5, <1>6, <2>1, <2>3, FreshRow
  <2> QED
    BY <1>3, <1>4, <1>5, <2>1, <2>3, <2>4, SavedStep
<1>7. CASE out \notin {"ready", "unsaved"}
  <2>1. UNCHANGED <<procs, scheduled, file>>
    BY <1>1, <1>7
  <2>2. procs' = [procs EXCEPT ![n] = procs[n]]
    BY <1>5, <2>1 DEF TypeOK
  <2>3. RowOK(n, procs[n])'
    BY <1>4, <1>5, <2>1, RowGrown DEF RowOK
  <2>4. LiveRow(n)'
    BY <1>3, <1>4, <1>5, <2>1 DEF LiveRow
  <2>5. phase # "up" => n \notin scheduled'
    BY <1>3
  <2> QED
    BY <1>3, <1>4, <1>5, <2>1, <2>2, <2>3, <2>4, <2>5, SavedStep
<1> QED
  BY <1>6, <1>7

\* restart_process_internal without a reset.
LEMMA InvCountedRestart ==
    ASSUME ManagerInv, TypeOK', NEW n \in Name, Watchable(n), CountedRestart(n),
           UNCHANGED <<phase, toStart, exits>>
    PROVE  ManagerInv'
<1>1. /\ TypeOK /\ phase = "up" /\ toStart' = {} /\ procs[n].status = "running"
      /\ procs[n] \in Process /\ lastPid' \in Int
      /\ LiveRow(n) /\ RowOK(n, procs[n]) /\ EventsOK /\ n \notin scheduled
  BY DEF ManagerInv, PhaseOK, TypeOK, Watchable, LiveRow
<1>2. CASE /\ procs' = [procs EXCEPT ![n].status = "errored"]
           /\ Save
           /\ UNCHANGED <<scheduled, os>>
  <2> DEFINE r == [procs[n] EXCEPT !.status = "errored"]
  <2>1. r \in Process /\ r.status = "errored" /\ r.pid = procs[n].pid
    BY <1>1 DEF Process, Status
  <2>2. procs' = [procs EXCEPT ![n] = r] /\ procs'[n] = r
    BY <1>1, <1>2 DEF TypeOK
  <2> HIDE DEF r
  <2>3. Grown
    BY <1>1, <1>2, NoSpawnGrows DEF os
  <2>4. EventsOK'
    BY <1>1, <1>2, <2>3, EventsKept DEF os
  <2>5. RowOK(n, procs[n])'
    BY <1>1, <1>2, <2>1, <2>2 DEF RowOK, os
  <2>6. LiveRow(n)'
    BY <1>1, <1>2, <2>1, <2>2 DEF LiveRow, os
  <2> QED
    BY <1>1, <1>2, <2>1, <2>2, <2>3, <2>4, <2>5, <2>6, SavedStep DEF os
<1> DEFINE idle == [procs[n] EXCEPT !.pid = None]
           r(out) == Respawned(idle, out)
<1>3. idle \in Process /\ idle.pid = None /\ idle.status # "absent"
  BY <1>1 DEF Process, None
<1>4. ASSUME NEW out \in Outcomes,
             SpawnChild(n, out, Terminated(children, {procs[n].pid})),
             procs' = [procs EXCEPT ![n] = r(out)], Save,
             scheduled' = scheduled \ {n}
      PROVE  ManagerInv'
  <2> HIDE DEF idle
  <2> QED
    BY <1>1, <1>3, <1>4, RespawnStep
<1>5. ASSUME NEW out \in Outcomes,
             SpawnChild(n, out, Terminated(children, {procs[n].pid})),
             out = "ready",
             procs' = [procs EXCEPT ![n] = [r(out) EXCEPT !.restarts = @ + 1]],
             SaveSucceeds \/ (disk' = [procs EXCEPT ![n] = r(out)] /\ saveFailed' = TRUE),
             scheduled' = scheduled \ {n}
      PROVE  ManagerInv'
  <2> HIDE DEF idle
  <2>1. /\ r(out) \in Process /\ r(out).pid = FreshPid /\ r(out).status = "running"
        /\ r(out).desired = "running"
    BY <1>1, <1>3, <1>5, RespawnedType, RespawnedFields
  <2> HIDE DEF r
  <2>2. procs'[n] = [r(out) EXCEPT !.restarts = @ + 1]
    BY <1>1, <1>5 DEF TypeOK
  <2>3. procs'[n].pid = FreshPid /\ procs'[n].status = "running" /\ procs'[n].desired = "running"
    BY <2>1, <2>2 DEF Process
  <2>4. /\ Grown /\ EventsOK' /\ waiting \subseteq waiting'
        /\ FreshPid = lastPid' /\ FreshPid # None
        /\ FreshPid \in waiting' /\ children'[FreshPid].name = n
    BY <1>5, SpawnStep
  <2>5. RowOK(n, procs[n])' /\ LiveRow(n)'
    BY <1>1, <1>5, <2>3, <2>4, FreshRow
  <2>6. \A m \in Name \ {n} : procs'[m] = procs[m]
    BY <1>1, <1>5 DEF TypeOK
  <2>7. \A m \in Name \ {n} : RowOK(m, procs[m])'
    BY <2>4, <2>6, OtherRows
  <2>8. \A m \in Name : RowOK(m, disk[m])'
    <3>1. CASE SaveSucceeds
      BY <2>5, <2>7, <3>1 DEF SaveSucceeds
    <3>2. CASE disk' = [procs EXCEPT ![n] = r(out)]
      <4>1. disk'[n] = r(out) /\ \A m \in Name \ {n} : disk'[m] = procs'[m]
        BY <1>1, <2>6, <3>2 DEF TypeOK
      <4>2. RowOK(n, disk[n])'
        BY <1>1, <2>1, <2>4, <4>1 DEF RowOK
      <4> QED
        BY <2>7, <4>1, <4>2
    <3> QED
      BY <1>5, <3>1, <3>2
  <2> QED
    BY <1>1, <1>5, <2>4, <2>5, <2>6, <2>8, OneProcessStep
<1> QED
  BY <1>2, <1>4, <1>5 DEF CountedRestart

\* handle_exit_event keeps the invariant, whether the event is taken or ignored.
LEMMA InvHandleExit ==
    ASSUME ManagerInv, TypeOK', NEW p \in Pid, HandleExit(p) PROVE ManagerInv'
<1>0. PICK n \in Name : n = children[p].name
  BY DEF HandleExit, ManagerInv, EventsOK
<1> DEFINE gone == [procs[n] EXCEPT !.pid = None]
<1>1. /\ phase = "up" /\ phase' = phase /\ toStart' = toStart
      /\ p \in exits /\ exits' = exits \ {p}
  BY DEF HandleExit
<1>2. /\ TypeOK /\ EventsOK /\ procs[n] \in Process /\ toStart' = {}
      /\ LiveRow(n) /\ RowOK(n, procs[n])
      /\ \A q \in exits : children[q].name # n => q \in exits'
  BY <1>0, <1>1 DEF ManagerInv, TypeOK, PhaseOK
<1>3. CASE ~(Present(n) /\ ExitMatches(procs[n], p))
  <2>1. UNCHANGED <<procs, scheduled, os, file>>
    BY <1>0, <1>3 DEF HandleExit
  <2>2. procs[n].pid # None => procs[n].pid # p /\ procs[n].pid \in waiting' \cup exits'
    BY <1>1, <1>2, <1>3, <2>1 DEF ExitMatches, Present, LiveRow, RowOK, os
  <2>3. Grown
    BY <1>2, <2>1, NoSpawnGrows DEF os
  <2>4. EventsOK'
    BY <1>1, <1>2, <2>1, <2>3, EventsKept DEF os
  <2>5. RowOK(n, procs[n])' /\ LiveRow(n)'
    BY <1>1, <1>2, <2>1, <2>2 DEF RowOK, LiveRow, os
  <2>6. procs' = [procs EXCEPT ![n] = procs[n]]
    BY <1>2, <2>1 DEF TypeOK
  <2> QED
    BY <1>1, <1>2, <2>1, <2>3, <2>4, <2>5, <2>6, SavedStep DEF os
<1>4. CASE Present(n) /\ ExitMatches(procs[n], p)
  <2>1. PICK kind \in {"success", "failure", "wait_error"} : AfterExit(n, kind)
    BY <1>0, <1>4 DEF HandleExit
  <2>2. gone \in Process /\ gone.pid = None /\ gone.status # "absent"
    BY <1>2, <1>4 DEF Process, None, Present
  <2>3. ASSUME NEW r \in Process, r.pid = None,
               r.status \in {"stopped", "errored", "crashed"}, Settle(n, r)
        PROVE  ManagerInv'
    <3> QED
      BY <1>1, <1>2, <2>3, IdleStep DEF Settle, os
  <2>4. ASSUME NEW r \in Process, r.pid = None, r.status = "restarting",
               r.desired = "running", AutoRestart(n, r)
        PROVE  ManagerInv'
    <3>1. CASE n \in Delayed
      <4>1. /\ procs' = [procs EXCEPT ![n] = r] /\ scheduled' = scheduled \cup {n}
            /\ Save /\ UNCHANGED os
        BY <2>4, <3>1 DEF AutoRestart
      <4>2. procs'[n] = r
        BY <1>2, <4>1 DEF TypeOK
      <4>3. Grown
        BY <1>2, <4>1, NoSpawnGrows DEF os
      <4>4. EventsOK'
        BY <1>1, <1>2, <4>1, <4>3, EventsKept DEF os
      <4>5. RowOK(n, procs[n])' /\ LiveRow(n)'
        BY <1>2, <2>4, <4>1, <4>2 DEF RowOK, LiveRow
      <4> QED
        BY <1>1, <1>2, <4>1, <4>3, <4>4, <4>5, SavedStep DEF os
    <3>2. CASE n \notin Delayed
      <4>1. PICK out \in Outcomes :
               /\ SpawnChild(n, out, children)
               /\ procs' = [procs EXCEPT ![n] = Respawned(r, out)]
               /\ scheduled' = scheduled \ {n}
               /\ Save
        BY <2>4, <3>2 DEF AutoRestart, Save
      <4> QED
        BY <1>1, <1>2, <2>4, <4>1, RespawnStep
    <3> QED
      BY <3>1, <3>2
  <2>5. CASE gone.desired = "stopped"
    <3>1. /\ [gone EXCEPT !.status = "stopped", !.history = 0] \in Process
          /\ [gone EXCEPT !.status = "stopped", !.history = 0].pid = None
          /\ [gone EXCEPT !.status = "stopped", !.history = 0].status = "stopped"
      BY <2>2 DEF Process, Status
    <3> QED
      BY <2>1, <2>3, <2>5, <3>1 DEF AfterExit
  <2>6. CASE gone.desired # "stopped" /\ ~CanAutoRestart(n, kind)
    <3> DEFINE r == [gone EXCEPT !.status = TerminalStatus(kind), !.history = 0]
    <3>1. r \in Process /\ r.pid = None /\ r.status \in {"stopped", "errored", "crashed"}
      BY <2>2 DEF Process, Status, TerminalStatus
    <3> QED
      BY <2>1, <2>3, <2>6, <3>1 DEF AfterExit
  <2>7. CASE gone.desired # "stopped" /\ CanAutoRestart(n, kind)
    <3> DEFINE halt(w) == [gone EXCEPT !.status = "errored", !.desired = "stopped",
                                       !.history = w]
               again(w) == [gone EXCEPT !.status = "restarting", !.restarts = @ + 1,
                                        !.history = IF CrashLimit = 0 THEN w ELSE w + 1]
    <3>1. PICK w \in 0 .. gone.history :
             IF CrashLooping(w) THEN Settle(n, halt(w)) ELSE AutoRestart(n, again(w))
      BY <2>1, <2>7 DEF AfterExit
    <3>2. w \in Nat /\ gone.desired = "running"
      BY <2>2, <2>7 DEF Process
    <3>3. halt(w) \in Process /\ halt(w).pid = None /\ halt(w).status = "errored"
      BY <2>2, <3>2 DEF Process, Status
    <3>4. /\ again(w) \in Process /\ again(w).pid = None
          /\ again(w).status = "restarting" /\ again(w).desired = "running"
      <4>1. gone.restarts + 1 \in Nat /\ (IF CrashLimit = 0 THEN w ELSE w + 1) \in Nat
        BY <2>2, <3>2 DEF Process
      <4>2. again(w) = [gone EXCEPT !.status = "restarting",
                                    !.restarts = gone.restarts + 1,
                                    !.history = IF CrashLimit = 0 THEN w ELSE w + 1]
        BY <2>2 DEF Process
      <4> HIDE DEF gone
      <4> QED
        BY <2>2, <3>2, <4>1, <4>2 DEF Process, Status
    <3> HIDE DEF halt, again
    <3> QED
      BY <2>3, <2>4, <3>1, <3>3, <3>4
  <2> QED
    BY <2>5, <2>6, <2>7
<1> QED
  BY <1>3, <1>4

\* Stopping or clearing the whole table leaves no process with a child.
LEMMA IdleTables ==
    ASSUME ManagerInv, NEW n \in Name
    PROVE  /\ AllStopped[n].pid = None /\ AllStopped[n].status \in {"absent", "stopped"}
           /\ AllStopped[n].desired = "stopped"
           /\ Cleared[n].pid = None /\ Cleared[n].status \in {"absent", "stopped"}
           /\ Cleared[n].desired = procs[n].desired
           /\ Cleared[n].status = "absent" => Cleared[n].desired = "stopped"
<1>1. procs[n] \in Process /\ RowOK(n, procs[n])
  BY DEF ManagerInv, TypeOK
<1>2. CASE Present(n)
  <2>1. AllStopped[n] = StoppedProcess(procs[n])
    BY <1>2 DEF AllStopped
  <2>2. Cleared[n] = [procs[n] EXCEPT !.status = "stopped", !.pid = None]
    BY <1>2 DEF Cleared
  <2> QED
    BY <1>1, <2>1, <2>2 DEF StoppedProcess, Process
<1>3. CASE ~Present(n)
  <2>1. AllStopped[n] = procs[n] /\ Cleared[n] = procs[n]
    BY <1>3 DEF AllStopped, Cleared
  <2> QED
    BY <1>1, <1>3, <2>1 DEF Present, RowOK
<1> QED
  BY <1>2, <1>3

\* The invariant holds at first.
LEMMA InvInit == Init => ManagerInv
<1> SUFFICES ASSUME Init PROVE ManagerInv
  OBVIOUS
<1>1. \A n \in Name : procs[n] = Absent /\ disk[n] = Absent
  BY DEF Init
<1>2. \A n \in Name : RowOK(n, procs[n]) /\ RowOK(n, disk[n]) /\ LiveRow(n)
  BY <1>1 DEF Init, RowOK, LiveRow, Absent
<1> QED
  BY <1>2, InitType DEF Init, ManagerInv, EventsOK, PhaseOK

\* Every step keeps the invariant.
LEMMA InvStep == ManagerInv /\ [Next]_vars => ManagerInv'
<1> SUFFICES ASSUME ManagerInv, [Next]_vars PROVE ManagerInv'
  OBVIOUS
<1>t. /\ TypeOK /\ EventsOK /\ TypeOK' /\ (phase = "up" => toStart = {})
      /\ \A n \in Name : procs[n] \in Process
  BY TypeStep DEF ManagerInv, TypeOK, PhaseOK
<1>i. \A n \in Name : RowOK(n, procs[n]) /\ RowOK(n, disk[n])
  BY DEF ManagerInv
<1>n. ASSUME NEW S, children' = Terminated(children, S), lastPid' = lastPid,
             waiting' \subseteq waiting, exits' \subseteq exits
      PROVE  Grown /\ EventsOK'
  BY <1>t, <1>n, NoSpawnGrows, EventsKept
<1>1. ASSUME NEW n \in Name, Start(n) PROVE ManagerInv'
  BY <1>1, <1>t, InvStart
<1>2. ASSUME NEW n \in Name, Stop(n) PROVE ManagerInv'
  <2> DEFINE r == StoppedProcess(procs[n])
  <2>1. r \in Process /\ r.pid = None /\ r.status = "stopped"
    BY <1>t, StoppedType DEF StoppedProcess, Process
  <2> HIDE DEF r
  <2> QED
    BY <1>2, <1>t, <2>1, IdleStep DEF Stop, r
<1>3. CASE StopAll
  <2>1. \A n \in Name : /\ procs'[n].pid = None
                        /\ procs'[n].status \in {"absent", "stopped"}
                        /\ procs'[n].status = "absent" => procs'[n].desired = "stopped"
    BY <1>3, IdleTables DEF StopAll
  <2> QED
    BY <1>3, <1>t, <1>n, <2>1, ClearStep DEF StopAll
<1>4. ASSUME NEW n \in Name, Delete(n) PROVE ManagerInv'
  <2>1. Absent.pid = None /\ Absent.status = "absent" /\ Absent.desired = "stopped"
    BY DEF Absent
  <2> QED
    BY <1>4, <1>t, <2>1, AbsentType, IdleStep DEF Delete
<1>5. CASE DeleteAll
  <2>1. \A n \in Name : /\ procs'[n].pid = None
                        /\ procs'[n].status \in {"absent", "stopped"}
                        /\ procs'[n].desired = "stopped"
    BY <1>5 DEF DeleteAll, Absent
  <2> QED
    BY <1>5, <1>t, <1>n, <2>1, ClearStep DEF DeleteAll
<1>6. ASSUME NEW n \in Name, Restart(n) PROVE ManagerInv'
  <2> DEFINE r == [procs[n] EXCEPT !.pid = None, !.restarts = 0, !.history = 0]
  <2>1. PICK out \in Outcomes :
           /\ SpawnChild(n, out, Terminated(children, {procs[n].pid}))
           /\ procs' = [procs EXCEPT ![n] = Respawned(r, out)]
           /\ Save
    BY <1>6 DEF Restart, Save
  <2>2. r \in Process /\ r.pid = None /\ r.status # "absent"
    BY <1>6, <1>t DEF Process, None, Restart, Present
  <2> HIDE DEF r
  <2> QED
    BY <1>6, <1>t, <2>1, <2>2, RespawnStep DEF Restart
<1>7. ASSUME NEW n \in Name, Reload(n) PROVE ManagerInv'
  BY <1>7, <1>t, InvReload
<1>8. ASSUME NEW p \in Pid, HandleExit(p) PROVE ManagerInv'
  BY <1>8, <1>t, InvHandleExit
<1>9. ASSUME NEW p \in Pid, ChildExits(p) PROVE ManagerInv'
  <2>1. UNCHANGED <<phase, procs, scheduled, toStart, disk, lastPid>>
        /\ waiting' \cup exits' = waiting \cup exits
    BY <1>9, <1>t DEF ChildExits, memory, file, TypeOK
  <2>2. \A q \in Pid : children'[q].name = children[q].name
    BY <1>9, <1>t DEF ChildExits, TypeOK, Child
  <2>3. Grown
    BY <1>t, <2>1, <2>2 DEF Grown, TypeOK
  <2>4. EventsOK'
    BY <1>t, <2>1, <2>3, EventsKept
  <2>5. \A n \in Name : RowOK(n, procs[n])' /\ RowOK(n, disk[n])'
    BY <1>i, <1>t, <2>1, <2>2 DEF RowOK, TypeOK, Process
  <2> QED
    BY <1>t, <2>1, <2>4, <2>5 DEF ManagerInv, PhaseOK, LiveRow
<1>10. ASSUME NEW n \in Name, ScheduledRestart(n) PROVE ManagerInv'
  <2>1. /\ procs[n].status = "restarting" /\ procs[n].desired = "running"
        /\ procs[n].pid = None
    BY <1>10 DEF ScheduledRestart, ManagerInv, LiveRow
  <2>2. PICK out \in Outcomes :
           /\ SpawnChild(n, out, children)
           /\ procs' = [procs EXCEPT ![n] = Respawned(procs[n], out)]
           /\ Save
    BY <1>10, <2>1 DEF ScheduledRestart, Save
  <2> QED
    BY <1>10, <1>t, <2>1, <2>2, RespawnStep DEF ScheduledRestart
<1>11. ASSUME NEW n \in Name, CronRestart(n) \/ WatchRestart(n) PROVE ManagerInv'
  BY <1>11, <1>t, InvCountedRestart DEF CronRestart, WatchRestart
<1>12. ASSUME NEW n \in Name, FailedCheck(n) PROVE ManagerInv'
  <2>1. CASE GiveUp(n)
    <3> DEFINE r == [procs[n] EXCEPT !.status = "errored", !.desired = "stopped", !.pid = None]
    <3>1. r \in Process /\ r.pid = None /\ r.status = "errored"
      BY <1>t DEF Process, Status, None
    <3>2. procs' = [procs EXCEPT ![n] = r]
      BY <2>1 DEF GiveUp
    <3>3. n \notin scheduled
      BY <1>12 DEF FailedCheck, Watchable, ManagerInv, LiveRow
    <3> HIDE DEF r
    <3> QED
      BY <1>12, <1>t, <2>1, <3>1, <3>2, <3>3, IdleStep
         DEF GiveUp, FailedCheck, Watchable
  <2> QED
    BY <1>12, <1>t, <2>1, InvCountedRestart DEF FailedCheck
<1>13. CASE Shutdown
  <2>1. ASSUME NEW n \in Name
        PROVE  /\ disk'[n] = disk[n] \/ disk'[n].pid = None
               /\ disk'[n].status = "absent" => disk'[n].pid = None /\ disk'[n].desired = "stopped"
    BY <1>13, <1>i, <2>1, IdleTables DEF Shutdown, RowOK
  <2>2. waiting' \subseteq waiting /\ exits' \subseteq exits /\ lastPid' = lastPid /\ DaemonGone
    BY <1>13 DEF Shutdown, DaemonGone
  <2> QED
    BY <1>13, <1>t, <1>n, <2>1, <2>2, GoneStep DEF Shutdown
<1>14. CASE Crash
  <2>1. Grown
    BY <1>14, <1>t, NoSpawnGrows DEF Crash
  <2> QED
    BY <1>14, <1>t, <1>i, <2>1, GoneStep DEF Crash, RowOK
<1>15. CASE RecoverTable
  <2>1. Grown /\ EventsOK'
    BY <1>15, <1>n DEF RecoverTable
  <2>2. CASE phase' = "recovering" /\ procs' = Cleared /\ toStart' = ShouldStart /\ SaveSucceeds
    <3>1. \A n \in Name : /\ procs'[n].pid = None
                          /\ procs'[n].status \in {"absent", "stopped"}
                          /\ procs'[n].status = "absent" => procs'[n].desired = "stopped"
                          /\ n \in toStart' => procs'[n].desired = "running"
      BY <2>2, IdleTables DEF ShouldStart
    <3>2. scheduled' = {}
      BY <1>15 DEF RecoverTable, ManagerInv, PhaseOK
    <3> QED
      BY <1>t, <2>1, <2>2, <3>1, <3>2, ClearStep DEF Save
  <2>3. CASE UNCHANGED <<phase, procs, toStart, file>>
    <3>1. \A n \in Name : RowOK(n, procs[n])' /\ RowOK(n, disk[n])'
      <4> TAKE n \in Name
      <4>1. disk[n] \in Process /\ procs'[n] = procs[n] /\ disk'[n] = disk[n]
        BY <1>t, <2>3 DEF TypeOK, file
      <4> QED
        BY <1>t, <1>i, <2>1, <4>1, RowGrown DEF RowOK
    <3> QED
      BY <1>15, <1>t, <2>1, <2>3, <3>1 DEF RecoverTable, ManagerInv, PhaseOK, file
  <2> QED
    BY <1>15, <2>2, <2>3 DEF RecoverTable
<1>16. ASSUME NEW n \in Name, RecoverProcess(n) PROVE ManagerInv'
  <2> DEFINE r(out) == Respawned(procs[n], out)
             row(out) == [r(out) EXCEPT !.desired = "running"]
  <2>1. PICK out \in Outcomes :
          /\ SpawnChild(n, out, children)
          /\ procs' = [procs EXCEPT ![n] = row(out)]
          /\ Save \/ UNCHANGED file
    BY <1>16 DEF RecoverProcess, Save
  <2>2. /\ phase = "recovering" /\ phase' = phase /\ scheduled' = {} /\ n \notin toStart'
        /\ toStart' \subseteq toStart /\ exits' = exits
        /\ procs[n].pid = None /\ lastPid' \in Int
    BY <1>16, <1>t DEF RecoverProcess, ManagerInv, PhaseOK, LiveRow, TypeOK
  <2>3. /\ Grown /\ EventsOK' /\ waiting \subseteq waiting'
        /\ out # "refused" =>
              /\ FreshPid = lastPid' /\ FreshPid # None
              /\ FreshPid \in waiting' /\ children'[FreshPid].name = n
    BY <2>1, <2>2, <1>t, SpawnStep
  <2>4. /\ r(out) \in Process
        /\ out \in {"ready", "unsaved"} =>
              r(out).pid = FreshPid /\ r(out).status \in {"running", "errored"}
        /\ out \notin {"ready", "unsaved"} =>
              r(out).pid = None /\ r(out).status = "errored"
    BY <1>t, <2>2, RespawnedType, RespawnedFields
  <2> HIDE DEF r
  <2>5. /\ row(out) \in Process /\ row(out).pid = r(out).pid
        /\ row(out).status = r(out).status /\ row(out).desired = "running"
    BY <2>4 DEF Process
  <2> HIDE DEF row
  <2>6. procs'[n] = row(out)
    BY <1>t, <2>1 DEF TypeOK
  <2>7. RowOK(n, procs[n])' /\ LiveRow(n)'
    <3>1. CASE out \in {"ready", "unsaved"}
      BY <2>2, <2>3, <2>4, <2>5, <2>6, <3>1, FreshRow
    <3>2. CASE out \notin {"ready", "unsaved"}
      BY <2>2, <2>4, <2>5, <2>6, <3>2, IdleRow
    <3> QED
      BY <3>1, <3>2
  <2>8. \A m \in Name \ {n} : m \in scheduled' <=> m \in scheduled
    BY <1>16 DEF RecoverProcess
  <2> QED
    BY <1>t, <2>1, <2>2, <2>3, <2>5, <2>7, <2>8, SavedStep
<1>17. CASE RecoverDone
  <2>1. Grown
    BY <1>17, <1>t, NoSpawnGrows DEF RecoverDone
  <2>2. CASE phase' = "up" /\ UNCHANGED <<procs, scheduled, toStart, waiting, exits>>
             /\ SaveSucceeds
    <3>1. EventsOK'
      BY <1>17, <1>t, <2>1, <2>2, EventsKept
    <3>2. \A n \in Name : RowOK(n, procs[n])'
      BY <2>1, <2>2, <1>t, OtherRows
    <3>3. \A n \in Name : RowOK(n, disk[n])'
      BY <2>2, <3>2 DEF SaveSucceeds
    <3>4. toStart = {} /\ phase = "recovering"
      BY <1>17 DEF RecoverDone
    <3> QED
      BY <1>t, <2>2, <3>1, <3>2, <3>3, <3>4 DEF ManagerInv, PhaseOK, LiveRow
  <2>3. CASE disk' = disk /\ DaemonGone
    BY <1>17, <1>t, <1>i, <2>1, <2>3, GoneStep DEF RecoverDone, RowOK
  <2> QED
    BY <1>17, <2>2, <2>3 DEF RecoverDone
<1>18. CASE UNCHANGED vars
  <2>1. \A n \in Name : RowOK(n, procs[n])' /\ RowOK(n, disk[n])' /\ (LiveRow(n) => LiveRow(n)')
    BY <1>18, <1>i DEF vars, memory, os, file, RowOK, LiveRow
  <2>2. EventsOK' /\ PhaseOK' /\ phase' = phase
    BY <1>18 DEF vars, memory, os, file, ManagerInv, EventsOK, PhaseOK
  <2> QED
    BY <1>t, <2>1, <2>2 DEF ManagerInv
<1> QED
  BY <1>1, <1>2, <1>3, <1>4, <1>5, <1>6, <1>7, <1>8, <1>9, <1>10, <1>11, <1>12,
     <1>13, <1>14, <1>15, <1>16, <1>17, <1>18 DEF Next, Commands, Background

\* ManagerInv holds in every reachable state.
THEOREM ManagerInvariant == Spec => []ManagerInv
  BY InvInit, InvStep, PTL DEF Spec

\* Every state of the manager is well-typed.
THEOREM TypeCorrect == Spec => []TypeOK
<1>1. ManagerInv => TypeOK
  BY DEF ManagerInv
<1> QED
  BY <1>1, ManagerInvariant, PTL

\* Whatever fails, the reported status agrees with the child, the desired state and the
\* restart timer, so no announced restart is without its timer.
THEOREM StatusAlwaysAgrees == Spec => []StatusAgrees
<1>1. ManagerInv => StatusAgrees
  BY DEF ManagerInv, TypeOK, LiveRow, StatusAgrees
<1> QED
  BY <1>1, ManagerInvariant, PTL

\* Whatever fails, the exit of a tracked child is still to be told.
THEOREM TrackedAlwaysWatched == Spec => []TrackedIsWatched
<1>1. ManagerInv => TrackedIsWatched
  BY DEF ManagerInv, RowOK, LiveRow, TrackedIsWatched
<1> QED
  BY <1>1, ManagerInvariant, PTL

-----------------------------------------------------------------------------
(* The state file.                                                          *)

\* What a step does about the state file.
Synced == \/ disk' = procs'
          \/ saveFailed'
          \/ phase' = "recovering"
          \/ UNCHANGED <<phase, procs, disk, saveFailed>>

\* Every handler that changes the table ends with a save.
LEMMA SyncedStep == [Next]_vars => Synced
<1> SUFFICES ASSUME [Next]_vars PROVE Synced
  OBVIOUS
<1>1. Save => Synced
  BY DEF Save, SaveSucceeds, SaveFails, Synced
<1>2. ASSUME NEW n \in Name, Start(n) \/ Reload(n)
      PROVE  Synced
  BY <1>2 DEF Start, Reload, SaveSucceeds, SaveFails, file, Synced
<1>3. ASSUME NEW n \in Name, Stop(n) \/ Delete(n) \/ Restart(n)
      PROVE  Synced
  BY <1>1, <1>3 DEF Stop, Delete, Restart, Save
<1>4. ASSUME NEW n \in Name, CountedRestart(n)
      PROVE  Synced
  <2>1. Save \/ SaveSucceeds \/ saveFailed'
    BY <1>4 DEF CountedRestart
  <2> QED
    BY <1>1, <2>1 DEF Save, Synced
<1>5. ASSUME NEW n \in Name, CronRestart(n) \/ WatchRestart(n) \/ FailedCheck(n)
      PROVE  Synced
  BY <1>1, <1>4, <1>5 DEF CronRestart, WatchRestart, FailedCheck, GiveUp
<1>6. ASSUME NEW n \in Name, ScheduledRestart(n) \/ RecoverProcess(n)
      PROVE  Synced
  BY <1>1, <1>6 DEF ScheduledRestart, RecoverProcess, Save, file, Synced
<1>7. ASSUME NEW p \in Pid, HandleExit(p)
      PROVE  Synced
  <2>1. ASSUME NEW kind, AfterExit(children[p].name, kind)
        PROVE  Save
    BY <2>1 DEF AfterExit, Settle, AutoRestart, Save
  <2>2. \/ \E kind : AfterExit(children[p].name, kind)
        \/ UNCHANGED <<phase, procs, file>>
    BY <1>7 DEF HandleExit
  <2> QED
    BY <1>1, <2>1, <2>2 DEF file, Synced
<1>8. ASSUME NEW p \in Pid, ChildExits(p)
      PROVE  Synced
  BY <1>8 DEF ChildExits, memory, file, Synced
<1>9. CASE StopAll \/ DeleteAll
  BY <1>1, <1>9 DEF StopAll, DeleteAll
<1>10. CASE Shutdown \/ Crash
  BY <1>10 DEF Shutdown, Crash, DaemonGone, Synced
<1>11. CASE RecoverTable \/ RecoverDone
  BY <1>11 DEF RecoverTable, RecoverDone, DaemonGone, SaveSucceeds, file, Synced
<1>12. CASE UNCHANGED vars
  BY <1>12 DEF vars, memory, file, Synced
<1> QED
  BY <1>2, <1>3, <1>5, <1>6, <1>7, <1>8, <1>9, <1>10, <1>11, <1>12
     DEF Next, Commands, Background

\* Between two handlers the state file holds the process table, unless the last save()
\* failed, whatever else fails: a crash loses no acknowledged command.
THEOREM DiskStaysInSync == Spec => []DiskInSync
<1>1. Init => DiskInSync
  BY DEF Init, DiskInSync
<1>2. DiskInSync /\ [Next]_vars => DiskInSync'
  BY SyncedStep DEF DiskInSync, Synced
<1> QED
  BY <1>1, <1>2, PTL DEF Spec

-----------------------------------------------------------------------------
(* Who is given a new child.                                                *)

\* A step spawns, if anything, a child for m, which is meant to run.
SpawnsWanted(m) ==
    lastPid' # lastPid => procs[m].desired # "stopped" /\ children'[lastPid'].name = m

\* The new child is the one that was asked for.
LEMMA SpawnNames ==
    ASSUME TypeOK, NEW m \in Name, procs[m].desired # "stopped", NEW out \in Outcomes,
           NEW cs \in [Pid -> Child], SpawnChild(m, out, cs)
    PROVE  SpawnsWanted(m)
<1>1. CASE out = "refused"
  BY <1>1 DEF SpawnChild, SpawnsWanted
<1>2. CASE out # "refused"
  <2>1. FreshPid \in Pid
    BY <1>2, OutcomeFresh
  <2>2. lastPid' = FreshPid /\ children'[FreshPid].name = m
    BY <1>2, <2>1 DEF SpawnChild
  <2> QED
    BY <2>2 DEF SpawnsWanted
<1> QED
  BY <1>1, <1>2

\* The maintenance tick restarts what is running.
LEMMA CountedNames ==
    ASSUME ManagerInv, NEW m \in Name, Watchable(m), CountedRestart(m)
    PROVE  SpawnsWanted(m)
<1>1. TypeOK /\ procs[m].desired # "stopped"
  BY DEF ManagerInv, LiveRow, Watchable
<1>2. Terminated(children, {procs[m].pid}) \in [Pid -> Child]
  BY <1>1, TerminatedType DEF TypeOK
<1>3. \/ lastPid' = lastPid
      \/ \E out \in Outcomes : SpawnChild(m, out, Terminated(children, {procs[m].pid}))
  BY DEF CountedRestart, os
<1> QED
  BY <1>1, <1>2, <1>3, SpawnNames DEF SpawnsWanted

\* Timers, checks and recovery spawn for processes that are meant to run.
LEMMA BackgroundNames ==
    ASSUME ManagerInv, NEW m \in Name, Background(m)
    PROVE  SpawnsWanted(m)
<1>1. TypeOK /\ children \in [Pid -> Child]
  BY DEF ManagerInv, TypeOK
<1>2. CASE ScheduledRestart(m) \/ RecoverProcess(m)
  <2>1. \/ lastPid' = lastPid
        \/ procs[m].desired # "stopped" /\ \E out \in Outcomes : SpawnChild(m, out, children)
    BY <1>2 DEF ScheduledRestart, RecoverProcess, os, ManagerInv, LiveRow
  <2> QED
    BY <1>1, <2>1, SpawnNames DEF SpawnsWanted
<1>3. CASE CronRestart(m) \/ WatchRestart(m)
  BY <1>3, CountedNames DEF CronRestart, WatchRestart
<1>4. CASE FailedCheck(m)
  <2>1. Watchable(m) /\ (CountedRestart(m) \/ lastPid' = lastPid)
    BY <1>4 DEF FailedCheck, GiveUp
  <2> QED
    BY <2>1, CountedNames DEF SpawnsWanted
<1> QED
  BY <1>2, <1>3, <1>4 DEF Background

\* An exit event restarts the process whose child it was, if that is meant to run.
LEMMA ExitNames ==
    ASSUME ManagerInv, NEW p \in Pid, HandleExit(p)
    PROVE  \E m \in Name : SpawnsWanted(m)
<1>1. PICK m \in Name : m = children[p].name
  BY DEF HandleExit, ManagerInv, EventsOK
<1>2. TypeOK /\ children \in [Pid -> Child] /\ procs[m] \in Process
  BY DEF ManagerInv, TypeOK
<1>3. \/ lastPid' = lastPid
      \/ \E kind : AfterExit(m, kind)
  BY <1>1 DEF HandleExit, os
<1>4. ASSUME NEW kind, AfterExit(m, kind), lastPid' # lastPid
      PROVE  SpawnsWanted(m)
  <2> DEFINE gone == [procs[m] EXCEPT !.pid = None]
  <2>1. \A r : Settle(m, r) => lastPid' = lastPid
    BY DEF Settle, os
  <2>2. \A r : AutoRestart(m, r) /\ lastPid' # lastPid =>
                  \E out \in Outcomes : SpawnChild(m, out, children)
    BY DEF AutoRestart, os
  <2>3. gone.desired # "stopped" /\ \E r : AutoRestart(m, r)
    BY <1>4, <2>1 DEF AfterExit
  <2>4. procs[m].desired # "stopped"
    BY <1>2, <2>3 DEF Process
  <2>5. PICK out \in Outcomes : SpawnChild(m, out, children)
    BY <1>4, <2>2, <2>3
  <2> QED
    BY <1>2, <2>4, <2>5, SpawnNames
<1> QED
  BY <1>3, <1>4 DEF SpawnsWanted

\* The rest spawns nothing.
LEMMA CommandNames ==
    ASSUME NEW m \in Name, Stop(m) \/ Delete(m)
    PROVE  lastPid' = lastPid
  BY DEF Stop, Delete

\* A command that spawns does so for the process it names.
LEMMA SpawnCommands ==
    ASSUME TypeOK, NEW m \in Name, Start(m) \/ Restart(m) \/ Reload(m), lastPid' # lastPid
    PROVE  children'[lastPid'].name = m
<1>1. \A S : Terminated(children, S) \in [Pid -> Child]
  BY TerminatedType DEF TypeOK
<1>2. PICK out \in Outcomes, cs \in [Pid -> Child] : SpawnChild(m, out, cs)
  <2>1. children \in [Pid -> Child]
    BY DEF TypeOK
  <2> QED
    BY <1>1, <2>1 DEF Start, Restart, Reload
<1>3. out # "refused" /\ FreshPid \in Pid
  BY <1>2, OutcomeFresh DEF SpawnChild
<1> QED
  BY <1>2, <1>3 DEF SpawnChild

\* A process whose desired state is stopped gets a new child by a command only, whatever
\* fails: no timer, check, exit event or recovery brings it back.
THEOREM OnlyCommandsRevive == Spec => RevivedByCommandOnly
<1> DEFINE Only == \A n \in Name :
                      /\ procs[n].desired = "stopped"
                      /\ lastPid' # lastPid
                      /\ children'[lastPid'].name = n
                      => Start(n) \/ Restart(n) \/ Reload(n)
<1>1. ManagerInv /\ [Next]_vars => [Only]_vars
  <2> SUFFICES ASSUME ManagerInv, Next, NEW n \in Name, procs[n].desired = "stopped",
                      lastPid' # lastPid, children'[lastPid'].name = n
               PROVE  Start(n) \/ Restart(n) \/ Reload(n)
    OBVIOUS
  <2>1. TypeOK /\ \A m \in Name : ~SpawnsWanted(m)
    BY DEF SpawnsWanted, ManagerInv
  <2>2. ASSUME NEW m \in Name, Start(m) \/ Restart(m) \/ Reload(m)
        PROVE  Start(n) \/ Restart(n) \/ Reload(n)
    BY <2>1, <2>2, SpawnCommands
  <2>3. \A m \in Name : ~Stop(m) /\ ~Delete(m) /\ ~Background(m)
    BY <2>1, CommandNames, BackgroundNames
  <2>4. \A p \in Pid : ~HandleExit(p) /\ ~ChildExits(p)
    BY <2>1, ExitNames DEF ChildExits
  <2>5. ~(StopAll \/ DeleteAll \/ Shutdown \/ Crash \/ RecoverTable \/ RecoverDone)
    BY DEF StopAll, DeleteAll, Shutdown, Crash, RecoverTable, RecoverDone
  <2> QED
    BY <2>2, <2>3, <2>4, <2>5 DEF Next, Commands
<1> QED
  BY <1>1, ManagerInvariant, PTL DEF Spec, RevivedByCommandOnly
=============================================================================

-------------------------- MODULE SupervisorProofs --------------------------
(***************************************************************************)
(* Two proofs about ProcessManager when no save, no signal and no identity *)
(* check fails, for every set of names, every policy and every bound.      *)
(*                                                                         *)
(* It leaves no child behind (NoOrphan; with any of these faults NoOrphan  *)
(* is false), and it implements Supervisor: what the services see of its   *)
(* commands, exit events, timers, checks, crashes and recoveries are the   *)
(* steps of the abstract supervisor.                                       *)
(***************************************************************************)
EXTENDS ProcessManagerProofs

NoFaults == ~SaveMayFail /\ ~KillMayFail /\ ~VerifyMayMiss

\* NoOrphan, with the child's name known to be one of Name.
Owned == \A p \in Pid : children[p].state = "alive" =>
            children[p].name \in Name /\ procs[children[p].name].pid = p

\* An exit event is queued only once its child is dead.
ToldDead == \A p \in exits : children[p].state = "dead"

\* The state file names the same children as the table, so a crash forgets none.
Mirrored == \A n \in Name : disk[n].pid = procs[n].pid

OrphanInv == ManagerInv /\ Owned /\ ToldDead /\ Mirrored

\* What cs keeps of the children when those in S are terminated.
Culled(cs, S) ==
    \A p \in Pid : /\ cs[p].name = children[p].name
                   /\ children[p].state = "dead" => cs[p].state = "dead"
                   /\ cs[p].state = "alive" => children[p].state = "alive" /\ p \notin S

-----------------------------------------------------------------------------
(* What is left of the helpers when nothing fails.                          *)

\* No signal is refused.
LEMMA NoRefusals ==
    ASSUME NoFaults, NEW S, NEW kept \in Refusals(S)
    PROVE  kept = {}
  BY DEF NoFaults, Refusals

\* A save leaves the table in the state file.
LEMMA SaveIsSaved ==
    ASSUME NoFaults, Save
    PROVE  disk' = procs'
  BY DEF NoFaults, Save, SaveSucceeds, SaveFails

\* Terminating S keeps names and the dead, and none of S alive.
LEMMA TerminatedCulled ==
    ASSUME TypeOK, NEW S
    PROVE  Terminated(children, S) \in [Pid -> Child] /\ Culled(Terminated(children, S), S)
  BY TerminatedType DEF TypeOK, Culled

\* So does terminating none.
LEMMA KeptCulled ==
    ASSUME TypeOK
    PROVE  children \in [Pid -> Child] /\ Culled(children, {})
  BY DEF TypeOK, Culled

\* A spawn fails for reasons of its own only, and leaves nothing alive.
LEMMA NoFaultOutcomes ==
    ASSUME NoFaults, NEW out \in Outcomes
    PROVE  out \in {"refused", "ready", "unready"}
  BY DEF NoFaults, Outcomes

\* A spawn changes the new child only.
LEMMA SpawnFacts ==
    ASSUME NoFaults, TypeOK, NEW n \in Name, NEW out \in Outcomes,
           NEW cs \in [Pid -> Child], SpawnChild(n, out, cs)
    PROVE  /\ \A p \in Pid : p # FreshPid => children'[p] = cs[p]
           /\ out = "refused" => \A p \in Pid : children'[p] = cs[p]
           /\ out # "refused" => /\ FreshPid \in Pid
                                 /\ children'[FreshPid].name = n
           /\ out = "unready" => children'[FreshPid].state = "doomed"
<1>1. CASE out = "refused"
  BY <1>1 DEF SpawnChild
<1>2. CASE out # "refused"
  <2>1. FreshPid \in Pid
    BY <1>2, OutcomeFresh
  <2>2. children' = [cs EXCEPT ![FreshPid] =
                        [name |-> n, state |-> IF out = "unready" THEN "doomed" ELSE "alive"]]
    BY <1>2 DEF SpawnChild
  <2> QED
    BY <1>2, <2>1, <2>2
<1> QED
  BY <1>1, <1>2

-----------------------------------------------------------------------------
(* Steps.                                                                   *)

\* A step of one process n: its new children are tracked, and its old child is
\* terminated or still tracked.
LEMMA OwnedStep ==
    ASSUME NoFaults, OrphanInv, ManagerInv', NEW n \in Name, NEW S, NEW cs \in [Pid -> Child],
           Culled(cs, S), NEW out \in Outcomes, SpawnChild(n, out, cs),
           \A m \in Name \ {n} : procs'[m].pid = procs[m].pid,
           out = "ready" => procs'[n].pid = FreshPid,
           \A p \in Pid : procs[n].pid = p /\ children[p].state = "alive"
              => p \in S \/ procs'[n].pid = p,
           exits' \subseteq exits,
           \A m \in Name : disk'[m].pid = procs'[m].pid
    PROVE  OrphanInv'
<1>1. TypeOK /\ EventsOK
  BY DEF OrphanInv, ManagerInv
<1>2. out \in {"refused", "ready", "unready"}
  BY NoFaultOutcomes
<1>3. /\ \A p \in Pid : p # FreshPid => children'[p] = cs[p]
      /\ out = "refused" => \A p \in Pid : children'[p] = cs[p]
      /\ out # "refused" => FreshPid \in Pid /\ children'[FreshPid].name = n
      /\ out = "unready" => children'[FreshPid].state = "doomed"
  BY <1>1, SpawnFacts
<1>4. Owned'
  <2> SUFFICES ASSUME NEW p \in Pid, children'[p].state = "alive"
               PROVE  children'[p].name \in Name /\ procs'[children'[p].name].pid = p
    BY DEF Owned
  <2>1. CASE out # "refused" /\ p = FreshPid
    BY <1>2, <1>3, <2>1
  <2>2. CASE ~(out # "refused" /\ p = FreshPid)
    <3>1. children'[p] = cs[p]
      BY <1>3, <2>2
    <3>2. children[p].state = "alive" /\ p \notin S /\ children'[p].name = children[p].name
      BY <3>1 DEF Culled
    <3>3. children[p].name \in Name /\ procs[children[p].name].pid = p
      BY <3>2 DEF OrphanInv, Owned
    <3> QED
      BY <3>2, <3>3
  <2> QED
    BY <2>1, <2>2
<1>5. ToldDead'
  <2> SUFFICES ASSUME NEW p \in exits'
               PROVE  children'[p].state = "dead"
    BY DEF ToldDead
  <2>1. p \in Pid /\ p <= lastPid /\ children[p].state = "dead"
    BY <1>1 DEF TypeOK, EventsOK, OrphanInv, ToldDead
  <2>2. p # FreshPid
    BY <1>1, <2>1, BoundAssumption DEF TypeOK, FreshPid, Pid
  <2> QED
    BY <1>3, <2>1, <2>2 DEF Culled
<1> QED
  BY <1>4, <1>5 DEF OrphanInv, Mirrored

\* A step of one process that spawns nothing.
LEMMA OwnedIdle ==
    ASSUME OrphanInv, ManagerInv', NEW n \in Name, NEW S, Culled(children', S),
           \A m \in Name \ {n} : procs'[m].pid = procs[m].pid,
           \A p \in Pid : procs[n].pid = p /\ children[p].state = "alive"
              => p \in S \/ procs'[n].pid = p,
           exits' \subseteq exits,
           \A m \in Name : disk'[m].pid = procs'[m].pid
    PROVE  OrphanInv'
<1>1. TypeOK /\ exits \subseteq Pid
  BY DEF OrphanInv, ManagerInv, TypeOK
<1>2. Owned'
  BY DEF OrphanInv, Owned, Culled
<1>3. ToldDead'
  BY <1>1 DEF OrphanInv, ToldDead, Culled
<1> QED
  BY <1>2, <1>3 DEF OrphanInv, Mirrored

\* A step that terminates every tracked child leaves none alive.
LEMMA OwnedNone ==
    ASSUME OrphanInv, ManagerInv', children' = Terminated(children, Tracked),
           exits' \subseteq exits, \A m \in Name : disk'[m].pid = procs'[m].pid
    PROVE  OrphanInv'
<1>1. TypeOK /\ exits \subseteq Pid
  BY DEF OrphanInv, ManagerInv, TypeOK
<1>2. Culled(children', Tracked)
  BY <1>1, TerminatedCulled
<1>3. \A p \in Pid : children'[p].state # "alive"
  <2> SUFFICES ASSUME NEW p \in Pid, children'[p].state = "alive"
               PROVE  FALSE
    OBVIOUS
  <2>1. children[p].state = "alive" /\ p \notin Tracked
    BY <1>2 DEF Culled
  <2>2. children[p].name \in Name /\ procs[children[p].name].pid = p
    BY <2>1 DEF OrphanInv, Owned
  <2> QED
    BY <2>1, <2>2 DEF Tracked, Pid, None
<1>4. ToldDead'
  BY <1>1, <1>2 DEF OrphanInv, ToldDead, Culled
<1> QED
  BY <1>3, <1>4 DEF OrphanInv, Owned, Mirrored

-----------------------------------------------------------------------------
(* Actions.                                                                 *)

\* A respawn of r, a process without a child.
LEMMA RespawnedPid ==
    ASSUME NoFaults, TypeOK, NEW r \in Process, r.pid = None, NEW out \in Outcomes
    PROVE  /\ Respawned(r, out) \in Process
           /\ out = "ready" => Respawned(r, out).pid = FreshPid
  BY NoFaultOutcomes, RespawnedType, RespawnedFields

\* start_process: the name had no child.
LEMMA OwnedStart ==
    ASSUME NoFaults, OrphanInv, ManagerInv', NEW n \in Name, Start(n)
    PROVE  OrphanInv'
<1>1. TypeOK /\ procs[n].pid = None
  BY DEF OrphanInv, ManagerInv, RowOK, Start, Present
<1> DEFINE new == [status |-> "running", desired |-> "running", pid |-> FreshPid,
                   restarts |-> 0, history |-> 0]
<1>2. PICK out \in Outcomes :
        /\ SpawnChild(n, out, children)
        /\ IF out \in {"ready", "unsaved"}
           THEN /\ procs' = [procs EXCEPT ![n] = new]
                /\ IF out = "ready" THEN SaveSucceeds ELSE SaveFails
           ELSE UNCHANGED <<procs, file>>
  BY DEF Start
<1>3. new.pid = FreshPid
  OBVIOUS
<1> HIDE DEF new
<1>4. out \in {"refused", "ready", "unready"}
  BY NoFaultOutcomes
<1>5. /\ \A m \in Name \ {n} : procs'[m].pid = procs[m].pid
      /\ out = "ready" => procs'[n].pid = FreshPid
      /\ \A m \in Name : disk'[m].pid = procs'[m].pid
  BY <1>1, <1>2, <1>3, <1>4 DEF TypeOK, SaveSucceeds, file, OrphanInv, Mirrored
<1>6. \A p \in Pid : procs[n].pid # p
  BY <1>1 DEF Pid, None
<1>7. exits' \subseteq exits
  BY DEF Start
<1> QED
  BY <1>1, <1>2, <1>5, <1>6, <1>7, KeptCulled, OwnedStep

\* Restart, ScheduledRestart, RecoverProcess, AutoRestart and CountedRestart after the
\* old child, if any, is terminated.
LEMMA OwnedRespawn ==
    ASSUME NoFaults, OrphanInv, ManagerInv', NEW n \in Name, NEW out \in Outcomes,
           NEW cs \in [Pid -> Child], NEW S, Culled(cs, S), SpawnChild(n, out, cs),
           NEW r, procs' = [procs EXCEPT ![n] = r],
           out = "ready" => r.pid = FreshPid,
           \A p \in Pid : procs[n].pid = p /\ children[p].state = "alive" => p \in S,
           exits' \subseteq exits,
           \A m \in Name : disk'[m].pid = procs'[m].pid
    PROVE  OrphanInv'
<1>1. /\ \A m \in Name \ {n} : procs'[m].pid = procs[m].pid
      /\ procs'[n] = r
  BY DEF OrphanInv, ManagerInv, TypeOK
<1> QED
  BY <1>1, OwnedStep

\* restart_process: the old child is terminated before the new one starts.
LEMMA OwnedRestart ==
    ASSUME NoFaults, OrphanInv, ManagerInv', NEW n \in Name, Restart(n)
    PROVE  OrphanInv'
<1>1. TypeOK /\ procs[n] \in Process
  BY DEF OrphanInv, ManagerInv, TypeOK
<1> DEFINE r == [procs[n] EXCEPT !.pid = None, !.restarts = 0, !.history = 0]
<1>2. PICK out \in Outcomes :
        /\ SpawnChild(n, out, Terminated(children, {procs[n].pid}))
        /\ procs' = [procs EXCEPT ![n] = Respawned(r, out)]
        /\ Save
  BY DEF Restart, Save
<1>3. r \in Process /\ r.pid = None
  BY <1>1 DEF Process, None
<1> HIDE DEF r
<1>4. out = "ready" => Respawned(r, out).pid = FreshPid
  BY <1>1, <1>3, RespawnedPid
<1>5. disk' = procs' /\ exits' \subseteq exits
  BY <1>2, SaveIsSaved DEF Restart
<1> DEFINE cs == Terminated(children, {procs[n].pid})
           new == Respawned(r, out)
<1>6. cs \in [Pid -> Child]
  BY <1>1, TerminatedCulled
<1>7. Culled(cs, {procs[n].pid})
  BY <1>1, TerminatedCulled
<1>8. SpawnChild(n, out, cs) /\ procs' = [procs EXCEPT ![n] = new]
  BY <1>2
<1>9. \A m \in Name : disk'[m].pid = procs'[m].pid
  BY <1>5
<1>10. out = "ready" => new.pid = FreshPid
  BY <1>4
<1> HIDE DEF cs, new
<1>11. \A p \in Pid : procs[n].pid = p /\ children[p].state = "alive" => p \in {procs[n].pid}
  OBVIOUS
<1> QED
  BY <1>5, <1>6, <1>7, <1>8, <1>9, <1>10, <1>11, OwnedRespawn, ZenonT(40)

\* reload_process: the old child is terminated once the new one is saved.
LEMMA OwnedReload ==
    ASSUME NoFaults, OrphanInv, ManagerInv', NEW n \in Name, Reload(n)
    PROVE  OrphanInv'
<1>1. TypeOK /\ procs[n] \in Process
  BY DEF OrphanInv, ManagerInv, TypeOK
<1> DEFINE r == [procs[n] EXCEPT !.status = "running", !.desired = "running",
                                 !.pid = FreshPid, !.history = 0]
<1>2. PICK out \in Outcomes :
        IF out \in {"ready", "unsaved"}
        THEN /\ \E kept \in Refusals({procs[n].pid}) :
                   SpawnChild(n, out, IF out = "ready"
                                      THEN Terminated(children, {procs[n].pid} \ kept)
                                      ELSE children)
             /\ procs' = [procs EXCEPT ![n] = r]
             /\ IF out = "ready" THEN SaveSucceeds ELSE SaveFails
        ELSE SpawnChild(n, out, children) /\ UNCHANGED <<procs, scheduled, file>>
  BY DEF Reload
<1>3. r.pid = FreshPid
  BY <1>1 DEF Process
<1> HIDE DEF r
<1>4. out \in {"refused", "ready", "unready"} /\ exits' \subseteq exits
  BY NoFaultOutcomes DEF Reload
<1>5. CASE out = "ready"
  <2>1. SpawnChild(n, out, Terminated(children, {procs[n].pid}))
    <3>1. PICK kept \in Refusals({procs[n].pid}) :
             SpawnChild(n, out, Terminated(children, {procs[n].pid} \ kept))
      BY <1>2, <1>5
    <3>2. {procs[n].pid} \ kept = {procs[n].pid}
      BY NoRefusals
    <3> QED
      BY <3>1, <3>2
  <2>2. procs' = [procs EXCEPT ![n] = r] /\ disk' = procs'
    BY <1>2, <1>5 DEF SaveSucceeds
  <2> DEFINE cs == Terminated(children, {procs[n].pid})
  <2>3. cs \in [Pid -> Child]
    BY <1>1, TerminatedCulled
  <2>4. Culled(cs, {procs[n].pid}) /\ SpawnChild(n, out, cs)
    BY <1>1, <2>1, TerminatedCulled
  <2> HIDE DEF cs
  <2>5. \A m \in Name : disk'[m].pid = procs'[m].pid
    BY <2>2
  <2>6. \A p \in Pid : procs[n].pid = p /\ children[p].state = "alive" => p \in {procs[n].pid}
    OBVIOUS
  <2> QED
    BY <1>3, <1>4, <2>2, <2>3, <2>4, <2>5, <2>6, OwnedRespawn, ZenonT(40)
<1>6. CASE out # "ready"
  <2>1. SpawnChild(n, out, children) /\ UNCHANGED <<procs, disk>>
    BY <1>2, <1>4, <1>6 DEF file
  <2>2. \A m \in Name : disk'[m].pid = procs'[m].pid
    BY <2>1 DEF OrphanInv, Mirrored
  <2> QED
    BY <1>1, <1>4, <1>6, <2>1, <2>2, KeptCulled, OwnedStep
<1> QED
  BY <1>5, <1>6

\* Stop, Delete and GiveUp: the child, if any, is terminated and the process has none.
LEMMA OwnedEnd ==
    ASSUME OrphanInv, ManagerInv', NEW n \in Name, NEW r, procs' = [procs EXCEPT ![n] = r],
           children' = Terminated(children, {procs[n].pid}), disk' = procs', exits' \subseteq exits
    PROVE  OrphanInv'
<1>1. TypeOK
  BY DEF OrphanInv, ManagerInv
<1>2. Culled(children', {procs[n].pid})
  BY <1>1, TerminatedCulled
<1>3. \A m \in Name \ {n} : procs'[m].pid = procs[m].pid
  BY <1>1 DEF TypeOK
<1>4. \A p \in Pid : procs[n].pid = p /\ children[p].state = "alive"
         => p \in {procs[n].pid} \/ procs'[n].pid = p
  OBVIOUS
<1>5. \A m \in Name : disk'[m].pid = procs'[m].pid
  OBVIOUS
<1> QED
  BY <1>2, <1>3, <1>4, <1>5, OwnedIdle

\* A process whose child, if any, is dead gets a new one: the timers, recovery and the
\* automatic restart.
LEMMA OwnedFresh ==
    ASSUME NoFaults, OrphanInv, ManagerInv', NEW n \in Name, NEW out \in Outcomes,
           SpawnChild(n, out, children),
           NEW r, procs' = [procs EXCEPT ![n] = r], out = "ready" => r.pid = FreshPid,
           \A p \in Pid : procs[n].pid = p => children[p].state # "alive",
           exits' \subseteq exits,
           \A m \in Name : disk'[m].pid = procs'[m].pid
    PROVE  OrphanInv'
<1>1. TypeOK
  BY DEF OrphanInv, ManagerInv
<1> DEFINE S == {}
<1>2. children \in [Pid -> Child] /\ Culled(children, S)
  BY <1>1, KeptCulled
<1>3. \A p \in Pid : procs[n].pid = p /\ children[p].state = "alive" => p \in S
  OBVIOUS
<1> HIDE DEF S
<1> QED
  BY <1>2, <1>3, OwnedRespawn, ZenonT(40)

\* A process whose child, if any, is dead is settled without a new one.
LEMMA OwnedSettle ==
    ASSUME NoFaults, OrphanInv, ManagerInv', NEW n \in Name,
           NEW r, procs' = [procs EXCEPT ![n] = r], UNCHANGED children,
           \A p \in Pid : procs[n].pid = p => children[p].state # "alive",
           exits' \subseteq exits, disk' = procs'
    PROVE  OrphanInv'
<1>1. TypeOK
  BY DEF OrphanInv, ManagerInv
<1>2. Culled(children', {})
  BY <1>1, KeptCulled
<1>3. \A m \in Name \ {n} : procs'[m].pid = procs[m].pid
  BY <1>1 DEF TypeOK
<1>4. \A m \in Name : disk'[m].pid = procs'[m].pid
  OBVIOUS
<1> QED
  BY <1>2, <1>3, <1>4, OwnedIdle

\* A restart by the maintenance tick terminates the old child before the new one starts.
LEMMA OwnedCounted ==
    ASSUME NoFaults, OrphanInv, ManagerInv', NEW n \in Name, CountedRestart(n),
           UNCHANGED exits
    PROVE  OrphanInv'
<1>1. TypeOK /\ procs[n] \in Process
  BY DEF OrphanInv, ManagerInv, TypeOK
<1> DEFINE cs == Terminated(children, {procs[n].pid})
           idle == [procs[n] EXCEPT !.pid = None]
           r(out) == Respawned(idle, out)
<1>2. Refusals({procs[n].pid}) = {{}}
  BY DEF NoFaults, Refusals
<1>3. PICK out \in Outcomes :
        /\ SpawnChild(n, out, cs)
        /\ IF out = "ready"
           THEN /\ procs' = [procs EXCEPT ![n] = [r(out) EXCEPT !.restarts = @ + 1]]
                /\ SaveSucceeds
           ELSE /\ procs' = [procs EXCEPT ![n] = r(out)]
                /\ Save
  BY <1>2 DEF CountedRestart, NoFaults
<1>4. idle \in Process /\ idle.pid = None
  BY <1>1 DEF Process, None
<1>5. cs \in [Pid -> Child]
  BY <1>1, TerminatedCulled
<1>6. Culled(cs, {procs[n].pid})
  BY <1>1, TerminatedCulled
<1>7. \A p \in Pid : procs[n].pid = p /\ children[p].state = "alive" => p \in {procs[n].pid}
  OBVIOUS
<1> HIDE DEF cs, idle
<1>8. r(out) \in Process /\ (out = "ready" => r(out).pid = FreshPid)
  BY <1>1, <1>4, RespawnedPid
<1> HIDE DEF r
<1>9. disk' = procs'
  BY <1>3, SaveIsSaved DEF SaveSucceeds
<1>10. \A m \in Name : disk'[m].pid = procs'[m].pid
  BY <1>9
<1>11. CASE out = "ready"
  <2> DEFINE new == [r(out) EXCEPT !.restarts = @ + 1]
  <2>1. new.pid = FreshPid
    BY <1>8, <1>11 DEF Process
  <2>2. procs' = [procs EXCEPT ![n] = new] /\ SpawnChild(n, out, cs)
    BY <1>3, <1>11
  <2> HIDE DEF new
  <2> QED
    BY <1>5, <1>6, <1>7, <1>10, <2>1, <2>2, OwnedRespawn, ZenonT(40)
<1>12. CASE out # "ready"
  <2>1. procs' = [procs EXCEPT ![n] = r(out)] /\ SpawnChild(n, out, cs)
    BY <1>3, <1>12
  <2> QED
    BY <1>5, <1>6, <1>7, <1>10, <1>12, <2>1, OwnedRespawn, ZenonT(40)
<1> QED
  BY <1>11, <1>12

\* A restart timer fires for a process without a child.
LEMMA OwnedScheduled ==
    ASSUME NoFaults, OrphanInv, ManagerInv', NEW n \in Name, ScheduledRestart(n)
    PROVE  OrphanInv'
<1>1. TypeOK /\ LiveRow(n) /\ procs[n] \in Process
  BY DEF OrphanInv, ManagerInv, TypeOK, ScheduledRestart
<1>2. procs[n].status = "restarting" /\ procs[n].desired = "running" /\ procs[n].pid = None
  BY <1>1 DEF LiveRow, ScheduledRestart
<1>3. PICK out \in Outcomes :
        /\ SpawnChild(n, out, children)
        /\ procs' = [procs EXCEPT ![n] = Respawned(procs[n], out)]
        /\ Save
  BY <1>2 DEF ScheduledRestart, Save
<1>4. out = "ready" => Respawned(procs[n], out).pid = FreshPid
  BY <1>1, <1>2, RespawnedPid
<1>5. disk' = procs' /\ exits' \subseteq exits
  BY <1>3, SaveIsSaved DEF ScheduledRestart
<1>6. \A p \in Pid : procs[n].pid = p => children[p].state # "alive"
  BY <1>2 DEF Pid, None
<1>7. \A m \in Name : disk'[m].pid = procs'[m].pid
  BY <1>5
<1> DEFINE new == Respawned(procs[n], out)
<1>8. procs' = [procs EXCEPT ![n] = new] /\ (out = "ready" => new.pid = FreshPid)
  BY <1>3, <1>4
<1> HIDE DEF new
<1> QED
  BY <1>3, <1>5, <1>6, <1>7, <1>8, OwnedFresh

\* Recovery starts processes without a child; an unsaved failure changes no pid.
LEMMA OwnedRecover ==
    ASSUME NoFaults, OrphanInv, ManagerInv', NEW n \in Name, RecoverProcess(n)
    PROVE  OrphanInv'
<1>1. TypeOK /\ LiveRow(n) /\ procs[n] \in Process /\ Mirrored
  BY DEF OrphanInv, ManagerInv, TypeOK, RecoverProcess
<1>2. procs[n].pid = None /\ exits' \subseteq exits
  BY <1>1 DEF LiveRow, RecoverProcess
<1> DEFINE r(out) == Respawned(procs[n], out)
           new(out) == [r(out) EXCEPT !.desired = "running"]
<1>3. PICK out \in Outcomes :
        /\ SpawnChild(n, out, children)
        /\ procs' = [procs EXCEPT ![n] = new(out)]
        /\ CASE out = "ready"   -> SaveSucceeds
             [] out = "unsaved" -> SaveFails
             [] OTHER           -> UNCHANGED file
  BY DEF RecoverProcess
<1>4. out \in {"refused", "ready", "unready"}
  BY NoFaultOutcomes
<1>5. /\ r(out) \in Process
      /\ out = "ready" => r(out).pid = FreshPid
      /\ out # "ready" => r(out).pid = None
  <2>1. r(out) \in Process /\ (out = "ready" => r(out).pid = FreshPid)
    BY <1>1, <1>2, RespawnedPid
  <2>2. out # "ready" => r(out) = [procs[n] EXCEPT !.status = "errored", !.desired = "stopped"]
    BY <1>4 DEF Respawned
  <2>3. out # "ready" => r(out).pid = None
    BY <1>1, <1>2, <2>2 DEF Process
  <2> QED
    BY <2>1, <2>3
<1> HIDE DEF r
<1>6. new(out).pid = r(out).pid
  BY <1>5 DEF Process
<1> HIDE DEF new
<1>7. out = "ready" => new(out).pid = FreshPid
  BY <1>5, <1>6
<1>8. procs'[n] = new(out) /\ \A m \in Name \ {n} : procs'[m] = procs[m]
  BY <1>1, <1>3 DEF TypeOK
<1>9. \A m \in Name : disk'[m].pid = procs'[m].pid
  <2>1. CASE out = "ready"
    BY <1>3, <2>1 DEF SaveSucceeds
  <2>2. CASE out # "ready"
    <3>1. disk' = disk
      BY <1>3, <1>4, <2>2 DEF file
    <3> QED
      BY <1>1, <1>2, <1>5, <1>6, <1>8, <2>2, <3>1 DEF Mirrored
  <2> QED
    BY <2>1, <2>2
<1>10. \A p \in Pid : procs[n].pid = p => children[p].state # "alive"
  BY <1>2 DEF Pid, None
<1> QED
  BY <1>2, <1>3, <1>7, <1>9, <1>10, OwnedFresh

\* An exit event that is acted upon is the current child's, which is dead.
LEMMA OwnedHandleExit ==
    ASSUME NoFaults, OrphanInv, ManagerInv', NEW p \in Pid, HandleExit(p)
    PROVE  OrphanInv'
<1>0. PICK n \in Name : n = children[p].name
  BY DEF HandleExit, OrphanInv, ManagerInv, EventsOK
<1>1. /\ TypeOK /\ exits' \subseteq exits /\ children[p].state = "dead"
      /\ procs[n] \in Process /\ Mirrored
  BY <1>0 DEF HandleExit, OrphanInv, ManagerInv, TypeOK, ToldDead
<1>2. CASE ~(Present(n) /\ ExitMatches(procs[n], p))
  <2>1. UNCHANGED <<procs, children, disk>>
    BY <1>0, <1>2 DEF HandleExit, os, file
  <2> QED
    BY <1>1, <2>1 DEF OrphanInv, Owned, ToldDead, Mirrored
<1>3. CASE Present(n) /\ ExitMatches(procs[n], p)
  <2> DEFINE gone == [procs[n] EXCEPT !.pid = None]
             again(w) == [gone EXCEPT !.status = "restarting", !.restarts = @ + 1,
                                      !.history = IF CrashLimit = 0 THEN w ELSE w + 1]
  <2>1. \A q \in Pid : procs[n].pid = q => children[q].state # "alive"
    BY <1>1, <1>3 DEF ExitMatches, Pid, None
  <2>2. ASSUME NEW r, Settle(n, r)
        PROVE  OrphanInv'
    <3>1. procs' = [procs EXCEPT ![n] = r] /\ UNCHANGED children /\ disk' = procs'
      BY <2>2, SaveIsSaved DEF Settle, os
    <3> QED
      BY <1>1, <2>1, <3>1, OwnedSettle
  <2>3. ASSUME NEW r \in Process, r.pid = None, AutoRestart(n, r)
        PROVE  OrphanInv'
    <3>1. CASE n \in Delayed
      <4>1. procs' = [procs EXCEPT ![n] = r] /\ UNCHANGED children /\ disk' = procs'
        BY <2>3, <3>1, SaveIsSaved DEF AutoRestart, os
      <4> QED
        BY <1>1, <2>1, <4>1, OwnedSettle
    <3>2. CASE n \notin Delayed
      <4>1. PICK out \in Outcomes :
               /\ SpawnChild(n, out, children)
               /\ procs' = [procs EXCEPT ![n] = Respawned(r, out)]
               /\ Save
        BY <2>3, <3>2 DEF AutoRestart, Save
      <4> DEFINE new == Respawned(r, out)
      <4>2. (out = "ready" => new.pid = FreshPid) /\ procs' = [procs EXCEPT ![n] = new]
        BY <1>1, <2>3, <4>1, RespawnedPid
      <4>3. \A m \in Name : disk'[m].pid = procs'[m].pid
        BY <4>1, SaveIsSaved
      <4> HIDE DEF new
      <4> QED
        BY <1>1, <2>1, <4>1, <4>2, <4>3, OwnedFresh
    <3> QED
      BY <3>1, <3>2
  <2>4. PICK kind \in {"success", "failure", "wait_error"} : AfterExit(n, kind)
    BY <1>0, <1>3 DEF HandleExit
  <2>5. gone \in Process /\ gone.pid = None
    BY <1>1 DEF Process, None
  <2>6. CASE gone.desired = "stopped" \/ ~CanAutoRestart(n, kind)
    BY <2>2, <2>4, <2>6 DEF AfterExit
  <2>7. CASE gone.desired # "stopped" /\ CanAutoRestart(n, kind)
    <3> DEFINE halt(w) == [gone EXCEPT !.status = "errored", !.desired = "stopped",
                                       !.history = w]
    <3>1. PICK w \in 0 .. gone.history :
             IF CrashLooping(w) THEN Settle(n, halt(w)) ELSE AutoRestart(n, again(w))
      BY <2>4, <2>7 DEF AfterExit
    <3>2. w \in Nat /\ gone.history \in Nat
      BY <2>5 DEF Process
    <3>3. again(w) \in Process /\ again(w).pid = None
      <4>1. gone.restarts + 1 \in Nat /\ (IF CrashLimit = 0 THEN w ELSE w + 1) \in Nat
        BY <2>5, <3>2 DEF Process
      <4>2. again(w) = [gone EXCEPT !.status = "restarting",
                                    !.restarts = gone.restarts + 1,
                                    !.history = IF CrashLimit = 0 THEN w ELSE w + 1]
        BY <2>5 DEF Process
      <4> HIDE DEF gone
      <4> QED
        BY <2>5, <4>1, <4>2 DEF Process, Status
    <3> HIDE DEF halt, again
    <3> QED
      BY <2>2, <2>3, <3>1, <3>3
  <2> QED
    BY <2>6, <2>7
<1> QED
  BY <1>2, <1>3

\* A child that exits becomes dead, whether its event is queued or lost.
LEMMA OwnedChildExits ==
    ASSUME OrphanInv, ManagerInv', NEW p \in Pid, ChildExits(p)
    PROVE  OrphanInv'
<1>1. TypeOK /\ exits \subseteq Pid
  BY DEF OrphanInv, ManagerInv, TypeOK
<1>2. /\ children'[p].state = "dead"
      /\ \A q \in Pid \ {p} : children'[q] = children[q]
      /\ UNCHANGED <<procs, disk>>
      /\ exits' \subseteq exits \cup {p}
  BY <1>1 DEF ChildExits, memory, file, TypeOK, Child
<1>3. Owned'
  BY <1>2 DEF OrphanInv, Owned
<1>4. ToldDead'
  BY <1>1, <1>2 DEF OrphanInv, ToldDead
<1>5. Mirrored'
  BY <1>2 DEF OrphanInv, Mirrored
<1> QED
  BY <1>3, <1>4, <1>5 DEF OrphanInv

-----------------------------------------------------------------------------
(* The theorem.                                                             *)

\* Nothing is spawned, queued or registered at first.
LEMMA InitOrphan == Init => OrphanInv
<1> SUFFICES ASSUME Init PROVE OrphanInv
  OBVIOUS
<1>1. Owned
  BY DEF Init, Owned, Unborn
<1>2. ToldDead /\ Mirrored
  BY DEF Init, ToldDead, Mirrored
<1> QED
  BY <1>1, <1>2, InvInit DEF OrphanInv

\* OrphanInv is inductive.
LEMMA OrphanStep ==
    ASSUME NoFaults PROVE OrphanInv /\ [Next]_vars => OrphanInv'
<1> SUFFICES ASSUME OrphanInv, [Next]_vars PROVE OrphanInv'
  OBVIOUS
<1>1. ManagerInv' /\ TypeOK /\ Mirrored /\ exits \subseteq Pid
  BY InvStep DEF OrphanInv, ManagerInv, TypeOK
<1>2. ASSUME NEW n \in Name, Start(n) \/ Restart(n) \/ Reload(n)
      PROVE  OrphanInv'
  BY <1>1, <1>2, OwnedStart, OwnedRestart, OwnedReload
<1>3. ASSUME NEW n \in Name, Stop(n)
      PROVE  OrphanInv'
  <2> DEFINE r == StoppedProcess(procs[n])
  <2>1. /\ procs' = [procs EXCEPT ![n] = r] /\ exits' \subseteq exits
        /\ children' = Terminated(children, {procs[n].pid})
    BY <1>3 DEF Stop
  <2>2. disk' = procs'
    BY <1>3, SaveIsSaved DEF Stop
  <2> HIDE DEF r
  <2> QED
    BY <1>1, <2>1, <2>2, OwnedEnd
<1>4. ASSUME NEW n \in Name, Delete(n)
      PROVE  OrphanInv'
  <2>1. PICK kept \in Refusals({procs[n].pid} \ {None}) :
           children' = Terminated(children, {procs[n].pid} \ kept)
    BY <1>4 DEF Delete
  <2>2. kept = {}
    BY <2>1, NoRefusals
  <2>3. children' = Terminated(children, {procs[n].pid})
    BY <2>1, <2>2
  <2>4. procs' = [procs EXCEPT ![n] = Absent] /\ exits' \subseteq exits /\ disk' = procs'
    BY <1>4, SaveIsSaved DEF Delete
  <2> QED
    BY <1>1, <2>3, <2>4, OwnedEnd
<1>5. CASE StopAll \/ DeleteAll \/ Shutdown
  <2>1. PICK kept \in Refusals(Tracked) : children' = Terminated(children, Tracked \ kept)
    BY <1>5 DEF StopAll, DeleteAll, Shutdown
  <2>2. kept = {} /\ Tracked \ {} = Tracked
    BY <2>1, NoRefusals
  <2>3. children' = Terminated(children, Tracked)
    BY <2>1, <2>2
  <2>4. disk' = procs' /\ exits' \subseteq exits
    BY <1>5, SaveIsSaved DEF StopAll, DeleteAll, Shutdown, DaemonGone
  <2>5. \A m \in Name : disk'[m].pid = procs'[m].pid
    BY <2>4
  <2> QED
    BY <1>1, <2>3, <2>4, <2>5, OwnedNone
<1>6. ASSUME NEW p \in Pid, HandleExit(p) \/ ChildExits(p)
      PROVE  OrphanInv'
  BY <1>1, <1>6, OwnedHandleExit, OwnedChildExits
<1>7. ASSUME NEW n \in Name, ScheduledRestart(n) \/ RecoverProcess(n)
      PROVE  OrphanInv'
  BY <1>1, <1>7, OwnedScheduled, OwnedRecover
<1>8. ASSUME NEW n \in Name, CronRestart(n) \/ WatchRestart(n)
      PROVE  OrphanInv'
  BY <1>1, <1>8, OwnedCounted DEF CronRestart, WatchRestart
<1>9. ASSUME NEW n \in Name, FailedCheck(n)
      PROVE  OrphanInv'
  <2>1. CASE GiveUp(n)
    <3> DEFINE r == [procs[n] EXCEPT !.status = "errored", !.desired = "stopped", !.pid = None]
    <3>1. PICK kept \in Refusals({procs[n].pid}) :
             children' = Terminated(children, {procs[n].pid} \ kept)
      BY <2>1 DEF GiveUp
    <3>2. kept = {}
      BY <3>1, NoRefusals
    <3>3. children' = Terminated(children, {procs[n].pid})
      BY <3>1, <3>2
    <3>4. procs' = [procs EXCEPT ![n] = r] /\ disk' = procs'
      BY <2>1, SaveIsSaved DEF GiveUp
    <3>5. exits' \subseteq exits
      BY <1>9 DEF FailedCheck
    <3> HIDE DEF r
    <3> QED
      BY <1>1, <3>3, <3>4, <3>5, OwnedEnd
  <2> QED
    BY <1>1, <1>9, <2>1, OwnedCounted DEF FailedCheck
<1>10. CASE Crash
  <2>1. UNCHANGED <<children, disk>> /\ procs' = disk /\ exits' = {}
    BY <1>10 DEF Crash, DaemonGone
  <2> QED
    BY <1>1, <2>1 DEF OrphanInv, Owned, ToldDead, Mirrored
<1>11. CASE RecoverTable
  <2>1. PICK kept : kept \in Refusals(Tracked) /\ children' = Terminated(children, Tracked \ kept)
    BY <1>11 DEF RecoverTable, NoFaults
  <2>2. kept = {}
    BY <2>1, NoRefusals
  <2>3. children' = Terminated(children, Tracked)
    BY <2>1, <2>2
  <2>4. \A m \in Name : disk'[m].pid = procs'[m].pid
    BY <1>11 DEF RecoverTable, SaveSucceeds, NoFaults
  <2>5. exits' \subseteq exits
    BY <1>11 DEF RecoverTable
  <2> QED
    BY <1>1, <2>3, <2>4, <2>5, OwnedNone
<1>12. CASE RecoverDone
  <2>1. UNCHANGED <<children, procs, exits>> /\ disk' = procs'
    BY <1>12 DEF RecoverDone, NoFaults, SaveSucceeds
  <2> QED
    BY <1>1, <2>1 DEF OrphanInv, Owned, ToldDead, Mirrored
<1>13. CASE UNCHANGED vars
  BY <1>1, <1>13 DEF vars, memory, os, file, OrphanInv, Owned, ToldDead, Mirrored
<1> QED
  BY <1>2, <1>3, <1>4, <1>5, <1>6, <1>7, <1>8, <1>9, <1>10, <1>11, <1>12, <1>13
     DEF Next, Commands, Background

\* When no save, no signal and no identity check fails, every child that has not been
\* terminated is the tracked child of its process: no restart, reload, stale exit event,
\* crash or recovery leaves a second instance behind.
THEOREM NoChildOrphaned ==
    ASSUME NoFaults PROVE Spec => []NoOrphan
<1>1. Init => OrphanInv
  BY InitOrphan
<1>2. OrphanInv /\ [Next]_vars => OrphanInv'
  BY OrphanStep
<1>3. OrphanInv => NoOrphan
  BY DEF OrphanInv, Owned, NoOrphan
<1> QED
  BY <1>1, <1>2, <1>3, PTL DEF Spec

-----------------------------------------------------------------------------
(* The abstract supervisor.                                                *)

\* Pids are given in order, and to children that are born with them.
BornOK == \A p \in Pid : children[p].state = "unborn" <=> p > lastPid

\* A crash brings back what is wanted, and the budget used.
Recorded == \A n \in Name :
    disk[n].desired = procs[n].desired /\ disk[n].restarts = procs[n].restarts

\* Who has a child is meant to run.
TrackedWanted == \A n \in Name : procs[n].pid # None => procs[n].desired = "running"

SupervisorInv == OrphanInv /\ BornOK /\ Recorded /\ TrackedWanted

\* How a row may change when its service gets no new instance.
Waned(r, s) ==
    /\ s.desired = "running" => r.desired = "running"
    /\ \/ s.restarts = r.restarts
       \/ s.restarts = r.restarts + 1 /\ r.desired = "running"
       \/ s.restarts = 0 /\ s.desired # "running"

\* How it may change when it gets one: by a command, or because it is wanted.
Renewed(r, s) ==
    /\ s.desired = "running"
    /\ \/ s.restarts = 0
       \/ r.desired = "running" /\ s.restarts \in {r.restarts, r.restarts + 1}

\* Of the children cs only the tracked one of n may have been terminated.
Spared(cs, n) ==
    \A p \in Pid : /\ cs[p].name = children[p].name
                   /\ cs[p].state = "unborn" <=> children[p].state = "unborn"
                   /\ cs[p].state = "alive" => children[p].state = "alive"
                   /\ p # procs[n].pid => cs[p] = children[p]

-----------------------------------------------------------------------------
(* Steps as the services see them.                                          *)

\* Terminating n's tracked child spares the others.
LEMMA TerminatedSpares ==
    ASSUME TypeOK, NEW n \in Name
    PROVE  /\ Terminated(children, {procs[n].pid}) \in [Pid -> Child]
           /\ Spared(Terminated(children, {procs[n].pid}), n)
           /\ \A p \in Pid : procs[n].pid = p =>
                 Terminated(children, {procs[n].pid})[p].state # "alive"
  BY DEF TypeOK, Terminated, Spared, Child

LEMMA KeptSpares ==
    ASSUME TypeOK, NEW n \in Name
    PROVE  children \in [Pid -> Child] /\ Spared(children, n)
  BY DEF TypeOK, Spared

\* A step that spawns nothing that stays.
LEMMA WaneSeen ==
    ASSUME SupervisorInv, TypeOK',
           \A p \in Pid : /\ children[p].state # "unborn" => children'[p].state # "unborn"
                          /\ children'[p].state = "alive" =>
                                children[p].state = "alive" /\ children'[p].name = children[p].name,
           \A m \in Name : Waned(procs[m], procs'[m])
    PROVE  Promise!Next
<1>1. \A m \in Name : procs[m].restarts \in Nat /\ procs'[m].restarts \in Nat
  BY DEF SupervisorInv, OrphanInv, ManagerInv, TypeOK, Process
<1>2. Promise!Wane
  BY <1>1 DEF Promise!Wane, Waned
<1> QED
  BY <1>2 DEF Promise!Next

\* A spawn makes FreshPid known, and changes no other child.
LEMMA SpawnSeen ==
    ASSUME NoFaults, SupervisorInv, NEW n \in Name, NEW cs \in [Pid -> Child], Spared(cs, n),
           NEW out \in Outcomes, SpawnChild(n, out, cs)
    PROVE  /\ BornOK'
           /\ \A p \in Pid :
                 /\ children[p].state # "unborn" => children'[p].state # "unborn"
                 /\ children'[p].state = "alive" /\ ~(out = "ready" /\ p = FreshPid) =>
                       children[p].state = "alive" /\ children'[p].name = children[p].name
           /\ out = "ready" =>
                 /\ FreshPid \in Pid /\ children[FreshPid].state = "unborn"
                 /\ children'[FreshPid] = [name |-> n, state |-> "alive"]
                 /\ \A p \in Pid : p # FreshPid => children'[p] = cs[p]
<1>1. TypeOK /\ lastPid \in Nat /\ (\A p \in Pid : p \in Nat) /\ FreshPid = lastPid + 1
  BY BoundAssumption DEF SupervisorInv, OrphanInv, ManagerInv, TypeOK, Pid, FreshPid
<1>2. CASE out = "refused"
  BY <1>1, <1>2 DEF SpawnChild, SupervisorInv, BornOK, Spared
<1>3. CASE out # "refused"
  <2>1. out \in {"ready", "unready"} /\ FreshPid \in Pid
    BY <1>1, <1>3, NoFaultOutcomes, OutcomeFresh
  <2>2. lastPid' = FreshPid /\ \A p \in Pid : p # FreshPid => children'[p] = cs[p]
    BY <1>3 DEF SpawnChild
  <2>3. children'[FreshPid] =
           [name |-> n, state |-> IF out = "unready" THEN "doomed" ELSE "alive"]
    BY <1>3, <2>1 DEF SpawnChild
  <2>4. children[FreshPid].state = "unborn"
    BY <1>1, <2>1 DEF SupervisorInv, BornOK
  <2>5. /\ children'[FreshPid].state # "unborn"
        /\ out = "unready" => children'[FreshPid].state = "doomed"
    BY <2>1, <2>3
  <2>6. BornOK'
    BY <1>1, <2>1, <2>2, <2>5 DEF SupervisorInv, BornOK, Spared
  <2> QED
    BY <2>1, <2>2, <2>3, <2>4, <2>5, <2>6 DEF Spared
<1> QED
  BY <1>2, <1>3

\* A step of one process n, whose row becomes r.
LEMMA RowStep ==
    ASSUME NoFaults, SupervisorInv, OrphanInv', NEW n \in Name, NEW r \in Process,
           procs' = [procs EXCEPT ![n] = r],
           \/ disk' = procs'
           \/ disk' = disk /\ r.desired = procs[n].desired /\ r.restarts = procs[n].restarts,
           r.pid # None => r.desired = "running",
           NEW cs \in [Pid -> Child], Spared(cs, n), NEW out \in Outcomes, SpawnChild(n, out, cs),
           out = "ready" => /\ Renewed(procs[n], r)
                            /\ \A p \in Pid : procs[n].pid = p => cs[p].state # "alive",
           out # "ready" => Waned(procs[n], r)
    PROVE  SupervisorInv' /\ Promise!Next
<1>1. TypeOK /\ TypeOK' /\ procs \in [Name -> Process]
  BY DEF SupervisorInv, OrphanInv, ManagerInv, TypeOK
<1>2. procs'[n] = r /\ \A m \in Name : m # n => procs'[m] = procs[m]
  BY <1>1
<1>3. BornOK'
  BY SpawnSeen
<1>4. Recorded' /\ TrackedWanted'
  BY <1>2 DEF SupervisorInv, Recorded, TrackedWanted
<1>5. CASE out # "ready"
  <2>1. \A m \in Name : Waned(procs[m], procs'[m])
    BY <1>2, <1>5 DEF Waned
  <2>2. \A p \in Pid :
           /\ children[p].state # "unborn" => children'[p].state # "unborn"
           /\ children'[p].state = "alive" =>
                 children[p].state = "alive" /\ children'[p].name = children[p].name
    <3>1. \A p \in Pid :
             /\ children[p].state # "unborn" => children'[p].state # "unborn"
             /\ children'[p].state = "alive" /\ ~(out = "ready" /\ p = FreshPid) =>
                   children[p].state = "alive" /\ children'[p].name = children[p].name
      BY SpawnSeen
    <3> QED
      BY <1>5, <3>1
  <2>3. Promise!Next
    BY <1>1, <2>1, <2>2, WaneSeen
  <2> QED
    BY <1>3, <1>4, <2>3 DEF SupervisorInv
<1>6. CASE out = "ready"
  <2>1. PICK q \in Pid :
           /\ children[q].state = "unborn"
           /\ children'[q] = [name |-> n, state |-> "alive"]
           /\ \A p \in Pid : p # q => children'[p] = cs[p]
    BY <1>6, SpawnSeen
  <2>2. \A p \in Pid : children'[p].state = "unborn" <=> children[p].state = "unborn" /\ p # q
    BY <2>1 DEF Spared
  <2>3. \A p \in Pid : children[p].state = "alive" /\ children[p].name \in Name =>
                          procs[children[p].name].pid = p
    BY DEF SupervisorInv, OrphanInv, Owned
  <2>4. \A p \in Pid : children'[p].name = n /\ children'[p].state = "alive" <=> p = q
    <3>1. ASSUME NEW p \in Pid, p # q, children'[p].name = n, children'[p].state = "alive"
          PROVE  FALSE
      <4>1. children'[p] = cs[p] /\ children[p].name = n /\ children[p].state = "alive"
        BY <2>1, <3>1 DEF Spared
      <4>2. procs[n].pid = p
        BY <2>3, <4>1
      <4> QED
        BY <1>6, <3>1, <4>1, <4>2
    <3> QED
      BY <2>1, <3>1
  <2>5. \A m \in Name \ {n} : \A p \in Pid :
           children'[p].name = m /\ children'[p].state = "alive" <=>
           children[p].name = m /\ children[p].state = "alive"
    <3>1. ASSUME NEW m \in Name \ {n}, NEW p \in Pid,
                 children[p].name = m, children[p].state = "alive"
          PROVE  children'[p].name = m /\ children'[p].state = "alive"
      <4>1. procs[m].pid = p /\ p # q
        BY <2>1, <2>3, <3>1
      <4>2. p # procs[n].pid
        <5>1. procs[n].pid = p => procs[n].pid # None /\ children[procs[n].pid].name = n
          BY DEF SupervisorInv, OrphanInv, ManagerInv, RowOK, Pid, None
        <5> QED
          BY <3>1, <5>1
      <4> QED
        BY <2>1, <3>1, <4>1, <4>2 DEF Spared
    <3> QED
      BY <2>1, <3>1 DEF Spared
  <2> DEFINE Wanted == {m \in Name : procs[m].desired = "running"}
             Used == [m \in Name |-> procs[m].restarts]
             Running(m) == {p \in Pid : children[p].name = m /\ children[p].state = "alive"}
             Born == {p \in Pid : children[p].state # "unborn"}
  <2>6. q \notin Born /\ Born' = Born \cup {q}
    BY <2>1, <2>2
  <2>7. Running(n)' = {q} /\ \A m \in Name \ {n} : Running(m)' = Running(m)
    BY <2>1, <2>4, <2>5
  <2>8. Wanted' = Wanted \cup {n}
    BY <1>2, <1>6 DEF Renewed
  <2>9. \A u : u = r.restarts => Used' = [Used EXCEPT ![n] = u]
    <3>1. \A m \in Name : procs'[m].restarts = IF m = n THEN r.restarts ELSE procs[m].restarts
      BY <1>2
    <3> QED
      BY <3>1
  <2>10. [m \in Name |-> Running(m)]' = [[m \in Name |-> Running(m)] EXCEPT ![n] = {q}]
    BY <2>7
  <2>11. ASSUME r.restarts = 0
         PROVE  Promise!Next
    <3>1. Promise!Begin(n, q)
      BY <2>6, <2>8, <2>9, <2>10, <2>11 DEF Promise!Begin, Promise!Set
    <3> QED
      BY <3>1 DEF Promise!Next
  <2>12. ASSUME procs[n].desired = "running",
                r.restarts \in {procs[n].restarts, procs[n].restarts + 1}
         PROVE  Promise!Next
    <3>1. n \in Wanted /\ Wanted' = Wanted /\ r.restarts \in {Used[n], Used[n] + 1}
      BY <2>8, <2>12
    <3>2. Promise!Replace(n, q)
      BY <2>6, <2>9, <2>10, <3>1 DEF Promise!Replace, Promise!Set
    <3> QED
      BY <3>2 DEF Promise!Next
  <2>13. Promise!Next
    BY <1>6, <2>11, <2>12 DEF Renewed
  <2> QED
    BY <1>3, <1>4, <2>13 DEF SupervisorInv
<1> QED
  BY <1>5, <1>6

\* The children only die.
Faded == \A p \in Pid : /\ children'[p].name = children[p].name
                        /\ children'[p].state = "unborn" <=> children[p].state = "unborn"
                        /\ children'[p].state = "alive" => children[p].state = "alive"

\* So they do when they are left alone or terminated.
LEMMA TerminatedFades ==
    ASSUME TypeOK, \/ children' = children
                   \/ \E S : children' = Terminated(children, S)
    PROVE  Faded
  BY DEF TypeOK, Child, Terminated, Faded

\* A step that spawns nothing.
LEMMA TableStep ==
    ASSUME SupervisorInv, OrphanInv', Faded, lastPid' = lastPid,
           \A m \in Name : /\ Waned(procs[m], procs'[m])
                           /\ procs'[m].pid # None => procs'[m].desired = "running"
                           /\ disk'[m].desired = procs'[m].desired
                           /\ disk'[m].restarts = procs'[m].restarts
    PROVE  SupervisorInv' /\ Promise!Next
<1>1. TypeOK'
  BY DEF OrphanInv, ManagerInv
<1>2. Promise!Next
  <2>1. \A p \in Pid :
           /\ children[p].state # "unborn" => children'[p].state # "unborn"
           /\ children'[p].state = "alive" =>
                 children[p].state = "alive" /\ children'[p].name = children[p].name
    BY DEF Faded
  <2> QED
    BY <1>1, <2>1, WaneSeen
<1>3. BornOK' /\ Recorded' /\ TrackedWanted'
  BY DEF Faded, SupervisorInv, BornOK, Recorded, TrackedWanted
<1> QED
  BY <1>2, <1>3 DEF SupervisorInv

\* A step of one process n that spawns nothing, whose row r is saved.
LEMMA SettledStep ==
    ASSUME SupervisorInv, OrphanInv', Faded, lastPid' = lastPid,
           NEW n \in Name, NEW r, procs' = [procs EXCEPT ![n] = r], disk' = procs',
           Waned(procs[n], r), r.pid = None
    PROVE  SupervisorInv' /\ Promise!Next
<1>1. procs'[n] = r /\ \A m \in Name : m # n => procs'[m] = procs[m]
  BY DEF SupervisorInv, OrphanInv, ManagerInv, TypeOK
<1>2. \A m \in Name : /\ Waned(procs[m], procs'[m])
                      /\ procs'[m].pid # None => procs'[m].desired = "running"
                      /\ disk'[m].desired = procs'[m].desired
                      /\ disk'[m].restarts = procs'[m].restarts
  <2> SUFFICES ASSUME NEW m \in Name
               PROVE  /\ Waned(procs[m], procs'[m])
                      /\ procs'[m].pid # None => procs'[m].desired = "running"
    OBVIOUS
  <2>1. CASE m = n
    BY <1>1, <2>1
  <2>2. CASE m # n
    BY <1>1, <2>2 DEF Waned, SupervisorInv, TrackedWanted
  <2> QED
    BY <2>1, <2>2
<1> QED
  BY <1>2, TableStep

\* A step of one process n whose child, if any, is gone, and which spawn_existing is
\* called for with the row r.
LEMMA RespawnedStep ==
    ASSUME NoFaults, SupervisorInv, OrphanInv', NEW n \in Name, NEW r \in Process, r.pid = None,
           \/ r.restarts = 0
           \/ procs[n].desired = "running"
              /\ r.restarts \in {procs[n].restarts, procs[n].restarts + 1},
           NEW cs \in [Pid -> Child], Spared(cs, n),
           \A p \in Pid : procs[n].pid = p => cs[p].state # "alive",
           NEW out \in Outcomes, SpawnChild(n, out, cs),
           procs' = [procs EXCEPT ![n] = Respawned(r, out)], disk' = procs'
    PROVE  SupervisorInv' /\ Promise!Next
<1>1. out \in {"refused", "ready", "unready"} /\ TypeOK
  BY NoFaultOutcomes DEF SupervisorInv, OrphanInv, ManagerInv
<1> DEFINE s == Respawned(r, out)
<1>2. s \in Process
  BY <1>1, RespawnedType
<1>3. CASE out = "ready"
  <2>1. s = [r EXCEPT !.status = "running", !.desired = "running", !.pid = FreshPid]
    BY <1>3 DEF Respawned
  <2>2. s.desired = "running" /\ s.restarts = r.restarts
    BY <2>1 DEF Process
  <2>3. Renewed(procs[n], s)
    BY <2>2 DEF Renewed
  <2> HIDE DEF s
  <2>4. procs' = [procs EXCEPT ![n] = s]
    BY DEF s
  <2> QED
    BY <1>2, <1>3, <2>2, <2>3, <2>4, RowStep
<1>4. CASE out # "ready"
  <2>1. s = [r EXCEPT !.status = "errored", !.desired = "stopped"]
    BY <1>1, <1>4 DEF Respawned
  <2>2. s.desired = "stopped" /\ s.restarts = r.restarts /\ s.pid = None
    BY <2>1 DEF Process
  <2>3. Waned(procs[n], s)
    BY <2>2 DEF Waned
  <2> HIDE DEF s
  <2>4. procs' = [procs EXCEPT ![n] = s]
    BY DEF s
  <2> QED
    BY <1>2, <1>4, <2>2, <2>3, <2>4, RowStep
<1> QED
  BY <1>3, <1>4

-----------------------------------------------------------------------------
(* Actions.                                                                 *)

\* start_process: the name was unknown.
LEMMA StartSeen ==
    ASSUME NoFaults, SupervisorInv, OrphanInv', NEW n \in Name, Start(n)
    PROVE  SupervisorInv' /\ Promise!Next
<1>1. /\ TypeOK /\ procs[n] \in Process /\ procs[n].pid = None
      /\ procs \in [Name -> Process]
  BY DEF SupervisorInv, OrphanInv, ManagerInv, TypeOK, RowOK, Start, Present
<1> DEFINE r == [status |-> "running", desired |-> "running", pid |-> FreshPid,
                 restarts |-> 0, history |-> 0]
<1>2. PICK out \in Outcomes :
        /\ SpawnChild(n, out, children)
        /\ IF out \in {"ready", "unsaved"}
           THEN /\ procs' = [procs EXCEPT ![n] = r]
                /\ IF out = "ready" THEN SaveSucceeds ELSE SaveFails
           ELSE UNCHANGED <<procs, file>>
  BY DEF Start
<1>3. out \in {"refused", "ready", "unready"}
  BY NoFaultOutcomes
<1>4. children \in [Pid -> Child] /\ Spared(children, n)
  BY <1>1, KeptSpares
<1>5. \A p \in Pid : procs[n].pid = p => children[p].state # "alive"
  BY <1>1 DEF Pid, None
<1>6. CASE out = "ready"
  <2>1. FreshPid \in Pid
    BY <1>1, <1>6, OutcomeFresh
  <2>2. r \in Process
    BY <2>1 DEF Process, Status
  <2>3. r.pid = FreshPid /\ r.desired = "running" /\ Renewed(procs[n], r)
    BY DEF Renewed
  <2>4. procs' = [procs EXCEPT ![n] = r] /\ disk' = procs'
    BY <1>2, <1>6 DEF SaveSucceeds
  <2> HIDE DEF r
  <2> QED
    BY <1>2, <1>4, <1>5, <1>6, <2>2, <2>3, <2>4, RowStep
<1>7. CASE out # "ready"
  <2>1. UNCHANGED <<procs, disk>>
    BY <1>2, <1>3, <1>7 DEF file
  <2>2. procs' = [procs EXCEPT ![n] = procs[n]] /\ Waned(procs[n], procs[n])
    BY <1>1, <2>1 DEF Waned
  <2> QED
    BY <1>1, <1>2, <1>4, <1>7, <2>1, <2>2, RowStep
<1> QED
  BY <1>6, <1>7

\* restart_process: the budget is fresh.
LEMMA RestartSeen ==
    ASSUME NoFaults, SupervisorInv, OrphanInv', NEW n \in Name, Restart(n)
    PROVE  SupervisorInv' /\ Promise!Next
<1>1. TypeOK /\ procs[n] \in Process
  BY DEF SupervisorInv, OrphanInv, ManagerInv, TypeOK
<1> DEFINE r == [procs[n] EXCEPT !.pid = None, !.restarts = 0, !.history = 0]
           cs == Terminated(children, {procs[n].pid})
<1>2. PICK out \in Outcomes :
        /\ SpawnChild(n, out, cs)
        /\ procs' = [procs EXCEPT ![n] = Respawned(r, out)]
        /\ Save
  BY DEF Restart, Save
<1>3. r \in Process /\ r.pid = None /\ r.restarts = 0
  BY <1>1 DEF Process, None
<1>4. /\ cs \in [Pid -> Child] /\ Spared(cs, n)
      /\ \A p \in Pid : procs[n].pid = p => cs[p].state # "alive"
  BY <1>1, TerminatedSpares
<1>5. disk' = procs'
  BY <1>2, SaveIsSaved
<1> HIDE DEF r, cs
<1> QED
  BY <1>2, <1>3, <1>4, <1>5, RespawnedStep

\* reload_process: what has a child is wanted already.
LEMMA ReloadSeen ==
    ASSUME NoFaults, SupervisorInv, OrphanInv', NEW n \in Name, Reload(n)
    PROVE  SupervisorInv' /\ Promise!Next
<1>1. TypeOK /\ procs[n] \in Process /\ procs \in [Name -> Process]
  BY DEF SupervisorInv, OrphanInv, ManagerInv, TypeOK
<1>2. procs[n].pid # None /\ procs[n].desired = "running"
  BY DEF SupervisorInv, TrackedWanted, Reload
<1> DEFINE r == [procs[n] EXCEPT !.status = "running", !.desired = "running",
                                 !.pid = FreshPid, !.history = 0]
           cs == Terminated(children, {procs[n].pid})
<1>3. PICK out \in Outcomes :
        IF out \in {"ready", "unsaved"}
        THEN /\ \E kept \in Refusals({procs[n].pid}) :
                   SpawnChild(n, out, IF out = "ready"
                                      THEN Terminated(children, {procs[n].pid} \ kept)
                                      ELSE children)
             /\ procs' = [procs EXCEPT ![n] = r]
             /\ IF out = "ready" THEN SaveSucceeds ELSE SaveFails
        ELSE SpawnChild(n, out, children) /\ UNCHANGED <<procs, scheduled, file>>
  BY DEF Reload
<1>4. out \in {"refused", "ready", "unready"}
  BY NoFaultOutcomes
<1>5. CASE out = "ready"
  <2>1. SpawnChild(n, out, cs)
    <3>1. PICK kept \in Refusals({procs[n].pid}) :
             SpawnChild(n, out, Terminated(children, {procs[n].pid} \ kept))
      BY <1>3, <1>5
    <3>2. {procs[n].pid} \ kept = {procs[n].pid}
      BY NoRefusals
    <3> QED
      BY <3>1, <3>2
  <2>2. procs' = [procs EXCEPT ![n] = r] /\ disk' = procs'
    BY <1>3, <1>5 DEF SaveSucceeds
  <2>3. /\ cs \in [Pid -> Child] /\ Spared(cs, n)
        /\ \A p \in Pid : procs[n].pid = p => cs[p].state # "alive"
    BY <1>1, TerminatedSpares
  <2>4. FreshPid \in Pid
    BY <1>1, <1>5, OutcomeFresh
  <2>5. r \in Process /\ r.desired = "running" /\ r.restarts = procs[n].restarts
    BY <1>1, <2>4 DEF Process, Status
  <2>6. Renewed(procs[n], r)
    BY <1>2, <2>5 DEF Renewed
  <2> HIDE DEF r, cs
  <2> QED
    BY <1>5, <2>1, <2>2, <2>3, <2>5, <2>6, RowStep
<1>6. CASE out # "ready"
  <2>1. SpawnChild(n, out, children) /\ UNCHANGED <<procs, disk>>
    BY <1>3, <1>4, <1>6 DEF file
  <2>2. procs' = [procs EXCEPT ![n] = procs[n]] /\ Waned(procs[n], procs[n])
    BY <1>1, <2>1 DEF Waned
  <2>3. children \in [Pid -> Child] /\ Spared(children, n)
    BY <1>1, KeptSpares
  <2> QED
    BY <1>1, <1>2, <1>6, <2>1, <2>2, <2>3, RowStep
<1> QED
  BY <1>5, <1>6

\* A restart by the maintenance tick is counted if it comes up.
LEMMA CountedSeen ==
    ASSUME NoFaults, SupervisorInv, OrphanInv', NEW n \in Name, Watchable(n), CountedRestart(n)
    PROVE  SupervisorInv' /\ Promise!Next
<1>1. TypeOK /\ procs[n] \in Process /\ LiveRow(n)
  BY DEF SupervisorInv, OrphanInv, ManagerInv, TypeOK, Watchable
<1>2. procs[n].desired = "running"
  BY <1>1 DEF LiveRow, Watchable
<1> DEFINE cs == Terminated(children, {procs[n].pid})
           idle == [procs[n] EXCEPT !.pid = None]
           r(out) == Respawned(idle, out)
<1>3. Refusals({procs[n].pid}) = {{}}
  BY DEF NoFaults, Refusals
<1>4. PICK out \in Outcomes :
        /\ SpawnChild(n, out, cs)
        /\ IF out = "ready"
           THEN /\ procs' = [procs EXCEPT ![n] = [r(out) EXCEPT !.restarts = @ + 1]]
                /\ SaveSucceeds
           ELSE /\ procs' = [procs EXCEPT ![n] = r(out)]
                /\ Save
  BY <1>3 DEF CountedRestart, NoFaults
<1>5. idle \in Process /\ idle.pid = None /\ idle.restarts = procs[n].restarts
  BY <1>1 DEF Process, None
<1>6. /\ cs \in [Pid -> Child] /\ Spared(cs, n)
      /\ \A p \in Pid : procs[n].pid = p => cs[p].state # "alive"
  BY <1>1, TerminatedSpares
<1>7. disk' = procs'
  BY <1>4, SaveIsSaved DEF SaveSucceeds
<1> HIDE DEF cs, idle
<1>8. CASE out = "ready"
  <2> DEFINE new == [r(out) EXCEPT !.restarts = @ + 1]
  <2>1. r(out) = [idle EXCEPT !.status = "running", !.desired = "running", !.pid = FreshPid]
    BY <1>8 DEF Respawned
  <2>2. FreshPid \in Pid
    BY <1>1, <1>8, OutcomeFresh
  <2>3. r(out) \in Process /\ r(out).restarts = procs[n].restarts
        /\ r(out).desired = "running"
    BY <1>5, <2>1, <2>2 DEF Process, Status
  <2> HIDE DEF r
  <2>4. procs[n].restarts \in Nat /\ r(out).restarts + 1 \in Nat
    BY <1>1, <2>3 DEF Process
  <2>5. new \in Process /\ new.desired = "running" /\ new.restarts = procs[n].restarts + 1
    BY <2>3, <2>4 DEF Process
  <2>6. Renewed(procs[n], new)
    BY <1>2, <2>5 DEF Renewed
  <2>7. procs' = [procs EXCEPT ![n] = new] /\ SpawnChild(n, out, cs)
    BY <1>4, <1>8
  <2> HIDE DEF new
  <2> QED
    BY <1>6, <1>7, <1>8, <2>5, <2>6, <2>7, RowStep
<1>9. CASE out # "ready"
  <2>1. procs' = [procs EXCEPT ![n] = Respawned(idle, out)] /\ SpawnChild(n, out, cs)
    BY <1>4, <1>9
  <2> QED
    BY <1>2, <1>5, <1>6, <1>7, <2>1, RespawnedStep
<1> QED
  BY <1>8, <1>9

\* A restart timer fires for a process that is wanted.
LEMMA ScheduledSeen ==
    ASSUME NoFaults, SupervisorInv, OrphanInv', NEW n \in Name, ScheduledRestart(n)
    PROVE  SupervisorInv' /\ Promise!Next
<1>1. TypeOK /\ LiveRow(n) /\ procs[n] \in Process
  BY DEF SupervisorInv, OrphanInv, ManagerInv, TypeOK, ScheduledRestart
<1>2. procs[n].status = "restarting" /\ procs[n].desired = "running" /\ procs[n].pid = None
  BY <1>1 DEF LiveRow, ScheduledRestart
<1>3. PICK out \in Outcomes :
        /\ SpawnChild(n, out, children)
        /\ procs' = [procs EXCEPT ![n] = Respawned(procs[n], out)]
        /\ Save
  BY <1>2 DEF ScheduledRestart, Save
<1>4. disk' = procs'
  BY <1>3, SaveIsSaved
<1>5. \A p \in Pid : procs[n].pid = p => children[p].state # "alive"
  BY <1>2 DEF Pid, None
<1>6. children \in [Pid -> Child] /\ Spared(children, n)
  BY <1>1, KeptSpares
<1> QED
  BY <1>1, <1>2, <1>3, <1>4, <1>5, <1>6, RespawnedStep

\* Recovery starts processes that are wanted, and leaves them so.
LEMMA RecoverSeen ==
    ASSUME NoFaults, SupervisorInv, OrphanInv', NEW n \in Name, RecoverProcess(n)
    PROVE  SupervisorInv' /\ Promise!Next
<1>1. TypeOK /\ LiveRow(n) /\ procs[n] \in Process
  BY DEF SupervisorInv, OrphanInv, ManagerInv, TypeOK, RecoverProcess
<1>2. procs[n].pid = None /\ procs[n].desired = "running"
  BY <1>1 DEF LiveRow, RecoverProcess
<1> DEFINE r(out) == Respawned(procs[n], out)
           new(out) == [r(out) EXCEPT !.desired = "running"]
<1>3. PICK out \in Outcomes :
        /\ SpawnChild(n, out, children)
        /\ procs' = [procs EXCEPT ![n] = new(out)]
        /\ CASE out = "ready"   -> SaveSucceeds
             [] out = "unsaved" -> SaveFails
             [] OTHER           -> UNCHANGED file
  BY DEF RecoverProcess
<1>4. out \in {"refused", "ready", "unready"}
  BY NoFaultOutcomes
<1>5. r(out) \in Process /\ r(out).restarts = procs[n].restarts
      /\ (out # "ready" => r(out).pid = None)
  <2>1. r(out) \in Process
    BY <1>1, RespawnedType
  <2>2. CASE out = "ready"
    <3>1. r(out) = [procs[n] EXCEPT !.status = "running", !.desired = "running",
                                    !.pid = FreshPid]
      BY <2>2 DEF Respawned
    <3> QED
      BY <1>1, <2>1, <2>2, <3>1 DEF Process
  <2>3. CASE out # "ready"
    <3>1. r(out) = [procs[n] EXCEPT !.status = "errored", !.desired = "stopped"]
      BY <1>4, <2>3 DEF Respawned
    <3> QED
      BY <1>1, <1>2, <2>1, <2>3, <3>1 DEF Process
  <2> QED
    BY <2>2, <2>3
<1> HIDE DEF r
<1>6. new(out) \in Process /\ new(out).restarts = procs[n].restarts
      /\ new(out).desired = "running"
  BY <1>5 DEF Process
<1> HIDE DEF new
<1>7. Renewed(procs[n], new(out)) /\ Waned(procs[n], new(out))
  BY <1>2, <1>6 DEF Renewed, Waned
<1>8. \/ disk' = procs'
      \/ disk' = disk /\ new(out).desired = procs[n].desired
         /\ new(out).restarts = procs[n].restarts
  BY <1>2, <1>3, <1>4, <1>6 DEF SaveSucceeds, file
<1>9. \A p \in Pid : procs[n].pid = p => children[p].state # "alive"
  BY <1>2 DEF Pid, None
<1>10. children \in [Pid -> Child] /\ Spared(children, n)
  BY <1>1, KeptSpares
<1> QED
  BY <1>3, <1>6, <1>7, <1>8, <1>9, <1>10, RowStep

\* An exit event ends the tracked child's service, or has it restarted and counted.
LEMMA ExitSeen ==
    ASSUME NoFaults, SupervisorInv, OrphanInv', NEW p \in Pid, HandleExit(p)
    PROVE  SupervisorInv' /\ Promise!Next
<1>0. PICK n \in Name : n = children[p].name
  BY DEF HandleExit, SupervisorInv, OrphanInv, ManagerInv, EventsOK
<1>1. TypeOK /\ children[p].state = "dead" /\ procs[n] \in Process
  BY DEF HandleExit, SupervisorInv, OrphanInv, ManagerInv, TypeOK, ToldDead
<1>2. CASE ~(Present(n) /\ ExitMatches(procs[n], p))
  <2>1. UNCHANGED <<procs, children, disk, lastPid>>
    BY <1>0, <1>2 DEF HandleExit, os, file
  <2>2. Faded
    BY <1>1, <2>1, TerminatedFades
  <2>3. \A m \in Name : /\ Waned(procs[m], procs'[m])
                        /\ procs'[m].pid # None => procs'[m].desired = "running"
                        /\ disk'[m].desired = procs'[m].desired
                        /\ disk'[m].restarts = procs'[m].restarts
    BY <2>1 DEF Waned, SupervisorInv, TrackedWanted, Recorded
  <2> QED
    BY <2>1, <2>2, <2>3, TableStep
<1>3. CASE Present(n) /\ ExitMatches(procs[n], p)
  <2> DEFINE gone == [procs[n] EXCEPT !.pid = None]
             again(w) == [gone EXCEPT !.status = "restarting", !.restarts = @ + 1,
                                      !.history = IF CrashLimit = 0 THEN w ELSE w + 1]
             halt(w) == [gone EXCEPT !.status = "errored", !.desired = "stopped",
                                     !.history = w]
  <2>1. \A q \in Pid : procs[n].pid = q => children[q].state # "alive"
    BY <1>1, <1>3 DEF ExitMatches, Pid, None
  <2>2. ASSUME NEW r, Settle(n, r), Waned(procs[n], r), r.pid = None
        PROVE  SupervisorInv' /\ Promise!Next
    <3>1. procs' = [procs EXCEPT ![n] = r] /\ disk' = procs' /\ UNCHANGED <<children, lastPid>>
      BY <2>2, SaveIsSaved DEF Settle, os
    <3>2. Faded
      BY <1>1, <3>1, TerminatedFades
    <3> QED
      BY <2>2, <3>1, <3>2, SettledStep
  <2>3. ASSUME NEW r \in Process, r.pid = None, AutoRestart(n, r),
               procs[n].desired = "running", r.desired = "running",
               r.restarts = procs[n].restarts + 1
        PROVE  SupervisorInv' /\ Promise!Next
    <3>1. CASE n \in Delayed
      <4>1. procs' = [procs EXCEPT ![n] = r] /\ disk' = procs' /\ UNCHANGED <<children, lastPid>>
        BY <2>3, <3>1, SaveIsSaved DEF AutoRestart, os
      <4>2. Faded
        BY <1>1, <4>1, TerminatedFades
      <4>3. Waned(procs[n], r)
        BY <2>3 DEF Waned
      <4> QED
        BY <2>3, <4>1, <4>2, <4>3, SettledStep
    <3>2. CASE n \notin Delayed
      <4>1. PICK out \in Outcomes :
               /\ SpawnChild(n, out, children)
               /\ procs' = [procs EXCEPT ![n] = Respawned(r, out)]
               /\ Save
        BY <2>3, <3>2 DEF AutoRestart, Save
      <4>2. disk' = procs' /\ children \in [Pid -> Child] /\ Spared(children, n)
        BY <1>1, <4>1, SaveIsSaved, KeptSpares
      <4> QED
        BY <2>1, <2>3, <4>1, <4>2, RespawnedStep
    <3> QED
      BY <3>1, <3>2
  <2>4. PICK kind \in {"success", "failure", "wait_error"} : AfterExit(n, kind)
    BY <1>0, <1>3 DEF HandleExit
  <2>5. /\ gone \in Process /\ gone.pid = None /\ gone.restarts = procs[n].restarts
        /\ gone.desired = procs[n].desired /\ gone.history = procs[n].history
    BY <1>1 DEF Process, None
  <2>6. gone.desired = "stopped" \/ gone.desired = "running"
    BY <2>5 DEF Process
  <2> HIDE DEF gone
  <2>7. CASE gone.desired = "stopped"
    <3> DEFINE r == [gone EXCEPT !.status = "stopped", !.history = 0]
    <3>1. Settle(n, r)
      BY <2>4, <2>7 DEF AfterExit, gone
    <3>2. r.pid = None /\ r.restarts = procs[n].restarts /\ r.desired = "stopped"
      BY <2>5, <2>7 DEF Process
    <3>3. Waned(procs[n], r)
      BY <3>2 DEF Waned
    <3> HIDE DEF r
    <3> QED
      BY <2>2, <3>1, <3>2, <3>3
  <2>8. CASE gone.desired = "running" /\ ~CanAutoRestart(n, kind)
    <3> DEFINE r == [gone EXCEPT !.status = TerminalStatus(kind), !.history = 0]
    <3>1. Settle(n, r)
      BY <2>4, <2>8 DEF AfterExit, gone
    <3>2. r.pid = None /\ r.restarts = procs[n].restarts /\ r.desired = procs[n].desired
      BY <2>5 DEF Process
    <3>3. Waned(procs[n], r)
      BY <3>2 DEF Waned
    <3> HIDE DEF r
    <3> QED
      BY <2>2, <3>1, <3>2, <3>3
  <2>9. CASE gone.desired = "running" /\ CanAutoRestart(n, kind)
    <3>1. PICK w \in 0 .. gone.history :
             IF CrashLooping(w) THEN Settle(n, halt(w)) ELSE AutoRestart(n, again(w))
      BY <2>4, <2>9 DEF AfterExit, gone
    <3>2. w \in Nat /\ gone.history \in Nat
      BY <2>5 DEF Process
    <3>3. /\ again(w) \in Process /\ again(w).pid = None /\ again(w).desired = "running"
          /\ again(w).restarts = procs[n].restarts + 1
      <4>1. gone.restarts + 1 \in Nat /\ (IF CrashLimit = 0 THEN w ELSE w + 1) \in Nat
        BY <2>5, <3>2 DEF Process
      <4>2. again(w) = [gone EXCEPT !.status = "restarting",
                                    !.restarts = gone.restarts + 1,
                                    !.history = IF CrashLimit = 0 THEN w ELSE w + 1]
        BY <2>5 DEF Process
      <4> QED
        BY <2>5, <2>9, <4>1, <4>2 DEF Process, Status
    <3>4. /\ halt(w).pid = None /\ halt(w).desired = "stopped"
          /\ halt(w).restarts = procs[n].restarts
      BY <2>5 DEF Process
    <3> HIDE DEF halt, again
    <3>5. Waned(procs[n], halt(w))
      BY <3>4 DEF Waned
    <3> QED
      BY <2>2, <2>3, <2>5, <2>9, <3>1, <3>3, <3>4, <3>5
  <2> QED
    BY <2>6, <2>7, <2>8, <2>9
<1> QED
  BY <1>2, <1>3

\* Stop, Delete and GiveUp: the process has no child any more, and is not wanted.
LEMMA EndSeen ==
    ASSUME NoFaults, SupervisorInv, OrphanInv', NEW n \in Name, lastPid' = lastPid,
           NEW S, NEW kept \in Refusals(S), children' = Terminated(children, S \ kept),
           NEW r, procs' = [procs EXCEPT ![n] = r], Save,
           r.pid = None, r.desired = "stopped", r.restarts \in {procs[n].restarts, 0}
    PROVE  SupervisorInv' /\ Promise!Next
<1>1. TypeOK
  BY DEF SupervisorInv, OrphanInv, ManagerInv
<1>2. Faded
  BY <1>1, TerminatedFades
<1>3. disk' = procs' /\ Waned(procs[n], r)
  BY SaveIsSaved DEF Waned
<1> QED
  BY <1>2, <1>3, SettledStep

\* Commands about every process, and the daemon's own life, spawn nothing.
LEMMA DaemonSeen ==
    ASSUME NoFaults, SupervisorInv, OrphanInv',
           StopAll \/ DeleteAll \/ Shutdown \/ Crash \/ RecoverTable \/ RecoverDone
    PROVE  SupervisorInv' /\ Promise!Next
<1>1. TypeOK /\ lastPid' = lastPid
  BY DEF SupervisorInv, OrphanInv, ManagerInv, StopAll, DeleteAll, Shutdown, Crash,
         RecoverTable, RecoverDone
<1>2. children' = children \/ \E S : children' = Terminated(children, S)
  BY DEF StopAll, DeleteAll, Shutdown, Crash, RecoverTable, RecoverDone
<1>3. Faded
  BY <1>1, <1>2, TerminatedFades
<1>4. \A m \in Name :
         /\ AllStopped[m].pid = None /\ AllStopped[m].desired = "stopped"
         /\ AllStopped[m].restarts = procs[m].restarts
         /\ Cleared[m].pid = None /\ Cleared[m].desired = procs[m].desired
         /\ Cleared[m].restarts = procs[m].restarts
  <2> SUFFICES ASSUME NEW m \in Name
               PROVE  /\ AllStopped[m].restarts = procs[m].restarts
                      /\ Cleared[m].restarts = procs[m].restarts
    BY IdleTables DEF SupervisorInv, OrphanInv
  <2>1. procs[m] \in Process
    BY <1>1 DEF TypeOK
  <2> QED
    BY <2>1 DEF AllStopped, Cleared, StoppedProcess, Process
<1>5. \A m \in Name : disk[m].desired = procs[m].desired /\ disk[m].restarts = procs[m].restarts
                      /\ (procs[m].pid # None => procs[m].desired = "running")
                      /\ disk[m].pid = procs[m].pid
  BY DEF SupervisorInv, Recorded, TrackedWanted, OrphanInv, Mirrored
<1>6. \A m \in Name : /\ Waned(procs[m], procs'[m])
                      /\ procs'[m].pid # None => procs'[m].desired = "running"
                      /\ disk'[m].desired = procs'[m].desired
                      /\ disk'[m].restarts = procs'[m].restarts
  <2>1. CASE StopAll \/ Shutdown
    <3>1. procs' = AllStopped /\ disk' = procs'
      BY <2>1, SaveIsSaved DEF StopAll, Shutdown, DaemonGone, NoFaults
    <3> QED
      BY <1>4, <3>1 DEF Waned
  <2>2. CASE DeleteAll
    <3>1. procs' = [m \in Name |-> Absent] /\ disk' = procs'
      BY <2>2, SaveIsSaved DEF DeleteAll
    <3>2. \A m \in Name : procs'[m] = Absent
      BY <3>1
    <3> QED
      BY <3>1, <3>2 DEF Waned, Absent
  <2>3. CASE Crash
    <3>1. procs' = disk /\ disk' = disk
      BY <2>3 DEF Crash, DaemonGone
    <3> QED
      BY <1>5, <3>1 DEF Waned
  <2>4. CASE RecoverTable
    <3>1. procs' = Cleared /\ disk' = procs'
      BY <2>4 DEF RecoverTable, SaveSucceeds, NoFaults
    <3> QED
      BY <1>4, <3>1 DEF Waned
  <2>5. CASE RecoverDone
    <3>1. procs' = procs /\ disk' = procs'
      BY <2>5 DEF RecoverDone, SaveSucceeds, NoFaults
    <3> QED
      BY <1>5, <3>1 DEF Waned
  <2> QED
    BY <2>1, <2>2, <2>3, <2>4, <2>5
<1> QED
  BY <1>1, <1>3, <1>6, TableStep

\* A child that exits is one instance less.
LEMMA ChildExitSeen ==
    ASSUME SupervisorInv, OrphanInv', NEW p \in Pid, ChildExits(p)
    PROVE  SupervisorInv' /\ Promise!Next
<1>1. UNCHANGED <<procs, disk, lastPid>>
  BY DEF ChildExits, memory, file
<1>2. Faded
  BY DEF ChildExits, Faded, SupervisorInv, OrphanInv, ManagerInv, TypeOK, Child
<1>3. \A m \in Name : /\ Waned(procs[m], procs'[m])
                      /\ procs'[m].pid # None => procs'[m].desired = "running"
                      /\ disk'[m].desired = procs'[m].desired
                      /\ disk'[m].restarts = procs'[m].restarts
  BY <1>1 DEF Waned, SupervisorInv, Recorded, TrackedWanted
<1> QED
  BY <1>1, <1>2, <1>3, TableStep

-----------------------------------------------------------------------------
(* The theorem.                                                             *)

\* Nothing is wanted at first, and nothing runs.
LEMMA InitSeen == Init => SupervisorInv /\ Promise!Init
<1> SUFFICES ASSUME Init PROVE SupervisorInv /\ Promise!Init
  OBVIOUS
<1>1. /\ \A n \in Name : procs[n] = Absent /\ disk[n] = Absent
      /\ \A p \in Pid : children[p] = Unborn /\ p > lastPid
  BY BoundAssumption DEF Init, Pid
<1>2. OrphanInv
  BY InitOrphan
<1>3. SupervisorInv
  BY <1>1, <1>2 DEF SupervisorInv, BornOK, Recorded, TrackedWanted, Absent, Unborn
<1>4. Promise!Init
  BY <1>1 DEF Promise!Init, Absent, Unborn
<1> QED
  BY <1>3, <1>4

\* Every step of the manager is a step of the supervisor, or is not to be seen.
LEMMA StepSeen ==
    ASSUME NoFaults
    PROVE  SupervisorInv /\ [Next]_vars => SupervisorInv' /\ [Promise!Next]_Promise!vars
<1> SUFFICES ASSUME SupervisorInv, [Next]_vars
             PROVE  SupervisorInv' /\ [Promise!Next]_Promise!vars
  OBVIOUS
<1>1. OrphanInv'
  BY OrphanStep DEF SupervisorInv
<1>2. TypeOK /\ \A n \in Name : procs[n] \in Process
  BY DEF SupervisorInv, OrphanInv, ManagerInv, TypeOK
<1>3. ASSUME NEW n \in Name, Start(n) \/ Restart(n) \/ Reload(n)
      PROVE  SupervisorInv' /\ Promise!Next
  BY <1>1, <1>3, StartSeen, RestartSeen, ReloadSeen
<1>4. ASSUME NEW n \in Name, Stop(n)
      PROVE  SupervisorInv' /\ Promise!Next
  <2> DEFINE r == StoppedProcess(procs[n])
             S == {procs[n].pid}
  <2>1. r.pid = None /\ r.desired = "stopped" /\ r.restarts = procs[n].restarts
    BY <1>2 DEF StoppedProcess, Process
  <2>2. procs' = [procs EXCEPT ![n] = r] /\ Save /\ lastPid' = lastPid
    BY <1>4 DEF Stop
  <2>3. PICK kept \in Refusals(S) : children' = Terminated(children, S \ kept)
    <3>1. S \ {} = S /\ {} \in Refusals(S)
      BY DEF NoFaults, Refusals
    <3> QED
      BY <1>4, <3>1 DEF Stop
  <2> HIDE DEF r, S
  <2> QED
    BY <1>1, <2>1, <2>2, <2>3, EndSeen
<1>5. ASSUME NEW n \in Name, Delete(n)
      PROVE  SupervisorInv' /\ Promise!Next
  <2> DEFINE S == {procs[n].pid} \ {None}
  <2>1. Absent.pid = None /\ Absent.desired = "stopped" /\ Absent.restarts = 0
    BY DEF Absent
  <2>2. procs' = [procs EXCEPT ![n] = Absent] /\ Save /\ lastPid' = lastPid
    BY <1>5 DEF Delete
  <2>3. PICK kept \in Refusals(S) : children' = Terminated(children, S)
    <3>1. PICK kept \in Refusals(S) : children' = Terminated(children, {procs[n].pid} \ kept)
      BY <1>5 DEF Delete
    <3>2. kept = {}
      BY <3>1, NoRefusals
    <3>3. Terminated(children, {procs[n].pid} \ {}) = Terminated(children, S)
      BY DEF Terminated, Pid, None
    <3> QED
      BY <3>1, <3>2, <3>3
  <2>4. children' = Terminated(children, S \ kept)
    <3>1. kept = {} /\ S \ {} = S
      BY NoRefusals
    <3> QED
      BY <2>3, <3>1
  <2> HIDE DEF S
  <2> QED
    BY <1>1, <2>1, <2>2, <2>4, EndSeen
<1>6. CASE StopAll \/ DeleteAll \/ Shutdown \/ Crash \/ RecoverTable \/ RecoverDone
  BY <1>1, <1>6, DaemonSeen
<1>7. ASSUME NEW p \in Pid, HandleExit(p) \/ ChildExits(p)
      PROVE  SupervisorInv' /\ Promise!Next
  BY <1>1, <1>7, ExitSeen, ChildExitSeen
<1>8. ASSUME NEW n \in Name, ScheduledRestart(n) \/ RecoverProcess(n)
      PROVE  SupervisorInv' /\ Promise!Next
  BY <1>1, <1>8, ScheduledSeen, RecoverSeen
<1>9. ASSUME NEW n \in Name, CronRestart(n) \/ WatchRestart(n)
      PROVE  SupervisorInv' /\ Promise!Next
  BY <1>1, <1>9, CountedSeen DEF CronRestart, WatchRestart
<1>10. ASSUME NEW n \in Name, FailedCheck(n)
       PROVE  SupervisorInv' /\ Promise!Next
  <2>1. CASE GiveUp(n)
    <3> DEFINE r == [procs[n] EXCEPT !.status = "errored", !.desired = "stopped", !.pid = None]
               S == {procs[n].pid}
    <3>1. r.pid = None /\ r.desired = "stopped" /\ r.restarts = procs[n].restarts
      BY <1>2 DEF Process
    <3>2. procs' = [procs EXCEPT ![n] = r] /\ Save /\ lastPid' = lastPid
      BY <2>1 DEF GiveUp
    <3>3. PICK kept \in Refusals(S) : children' = Terminated(children, S \ kept)
      BY <2>1 DEF GiveUp
    <3> HIDE DEF r, S
    <3> QED
      BY <1>1, <3>1, <3>2, <3>3, EndSeen
  <2>2. Watchable(n)
    BY <1>10 DEF FailedCheck
  <2> QED
    BY <1>1, <1>10, <2>1, <2>2, CountedSeen DEF FailedCheck
<1>11. CASE UNCHANGED vars
  <2>1. UNCHANGED <<procs, disk, children, lastPid>>
    BY <1>11 DEF vars, memory, os, file
  <2>2. SupervisorInv'
    BY <1>1, <2>1 DEF SupervisorInv, BornOK, Recorded, TrackedWanted
  <2>3. UNCHANGED Promise!vars
    BY <2>1 DEF Promise!vars
  <2> QED
    BY <2>2, <2>3
<1> QED
  BY <1>3, <1>4, <1>5, <1>6, <1>7, <1>8, <1>9, <1>10, <1>11
     DEF Next, Commands, Background

\* When no save, no signal and no identity check fails, all that the services see of the
\* manager is what a Supervisor does: one instance each, renewed in one step, and an
\* unwanted one given an instance by a command only, across crashes of the daemon too.
THEOREM ImplementsSupervisor ==
    ASSUME NoFaults PROVE Spec => Supervised
<1>1. Init => SupervisorInv /\ Promise!Init
  BY InitSeen
<1>2. SupervisorInv /\ [Next]_vars => SupervisorInv' /\ [Promise!Next]_Promise!vars
  BY StepSeen
<1> QED
  BY <1>1, <1>2, PTL DEF Spec, Supervised, Promise!Spec
=============================================================================

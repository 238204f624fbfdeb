----------------------------- MODULE WatchProofs -----------------------------
(***************************************************************************)
(* Proofs about Watch, for every watch_delay_secs, every maintenance       *)
(* interval and any number of edits: type correctness, and that an edit    *)
(* causes at most one watch restart.                                       *)
(***************************************************************************)
EXTENDS Watch, TLAPS

\* A fingerprint that is to cause a restart is of files newer than those of every
\* watch restart so far.
Unpaid(v) == v # NoVersion => restarts < v /\ v <= tree

\* The inductive invariant.  The baseline is at least the fingerprint of the last
\* watch restart, and fingerprints that differ from it are newer.
WatchInv ==
    /\ TypeOK
    /\ restarts <= tree
    /\ baseline # NoVersion => restarts <= baseline /\ baseline <= tree
    /\ Unpaid(pending.fingerprint)
    /\ Unpaid(step.fingerprint)
    /\ step.fingerprint # NoVersion => step.at \in {"restarting", "readying"}

\* The clock stays within the interval.
LEMMA ClockType ==
    ASSUME NEW c \in 0 .. Period - 1
    PROVE  (c + 1) % Period \in 0 .. Period - 1
  BY TimeAssumption

\* The fields of the records that the actions build.
LEMMA RecordFields ==
    /\ NoRestart.due = 0 /\ NoRestart.fingerprint = NoVersion
    /\ Idle.at = "idle" /\ Idle.fingerprint = NoVersion
    /\ \A at, v : Step(at, v).at = at /\ Step(at, v).fingerprint = v
  BY DEF NoRestart, Idle, Step

\* A pending restart keeps its type as time passes.
LEMMA SoonerType ==
    ASSUME NEW d \in Delays,
           NEW p \in [due : 0 .. d, fingerprint : Version] \cup {NoRestart}
    PROVE  /\ Sooner(p) \in [due : 0 .. d, fingerprint : Version] \cup {NoRestart}
           /\ Sooner(p).fingerprint = p.fingerprint
<1>1. CASE p = NoRestart
  BY <1>1 DEF Sooner, NoRestart
<1>2. CASE p \in [due : 0 .. d, fingerprint : Version]
  BY <1>2, TimeAssumption DEF Sooner
<1> QED
  BY <1>1, <1>2

\* The invariant holds at first.
LEMMA WatchInit == Init => WatchInv
<1> SUFFICES ASSUME Init
             PROVE  WatchInv
  OBVIOUS
<1>1. tree \in Version /\ started \in Version /\ clock \in 0 .. Period - 1 /\ busy \in 0 .. Work
  BY EditsAssumption, TimeAssumption DEF Init, Version
<1>2. step \in [at : {"idle", "scanning", "restarting", "readying", "serving"},
               fingerprint : Version \cup {NoVersion}]
  BY DEF Init, Idle, Step
<1>3. TypeOK
  BY <1>1, <1>2 DEF Init, TypeOK
<1>4. pending.fingerprint = NoVersion /\ step.fingerprint = NoVersion
  BY RecordFields DEF Init
<1> QED
  BY <1>3, <1>4 DEF Init, WatchInv, Unpaid

\* Every step keeps the invariant.
LEMMA WatchStep == WatchInv /\ [Next]_vars => WatchInv'
<1> SUFFICES ASSUME WatchInv, [Next]_vars
             PROVE  WatchInv'
  OBVIOUS
<1> USE EditsAssumption, TimeAssumption, RecordFields
<1>1. CASE Edit
  BY <1>1 DEF Edit, WatchInv, TypeOK, Unpaid, Version, NoVersion, process, time, loop
<1>2. CASE Advance
  <2>1. clock' \in 0 .. Period - 1 /\ tickDue' \in BOOLEAN
    BY <1>2, ClockType DEF Advance, WatchInv, TypeOK
  <2>2. pending' \in [due : 0 .. delay, fingerprint : Version] \cup {NoRestart}
        /\ pending'.fingerprint = pending.fingerprint
    BY <1>2, SoonerType DEF Advance, WatchInv, TypeOK
  <2>3. busy' \in 0 .. Work
    BY <1>2 DEF Advance, WatchInv, TypeOK
  <2> QED
    BY <1>2, <2>1, <2>2, <2>3 DEF Advance, WatchInv, TypeOK, Unpaid
<1>3. CASE Tick
  <2>1. /\ pending' \in {pending, NoRestart}
        /\ \/ step' = Step("scanning", NoVersion)
           \/ step' = Step("restarting", pending.fingerprint)
        /\ busy' = 0
    BY <1>3 DEF Tick, Goto
  <2>2. pending.fingerprint \in Version \cup {NoVersion}
    BY DEF WatchInv, TypeOK
  <2>3. step' \in [at : {"idle", "scanning", "restarting", "readying", "serving"},
                  fingerprint : Version \cup {NoVersion}]
    BY <2>1, <2>2 DEF Step
  <2>4. /\ step'.fingerprint \in {NoVersion, pending.fingerprint}
        /\ step'.fingerprint # NoVersion => step'.at = "restarting"
    BY <2>1, <2>2
  <2>5. /\ tickDue' = FALSE /\ UNCHANGED <<delay, tree, running, started, baseline, restarts, clock>>
        /\ pending' \in {pending, NoRestart} /\ busy' \in 0 .. Work
    BY <1>3, <2>1 DEF Tick
  <2>6. TypeOK'
    BY ONLY WatchInv, <2>3, <2>5 DEF WatchInv, TypeOK
  <2> QED
    BY <2>4, <2>5, <2>6 DEF WatchInv, Unpaid
<1>4. CASE Scan
  <2>1. CASE Changed /\ delay = 0
    <3>1. restarts < tree
      BY <2>1 DEF Changed, WatchInv, TypeOK, Version, NoVersion
    <3> QED
      BY <1>4, <2>1, <3>1 DEF Scan, Goto, WatchInv, TypeOK, Unpaid, Step, Version, time
  <2>2. CASE ~(Changed /\ delay = 0)
    <3>1. CASE Changed
      <4>1. restarts < tree
        BY <3>1 DEF Changed, WatchInv, TypeOK, Version, NoVersion
      <4>2. pending' = [due |-> delay, fingerprint |-> tree] /\ baseline' = baseline
        BY <1>4, <2>2, <3>1 DEF Scan, Changed
      <4> QED
        BY <1>4, <2>2, <4>1, <4>2
           DEF Scan, Goto, WatchInv, TypeOK, Unpaid, Idle, Step, Version, time
    <3>2. CASE ~Changed
      <4>1. pending' \in {pending, NoRestart} /\ baseline' \in {baseline, tree}
        BY <1>4, <2>2, <3>2 DEF Scan
      <4> QED
        BY <1>4, <2>2, <4>1
           DEF Scan, Goto, WatchInv, TypeOK, Unpaid, Idle, Step, Version, NoVersion, time
    <3> QED
      BY <3>1, <3>2
  <2> QED
    BY <2>1, <2>2
<1>5. CASE ScanFails
  BY <1>5 DEF ScanFails, Goto, WatchInv, TypeOK, Unpaid, Idle, Step, process, time
<1>6. CASE Fork
  BY <1>6 DEF Fork, Goto, WatchInv, TypeOK, Unpaid, NoVersion, time
<1>7. CASE Ready
  <2>1. step' \in {Idle, Step("scanning", NoVersion)} /\ busy' = 0
    BY <1>7 DEF Ready, Goto, After
  <2>2. CASE step.fingerprint = NoVersion
    BY <1>7, <2>1, <2>2
       DEF Ready, NewBaseline, WatchInv, TypeOK, Unpaid, Version, NoVersion, Idle, Step, time
  <2>3. CASE step.fingerprint # NoVersion
    BY <1>7, <2>1, <2>3
       DEF Ready, NewBaseline, WatchInv, TypeOK, Unpaid, Version, NoVersion, Idle, Step, time
  <2> QED
    BY <2>2, <2>3
<1>8. CASE NotReady
  <2>1. step' \in {Idle, Step("scanning", NoVersion)} /\ busy' = 0
    BY <1>8 DEF NotReady, Goto, After
  <2>2. step' \in [at : {"idle", "scanning", "restarting", "readying", "serving"},
                  fingerprint : Version \cup {NoVersion}]
    BY <2>1 DEF Idle, Step
  <2>3. step'.fingerprint = NoVersion
    BY <2>1
  <2>4. /\ running' = FALSE /\ baseline' = NoVersion /\ pending' = NoRestart
        /\ UNCHANGED <<delay, tree, started, restarts, clock, tickDue>> /\ busy' \in 0 .. Work
    BY <1>8, <2>1 DEF NotReady, time
  <2>5. TypeOK'
    BY ONLY WatchInv, <2>2, <2>4 DEF WatchInv, TypeOK
  <2> QED
    BY <2>3, <2>4, <2>5 DEF WatchInv, Unpaid
<1>9. CASE Spawn
  BY <1>9 DEF Spawn, Goto, WatchInv, TypeOK, Unpaid, Step, Version, NoVersion, time
<1>10. CASE Stops
  BY <1>10 DEF Stops, WatchInv, TypeOK, Unpaid, NoVersion, time, loop
<1>11. CASE Serve
  BY <1>11 DEF Serve, Goto, WatchInv, TypeOK, Unpaid, Step, process, time
<1>12. CASE Served
  BY <1>12 DEF Served, Goto, WatchInv, TypeOK, Unpaid, Idle, Step, process, time
<1>13. CASE UNCHANGED vars
  BY <1>13 DEF vars, process, time, loop, WatchInv, TypeOK, Unpaid
<1> QED
  BY <1>1, <1>2, <1>3, <1>4, <1>5, <1>6, <1>7, <1>8, <1>9, <1>10, <1>11, <1>12, <1>13
     DEF Next

\* The variables keep their types.
THEOREM WatchTypeCorrect == Spec => []TypeOK
<1>1. WatchInv => TypeOK
  BY DEF WatchInv
<1> QED
  BY <1>1, WatchInit, WatchStep, PTL DEF Spec

\* Whatever is edited, and whenever, a process is restarted by the watch at most once
\* for each edit.
THEOREM RestartsPaid == Spec => []RestartsPaidByEdits
<1>1. WatchInv => RestartsPaidByEdits
  BY DEF WatchInv, RestartsPaidByEdits
<1> QED
  BY <1>1, WatchInit, WatchStep, PTL DEF Spec

=============================================================================

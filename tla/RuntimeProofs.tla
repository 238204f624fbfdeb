---------------------------- MODULE RuntimeProofs ----------------------------
(***************************************************************************)
(* Proofs about Runtime, for any number of entries, any policies, budgets  *)
(* and crash-loop limits, as PID 1 or not: type correctness, that every    *)
(* entry stays attended, and that a supervisor that exits after it started *)
(* leaves no child running.                                                *)
(***************************************************************************)
EXTENDS Runtime, TLAPS

\* While starting, the entries before the loop's have a child and the others nothing.
StartedInOrder ==
    phase = "starting" =>
        \A i \in Entry : /\ next[i] = "none"
                         /\ IF i < at THEN held[i] /\ child[i] # "none"
                                      ELSE ~held[i] /\ child[i] = "none"

\* While stopping, a child that is still alive is held by an entry the loop has yet to
\* reach.
StoppedInOrder ==
    phase = "stopping" =>
        \A i \in Entry : child[i] = "alive" => held[i] /\ at <= i

\* The inductive invariant.
RuntimeInv ==
    /\ TypeOK
    /\ EachAttended
    /\ StoppedTogether
    /\ StartedInOrder
    /\ StoppedInOrder

\* Entering the shutdown loop is safe wherever an entry's child is held.
LEMMA StopAllSafe ==
    ASSUME TypeOK', StopAll, \A i \in Entry : child'[i] = "alive" => held'[i]
    PROVE  RuntimeInv'
  BY EntriesAssumption
     DEF RuntimeInv, StopAll, EachAttended, StoppedTogether, StartedInOrder, StoppedInOrder, Entry

\* The invariant holds at first.
LEMMA RuntimeInit == Init => RuntimeInv
<1> SUFFICES ASSUME Init PROVE RuntimeInv
  OBVIOUS
<1>1. TypeOK
  BY EntriesAssumption, LimitAssumption DEF Init, TypeOK, Entry
<1>2. EachAttended /\ StoppedTogether /\ StoppedInOrder
  BY DEF Init, EachAttended, StoppedTogether, StoppedInOrder
<1>3. StartedInOrder
  BY EntriesAssumption DEF Init, StartedInOrder, Entry
<1> QED
  BY <1>1, <1>2, <1>3 DEF RuntimeInv

\* What happens around the supervisor keeps the invariant.
LEMMA SurroundingsKeep ==
    ASSUME RuntimeInv,
           SignalArrives \/ \E i \in Entry : ChildExits(i) \/ DelayPasses(i)
    PROVE  RuntimeInv'
<1>1. CASE SignalArrives
  <2>1. UNCHANGED <<at, child, held, count, window, next>>
        /\ signal = "none" /\ signal' \in {"early", "pending"}
        /\ (phase' = phase \/ (phase' = "gone" /\ phase = "starting"
                                 /\ signal' = "early" /\ ~InitProcess))
        /\ phase # "gone"
    BY <1>1 DEF SignalArrives, entries
  <2>2. TypeOK'
    BY <2>1 DEF RuntimeInv, TypeOK
  <2>3. EachAttended' /\ StoppedTogether' /\ StartedInOrder' /\ StoppedInOrder'
    BY <2>1 DEF RuntimeInv, EachAttended, StoppedTogether, StartedInOrder, StoppedInOrder
  <2> QED
    BY <2>2, <2>3 DEF RuntimeInv
<1>2. ASSUME NEW i \in Entry, ChildExits(i)
      PROVE  RuntimeInv'
  <2>1. /\ child[i] \in {"alive", "doomed"} /\ child'[i] = "dead"
        /\ \A j \in Entry \ {i} : child'[j] = child[j]
        /\ UNCHANGED <<phase, at, held, count, window, next, signal>>
    BY <1>2 DEF ChildExits, RuntimeInv, TypeOK
  <2>2. TypeOK'
    BY <1>2 DEF ChildExits, RuntimeInv, TypeOK
  <2>3. EachAttended' /\ StoppedTogether' /\ StartedInOrder' /\ StoppedInOrder'
    BY <2>1 DEF RuntimeInv, EachAttended, StoppedTogether, StartedInOrder, StoppedInOrder
  <2> QED
    BY <2>2, <2>3 DEF RuntimeInv
<1>3. ASSUME NEW i \in Entry, DelayPasses(i)
      PROVE  RuntimeInv'
  <2>1. /\ next[i] # "none" /\ next'[i] # "none"
        /\ \A j \in Entry \ {i} : next'[j] = next[j]
        /\ UNCHANGED <<phase, at, child, held, count, window, signal>>
    BY <1>3 DEF DelayPasses, RuntimeInv, TypeOK
  <2>2. TypeOK'
    BY <1>3 DEF DelayPasses, RuntimeInv, TypeOK
  <2>3. EachAttended' /\ StoppedTogether' /\ StartedInOrder' /\ StoppedInOrder'
    BY <2>1 DEF RuntimeInv, EachAttended, StoppedTogether, StartedInOrder, StoppedInOrder
  <2> QED
    BY <2>2, <2>3 DEF RuntimeInv
<1> QED
  BY <1>1, <1>2, <1>3

\* A pass over the entries keeps each of them attended, or stops them all.
LEMMA CheckEntryKeeps ==
    ASSUME RuntimeInv, CheckEntry
    PROVE  RuntimeInv'
<1>1. /\ TypeOK /\ EachAttended /\ phase = "checking" /\ at \in Entry
      /\ UNCHANGED <<count, window, signal>>
  BY DEF CheckEntry, RuntimeInv, TypeOK
<1>2. CASE ~Due(at)
  <2>1. phase' = "reaping" /\ UNCHANGED <<at, child, held, next>>
    BY <1>2 DEF CheckEntry
  <2> QED
    BY <1>1, <2>1
       DEF RuntimeInv, TypeOK, EachAttended, StoppedTogether, StartedInOrder, StoppedInOrder
<1>3. CASE Due(at) /\ Spawned(at) /\ phase' = "reaping" /\ UNCHANGED at
  <2>1. next' = [next EXCEPT ![at] = "none"]
    BY <1>3 DEF CheckEntry
  <2>2. TypeOK'
    BY <1>1, <1>3, <2>1 DEF TypeOK, Spawned
  <2>3. EachAttended'
    BY <1>1, <1>3, <2>1 DEF TypeOK, Spawned, EachAttended
  <2> QED
    BY <1>3, <2>2, <2>3 DEF RuntimeInv, StoppedTogether, StartedInOrder, StoppedInOrder
<1>4. CASE Due(at) /\ StopAll /\ UNCHANGED <<child, held>>
  <2>1. next' = [next EXCEPT ![at] = "none"]
    BY <1>4 DEF CheckEntry
  <2>2. TypeOK'
    BY <1>1, <1>4, <2>1, EntriesAssumption DEF TypeOK, StopAll
  <2>3. \A i \in Entry : child'[i] = "alive" => held'[i]
    BY <1>1, <1>4 DEF EachAttended
  <2> QED
    BY <1>4, <2>2, <2>3, StopAllSafe
<1> QED
  BY <1>2, <1>3, <1>4 DEF CheckEntry

\* An exit is followed by a restart or by the end of them all.
LEMMA ReapEntryKeeps ==
    ASSUME RuntimeInv, ReapEntry
    PROVE  RuntimeInv'
<1>1. /\ TypeOK /\ EachAttended /\ phase = "reaping" /\ at \in Entry
      /\ UNCHANGED signal
  BY DEF ReapEntry, RuntimeInv, TypeOK
<1>2. \A i \in Entry : child[i] = "alive" => held[i]
  BY <1>1 DEF EachAttended
<1>n. ASSUME NextEntry
      PROVE  /\ phase' \in {"polling", "checking"} /\ at' \in 1 .. Entries + 1
             /\ phase' = "checking" => at' \in Entry
  BY <1>1, <1>n, EntriesAssumption DEF NextEntry, Entry
<1>3. CASE NextEntry /\ UNCHANGED entries
  <2>1. TypeOK'
    BY <1>1, <1>3, <1>n DEF TypeOK, entries
  <2> QED
    BY <1>1, <1>3, <1>n, <2>1
       DEF RuntimeInv, EachAttended, StoppedTogether, StartedInOrder, StoppedInOrder, entries
<1>4. CASE StopAll /\ UNCHANGED entries
  <2>1. TypeOK'
    BY <1>1, <1>4, EntriesAssumption DEF TypeOK, StopAll, entries
  <2> QED
    BY <1>2, <1>4, <2>1, StopAllSafe DEF entries
<1>5. ASSUME held[at], child[at] = "dead",
             child' = [child EXCEPT ![at] = "none"],
             held' = [held EXCEPT ![at] = FALSE],
             NEW success \in BOOLEAN, NEW inWindow \in 0 .. window[at],
             IF MayRestart(at, success, inWindow)
             THEN /\ count' = [count EXCEPT ![at] = @ + 1]
                  /\ window' = [window EXCEPT ![at] = IF CrashLimit = 0 THEN @
                                                      ELSE inWindow + 1]
                  /\ next' = Schedule(at)
                  /\ NextEntry
             ELSE StopAll /\ UNCHANGED <<count, window, next>>
      PROVE  RuntimeInv'
  <2>1. CASE MayRestart(at, success, inWindow)
    <3>1. count[at] + 1 \in 0 .. MaxRestarts
      BY <1>1, <2>1, LimitAssumption DEF TypeOK, MayRestart
    <3>2. (IF CrashLimit = 0 THEN window[at] ELSE inWindow + 1) \in Nat
      BY <1>1, <1>5 DEF TypeOK
    <3>3. next' = [next EXCEPT ![at] = "waiting"] /\ NextEntry
      BY <1>5, <2>1 DEF Schedule
    <3>4. TypeOK'
      BY <1>1, <1>5, <2>1, <3>1, <3>2, <3>3, <1>n DEF TypeOK
    <3>5. EachAttended'
      BY <1>1, <1>5, <3>3 DEF TypeOK, EachAttended
    <3> QED
      BY <3>3, <3>4, <3>5, <1>n
         DEF RuntimeInv, StoppedTogether, StartedInOrder, StoppedInOrder
  <2>2. CASE ~MayRestart(at, success, inWindow)
    <3>1. TypeOK'
      BY <1>1, <1>5, <2>2, EntriesAssumption DEF TypeOK, StopAll
    <3>2. \A i \in Entry : child'[i] = "alive" => held'[i]
      BY <1>1, <1>2, <1>5 DEF TypeOK
    <3> QED
      BY <1>5, <2>2, <3>1, <3>2, StopAllSafe
  <2> QED
    BY <2>1, <2>2
<1> QED
  BY <1>3, <1>4, <1>5 DEF ReapEntry

\* Stopping an entry leaves nothing of it alive.
LEMMA StopEntryKeeps ==
    ASSUME RuntimeInv, StopEntry
    PROVE  RuntimeInv'
<1>1. /\ TypeOK /\ StoppedInOrder /\ phase = "stopping" /\ phase' = phase
      /\ at \in Entry /\ at' = at + 1 /\ UNCHANGED <<count, window, signal>>
  BY EntriesAssumption DEF StopEntry, RuntimeInv, TypeOK, Entry
<1>2. /\ child'[at] # "alive"
      /\ \A i \in Entry \ {at} : child'[i] = child[i] /\ held'[i] = held[i]
  BY <1>1 DEF StopEntry, Killed, TypeOK, StoppedInOrder
<1>3. TypeOK'
  BY <1>1, EntriesAssumption DEF StopEntry, Killed, TypeOK, Entry
<1>4. StoppedInOrder'
  BY <1>1, <1>2 DEF StoppedInOrder, Entry
<1> QED
  BY <1>1, <1>3, <1>4 DEF RuntimeInv, EachAttended, StoppedTogether, StartedInOrder

\* Every step keeps the invariant.
LEMMA RuntimeStep == RuntimeInv /\ [Next]_vars => RuntimeInv'
<1> SUFFICES ASSUME RuntimeInv, [Next]_vars PROVE RuntimeInv'
  OBVIOUS
<1>1. TypeOK
  BY DEF RuntimeInv
<1>2. CASE StartEntry
  <2>1. /\ phase = "starting" /\ at \in Entry /\ UNCHANGED <<count, window, next, signal>>
    BY <1>1, <1>2, EntriesAssumption DEF StartEntry, TypeOK, Entry
  <2>2. CASE Spawned(at) /\ at' = at + 1 /\ UNCHANGED phase
    <3>1. TypeOK'
      BY <1>1, <2>1, <2>2, EntriesAssumption DEF Spawned, TypeOK, Entry
    <3>2. StartedInOrder'
      BY <1>1, <2>1, <2>2 DEF RuntimeInv, Spawned, TypeOK, StartedInOrder, Entry
    <3> QED
      BY <2>1, <2>2, <3>1, <3>2 DEF RuntimeInv, EachAttended, StoppedTogether, StoppedInOrder
  <2>3. CASE phase' = "gone" /\ UNCHANGED <<at, child, held>>
    <3>1. at # Entries + 1
      BY <2>1, EntriesAssumption DEF Entry
    <3> QED
      BY <1>1, <2>1, <2>3, <3>1
         DEF RuntimeInv, TypeOK, EachAttended, StoppedTogether, StartedInOrder, StoppedInOrder
  <2> QED
    BY <1>2, <2>2, <2>3 DEF StartEntry
<1>3. CASE Started
  <2>1. phase = "starting" /\ at = Entries + 1 /\ phase' = "polling"
        /\ UNCHANGED <<at, child, held, count, window, next, signal>>
    BY <1>3 DEF Started, entries
  <2>2. EachAttended'
    BY <2>1, EntriesAssumption DEF RuntimeInv, StartedInOrder, EachAttended, Entry
  <2> QED
    BY <1>1, <2>1, <2>2 DEF RuntimeInv, TypeOK, StoppedTogether, StartedInOrder, StoppedInOrder
<1>4. CASE TakeSignal
  <2>1. StopAll /\ UNCHANGED <<child, held, count, window, next, signal>> /\ phase = "polling"
    BY <1>4 DEF TakeSignal, entries
  <2>2. TypeOK'
    BY <1>1, <2>1, EntriesAssumption DEF TypeOK, StopAll
  <2>3. \A i \in Entry : child'[i] = "alive" => held'[i]
    BY <2>1 DEF RuntimeInv, EachAttended
  <2> QED
    BY <2>1, <2>2, <2>3, StopAllSafe
<1>5. CASE Poll
  <2>1. phase = "polling" /\ phase' = "checking" /\ at' = 1
        /\ UNCHANGED <<child, held, count, window, next, signal>>
    BY <1>5 DEF Poll, entries
  <2>2. TypeOK'
    BY <1>1, <2>1, EntriesAssumption DEF TypeOK, Entry
  <2> QED
    BY <2>1, <2>2
       DEF RuntimeInv, EachAttended, StoppedTogether, StartedInOrder, StoppedInOrder
<1>6. CASE Exit
  <2>1. phase = "stopping" /\ at = Entries + 1 /\ phase' = "gone"
        /\ UNCHANGED <<at, child, held, count, window, next, signal>>
    BY <1>6 DEF Exit, entries
  <2>2. \A i \in Entry : child[i] # "alive"
    BY <2>1, EntriesAssumption DEF RuntimeInv, StoppedInOrder, Entry
  <2> QED
    BY <1>1, <2>1, <2>2
       DEF RuntimeInv, TypeOK, EachAttended, StoppedTogether, StartedInOrder, StoppedInOrder
<1>7. CASE UNCHANGED vars
  BY <1>1, <1>7 DEF vars, entries, RuntimeInv, TypeOK, EachAttended, StoppedTogether,
                    StartedInOrder, StoppedInOrder
<1> QED
  BY <1>2, <1>3, <1>4, <1>5, <1>6, <1>7, SurroundingsKeep, CheckEntryKeeps, ReapEntryKeeps,
     StopEntryKeeps DEF Next, Proceed

\* The invariant holds in every reachable state.
THEOREM RuntimeInvariant == Spec => []RuntimeInv
  BY RuntimeInit, RuntimeStep, PTL DEF Spec

\* Every state of the supervisor is well-typed, and no budget is overrun.
THEOREM RuntimeTypeCorrect == Spec => []TypeOK
<1>1. RuntimeInv => TypeOK
  BY DEF RuntimeInv
<1> QED
  BY <1>1, RuntimeInvariant, PTL

\* While the supervisor polls, no entry is dropped in silence and none has two children.
THEOREM EntriesAttended == Spec => []EachAttended
<1>1. RuntimeInv => EachAttended
  BY DEF RuntimeInv
<1> QED
  BY <1>1, RuntimeInvariant, PTL

\* A supervisor that exits once it has started leaves no child running.
THEOREM NoneLeftRunning == Spec => []StoppedTogether
<1>1. RuntimeInv => StoppedTogether
  BY DEF RuntimeInv
<1> QED
  BY <1>1, RuntimeInvariant, PTL
=============================================================================

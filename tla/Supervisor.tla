----------------------------- MODULE Supervisor -----------------------------
(***************************************************************************)
(* What a process manager promises of the services it runs, without its    *)
(* table, state file, exit events, timers and recovery: a service has at   *)
(* most one instance, a new one takes the place of the old in one step,    *)
(* and an instance that has ended never comes back.  A service that is not *)
(* wanted is given an instance by a command only, with a fresh restart     *)
(* budget; otherwise what was used of the budget only grows.               *)
(***************************************************************************)
EXTENDS Naturals

CONSTANTS
    Name,       \* the services
    Id          \* the instances there may ever be

VARIABLES
    wanted,     \* the services that are meant to run
    used,       \* the restarts counted against each service's budget
    instances,  \* the instances of each service that run
    born        \* every instance there has been

vars == <<wanted, used, instances, born>>

Set(f, n, x) == [f EXCEPT ![n] = x]

\* A command starts or restarts n.
Begin(n, i) ==
    /\ i \notin born
    /\ born' = born \cup {i}
    /\ wanted' = wanted \cup {n}
    /\ used' = Set(used, n, 0)
    /\ instances' = Set(instances, n, {i})

\* A wanted service is given a new instance: by a reload, a restart that is counted, or
\* when the manager itself came back.
Replace(n, i) ==
    /\ i \notin born
    /\ n \in wanted
    /\ born' = born \cup {i}
    /\ \E u \in {used[n], used[n] + 1} : used' = Set(used, n, u)
    /\ instances' = Set(instances, n, {i})
    /\ UNCHANGED wanted

\* Instances end, services are given up, stopped or forgotten, and restarts are announced
\* or fail.
Wane ==
    /\ born \subseteq born' /\ born' \subseteq Id
    /\ wanted' \subseteq wanted
    /\ used' \in [Name -> Nat]
    /\ instances' \in [Name -> SUBSET Id]
    /\ \A n \in Name :
        /\ instances'[n] \subseteq instances[n]
        /\ \/ used'[n] = used[n]
           \/ used'[n] = used[n] + 1 /\ n \in wanted
           \/ used'[n] = 0 /\ n \notin wanted'

Init ==
    /\ wanted = {}
    /\ used = [n \in Name |-> 0]
    /\ instances = [n \in Name |-> {}]
    /\ born = {}

Next == Wane \/ \E n \in Name, i \in Id : Begin(n, i) \/ Replace(n, i)

Spec == Init /\ [][Next]_vars
=============================================================================

------------------------------- MODULE Apply -------------------------------
(***************************************************************************)
(* src/commands/apply.rs, export.rs and import.rs: clients that bring the  *)
(* daemon's table to what a configuration file asks for.  A client loads   *)
(* the file, lists the table once, plans from that listing, and sends one  *)
(* request after another while the table goes on changing: processes exit, *)
(* starts fail, and another client applies the same file.                  *)
(*                                                                         *)
(* A request is one step: the daemon's loop serves them one at a time.     *)
(* The faults of the daemon's own state file are ProcessManager's subject. *)
(***************************************************************************)
EXTENDS Services

CONSTANTS Clients,
          Sources,      \* configuration files, each with its profile and directory
          Options,      \* what a client is started with: [here, only, prune]
          Tables,       \* the tables the daemon may have to begin with
          Exported,     \* bound: the services somebody exports
          MaxMishaps    \* bound: starts that fail and processes that exit

VARIABLES src,       \* the file
          procs,     \* the daemon's table: name |-> [conf, up]
          client,    \* client |-> [pc, opt, plan, failed]
          fresh,     \* clients whose plan nobody else's change has overtaken
          bundle,    \* the last bundle written: [of, spec], or NONE
          mishaps    \* how many of those there have been

vars == <<src, procs, client, fresh, bundle, mishaps>>

-----------------------------------------------------------------------------
(* The directory of the file as the client named it: relative to where the *)
(* client runs, unless it was named from the root.                         *)

BaseDir(s, here) ==
    IF s.fromRoot THEN s.dir ELSE SubSeq(s.dir, Len(here) + 1, Len(s.dir))

Readable(s) ==
    IF s.toml THEN Loads(s.file, s.profile) ELSE EcoLoads(s.file, s.profile)

SpecsOf(s, here) ==
    IF s.toml THEN Load(s.file, s.profile, BaseDir(s, here))
    ELSE EcoLoad(s.file, s.profile, BaseDir(s, here))

\* --only; an empty list selects everything.
Selected(s, opt) ==
    LET all == SpecsOf(s, opt.here)
    IN  Only(all, {i \in DOMAIN all : opt.only = {} \/ all[i].name \in opt.only})

Desired(s, opt) == Expanded(Ordered(Selected(s, opt)))
NamesOf(specs) == {specs[i].name : i \in DOMAIN specs}

\* apply wants a file that can be read, with names and no name twice.
Planable(s, opt) == Readable(s) /\ Expandable(Ordered(Selected(s, opt)))

\* A number of a file is a natural one (an order may be negative), or is not given.
NumbersIn(layer, fields) == \A f \in fields : layer[f] \in Nat \cup {NONE}
OrdersIn(layer, fields)  == \A f \in fields : layer[f] \in Int \cup {NONE}
NumbersOf(s) ==
    IF s.toml
    THEN {"stop_timeout_secs", "cluster_instances", "ready_timeout_secs", "instances"}
    ELSE {"kill_timeout", "stop_timeout", "cluster_instances", "instances", "listen_timeout"}
OrdersOf(s) == IF s.toml THEN {"start_order"} ELSE {"priority", "start_order"}
Numbered(layer, s) == NumbersIn(layer, NumbersOf(s)) /\ OrdersIn(layer, OrdersOf(s))

\* What the daemon keeps of a service: the timeouts and the count of a cluster are not zero.
Normal(conf) ==
    /\ conf = [f \in DOMAIN conf |-> conf[f]]
    /\ Configured \cup {"name", "stdout", "stderr"} \subseteq DOMAIN conf
    /\ conf.stop_timeout_secs \in Nat \ {0} /\ conf.ready_timeout_secs \in Nat \ {0}
    /\ conf.cluster_instances \in (Nat \ {0}) \cup {NONE}

\* An entry of the table, filed under its own name.
Filed(n, p) ==
    /\ p = [conf |-> p.conf, up |-> p.up]
    /\ p.up \in BOOLEAN /\ p.conf.name = n /\ Normal(p.conf)

\* The apps of a file are a list, and their names are in the alphabet.
ASSUME ApplyAssumption ==
    /\ NONE \notin Int /\ "nobody" \notin Clients /\ MaxMishaps \in Nat
    /\ DOMAIN Alphabet \subseteq Nat
    /\ \A t \in Tables : /\ t = [n \in DOMAIN t |-> t[n]] /\ IsFiniteSet(DOMAIN t)
                         /\ \A n \in DOMAIN t : Filed(n, t[n])
    /\ \A s \in Sources :
          /\ Len(s.file.apps) \in Nat /\ DOMAIN s.file.apps = 1..Len(s.file.apps)
          /\ s.toml => Numbered(s.file.defaults, s)
          /\ \A i \in DOMAIN s.file.apps :
                LET app == s.file.apps[i]
                IN  /\ app.name \in ToSet(Alphabet) \cup {NONE}
                    /\ Numbered(app.layer, s)
                    /\ s.profile \in DOMAIN app.profiles =>
                          Numbered(app.profiles[s.profile], s)

Matches(p, s) == Fingerprint(p.conf) = Fingerprint(s)

\* A slip: a running process of that name will do, whatever its configuration.
PlanFor_ByName(s) ==
    [spec |-> s, name |-> s.name,
     do |-> IF s.name \notin DOMAIN procs THEN "start"
            ELSE IF procs[s.name].up THEN "noop" ELSE "restart"]

PlanFor(s) ==
    [spec |-> s, name |-> s.name,
     do |-> IF s.name \notin DOMAIN procs THEN "start"
            ELSE IF ~Matches(procs[s.name], s) THEN "recreate"
            ELSE IF procs[s.name].up THEN "noop" ELSE "restart"]

PlanOf(desired, prune) ==
    LET stale == IF prune THEN DOMAIN procs \ NamesOf(desired) ELSE {}
        drop  == [n \in stale |-> [spec |-> NONE, name |-> n, do |-> "delete"]]
        order == SetToSeq(stale)
    IN  [i \in DOMAIN desired |-> PlanFor(desired[i])]
        \o [i \in DOMAIN order |-> drop[order[i]]]

Plan(c) ==
    /\ client[c].pc = "idle"
    /\ IF ~Planable(src, client[c].opt)
       THEN client' = [client EXCEPT ![c].pc = "refused"]
       ELSE LET desired == Desired(src, client[c].opt)
            IN  client' = [client EXCEPT
                    ![c].pc   = IF desired = <<>> THEN "done" ELSE "running",
                    ![c].plan = IF desired = <<>> THEN <<>>
                                ELSE PlanOf(desired, client[c].opt.prune)]
    /\ fresh' = fresh \cup {c}
    /\ UNCHANGED <<src, procs, bundle, mishaps>>

-----------------------------------------------------------------------------
(* The requests.                                                           *)

Todo(c, do) ==
    client[c].pc = "running" /\ client[c].plan # <<>> /\ Head(client[c].plan).do = do

Name(c) == Head(client[c].plan).name

\* The action is over; a failure is noted and the next one goes on.
Over1(c, failed) ==
    client' = [client EXCEPT ![c].plan = Tail(@), ![c].failed = @ \/ failed]

\* The table changes under everybody else's plan.
Changes(c, table) == procs' = table /\ fresh' = fresh \cap {c}

Noop(c) ==
    /\ Todo(c, "noop")
    /\ Over1(c, FALSE)
    /\ UNCHANGED <<src, procs, fresh, bundle, mishaps>>

With(n, p) == [m \in DOMAIN procs \cup {n} |-> IF m = n THEN p ELSE procs[m]]
Without(n) == [m \in DOMAIN procs \ {n} |-> procs[m]]

\* A slip: the process is filed under the app, not under the instance.
Start_ByApp(c) ==
    LET s == Head(client[c].plan).spec
    IN  /\ Todo(c, "start")
        /\ Accepts(s) /\ s.name \notin DOMAIN procs
        /\ Changes(c, With(s.app, [conf |-> Started(s), up |-> TRUE]))
        /\ Over1(c, FALSE)
        /\ UNCHANGED <<src, bundle, mishaps>>

Start(c) ==
    LET s == Head(client[c].plan).spec
    IN  /\ Todo(c, "start")
        /\ Accepts(s) /\ s.name \notin DOMAIN procs
        /\ Changes(c, With(s.name, [conf |-> Started(s), up |-> TRUE]))
        /\ Over1(c, FALSE)
        /\ UNCHANGED <<src, bundle, mishaps>>

StartRefused(c) ==
    LET s == Head(client[c].plan).spec
    IN  /\ Todo(c, "start")
        /\ ~Accepts(s) \/ s.name \in DOMAIN procs
        /\ Over1(c, TRUE)
        /\ UNCHANGED <<src, procs, fresh, bundle, mishaps>>

\* The program cannot be spawned or does not become ready: nothing is kept.
StartFails(c) ==
    LET s == Head(client[c].plan).spec
    IN  /\ Todo(c, "start")
        /\ Accepts(s) /\ s.name \notin DOMAIN procs
        /\ mishaps < MaxMishaps /\ mishaps' = mishaps + 1
        /\ Over1(c, TRUE)
        /\ UNCHANGED <<src, procs, fresh, bundle>>

Restart(c) ==
    /\ Todo(c, "restart")
    /\ Name(c) \in DOMAIN procs
    /\ Changes(c, [procs EXCEPT ![Name(c)].up = TRUE])
    /\ Over1(c, FALSE)
    /\ UNCHANGED <<src, bundle, mishaps>>

\* A restart that fails leaves the process errored.
RestartFails(c) ==
    /\ Todo(c, "restart")
    /\ Name(c) \in DOMAIN procs
    /\ mishaps < MaxMishaps /\ mishaps' = mishaps + 1
    /\ Changes(c, [procs EXCEPT ![Name(c)].up = FALSE])
    /\ Over1(c, TRUE)
    /\ UNCHANGED <<src, bundle>>

Delete(c) ==
    /\ Todo(c, "delete")
    /\ Name(c) \in DOMAIN procs
    /\ Changes(c, Without(Name(c)))
    /\ Over1(c, FALSE)
    /\ UNCHANGED <<src, bundle, mishaps>>

\* The first of two requests: the start that follows may still fail.
Recreate(c) ==
    /\ Todo(c, "recreate")
    /\ Name(c) \in DOMAIN procs
    /\ Changes(c, Without(Name(c)))
    /\ client' = [client EXCEPT ![c].plan = <<[Head(@) EXCEPT !.do = "start"]>> \o Tail(@)]
    /\ UNCHANGED <<src, bundle, mishaps>>

\* Somebody else has deleted it: the failure is noted and the action given up.
Missing(c) ==
    /\ \E do \in {"restart", "delete", "recreate"} : Todo(c, do)
    /\ Name(c) \notin DOMAIN procs
    /\ Over1(c, TRUE)
    /\ UNCHANGED <<src, procs, fresh, bundle, mishaps>>

Finish(c) ==
    /\ client[c].pc = "running" /\ client[c].plan = <<>>
    /\ client' = [client EXCEPT ![c].pc = "done"]
    /\ UNCHANGED <<src, procs, fresh, bundle, mishaps>>

-----------------------------------------------------------------------------
(* A process ends and is not restarted, as its policy may have it.         *)
Exits(n) ==
    /\ procs[n].up
    /\ mishaps < MaxMishaps /\ mishaps' = mishaps + 1
    /\ Changes("nobody", [procs EXCEPT ![n].up = FALSE])
    /\ UNCHANGED <<src, client, bundle>>

\* export writes what the daemon shows of a process; a bundle that would not
\* be accepted is not written, and neither is one over an existing file.
Export(n) ==
    LET shown == Bundled(Redacted(procs[n].conf))
    IN  /\ bundle = NONE
        /\ Bundles(shown)
        /\ bundle' = [of |-> procs[n].conf, spec |-> Unbundled(shown)]
        /\ UNCHANGED <<src, procs, client, fresh, mishaps>>

\* import starts the services of a bundle that are not there.
Import ==
    /\ bundle # NONE
    /\ bundle.spec.name \notin DOMAIN procs /\ Accepts(bundle.spec)
    /\ Changes("nobody",
               With(bundle.spec.name, [conf |-> Started(bundle.spec), up |-> TRUE]))
    /\ UNCHANGED <<src, client, bundle, mishaps>>

-----------------------------------------------------------------------------
Init ==
    /\ src \in Sources
    /\ procs \in Tables
    /\ client \in [Clients -> {[pc |-> "idle", opt |-> o, plan |-> <<>>, failed |-> FALSE] :
                                 o \in Options}]
    /\ fresh = {}
    /\ bundle = NONE
    /\ mishaps = 0

Act(c) ==
    \/ Plan(c) \/ Noop(c) \/ Start(c) \/ StartRefused(c) \/ StartFails(c)
    \/ Restart(c) \/ RestartFails(c) \/ Delete(c) \/ Recreate(c) \/ Missing(c)
    \/ Finish(c)

Next ==
    \/ \E c \in Clients : Act(c)
    \/ \E n \in DOMAIN procs : Exits(n)
    \/ \E n \in DOMAIN procs \cap Exported : Export(n)
    \/ Import

Spec == Init /\ [][Next]_vars

-----------------------------------------------------------------------------
(* The variables keep their shape: a plan is only pending while its client *)
(* runs, every entry is filed under its own name, and the bound holds.     *)
TypeOK ==
    /\ \A n \in DOMAIN procs : procs[n].conf.name = n /\ procs[n].up \in BOOLEAN
    /\ \A c \in Clients :
          /\ client[c].pc \in {"idle", "running", "done", "refused"}
          /\ client[c].opt \in Options
          /\ client[c].plan # <<>> => client[c].pc = "running"
          /\ client[c].failed \in BOOLEAN
    /\ fresh \subseteq Clients
    /\ mishaps \in 0..MaxMishaps

AllDone == \A c \in Clients : client[c].pc = "done"

(* When every client has finished and none has reported a failure, each    *)
(* service all of them asked for is in the table with the configuration of *)
(* the file: whatever the order of their deletions and starts, none is     *)
(* lost without anybody being told.                                        *)
SuccessMeansApplied ==
    (AllDone /\ \A c \in Clients : ~client[c].failed) =>
        \A c \in Clients :
            LET want == Desired(src, client[c].opt)
            IN  \A i \in DOMAIN want :
                    (\A d \in Clients : want[i].name \in NamesOf(Desired(src, client[d].opt)))
                    => /\ want[i].name \in DOMAIN procs
                       /\ Matches(procs[want[i].name], want[i])

(* Clients that mean the same by a name: not so if they run in different   *)
(* directories and name a file with relative paths by a relative path.     *)
OneReading ==
    \A s \in Sources : \A o, p \in {opt \in Options : Planable(s, opt)} :
        \A i \in DOMAIN Desired(s, o), j \in DOMAIN Desired(s, p) :
            Desired(s, o)[i].name = Desired(s, p)[j].name =>
                Fingerprint(Desired(s, o)[i]) = Fingerprint(Desired(s, p)[j])

(* An apply that succeeded and that nothing has disturbed since can be     *)
(* repeated: the second one finds nothing to do.  What the daemon made of  *)
(* a start request must have the fingerprint the client computed.          *)
RepeatedApplyIsNoop ==
    [][\A c, d \in Clients :
          (/\ client[c].pc = "idle" /\ client'[c].pc = "running"
           /\ client[d].pc = "done" /\ ~client[d].failed /\ d \in fresh
           /\ client[c].opt = client[d].opt)
          => \A i \in DOMAIN client'[c].plan : client'[c].plan[i].do = "noop"]_vars

(* A service is attended to after the ones it depends on, unless they      *)
(* depend on themselves in the end.  (Of several apps with one name, which *)
(* apply takes if their instances have different names, only the last is   *)
(* waited for.)                                                            *)
DependsOn(specs, a, b) ==
    \E i \in DOMAIN specs : specs[i].name = a /\ b \in specs[i].depends_on
BehindCycle(specs) ==
    UNION {names \in SUBSET (NamesOf(specs) \ {NONE}) :
              \A a \in names : \E b \in names : DependsOn(specs, a, b)}
Shared(specs) ==
    {specs[i].name : i \in {i \in DOMAIN specs :
                              \E j \in DOMAIN specs \ {i} : specs[i].name = specs[j].name}}

DependenciesFirst ==
    \A c \in Clients :
        LET plan   == client[c].plan
            specs  == Selected(src, client[c].opt)
        IN  \A i, j \in DOMAIN plan :
                (/\ plan[i].spec # NONE /\ plan[j].spec # NONE
                 /\ plan[j].spec.app \in plan[i].spec.depends_on
                 /\ plan[j].spec.app \notin Shared(specs)
                 /\ plan[i].spec.app \notin BehindCycle(specs))
                => j < i

\* The file never changes, so what is said of it alone is said once.
Untouched == \A c \in Clients : client[c].pc = "idle"

(* What validate accepts, apply can carry out: if every app has a name,    *)
(* the expansion is accepted, and the daemon refuses no start for its      *)
(* command or its cluster settings (names are only checked by the daemon). *)
ValidatedStarts ==
    Untouched => \A opt \in Options :
        LET specs == Selected(src, opt)
        IN  (/\ Readable(src) /\ Valid(specs)
             /\ \A i \in DOMAIN specs : specs[i].name # NONE)
            => /\ Expandable(Ordered(specs))
               /\ \A i \in DOMAIN Desired(src, opt) :
                     Desired(src, opt)[i].name \in BadNames \/ Accepts(Desired(src, opt)[i])

(* convert loses nothing a running service depends on but the pull secret: *)
(* the oxfile written from an ecosystem file can be loaded again, and then *)
(* describes services that run alike.  (Not so if a text still has a       *)
(* dollar or a wide character once it is expanded, for it is expanded      *)
(* twice; and a path in a relative directory moves with the file.)         *)
RunsAlike(s, t) ==
    /\ \A f \in {"name", "command", "cwd", "env", "max_restarts", "stop_timeout_secs",
                 "watch", "cluster_mode", "instances", "start_order", "depends_on",
                 "health", "limits", "wait_ready", "stdout", "stderr"} : s[f] = t[f]
    /\ s.watch => /\ s.watch_paths = t.watch_paths
                  /\ s.ignore_watch = t.ignore_watch
                  /\ s.watch_delay_secs = t.watch_delay_secs
    /\ s.cluster_mode => s.cluster_instances = t.cluster_instances
    /\ s.wait_ready => s.ready_timeout_secs = t.ready_timeout_secs

Literal(text) ==
    /\ text # <<>> => text[1] # "~"
    /\ ToSet(text) \cap (DOMAIN Vars \cup Refs \cup {"$$", "wide"}) = {}
Fixed(s) ==
    /\ \A text \in Texts(s) : Literal(text)
    /\ \A path \in {s.cwd, s.stdout, s.stderr} \ {NONE} : Absolute(path)

ConvertedRunsAlike ==
    (Untouched /\ ~src.toml /\ Readable(src)) =>
        LET specs == EcoLoad(src.file, src.profile, src.dir)
            again == Load(WrittenFile(specs), NONE, src.dir)
        IN  /\ Len(specs) = Len(again)
            /\ \A i \in DOMAIN specs : Fixed(specs[i]) => RunsAlike(specs[i], again[i])
            /\ (\A i \in DOMAIN specs : Fixed(specs[i])) => Loads(WrittenFile(specs), NONE)

(* The services of an ecosystem file are what their type says: a flag is a *)
(* flag, a text is a list, and NONE is neither of these nor the value of a *)
(* setting that every service has.                                         *)
Listed(s) == Len(s) \in Nat /\ s = [i \in 1..Len(s) |-> s[i]]
Given(s) ==
    /\ {s.watch, s.wait_ready} \subseteq BOOLEAN
    /\ s.limits # NONE => s.limits.gpu \in BOOLEAN
    /\ \A text \in Texts(s) : Listed(text)
    /\ \A f \in {"env", "max_restarts", "ignore_watch", "watch_delay_secs", "cluster_mode",
                 "depends_on"} : s[f] # NONE
    /\ s.watch => WrittenWatch(s) # NONE
EcoTyped ==
    /\ NONE \notin BOOLEAN /\ NONE # ""
    /\ \A s \in Sources : (~s.toml /\ Readable(s)) =>
          \A i \in DOMAIN s.file.apps : Given(EcoLoad(s.file, s.profile, s.dir)[i])

(* A service that can be exported comes back from its bundle with the      *)
(* configuration it had, all but its environment.                          *)
ExportKeepsService ==
    bundle # NONE =>
        \A f \in Configured \ {"env"} : Started(bundle.spec)[f] = bundle.of[f]

(* docs/SKILL.md:396: "`--prune` flag on `apply` removes processes from    *)
(* the daemon that are no longer in the config."                           *)
PruneKeepsConfigured ==
    \A c \in Clients :
        \A i \in DOMAIN client[c].plan :
            client[c].plan[i].do = "delete" =>
                client[c].plan[i].name \notin
                    NamesOf(Expanded(SpecsOf(src, client[c].opt.here)))
=============================================================================

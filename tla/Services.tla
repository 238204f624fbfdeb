------------------------------ MODULE Services ------------------------------
(***************************************************************************)
(* What happens to service specifications after they are loaded: the order *)
(* in which they are started and their expansion into instances            *)
(* (commands/import.rs, commands/common.rs), validation                    *)
(* (commands/validate.rs), what the daemon makes of a start request        *)
(* (process_manager.rs, process_manager/spawn.rs), the configuration       *)
(* fingerprint (process/fingerprint.rs) and the bundle (bundle.rs).        *)
(***************************************************************************)
EXTENDS Ecosystem

CONSTANTS Alphabet,   \* every app name, sorted: only names of apps are compared
          BadNames    \* those the daemon refuses ("all", odd characters)

Rank(name) == IF name = NONE THEN 0 ELSE CHOOSE i \in DOMAIN Alphabet : Alphabet[i] = name

-----------------------------------------------------------------------------
(* order_specs_for_start: Kahn's algorithm; of the apps that wait for      *)
(* nothing the one with the smallest start order goes next, then by name,  *)
(* then by place.  When only cycles are left they follow in that order.    *)

Earlier(specs, i, j) ==
    LET key(k) == <<specs[k].start_order, Rank(specs[k].name), k>>
    IN  \/ key(i)[1] < key(j)[1]
        \/ key(i)[1] = key(j)[1] /\ key(i)[2] < key(j)[2]
        \/ key(i)[1] = key(j)[1] /\ key(i)[2] = key(j)[2] /\ i < j

\* Of two apps with one name the last is the one depended on.
Named(specs, name) ==
    {i \in DOMAIN specs :
        specs[i].name = name /\ \A j \in DOMAIN specs : specs[j].name = name => j <= i}

Needs(specs, i) == UNION {Named(specs, d) : d \in specs[i].depends_on}

\* A slip: whatever is left is taken in start order, ready or not.
Unblocked_All(specs, done, needs) == DOMAIN specs \ ToSet(done)

Unblocked(specs, done, needs) ==
    {i \in DOMAIN specs \ ToSet(done) : needs[i] \subseteq ToSet(done)}

Foremost(specs, among) == CHOOSE i \in among : \A j \in among \ {i} : Earlier(specs, i, j)

\* As many more as can be, one by one, where each waits for what it needs.
Drawn(specs, done, needs) ==
    LET upto[n \in 0..Len(specs)] ==
            IF n = 0 THEN done
            ELSE LET next == Unblocked(specs, upto[n - 1], needs)
                 IN  IF next = {} THEN upto[n - 1]
                     ELSE Append(upto[n - 1], Foremost(specs, next))
    IN  upto[Len(specs)]

Ordered(specs) ==
    LET needs    == [i \in DOMAIN specs |-> Needs(specs, i)]
        nothing  == [i \in DOMAIN specs |-> {}]
        indices  == Drawn(specs, Drawn(specs, <<>>, needs), nothing)
    IN  [k \in DOMAIN specs |-> specs[indices[k]]]

-----------------------------------------------------------------------------
(* expand_specs_with_deterministic_names and expand_ecosystem_specs: one   *)
(* start request per instance, told apart by name and by NODE_APP_INSTANCE. *)

InstanceName(s, i) ==
    IF s.name = NONE \/ s.instances = 1 THEN s.name
    ELSE s.name \o "-" \o ToString(i)

Instance(s, i) ==
    Extended([s EXCEPT !.name = InstanceName(s, i),
                       !.env  = IF s.instances = 1 THEN @
                                ELSE ("INSTANCE" :> <<ToString(i)>>) @@ @,
                       !.stop_timeout_secs = AtLeast1(@)],
             [app |-> s.name])

Expanded(specs) ==
    FlattenSeq([k \in DOMAIN specs |->
                  [i \in 1..specs[k].instances |-> Instance(specs[k], i - 1)]])

\* apply wants every app named and every expanded name once.
Expandable(specs) ==
    /\ \A k \in DOMAIN specs : specs[k].name # NONE
    /\ LET all == Expanded(specs)
       IN  \A i, j \in DOMAIN all : all[i].name = all[j].name => i = j

-----------------------------------------------------------------------------
(* Commands are told apart by what the checks ask of them.                 *)

Plain     == "api --port 80"
NodeApp   == "node server.js"
NodeFlags == "node --inspect server.js"
NodeAlone == "node"
NoCommand == ""

\* resolve_spawn_program and validate_cluster_settings
ClusterOk(s) == s.cluster_mode => s.command = NodeApp

\* commands/validate.rs; watch paths "/..." are absolute, the others relative.
WatchSettingsOk(s) ==
    IF s.watch
    THEN s.cwd # NONE \/ (s.watch_paths # {} /\ s.watch_paths \subseteq {"/src"})
    ELSE s.watch_paths = {} /\ s.ignore_watch = {} /\ s.watch_delay_secs = 0

\* A slip: only the names in the file are compared, not the expanded ones.
Valid_NamesOnly(specs) ==
    /\ specs # <<>>
    /\ \A i \in DOMAIN specs : ClusterOk(specs[i]) /\ WatchSettingsOk(specs[i])
    /\ \A i, j \in DOMAIN specs : specs[i].name = specs[j].name => i = j

Valid(specs) ==
    /\ specs # <<>>
    /\ \A i \in DOMAIN specs :
          LET s == specs[i]
          IN  /\ s.command # NoCommand
              /\ s.cluster_instances # NONE => s.cluster_mode
              /\ ClusterOk(s)
              /\ WatchSettingsOk(s)
              /\ s.wait_ready => s.health # NONE
              /\ s.ready_timeout_secs > 0
              /\ s.health # NONE => s.health.command # ""
              /\ \A d \in s.depends_on : \E j \in DOMAIN specs : specs[j].name = d
    /\ LET named == Only(specs, {i \in DOMAIN specs : specs[i].name # NONE})
           all   == Expanded(named)
       IN  /\ \A i, j \in DOMAIN named : named[i].name = named[j].name => i = j
           /\ \A i, j \in DOMAIN all : all[i].name = all[j].name => i = j

-----------------------------------------------------------------------------
(* The daemon's side of a start request (start_process), and what of it    *)
(* the fingerprint covers: everything but the name, what only the client   *)
(* uses, and the log files.                                                *)

\* A slip: the daemon drops the instance count of a service that is not a cluster.
Started_ClusterOnly(s) ==
    [s EXCEPT !.cluster_instances = IF s.cluster_mode THEN @ ELSE NONE]

Started(s) ==
    [s EXCEPT !.cluster_instances  = PositiveOrNone(@),
              !.stop_timeout_secs  = AtLeast1(@),
              !.ready_timeout_secs = AtLeast1(@)]

Accepts(s) == s.command # NoCommand /\ s.name \notin BadNames /\ ClusterOk(s)

Configured == {"command", "cwd", "env", "max_restarts", "stop_timeout_secs", "watch",
               "watch_paths", "ignore_watch", "watch_delay_secs", "cluster_mode",
               "cluster_instances", "health", "limits", "pull_secret",
               "wait_ready", "ready_timeout_secs"}

Fingerprint(s) == [f \in Configured |-> s[f]]

\* Clients are shown neither the environment nor the hash of the secret.
Redacted(s) ==
    [s EXCEPT !.env = <<>>,
              !.pull_secret = IF @ = NONE THEN NONE ELSE "<redacted>"]

-----------------------------------------------------------------------------
(* bundle.rs: a bundle is checked when it is written and when it is read.  *)

Bundled(s) ==
    [s EXCEPT !.stop_timeout_secs = AtLeast1(@),
              !.cluster_instances = ClusterCount(@),
              !.stdout = NONE, !.stderr = NONE]

\* validate_service
Bundles(s) ==
    /\ s.name # ""
    /\ s.command # NoCommand
    /\ s.stop_timeout_secs # 0
    /\ "bad-key" \notin DOMAIN s.env
    /\ s.health # NONE => s.health.command # "" /\ s.health.interval # 0
    /\ s.cluster_instances # NONE => s.cluster_mode /\ s.cluster_instances # 0
    /\ s.pull_secret # "<redacted>"

\* A slip: the readiness timeout is lost.
Unbundled_NoTimeout(s) == [s EXCEPT !.ready_timeout_secs = 30]

Unbundled(s) ==
    [s EXCEPT !.stop_timeout_secs  = AtLeast1(@),
              !.cluster_instances  = IF s.cluster_mode THEN ClusterCount(@) ELSE NONE,
              !.ready_timeout_secs = AtLeast1(@)]
=============================================================================

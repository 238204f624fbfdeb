----------------------------- MODULE Ecosystem -----------------------------
(***************************************************************************)
(* src/ecosystem.rs: how a PM2 ecosystem file becomes service              *)
(* specifications.  The fields have other names, units and precedences     *)
(* than an oxfile's, a profile is a map of overrides under the key         *)
(* env_<profile>, and what is switched off is not cleared.  Fields stand   *)
(* for their class as in Oxfile.                                           *)
(***************************************************************************)
EXTENDS Oxfile

EcoFields == {"cmd", "script", "cwd", "env", "max_restarts", "kill_timeout",
              "stop_timeout", "watch", "ignore_watch", "watch_delay",
              "exec_mode", "cluster_mode", "cluster_instances", "instances",
              "priority", "start_order", "depends_on", "health", "health_cmd",
              "health_interval", "max_memory_restart", "max_memory_mb",
              "deny_gpu", "pull_secret", "wait_ready", "listen_timeout",
              "out_file", "error_file", "log_file"}

EmptyEntry == [f \in EcoFields |-> NONE]

\* Milliseconds become seconds, rounded up.
MillisToSecs(ms) == (ms + 999) \div 1000

ClusterCount(n) == IF n = NONE THEN NONE ELSE AtLeast1(n)
IsCluster(mode) == mode = "cluster"

\* A size with a unit is never below a megabyte; as a number it is taken as it is.
\* It wins over max_memory_mb, and a zero counts for nothing.
Ceiling(restart, mb) ==
    Or(PositiveOrNone(restart), PositiveOrNone(mb))

\* The entry itself (into_spec).
Entry(a, order) ==
    LET value(f, d) == Or(a[f], d)
        inferred    == IsCluster(a.exec_mode)
    IN  [cwd               |-> a.cwd,
         env               |-> Over(a.env, NONE),
         max_restarts      |-> value("max_restarts", 10),
         stop_timeout_secs |-> AtLeast1(Or(a.kill_timeout, value("stop_timeout", 5))),
         watch             |-> WatchOf(a.watch).on,
         watch_paths       |-> WatchOf(a.watch).paths,
         ignore_watch      |-> NotBlank(value("ignore_watch", {})),
         watch_delay_secs  |-> MillisToSecs(value("watch_delay", 0)),
         cluster_mode      |-> value("cluster_mode", inferred),
         cluster_instances |-> Or(ClusterCount(a.cluster_instances),
                                  IF inferred THEN ClusterCount(a.instances)
                                  ELSE NONE),
         instances         |-> IF inferred THEN 1 ELSE AtLeast1(value("instances", 1)),
         start_order       |-> Or(a.priority, value("start_order", order)),
         depends_on        |-> value("depends_on", {}),
         health            |-> IF a.health # NONE
                               THEN HealthOf(a.health.cmd, a.health.interval)
                               ELSE HealthOf(a.health_cmd, a.health_interval),
         limits            |-> LimitsOf(Ceiling(a.max_memory_restart, a.max_memory_mb),
                                        value("deny_gpu", FALSE)),
         pull_secret       |-> a.pull_secret,
         wait_ready        |-> value("wait_ready", FALSE),
         ready_timeout_secs |-> AtLeast1(MillisToSecs(value("listen_timeout", 30000))),
         stdout            |-> Or(a.out_file, a.log_file),
         stderr            |-> Or(a.error_file, a.log_file)]

\* The overrides are visited in the alphabetical order of their keys, so of two
\* keys for one setting the later one wins (start_order over priority,
\* stop_timeout over kill_timeout), exec_mode is read after cluster_mode, and
\* instances after both.
OverriddenMode(s, p) ==
    IF p.exec_mode # NONE THEN IsCluster(p.exec_mode)
    ELSE Or(p.cluster_mode, s.cluster_mode)

OverriddenClones(s, p) ==
    IF OverriddenMode(s, p) /\ p.instances # NONE THEN AtLeast1(p.instances)
    ELSE Or(ClusterCount(p.cluster_instances), s.cluster_instances)

OverriddenInstances(s, p) ==
    IF ~OverriddenMode(s, p) /\ p.instances # NONE THEN AtLeast1(p.instances)
    ELSE IF IsCluster(p.exec_mode) THEN 1 ELSE s.instances

\* A threshold without a check makes one that runs `true'.
OverriddenHealth(health, p) ==
    LET old(g, d) == IF health = NONE THEN d ELSE health[g]
    IN  IF p.health_cmd = NONE /\ p.health_interval = NONE THEN health
        ELSE HealthOf(Or(p.health_cmd, old("command", "true")),
                      Or(p.health_interval, old("interval", 30)))

\* A zero ceiling changes nothing.
OverriddenLimits(limits, p) ==
    LimitsOf(Or(Ceiling(p.max_memory_restart, p.max_memory_mb), MemOf(limits)),
             Or(p.deny_gpu, GpuOf(limits)))

\* Log files cannot be overridden.
Overridden(s, p) ==
    LET take(f) == Or(p[f], s[f])
    IN  [s EXCEPT
           !.cwd               = take("cwd"),
           !.env               = Over(p.env, @),
           !.max_restarts      = take("max_restarts"),
           !.stop_timeout_secs = AtLeast1(Or(p.stop_timeout, Or(p.kill_timeout, @))),
           !.watch             = IF p.watch = NONE THEN @ ELSE WatchOf(p.watch).on,
           !.watch_paths       = IF p.watch = NONE THEN @ ELSE WatchOf(p.watch).paths,
           !.ignore_watch      = NotBlank(Or(p.ignore_watch, @)),
           !.watch_delay_secs  = IF p.watch_delay = NONE THEN @
                                 ELSE MillisToSecs(p.watch_delay),
           !.cluster_mode      = OverriddenMode(s, p),
           !.cluster_instances = OverriddenClones(s, p),
           !.instances         = OverriddenInstances(s, p),
           !.start_order       = Or(p.start_order, Or(p.priority, @)),
           !.depends_on        = take("depends_on"),
           !.health            = OverriddenHealth(@, p),
           !.limits            = OverriddenLimits(@, p),
           !.pull_secret       = take("pull_secret"),
           !.wait_ready        = take("wait_ready"),
           !.ready_timeout_secs = IF p.listen_timeout = NONE THEN @
                                  ELSE AtLeast1(MillisToSecs(p.listen_timeout))]

EcoResolved(app, profile, order) ==
    LET entry == Entry(app.layer, order)
    IN  IF profile \in DOMAIN app.profiles
        THEN Overridden(entry, app.profiles[profile]) ELSE entry

EcoLoads(file, profile) ==
    \A i \in DOMAIN file.apps :
        LET app == file.apps[i]
        IN  /\ Or(app.layer.cmd, app.layer.script) # NONE
            /\ SecretOk(app.layer.pull_secret)
            /\ profile \in DOMAIN app.profiles =>
                  SecretOk(app.profiles[profile].pull_secret)
            /\ \A text \in Texts(EcoResolved(app, profile, i - 1)) : Expands(text)

EcoLoad(file, profile, base) ==
    [i \in DOMAIN file.apps |->
        LET app == file.apps[i]
        IN  SpecOf([name |-> app.name, command |-> Or(app.layer.cmd, app.layer.script)],
                 EcoResolved(app, profile, i - 1), base)]
=============================================================================

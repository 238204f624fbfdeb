------------------------------- MODULE Oxfile -------------------------------
(***************************************************************************)
(* src/oxfile.rs and src/env_expand.rs: how an oxfile.toml becomes service *)
(* specifications.  Three layers ([defaults], an app and the profile that  *)
(* was asked for) are merged field by field, the result is normalised,     *)
(* `~' and `$VAR' are expanded and relative paths are joined to the        *)
(* directory of the file as the command line named it.                     *)
(*                                                                         *)
(* Every field is the representative of the fields merged by the same      *)
(* rule: max_restarts stands for the plain options with a default,         *)
(* stop_timeout_secs for those kept above zero, health_interval_secs for   *)
(* the three health thresholds, max_memory_mb for the two ceilings,        *)
(* deny_gpu for the two flags of the limits.  A text and a path are        *)
(* sequences of tokens; a path is absolute if its first token is "/".      *)
(***************************************************************************)
EXTENDS Integers, Sequences, FiniteSets, SequencesExt

CONSTANTS NONE,   \* an absent option
          Vars,   \* the environment: a reference token |-> its text
          Refs,   \* the tokens that refer to a variable
          Home    \* the home directory, or NONE when it is unknown

Or(a, b) == IF a = NONE THEN b ELSE a
AtLeast1(n) == IF n < 1 THEN 1 ELSE n
\* A record with further fields (@@, which cannot be reasoned about).
Extended(r, more) ==
    [f \in DOMAIN r \cup DOMAIN more |-> IF f \in DOMAIN r THEN r[f] ELSE more[f]]
Over(upper, lower) == Extended(Or(upper, <<>>), Or(lower, <<>>))

\* The elements of a list at some of its places, in the order they have.
Only(list, places) ==
    FlattenSeq([i \in DOMAIN list |-> IF i \in places THEN <<list[i]>> ELSE <<>>])

-----------------------------------------------------------------------------
(* Expansion (env_expand.rs).  Text is copied byte by byte: a character of *)
(* two bytes comes out as two characters.                                  *)

Tilde(text) ==
    IF text # <<>> /\ text[1] = "~" THEN Or(Home, <<>>) \o Tail(text) ELSE text

Expands(text) ==
    /\ text # <<>> /\ text[1] = "~" => Home # NONE
    /\ \A t \in ToSet(Tilde(text)) \cap Refs : t \in DOMAIN Vars

Token(t) ==
    CASE t \in DOMAIN Vars -> Vars[t]
      [] t = "$$"          -> <<"$">>
      [] t = "wide"        -> <<"half", "half">>
      [] OTHER             -> <<t>>

Expand(text) == FlattenSeq([i \in DOMAIN Tilde(text) |-> Token(Tilde(text)[i])])

Absolute(path) == path # <<>> /\ path[1] = "/"
Joined(base, path) == IF Absolute(path) THEN path ELSE base \o path
Placed(base, path) == IF path = NONE THEN NONE ELSE Joined(base, Expand(path))

-----------------------------------------------------------------------------
(* The layers.  A layer is a function from these fields to a value or NONE. *)

Fields == {"cwd", "env", "max_restarts", "stop_timeout_secs", "watch",
           "ignore_watch", "watch_delay_secs", "cluster_mode",
           "cluster_instances", "instances", "start_order", "depends_on",
           "health_cmd", "health_interval_secs", "max_memory_mb", "deny_gpu",
           "pull_secret", "wait_ready", "ready_timeout_secs", "stdout",
           "stderr", "combined", "disabled"}

EmptyLayer == [f \in Fields |-> NONE]

\* Blank entries do not count.
NotBlank(entries) == entries \ {""}

\* A watch value is a flag or a list of paths.
WatchFlag(on) == [list |-> FALSE, on |-> on, paths |-> {}]
WatchList(paths) == [list |-> TRUE, on |-> TRUE, paths |-> paths]
WatchOf(w) ==
    IF w = NONE THEN [on |-> FALSE, paths |-> {}]
    ELSE LET kept == NotBlank(w.paths)
         IN  [on |-> IF w.list THEN kept # {} ELSE w.on, paths |-> kept]

HealthOf(cmd, interval) ==
    IF cmd = NONE THEN NONE
    ELSE [command |-> cmd, interval |-> AtLeast1(Or(interval, 30))]

\* A memory ceiling of zero is no ceiling, and limits that limit nothing are none.
LimitsOf(mem, gpu) ==
    LET ceiling == IF mem = 0 THEN NONE ELSE mem
    IN  IF ceiling = NONE /\ ~gpu THEN NONE ELSE [mem |-> ceiling, gpu |-> gpu]

MemOf(limits) == IF limits = NONE THEN NONE ELSE limits.mem
GpuOf(limits) == limits # NONE /\ limits.gpu

PositiveOrNone(n) == IF n = 0 THEN NONE ELSE n
SecretOk(secret) == secret # ""

\* A stream an app does not name goes where both go.
MergedLog(app, def, stream) ==
    Or(Or(app[stream], def[stream]), Or(app.combined, def.combined))

\* The app over the defaults.
Base(app, def, order) ==
    LET either(f)   == Or(app[f], def[f])
        value(f, d) == Or(either(f), d)
    IN  [cwd               |-> either("cwd"),
         env               |-> Over(app.env, def.env),
         max_restarts      |-> value("max_restarts", 10),
         stop_timeout_secs |-> AtLeast1(value("stop_timeout_secs", 5)),
         watch             |-> WatchOf(either("watch")).on,
         watch_paths       |-> WatchOf(either("watch")).paths,
         ignore_watch      |-> value("ignore_watch", {}),
         watch_delay_secs  |-> value("watch_delay_secs", 0),
         cluster_mode      |-> value("cluster_mode", FALSE),
         cluster_instances |-> PositiveOrNone(either("cluster_instances")),
         instances         |-> AtLeast1(value("instances", 1)),
         start_order       |-> value("start_order", order),
         depends_on        |-> value("depends_on", {}),
         health            |-> HealthOf(either("health_cmd"),
                                        either("health_interval_secs")),
         limits            |-> LimitsOf(either("max_memory_mb"),
                                        value("deny_gpu", FALSE)),
         pull_secret       |-> either("pull_secret"),
         wait_ready        |-> value("wait_ready", FALSE),
         ready_timeout_secs |-> AtLeast1(value("ready_timeout_secs", 30)),
         stdout            |-> MergedLog(app, def, "stdout"),
         stderr            |-> MergedLog(app, def, "stderr"),
         disabled          |-> Or(app.disabled, FALSE)]

\* A profile may change one part of a health check or of the limits.
ProfileHealth(health, p) ==
    LET old(g) == IF health = NONE THEN NONE ELSE health[g]
    IN  HealthOf(Or(p.health_cmd, old("command")),
                 Or(p.health_interval_secs, old("interval")))

ProfileLimits(limits, p) ==
    LimitsOf(Or(p.max_memory_mb, MemOf(limits)), Or(p.deny_gpu, GpuOf(limits)))

\* Its `combined' replaces both streams it does not name.
ProfileLog(p, stream, old) == Or(p[stream], Or(p.combined, old))

\* The profile over that.
WithProfile(r, p) ==
    LET take(f) == Or(p[f], r[f])
    IN  [cwd               |-> take("cwd"),
         env               |-> Over(p.env, r.env),
         max_restarts      |-> take("max_restarts"),
         stop_timeout_secs |-> AtLeast1(take("stop_timeout_secs")),
         watch             |-> IF p.watch = NONE THEN r.watch
                               ELSE WatchOf(p.watch).on,
         watch_paths       |-> IF p.watch = NONE THEN r.watch_paths
                               ELSE WatchOf(p.watch).paths,
         ignore_watch      |-> take("ignore_watch"),
         watch_delay_secs  |-> take("watch_delay_secs"),
         cluster_mode      |-> take("cluster_mode"),
         cluster_instances |-> PositiveOrNone(take("cluster_instances")),
         instances         |-> AtLeast1(take("instances")),
         start_order       |-> take("start_order"),
         depends_on        |-> take("depends_on"),
         health            |-> ProfileHealth(r.health, p),
         limits            |-> ProfileLimits(r.limits, p),
         pull_secret       |-> take("pull_secret"),
         wait_ready        |-> take("wait_ready"),
         ready_timeout_secs |-> AtLeast1(take("ready_timeout_secs")),
         stdout            |-> ProfileLog(p, "stdout", r.stdout),
         stderr            |-> ProfileLog(p, "stderr", r.stderr),
         disabled          |-> take("disabled")]

\* What was switched off leaves nothing behind.
Settled(r) ==
    [r EXCEPT !.cluster_instances = IF r.cluster_mode THEN @ ELSE NONE,
              !.ignore_watch      = IF r.watch THEN NotBlank(@) ELSE {},
              !.watch_paths       = IF r.watch THEN @ ELSE {},
              !.watch_delay_secs  = IF r.watch THEN @ ELSE 0]

Resolved(app, def, profile, order) ==
    LET base == Base(app.layer, def, order)
    IN  Settled(IF profile \in DOMAIN app.profiles
                THEN WithProfile(base, app.profiles[profile]) ELSE base)

SecretsOk(app, def, profile) ==
    /\ SecretOk(Or(app.layer.pull_secret, def.pull_secret))
    /\ profile \in DOMAIN app.profiles => SecretOk(app.profiles[profile].pull_secret)

Texts(r) == {r.env[k] : k \in DOMAIN r.env} \cup ({r.cwd, r.stdout, r.stderr} \ {NONE})

\* One app as the rest of the program sees it.
SpecOf(app, r, base) ==
    Extended([r EXCEPT !.env    = [k \in DOMAIN r.env |-> Expand(r.env[k])],
                       !.cwd    = Placed(base, r.cwd),
                       !.stdout = Placed(base, r.stdout),
                       !.stderr = Placed(base, r.stderr)],
             [name |-> app.name, command |-> app.command])

\* load_with_profile: the specs of the apps that are not disabled, unless a
\* secret is blank, a variable is missing or the version is not 1.
Loads(file, profile) ==
    /\ file.version \in {NONE, 1}
    /\ \A i \in DOMAIN file.apps :
          LET r == Resolved(file.apps[i], file.defaults, profile, i - 1)
          IN  /\ SecretsOk(file.apps[i], file.defaults, profile)
              /\ r.disabled \/ \A text \in Texts(r) : Expands(text)

Load(file, profile, base) ==
    LET r(i) == Resolved(file.apps[i], file.defaults, profile, i - 1)
    IN  Only([i \in DOMAIN file.apps |-> SpecOf(file.apps[i], r(i), base)],
             {i \in DOMAIN file.apps : ~r(i).disabled})

-----------------------------------------------------------------------------
(* write_from_specs: a spec as an app of a new oxfile.  The pull secret is *)
(* known only by its hash, and is left out.                                *)

\* A slip: the readiness settings are not written.
Written_NotReady(s) ==
    [name |-> s.name, command |-> s.command, profiles |-> <<>>,
     layer |-> [f \in Fields |->
        IF f \in {"watch", "combined", "pull_secret", "disabled", "wait_ready",
                  "ready_timeout_secs", "health_cmd", "health_interval_secs",
                  "max_memory_mb", "deny_gpu"} THEN NONE ELSE s[f]]]

WrittenWatch(s) ==
    IF ~s.watch THEN NONE
    ELSE IF s.watch_paths = {} THEN WatchFlag(TRUE) ELSE WatchList(s.watch_paths)

\* Two streams that go to one place are written as one.
WrittenLog(s, field) ==
    IF (s.stdout = s.stderr) = (field = "combined")
    THEN s[IF field = "combined" THEN "stdout" ELSE field] ELSE NONE

Written(s) ==
    [name |-> s.name, command |-> s.command, profiles |-> <<>>,
     layer |->
       [f \in Fields |->
          CASE f = "watch" -> WrittenWatch(s)
            [] f = "health_cmd" -> IF s.health = NONE THEN NONE ELSE s.health.command
            [] f = "health_interval_secs" ->
                  IF s.health = NONE THEN NONE ELSE s.health.interval
            [] f = "max_memory_mb" -> MemOf(s.limits)
            [] f = "deny_gpu"      -> IF GpuOf(s.limits) THEN TRUE ELSE NONE
            [] f \in {"wait_ready", "ready_timeout_secs"} ->
                  IF s.wait_ready THEN s[f] ELSE NONE
            [] f \in {"stdout", "stderr", "combined"} -> WrittenLog(s, f)
            [] f \in {"pull_secret", "disabled"} -> NONE
            [] OTHER -> s[f]]]

WrittenFile(specs) ==
    [version |-> 1, defaults |-> EmptyLayer,
     apps |-> [i \in DOMAIN specs |-> Written(specs[i])]]
=============================================================================

# A TLA+ model of Oxmgr

Oxmgr is a process manager: a daemon that starts programs, restarts them when they exit, remembers
them across its own crashes, and answers a command line, an HTTP API and a terminal dashboard. This
directory holds TLA+ specifications of it, the TLC configurations that check them on small
instances, and proofs, checked by TLAPS, that the most important properties hold for every instance.
`PROJECT.json` maps every definition to the lines it models and lists runs, hazards and theorems.

Paths below are relative to the repository's root, e.g. `src/process_manager.rs`.

## 1. The system

### Components

| component | state it keeps | operations | what makes it correct |
|---|---|---|---|
| process manager (`src/process_manager.rs`, `src/process.rs`) | process table, `scheduled_restarts`, `watch_fingerprints`, `pending_watch_restarts` | start, stop, restart, reload, pull, delete and their `all` forms; exit events; the maintenance tick; shutdown; recovery | one live child per process, none left behind; status, desired state, pid and timers agree; a process given up stays down; every acknowledged change is in the state file |
| restart rules (`process_manager/restart.rs`) | restart count, history, backoff attempt of each process | exit matching, policy, budget, crash-loop cutoff, backoff delay | stale events are ignored; the budget is refunded by commands only |
| signals and identity (`process_manager/runtime.rs`) | the OS's process table | terminate with a timeout, recognise a stale pid | a terminated child dies; an unrelated program is not signalled |
| file watch (`process_manager/watch.rs`) | baseline fingerprint, pending restart | scan, due restart | a detected change restarts the process, once |
| health checks (`process_manager/health.rs`) | failure counter, next check | run a check, count failures | `max_failures` in a row, of the present child, restart it |
| git pull (`process_manager/git.rs`) | HEAD of the checkout | fetch and compare, reload or restart | a new HEAD is deployed |
| daemon loop (`src/daemon.rs`) | the address, command, exit and shutdown queues, one restart timer, snapshot | bind, recover, `select!` over the queues, one handler at a time, publish | one daemon supervises; commands are answered; readers see a table no older than what they were told |
| IPC and HTTP (`src/ipc.rs`, `src/daemon/http.rs`) | none beyond a request | parse, authenticate, forward, stream | who may not change does not; a request ends |
| state file (`src/storage.rs`) | `state.json` and a temporary file | save, load, set a corrupt file aside | a crash leaves the old or the new table |
| event bus (`src/events.rs`) | 512 events and a cursor per subscriber | send, receive, lag | order is kept, loss is reported |
| log files (`src/logging.rs`) | a log and its rotated copies | open, rotate, prune, follow | no line lost or out of place; nothing but old files deleted |
| configuration (`src/oxfile.rs`, `src/ecosystem*`, `src/env_expand.rs`) | none | merge layers, normalise, expand, join paths | a service is what its file says; a converted file says the same |
| apply, import, export (`src/commands/`, `src/process/fingerprint.rs`, `src/bundle.rs`) | a plan made from a listing | create, update, restart, prune | success means applied; applying twice changes nothing more |
| runtime command (`src/commands/runtime.rs`, `src/signal.rs`) | entries with child, counters and next restart | spawn, poll, reap, stop | every entry is attended; no child outlives the supervisor |
| terminal dashboard (`src/commands/ui*`) | the list fetched last, selection, filter, dialogs, the last frame | fetch, draw, handle one event | what it does is what the screen shows; the screen catches up |
| front ends and packaging (`src/cli.rs`, deploy, service, doctor, `src/cgroup.rs`, web, scripts) | none that lasts | parse, print, install | functional correctness only |

### How they interact

Clients are tasks. Each sends one `ManagerCommand` through a channel and awaits its answer; listings
are served from a snapshot. One task, `run_foreground`, owns the `ProcessManager`, takes one
command, exit event, timer or tick at a time, runs its handler to the end, with awaits inside
(waiting for readiness, for a signalled child, for a health command), and publishes the snapshot.
Beside it run, concurrently: the children; one waiter task per child, which awaits its exit and
sends one `ProcessExitEvent`; log tasks, which write to files and to the event bus; whoever edits
the watched files. The state file and the children outlive the daemon and are what the next one
starts from. A command line that finds no daemon starts one, so that several may start at once.
`apply` reads a configuration file, lists the table once, and sends requests while others do the
same.

### What is hard

* **Exit events are late.** An event is handled after any number of other handlers; by then its
  process may have been restarted, reloaded, stopped, or deleted and started again.
* **Handlers take long.** While one waits for a child, files change, children exit, ticks are
  missed, clients read the old snapshot.
* **Answers and events precede the snapshot.** Somebody may know of a change that a read does not
  yet show.
* **Steps fail half-way.** A spawn may fail before or after a child exists; a signal may be refused;
  the save at the end of a handler may fail after all else was done.
* **The daemon crashes**, leaving children behind, and recovery has to end them, or start a second
  instance of each program, from what the last save said. Two daemons may be started at once.
* **Promises are kept by timers.** "restarting" is a status and a timer; losing one of them silently
  stops a service.
* **Plans get old.** `apply` acts on a listing, the dashboard on a frame, after the table has
  changed.
* **One datum in many formats.** A service is an ecosystem entry, an oxfile app, a start request, a
  table row and a bundle, each with its own defaults and checks.
* **Writers share files.** Rotation renames a log while writes to it are under way.

`PROJECT.json` lists these as hazards, each at its line, with the properties that catch it.

## 2. The modules

### ProcessManager

The manager, its children, the exit events, the restart timers and the state file, as one state
machine.

| variable | code |
|---|---|
| `procs` | `processes`: status, desired state, pid, restart count, length of `auto_restart_history` |
| `scheduled` | the keys of `scheduled_restarts` |
| `toStart` | the rest of `should_start` in `recover_processes` |
| `children`, `lastPid` | the operating system's processes: unborn, alive, doomed (a SIGKILL or a stop signal it will die of), dead |
| `waiting`, `exits` | the waiter tasks of `spawn_child`, and the events in `exit_rx` |
| `disk`, `saveFailed` | the table in the state file; whether the last `save()` failed |
| `phase` | daemon up, down, or inside `recover_processes` |

Each handler is one action: `Start`, `Stop`, `StopAll`, `Delete`, `DeleteAll`, `Restart`, `Reload`,
`HandleExit`, `ScheduledRestart`, `CronRestart`, `WatchRestart`, `FailedCheck` (resource limits and
health), `Shutdown`; recovery is `RecoverTable`, one `RecoverProcess` per process and `RecoverDone`,
so the daemon can crash between the turns of its spawn loop. `ChildExits` and `Crash` happen at any
time. A spawn has five outcomes (`Outcomes`): the child comes up and is saved; comes up and the save
fails; does not become ready and is killed; the same, but refuses the signal; is never created. What
each caller makes of each is in the action.

Abstractions:

* A command on all processes that does the same to each and stops at the first error is a sequence
  of single commands; `StopAll`, `DeleteAll` and `Shutdown`, which do something else (one save at
  the end), are actions.
* Time is left out: a timer may fire, a cron time pass, a restart leave the crash-loop window at any
  moment. `history` is therefore a count from which any number may drop out.
* Pids are never reused; recovery's identity check is a choice (`VerifyMayMiss`).
* A failed save leaves the old file; the daemon crashes between handlers, not inside.
* A child whose cgroup limits could not be applied is killed before it gets a waiter task; the model
  gives it one, whose event the manager ignores or takes as it would that of a child that was not
  ready.
* A pull is a reload or a restart that may happen at any moment; the checkout is left out.
* Resources, health details, events, logs and the configuration are not state here: no property
  depends on them.

Three constants switch the faults on: `SaveMayFail`, `KillMayFail`, `VerifyMayMiss`.

### Supervisor, and how ProcessManager implements it

`Supervisor` is what the services may rely on: a service is wanted or not, has used some of its
restart budget, and has at most one instance. `Begin` is a command that gives it a new instance and
a fresh budget, `Replace` a new instance of a wanted service (a reload, a counted restart, a
recovery), and `Wane` everything else: instances end, services are given up. A new instance takes
the place of the old in one step, and none comes back.

`Promise` in ProcessManager is the refinement mapping: `wanted` are the names whose desired state is
running, `used` their restart counts, `instances` the children alive of each name, tracked or not,
and `born` all that were ever spawned. The state file, exit events, timers and phases of the daemon
have no counterpart: a crash, and a table read back, must be stutters or wane. `Supervised` says so;
it holds when no save, signal or identity check fails.

### Watch

One watched process in discrete time. Unlike in ProcessManager a handler takes several steps, and
time, because what matters is which version of the files the child read, which the baseline was
taken from, and whether a tick falls before or after a delay. `tree` is the version of the files,
`baseline` and `pending` the manager's fingerprint and pending restart, `started` the version the
child started from; `Tick` is `run_due_watch_restarts`, `Scan` and `ScanFails` are
`run_watch_checks`, `Fork`, `Ready` and `NotReady` a restart, `Spawn`, `Stops`, `Serve` and `Served`
what the rest of the manager does. The loop serves a waiting tick at once when idle; missed ticks
are skipped, as `MissedTickBehavior::Skip` has it.

### Daemon

Daemons that compete for one address, the loop of the one that got it, the tasks that serve its
clients, and clients that start a daemon when they reach none. The manager's table is a version
number: what its handlers do is ProcessManager's subject, here it matters who has seen which
version.

A daemon's `life` goes from `ping` (is another one there?) over `bind` and `recover` to `idle`; a
handler is `busy`, has `emitted` its events, has `answered`, and is over when the snapshot is
published; after a shutdown request it is `ending` and then `gone`. A client asks
(`ensure_daemon_running`: ping, spawn, poll), connects, waits in the listener's backlog until the
loop accepts it, and is then served by a task of its own from the snapshot, or sends a command to
the queue. `seen` and `told` are what a client knows from an answer or an event, and from which
daemon; `got` is the version it read. `Crash` cuts all connections at any moment. `Route` and
`Unauthorized` are the HTTP rules on who may read and change.

### Oxfile, Ecosystem, Services, Apply

`Oxfile` and `Ecosystem` are operators: from a file, a profile and a directory to the specifications
of its services. Layers (defaults, app, profile) are merged by the rule of each field, where one
field stands for all with its rule; texts are sequences of tokens. `Services` is what happens to
specifications afterwards: start order (`Ordered`: two passes of `Drawn`, the first of which takes,
one by one, the `Foremost` of what is `Unblocked`, and the second what cycles have left), expansion
into instances, validation, the start request's normalisation, fingerprint, and the bundle.
`Apply` is the state machine: clients plan from one listing (`Plan`) and send the requests one by
one (`Noop`, `Start`, `Restart`, `Delete`, `Recreate`, each with its failures), while processes exit
(`Exits`) and services are exported and imported. `fresh` is history: the clients whose plan no one
else's change has overtaken.

### Output

What the children of one process print. A line is numbered by arrival, a file is an inode that
outlives its name. `Spawn` rotates (unless `max_size` or `max_files` is zero) and prunes, and gives
the process a new stderr buffer; `Forward` opens the log for a line and hands the write to the
blocking pool, whose writes `Land` in any order, to the inode that was opened, and puts the line
into `buffer` if it comes from the child spawned last (an older child fills a buffer nobody reads);
`Crash` drains `buffer`; a follower reads and reopens; a subscriber of
the bus connects, has its filter read, receives and lags. The three who look on do not meet, so each
behaviour has one of them.

### Dashboard

The loop of `oxmgr ui`: `Fetch`, `Draw`, one input event. The selection is a row number of the
visible list, which fetches, filters, sorts and searches change under it; `frame` is what is on the
screen, with the layout by which clicks are placed. Every key, click, wheel turn and resize is an
action, by the overlay that has the focus; requests are answered, refused or fail. `OtherClient`
changes the daemon's table at any moment.

### Runtime

The `runtime` command, a supervisor without a daemon. A pass over the entries is one step
(`CheckEntry`, a due restart) and another (`ReapEntry`, `try_wait` and what follows) per entry, so
that exits and signals fall between any two. `signal` records whether a shutdown signal came before
or after its handlers were installed. `InitProcess` says whether the supervisor is PID 1, which
default signal actions spare. A stopped child is killed in the end (`doomed`); the descendants of a
child are left out.

### How they compose

`SupervisorProofs` and the run `manager` join ProcessManager to Supervisor. The other modules meet
at interfaces each abstracts from its side: Daemon's `Change` and `Background` are any handler of
ProcessManager; Apply's requests are ProcessManager's `Start`, `Restart` and `Delete` with their
faults reduced to success or failure; Output's `Spawn` and `Crash` are its `SpawnChild` and
`HandleExit`; Dashboard's `OtherClient` and requests are any of its commands.

### Proof and model-checking modules

`ProcessManagerProofs`, `SupervisorProofs`, `WatchProofs`, `RuntimeProofs`, `DaemonProofs`,
`ApplyProofs`, `OutputProofs` and `DashboardProofs` hold the theorems; `MCProcessManager`,
`MCWatch`, `MCRuntime`, `MCDaemon`, `MCApply`, `MCOutput` and `MCDashboard` the values of the
constants. Operators whose name has the form `X_Y`
are slips: variants of `X` as a plausible mistake would write it, used to see that a property
notices.

## 3. Runs

| run | asks | instance | result |
|---|---|---|---|
| `manager` | without faults, is this a `Supervisor`? is no child left behind, every death noticed, every restart performed, every stopped child ended? | two processes: restarted always, with a delay; restarted on failure, at once. 3 children, budget 2, cutoff 1 | yes, in 26 027 states |
| `manager_faults` | what still holds when saves fail, signals are refused, recovery misses a child? | the same two, budget 1 | `StatusAgrees`, `TrackedIsWatched`, `DiskInSync`, `RevivedByCommandOnly`, in 1 039 487 states |
| `manager_errored` | does an errored mark last? | as `manager_faults`, without faults | violated, finding 1 |
| `watch` | does a detected change restart the process, and at most once per edit? | interval 2 s, delay none or 1 s, half-second steps, 3 edits | yes, in 8 770 states |
| `watch_starved` | the same with a delay of 3 s | 2 edits | violated, finding 2 |
| `runtime` | are all entries attended and all children stopped? | two entries with different policies, budget 2, cutoff 1, PID 1 | yes |
| `runtime_signal` | does a supervisor that got a signal leave children? | the same, not PID 1 | violated, finding 3 |
| `apply` | is what was applied without an error what the file says, in dependency order, and stable when applied again? are conversion and export faithful, and is what validates startable? | some 400 files in both formats, two clients, a table with the plainest of these apps, down, and one app of no file, one mishap | yes, in 970 000 states |
| `apply_prune` | does `--prune` keep what is in the file? | the same files, with and without `--only` | violated, finding 4 |
| `daemon` | does one daemon supervise, does everyone read what they were told of, does every request and every shutdown end? | two daemons, two clients, IPC reads, changes and shutdowns, HTTP changes without a login and streams; 2 requests, 2 versions, 1 mishap or background handler | yes, in 157 000 states |
| `output` | are lines kept, once and in order, across rotations, and is loss reported? | files of one line, 2 rotated, tail and bus of one, 4 children, 3 lines | yes, in 1.3 million states |
| `dashboard` | does a key, click or dialog act on what is on the screen, and does the screen catch up? | two processes and a third name, two terminal sizes, 3 events, 1 change by others | yes, in 474 000 states |

**Bounds, and why they are enough.** ProcessManager: `MaxPid` limits the children of a whole
behaviour; beyond it a spawn can only be refused. Three let a process have one instance running, one
replacing it, and one stale event or survivor. A budget of 2 and a cutoff of 1 put exhausting the
budget and tripping the cutoff within reach of each other, since restarts may leave the window. Two
processes are enough for one's handler to disturb the other; the manager relates them in no other
way. Watch: two edits allow one during a restart caused by the other, three one more; `Work` = 1
lets any step last as long as a quarter of the interval. Daemon: a second daemon is a competitor
and, after a death, the successor; two requests let one client know of a change that another asks
about; the versions bound only changes. Apply: every file has one group of fields set in every way
that group's rules distinguish, in app and profile over given defaults, or several small apps, with
cycles, instances, and names that clash, are missing or are given twice; two
clients are one to plan and one to overtake. Output: with files, tail and bus of one line every
spawn may rotate and every second line pushes one out; four children fill both rotated names and
drop a third file; two of them print at a time, as a reload has it. Dashboard: the terminals are one
whose table has two rows and the sidebar, and one that is too low and too narrow; `Chrome` and
`ViewerChrome` stand for the nine and six rows around table and log, so that a table of two rows and
a log of two lines scroll; three events are a key that moves or opens something, one that acts, and
one between. Where a theorem covers a property, the bounds stop to matter.

`CHECK_DEADLOCK` is off where the system may really stop: the runtime supervisor exits, clients of
apply finish, all daemons end or the bounds are used up, the children of Output are, the dashboard
is quit.

**Fairness.** ProcessManager: `HandleExit`, `ScheduledRestart`, recovery and the end of a doomed
child are weakly fair. The loop's `select!` picks at random among its ready branches, so a queued
event or a due timer is not passed over for ever; the deadline of a timer passes; SIGKILL cannot be
ignored; `recover_processes` is straight-line code, and its being started again after a crash is
what the service files in `src/commands/service.rs` are for. Nothing is assumed of commands, of
children exiting by themselves, or of the checks. Watch: time passes and steps end (weak); a tick
that is due again and again is served, and watched paths that are read again and again are readable
some time (strong, for `select!` and the file system are random, not adversaries). Daemon: daemons,
handlers and serving tasks go on (weak); each branch of the `select!` that is ready again and again,
between handlers, is taken (strong). Runtime: the supervisor's steps and delays (weak), and taking
the signal (strong: the `select!` may choose the sleep each time, but not for ever). Dashboard: the
loop goes on (weak), and its refreshes, which fall due by the clock, are not refused every time
(strong).

Every property of a passing run has a slip in `PROJECT.json` under which TLC finds it violated.

## 4. Findings

1. **An errored mark is overwritten** (`manager_errored`). When a resource or health check gives a
   process up, the manager kills the child, clears the pid and marks the process errored. The exit
   event of the killed child then matches the process, which has no pid and should not run, and
   `finish_requested_stop` shows it as stopped. `docs/OXFILE.md` says the process "is marked
   `errored`".
2. **A long watch delay starves the restart** (`watch_starved`). While files differ from the
   baseline every scan sets the pending restart anew to `watch_delay_secs` from now, and a tick
   looks for due restarts only before its scan: with a delay longer than the two-second interval it
   never comes due. `docs/OXFILE.md` calls the delay a debounce "after a detected change".
3. **An early signal leaves children** (`runtime_signal`). The runtime command installs its signal
   handlers when its loop first polls them, after all entries were spawned. A SIGTERM before that
   kills the supervisor and leaves what it has started. `docs/RUNTIME.md` says it "gracefully stops
   children".
4. **`--only` with `--prune` deletes services that are in the file** (`apply_prune`). The names to
   keep are computed from what `--only` has left of the file. `docs/SKILL.md` says `--prune` removes
   processes "that are no longer in the config".

Weaknesses no document denies are kept as hazards with a note: `NoOrphan` fails, as the code stands,
when a save or a signal fails or recovery does not recognise a child (so it is checked and proved
without faults); a runtime command one of whose entries fails to start leaves the earlier ones
running; an edit between the spawn of a watched child and its readiness is part of the new baseline
and so not seen, although the child may have read the old file; and a text in which a dollar sign is
left after expansion is expanded once more after a conversion, which is why `ConvertedRunsAlike` is
about services whose texts have nothing left to expand and whose paths are absolute (`Fixed`).

## 5. Proofs

All theorems hold for every value of the constants that satisfies the modules' assumptions: any set
of names, any policies, any bounds.

* **ProcessManagerProofs** — with every fault allowed: `TypeCorrect`, `StatusAlwaysAgrees`,
  `TrackedAlwaysWatched`, `DiskStaysInSync`, `OnlyCommandsRevive`. `StatusAgrees` is not inductive:
  a table read back from the state file must agree too, a process must not track a pid another owns,
  and during recovery the names still to be started must have no child. `ManagerInv` adds these:
  rows of `procs` and `disk` refer to children spawned for them (`RowOK`), queued and awaited events
  to spawned children (`EventsOK`), timers and names to start exist in their phases only
  (`PhaseOK`), and rows agree with children and timers during recovery too (`LiveRow`). One lemma
  per action shows that it is preserved. `DiskInSync` is inductive with `ManagerInv` (`Synced`):
  every handler ends with a save of what it changed, or notes that it failed. `OnlyCommandsRevive`
  is an action property: a spawn by anything but a command is of a process that was wanted, by the
  part of `ManagerInv` that says what timers and `toStart` hold.
* **SupervisorProofs** — first, `NoChildOrphaned`: if no fault can happen, every child that has not
  been terminated is tracked. `OrphanInv` adds three parts to `ManagerInv`: every live child is its
  process's tracked one (`Owned`); no event is queued for a live child, so handling one never
  untracks a live child (`ToldDead`); and the state file has the pids of the table, so a crash keeps
  `Owned` (`Mirrored`). The assumption `NoFaults` is needed for the reasons in section 4. Second,
  `ImplementsSupervisor`: under `NoFaults`, `Spec => Supervised`. The initial states map to
  Supervisor's, and a lemma per action shows that it maps to `Begin`, `Replace`, `Wane` or a
  stutter. `SupervisorInv` adds to `OrphanInv` what that needs: the next pid is that of a child not
  yet born (`BornOK`), the state file has the desired states and budgets of the table, so a crash
  shows nothing (`Recorded`), and whoever has a child is wanted (`TrackedWanted`), so that reloads
  are of wanted services. That an instance is replaced in one step rests on `Owned`.
* **WatchProofs** — `WatchTypeCorrect` and `RestartsPaid`: the number of watch restarts never
  exceeds that of edits. The invariant says who paid: the restarts so far are at most the baseline's
  version, and fewer than that of a fingerprint that waits in `pending` or is carried by a running
  restart, which becomes the next baseline; this is why a watch restart puts back the fingerprint
  that triggered it.
* **RuntimeProofs** — `RuntimeTypeCorrect`, `EntriesAttended`, `NoneLeftRunning`. The invariant says
  for each phase which entries hold children: while starting exactly those before the loop's
  position, while polling those without a restart to come, while stopping none alive before the
  loop's position.
* **DaemonProofs** — `DaemonTypeCorrect`, `OneDaemonSupervises`, `NobodyReadsLess`,
  `EnsuredAreServed`, `OnlyCommandsMakeVersions`, for any number of daemons and clients. `DaemonInv`
  has the supervisor hold the address (`Owner`); says what a handler has in hand and that an idle
  loop has published everything (`Hand`); that clients queue once and wait for their answers
  (`Line`); that connections are with the supervisor (`Connected`); that what was told is in the
  table or about to be (`Told`), and what a connection owes its client, in the snapshot from the
  moment the loop accepts it (`Owed`): the loop accepts between handlers, after the snapshot is
  published, and that is why an answer sent before is never contradicted; and that in peace whoever
  polls has a daemon that is coming or there (`Sheltered`).
* **ApplyProofs** — `ApplyTypeCorrect`, `AppliesWhatItSays`, `RepeatIsNoop`, `ExportedServiceKept`,
  for any files, profiles, options, tables and number of clients. The first part is about the data:
  whatever the layers hold, merging, overriding, expanding and instantiating give services whose
  timeouts and cluster count are not zero (`DesiredNormal`), and such a service comes out of a start
  request as it went in (`StartedKeeps`), so its fingerprint is the one the client computed. `Typed`
  has every pending action fit what its client asked for (`Fits`): a deletion is of a service that
  is not asked for, anything else of one that is. `AppliesWhatItSays` rests on `Served`: while
  nobody has failed, a service that everybody wants is in the table as described, or some client has
  a start or recreation of it pending; a deletion by one client cannot lose it, as only a
  recreation deletes it, and then the start is pending. It assumes `OneReading`, that clients mean
  the same by a name, which is not so if they read a file with relative paths from different
  directories; the run's clients satisfy it (`MCOneReading`). `RepeatIsNoop` is an action property
  and rests on `Current`: for a client nobody has overtaken, what it asked for is there and runs, or
  is seen to by an action still pending, and with `--prune` nothing else is there that is not to be
  deleted. `ExportedServiceKept` goes through `Redacted`, `Bundled` and `Unbundled` for a normal
  service: what a bundle cannot keep, its checks refuse.
  `ApplyAssumption` says only that numbers in files are numbers, that app names are in the sorted
  list of them, and that a table to begin with has each entry under its name.
  What selecting, ordering and expanding do is proved, although each is a recursion over lists:
  `Inductive` is induction for a set of numbers, from the library's smallest element of one, and
  `JoinsExist` and `DrawsExist` give the recursive functions, which the prover cannot define, step
  by step. So `Flattened`, `OnlyPicks` and `ExpandedClones` say of which service and which number an
  instance is; and `OrderedInOrder`, by counting, that Kahn's algorithm yields each service once,
  after all it needs, unless it is one of a set of services each of which needs another of the set.
* **ApplyProofs**, of the files — `DependenciesComeFirst`, for any file and at any point of an
  apply: what is left of a plan has a service after those it depends on. Its invariant `AllInTurn`
  says that what is left is an end of what was asked for, in the same order, and then the deletions;
  `DesiredWaits` takes the order from `OrderedInOrder` through the
  expansion; `StuckBehindCycle` shows that what cycles leave over are exactly services that depend
  on themselves in the end. A name that two apps share is excepted, since `by_name` keeps the last
  app of a name and nobody waits for the other. `ValidFilesStart`: what `validate` accepts expands
  without a name given twice in whatever order the services are (`OrderedApart`: an instance's name
  depends on its service and number, not on its place), and is accepted by the daemon but for
  `BadNames`, which `validate` does not look at. `ConvertedServicesRunAlike`: an ecosystem file
  loaded, written as an oxfile and loaded again has as many services, and each that is `Fixed` runs
  as before. Setting by setting, `WrittenResolved` shows that what the writer leaves out is what the
  reader supplies: limits, checks, watch and logs come back (`LimitsBack`, `HealthBack`,
  `WatchBack`) since an entry's are already normalised (`EcoShape`), and texts are expanded a second
  time to the same (`LiteralStays`). It assumes `EcoTyped`, that flags are flags, texts lists, and
  `NONE` no value; the parser ensures it, and TLC evaluates it for the files of the run
  (`MCEcoTyped`).
* **OutputProofs** — `OutputTypeCorrect`, `LinesStayInOrder`, `NoLineLost`, `SubscriberCounts`,
  `ReportsAreLatest`, `RetentionKeepsFiles`, for any sizes of files, tail and bus and any number of
  children. None is inductive: they speak of files, and lines are lost or misplaced by writes that
  were handed to the pool before a rotation. `OutputInv` therefore places every line in an inode, in
  which it is or towards which it is on its way: later lines are never in older inodes (`Placed`),
  each is written once (`Once`), names are ordered as inodes are made (`Ranked`), an inode ages only
  after the older ones and after its last write (`Dated`), only lines between a follower's look and
  its `File::create` may be gone (`Saved`), and what a follower showed landed before its place
  (`Following`). The buffer holds the last lines of the child spawned last (`Reported`), and a
  subscriber's cursor counts what it got and missed (`Subscribed`). `RetentionKeeps` rests on
  `Dated`'s last part, that rotated files leave no gap, so that a file that falls off had
  `max_files` newer ones.
* **DashboardProofs** — `DashboardTypeCorrect`, `ActsOnTheMarkedProcess`,
  `DeletesTheConfirmedProcess`, `ClickSelectsTheDrawnProcess` and, of the list itself,
  `ListsEachOnce`: whatever the filter, query and order, each matching process has exactly one row,
  in order. It is proved by counting: the number of processes before one is its row, ranks of
  different processes differ because ids break ties, and an injection of a finite set into as many
  rows takes them all. `DashboardInv` keeps the selection in the visible list (`InList`), ids unique
  in what the daemon lists, the dialog and the viewer apart, and says when the screen is right
  (`Fresh`): unless a redraw is asked for, the frame is the one drawn of the list and the state as
  they are; and while an event is awaited none is. Every handler is shown to end as `Handled` says,
  with a redraw asked for or nothing changed. The three action properties then read the frame where
  the handlers read the state. They are theorems of `Spec`, and so of the fair `FairSpec` the run
  uses.

Every invariant and every action property of a passing run is stated by a theorem. Only
model-checked is liveness (`DeathIsNoticed`, `RestartCompletes`, `StoppedDies`,
`DetectedChangeRestarts`, `SignalStops`, `RestartHappens`, `RequestsEnd`, `ShutdownEnds`,
`ScreenCatchesUp`), which needs fairness and ENABLED, out of the prover's reach. Under failing saves
`RevivedByCommandOnly` is about what the daemon knows: a stop whose save failed was answered with an
error, and a crash afterwards brings the old desired state back.

## 6. Not modelled

* **Times**: backoff, jitter, the age of the crash-loop window, health intervals and timeouts.
  Timers may fire at any moment, which includes every schedule; that a delay has the right length is
  arithmetic that unit tests reach.
* **Pids used again**, and **a crash inside a handler**: in the second the child just spawned is in
  no record, as the code stands.
* **The git checkout**, the **health counter**, **files set aside as corrupt**, **resource
  figures**, **cgroup files**.
* **Syntax and wording**: parsing of TOML, JSON, command lines and HTTP, rendering, colours, the
  bundle's encoding, remote bundles, hashing.
* **Front ends**: deploy, service and startup files, doctor, web pages, packaging; straight-line
  programs that keep no state others depend on.

## 7. What could come next

1. A module of the handlers split at their awaits, with a crash between any two.
2. The git checkout: HEAD before and after, and retries after a failed reload; the health counter
   and the pid test after the check's await.
3. The conversion of texts that are not literal, once it is decided whether a dollar sign should
   survive it.

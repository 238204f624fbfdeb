------------------------------- MODULE Output -------------------------------
(***************************************************************************)
(* What the children of one process print, and where it goes: the pipes    *)
(* the daemon forwards (process_manager.rs), the log file with its         *)
(* rotation and retention (logging.rs), the stderr tail of a crash report, *)
(* the event bus and its socket (daemon.rs, events.rs), and the clients    *)
(* that follow the file (commands/logs.rs, daemon/http.rs).                *)
(*                                                                         *)
(* A line is its number in the order of arrival; said[n] is the child it   *)
(* came from.  A file is an inode: inodes are numbered as they are made,   *)
(* and an open one outlives its name.                                      *)
(***************************************************************************)
EXTENDS Naturals, Sequences, FiniteSets, Functions

CONSTANTS NONE,
          MaxSize,         \* max_size_bytes, in lines; 0 turns rotation off
          MaxFiles,        \* max_files; 0 turns rotation off
          TailCapacity,    \* STDERR_TAIL_CAPACITY
          BusCapacity,     \* BUS_CAPACITY
          MaxSpawns,       \* bound: children
          MaxLines         \* bound: lines

ASSUME OutputAssumption ==
    /\ NONE \notin Nat
    /\ {MaxSize, MaxFiles, MaxSpawns, MaxLines} \subseteq Nat
    /\ {TailCapacity, BusCapacity} \subseteq Nat \ {0}

VARIABLES files,     \* suffix |-> inode; 0 is the log itself
          content,   \* inode |-> its lines
          aged,      \* inodes not written for max_age_days
          said,      \* line |-> child
          inflight,  \* writes handed to the blocking pool: [line, inode]
          spawned,   \* children so far
          buffer,    \* the stderr buffer of the child spawned last
          managed,   \* the child whose pid the process has
          report,    \* the last crash report: [child, tail]
          follower,  \* [pc, inode, pos, shown, since, until]
          sub,       \* a subscriber: [pc, from, next, got, missed]
          watched    \* what is looked at: "file", "bus" or "report"

vars == <<files, content, aged, said, inflight, spawned, buffer, managed, report, follower,
          sub, watched>>
disk == <<files, content, aged>>
children == <<spawned, buffer, managed, report>>
\* Those who look do not meet: one of them at a time is enough.
watchers == <<follower, sub, watched>>
Watch(what) == watched = what /\ UNCHANGED watched

Names == 0..(MaxFiles + 1)
Inodes   == 1..Len(content)
OnDisk   == {files[i] : i \in Names} \ {NONE}
Lines    == 1..Len(said)

-----------------------------------------------------------------------------
(* prepare_log_files: rotation and retention, before a child is spawned.   *)

Full ==
    /\ MaxSize > 0 /\ MaxFiles > 0
    /\ files[0] # NONE /\ Len(content[files[0]]) >= MaxSize

\* A slip: the files are renamed from the newest to the oldest.
Shifted_Upwards ==
    [i \in Names |-> IF i = 1 THEN files[0]
                        ELSE IF i = MaxFiles + 1 THEN files[i] ELSE NONE]

Shifted ==
    [i \in Names |-> IF i = 0 THEN NONE
                        ELSE IF i = MaxFiles + 1 THEN files[i] ELSE files[i - 1]]

Rotated == IF Full THEN Shifted ELSE files

\* Retention looks at the rotated files, never at the log itself.
Kept(named) ==
    [i \in Names |-> IF i > 0 /\ (i > MaxFiles \/ named[i] \in aged)
                        THEN NONE ELSE named[i]]

\* spawn_child, for the first child, a restart, or a reload beside the old one.  The
\* process's name gets a new stderr buffer.
Spawn ==
    /\ spawned < MaxSpawns
    /\ spawned' = spawned + 1
    /\ buffer' = <<>>
    /\ files' = Kept(Rotated)
    /\ UNCHANGED <<content, aged, said, inflight, managed, report, watchers>>

\* The new child is the process's; a reload that fails leaves it the old one.
Adopt ==
    /\ Watch("report")
    /\ spawned > 0 /\ spawned \notin {managed, report.child}
    /\ managed' = spawned
    /\ UNCHANGED <<disk, said, inflight, spawned, buffer, report, watchers>>

-----------------------------------------------------------------------------
(* forward_log_pipe.                                                       *)

\* A slip: a renamed log is taken back.
Opened_Back ==
    IF files[0] # NONE THEN files[0]
    ELSE IF files[1] # NONE THEN files[1] ELSE Len(content) + 1

\* The log is opened for each line, and made if it has been renamed.
Opened == IF files[0] = NONE THEN Len(content) + 1 ELSE files[0]
Made ==
    IF files[0] = NONE
    THEN files' = [files EXCEPT ![0] = Opened] /\ content' = Append(content, <<>>)
    ELSE UNCHANGED <<files, content>>

\* The stderr buffer drops its first line when it is full.  A pipe of an earlier child
\* still fills the buffer it was given, which nobody reads any more.
Pushed(line) ==
    Append(IF Len(buffer) >= TailCapacity THEN Tail(buffer) ELSE buffer, line)

\* A slip: one buffer for all children of the process.
Buffered_Shared(c, line) == Pushed(line)
Buffered(c, line) == IF c = spawned THEN Pushed(line) ELSE buffer

\* One line of a child: the write is left to the blocking pool, the stderr
\* buffer and the bus have the line at once.
Forward(c) ==
    /\ Len(said) < MaxLines
    /\ Made
    /\ said' = Append(said, c)
    /\ inflight' = inflight \cup {[line |-> Len(said) + 1, inode |-> Opened]}
    /\ buffer' = Buffered(c, Len(said) + 1)
    /\ UNCHANGED <<aged, spawned, managed, report, watchers>>

\* A slip: the pool writes to whatever has the name by then.
Land_ByName(w) ==
    /\ files[0] # NONE
    /\ content' = [content EXCEPT ![files[0]] = Append(@, w.line)]
    /\ aged' = aged \ {files[0]}
    /\ inflight' = inflight \ {w}
    /\ UNCHANGED <<files, said, children, watchers>>

\* The pool's threads take no order among the writes they hold.
Land(w) ==
    /\ content' = [content EXCEPT ![w.inode] = Append(@, w.line)]
    /\ aged' = aged \ {w.inode}
    /\ inflight' = inflight \ {w}
    /\ UNCHANGED <<files, said, children, watchers>>

\* Days go by.
Age(i) ==
    /\ inflight = {}
    /\ aged' = aged \cup (1..i) /\ aged' # aged
    /\ UNCHANGED <<files, content, said, inflight, children, watchers>>

\* The exit of the child the process has is handled while its pipes may still
\* be draining; the buffer drained is the one made last under the process's name.
Crash ==
    /\ Watch("report")
    /\ managed # NONE
    /\ managed' = NONE
    /\ report' = [child |-> spawned, tail |-> buffer, at |-> Len(said)]
    /\ buffer' = <<>>
    /\ UNCHANGED <<disk, said, inflight, spawned, follower, sub>>

-----------------------------------------------------------------------------
(* oxmgr logs --follow; an HTTP log stream does the same, but never makes  *)
(* the file.                                                               *)

Reading(inode, pos) ==
    follower' = [follower EXCEPT !.pc = "on", !.inode = inode, !.pos = pos]

Follow ==
    /\ Watch("file") /\ follower.pc \in {"off", "made"} /\ files[0] # NONE
    /\ Reading(files[0], Len(content[files[0]]))
    /\ UNCHANGED <<disk, said, inflight, children, sub>>

FollowMissing ==
    /\ Watch("file") /\ follower.pc = "off" /\ files[0] = NONE
    /\ follower' = [follower EXCEPT !.pc = "missing", !.since = Len(said)]
    /\ UNCHANGED <<disk, said, inflight, children, sub>>

\* File::create empties a file that has come to be meanwhile.
FollowCreate ==
    /\ Watch("file") /\ follower.pc = "missing"
    /\ follower' = [follower EXCEPT !.pc = "made", !.until = Len(said)]
    /\ IF files[0] = NONE
       THEN Made /\ UNCHANGED aged
       ELSE /\ content' = [content EXCEPT ![files[0]] = <<>>]
            /\ aged' = aged \ {files[0]}
            /\ UNCHANGED files
    /\ UNCHANGED <<said, inflight, children, sub>>

Read ==
    /\ Watch("file") /\ follower.pc = "on" /\ follower.pos < Len(content[follower.inode])
    /\ LET lines == content[follower.inode] IN
       follower' = [follower EXCEPT
                      !.pos = Len(lines),
                      !.shown = @ \o SubSeq(lines, follower.pos + 1, Len(lines))]
    /\ UNCHANGED <<disk, said, inflight, children, sub>>

\* A slip: any file that is no longer than what was read is another one.
Shorter_OrEqual(inode) == Len(content[inode]) <= follower.pos
Shorter(inode) == Len(content[inode]) < follower.pos

\* Nothing to read: a file shorter than the place in the one that is open has
\* to be another one, or was emptied.
Reopen ==
    /\ Watch("file") /\ follower.pc = "on" /\ follower.pos >= Len(content[follower.inode])
    /\ files[0] # NONE /\ Shorter(files[0])
    /\ Reading(files[0], 0)
    /\ UNCHANGED <<disk, said, inflight, children, sub>>

-----------------------------------------------------------------------------
(* The event socket.  A subscription starts with the connection; the       *)
(* filter is read after that, or half a second later.                      *)

\* A slip: the client is subscribed once its filter has been read.
Connected_Unsubscribed == [sub EXCEPT !.pc = "filter", !.from = Len(said) + 1]
Connected ==
    [sub EXCEPT !.pc = "filter", !.from = Len(said) + 1, !.next = Len(said) + 1]

Subscribe ==
    /\ Watch("bus") /\ sub.pc = "off"
    /\ sub' = Connected
    /\ UNCHANGED <<disk, said, inflight, children, follower>>

FilterRead ==
    /\ Watch("bus") /\ sub.pc = "filter"
    /\ sub' = [sub EXCEPT !.pc = "on", !.next = IF @ = 0 THEN Len(said) + 1 ELSE @]
    /\ UNCHANGED <<disk, said, inflight, children, follower>>

\* The bus keeps its last events; who has fallen behind skips the rest.
Oldest == IF Len(said) > BusCapacity THEN Len(said) - BusCapacity + 1 ELSE 1

Deliver ==
    /\ Watch("bus") /\ sub.pc = "on" /\ sub.next \in Oldest..Len(said)
    /\ sub' = [sub EXCEPT !.got = @ \cup {sub.next}, !.next = @ + 1]
    /\ UNCHANGED <<disk, said, inflight, children, follower>>

Lagged ==
    /\ Watch("bus") /\ sub.pc = "on" /\ sub.next < Oldest
    /\ sub' = [sub EXCEPT !.missed = @ + (Oldest - sub.next), !.next = Oldest]
    /\ UNCHANGED <<disk, said, inflight, children, follower>>

-----------------------------------------------------------------------------
\* max_files may have been larger when the daemon last ran.
Init ==
    /\ \E leftover \in BOOLEAN :
          /\ files = [i \in Names |-> IF leftover /\ i = MaxFiles + 1 THEN 1 ELSE NONE]
          /\ content = IF leftover THEN <<<<>>>> ELSE <<>>
    /\ aged = {} /\ said = <<>> /\ inflight = {}
    /\ watched \in {"file", "bus", "report"}
    /\ spawned = 0 /\ buffer = <<>> /\ managed = NONE
    /\ report = [child |-> NONE, tail |-> <<>>, at |-> 0]
    /\ follower = [pc |-> "off", inode |-> NONE, pos |-> 0, shown |-> <<>>,
                   since |-> 0, until |-> 0]
    /\ sub = [pc |-> "off", from |-> 0, next |-> 0, got |-> {}, missed |-> 0]

Next ==
    \/ Spawn \/ Adopt \/ Crash
    \/ \E c \in (1..spawned) \cap {spawned, spawned - 1} : Forward(c)
    \/ \E w \in inflight : Land(w)
    \/ \E i \in Inodes : Age(i)
    \/ Follow \/ FollowMissing \/ FollowCreate \/ Read \/ Reopen
    \/ Subscribe \/ FilterRead \/ Deliver \/ Lagged

Spec == Init /\ [][Next]_vars

-----------------------------------------------------------------------------
Places == [i \in Inodes |-> Range(content[i]) \cup {w.line : w \in {v \in inflight : v.inode = i}}]

(* The names are of inodes that exist, no two of the same, and the larger  *)
(* the suffix the older the file.                                          *)
TypeOK ==
    /\ files \in [Names -> Inodes \cup {NONE}]
    /\ \A i, j \in Names :
          i < j /\ files[i] # NONE /\ files[j] # NONE => files[i] > files[j]
    /\ aged \subseteq Inodes
    /\ managed \in (1..spawned) \cup {NONE}
    /\ \A w \in inflight : w.inode \in Inodes /\ w.line \in Lines

(* Rotation never puts a line of a child into an older file than the lines *)
(* the child printed before, although writes are under way when the file   *)
(* is renamed and the children of a reload share it.                       *)
FilesInOrder ==
    \A i, j \in Inodes : \A m \in Places[i], n \in Places[j] :
        m < n /\ said[m] = said[n] => i <= j

(* A line is in flight or in the file it was handed to, once, and a        *)
(* follower shows it once, across rotations and re-made files; the only    *)
(* lines that are lost came between a follower's look at the missing file  *)
(* and the moment it made it.                                              *)
LinesKept ==
    /\ \A n \in Lines :
          \/ \E i \in Inodes : n \in Places[i]
          \/ n > follower.since /\ n <= follower.until
    /\ \A i \in Inodes : IsInjective(content[i])
    /\ IsInjective(follower.shown)

(* A log file goes away only when it is too old or as many newer ones as   *)
(* are to be kept were there.                                              *)
RetentionKeeps ==
    [][\A x \in OnDisk \ OnDisk' :
          \/ x \in aged
          \/ Cardinality({y \in OnDisk : y > x}) >= MaxFiles
          \/ x = files[MaxFiles + 1]]_vars

(* An event emitted since the subscriber connected is delivered, still to  *)
(* come, or counted as missed because the bus was full.                    *)
SubscriberMissesNothing ==
    sub.pc = "on" =>
        Cardinality(sub.got) + sub.missed = sub.next - sub.from

(* A crash report ends with the last lines, and no others, that had come   *)
(* from the child spawned last when the exit was handled.                  *)
TailIsLatest ==
    LET lines == {n \in 1..report.at : said[n] = report.child} IN
    /\ Range(report.tail) \subseteq lines
    /\ Len(report.tail) <= TailCapacity
    /\ \A n \in lines \ Range(report.tail) :
          /\ Len(report.tail) = TailCapacity
          /\ \A m \in Range(report.tail) : n < m
=============================================================================

------------------------------- MODULE Daemon -------------------------------
(***************************************************************************)
(* src/daemon.rs, daemon/http.rs and ipc.rs:                               *)
(* daemons that compete for one address, the loop of the one that got it,  *)
(* the tasks that serve its clients, and the command line that starts a    *)
(* daemon when it cannot reach one.                                        *)
(*                                                                         *)
(* The manager's table is a version number: every handler that changes the *)
(* table makes the next version, which is what the state file holds too.   *)
(* What the handlers do is ProcessManager's subject.                       *)
(***************************************************************************)
EXTENDS Naturals, Sequences, FiniteSets

CONSTANTS NONE, Daemons, Clients,
          OWN,             \* the loop's own work: exits, the restart timer, maintenance
          Requests,        \* what clients ask: see Route
          LoginSet,        \* dashboard credentials are configured
          MaxRequests,     \* bound: requests of all clients
          MaxChanges,      \* bound: versions of the table
          MaxChances       \* bound: exits, timers and ticks handled, signals, and deaths

ASSUME DaemonAssumption ==
    /\ NONE \notin Daemons /\ NONE \notin Clients /\ OWN \notin Clients /\ OWN # NONE
    /\ MaxChanges \in Nat

VARIABLES life,      \* daemon |-> how far it has come
          port,      \* who listens for the command line
          api,       \* who listens for HTTP
          table,     \* version of the manager's table
          snapshot,  \* version clients are shown
          job,       \* what the loop is handling: a client's command, OWN or NONE
          queue,     \* commands sent to the loop
          stop,      \* daemon |-> a shutdown was requested of it
          client,    \* client |-> [pc, req, conn, seen, told, base, got]
          background,
          asked,     \* requests made
          crashes

vars == <<life, port, api, table, snapshot, job, queue, stop, client, background,
          asked, crashes>>

bounds == <<background, asked, crashes>>
loop == <<table, snapshot, job, queue>>

-----------------------------------------------------------------------------
(* Requests.  Over IPC: [via |-> "ipc", do |-> "read", "change" or         *)
(* "shutdown"].  Over HTTP: [via |-> "http", method, path, login, secret], *)
(* whose path is "api" (the pages and /api/), "metrics", "stream", "pull"  *)
(* or "other".                                                             *)

\* A slip: a login is asked of those who read.
Unauthorized_Reads(r) ==
    r.path \in {"api", "stream"} /\ r.method = "GET" /\ LoginSet /\ ~r.login
Unauthorized(r) == r.path \in {"api", "stream"} /\ LoginSet /\ ~r.login

\* What becomes of an HTTP request before the loop sees it.
Route(r) ==
    IF r.via = "ipc"
    THEN IF r.do = "read" THEN "read" ELSE "command"
    ELSE CASE Unauthorized(r)  -> "refused"
           [] r.path = "stream" -> "stream"
           [] r.path \in {"api", "metrics"} /\ r.method = "GET" -> "read"
           [] OTHER -> "command"

\* What the loop has to answer; it also looks for a process the snapshot does not show.
Asks(r) == Route(r) = "command" \/ (r.via = "ipc" /\ r.do = "read")

\* Whether the loop's handler of a command changes the table.
Changes(r) ==
    IF r.via = "ipc" THEN r.do = "change"
    ELSE /\ r.method = "POST"
         /\ r.path = "api" \/ (r.path = "pull" /\ r.secret = "right")

-----------------------------------------------------------------------------
(* The life of a daemon.                                                   *)

Starting == {"ping", "bind", "recover"}
Handling == {"busy", "emitted", "answered"}
Looping  == {"idle"} \cup Handling
Alive(d) == life[d] \in Starting \cup Looping \cup {"ending"}
Supervises(d) == life[d] \in {"recover", "ending"} \cup Looping

To(d, next) == life' = [life EXCEPT ![d] = next]

Spawned(d) == life[d] = "unborn" /\ To(d, "ping")

\* daemon_socket_available: a daemon answers a ping if its loop accepts the
\* connection within a quarter of a second; it may always take longer.
Reachable == port # NONE /\ life[port] \in Looping

AlreadyRunning(d) ==
    /\ life[d] = "ping" /\ Reachable
    /\ To(d, "gone")
    /\ UNCHANGED <<port, api, loop, stop, client, bounds>>

PingFails(d) ==
    /\ life[d] = "ping"
    /\ To(d, "bind")
    /\ UNCHANGED <<port, api, loop, stop, client, bounds>>

\* bind_listener, then bind_api_listener.
Bind(d) ==
    /\ life[d] = "bind"
    /\ IF port = NONE /\ api = NONE
       THEN To(d, "recover") /\ port' = d /\ api' = d
       ELSE To(d, "gone") /\ UNCHANGED <<port, api>>
    /\ UNCHANGED <<loop, stop, client, bounds>>

\* recover_processes, the first snapshot, and the loop.
Recover(d) ==
    /\ life[d] = "recover"
    /\ To(d, "idle")
    /\ snapshot' = table
    /\ UNCHANGED <<port, api, table, job, queue, stop, client, bounds>>

\* A slip: clients whose commands were never taken go on waiting.
Cut_Waiting(d, c) ==
    IF client[c].conn = d /\ client[c].pc \in {"backlog", "accepted", "streaming"}
    THEN [client[c] EXCEPT !.pc = "closed", !.conn = NONE] ELSE client[c]

\* What is left of a daemon that is gone: its sockets close, and the tasks that
\* served its clients go with it.
Cut(d, c) ==
    IF client[c].conn = d /\ client[c].pc \in {"backlog", "accepted", "sent", "streaming"}
    THEN [client[c] EXCEPT !.pc = "closed", !.conn = NONE] ELSE client[c]

Forgets(d) ==
    IF life[d] \in Looping \cup {"ending"}
    THEN job' = NONE /\ queue' = <<>>
    ELSE UNCHANGED <<job, queue>>

\* A slip: the HTTP address stays taken.
Closed_HttpLeft(d) ==
    /\ port' = IF port = d THEN NONE ELSE port
    /\ client' = [c \in Clients |-> Cut(d, c)]
    /\ Forgets(d)
    /\ To(d, "gone")
    /\ UNCHANGED api

\* A slip: the IPC address stays taken.
Closed_IpcLeft(d) ==
    /\ api' = IF api = d THEN NONE ELSE api
    /\ client' = [c \in Clients |-> Cut(d, c)]
    /\ Forgets(d)
    /\ To(d, "gone")
    /\ UNCHANGED port

Closed(d) ==
    /\ port' = IF port = d THEN NONE ELSE port
    /\ api' = IF api = d THEN NONE ELSE api
    /\ client' = [c \in Clients |-> Cut(d, c)]
    /\ Forgets(d)
    /\ To(d, "gone")

\* It dies, or an address or the state file is refused to it.
Crash(d) ==
    /\ Alive(d)
    /\ background + crashes < MaxChances /\ crashes' = crashes + 1
    /\ Closed(d)
    /\ UNCHANGED <<table, snapshot, stop, background, asked>>

-----------------------------------------------------------------------------
(* The loop: it accepts connections and takes commands, exits, timers and  *)
(* ticks between handlers, never during one.                               *)

\* A slip: connections are accepted by a task of their own.
Accept_Anytime(c) ==
    /\ client[c].pc = "backlog" /\ life[client[c].conn] \in Looping
    /\ client' = [client EXCEPT ![c].pc = "accepted"]
    /\ UNCHANGED <<life, port, api, loop, stop, bounds>>

Accept(c) ==
    /\ client[c].pc = "backlog" /\ life[client[c].conn] = "idle"
    /\ client' = [client EXCEPT ![c].pc = "accepted"]
    /\ UNCHANGED <<life, port, api, loop, stop, bounds>>

Take(d) ==
    /\ life[d] = "idle" /\ queue # <<>>
    /\ To(d, "busy")
    /\ job' = Head(queue) /\ queue' = Tail(queue)
    /\ UNCHANGED <<port, api, table, snapshot, stop, client, bounds>>

\* An exit, the restart timer or the maintenance tick.
Background(d) ==
    /\ life[d] = "idle"
    /\ background + crashes < MaxChances /\ background' = background + 1
    /\ To(d, "busy") /\ job' = OWN
    /\ UNCHANGED <<port, api, table, snapshot, queue, stop, client, asked, crashes>>

Request == client[job].req
IsShutdown(r) == r.via = "ipc" /\ r.do = "shutdown"
Mutates == IF job = OWN THEN TRUE ELSE Changes(Request)

\* A handler emits its events before or after it changes the table.
Emit(d) ==
    /\ life[d] = "busy" /\ Mutates /\ table < MaxChanges
    /\ To(d, "emitted")
    /\ UNCHANGED <<port, api, table, snapshot, job, queue, stop, client, bounds>>

\* The client learns of the version the table has now.
Learned(c, version, d) ==
    [client[c] EXCEPT !.pc = "answered", !.conn = NONE, !.got = version,
                      !.seen = version, !.told = d]

Answer(d, version) ==
    client' = IF job = OWN THEN client
              ELSE [client EXCEPT ![job] = Learned(job, version, d)]

\* The rest of the handler, and its answer.
Change(d) ==
    /\ life[d] = "emitted"
    /\ To(d, "answered") /\ table' = table + 1 /\ Answer(d, table + 1)
    /\ UNCHANGED <<port, api, snapshot, job, queue, stop, bounds>>

\* The handler fails, or has nothing to change; a shutdown is only noted.
NoChange(d) ==
    /\ life[d] = "busy"
    /\ To(d, "answered") /\ Answer(d, table)
    /\ stop' = [stop EXCEPT ![d] = IF job = OWN THEN @ ELSE @ \/ IsShutdown(Request)]
    /\ UNCHANGED <<port, api, loop, bounds>>

Publish(d) ==
    /\ life[d] = "answered"
    /\ To(d, "idle") /\ snapshot' = table /\ job' = NONE
    /\ UNCHANGED <<port, api, table, queue, stop, client, bounds>>

\* A slip: the listeners are dropped before the processes are stopped.
TakeShutdown_Released(d) ==
    /\ life[d] = "idle" /\ stop[d]
    /\ To(d, "ending") /\ port' = NONE /\ api' = NONE
    /\ UNCHANGED <<loop, stop, client, bounds>>

\* Requested over IPC or by a signal; the listeners stay until the end.
TakeShutdown(d) ==
    /\ life[d] = "idle" /\ stop[d]
    /\ To(d, "ending")
    /\ UNCHANGED <<port, api, loop, stop, client, bounds>>

SignalArrives(d) ==
    /\ life[d] \in Looping /\ ~stop[d]
    /\ background + crashes < MaxChances /\ crashes' = crashes + 1
    /\ stop' = [stop EXCEPT ![d] = TRUE]
    /\ UNCHANGED <<life, port, api, loop, client, background, asked>>

\* shutdown_all is over or has failed, and with it the process.
End(d) ==
    /\ life[d] = "ending"
    /\ Closed(d)
    /\ UNCHANGED <<table, snapshot, stop, bounds>>

-----------------------------------------------------------------------------
(* The tasks that serve accepted connections.                              *)

\* execute_snapshot_request, execute_snapshot_api_request
ServeRead(c) ==
    /\ client[c].pc = "accepted" /\ Route(client[c].req) = "read"
    /\ client' = [client EXCEPT ![c] = Learned(c, snapshot, client[c].conn)]
    /\ UNCHANGED <<life, port, api, loop, stop, bounds>>

ServeRefusal(c) ==
    /\ client[c].pc = "accepted" /\ Route(client[c].req) = "refused"
    /\ client' = [client EXCEPT ![c].pc = "answered", ![c].conn = NONE, ![c].base = 0]
    /\ UNCHANGED <<life, port, api, loop, stop, bounds>>

SendCommand(c) ==
    /\ client[c].pc = "accepted" /\ Asks(client[c].req)
    /\ client' = [client EXCEPT ![c].pc = "sent"]
    /\ queue' = Append(queue, c)
    /\ UNCHANGED <<life, port, api, table, snapshot, job, stop, bounds>>

\* handle_processes_stream: the whole table, again and again.
OpenStream(c) ==
    /\ client[c].pc = "accepted" /\ Route(client[c].req) = "stream"
    /\ client' = [client EXCEPT ![c].pc = "streaming", ![c].got = snapshot]
    /\ UNCHANGED <<life, port, api, loop, stop, bounds>>

StreamTick(c) ==
    /\ client[c].pc = "streaming" /\ client[c].got # snapshot
    /\ client' = [client EXCEPT ![c].got = snapshot]
    /\ UNCHANGED <<life, port, api, loop, stop, bounds>>

-----------------------------------------------------------------------------
(* The clients, one connection a request.  The command line makes sure of  *)
(* a daemon first: ensure_daemon_running.                                  *)

At(c, pc) == client[c].pc = pc
Goes(c, pc) == client' = [client EXCEPT ![c].pc = pc]

Begin(c) ==
    /\ At(c, "new") /\ asked < MaxRequests /\ asked' = asked + 1
    /\ \E r \in Requests :
          client' = [client EXCEPT ![c].req = r,
                                   ![c].pc = IF r.via = "ipc" THEN "asking" ELSE "ready"]
    /\ UNCHANGED <<life, port, api, loop, stop, background, crashes>>

\* Somebody who watches the events knows of a change before it is made.
Hears(c) ==
    /\ At(c, "new") /\ \E d \in Daemons :
          /\ life[d] = "emitted" /\ <<client[c].seen, client[c].told>> # <<table + 1, d>>
          /\ client' = [client EXCEPT ![c].seen = table + 1, ![c].told = d]
    /\ UNCHANGED <<life, port, api, loop, stop, bounds>>

PingAnswered(c) ==
    /\ At(c, "asking") \/ At(c, "polling")
    /\ Reachable
    /\ Goes(c, "ready")
    /\ UNCHANGED <<life, port, api, loop, stop, bounds>>

\* A slip: the client does not wait for the daemon it has started.
SpawnDaemon_NoWait(c) ==
    /\ At(c, "asking")
    /\ \E d \in Daemons : Spawned(d)
    /\ Goes(c, "ready")
    /\ UNCHANGED <<port, api, loop, stop, bounds>>

SpawnDaemon(c) ==
    /\ At(c, "asking")
    /\ \E d \in Daemons : Spawned(d)
    /\ Goes(c, "polling")
    /\ UNCHANGED <<port, api, loop, stop, bounds>>

\* Three hundred polls, while nobody is there and nobody is coming.
GiveUp(c) ==
    /\ At(c, "polling") /\ \A d \in Daemons : ~Alive(d)
    /\ Goes(c, "failed")
    /\ UNCHANGED <<life, port, api, loop, stop, bounds>>

Listener(c) == IF client[c].req.via = "ipc" THEN port ELSE api

Connect(c) ==
    /\ At(c, "ready") /\ Listener(c) # NONE
    /\ client' = [client EXCEPT
                    ![c].pc   = "backlog",
                    ![c].conn = Listener(c),
                    ![c].base = IF client[c].told = Listener(c) THEN client[c].seen ELSE 0]
    /\ UNCHANGED <<life, port, api, loop, stop, bounds>>

Refused(c) ==
    /\ At(c, "ready") /\ Listener(c) = NONE
    /\ Goes(c, "failed")
    /\ UNCHANGED <<life, port, api, loop, stop, bounds>>

NextRequest(c) ==
    /\ At(c, "answered") /\ asked < MaxRequests
    /\ client' = [client EXCEPT ![c].pc = "new", ![c].req = NONE, ![c].base = 0, ![c].got = 0]
    /\ UNCHANGED <<life, port, api, loop, stop, bounds>>

-----------------------------------------------------------------------------
Init ==
    /\ life = [d \in Daemons |-> "unborn"]
    /\ port = NONE /\ api = NONE
    /\ table = 0 /\ snapshot = 0
    /\ job = NONE /\ queue = <<>> /\ stop = [d \in Daemons |-> FALSE]
    /\ client = [c \in Clients |->
                   [pc |-> "new", req |-> NONE, conn |-> NONE, seen |-> 0, told |-> NONE,
                    base |-> 0, got |-> 0]]
    /\ background = 0 /\ asked = 0 /\ crashes = 0

Starts(d) == AlreadyRunning(d) \/ PingFails(d) \/ Bind(d) \/ Recover(d)
Works(d)  == Emit(d) \/ Change(d) \/ NoChange(d) \/ Publish(d)
Picks(d)  == Take(d) \/ TakeShutdown(d)
Serves(c) == ServeRead(c) \/ ServeRefusal(c) \/ SendCommand(c) \/ OpenStream(c)
Reaches(c) == PingAnswered(c) \/ SpawnDaemon(c) \/ GiveUp(c) \/ Connect(c) \/ Refused(c)

Next ==
    \/ \E d \in Daemons :
          \/ Starts(d) \/ Picks(d) \/ Background(d) \/ Works(d)
          \/ End(d) \/ SignalArrives(d) \/ Crash(d)
    \/ \E c \in Clients :
          \/ Begin(c) \/ Reaches(c) \/ Accept(c) \/ Serves(c)
          \/ StreamTick(c) \/ Hears(c) \/ NextRequest(c)

Spec == Init /\ [][Next]_vars

(* Daemons go on, handlers end, and so do the tasks that serve clients.    *)
(* The loop's select! polls its branches in random order, so a branch that *)
(* is ready again and again is taken: strong fairness for each.            *)
Fairness ==
    /\ WF_vars(\E d \in Daemons : Starts(d) \/ Works(d) \/ End(d))
    /\ WF_vars(\E c \in Clients : Reaches(c) \/ Serves(c))
    /\ SF_vars(\E d \in Daemons : Take(d))
    /\ SF_vars(\E d \in Daemons : TakeShutdown(d))
    /\ SF_vars(\E c \in Clients : Accept(c))

FairSpec == Spec /\ Fairness

-----------------------------------------------------------------------------
(* The variables keep their shape, and the loop's hand matches its state.  *)
TypeOK ==
    /\ life \in [Daemons -> {"unborn", "gone", "ending"} \cup Starting \cup Looping]
    /\ port \in Daemons \cup {NONE} /\ api \in Daemons \cup {NONE}
    /\ api # NONE => port = api
    /\ table \in 0..MaxChanges /\ snapshot \in 0..table
    /\ job \in Clients \cup {NONE, OWN}
    /\ \A d \in Daemons : life[d] \in Handling => job # NONE

(* Two daemons never supervise at once: the second would recover, and kill *)
(* as stale, the children of the first.                                    *)
OneSupervisor ==
    \A d, e \in Daemons : Supervises(d) /\ Supervises(e) => d = e

(* What a client reads on a connection it opened after an answer or an     *)
(* event of the same daemon includes what it was told of, although answers *)
(* and events are sent before the snapshot is published.                   *)
ReadAfterSeen ==
    \A c \in Clients :
        client[c].pc \in {"answered", "streaming"} => client[c].got >= client[c].base

(* Only a handler of a command, of a POST or of the loop's own work makes  *)
(* a new version; nobody who only looks, or has no login, ever does.       *)
Asked(r) ==
    IF r.via = "ipc" THEN r.do = "change"
    ELSE r.method = "POST" /\ (r.path = "api" => ~LoginSet \/ r.login)
OnlyCommandsChange ==
    [][table' # table => IF job = OWN THEN TRUE ELSE Asked(Request)]_vars

(* A client that has made sure of a daemon is served, however many clients *)
(* start daemons at the same time, unless one of them has died or was told *)
(* to stop.                                                                *)
Peace == crashes = 0 /\ \A d \in Daemons : ~stop[d]
EnsuredIsServed ==
    Peace => \A c \in Clients :
                client[c].pc \in {"failed", "closed"} => client[c].req.via # "ipc"

(* A request on an open connection comes to an end: it is answered,        *)
(* streamed, or its connection is closed with the daemon.                  *)
RequestsEnd ==
    \A c \in Clients :
        client[c].pc \in {"backlog", "accepted", "sent"} ~>
            client[c].pc \in {"answered", "streaming", "closed"}

(* A daemon that is told to stop does, and frees the address.              *)
Stopping == \E d \in Daemons : port = d /\ stop[d]
ShutdownEnds == Stopping ~> ~Stopping
=============================================================================

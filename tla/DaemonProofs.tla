---------------------------- MODULE DaemonProofs ----------------------------
(***************************************************************************)
(* Proofs about Daemon, for every number of daemons and clients and every  *)
(* set of requests: the variables keep their shape, one daemon supervises  *)
(* at a time, what a client reads is never older than what it was told of, *)
(* a client that made sure of a daemon is served, and only commands change *)
(* the table.                                                              *)
(***************************************************************************)
EXTENDS Daemon, TLAPS

Progress == {"new", "asking", "polling", "ready", "backlog", "accepted", "sent",
             "streaming", "answered", "closed", "failed"}
Client == [pc : Progress, req : Requests \cup {NONE}, conn : Daemons \cup {NONE},
           seen : Nat, told : Daemons \cup {NONE}, base : Nat, got : Nat]

Served == Looping \cup {"ending"}

\* The types; both listeners are one daemon's.
Shape ==
    /\ life \in [Daemons -> {"unborn", "gone", "ending"} \cup Starting \cup Looping]
    /\ port \in Daemons \cup {NONE} /\ api = port
    /\ table \in 0..MaxChanges /\ snapshot \in 0..table
    /\ job \in Clients \cup {NONE, OWN} /\ queue \in Seq(Clients)
    /\ stop \in [Daemons -> BOOLEAN]
    /\ client \in [Clients -> Client]
    /\ background \in Nat /\ asked \in Nat /\ crashes \in Nat

\* Whoever supervises holds the address, and nobody else does.
Owner == \A d \in Daemons : Supervises(d) <=> port = d

\* What the loop has in hand, and what it has published of it.
Hand ==
    \A d \in Daemons :
        /\ life[d] \in Handling => job # NONE
        /\ life[d] = "emitted" =>
              table < MaxChanges /\ (job # OWN => Changes(client[job].req))
        /\ life[d] \in {"busy", "emitted"} /\ job # OWN =>
              client[job].pc = "sent" /\ \A i \in DOMAIN queue : queue[i] # job
        /\ life[d] = "idle" => snapshot = table
        /\ life[d] = "ending" => stop[d]

\* Those in the queue wait for their answers, each at one place.
Line ==
    \A i, j \in DOMAIN queue :
        client[queue[i]].pc = "sent" /\ (queue[i] = queue[j] => i = j)

\* A connection is one with the daemon that supervises.
Connected ==
    \A c \in Clients :
        /\ client[c].pc \in {"backlog", "accepted", "sent", "streaming"} =>
              client[c].conn \in Daemons /\ Supervises(client[c].conn)
        /\ client[c].pc \in {"accepted", "sent", "streaming"} => life[client[c].conn] \in Served
        /\ client[c].pc = "sent" => Asks(client[c].req)

\* What a daemon has told of is in its table, or will be when its handler ends.
Told ==
    \A c \in Clients :
        client[c].told # NONE =>
            /\ life[client[c].told] \in Served \cup {"gone"}
            /\ \/ client[c].seen <= table
               \/ life[client[c].told] = "gone"
               \/ life[client[c].told] = "emitted" /\ client[c].seen = table + 1

\* What a connection owes its client is published before it is accepted.
Owed ==
    \A c \in Clients :
        /\ client[c].pc = "backlog" =>
              client[c].base <= IF client[c].told = client[c].conn THEN client[c].seen ELSE 0
        /\ client[c].pc \in {"accepted", "sent", "streaming"} => client[c].base <= snapshot
        /\ client[c].pc \in {"answered", "streaming"} => client[c].base <= client[c].got

\* While nobody died or was told to stop, a daemon that was there stays.
Sheltered ==
    Peace => \A c \in Clients :
        /\ client[c].pc = "polling" => \E d \in Daemons : Alive(d)
        /\ client[c].pc = "ready" /\ client[c].req.via = "ipc" => port # NONE
        /\ client[c].pc \in {"failed", "closed"} => client[c].req.via # "ipc"

DaemonInv == Shape /\ Owner /\ Hand /\ Line /\ Connected /\ Told /\ Owed /\ Sheltered

-----------------------------------------------------------------------------
(* One lemma per action.                                                   *)

\* The queue is as good as before when nobody in it stops waiting.
LEMMA LineKept ==
    ASSUME Shape, Line, queue' = queue,
           \A k \in Clients : client[k].pc = "sent" => client'[k].pc = "sent"
    PROVE  Line'
  BY DEF Shape, Line

\* c's record is the only one that may change.
OnlyChanges(c) ==
    /\ client' = [k \in Clients |-> client'[k]]
    /\ \A k \in Clients : k # c => client'[k] = client[k]

LEMMA Versions ==
    ASSUME Shape
    PROVE  table \in Nat /\ snapshot \in Nat /\ snapshot <= table
  BY DaemonAssumption DEF Shape

LEMMA HeadTail ==
    ASSUME Shape, queue # <<>>
    PROVE  /\ 1 \in DOMAIN queue /\ Head(queue) = queue[1]
           /\ Head(queue) \in Clients /\ Tail(queue) \in Seq(Clients)
           /\ \A i \in DOMAIN Tail(queue) :
                 i + 1 \in DOMAIN queue /\ i + 1 # 1 /\ Tail(queue)[i] = queue[i + 1]
  BY DEF Shape

LEMMA ClientTyped ==
    ASSUME Shape, NEW c \in Clients, OnlyChanges(c), client'[c] \in Client
    PROVE  client' \in [Clients -> Client]
  BY DEF Shape, OnlyChanges

\* A client goes on to another state.
LEMMA GoesTyped ==
    ASSUME Shape, NEW c \in Clients, NEW pc \in Progress,
           client' = [client EXCEPT ![c].pc = pc]
    PROVE  client' \in [Clients -> Client]
<1>1. client[c] \in Client
  BY DEF Shape
<1>2. [client[c] EXCEPT !.pc = pc] \in Client
  BY <1>1 DEF Client
<1>3. client' = [client EXCEPT ![c] = [client[c] EXCEPT !.pc = pc]]
  OBVIOUS
<1>4. client \in [Clients -> Client]
  BY DEF Shape
<1>5. QED
  BY <1>2, <1>3, <1>4

OpenTo(d, c) ==
    client[c].conn = d /\ client[c].pc \in {"backlog", "accepted", "sent", "streaming"}

\* What is left of a client's connection when d is gone.
LEMMA CutCases ==
    ASSUME Shape, NEW d \in Daemons, NEW c \in Clients
    PROVE  \/ ~OpenTo(d, c) /\ Cut(d, c) = client[c]
           \/ /\ OpenTo(d, c)
              /\ Cut(d, c) \in Client /\ Cut(d, c).pc = "closed"
              /\ Cut(d, c).base = client[c].base /\ Cut(d, c).seen = client[c].seen
              /\ Cut(d, c).told = client[c].told /\ Cut(d, c).req = client[c].req
  <1>1. client[c] \in Client
    BY DEF Shape
  <1>2. QED
    BY <1>1 DEF Cut, OpenTo, Client, Progress

\* Crash and End.
LEMMA ClosedKeeps ==
    ASSUME DaemonInv, NEW d \in Daemons, Alive(d), Closed(d),
           UNCHANGED <<table, snapshot, stop, asked>>,
           background' \in Nat, crashes' \in Nat, ~Peace'
    PROVE  DaemonInv'
<1>1. Shape'
  <2>1. client' \in [Clients -> Client]
    BY CutCases DEF DaemonInv, Shape, Closed
  <2>2. life' \in [Daemons -> {"unborn", "gone", "ending"} \cup Starting \cup Looping]
    BY DEF DaemonInv, Shape, Closed, To
  <2>3. queue' \in Seq(Clients) /\ job' \in Clients \cup {NONE, OWN}
    <3>1. CASE life[d] \in Looping \cup {"ending"}
      BY <3>1 DEF Closed, Forgets
    <3>2. CASE life[d] \notin Looping \cup {"ending"}
      BY <3>2 DEF DaemonInv, Shape, Closed, Forgets
    <3>3. QED
      BY <3>1, <3>2
  <2>4. QED
    BY <2>1, <2>2, <2>3 DEF DaemonInv, Shape, Closed
<1>2. Owner'
  BY DaemonAssumption DEF DaemonInv, Shape, Owner, Supervises, Starting, Handling, Looping,
     Closed, To
<1>3. \/ queue' = <<>> /\ job' = NONE /\ life[d] \in Served
      \/ UNCHANGED <<queue, job>> /\ life[d] \notin Served
  BY DEF Closed, Forgets, Served
<1>4. \A c \in Clients : client'[c] = Cut(d, c)
  BY DEF Closed
<1>5. \A c \in Clients : client[c].pc = "sent" /\ life[d] \notin Served => client'[c] = client[c]
  BY <1>4, CutCases DEF DaemonInv, Connected, OpenTo
<1>6. \A e \in Daemons : e # d => life'[e] = life[e]
  BY DEF DaemonInv, Shape, Closed, To
<1>7. life'[d] = "gone"
  BY DEF DaemonInv, Shape, Closed, To
<1>8. Hand'
  <2>1. \A e \in Daemons : life'[e] \in Served =>
          e # d /\ life'[e] = life[e] /\ UNCHANGED <<queue, job>> /\ life[d] \notin Served
    <3>1. "gone" \notin Served
      BY DEF Served, Looping, Handling
    <3>2. \A e \in Daemons : e # d => ~(life[e] \in Served /\ life[d] \in Served)
      BY DEF DaemonInv, Owner, Supervises, Served
    <3>3. QED
      BY <3>1, <3>2, <1>3, <1>6, <1>7
  <2>2. \A e \in Daemons : life'[e] \in {"busy",
     "emitted"} /\ job # OWN => client'[job] = client[job]
    BY <2>1, <1>5 DEF DaemonInv, Shape, Hand, Served, Looping, Handling
  <2>3. UNCHANGED <<table, snapshot, stop>>
    OBVIOUS
  <2>4. QED
    BY <2>1, <2>2, <2>3 DEF DaemonInv, Hand, Served, Looping, Handling
<1>9. Line'
  <2>1. CASE queue' = <<>>
    BY <2>1 DEF Line
  <2>2. CASE UNCHANGED queue /\ life[d] \notin Served
    BY <2>2, <1>5, LineKept DEF DaemonInv
  <2>3. QED
    BY <1>3, <2>1, <2>2
<1>10. Connected'
  BY <1>4, <1>6, CutCases DEF DaemonInv, Connected, OpenTo, Supervises
<1>11. Told'
  <2>1. \A c \in Clients : client'[c].told = client[c].told /\ client'[c].seen = client[c].seen
    BY <1>4, CutCases DEF DaemonInv
  <2>2. \A c \in Clients : client[c].told # NONE => client[c].told \in Daemons
    BY DEF DaemonInv, Shape, Client
  <2>3. QED
    BY <2>1, <2>2, <1>6, <1>7 DEF DaemonInv, Told, Served
<1>12. Owed'
  BY <1>4, CutCases DEF DaemonInv, Owed, Shape, Closed
<1>13. Sheltered'
  BY DEF Sheltered
<1>14. QED
  BY <1>1, <1>2, <1>8, <1>9, <1>10, <1>11, <1>12, <1>13 DEF DaemonInv

LEMMA CrashKeeps ==
    ASSUME DaemonInv, NEW d \in Daemons, Crash(d)
    PROVE  DaemonInv'
<1>1. crashes' # 0 /\ crashes' \in Nat
  BY DEF DaemonInv, Shape, Crash
<1>2. QED
  BY <1>1, ClosedKeeps DEF Crash, DaemonInv, Shape, Peace

LEMMA EndKeeps ==
    ASSUME DaemonInv, NEW d \in Daemons, End(d)
    PROVE  DaemonInv'
<1>1. stop'[d]
  BY DEF DaemonInv, Hand, End
<1>2. QED
  BY <1>1, ClosedKeeps DEF End, DaemonInv, Shape, Peace, Alive, bounds

LEMMA AlreadyRunningKeeps ==
    ASSUME DaemonInv, NEW d \in Daemons, AlreadyRunning(d)
    PROVE  DaemonInv'
<1>1. Shape'
  BY DaemonAssumption DEF DaemonInv, Shape, Client, Progress, Starting, Handling, Looping,
     Served, AlreadyRunning, Reachable, To, loop, bounds
<1>2. Owner'
  BY DaemonAssumption DEF DaemonInv, Shape, Owner, Supervises, Starting, Handling, Looping,
     Served, AlreadyRunning, Reachable, To, loop, bounds
<1>3. Hand'
  BY DaemonAssumption DEF DaemonInv, Shape, Owner, Hand, Supervises, Starting, Handling,
     Looping, Served, AlreadyRunning, Reachable, To, loop, bounds
<1>4. Line'
  BY DaemonAssumption DEF DaemonInv, Shape, Line, Hand, Client, AlreadyRunning, Reachable, To,
     loop, bounds
<1>5. Connected'
  BY DaemonAssumption DEF DaemonInv, Shape, Connected, Client, Owner, Supervises, Starting,
     Handling, Looping, Served, AlreadyRunning, Reachable, To, loop, bounds
<1>6. Told'
  BY DaemonAssumption DEF DaemonInv, Shape, Told, Client, Owner, Supervises, Starting,
     Handling, Looping, Served, AlreadyRunning, Reachable, To, loop, bounds
<1>7. Owed'
  BY DaemonAssumption DEF DaemonInv, Shape, Owed, Client, AlreadyRunning, Reachable, To, loop,
     bounds
<1>8. Sheltered'
  BY DaemonAssumption DEF DaemonInv, Shape, Sheltered, Client, Peace, Owner, Supervises,
     Alive, Starting, Handling, Looping, Served, AlreadyRunning, Reachable, To, loop, bounds
<1>9. QED  BY <1>1, <1>2, <1>3, <1>4, <1>5, <1>6, <1>7, <1>8 DEF DaemonInv

LEMMA PingFailsKeeps ==
    ASSUME DaemonInv, NEW d \in Daemons, PingFails(d)
    PROVE  DaemonInv'
<1>1. Shape'
  BY DaemonAssumption DEF DaemonInv, Shape, Client, Progress, Starting, Handling, Looping,
     Served, PingFails, To, loop, bounds
<1>2. Owner'
  BY DaemonAssumption DEF DaemonInv, Shape, Owner, Supervises, Starting, Handling, Looping,
     Served, PingFails, To, loop, bounds
<1>3. Hand'
  BY DaemonAssumption DEF DaemonInv, Shape, Owner, Hand, Supervises, Starting, Handling,
     Looping, Served, PingFails, To, loop, bounds
<1>4. Line'
  BY DaemonAssumption DEF DaemonInv, Shape, Line, Hand, Client, PingFails, To, loop, bounds
<1>5. Connected'
  BY DaemonAssumption DEF DaemonInv, Shape, Connected, Client, Owner, Supervises, Starting,
     Handling, Looping, Served, PingFails, To, loop, bounds
<1>6. Told'
  BY DaemonAssumption DEF DaemonInv, Shape, Told, Client, Owner, Supervises, Starting,
     Handling, Looping, Served, PingFails, To, loop, bounds
<1>7. Owed'
  BY DaemonAssumption DEF DaemonInv, Shape, Owed, Client, PingFails, To, loop, bounds
<1>8. Sheltered'
  BY DaemonAssumption DEF DaemonInv, Shape, Sheltered, Client, Peace, Owner, Supervises,
     Alive, Starting, Handling, Looping, Served, PingFails, To, loop, bounds
<1>9. QED  BY <1>1, <1>2, <1>3, <1>4, <1>5, <1>6, <1>7, <1>8 DEF DaemonInv

LEMMA BindKeeps ==
    ASSUME DaemonInv, NEW d \in Daemons, Bind(d)
    PROVE  DaemonInv'
<1>1. Shape'
  BY DaemonAssumption DEF DaemonInv, Shape, Client, Progress, Starting, Handling, Looping,
     Served, Bind, To, loop, bounds
<1>2. Owner'
  BY DaemonAssumption DEF DaemonInv, Shape, Owner, Supervises, Starting, Handling, Looping,
     Served, Bind, To, loop, bounds
<1>3. Hand'
  BY DaemonAssumption DEF DaemonInv, Shape, Owner, Hand, Supervises, Starting, Handling,
     Looping, Served, Bind, To, loop, bounds
<1>4. Line'
  BY DaemonAssumption DEF DaemonInv, Shape, Line, Hand, Client, Bind, To, loop, bounds
<1>5. Connected'
  BY DaemonAssumption DEF DaemonInv, Shape, Connected, Client, Owner, Supervises, Starting,
     Handling, Looping, Served, Bind, To, loop, bounds
<1>6. Told'
  BY DaemonAssumption DEF DaemonInv, Shape, Told, Client, Owner, Supervises, Starting,
     Handling, Looping, Served, Bind, To, loop, bounds
<1>7. Owed'
  BY DaemonAssumption DEF DaemonInv, Shape, Owed, Client, Bind, To, loop, bounds
<1>8. Sheltered'
  BY DaemonAssumption DEF DaemonInv, Shape, Sheltered, Client, Peace, Owner, Supervises,
     Alive, Starting, Handling, Looping, Served, Bind, To, loop, bounds
<1>9. QED  BY <1>1, <1>2, <1>3, <1>4, <1>5, <1>6, <1>7, <1>8 DEF DaemonInv

LEMMA RecoverKeeps ==
    ASSUME DaemonInv, NEW d \in Daemons, Recover(d)
    PROVE  DaemonInv'
<1>1. Shape'
  BY DaemonAssumption DEF DaemonInv, Shape, Client, Progress, Starting, Handling, Looping,
     Served, Recover, To, bounds
<1>2. Owner'
  BY DaemonAssumption DEF DaemonInv, Shape, Owner, Supervises, Starting, Handling, Looping,
     Served, Recover, To, bounds
<1>3. Hand'
  BY DaemonAssumption DEF DaemonInv, Shape, Owner, Hand, Supervises, Starting, Handling,
     Looping, Served, Recover, To, bounds
<1>4. Line'
  BY DaemonAssumption DEF DaemonInv, Shape, Line, Hand, Client, Recover, To, bounds
<1>5. Connected'
  BY DaemonAssumption DEF DaemonInv, Shape, Connected, Client, Owner, Supervises, Starting,
     Handling, Looping, Served, Recover, To, bounds
<1>6. Told'
  BY DaemonAssumption DEF DaemonInv, Shape, Told, Client, Owner, Supervises, Starting,
     Handling, Looping, Served, Recover, To, bounds
<1>7. Owed'
  BY DaemonAssumption DEF DaemonInv, Shape, Owed, Client, Recover, To, bounds
<1>8. Sheltered'
  BY DaemonAssumption DEF DaemonInv, Shape, Sheltered, Client, Peace, Owner, Supervises,
     Alive, Starting, Handling, Looping, Served, Recover, To, bounds
<1>9. QED  BY <1>1, <1>2, <1>3, <1>4, <1>5, <1>6, <1>7, <1>8 DEF DaemonInv

LEMMA AcceptKeeps ==
    ASSUME DaemonInv, NEW c \in Clients, Accept(c)
    PROVE  DaemonInv'
<1>1. Shape'
  <2>1. client' \in [Clients -> Client]
    BY GoesTyped DEF DaemonInv, Accept, Progress
  <2>2. QED
    BY <2>1 DEF DaemonInv, Shape, Accept, loop, bounds
<1>2. Owner'
  BY DaemonAssumption DEF DaemonInv, Shape, Owner, Supervises, Starting, Handling, Looping,
     Served, Accept, loop, bounds
<1>3. Hand'
  BY DaemonAssumption DEF DaemonInv, Shape, Owner, Hand, Supervises, Starting, Handling,
     Looping, Served, Accept, loop, bounds
<1>4. Line'
  <2>1. queue' = queue /\ \A k \in Clients : client[k].pc = "sent" => client'[k].pc = "sent"
    BY DEF DaemonInv, Shape, Accept, loop, bounds
  <2>2. QED
    BY <2>1, LineKept DEF DaemonInv
<1>5. Connected'
  BY DaemonAssumption DEF DaemonInv, Shape, Connected, Client, Owner, Supervises, Starting,
     Handling, Looping, Served, Accept, loop, bounds
<1>6. Told'
  BY DaemonAssumption DEF DaemonInv, Shape, Told, Client, Owner, Supervises, Starting,
     Handling, Looping, Served, Accept, loop, bounds
<1>7. Owed'
  <2>1. client[c].conn \in Daemons /\ snapshot = table
    BY DEF DaemonInv, Connected, Hand, Accept
  <2>2. client[c].base <= snapshot
    <3>1. client[c].base \in Nat /\ client[c].seen \in Nat
      BY DEF DaemonInv, Shape, Client
    <3>2. CASE client[c].told = client[c].conn
      <4>1. client[c].seen <= table
        BY <2>1, <3>2, DaemonAssumption DEF DaemonInv, Told, Accept
      <4>2. QED
        BY <2>1, <3>1, <3>2, <4>1, Versions DEF DaemonInv, Owed, Accept
    <3>3. CASE client[c].told # client[c].conn
      BY <3>1, <3>3, Versions DEF DaemonInv, Owed, Accept
    <3>4. QED
      BY <3>2, <3>3
  <2>3. QED
    BY <2>2 DEF DaemonInv, Shape, Owed, Accept, loop
<1>8. Sheltered'
  BY DaemonAssumption DEF DaemonInv, Shape, Sheltered, Client, Peace, Owner, Supervises,
     Alive, Starting, Handling, Looping, Served, Accept, loop, bounds
<1>9. QED  BY <1>1, <1>2, <1>3, <1>4, <1>5, <1>6, <1>7, <1>8 DEF DaemonInv

LEMMA TakeKeeps ==
    ASSUME DaemonInv, NEW d \in Daemons, Take(d)
    PROVE  DaemonInv'
<1>1. Shape'
  BY DaemonAssumption DEF DaemonInv, Shape, Client, Progress, Starting, Handling, Looping,
     Served, Take, To, bounds
<1>2. Owner'
  BY DaemonAssumption DEF DaemonInv, Shape, Owner, Supervises, Starting, Handling, Looping,
     Served, Take, To, bounds
<1>3. Hand'
  <2>1. Head(queue) \in Clients /\ client[Head(queue)].pc = "sent"
    BY HeadTail DEF DaemonInv, Line, Take
  <2>2. \A i \in DOMAIN Tail(queue) : Tail(queue)[i] # Head(queue)
    BY HeadTail DEF DaemonInv, Line, Take
  <2>3. \A e \in Daemons : e # d => life[e] \notin Served
    BY DEF DaemonInv, Owner, Supervises, Take, Served, Looping
  <2>4. QED
    BY <2>1, <2>2, <2>3, DaemonAssumption
    DEF DaemonInv, Shape, Hand, Take, To, bounds, Served, Looping, Handling
<1>4. Line'
  <2>1. queue # <<>> /\ queue' = Tail(queue) /\ client' = client
    BY DEF Take
  <2>2. \A i \in DOMAIN Tail(queue) : i \in Nat
    BY HeadTail, <2>1 DEF DaemonInv
  <2>3. QED
    BY <2>1, <2>2, HeadTail DEF DaemonInv, Line
<1>5. Connected'
  BY DaemonAssumption DEF DaemonInv, Shape, Connected, Client, Owner, Supervises, Starting,
     Handling, Looping, Served, Take, To, bounds
<1>6. Told'
  BY DaemonAssumption DEF DaemonInv, Shape, Told, Client, Owner, Supervises, Starting,
     Handling, Looping, Served, Take, To, bounds
<1>7. Owed'
  BY DaemonAssumption DEF DaemonInv, Shape, Owed, Client, Take, To, bounds
<1>8. Sheltered'
  BY DaemonAssumption DEF DaemonInv, Shape, Sheltered, Client, Peace, Owner, Supervises,
     Alive, Starting, Handling, Looping, Served, Take, To, bounds
<1>9. QED  BY <1>1, <1>2, <1>3, <1>4, <1>5, <1>6, <1>7, <1>8 DEF DaemonInv

LEMMA BackgroundKeeps ==
    ASSUME DaemonInv, NEW d \in Daemons, Background(d)
    PROVE  DaemonInv'
<1>1. Shape'
  BY DaemonAssumption DEF DaemonInv, Shape, Client, Progress, Starting, Handling, Looping,
     Served, Background, To
<1>2. Owner'
  BY DaemonAssumption DEF DaemonInv, Shape, Owner, Supervises, Starting, Handling, Looping,
     Served, Background, To
<1>3. Hand'
  BY DaemonAssumption DEF DaemonInv, Shape, Owner, Hand, Supervises, Starting, Handling,
     Looping, Served, Background, To
<1>4. Line'
  BY DaemonAssumption DEF DaemonInv, Shape, Line, Hand, Client, Background, To
<1>5. Connected'
  BY DaemonAssumption DEF DaemonInv, Shape, Connected, Client, Owner, Supervises, Starting,
     Handling, Looping, Served, Background, To
<1>6. Told'
  BY DaemonAssumption DEF DaemonInv, Shape, Told, Client, Owner, Supervises, Starting,
     Handling, Looping, Served, Background, To
<1>7. Owed'
  BY DaemonAssumption DEF DaemonInv, Shape, Owed, Client, Background, To
<1>8. Sheltered'
  BY DaemonAssumption DEF DaemonInv, Shape, Sheltered, Client, Peace, Owner, Supervises,
     Alive, Starting, Handling, Looping, Served, Background, To
<1>9. QED  BY <1>1, <1>2, <1>3, <1>4, <1>5, <1>6, <1>7, <1>8 DEF DaemonInv

LEMMA EmitKeeps ==
    ASSUME DaemonInv, NEW d \in Daemons, Emit(d)
    PROVE  DaemonInv'
<1>1. Shape'
  BY DaemonAssumption DEF DaemonInv, Shape, Client, Progress, Starting, Handling, Looping,
     Served, Emit, To, bounds, Mutates, Request
<1>2. Owner'
  BY DaemonAssumption DEF DaemonInv, Shape, Owner, Supervises, Starting, Handling, Looping,
     Served, Emit, To, bounds, Mutates, Request
<1>3. Hand'
  BY DaemonAssumption DEF DaemonInv, Shape, Owner, Hand, Supervises, Starting, Handling,
     Looping, Served, Emit, To, bounds, Mutates, Request
<1>4. Line'
  BY DaemonAssumption DEF DaemonInv, Shape, Line, Hand, Client, Emit, To, bounds, Mutates,
     Request
<1>5. Connected'
  BY DaemonAssumption DEF DaemonInv, Shape, Connected, Client, Owner, Supervises, Starting,
     Handling, Looping, Served, Emit, To, bounds, Mutates, Request
<1>6. Told'
  BY DaemonAssumption DEF DaemonInv, Shape, Told, Client, Owner, Supervises, Starting,
     Handling, Looping, Served, Emit, To, bounds, Mutates, Request
<1>7. Owed'
  BY DaemonAssumption DEF DaemonInv, Shape, Owed, Client, Emit, To, bounds, Mutates, Request
<1>8. Sheltered'
  BY DaemonAssumption DEF DaemonInv, Shape, Sheltered, Client, Peace, Owner, Supervises,
     Alive, Starting, Handling, Looping, Served, Emit, To, bounds, Mutates, Request
<1>9. QED  BY <1>1, <1>2, <1>3, <1>4, <1>5, <1>6, <1>7, <1>8 DEF DaemonInv

LEMMA AnswerCases ==
    ASSUME DaemonInv, NEW d \in Daemons, NEW version \in Nat,
           life[d] \in {"busy", "emitted"}, Answer(d, version)
    PROVE  \/ job = OWN /\ client' = client
           \/ /\ job \in Clients /\ job # OWN /\ OnlyChanges(job)
              /\ client[job].pc = "sent" /\ client[job].base <= snapshot
              /\ client'[job] \in Client /\ client'[job].pc = "answered"
              /\ client'[job].base = client[job].base /\ client'[job].got = version
              /\ client'[job].seen = version /\ client'[job].told = d
              /\ client'[job].req = client[job].req
<1>1. CASE job = OWN
  BY <1>1 DEF Answer
<1>2. CASE job # OWN
  <2>1. job \in Clients /\ client[job].pc = "sent"
    BY <1>2 DEF DaemonInv, Shape, Hand, Handling
  <2>2. client[job].base <= snapshot
    BY <2>1 DEF DaemonInv, Owed
  <2>3. client[job] \in Client /\ client \in [Clients -> Client]
    BY <2>1 DEF DaemonInv, Shape
  <2>4. client' = [client EXCEPT ![job] = Learned(job, version, d)]
    BY <1>2 DEF Answer
  <2>5. OnlyChanges(job)
    BY <2>1, <2>3, <2>4 DEF OnlyChanges
  <2>6. client'[job] = Learned(job, version, d)
    BY <2>1, <2>3, <2>4
  <2>7. QED
    BY <1>2, <2>1, <2>2, <2>3, <2>5, <2>6 DEF Learned, Client, Progress
<1>3. QED
  BY <1>1, <1>2

LEMMA ChangeKeeps ==
    ASSUME DaemonInv, NEW d \in Daemons, Change(d)
    PROVE  DaemonInv'
<1> DEFINE version == table + 1
<1>0. version \in Nat /\ life[d] \in {"busy", "emitted"} /\ Answer(d, version)
  BY Versions DEF DaemonInv, Change
<1>a. table \in Nat /\ snapshot \in Nat /\ snapshot <= table /\ table <= version
  BY Versions DEF DaemonInv
<1>b. \A e \in Daemons : e # d => life[e] \notin Served /\ life'[e] = life[e]
  BY DEF DaemonInv, Shape, Owner, Supervises, Change, To, Served, Looping, Handling
<1>c. life'[d] = "answered" /\ table' = version /\ snapshot' = snapshot
  BY DEF DaemonInv, Shape, Change, To, loop
<1> HIDE DEF version
<1>1. Shape'
  <2>1. client' \in [Clients -> Client]
    BY <1>0, AnswerCases, ClientTyped DEF DaemonInv, Shape
  <2>2. version \in 0..MaxChanges
    BY DaemonAssumption DEF DaemonInv, Shape, Hand, Change, version
  <2>3. QED
    BY <1>a, <1>c, <2>1, <2>2 DEF DaemonInv, Shape, Looping, Handling, Starting, Change, To,
       loop, bounds, IsShutdown
<1>2. Owner'
  BY DaemonAssumption DEF DaemonInv, Shape, Owner, Supervises, Starting, Handling, Looping,
     Served, Change, To, bounds, Answer, Learned
<1>3. Hand'
  BY DaemonAssumption DEF DaemonInv, Shape, Owner, Hand, Supervises, Starting, Handling,
     Looping, Served, Change, To, bounds, Answer, Learned
<1>4. Line'
  <2>1. queue' = queue /\ queue \in Seq(Clients)
    BY DEF DaemonInv, Shape, Change
  <2>2. \A i \in DOMAIN queue : client'[queue[i]] = client[queue[i]]
    <3>1. CASE job = OWN
      BY <3>1, <1>0 DEF Answer
    <3>2. CASE job # OWN
      <4>1. \A i \in DOMAIN queue : queue[i] \in Clients /\ queue[i] # job
        BY <3>2, <1>0, <2>1 DEF DaemonInv, Hand
      <4>2. OnlyChanges(job)
        BY <3>2, <1>0, AnswerCases
      <4>3. QED
        BY <4>1, <4>2 DEF OnlyChanges
    <3>3. QED
      BY <3>1, <3>2
  <2>3. QED
    BY <2>1, <2>2 DEF DaemonInv, Line
<1>5. Connected'
  BY DaemonAssumption DEF DaemonInv, Shape, Connected, Client, Owner, Supervises, Starting,
     Handling, Looping, Served, Change, To, bounds, Answer, Learned
<1>6. Told'
  <2>1. \A c \in Clients : client[c].told # NONE => client[c].told \in Daemons
    BY DEF DaemonInv, Shape, Client
  <2>2. \A c \in Clients : client[c].seen \in Nat
    BY DEF DaemonInv, Shape, Client
  <2>3. \A c \in Clients : \/ client'[c] = client[c]
                           \/ client'[c].told = d /\ client'[c].seen = version
    <3>1. CASE client' = client
      BY <3>1
    <3>2. CASE client' # client
      BY <3>2, <1>0, AnswerCases DEF OnlyChanges
    <3>3. QED
      BY <3>1, <3>2
  <2>4. \A c \in Clients : client[c].told = d => client[c].seen <= version
    BY <1>0, <1>a, <2>1, <2>2, DaemonAssumption DEF DaemonInv, Told, Change, version
  <2>5. QED
    <3>1. SUFFICES ASSUME NEW c \in Clients, client'[c].told # NONE
                   PROVE  /\ life'[client'[c].told] \in Served \cup {"gone"}
                          /\ \/ client'[c].seen <= version
                             \/ life'[client'[c].told] = "gone"
      BY <1>c DEF Told
    <3>2. CASE client'[c] = client[c] /\ client[c].told = d
      BY <3>2, <2>4, <1>c DEF Served, Looping, Handling
    <3>3. CASE client'[c] = client[c] /\ client[c].told # d
      BY <3>1, <3>3, <2>1, <1>b DEF DaemonInv, Told
    <3>4. CASE client'[c].told = d /\ client'[c].seen = version
      BY <3>4, <1>0, <1>c DEF Served, Looping, Handling
    <3>5. QED
      BY <2>3, <3>2, <3>3, <3>4
<1>7. Owed'
  <2>1. \A c \in Clients :
          \/ client'[c] = client[c]
          \/ /\ client'[c].pc = "answered" /\ client'[c].got = version
             /\ client'[c].base = client[c].base /\ client[c].base <= snapshot
    BY <1>0, AnswerCases DEF OnlyChanges
  <2>2. \A c \in Clients : client[c].base \in Nat
    BY DEF DaemonInv, Shape, Client
  <2>3. QED
    BY <2>1, <2>2, <1>0, <1>a, <1>c DEF DaemonInv, Owed
<1>8. Sheltered'
  BY DaemonAssumption DEF DaemonInv, Shape, Sheltered, Client, Peace, Owner, Supervises,
     Alive, Starting, Handling, Looping, Served, Change, To, bounds, Answer, Learned
<1>9. QED  BY <1>1, <1>2, <1>3, <1>4, <1>5, <1>6, <1>7, <1>8 DEF DaemonInv

LEMMA NoChangeKeeps ==
    ASSUME DaemonInv, NEW d \in Daemons, NoChange(d)
    PROVE  DaemonInv'
<1> DEFINE version == table
<1>0. version \in Nat /\ life[d] \in {"busy", "emitted"} /\ Answer(d, version)
  BY Versions DEF DaemonInv, NoChange
<1>a. table \in Nat /\ snapshot \in Nat /\ snapshot <= table /\ table <= version
  BY Versions DEF DaemonInv
<1>b. \A e \in Daemons : e # d => life[e] \notin Served /\ life'[e] = life[e]
  BY DEF DaemonInv, Shape, Owner, Supervises, NoChange, To, Served, Looping, Handling
<1>c. life'[d] = "answered" /\ table' = version /\ snapshot' = snapshot
  BY DEF DaemonInv, Shape, NoChange, To, loop
<1> HIDE DEF version
<1>1. Shape'
  <2>1. client' \in [Clients -> Client]
    BY <1>0, AnswerCases, ClientTyped DEF DaemonInv, Shape
  <2>2. version \in 0..MaxChanges
    BY DaemonAssumption DEF DaemonInv, Shape, Hand, NoChange, version
  <2>3. QED
    BY <1>a, <1>c, <2>1, <2>2 DEF DaemonInv, Shape, Looping, Handling, Starting, NoChange, To,
       loop, bounds, IsShutdown
<1>2. Owner'
  BY DaemonAssumption DEF DaemonInv, Shape, Owner, Supervises, Starting, Handling, Looping,
     Served, NoChange, To, loop, bounds, Answer, Learned
<1>3. Hand'
  BY DaemonAssumption DEF DaemonInv, Shape, Owner, Hand, Supervises, Starting, Handling,
     Looping, Served, NoChange, To, loop, bounds, Answer, Learned
<1>4. Line'
  <2>1. queue' = queue /\ queue \in Seq(Clients)
    BY DEF DaemonInv, Shape, NoChange, loop
  <2>2. \A i \in DOMAIN queue : client'[queue[i]] = client[queue[i]]
    <3>1. CASE job = OWN
      BY <3>1, <1>0 DEF Answer
    <3>2. CASE job # OWN
      <4>1. \A i \in DOMAIN queue : queue[i] \in Clients /\ queue[i] # job
        BY <3>2, <1>0, <2>1 DEF DaemonInv, Hand
      <4>2. OnlyChanges(job)
        BY <3>2, <1>0, AnswerCases
      <4>3. QED
        BY <4>1, <4>2 DEF OnlyChanges
    <3>3. QED
      BY <3>1, <3>2
  <2>3. QED
    BY <2>1, <2>2 DEF DaemonInv, Line
<1>5. Connected'
  BY DaemonAssumption DEF DaemonInv, Shape, Connected, Client, Owner, Supervises, Starting,
     Handling, Looping, Served, NoChange, To, loop, bounds, Answer, Learned
<1>6. Told'
  <2>1. \A c \in Clients : client[c].told # NONE => client[c].told \in Daemons
    BY DEF DaemonInv, Shape, Client
  <2>2. \A c \in Clients : client[c].seen \in Nat
    BY DEF DaemonInv, Shape, Client
  <2>3. \A c \in Clients : \/ client'[c] = client[c]
                           \/ client'[c].told = d /\ client'[c].seen = version
    <3>1. CASE client' = client
      BY <3>1
    <3>2. CASE client' # client
      BY <3>2, <1>0, AnswerCases DEF OnlyChanges
    <3>3. QED
      BY <3>1, <3>2
  <2>4. \A c \in Clients : client[c].told = d => client[c].seen <= version
    BY <1>0, <1>a, <2>1, <2>2, DaemonAssumption DEF DaemonInv, Told, NoChange, version
  <2>5. QED
    <3>1. SUFFICES ASSUME NEW c \in Clients, client'[c].told # NONE
                   PROVE  /\ life'[client'[c].told] \in Served \cup {"gone"}
                          /\ \/ client'[c].seen <= version
                             \/ life'[client'[c].told] = "gone"
      BY <1>c DEF Told
    <3>2. CASE client'[c] = client[c] /\ client[c].told = d
      BY <3>2, <2>4, <1>c DEF Served, Looping, Handling
    <3>3. CASE client'[c] = client[c] /\ client[c].told # d
      BY <3>1, <3>3, <2>1, <1>b DEF DaemonInv, Told
    <3>4. CASE client'[c].told = d /\ client'[c].seen = version
      BY <3>4, <1>0, <1>c DEF Served, Looping, Handling
    <3>5. QED
      BY <2>3, <3>2, <3>3, <3>4
<1>7. Owed'
  <2>1. \A c \in Clients :
          \/ client'[c] = client[c]
          \/ /\ client'[c].pc = "answered" /\ client'[c].got = version
             /\ client'[c].base = client[c].base /\ client[c].base <= snapshot
    BY <1>0, AnswerCases DEF OnlyChanges
  <2>2. \A c \in Clients : client[c].base \in Nat
    BY DEF DaemonInv, Shape, Client
  <2>3. QED
    BY <2>1, <2>2, <1>0, <1>a, <1>c DEF DaemonInv, Owed
<1>8. Sheltered'
  BY DaemonAssumption DEF DaemonInv, Shape, Sheltered, Client, Peace, Owner, Supervises,
     Alive, Starting, Handling, Looping, Served, NoChange, To, loop, bounds, Answer, Learned
<1>9. QED  BY <1>1, <1>2, <1>3, <1>4, <1>5, <1>6, <1>7, <1>8 DEF DaemonInv

LEMMA PublishKeeps ==
    ASSUME DaemonInv, NEW d \in Daemons, Publish(d)
    PROVE  DaemonInv'
<1>1. Shape'
  BY DaemonAssumption DEF DaemonInv, Shape, Client, Progress, Starting, Handling, Looping,
     Served, Publish, To, bounds
<1>2. Owner'
  BY DaemonAssumption DEF DaemonInv, Shape, Owner, Supervises, Starting, Handling, Looping,
     Served, Publish, To, bounds
<1>3. Hand'
  BY DaemonAssumption DEF DaemonInv, Shape, Owner, Hand, Supervises, Starting, Handling,
     Looping, Served, Publish, To, bounds
<1>4. Line'
  BY DaemonAssumption DEF DaemonInv, Shape, Line, Hand, Client, Publish, To, bounds
<1>5. Connected'
  BY DaemonAssumption DEF DaemonInv, Shape, Connected, Client, Owner, Supervises, Starting,
     Handling, Looping, Served, Publish, To, bounds
<1>6. Told'
  BY DaemonAssumption DEF DaemonInv, Shape, Told, Client, Owner, Supervises, Starting,
     Handling, Looping, Served, Publish, To, bounds
<1>7. Owed'
  BY DaemonAssumption DEF DaemonInv, Shape, Owed, Client, Publish, To, bounds
<1>8. Sheltered'
  BY DaemonAssumption DEF DaemonInv, Shape, Sheltered, Client, Peace, Owner, Supervises,
     Alive, Starting, Handling, Looping, Served, Publish, To, bounds
<1>9. QED  BY <1>1, <1>2, <1>3, <1>4, <1>5, <1>6, <1>7, <1>8 DEF DaemonInv

LEMMA TakeShutdownKeeps ==
    ASSUME DaemonInv, NEW d \in Daemons, TakeShutdown(d)
    PROVE  DaemonInv'
<1>1. Shape'
  BY DaemonAssumption DEF DaemonInv, Shape, Client, Progress, Starting, Handling, Looping,
     Served, TakeShutdown, To, loop, bounds
<1>2. Owner'
  BY DaemonAssumption DEF DaemonInv, Shape, Owner, Supervises, Starting, Handling, Looping,
     Served, TakeShutdown, To, loop, bounds
<1>3. Hand'
  BY DaemonAssumption DEF DaemonInv, Shape, Owner, Hand, Supervises, Starting, Handling,
     Looping, Served, TakeShutdown, To, loop, bounds
<1>4. Line'
  BY DaemonAssumption DEF DaemonInv, Shape, Line, Hand, Client, TakeShutdown, To, loop, bounds
<1>5. Connected'
  BY DaemonAssumption DEF DaemonInv, Shape, Connected, Client, Owner, Supervises, Starting,
     Handling, Looping, Served, TakeShutdown, To, loop, bounds
<1>6. Told'
  BY DaemonAssumption DEF DaemonInv, Shape, Told, Client, Owner, Supervises, Starting,
     Handling, Looping, Served, TakeShutdown, To, loop, bounds
<1>7. Owed'
  BY DaemonAssumption DEF DaemonInv, Shape, Owed, Client, TakeShutdown, To, loop, bounds
<1>8. Sheltered'
  BY DaemonAssumption DEF DaemonInv, Shape, Sheltered, Client, Peace, Owner, Supervises,
     Alive, Starting, Handling, Looping, Served, TakeShutdown, To, loop, bounds
<1>9. QED  BY <1>1, <1>2, <1>3, <1>4, <1>5, <1>6, <1>7, <1>8 DEF DaemonInv

LEMMA SignalArrivesKeeps ==
    ASSUME DaemonInv, NEW d \in Daemons, SignalArrives(d)
    PROVE  DaemonInv'
<1>1. Shape'
  BY DaemonAssumption DEF DaemonInv, Shape, Client, Progress, Starting, Handling, Looping,
     Served, SignalArrives, loop
<1>2. Owner'
  BY DaemonAssumption DEF DaemonInv, Shape, Owner, Supervises, Starting, Handling, Looping,
     Served, SignalArrives, loop
<1>3. Hand'
  BY DaemonAssumption DEF DaemonInv, Shape, Owner, Hand, Supervises, Starting, Handling,
     Looping, Served, SignalArrives, loop
<1>4. Line'
  BY DaemonAssumption DEF DaemonInv, Shape, Line, Hand, Client, SignalArrives, loop
<1>5. Connected'
  BY DaemonAssumption DEF DaemonInv, Shape, Connected, Client, Owner, Supervises, Starting,
     Handling, Looping, Served, SignalArrives, loop
<1>6. Told'
  BY DaemonAssumption DEF DaemonInv, Shape, Told, Client, Owner, Supervises, Starting,
     Handling, Looping, Served, SignalArrives, loop
<1>7. Owed'
  BY DaemonAssumption DEF DaemonInv, Shape, Owed, Client, SignalArrives, loop
<1>8. Sheltered'
  BY DaemonAssumption DEF DaemonInv, Shape, Sheltered, Client, Peace, Owner, Supervises,
     Alive, Starting, Handling, Looping, Served, SignalArrives, loop
<1>9. QED  BY <1>1, <1>2, <1>3, <1>4, <1>5, <1>6, <1>7, <1>8 DEF DaemonInv

LEMMA ServeReadKeeps ==
    ASSUME DaemonInv, NEW c \in Clients, ServeRead(c)
    PROVE  DaemonInv'
<1>1. Shape'
  <2>1. client[c] \in Client
    BY DEF DaemonInv, Shape
  <2>2. OnlyChanges(c)
    BY DEF DaemonInv, Shape, OnlyChanges, ServeRead, Learned
  <2>3. client'[c] \in Client
    BY <2>1, Versions DEF DaemonInv, Shape, Client, Progress, ServeRead, Learned
  <2>4. client' \in [Clients -> Client]
    BY <2>2, <2>3, ClientTyped DEF DaemonInv
  <2>5. QED
    BY <2>4, DaemonAssumption DEF DaemonInv, Shape, Starting, Handling, Looping, ServeRead,
       loop, bounds, Learned
<1>2. Owner'
  BY DaemonAssumption DEF DaemonInv, Shape, Owner, Supervises, Starting, Handling, Looping,
     Served, ServeRead, loop, bounds, Learned
<1>3. Hand'
  BY DaemonAssumption DEF DaemonInv, Shape, Owner, Hand, Supervises, Starting, Handling,
     Looping, Served, ServeRead, loop, bounds, Learned
<1>4. Line'
  <2>1. queue' = queue /\ \A k \in Clients : client[k].pc = "sent" => client'[k].pc = "sent"
    BY DEF DaemonInv, Shape, ServeRead, loop, bounds, Learned
  <2>2. QED
    BY <2>1, LineKept DEF DaemonInv
<1>5. Connected'
  BY DaemonAssumption DEF DaemonInv, Shape, Connected, Client, Owner, Supervises, Starting,
     Handling, Looping, Served, ServeRead, loop, bounds, Learned
<1>6. Told'
  <2>1. client[c].conn \in Daemons /\ life[client[c].conn] \in Served
    BY DEF DaemonInv, Connected, ServeRead
  <2>2. \A k \in Clients :
          \/ client'[k] = client[k]
          \/ client'[k].told = client[c].conn /\ client'[k].seen = snapshot
    BY DEF DaemonInv, Shape, ServeRead, Learned, Client
  <2>3. QED
    BY <2>1, <2>2, Versions, DaemonAssumption DEF DaemonInv, Told, ServeRead, loop
<1>7. Owed'
  BY DaemonAssumption DEF DaemonInv, Shape, Owed, Client, ServeRead, loop, bounds, Learned
<1>8. Sheltered'
  BY DaemonAssumption DEF DaemonInv, Shape, Sheltered, Client, Peace, Owner, Supervises,
     Alive, Starting, Handling, Looping, Served, ServeRead, loop, bounds, Learned
<1>9. QED  BY <1>1, <1>2, <1>3, <1>4, <1>5, <1>6, <1>7, <1>8 DEF DaemonInv

LEMMA ServeRefusalKeeps ==
    ASSUME DaemonInv, NEW c \in Clients, ServeRefusal(c)
    PROVE  DaemonInv'
<1>1. Shape'
  <2>1. client[c] \in Client
    BY DEF DaemonInv, Shape
  <2>2. OnlyChanges(c)
    BY DEF DaemonInv, Shape, OnlyChanges, ServeRefusal, bounds
  <2>3. client'[c] \in Client
    BY <2>1 DEF DaemonInv, Shape, Client, Progress, ServeRefusal, bounds
  <2>4. client' \in [Clients -> Client]
    BY <2>2, <2>3, ClientTyped DEF DaemonInv
  <2>5. QED
    BY <2>4, DaemonAssumption DEF DaemonInv, Shape, Starting, Handling, Looping, ServeRefusal,
       loop, bounds
<1>2. Owner'
  BY DaemonAssumption DEF DaemonInv, Shape, Owner, Supervises, Starting, Handling, Looping,
     Served, ServeRefusal, loop, bounds
<1>3. Hand'
  BY DaemonAssumption DEF DaemonInv, Shape, Owner, Hand, Supervises, Starting, Handling,
     Looping, Served, ServeRefusal, loop, bounds
<1>4. Line'
  <2>1. queue' = queue /\ \A k \in Clients : client[k].pc = "sent" => client'[k].pc = "sent"
    BY DEF DaemonInv, Shape, ServeRefusal, loop, bounds
  <2>2. QED
    BY <2>1, LineKept DEF DaemonInv
<1>5. Connected'
  BY DaemonAssumption DEF DaemonInv, Shape, Connected, Client, Owner, Supervises, Starting,
     Handling, Looping, Served, ServeRefusal, loop, bounds
<1>6. Told'
  BY DaemonAssumption DEF DaemonInv, Shape, Told, Client, Owner, Supervises, Starting,
     Handling, Looping, Served, ServeRefusal, loop, bounds
<1>7. Owed'
  BY DaemonAssumption DEF DaemonInv, Shape, Owed, Client, ServeRefusal, loop, bounds
<1>8. Sheltered'
  BY DaemonAssumption DEF DaemonInv, Shape, Sheltered, Client, Peace, Owner, Supervises,
     Alive, Starting, Handling, Looping, Served, ServeRefusal, loop, bounds
<1>9. QED  BY <1>1, <1>2, <1>3, <1>4, <1>5, <1>6, <1>7, <1>8 DEF DaemonInv

LEMMA SendCommandKeeps ==
    ASSUME DaemonInv, NEW c \in Clients, SendCommand(c)
    PROVE  DaemonInv'
<1>1. Shape'
  <2>1. client[c] \in Client
    BY DEF DaemonInv, Shape
  <2>2. OnlyChanges(c)
    BY DEF DaemonInv, Shape, OnlyChanges, SendCommand, bounds
  <2>3. client'[c] \in Client
    BY <2>1 DEF DaemonInv, Shape, Client, Progress, SendCommand, bounds
  <2>4. client' \in [Clients -> Client]
    BY <2>2, <2>3, ClientTyped DEF DaemonInv
  <2>5. QED
    BY <2>4, DaemonAssumption DEF DaemonInv, Shape, Starting, Handling, Looping, SendCommand,
       bounds
<1>2. Owner'
  BY DaemonAssumption DEF DaemonInv, Shape, Owner, Supervises, Starting, Handling, Looping,
     Served, SendCommand, bounds
<1>3. Hand'
  BY DaemonAssumption DEF DaemonInv, Shape, Owner, Hand, Supervises, Starting, Handling,
     Looping, Served, SendCommand, bounds
<1>4. Line'
  <2>1. \A k \in Clients : client[k].pc = "sent" => client'[k].pc = "sent"
    BY DEF DaemonInv, Shape, SendCommand
  <2>2. client[c].pc # "sent" /\ client'[c].pc = "sent"
    BY DEF DaemonInv, Shape, SendCommand
  <2>3. queue \in Seq(Clients) /\ queue' = Append(queue, c)
    BY DEF DaemonInv, Shape, SendCommand
  <2>4. \A i \in DOMAIN queue' :
          \/ i \in DOMAIN queue /\ queue'[i] = queue[i] /\ queue[i] \in Clients
          \/ i = Len(queue) + 1 /\ i \notin DOMAIN queue /\ queue'[i] = c
    <3>1. DOMAIN queue = 1..Len(queue) /\ DOMAIN queue' = 1..(Len(queue) + 1)
      BY <2>3
    <3>2. \A i \in 1..Len(queue) : queue'[i] = queue[i] /\ queue[i] \in Clients
      BY <2>3
    <3>3. queue'[Len(queue) + 1] = c /\ Len(queue) \in Nat
      BY <2>3
    <3>4. QED
      BY <3>1, <3>2, <3>3
  <2>5. QED
    BY <2>1, <2>2, <2>4 DEF DaemonInv, Line
<1>5. Connected'
  BY DaemonAssumption DEF DaemonInv, Shape, Connected, Client, Owner, Supervises, Starting,
     Handling, Looping, Served, SendCommand, bounds
<1>6. Told'
  BY DaemonAssumption DEF DaemonInv, Shape, Told, Client, Owner, Supervises, Starting,
     Handling, Looping, Served, SendCommand, bounds
<1>7. Owed'
  BY DaemonAssumption DEF DaemonInv, Shape, Owed, Client, SendCommand, bounds
<1>8. Sheltered'
  BY DaemonAssumption DEF DaemonInv, Shape, Sheltered, Client, Peace, Owner, Supervises,
     Alive, Starting, Handling, Looping, Served, SendCommand, bounds
<1>9. QED  BY <1>1, <1>2, <1>3, <1>4, <1>5, <1>6, <1>7, <1>8 DEF DaemonInv

LEMMA OpenStreamKeeps ==
    ASSUME DaemonInv, NEW c \in Clients, OpenStream(c)
    PROVE  DaemonInv'
<1>1. Shape'
  <2>1. client[c] \in Client
    BY DEF DaemonInv, Shape
  <2>2. OnlyChanges(c)
    BY DEF DaemonInv, Shape, OnlyChanges, OpenStream, bounds
  <2>3. client'[c] \in Client
    BY <2>1, Versions DEF DaemonInv, Shape, Client, Progress, OpenStream, bounds
  <2>4. client' \in [Clients -> Client]
    BY <2>2, <2>3, ClientTyped DEF DaemonInv
  <2>5. QED
    BY <2>4, DaemonAssumption DEF DaemonInv, Shape, Starting, Handling, Looping, OpenStream,
       loop, bounds
<1>2. Owner'
  BY DaemonAssumption DEF DaemonInv, Shape, Owner, Supervises, Starting, Handling, Looping,
     Served, OpenStream, loop, bounds
<1>3. Hand'
  BY DaemonAssumption DEF DaemonInv, Shape, Owner, Hand, Supervises, Starting, Handling,
     Looping, Served, OpenStream, loop, bounds
<1>4. Line'
  <2>1. queue' = queue /\ \A k \in Clients : client[k].pc = "sent" => client'[k].pc = "sent"
    BY DEF DaemonInv, Shape, OpenStream, loop, bounds
  <2>2. QED
    BY <2>1, LineKept DEF DaemonInv
<1>5. Connected'
  BY DaemonAssumption DEF DaemonInv, Shape, Connected, Client, Owner, Supervises, Starting,
     Handling, Looping, Served, OpenStream, loop, bounds
<1>6. Told'
  BY DaemonAssumption DEF DaemonInv, Shape, Told, Client, Owner, Supervises, Starting,
     Handling, Looping, Served, OpenStream, loop, bounds
<1>7. Owed'
  BY DaemonAssumption DEF DaemonInv, Shape, Owed, Client, OpenStream, loop, bounds
<1>8. Sheltered'
  BY DaemonAssumption DEF DaemonInv, Shape, Sheltered, Client, Peace, Owner, Supervises,
     Alive, Starting, Handling, Looping, Served, OpenStream, loop, bounds
<1>9. QED  BY <1>1, <1>2, <1>3, <1>4, <1>5, <1>6, <1>7, <1>8 DEF DaemonInv

LEMMA StreamTickKeeps ==
    ASSUME DaemonInv, NEW c \in Clients, StreamTick(c)
    PROVE  DaemonInv'
<1>1. Shape'
  <2>1. client[c] \in Client
    BY DEF DaemonInv, Shape
  <2>2. OnlyChanges(c)
    BY DEF DaemonInv, Shape, OnlyChanges, StreamTick, bounds
  <2>3. client'[c] \in Client
    BY <2>1, Versions DEF DaemonInv, Shape, Client, Progress, StreamTick, bounds
  <2>4. client' \in [Clients -> Client]
    BY <2>2, <2>3, ClientTyped DEF DaemonInv
  <2>5. QED
    BY <2>4, DaemonAssumption DEF DaemonInv, Shape, Starting, Handling, Looping, StreamTick,
       loop, bounds
<1>2. Owner'
  BY DaemonAssumption DEF DaemonInv, Shape, Owner, Supervises, Starting, Handling, Looping,
     Served, StreamTick, loop, bounds
<1>3. Hand'
  BY DaemonAssumption DEF DaemonInv, Shape, Owner, Hand, Supervises, Starting, Handling,
     Looping, Served, StreamTick, loop, bounds
<1>4. Line'
  <2>1. queue' = queue /\ \A k \in Clients : client[k].pc = "sent" => client'[k].pc = "sent"
    BY DEF DaemonInv, Shape, StreamTick, loop, bounds
  <2>2. QED
    BY <2>1, LineKept DEF DaemonInv
<1>5. Connected'
  BY DaemonAssumption DEF DaemonInv, Shape, Connected, Client, Owner, Supervises, Starting,
     Handling, Looping, Served, StreamTick, loop, bounds
<1>6. Told'
  BY DaemonAssumption DEF DaemonInv, Shape, Told, Client, Owner, Supervises, Starting,
     Handling, Looping, Served, StreamTick, loop, bounds
<1>7. Owed'
  BY DaemonAssumption DEF DaemonInv, Shape, Owed, Client, StreamTick, loop, bounds
<1>8. Sheltered'
  BY DaemonAssumption DEF DaemonInv, Shape, Sheltered, Client, Peace, Owner, Supervises,
     Alive, Starting, Handling, Looping, Served, StreamTick, loop, bounds
<1>9. QED  BY <1>1, <1>2, <1>3, <1>4, <1>5, <1>6, <1>7, <1>8 DEF DaemonInv

LEMMA BeginKeeps ==
    ASSUME DaemonInv, NEW c \in Clients, Begin(c)
    PROVE  DaemonInv'
<1>1. Shape'
  <2>1. client[c] \in Client
    BY DEF DaemonInv, Shape
  <2>2. OnlyChanges(c)
    BY DEF DaemonInv, Shape, OnlyChanges, Begin, bounds
  <2>3. client'[c] \in Client
    <3>1. PICK r \in Requests :
            client' = [client EXCEPT ![c].req = r,
                                     ![c].pc = IF r.via = "ipc" THEN "asking" ELSE "ready"]
      BY DEF Begin
    <3>2. QED
      BY <2>1, <3>1 DEF DaemonInv, Shape, Client, Progress
  <2>4. client' \in [Clients -> Client]
    BY <2>2, <2>3, ClientTyped DEF DaemonInv
  <2>5. QED
    BY <2>4, DaemonAssumption DEF DaemonInv, Shape, Starting, Handling, Looping, Begin, loop, At
<1>2. Owner'
  BY DaemonAssumption DEF DaemonInv, Shape, Owner, Supervises, Starting, Handling, Looping,
     Served, Begin, loop, At
<1>3. Hand'
  BY DaemonAssumption DEF DaemonInv, Shape, Owner, Hand, Supervises, Starting, Handling,
     Looping, Served, Begin, loop, At
<1>4. Line'
  <2>1. queue' = queue /\ \A k \in Clients : client[k].pc = "sent" => client'[k].pc = "sent"
    BY DEF DaemonInv, Shape, Begin, loop, At
  <2>2. QED
    BY <2>1, LineKept DEF DaemonInv
<1>5. Connected'
  BY DaemonAssumption DEF DaemonInv, Shape, Connected, Client, Owner, Supervises, Starting,
     Handling, Looping, Served, Begin, loop, At
<1>6. Told'
  BY DaemonAssumption DEF DaemonInv, Shape, Told, Client, Owner, Supervises, Starting,
     Handling, Looping, Served, Begin, loop, At
<1>7. Owed'
  BY DaemonAssumption DEF DaemonInv, Shape, Owed, Client, Begin, loop, At
<1>8. Sheltered'
  BY DaemonAssumption DEF DaemonInv, Shape, Sheltered, Client, Peace, Owner, Supervises,
     Alive, Starting, Handling, Looping, Served, Begin, loop, At
<1>9. QED  BY <1>1, <1>2, <1>3, <1>4, <1>5, <1>6, <1>7, <1>8 DEF DaemonInv

LEMMA HearsKeeps ==
    ASSUME DaemonInv, NEW c \in Clients, Hears(c)
    PROVE  DaemonInv'
<1>1. Shape'
  <2>1. client[c] \in Client
    BY DEF DaemonInv, Shape
  <2>2. OnlyChanges(c)
    BY DEF DaemonInv, Shape, OnlyChanges, Hears, bounds
  <2>3. client'[c] \in Client
    <3>1. PICK d \in Daemons :
            client' = [client EXCEPT ![c].seen = table + 1, ![c].told = d]
      BY DEF Hears
    <3>2. QED
      <4>1. table + 1 \in Nat
        BY Versions DEF DaemonInv
      <4>2. [client[c] EXCEPT !.seen = table + 1, !.told = d] \in Client
        BY <2>1, <4>1 DEF Client, Progress
      <4>3. client'[c] = [client[c] EXCEPT !.seen = table + 1, !.told = d]
        BY <3>1 DEF DaemonInv, Shape
      <4>4. QED
        BY <4>2, <4>3
  <2>4. client' \in [Clients -> Client]
    BY <2>2, <2>3, ClientTyped DEF DaemonInv
  <2>5. QED
    BY <2>4, DaemonAssumption DEF DaemonInv, Shape, Starting, Handling, Looping, Hears, loop,
       bounds, At
<1>2. Owner'
  BY DaemonAssumption DEF DaemonInv, Shape, Owner, Supervises, Starting, Handling, Looping,
     Served, Hears, loop, bounds, At
<1>3. Hand'
  BY DaemonAssumption DEF DaemonInv, Shape, Owner, Hand, Supervises, Starting, Handling,
     Looping, Served, Hears, loop, bounds, At
<1>4. Line'
  <2>1. queue' = queue /\ \A k \in Clients : client[k].pc = "sent" => client'[k].pc = "sent"
    BY DEF DaemonInv, Shape, Hears, loop, bounds, At
  <2>2. QED
    BY <2>1, LineKept DEF DaemonInv
<1>5. Connected'
  BY DaemonAssumption DEF DaemonInv, Shape, Connected, Client, Owner, Supervises, Starting,
     Handling, Looping, Served, Hears, loop, bounds, At
<1>6. Told'
  <2>1. UNCHANGED <<life, table>>
    BY DEF Hears, loop
  <2>2. \A k \in Clients : k # c => client'[k] = client[k]
    BY DEF DaemonInv, Shape, Hears
  <2>3. PICK d \in Daemons : life[d] = "emitted" /\ client'[c].seen = table + 1 /\ client'[c].told = d
    <3>1. client \in [Clients -> Client] /\ client[c] \in Client
      BY DEF DaemonInv, Shape
    <3>2. PICK d \in Daemons :
            /\ life[d] = "emitted"
            /\ client' = [client EXCEPT ![c].seen = table + 1, ![c].told = d]
      BY DEF Hears
    <3>3. QED
      BY <3>1, <3>2 DEF Client
  <2>4. client'[c].told # NONE =>
           life[d] \in Served \cup {"gone"}
    BY <2>3 DEF Served, Looping, Handling
  <2>5. QED
    BY <2>1, <2>2, <2>3, <2>4 DEF DaemonInv, Told
<1>7. Owed'
  <2>1. snapshot' = snapshot /\ \A k \in Clients : k # c => client'[k] = client[k]
    BY DEF DaemonInv, Shape, Hears, loop
  <2>2. client'[c].pc = "new"
    BY DEF DaemonInv, Shape, Client, Hears, At
  <2>3. QED
    BY <2>1, <2>2 DEF DaemonInv, Owed
<1>8. Sheltered'
  BY DaemonAssumption DEF DaemonInv, Shape, Sheltered, Client, Peace, Owner, Supervises,
     Alive, Starting, Handling, Looping, Served, Hears, loop, bounds, At
<1>9. QED  BY <1>1, <1>2, <1>3, <1>4, <1>5, <1>6, <1>7, <1>8 DEF DaemonInv

LEMMA PingAnsweredKeeps ==
    ASSUME DaemonInv, NEW c \in Clients, PingAnswered(c)
    PROVE  DaemonInv'
<1>1. Shape'
  <2>1. client' \in [Clients -> Client]
    BY GoesTyped DEF DaemonInv, PingAnswered, Goes, Progress
  <2>2. QED
    BY <2>1 DEF DaemonInv, Shape, PingAnswered, loop, bounds
<1>2. Owner'
  BY DaemonAssumption DEF DaemonInv, Shape, Owner, Supervises, Starting, Handling, Looping,
     Served, PingAnswered, loop, bounds, At, Goes, Reachable
<1>3. Hand'
  BY DaemonAssumption DEF DaemonInv, Shape, Owner, Hand, Supervises, Starting, Handling,
     Looping, Served, PingAnswered, loop, bounds, At, Goes, Reachable
<1>4. Line'
  <2>1. queue' = queue /\ \A k \in Clients : client[k].pc = "sent" => client'[k].pc = "sent"
    BY DEF DaemonInv, Shape, PingAnswered, loop, bounds, At, Goes, Reachable
  <2>2. QED
    BY <2>1, LineKept DEF DaemonInv
<1>5. Connected'
  BY DaemonAssumption DEF DaemonInv, Shape, Connected, Client, Owner, Supervises, Starting,
     Handling, Looping, Served, PingAnswered, loop, bounds, At, Goes, Reachable
<1>6. Told'
  BY DaemonAssumption DEF DaemonInv, Shape, Told, Client, Owner, Supervises, Starting,
     Handling, Looping, Served, PingAnswered, loop, bounds, At, Goes, Reachable
<1>7. Owed'
  BY DaemonAssumption DEF DaemonInv, Shape, Owed, Client, PingAnswered, loop, bounds, At,
     Goes, Reachable
<1>8. Sheltered'
  BY DaemonAssumption DEF DaemonInv, Shape, Sheltered, Client, Peace, Owner, Supervises,
     Alive, Starting, Handling, Looping, Served, PingAnswered, loop, bounds, At, Goes, Reachable
<1>9. QED  BY <1>1, <1>2, <1>3, <1>4, <1>5, <1>6, <1>7, <1>8 DEF DaemonInv

LEMMA SpawnDaemonKeeps ==
    ASSUME DaemonInv, NEW c \in Clients, SpawnDaemon(c)
    PROVE  DaemonInv'
<1>1. Shape'
  <2>1. client[c] \in Client
    BY DEF DaemonInv, Shape
  <2>2. OnlyChanges(c)
    BY DEF DaemonInv, Shape, OnlyChanges, SpawnDaemon, Goes
  <2>3. client'[c] \in Client
    BY <2>1 DEF DaemonInv, Shape, Client, Progress, SpawnDaemon, Goes
  <2>4. client' \in [Clients -> Client]
    BY <2>2, <2>3, ClientTyped DEF DaemonInv
  <2>5. QED
    BY <2>4, DaemonAssumption DEF DaemonInv, Shape, Starting, Handling, Looping, SpawnDaemon,
       loop, bounds, At, Goes, Spawned, To
<1>2. Owner'
  BY DaemonAssumption DEF DaemonInv, Shape, Owner, Supervises, Starting, Handling, Looping,
     Served, SpawnDaemon, loop, bounds, At, Goes, Spawned, To
<1>3. Hand'
  BY DaemonAssumption DEF DaemonInv, Shape, Owner, Hand, Supervises, Starting, Handling,
     Looping, Served, SpawnDaemon, loop, bounds, At, Goes, Spawned, To
<1>4. Line'
  <2>1. queue' = queue /\ \A k \in Clients : client[k].pc = "sent" => client'[k].pc = "sent"
    BY DEF DaemonInv, Shape, SpawnDaemon, loop, bounds, At, Goes, Spawned, To
  <2>2. QED
    BY <2>1, LineKept DEF DaemonInv
<1>5. Connected'
  BY DaemonAssumption DEF DaemonInv, Shape, Connected, Client, Owner, Supervises, Starting,
     Handling, Looping, Served, SpawnDaemon, loop, bounds, At, Goes, Spawned, To
<1>6. Told'
  BY DaemonAssumption DEF DaemonInv, Shape, Told, Client, Owner, Supervises, Starting,
     Handling, Looping, Served, SpawnDaemon, loop, bounds, At, Goes, Spawned, To
<1>7. Owed'
  BY DaemonAssumption DEF DaemonInv, Shape, Owed, Client, SpawnDaemon, loop, bounds, At, Goes,
     Spawned, To
<1>8. Sheltered'
  BY DaemonAssumption DEF DaemonInv, Shape, Sheltered, Client, Peace, Owner, Supervises,
     Alive, Starting, Handling, Looping, Served, SpawnDaemon, loop, bounds, At, Goes, Spawned,
     To
<1>9. QED  BY <1>1, <1>2, <1>3, <1>4, <1>5, <1>6, <1>7, <1>8 DEF DaemonInv

LEMMA GiveUpKeeps ==
    ASSUME DaemonInv, NEW c \in Clients, GiveUp(c)
    PROVE  DaemonInv'
<1>1. Shape'
  <2>1. client' \in [Clients -> Client]
    BY GoesTyped DEF DaemonInv, GiveUp, Goes, Progress
  <2>2. QED
    BY <2>1 DEF DaemonInv, Shape, GiveUp, loop, bounds
<1>2. Owner'
  BY DaemonAssumption DEF DaemonInv, Shape, Owner, Supervises, Starting, Handling, Looping,
     Served, GiveUp, loop, bounds, At, Goes
<1>3. Hand'
  BY DaemonAssumption DEF DaemonInv, Shape, Owner, Hand, Supervises, Starting, Handling,
     Looping, Served, GiveUp, loop, bounds, At, Goes
<1>4. Line'
  <2>1. queue' = queue /\ \A k \in Clients : client[k].pc = "sent" => client'[k].pc = "sent"
    BY DEF DaemonInv, Shape, GiveUp, loop, bounds, At, Goes
  <2>2. QED
    BY <2>1, LineKept DEF DaemonInv
<1>5. Connected'
  BY DaemonAssumption DEF DaemonInv, Shape, Connected, Client, Owner, Supervises, Starting,
     Handling, Looping, Served, GiveUp, loop, bounds, At, Goes
<1>6. Told'
  BY DaemonAssumption DEF DaemonInv, Shape, Told, Client, Owner, Supervises, Starting,
     Handling, Looping, Served, GiveUp, loop, bounds, At, Goes
<1>7. Owed'
  BY DaemonAssumption DEF DaemonInv, Shape, Owed, Client, GiveUp, loop, bounds, At, Goes
<1>8. Sheltered'
  BY DaemonAssumption DEF DaemonInv, Shape, Sheltered, Client, Peace, Owner, Supervises,
     Alive, Starting, Handling, Looping, Served, GiveUp, loop, bounds, At, Goes
<1>9. QED  BY <1>1, <1>2, <1>3, <1>4, <1>5, <1>6, <1>7, <1>8 DEF DaemonInv

LEMMA ConnectKeeps ==
    ASSUME DaemonInv, NEW c \in Clients, Connect(c)
    PROVE  DaemonInv'
<1>1. Shape'
  <2>1. client[c] \in Client
    BY DEF DaemonInv, Shape
  <2>2. OnlyChanges(c)
    BY DEF DaemonInv, Shape, OnlyChanges, Connect, Listener
  <2>3. client'[c] \in Client
    BY <2>1 DEF DaemonInv, Shape, Client, Progress, Connect, Listener
  <2>4. client' \in [Clients -> Client]
    BY <2>2, <2>3, ClientTyped DEF DaemonInv
  <2>5. QED
    BY <2>4, DaemonAssumption DEF DaemonInv, Shape, Starting, Handling, Looping, Connect,
       loop, bounds, At, Listener
<1>2. Owner'
  BY DaemonAssumption DEF DaemonInv, Shape, Owner, Supervises, Starting, Handling, Looping,
     Served, Connect, loop, bounds, At, Listener
<1>3. Hand'
  BY DaemonAssumption DEF DaemonInv, Shape, Owner, Hand, Supervises, Starting, Handling,
     Looping, Served, Connect, loop, bounds, At, Listener
<1>4. Line'
  <2>1. queue' = queue /\ \A k \in Clients : client[k].pc = "sent" => client'[k].pc = "sent"
    BY DEF DaemonInv, Shape, Connect, loop, bounds, At, Listener
  <2>2. QED
    BY <2>1, LineKept DEF DaemonInv
<1>5. Connected'
  BY DaemonAssumption DEF DaemonInv, Shape, Connected, Client, Owner, Supervises, Starting,
     Handling, Looping, Served, Connect, loop, bounds, At, Listener
<1>6. Told'
  BY DaemonAssumption DEF DaemonInv, Shape, Told, Client, Owner, Supervises, Starting,
     Handling, Looping, Served, Connect, loop, bounds, At, Listener
<1>7. Owed'
  BY DaemonAssumption DEF DaemonInv, Shape, Owed, Client, Connect, loop, bounds, At, Listener
<1>8. Sheltered'
  BY DaemonAssumption DEF DaemonInv, Shape, Sheltered, Client, Peace, Owner, Supervises,
     Alive, Starting, Handling, Looping, Served, Connect, loop, bounds, At, Listener
<1>9. QED  BY <1>1, <1>2, <1>3, <1>4, <1>5, <1>6, <1>7, <1>8 DEF DaemonInv

LEMMA RefusedKeeps ==
    ASSUME DaemonInv, NEW c \in Clients, Refused(c)
    PROVE  DaemonInv'
<1>1. Shape'
  <2>1. client' \in [Clients -> Client]
    BY GoesTyped DEF DaemonInv, Refused, Goes, Progress
  <2>2. QED
    BY <2>1 DEF DaemonInv, Shape, Refused, loop, bounds
<1>2. Owner'
  BY DaemonAssumption DEF DaemonInv, Shape, Owner, Supervises, Starting, Handling, Looping,
     Served, Refused, loop, bounds, At, Goes, Listener
<1>3. Hand'
  BY DaemonAssumption DEF DaemonInv, Shape, Owner, Hand, Supervises, Starting, Handling,
     Looping, Served, Refused, loop, bounds, At, Goes, Listener
<1>4. Line'
  <2>1. queue' = queue /\ \A k \in Clients : client[k].pc = "sent" => client'[k].pc = "sent"
    BY DEF DaemonInv, Shape, Refused, loop, bounds, At, Goes, Listener
  <2>2. QED
    BY <2>1, LineKept DEF DaemonInv
<1>5. Connected'
  BY DaemonAssumption DEF DaemonInv, Shape, Connected, Client, Owner, Supervises, Starting,
     Handling, Looping, Served, Refused, loop, bounds, At, Goes, Listener
<1>6. Told'
  BY DaemonAssumption DEF DaemonInv, Shape, Told, Client, Owner, Supervises, Starting,
     Handling, Looping, Served, Refused, loop, bounds, At, Goes, Listener
<1>7. Owed'
  BY DaemonAssumption DEF DaemonInv, Shape, Owed, Client, Refused, loop, bounds, At, Goes,
     Listener
<1>8. Sheltered'
  BY DaemonAssumption DEF DaemonInv, Shape, Sheltered, Client, Peace, Owner, Supervises,
     Alive, Starting, Handling, Looping, Served, Refused, loop, bounds, At, Goes, Listener
<1>9. QED  BY <1>1, <1>2, <1>3, <1>4, <1>5, <1>6, <1>7, <1>8 DEF DaemonInv

LEMMA NextRequestKeeps ==
    ASSUME DaemonInv, NEW c \in Clients, NextRequest(c)
    PROVE  DaemonInv'
<1>1. Shape'
  <2>1. client[c] \in Client
    BY DEF DaemonInv, Shape
  <2>2. OnlyChanges(c)
    BY DEF DaemonInv, Shape, OnlyChanges, NextRequest, bounds
  <2>3. client'[c] \in Client
    BY <2>1 DEF DaemonInv, Shape, Client, Progress, NextRequest, bounds
  <2>4. client' \in [Clients -> Client]
    BY <2>2, <2>3, ClientTyped DEF DaemonInv
  <2>5. QED
    BY <2>4, DaemonAssumption DEF DaemonInv, Shape, Starting, Handling, Looping, NextRequest,
       loop, bounds, At
<1>2. Owner'
  BY DaemonAssumption DEF DaemonInv, Shape, Owner, Supervises, Starting, Handling, Looping,
     Served, NextRequest, loop, bounds, At
<1>3. Hand'
  BY DaemonAssumption DEF DaemonInv, Shape, Owner, Hand, Supervises, Starting, Handling,
     Looping, Served, NextRequest, loop, bounds, At
<1>4. Line'
  <2>1. queue' = queue /\ \A k \in Clients : client[k].pc = "sent" => client'[k].pc = "sent"
    BY DEF DaemonInv, Shape, NextRequest, loop, bounds, At
  <2>2. QED
    BY <2>1, LineKept DEF DaemonInv
<1>5. Connected'
  BY DaemonAssumption DEF DaemonInv, Shape, Connected, Client, Owner, Supervises, Starting,
     Handling, Looping, Served, NextRequest, loop, bounds, At
<1>6. Told'
  BY DaemonAssumption DEF DaemonInv, Shape, Told, Client, Owner, Supervises, Starting,
     Handling, Looping, Served, NextRequest, loop, bounds, At
<1>7. Owed'
  BY DaemonAssumption DEF DaemonInv, Shape, Owed, Client, NextRequest, loop, bounds, At
<1>8. Sheltered'
  BY DaemonAssumption DEF DaemonInv, Shape, Sheltered, Client, Peace, Owner, Supervises,
     Alive, Starting, Handling, Looping, Served, NextRequest, loop, bounds, At
<1>9. QED  BY <1>1, <1>2, <1>3, <1>4, <1>5, <1>6, <1>7, <1>8 DEF DaemonInv

-----------------------------------------------------------------------------
(* The theorems.                                                           *)

LEMMA InitHolds == Init => DaemonInv
<1> SUFFICES ASSUME Init PROVE DaemonInv
  OBVIOUS
<1>1. Shape
  BY DaemonAssumption DEF Init, Shape, Client, Progress
<1>2. Owner /\ Hand
  BY DaemonAssumption DEF Init, Owner, Hand, Supervises, Handling, Looping
<1>3. Line /\ Connected /\ Told /\ Owed /\ Sheltered
  BY DEF Init, Line, Connected, Told, Owed, Sheltered
<1>4. QED
  BY <1>1, <1>2, <1>3 DEF DaemonInv

LEMMA StutterKeeps ==
    ASSUME DaemonInv, UNCHANGED vars
    PROVE  DaemonInv'
<1>1. Shape' /\ Owner' /\ Hand' /\ Line'
  BY DEF DaemonInv, vars, loop, bounds, Shape, Owner, Hand, Line, Supervises
<1>2. Connected' /\ Told' /\ Owed' /\ Sheltered'
  BY DEF DaemonInv, vars, loop, bounds, Connected, Supervises, Told, Owed, Sheltered, Peace,
     Alive
<1>3. QED
  BY <1>1, <1>2 DEF DaemonInv

LEMMA NextKeeps == DaemonInv /\ [Next]_vars => DaemonInv'
<1> SUFFICES ASSUME DaemonInv, [Next]_vars PROVE DaemonInv'
  OBVIOUS
<1>1. CASE UNCHANGED vars
  BY <1>1, StutterKeeps
<1>2. ASSUME NEW d \in Daemons,
             \/ Starts(d) \/ Picks(d) \/ Background(d) \/ Works(d)
             \/ End(d) \/ SignalArrives(d) \/ Crash(d)
      PROVE  DaemonInv'
  BY <1>2, AlreadyRunningKeeps, PingFailsKeeps, BindKeeps, RecoverKeeps, TakeKeeps,
     TakeShutdownKeeps, BackgroundKeeps, EmitKeeps, ChangeKeeps, NoChangeKeeps,
     PublishKeeps, EndKeeps, SignalArrivesKeeps, CrashKeeps DEF Starts, Picks, Works
<1>3. ASSUME NEW c \in Clients,
             \/ Begin(c) \/ Reaches(c) \/ Accept(c) \/ Serves(c)
             \/ StreamTick(c) \/ Hears(c) \/ NextRequest(c)
      PROVE  DaemonInv'
  BY <1>3, BeginKeeps, PingAnsweredKeeps, SpawnDaemonKeeps, GiveUpKeeps, ConnectKeeps,
     RefusedKeeps, AcceptKeeps, ServeReadKeeps, ServeRefusalKeeps,
     SendCommandKeeps, OpenStreamKeeps, StreamTickKeeps, HearsKeeps,
     NextRequestKeeps DEF Reaches, Serves
<1>4. QED
  BY <1>1, <1>2, <1>3 DEF Next

LEMMA Invariance == Spec => []DaemonInv
  BY InitHolds, NextKeeps, PTL DEF Spec

(* The variables keep their shape: the listeners are one daemon's, and a   *)
(* handler at work has something in hand (src/daemon.rs).                  *)
THEOREM DaemonTypeCorrect == Spec => []TypeOK
<1>1. DaemonInv => TypeOK
  BY DEF DaemonInv, Shape, Hand, TypeOK
<1>2. QED
  BY <1>1, Invariance, PTL

(* However many daemons are started, one at a time supervises: the address *)
(* is bound before the processes are recovered and kept until they are     *)
(* stopped.                                                                *)
THEOREM OneDaemonSupervises == Spec => []OneSupervisor
<1>1. DaemonInv => OneSupervisor
  BY DEF DaemonInv, Owner, OneSupervisor
<1>2. QED
  BY <1>1, Invariance, PTL

(* A client that was told of a change, by an answer or by an event, reads  *)
(* it on every connection it opens afterwards, although both are sent      *)
(* before the snapshot is published.                                       *)
THEOREM NobodyReadsLess == Spec => []ReadAfterSeen
<1>1. DaemonInv => ReadAfterSeen
  <2> SUFFICES ASSUME DaemonInv, NEW c \in Clients, client[c].pc \in {"answered", "streaming"}
               PROVE  client[c].got >= client[c].base
    BY DEF ReadAfterSeen
  <2>1. client[c].base \in Nat /\ client[c].got \in Nat
    BY DEF DaemonInv, Shape, Client
  <2>2. QED
    BY <2>1 DEF DaemonInv, Owed
<1>2. QED
  BY <1>1, Invariance, PTL

(* A client whose ping was answered, or who waited for the daemon it has   *)
(* started, is served unless a daemon died or was told to stop.            *)
THEOREM EnsuredAreServed == Spec => []EnsuredIsServed
<1>1. DaemonInv => EnsuredIsServed
  BY DEF DaemonInv, Sheltered, EnsuredIsServed
<1>2. QED
  BY <1>1, Invariance, PTL

\* What reaches the loop and changes the table is one of the requests that may.
LEMMA ChangesAsked ==
    ASSUME NEW r, Asks(r), Changes(r)
    PROVE  Asked(r)
<1>1. CASE r.via = "ipc"
  BY <1>1 DEF Changes, Asked
<1>2. CASE r.via # "ipc"
  <2>1. ~Unauthorized(r)
    BY <1>2 DEF Asks, Route
  <2>2. QED
    BY <1>2, <2>1 DEF Changes, Asked, Unauthorized
<1>3. QED
  BY <1>1, <1>2

(* The table changes by the loop's own work, by a command over IPC that    *)
(* changes it, or by a POST whose sender has logged in if it must.         *)
THEOREM OnlyCommandsMakeVersions == Spec => OnlyCommandsChange
<1>1. DaemonInv /\ [Next]_vars =>
          [table' # table => IF job = OWN THEN TRUE ELSE Asked(Request)]_vars
  <2> SUFFICES ASSUME DaemonInv, Next, table' # table, job # OWN
               PROVE  Asked(Request)
    OBVIOUS
  <2>1. PICK d \in Daemons : Change(d)
    BY DEF Next, Starts, Picks, Works, Reaches, Serves, loop, Closed,
           AlreadyRunning, PingFails, Bind, Recover, Take, TakeShutdown, Background,
           Emit, NoChange, Publish, End, SignalArrives, Crash, Begin,
           PingAnswered, SpawnDaemon, GiveUp, Connect, Refused, Accept,
           ServeRead, ServeRefusal, SendCommand, OpenStream, StreamTick,
           Hears, NextRequest
  <2>2. job \in Clients /\ client[job].pc = "sent" /\ Changes(client[job].req)
    BY <2>1 DEF DaemonInv, Shape, Hand, Handling, Change
  <2>3. Asks(client[job].req)
    BY <2>2 DEF DaemonInv, Connected
  <2>4. QED
    BY <2>2, <2>3, ChangesAsked DEF Request
<1>2. QED
  BY <1>1, Invariance, PTL DEF Spec, OnlyCommandsChange
=============================================================================

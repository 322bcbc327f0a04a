--------------------------------- MODULE WsHub ---------------------------------
(***************************************************************************)
(* The WebSocket hub (internal/api/ws/hub.go) and the goroutines around    *)
(* it: the publishers (gRPC handlers), and for each connection the         *)
(* handler's read loop and its write pump (internal/api/ws/handler.go).    *)
(*                                                                         *)
(* Publish holds the hub's read lock over the whole fan-out, so several    *)
(* publishers deliver at once, client by client; Subscribe, Unsubscribe    *)
(* and Close take the lock exclusively and are one step each. A connection *)
(* that is refused (no token, inactive user, no permission) never reaches  *)
(* the hub.                                                                *)
(***************************************************************************)
EXTENDS Naturals, Sequences, FiniteSets

CONSTANTS
    Client,         \* connections: one Client object each, used once
    Sev,            \* ids of SEVs
    Broadcast,      \* BroadcastRoom, "*"
    Publisher,      \* handlers that may be publishing at once
    BufferSize,     \* clientBufferSize (16)
    MaxEvents,      \* bound: events published
    MaxTurns        \* bound: connections made and events published, together

ASSUME HubAssumption ==
    /\ Broadcast \notin Sev
    /\ BufferSize \in Nat \ {0}
    /\ MaxEvents \in Nat /\ MaxTurns \in Nat

Room  == Sev \union {Broadcast}
Event == [sev : Sev, by : Publisher, n : 1 .. MaxEvents]

VARIABLES
    rooms,      \* Hub.rooms: the members of every room that has any
    joined,     \* Client.rooms, never emptied by Close
    queue,      \* Client.send
    closed,     \* whether Client.send is closed
    conn,       \* "none", "open", "dead" (the peer is gone), "closed"
    reader,     \* where ServeHTTP stands
    ask,        \* the rooms of ?sev_id= still to be subscribed to
    writer,     \* where writePump stands
    pub,        \* pub[p]: the event p is fanning out and the clients left
    published,  \* how many events have been published
    got         \* history variable: the events written to the connection

vars == <<rooms, joined, queue, closed, conn, reader, ask, writer, pub, published, got>>

NoClients == [ev |-> <<>>, todo |-> {}]

Init ==
    /\ rooms = << >>
    /\ joined = [c \in Client |-> {}]
    /\ queue = [c \in Client |-> <<>>]
    /\ closed = [c \in Client |-> FALSE]
    /\ conn = [c \in Client |-> "none"]
    /\ reader = [c \in Client |-> "none"]
    /\ ask = [c \in Client |-> {}]
    /\ writer = [c \in Client |-> "none"]
    /\ pub = [p \in Publisher |-> NoClients]
    /\ published = 0
    /\ got = [c \in Client |-> <<>>]

Publishing(p) == pub[p] # NoClients

\* The exclusive lock is free of readers.
Unlocked == \A p \in Publisher : ~Publishing(p)

\* The bound: connections made and events published so far.
Turns == published + Cardinality({c \in Client : conn[c] # "none"})

Members(room) == IF room \in DOMAIN rooms THEN rooms[room] ELSE {}

Entered(c, room) ==
    [x \in DOMAIN rooms \union {room} |->
        IF x = room THEN Members(room) \union {c} ELSE rooms[x]]

\* Mutant: a room is kept when its last member has left.
NotPruned(c, left) ==
    [x \in DOMAIN rooms |-> IF x \in left THEN rooms[x] \ {c} ELSE rooms[x]]

\* removeFromRoomLocked for each room of left: a room left empty is dropped.
Left(c, left) ==
    [x \in {y \in DOMAIN rooms : y \in left => rooms[y] # {c}} |->
        IF x \in left THEN rooms[x] \ {c} ELSE rooms[x]]

-------------------------------------------------------------------------------
(***************************************************************************)
(* Publish.                                                                *)
(***************************************************************************)

Publish(p, sev) ==
    /\ ~Publishing(p)
    /\ published < MaxEvents /\ Turns < MaxTurns
    /\ published' = published + 1
    /\ pub' = [pub EXCEPT ![p] = [ev |-> [sev |-> sev, by |-> p, n |-> published + 1],
                                  todo |-> Members(sev) \union Members(Broadcast)]]
    /\ UNCHANGED <<rooms, joined, queue, closed, conn, reader, ask, writer, got>>

\* Mutant: an event is queued whether there is room for it or not.
Unbounded(q, ev) == Append(q, ev)

\* Mutant: an event is put ahead of those that wait.
AheadOfOthers(q, ev) == IF Len(q) < BufferSize THEN <<ev>> \o q ELSE q

\* enqueue: the event is dropped when the client's buffer is full.
Enqueued(q, ev) == IF Len(q) < BufferSize THEN Append(q, ev) ELSE q

\* Mutant: the publisher waits for a place in a full buffer.
BlockingDeliver(p, c) ==
    /\ c \in pub[p].todo
    /\ Len(queue[c]) < BufferSize
    /\ queue' = [queue EXCEPT ![c] = Append(@, pub[p].ev)]
    /\ pub' = [pub EXCEPT ![p].todo = @ \ {c}]
    /\ UNCHANGED <<rooms, joined, closed, conn, reader, ask, writer, published, got>>

Deliver(p, c) ==
    /\ c \in pub[p].todo
    /\ queue' = [queue EXCEPT ![c] = Enqueued(@, pub[p].ev)]
    /\ pub' = [pub EXCEPT ![p].todo = @ \ {c}]
    /\ UNCHANGED <<rooms, joined, closed, conn, reader, ask, writer, published, got>>

PublishDone(p) ==
    /\ Publishing(p)
    /\ pub[p].todo = {}
    /\ pub' = [pub EXCEPT ![p] = NoClients]
    /\ UNCHANGED <<rooms, joined, queue, closed, conn, reader, ask, writer,
                   published, got>>

-------------------------------------------------------------------------------
(***************************************************************************)
(* ServeHTTP: subscribe to the rooms asked for, start the write pump, read *)
(* control frames until the connection fails, leave the hub, wait for the  *)
(* write pump.                                                             *)
(***************************************************************************)
Connect(c, ids) ==
    /\ reader[c] = "none"
    /\ Turns < MaxTurns
    /\ reader' = [reader EXCEPT ![c] = "joining"]
    /\ conn' = [conn EXCEPT ![c] = "open"]
    /\ ask' = [ask EXCEPT ![c] = ids]
    /\ UNCHANGED <<rooms, joined, queue, closed, writer, pub, published, got>>

Join(c) ==
    /\ reader[c] = "joining"
    /\ Unlocked
    /\ \E room \in ask[c] :
         /\ rooms' = Entered(c, room)
         /\ joined' = [joined EXCEPT ![c] = @ \union {room}]
         /\ ask' = [ask EXCEPT ![c] = @ \ {room}]
    /\ UNCHANGED <<queue, closed, conn, reader, writer, pub, published, got>>

StartPumps(c) ==
    /\ reader[c] = "joining"
    /\ ask[c] = {}
    /\ reader' = [reader EXCEPT ![c] = "reading"]
    /\ writer' = [writer EXCEPT ![c] = "running"]
    /\ UNCHANGED <<rooms, joined, queue, closed, conn, ask, pub, published, got>>

SubscribeFrame(c, room) ==
    /\ reader[c] = "reading"
    /\ conn[c] # "closed"
    /\ Unlocked
    /\ rooms' = Entered(c, room)
    /\ joined' = [joined EXCEPT ![c] = @ \union {room}]
    /\ UNCHANGED <<queue, closed, conn, reader, ask, writer, pub, published, got>>

UnsubscribeFrame(c, room) ==
    /\ reader[c] = "reading"
    /\ conn[c] # "closed"
    /\ Unlocked
    /\ rooms' = Left(c, {room})
    /\ joined' = [joined EXCEPT ![c] = @ \ {room}]
    /\ UNCHANGED <<queue, closed, conn, reader, ask, writer, pub, published, got>>

\* The peer is gone and says nothing; the read deadline (pongWait) will tell.
PeerGone(c) ==
    /\ conn[c] = "open"
    /\ conn' = [conn EXCEPT ![c] = "dead"]
    /\ UNCHANGED <<rooms, joined, queue, closed, reader, ask, writer, pub, published, got>>

ReadFails(c) ==
    /\ reader[c] = "reading"
    /\ conn[c] \in {"dead", "closed"}
    /\ reader' = [reader EXCEPT ![c] = "closing"]
    /\ conn' = [conn EXCEPT ![c] = "closed"]
    /\ UNCHANGED <<rooms, joined, queue, closed, ask, writer, pub, published, got>>

\* Mutant: the hub is left without taking the lock.
CloseUnlocked(c) ==
    /\ reader[c] = "closing"
    /\ rooms' = Left(c, joined[c])
    /\ closed' = [closed EXCEPT ![c] = TRUE]
    /\ reader' = [reader EXCEPT ![c] = "waiting"]
    /\ UNCHANGED <<joined, queue, conn, ask, writer, pub, published, got>>

\* Hub.Close: leave the rooms this client has joined, close its channel.
Close(c) ==
    /\ reader[c] = "closing"
    /\ Unlocked
    /\ rooms' = Left(c, joined[c])
    /\ closed' = [closed EXCEPT ![c] = TRUE]
    /\ reader' = [reader EXCEPT ![c] = "waiting"]
    /\ UNCHANGED <<joined, queue, conn, ask, writer, pub, published, got>>

Disconnected(c) ==
    /\ reader[c] = "waiting"
    /\ writer[c] = "done"
    /\ reader' = [reader EXCEPT ![c] = "done"]
    /\ UNCHANGED <<rooms, joined, queue, closed, conn, ask, writer, pub, published, got>>

-------------------------------------------------------------------------------
(***************************************************************************)
(* writePump.                                                              *)
(***************************************************************************)

\* A write to a peer that is gone may still succeed.
Write(c) ==
    /\ writer[c] = "running"
    /\ conn[c] # "closed"
    /\ queue[c] # <<>>
    /\ queue' = [queue EXCEPT ![c] = Tail(@)]
    /\ got' = [got EXCEPT ![c] = Append(@, Head(queue[c]))]
    /\ UNCHANGED <<rooms, joined, closed, conn, reader, ask, writer, pub, published>>

\* A failed write takes the event with it and closes the connection.
WriteFails(c) ==
    /\ writer[c] = "running"
    /\ queue[c] # <<>>
    /\ queue' = [queue EXCEPT ![c] = Tail(@)]
    /\ conn' = [conn EXCEPT ![c] = "closed"]
    /\ writer' = [writer EXCEPT ![c] = "done"]
    /\ UNCHANGED <<rooms, joined, closed, reader, ask, pub, published, got>>

\* Mutant: the pump ends on a failed ping and leaves the connection open.
PingFailsOpen(c) ==
    /\ writer[c] = "running"
    /\ writer' = [writer EXCEPT ![c] = "done"]
    /\ UNCHANGED <<rooms, joined, queue, closed, conn, reader, ask, pub, published, got>>

PingFails(c) ==
    /\ writer[c] = "running"
    /\ conn' = [conn EXCEPT ![c] = "closed"]
    /\ writer' = [writer EXCEPT ![c] = "done"]
    /\ UNCHANGED <<rooms, joined, queue, closed, reader, ask, pub, published, got>>

\* A closed channel still yields what it holds, then ends the pump.
ChannelEnds(c) ==
    /\ writer[c] = "running"
    /\ closed[c]
    /\ queue[c] = <<>>
    /\ writer' = [writer EXCEPT ![c] = "done"]
    /\ UNCHANGED <<rooms, joined, queue, closed, conn, reader, ask, pub, published, got>>

-------------------------------------------------------------------------------

PublisherStep(p) ==
    \/ \E c \in Client : Deliver(p, c)
    \/ PublishDone(p)

\* What the goroutines of a connection do by themselves.
HandlerStep(c) == Join(c) \/ StartPumps(c) \/ ReadFails(c) \/ Close(c) \/ Disconnected(c)
WriterStep(c)  == Write(c) \/ WriteFails(c) \/ ChannelEnds(c)

Next ==
    \/ \E p \in Publisher : \/ \E sev \in Sev : Publish(p, sev)
                            \/ PublisherStep(p)
    \/ \E c \in Client :
         \/ \E ids \in SUBSET Room : Connect(c, ids)
         \/ \E room \in Room : SubscribeFrame(c, room) \/ UnsubscribeFrame(c, room)
         \/ PeerGone(c)
         \/ HandlerStep(c)
         \/ WriterStep(c)
         \/ PingFails(c)

Spec == Init /\ [][Next]_vars

(***************************************************************************)
(* Running goroutines are scheduled, reads and writes have deadlines       *)
(* (pongWait, writeWait). Strong fairness of the connection's handler,     *)
(* whose Join and Close lock the hub: sync.RWMutex lets no new reader in   *)
(* while a writer waits. Its other steps stay enabled until it takes them. *)
(***************************************************************************)
Fairness ==
    /\ \A p \in Publisher : WF_vars(PublisherStep(p))
    /\ \A c \in Client : SF_vars(HandlerStep(c)) /\ WF_vars(WriterStep(c))

FairSpec == Spec /\ Fairness

-------------------------------------------------------------------------------

\* Every variable has its type, and no queue outgrows its buffer.
TypeOK ==
    /\ DOMAIN rooms \subseteq Room
    /\ \A room \in DOMAIN rooms : rooms[room] \subseteq Client
    /\ joined \in [Client -> SUBSET Room]
    /\ queue \in [Client -> Seq(Event)]
    /\ \A c \in Client : Len(queue[c]) <= BufferSize
    /\ closed \in [Client -> BOOLEAN]
    /\ conn \in [Client -> {"none", "open", "dead", "closed"}]
    /\ reader \in [Client -> {"none", "joining", "reading", "closing", "waiting", "done"}]
    /\ ask \in [Client -> SUBSET Room]
    /\ writer \in [Client -> {"none", "running", "done"}]
    /\ pub \in [Publisher -> [ev : Event, todo : SUBSET Client] \union {NoClients}]
    /\ published \in 0 .. MaxEvents
    /\ got \in [Client -> Seq(Event)]

\* The hub's rooms and the clients' own sets, kept apart so that a disconnect
\* visits only the client's rooms, agree; a closed client is in no room, and a
\* room nobody is in is not kept.
RoomsAgree ==
    /\ \A c \in Client, room \in Room :
            c \in Members(room) <=> room \in joined[c] /\ ~closed[c]
    /\ \A room \in DOMAIN rooms : rooms[room] # {}

\* The clients a publisher has yet to serve are still in one of the rooms it
\* publishes to and their channels are open: no send on a closed channel.
TargetsStayOpen ==
    \A p \in Publisher : \A c \in pub[p].todo :
        /\ ~closed[c]
        /\ c \in Members(pub[p].ev.sev) \union Members(Broadcast)

\* A client gets an event at most once, though it may be in both of its rooms,
\* and the events of one publisher in the order they were published.
OnceAndInOrder ==
    \A c \in Client :
        LET seen == got[c] \o queue[c] IN
        \A i, j \in DOMAIN seen :
            i < j /\ seen[i].by = seen[j].by => seen[i].n < seen[j].n

\* A publisher always gets through its fan-out, however slow or stuck a client
\* is: it never waits for a buffer.
PublishersReturn == \A p \in Publisher : []<>~Publishing(p)

\* A connection whose peer is gone, or that its write pump gave up on, which it is for
\* good, leaves the hub and both its goroutines end.
Gone(c) == conn[c] \in {"dead", "closed"} \/ writer[c] = "done"

GoneClientsLeave == \A c \in Client : []<>(Gone(c) => reader[c] = "done")

-------------------------------------------------------------------------------
(***************************************************************************)
(* The contract, and what of the hub it is about. An event is due to a     *)
(* client from the moment Publish takes the lock: while the client is one  *)
(* of those still to be served, and while it is in the client's queue.     *)
(***************************************************************************)
MemberOf == [c \in Client |-> {room \in Room : c \in Members(room)}]
Failed   == {c \in Client : conn[c] = "closed"}

Queued(c)   == {queue[c][i] : i \in DOMAIN queue[c]}
Underway(c) == {pub[p].ev : p \in {q \in Publisher : c \in pub[q].todo}}

Due == [c \in Client |-> IF c \in Failed THEN {} ELSE Queued(c) \union Underway(c)]

Contract == INSTANCE HubContract WITH
    member <- MemberOf,
    failed <- Failed,
    count  <- published,
    due    <- Due,
    seen   <- got

\* Although a fan-out takes many steps, among those of other publishers and of the
\* connections, its event goes to those who were subscribed at one moment; a connection
\* misses it only by a full buffer or its own failure, and never gets it twice or late.
HubKeepsContract == Contract!Spec

===============================================================================

------------------------------- MODULE WsHubProofs -------------------------------
(***************************************************************************)
(* Theorems about the hub for any number of connections, SEVs and          *)
(* publishers, any buffer size and any number of events. The inductive     *)
(* invariant adds to the properties that a client whose channel is closed  *)
(* is past reading frames, and that an event on its way is younger than    *)
(* whatever its publisher has sent the clients it has yet to serve.        *)
(***************************************************************************)
EXTENDS WsHub, TLAPS

-------------------------------------------------------------------------------
(***************************************************************************)
(* Sequences of events.                                                    *)
(***************************************************************************)
Ordered(s) == \A i, j \in DOMAIN s : i < j /\ s[i].by = s[j].by => s[i].n < s[j].n

Ahead(s, t) == \A i \in DOMAIN s : \A j \in DOMAIN t : s[i].by = t[j].by => s[i].n < t[j].n

Below(s, by, n) == \A i \in DOMAIN s : s[i].by = by => s[i].n < n

AtMost(s, n) == \A i \in DOMAIN s : s[i].n <= n

LEMMA EventOrder ==
    ASSUME NEW e \in Event
    PROVE  e.n \in Nat /\ e.by \in Publisher
BY HubAssumption DEF Event

LEMMA AppendEvent ==
    ASSUME NEW s \in Seq(Event), NEW t \in Seq(Event), NEW e \in Event
    PROVE  /\ Append(s, e) \in Seq(Event) /\ Len(Append(s, e)) = Len(s) + 1
           /\ Ordered(s) /\ Below(s, e.by, e.n) => Ordered(Append(s, e))
           /\ Ahead(t, s) /\ Below(t, e.by, e.n) => Ahead(t, Append(s, e))
           /\ \A by, n : Below(s, by, n) /\ (e.by = by => e.n < n) => Below(Append(s, e), by, n)
           /\ \A n : AtMost(s, n) /\ e.n <= n => AtMost(Append(s, e), n)
<1>1. /\ Append(s, e) \in Seq(Event) /\ Len(Append(s, e)) = Len(s) + 1
      /\ DOMAIN s = 1 .. Len(s) /\ DOMAIN Append(s, e) = 1 .. Len(s) + 1
      /\ \A i \in 1 .. Len(s) : Append(s, e)[i] = s[i]
      /\ Append(s, e)[Len(s) + 1] = e /\ Len(s) \in Nat
  OBVIOUS
<1>2. PICK w : w = Append(s, e)
  OBVIOUS
<1>3. \A i \in DOMAIN w : (i \in DOMAIN s /\ w[i] = s[i]) \/ (i = Len(s) + 1 /\ w[i] = e)
  BY <1>1, <1>2
<1>4. Ordered(s) /\ Below(s, e.by, e.n) => Ordered(w)
  BY <1>1, <1>2, <1>3 DEF Ordered, Below
<1>5. Ahead(t, s) /\ Below(t, e.by, e.n) => Ahead(t, w)
  BY <1>3 DEF Ahead, Below
<1>6. \A by, n : Below(s, by, n) /\ (e.by = by => e.n < n) => Below(w, by, n)
  BY <1>3 DEF Below
<1>7. \A n : AtMost(s, n) /\ e.n <= n => AtMost(w, n)
  BY <1>3 DEF AtMost
<1> QED
  BY <1>1, <1>2, <1>4, <1>5, <1>6, <1>7

LEMMA TailEvents ==
    ASSUME NEW s \in Seq(Event), NEW t \in Seq(Event), t # <<>>
    PROVE  /\ Tail(t) \in Seq(Event) /\ Head(t) \in Event /\ Len(Tail(t)) = Len(t) - 1
           /\ Ordered(t) => Ordered(Tail(t))
           /\ Ahead(s, t) => Ahead(s, Tail(t)) /\ Below(s, Head(t).by, Head(t).n)
           /\ Ordered(t) /\ Ahead(s, t) => Ahead(Append(s, Head(t)), Tail(t))
           /\ \A by, n : Below(t, by, n) => /\ Below(Tail(t), by, n)
                                            /\ Head(t).by = by => Head(t).n < n
           /\ \A n : AtMost(t, n) => AtMost(Tail(t), n) /\ Head(t).n <= n
<1>1. /\ Tail(t) \in Seq(Event) /\ Len(Tail(t)) = Len(t) - 1 /\ Head(t) = t[1]
      /\ DOMAIN t = 1 .. Len(t) /\ DOMAIN Tail(t) = 1 .. Len(t) - 1
      /\ \A i \in 1 .. Len(t) - 1 : Tail(t)[i] = t[i + 1]
      /\ Len(t) \in Nat /\ Len(t) # 0
  OBVIOUS
<1>2. PICK w, e : w = Tail(t) /\ e = Head(t)
  OBVIOUS
<1>3. /\ 1 \in DOMAIN t /\ t[1] = e /\ e \in Event
      /\ \A i \in DOMAIN w : i + 1 \in DOMAIN t /\ w[i] = t[i + 1] /\ 1 < i + 1 /\ i \in Nat
  BY <1>1, <1>2
<1>4. Ordered(t) => Ordered(w)
  BY <1>1, <1>2, <1>3 DEF Ordered
<1>5. Ahead(s, t) => Ahead(s, w) /\ Below(s, e.by, e.n)
  BY <1>3 DEF Ahead, Below
<1>6. Ordered(t) /\ Ahead(s, t) => Ahead(Append(s, e), w)
  <2>1. \A i \in DOMAIN Append(s, e) :
            (i \in DOMAIN s /\ Append(s, e)[i] = s[i]) \/ Append(s, e)[i] = e
    BY <1>3
  <2>2. PICK v : v = Append(s, e)
    OBVIOUS
  <2>3. ASSUME Ordered(t), Ahead(s, t), NEW i \in DOMAIN v, NEW j \in DOMAIN w, v[i].by = w[j].by
        PROVE  v[i].n < w[j].n
    <3>1. CASE i \in DOMAIN s /\ v[i] = s[i]
      BY <1>3, <2>3, <3>1 DEF Ahead
    <3>2. CASE v[i] = e
      BY <1>3, <2>3, <3>2 DEF Ordered
    <3> QED
      BY <2>1, <2>2, <3>1, <3>2
  <2> QED
    BY <2>2, <2>3 DEF Ahead
<1>7. \A by, n : Below(t, by, n) => Below(w, by, n) /\ (e.by = by => e.n < n)
  BY <1>3 DEF Below
<1>8. \A n : AtMost(t, n) => AtMost(w, n) /\ e.n <= n
  BY <1>3 DEF AtMost
<1> QED
  BY <1>1, <1>2, <1>3, <1>4, <1>5, <1>6, <1>7, <1>8

LEMMA ConcatOrdered ==
    ASSUME NEW s \in Seq(Event), NEW t \in Seq(Event), Ordered(s), Ordered(t), Ahead(s, t)
    PROVE  Ordered(s \o t)
<1>1. PICK w : w = s \o t
  OBVIOUS
<1>2. /\ DOMAIN w = 1 .. Len(s) + Len(t) /\ Len(s) \in Nat /\ Len(t) \in Nat
      /\ DOMAIN s = 1 .. Len(s) /\ DOMAIN t = 1 .. Len(t)
      /\ \A i \in DOMAIN w : w[i] = IF i <= Len(s) THEN s[i] ELSE t[i - Len(s)]
  BY <1>1
<1>3. ASSUME NEW i \in DOMAIN w, NEW j \in DOMAIN w, i < j, w[i].by = w[j].by
      PROVE  w[i].n < w[j].n
  <2>1. CASE j <= Len(s)
    BY <1>2, <1>3, <2>1 DEF Ordered
  <2>2. CASE i <= Len(s) /\ ~(j <= Len(s))
    <3>1. j - Len(s) \in DOMAIN t /\ i \in DOMAIN s
      BY <1>2, <2>2
    <3> QED
      BY <1>2, <1>3, <2>2, <3>1 DEF Ahead
  <2>3. CASE ~(i <= Len(s))
    <3>1. /\ i - Len(s) \in DOMAIN t /\ j - Len(s) \in DOMAIN t /\ i - Len(s) < j - Len(s)
          /\ ~(j <= Len(s))
      BY <1>2, <1>3, <2>3
    <3> QED
      BY <1>2, <1>3, <2>3, <3>1 DEF Ordered
  <2> QED
    BY <2>1, <2>2, <2>3
<1> QED
  BY <1>1, <1>3 DEF Ordered

-------------------------------------------------------------------------------
(***************************************************************************)
(* Rooms.                                                                  *)
(***************************************************************************)
RoomsType == DOMAIN rooms \subseteq Room /\ \A room \in DOMAIN rooms : rooms[room] \subseteq Client

LEMMA EnteredRooms ==
    ASSUME RoomsType, NEW c \in Client, NEW room \in Room, rooms' = Entered(c, room)
    PROVE  /\ RoomsType'
           /\ \A x \in Room, d \in Client :
                 d \in Members(x)' <=> d \in Members(x) \/ (d = c /\ x = room)
           /\ (\A x \in DOMAIN rooms : rooms[x] # {}) => \A x \in DOMAIN rooms' : rooms'[x] # {}
<1>1. /\ DOMAIN rooms' = DOMAIN rooms \union {room}
      /\ \A x \in DOMAIN rooms' : rooms'[x] = IF x = room THEN Members(room) \union {c}
                                              ELSE rooms[x]
  BY DEF Entered
<1>2. Members(room) \subseteq Client
  BY DEF RoomsType, Members
<1>3. \A x \in Room : Members(x)' = IF x = room THEN Members(room) \union {c} ELSE Members(x)
  BY <1>1 DEF Members
<1> QED
  BY <1>1, <1>2, <1>3 DEF RoomsType

LEMMA LeftRooms ==
    ASSUME RoomsType, NEW c \in Client, NEW left \in SUBSET Room, rooms' = Left(c, left)
    PROVE  /\ RoomsType'
           /\ \A x \in Room, d \in Client :
                 d \in Members(x)' <=> d \in Members(x) /\ ~(d = c /\ x \in left)
           /\ (\A x \in DOMAIN rooms : rooms[x] # {}) => \A x \in DOMAIN rooms' : rooms'[x] # {}
<1>1. /\ DOMAIN rooms' = {y \in DOMAIN rooms : y \in left => rooms[y] # {c}}
      /\ \A x \in DOMAIN rooms' : rooms'[x] = IF x \in left THEN rooms[x] \ {c} ELSE rooms[x]
  BY DEF Left
<1>2. \A x \in Room : Members(x)' = IF x \in left THEN Members(x) \ {c} ELSE Members(x)
  <2> SUFFICES ASSUME NEW x \in Room
               PROVE  Members(x)' = IF x \in left THEN Members(x) \ {c} ELSE Members(x)
    OBVIOUS
  <2>1. CASE x \in DOMAIN rooms'
    BY <1>1, <2>1 DEF Members
  <2>2. CASE x \in DOMAIN rooms /\ x \notin DOMAIN rooms'
    BY <1>1, <2>2 DEF Members
  <2>3. CASE x \notin DOMAIN rooms
    BY <1>1, <2>3 DEF Members
  <2> QED
    BY <2>1, <2>2, <2>3
<1>3. ASSUME NEW x \in DOMAIN rooms', rooms[x] # {} PROVE rooms'[x] # {}
  BY <1>1, <1>3
<1>4. RoomsType'
  BY <1>1 DEF RoomsType
<1>5. \A x \in DOMAIN rooms' : x \in DOMAIN rooms
  BY <1>1
<1> QED
  BY <1>2, <1>3, <1>4, <1>5

-------------------------------------------------------------------------------
(***************************************************************************)
(* The invariant.                                                          *)
(***************************************************************************)
ClientInOrder(c) ==
    /\ Ordered(got[c]) /\ Ordered(queue[c]) /\ Ahead(got[c], queue[c])
    /\ AtMost(got[c], published) /\ AtMost(queue[c], published)

\* What p is fanning out is younger than all of p's events its targets were sent.
FanOut(p) ==
    /\ pub[p].todo # {} => pub[p].ev.by = p /\ pub[p].ev.n <= published
    /\ \A c \in pub[p].todo : /\ Below(got[c], p, pub[p].ev.n)
                              /\ Below(queue[c], p, pub[p].ev.n)

ClosedLate == \A c \in Client : closed[c] => reader[c] \in {"waiting", "done"}

HubInv ==
    /\ TypeOK /\ RoomsAgree /\ TargetsStayOpen /\ ClosedLate
    /\ \A c \in Client : ClientInOrder(c)
    /\ \A p \in Publisher : FanOut(p)

LEMMA HubFacts ==
    ASSUME HubInv
    PROVE  /\ RoomsType /\ joined \in [Client -> SUBSET Room]
           /\ queue \in [Client -> Seq(Event)] /\ \A c \in Client : Len(queue[c]) <= BufferSize
           /\ closed \in [Client -> BOOLEAN] /\ ask \in [Client -> SUBSET Room]
           /\ conn \in [Client -> {"none", "open", "dead", "closed"}]
           /\ reader \in [Client -> {"none", "joining", "reading", "closing", "waiting", "done"}]
           /\ writer \in [Client -> {"none", "running", "done"}]
           /\ pub \in [Publisher -> [ev : Event, todo : SUBSET Client] \union {NoClients}]
           /\ published \in Nat /\ published \in 0 .. MaxEvents
           /\ got \in [Client -> Seq(Event)] /\ BufferSize \in Nat /\ MaxEvents \in Nat
           /\ \A p \in Publisher : pub[p].todo \subseteq Client
           /\ \A p \in Publisher : Publishing(p) => pub[p] \in [ev : Event, todo : SUBSET Client]
           /\ NoClients.todo = {}
<1>1. NoClients.todo = {}
  BY DEF NoClients
<1>2. TypeOK /\ RoomsType
  BY DEF HubInv, TypeOK, RoomsType
<1>3. pub \in [Publisher -> [ev : Event, todo : SUBSET Client] \union {NoClients}]
  BY <1>2 DEF TypeOK
<1>4. \A p \in Publisher : /\ pub[p].todo \subseteq Client
                          /\ Publishing(p) => pub[p] \in [ev : Event, todo : SUBSET Client]
  BY <1>1, <1>3 DEF Publishing
<1>5. published \in Nat /\ published \in 0 .. MaxEvents /\ BufferSize \in Nat /\ MaxEvents \in Nat
  BY <1>2, HubAssumption DEF TypeOK
<1> QED
  BY <1>1, <1>2, <1>3, <1>4, <1>5 DEF TypeOK

LEMMA HubInit == Init => HubInv
<1> SUFFICES ASSUME Init PROVE HubInv
  OBVIOUS
<1>1. <<>> \in Seq(Event) /\ Len(<<>>) = 0 /\ \A x : x \notin DOMAIN <<>>
  OBVIOUS
<1>2. TypeOK
  BY <1>1, HubAssumption DEF Init, TypeOK
<1>3. RoomsAgree
  BY <1>1 DEF Init, RoomsAgree, Members
<1>4. \A c \in Client : ClientInOrder(c)
  BY <1>1 DEF Init, ClientInOrder, Ordered, Ahead, AtMost
<1> QED
  BY <1>2, <1>3, <1>4 DEF Init, HubInv, TargetsStayOpen, ClosedLate, FanOut, NoClients

\* With the lock held exclusively no publisher has a client left to serve.
LEMMA LockedOut ==
    ASSUME HubInv, Unlocked
    PROVE  \A p \in Publisher : pub[p].todo = {}
BY HubFacts DEF Unlocked, Publishing

\* What a connection's goroutines do without the hub's lock and without its queue.
LEMMA QuietStep ==
    ASSUME HubInv, NEW c \in Client,
           UNCHANGED <<rooms, joined, queue, closed, pub, published, got>>,
           conn' \in [Client -> {"none", "open", "dead", "closed"}],
           reader' \in [Client -> {"none", "joining", "reading", "closing", "waiting", "done"}],
           ask' \in [Client -> SUBSET Room], writer' \in [Client -> {"none", "running", "done"}],
           \A d \in Client : closed[d] => reader'[d] \in {"waiting", "done"}
    PROVE  HubInv'
<1>1. TypeOK'
  BY DEF HubInv, TypeOK
<1>2. RoomsAgree' /\ TargetsStayOpen' /\ ClosedLate'
  BY DEF HubInv, RoomsAgree, TargetsStayOpen, ClosedLate, Members
<1>3. \A d \in Client : ClientInOrder(d)'
  BY DEF HubInv, ClientInOrder
<1>4. \A p \in Publisher : FanOut(p)'
  BY DEF HubInv, FanOut
<1> QED
  BY <1>1, <1>2, <1>3, <1>4 DEF HubInv

\* What is done under the exclusive lock: nobody is publishing.
LEMMA LockedStep ==
    ASSUME HubInv, Unlocked, RoomsType', RoomsAgree',
           UNCHANGED <<queue, conn, writer, pub, published, got>>,
           joined' \in [Client -> SUBSET Room], closed' \in [Client -> BOOLEAN],
           reader' \in [Client -> {"none", "joining", "reading", "closing", "waiting", "done"}],
           ask' \in [Client -> SUBSET Room], ClosedLate'
    PROVE  HubInv'
<1>1. TypeOK'
  BY DEF HubInv, TypeOK, RoomsType
<1>2. TargetsStayOpen'
  BY LockedOut DEF TargetsStayOpen
<1>3. \A d \in Client : ClientInOrder(d)'
  BY DEF HubInv, ClientInOrder
<1>4. \A p \in Publisher : FanOut(p)'
  BY DEF HubInv, FanOut
<1> QED
  BY <1>1, <1>2, <1>3, <1>4 DEF HubInv

-------------------------------------------------------------------------------
(***************************************************************************)
(* The steps.                                                              *)
(***************************************************************************)
LEMMA PublishStep ==
    ASSUME HubInv, NEW p \in Publisher, NEW sev \in Sev, Publish(p, sev)
    PROVE  HubInv'
<1>0. /\ published' = published + 1 /\ published' \in 0 .. MaxEvents /\ published' \in 1 .. MaxEvents
      /\ UNCHANGED <<rooms, joined, queue, closed, conn, reader, ask, writer, got>>
  BY HubFacts DEF Publish
<1>1. PICK ev, todo : /\ ev = [sev |-> sev, by |-> p, n |-> published']
                     /\ todo = Members(sev) \union Members(Broadcast)
  OBVIOUS
<1>2. ev \in Event /\ ev.sev = sev /\ ev.by = p /\ ev.n = published'
  BY <1>0, <1>1 DEF Event
<1>3. todo \subseteq Client
  BY <1>1, HubFacts DEF Members, RoomsType
<1>4. PICK call \in [ev : Event, todo : SUBSET Client] :
         /\ pub' = [pub EXCEPT ![p] = call] /\ call.ev = ev /\ call.todo = todo
  <2>1. PICK call : call = [ev |-> ev, todo |-> todo]
    OBVIOUS
  <2>2. call \in [ev : Event, todo : SUBSET Client] /\ call.ev = ev /\ call.todo = todo
    BY <1>2, <1>3, <2>1
  <2>3. pub' = [pub EXCEPT ![p] = call]
    BY <1>0, <1>1, <2>1 DEF Publish
  <2> QED
    BY <2>2, <2>3
<1>5. \A q \in Publisher : pub'[q] = IF q = p THEN call ELSE pub[q]
  BY <1>4, HubFacts
<1>6. TypeOK'
  BY <1>0, <1>4, HubFacts DEF HubInv, TypeOK
<1>7. RoomsAgree' /\ ClosedLate'
  BY <1>0 DEF HubInv, RoomsAgree, ClosedLate, Members
<1>8. TargetsStayOpen'
  <2> SUFFICES ASSUME NEW q \in Publisher, NEW c \in pub'[q].todo
               PROVE  /\ ~closed[c]
                      /\ c \in Members(pub'[q].ev.sev) \union Members(Broadcast)
    BY <1>0 DEF TargetsStayOpen, Members
  <2>1. CASE q = p
    <3>1. c \in Members(sev) \union Members(Broadcast) /\ c \in Client
      BY <1>1, <1>3, <1>4, <1>5, <2>1
    <3>2. sev \in Room /\ Broadcast \in Room
      BY DEF Room
    <3>3. ~closed[c]
      BY <3>1, <3>2 DEF HubInv, RoomsAgree
    <3> QED
      BY <1>2, <1>4, <1>5, <2>1, <3>1, <3>3
  <2>2. CASE q # p
    BY <1>5, <2>2 DEF HubInv, TargetsStayOpen
  <2> QED
    BY <2>1, <2>2
<1>9. \A c \in Client, n \in {published} :
         AtMost(got[c], n) /\ AtMost(queue[c], n) =>
            /\ AtMost(got[c], n + 1) /\ AtMost(queue[c], n + 1)
            /\ Below(got[c], p, n + 1) /\ Below(queue[c], p, n + 1)
  <2> SUFFICES ASSUME NEW s \in Seq(Event), AtMost(s, published)
               PROVE  AtMost(s, published + 1) /\ Below(s, p, published + 1)
    BY HubFacts
  <2>1. \A i \in DOMAIN s : s[i] \in Event
    OBVIOUS
  <2>2. \A i \in DOMAIN s : s[i].n \in Nat /\ s[i].n <= published
    BY <2>1, EventOrder DEF AtMost
  <2> QED
    BY <2>2, HubFacts DEF AtMost, Below
<1>10. \A c \in Client : ClientInOrder(c)'
  BY <1>0, <1>9 DEF HubInv, ClientInOrder
<1>11. ASSUME NEW q \in Publisher PROVE FanOut(q)'
  <2>1. CASE q = p
    <3>1. \A c \in todo : Below(got[c], p, ev.n) /\ Below(queue[c], p, ev.n)
      BY <1>0, <1>2, <1>3, <1>9 DEF HubInv, ClientInOrder
    <3>2. ev.n <= published'
      BY <1>0, <1>2
    <3> QED
      BY <1>0, <1>2, <1>4, <1>5, <2>1, <3>1, <3>2 DEF FanOut
  <2>2. CASE q # p
    <3>1. FanOut(q) /\ pub'[q] = pub[q]
      BY <1>5, <2>2 DEF HubInv
    <3>2. pub[q].todo # {} => pub[q].ev.n \in Nat
      BY HubFacts, EventOrder DEF Publishing
    <3> QED
      BY <1>0, <3>1, <3>2, HubFacts DEF FanOut
  <2> QED
    BY <2>1, <2>2
<1> QED
  BY <1>6, <1>7, <1>8, <1>10, <1>11 DEF HubInv

LEMMA DeliverStep ==
    ASSUME HubInv, NEW p \in Publisher, NEW c \in Client, Deliver(p, c)
    PROVE  HubInv'
<1>0. /\ UNCHANGED <<rooms, joined, closed, conn, reader, ask, writer, published, got>>
      /\ c \in pub[p].todo /\ pub[p] \in [ev : Event, todo : SUBSET Client]
      /\ queue[c] \in Seq(Event) /\ got[c] \in Seq(Event)
  BY HubFacts DEF Deliver, Publishing
<1>1. PICK ev \in Event : /\ ev = pub[p].ev /\ ev.by = p /\ ev.n <= published
                          /\ Below(got[c], ev.by, ev.n) /\ Below(queue[c], ev.by, ev.n)
  BY <1>0 DEF HubInv, FanOut
<1>2. PICK q : q = Enqueued(queue[c], ev)
  OBVIOUS
<1>3. queue' = [queue EXCEPT ![c] = q]
  BY <1>1, <1>2 DEF Deliver
<1>4. PICK call \in [ev : Event, todo : SUBSET Client] :
         pub' = [pub EXCEPT ![p] = call] /\ call.ev = ev /\ call.todo = pub[p].todo \ {c}
  <2>1. PICK call : call = [pub[p] EXCEPT !.todo = @ \ {c}]
    OBVIOUS
  <2>2. call \in [ev : Event, todo : SUBSET Client] /\ call.ev = ev /\ call.todo = pub[p].todo \ {c}
    BY <1>0, <1>1, <2>1
  <2>3. pub' = [pub EXCEPT ![p] = call]
    BY <2>1 DEF Deliver
  <2> QED
    BY <2>2, <2>3
<1>5. /\ q \in Seq(Event) /\ Len(q) <= BufferSize
      /\ Ordered(q) /\ Ahead(got[c], q) /\ AtMost(q, published)
      /\ \A by, n : Below(queue[c], by, n) /\ (ev.by = by => ev.n < n) => Below(q, by, n)
  <2>1. /\ Ordered(queue[c]) /\ Ahead(got[c], queue[c]) /\ AtMost(queue[c], published)
        /\ Len(queue[c]) <= BufferSize
    BY HubFacts DEF HubInv, ClientInOrder
  <2>2. CASE Len(queue[c]) < BufferSize
    <3>1. q = Append(queue[c], ev)
      BY <1>2, <2>2 DEF Enqueued
    <3>2. Len(queue[c]) + 1 <= BufferSize
      BY <1>0, <2>2, HubFacts
    <3> QED
      BY <1>0, <1>1, <2>1, <3>1, <3>2, AppendEvent
  <2>3. CASE ~(Len(queue[c]) < BufferSize)
    BY <1>0, <1>2, <2>1, <2>3 DEF Enqueued
  <2> QED
    BY <2>2, <2>3
<1>6. /\ \A d \in Client : queue'[d] = IF d = c THEN q ELSE queue[d]
      /\ \A o \in Publisher : pub'[o] = IF o = p THEN call ELSE pub[o]
  BY <1>3, <1>4, HubFacts
<1>7. TypeOK'
  BY <1>0, <1>3, <1>4, <1>5, <1>6, HubFacts DEF HubInv, TypeOK
<1>8. RoomsAgree' /\ ClosedLate'
  BY <1>0 DEF HubInv, RoomsAgree, ClosedLate, Members
<1>9. TargetsStayOpen'
  <2> SUFFICES ASSUME NEW o \in Publisher, NEW d \in pub'[o].todo
               PROVE  /\ ~closed[d]
                      /\ d \in Members(pub'[o].ev.sev) \union Members(Broadcast)
    BY <1>0 DEF TargetsStayOpen, Members
  <2>1. d \in pub[o].todo /\ pub'[o].ev = pub[o].ev
    BY <1>1, <1>4, <1>6
  <2> QED
    BY <2>1 DEF HubInv, TargetsStayOpen
<1>10. \A d \in Client : ClientInOrder(d)'
  BY <1>0, <1>5, <1>6 DEF HubInv, ClientInOrder
<1>11. ASSUME NEW o \in Publisher PROVE FanOut(o)'
  <2>1. FanOut(o) /\ pub'[o].todo \subseteq pub[o].todo /\ pub'[o].ev = pub[o].ev
    BY <1>1, <1>4, <1>6 DEF HubInv
  <2>2. ASSUME NEW d \in pub'[o].todo
        PROVE  Below(got[d], o, pub[o].ev.n) /\ Below(queue'[d], o, pub[o].ev.n)
    <3>1. /\ d \in pub[o].todo /\ d \in Client
          /\ Below(got[d], o, pub[o].ev.n) /\ Below(queue[d], o, pub[o].ev.n)
      BY <2>1, <2>2, HubFacts DEF FanOut
    <3>2. CASE d = c
      <4>1. o # p
        BY <1>4, <1>6, <2>2, <3>2
      <4> QED
        BY <1>1, <1>5, <1>6, <3>1, <3>2, <4>1
    <3>3. CASE d # c
      BY <1>6, <3>1, <3>3
    <3> QED
      BY <3>2, <3>3
  <2> QED
    BY <1>0, <2>1, <2>2 DEF FanOut
<1> QED
  BY <1>7, <1>8, <1>9, <1>10, <1>11 DEF HubInv

LEMMA PublishDoneStep ==
    ASSUME HubInv, NEW p \in Publisher, PublishDone(p)
    PROVE  HubInv'
<1>0. /\ UNCHANGED <<rooms, joined, queue, closed, conn, reader, ask, writer, published, got>>
      /\ pub' = [pub EXCEPT ![p] = NoClients] /\ NoClients.todo = {}
  BY HubFacts DEF PublishDone
<1>1. \A o \in Publisher : pub'[o] = IF o = p THEN NoClients ELSE pub[o]
  BY <1>0, HubFacts
<1>2. TypeOK'
  BY <1>0, HubFacts DEF HubInv, TypeOK
<1>3. RoomsAgree' /\ ClosedLate'
  BY <1>0 DEF HubInv, RoomsAgree, ClosedLate, Members
<1>4. \A o \in Publisher : FanOut(o)'
  BY <1>0, <1>1 DEF HubInv, FanOut
<1>5. TargetsStayOpen'
  BY <1>0, <1>1 DEF HubInv, TargetsStayOpen, Members
<1>6. \A d \in Client : ClientInOrder(d)'
  BY <1>0 DEF HubInv, ClientInOrder
<1> QED
  BY <1>2, <1>3, <1>4, <1>5, <1>6 DEF HubInv

\* Subscribe: only a client that has not closed enters a room.
LEMMA EnterStep ==
    ASSUME HubInv, Unlocked, NEW c \in Client, NEW room \in Room, ~closed[c],
           rooms' = Entered(c, room), joined' = [joined EXCEPT ![c] = @ \union {room}],
           ask' \in [Client -> SUBSET Room],
           UNCHANGED <<queue, closed, conn, reader, writer, pub, published, got>>
    PROVE  HubInv'
<1>1. /\ RoomsType'
      /\ \A x \in Room, d \in Client : d \in Members(x)' <=> d \in Members(x) \/ (d = c /\ x = room)
      /\ \A x \in DOMAIN rooms' : rooms'[x] # {}
  BY HubFacts, EnteredRooms DEF HubInv, RoomsAgree
<1>2. /\ joined' \in [Client -> SUBSET Room]
      /\ \A d \in Client : joined'[d] = IF d = c THEN joined[c] \union {room} ELSE joined[d]
  BY HubFacts
<1>3. RoomsAgree'
  <2>1. ASSUME NEW d \in Client, NEW x \in Room
        PROVE  d \in Members(x)' <=> x \in joined'[d] /\ ~closed'[d]
    BY <1>1, <1>2 DEF HubInv, RoomsAgree
  <2> QED
    BY <1>1, <2>1 DEF RoomsAgree
<1>4. ClosedLate' /\ closed' \in [Client -> BOOLEAN]
      /\ reader' \in [Client -> {"none", "joining", "reading", "closing", "waiting", "done"}]
  BY HubFacts DEF HubInv, ClosedLate
<1> QED
  BY <1>1, <1>2, <1>3, <1>4, LockedStep

LEMMA JoinSteps ==
    ASSUME HubInv, NEW c \in Client, Join(c) \/ \E room \in Room : SubscribeFrame(c, room)
    PROVE  HubInv'
<1>0. ~closed[c] /\ Unlocked
  BY HubFacts DEF HubInv, ClosedLate, Join, SubscribeFrame
<1>1. CASE Join(c)
  <2>1. PICK room \in ask[c] : /\ rooms' = Entered(c, room)
                               /\ joined' = [joined EXCEPT ![c] = @ \union {room}]
                               /\ ask' = [ask EXCEPT ![c] = @ \ {room}]
    BY <1>1 DEF Join
  <2>2. room \in Room /\ ask' \in [Client -> SUBSET Room]
    BY <2>1, HubFacts
  <2> QED
    BY <1>0, <1>1, <2>1, <2>2, EnterStep DEF Join
<1>2. ASSUME NEW room \in Room, SubscribeFrame(c, room) PROVE HubInv'
  BY <1>0, <1>2, HubFacts, EnterStep DEF SubscribeFrame
<1> QED
  BY <1>1, <1>2

LEMMA LeaveSteps ==
    ASSUME HubInv, NEW c \in Client, Close(c) \/ \E room \in Room : UnsubscribeFrame(c, room)
    PROVE  HubInv'
<1>1. ASSUME NEW room \in Room, UnsubscribeFrame(c, room) PROVE HubInv'
  <2>0. /\ Unlocked /\ rooms' = Left(c, {room}) /\ joined' = [joined EXCEPT ![c] = @ \ {room}]
        /\ UNCHANGED <<queue, closed, conn, reader, ask, writer, pub, published, got>>
    BY <1>1 DEF UnsubscribeFrame
  <2>1. PICK left \in SUBSET Room : left = {room}
    OBVIOUS
  <2>2. /\ RoomsType'
        /\ \A x \in Room, d \in Client :
              d \in Members(x)' <=> d \in Members(x) /\ ~(d = c /\ x \in left)
        /\ \A x \in DOMAIN rooms' : rooms'[x] # {}
    <3>1. RoomsType /\ rooms' = Left(c, left) /\ \A x \in DOMAIN rooms : rooms[x] # {}
      BY <2>0, <2>1, HubFacts DEF HubInv, RoomsAgree
    <3> QED
      BY <3>1, LeftRooms
  <2>3. /\ joined' \in [Client -> SUBSET Room]
        /\ \A d \in Client : joined'[d] = IF d = c THEN joined[c] \ {room} ELSE joined[d]
    BY <2>0, HubFacts
  <2>4. RoomsAgree'
    <3>1. ASSUME NEW d \in Client, NEW x \in Room
          PROVE  d \in Members(x)' <=> x \in joined'[d] /\ ~closed'[d]
      BY <2>0, <2>1, <2>2, <2>3 DEF HubInv, RoomsAgree
    <3> QED
      BY <2>2, <3>1 DEF RoomsAgree
  <2>5. /\ ClosedLate' /\ closed' \in [Client -> BOOLEAN] /\ ask' \in [Client -> SUBSET Room]
        /\ reader' \in [Client -> {"none", "joining", "reading", "closing", "waiting", "done"}]
    BY <2>0, HubFacts DEF HubInv, ClosedLate
  <2> QED
    BY <2>0, <2>2, <2>3, <2>4, <2>5, LockedStep
<1>2. CASE Close(c)
  <2>0. /\ Unlocked /\ rooms' = Left(c, joined[c]) /\ closed' = [closed EXCEPT ![c] = TRUE]
        /\ reader' = [reader EXCEPT ![c] = "waiting"]
        /\ UNCHANGED <<joined, queue, conn, ask, writer, pub, published, got>>
    BY <1>2 DEF Close
  <2>1. PICK left \in SUBSET Room : left = joined[c]
    BY HubFacts
  <2>2. /\ RoomsType'
        /\ \A x \in Room, d \in Client :
              d \in Members(x)' <=> d \in Members(x) /\ ~(d = c /\ x \in left)
        /\ \A x \in DOMAIN rooms' : rooms'[x] # {}
    <3>1. RoomsType /\ rooms' = Left(c, left) /\ \A x \in DOMAIN rooms : rooms[x] # {}
      BY <2>0, <2>1, HubFacts DEF HubInv, RoomsAgree
    <3> QED
      BY <3>1, LeftRooms
  <2>3. /\ \A d \in Client : closed'[d] <=> (d = c \/ closed[d])
        /\ closed' \in [Client -> BOOLEAN]
        /\ reader' \in [Client -> {"none", "joining", "reading", "closing", "waiting", "done"}]
    BY <2>0, HubFacts
  <2>4. RoomsAgree'
    <3>1. ASSUME NEW d \in Client, NEW x \in Room
          PROVE  d \in Members(x)' <=> x \in joined'[d] /\ ~closed'[d]
      BY <2>0, <2>1, <2>2, <2>3 DEF HubInv, RoomsAgree
    <3> QED
      BY <2>2, <3>1 DEF RoomsAgree
  <2>5. ClosedLate'
    BY <2>0, <2>3, HubFacts DEF HubInv, ClosedLate
  <2>6. joined' \in [Client -> SUBSET Room] /\ ask' \in [Client -> SUBSET Room]
    BY <2>0, HubFacts
  <2> QED
    BY <2>0, <2>2, <2>3, <2>4, <2>5, <2>6, LockedStep
<1> QED
  BY <1>1, <1>2

\* The write pump takes the oldest event; written or lost, order is kept.
LEMMA WriteSteps ==
    ASSUME HubInv, NEW c \in Client, Write(c) \/ WriteFails(c)
    PROVE  HubInv'
<1>0. /\ UNCHANGED <<rooms, joined, closed, reader, ask, pub, published>>
      /\ queue[c] # <<>> /\ queue[c] \in Seq(Event) /\ got[c] \in Seq(Event)
      /\ queue' = [queue EXCEPT ![c] = Tail(queue[c])]
      /\ conn' \in [Client -> {"none", "open", "dead", "closed"}]
      /\ writer' \in [Client -> {"none", "running", "done"}]
      /\ got' = got \/ got' = [got EXCEPT ![c] = Append(got[c], Head(queue[c]))]
  BY HubFacts DEF Write, WriteFails
<1>1. PICK tail, head, sent : /\ tail = Tail(queue[c]) /\ head = Head(queue[c])
                             /\ sent = got'[c]
  OBVIOUS
<1>2. /\ tail \in Seq(Event) /\ head \in Event /\ Len(tail) <= BufferSize
      /\ Ordered(tail) /\ Ahead(got[c], tail) /\ Ahead(Append(got[c], head), tail)
      /\ Below(got[c], head.by, head.n) /\ AtMost(tail, published) /\ head.n <= published
      /\ \A by, n : Below(queue[c], by, n) => Below(tail, by, n) /\ (head.by = by => head.n < n)
  <2>1. /\ Ordered(got[c]) /\ Ordered(queue[c]) /\ Ahead(got[c], queue[c])
        /\ AtMost(queue[c], published) /\ Len(queue[c]) <= BufferSize
    BY HubFacts DEF HubInv, ClientInOrder
  <2>2. Len(Tail(queue[c])) = Len(queue[c]) - 1 /\ Len(queue[c]) \in Nat
    BY <1>0, TailEvents
  <2>3. Len(tail) <= BufferSize
    BY <1>1, <2>1, <2>2, HubFacts
  <2> QED
    BY <1>0, <1>1, <2>1, <2>3, TailEvents
<1>3. /\ \A d \in Client : queue'[d] = IF d = c THEN tail ELSE queue[d]
      /\ \A d \in Client : got'[d] = IF d = c THEN sent ELSE got[d]
      /\ sent = got[c] \/ sent = Append(got[c], head)
      /\ got' \in [Client -> Seq(Event)] /\ queue' \in [Client -> Seq(Event)]
  <2>1. Append(got[c], head) \in Seq(Event)
    BY <1>0, <1>2, AppendEvent
  <2>2. /\ \A d \in Client : queue'[d] = IF d = c THEN tail ELSE queue[d]
        /\ queue' \in [Client -> Seq(Event)]
    BY <1>0, <1>1, <1>2, HubFacts
  <2>3. CASE got' = got
    BY <1>1, <2>2, <2>3, HubFacts
  <2>4. CASE got' = [got EXCEPT ![c] = Append(got[c], Head(queue[c]))]
    <3>1. /\ \A d \in Client : got'[d] = IF d = c THEN Append(got[c], head) ELSE got[d]
          /\ got' \in [Client -> Seq(Event)]
      BY <1>1, <2>1, <2>4, HubFacts
    <3> QED
      BY <1>1, <2>2, <3>1
  <2> QED
    BY <1>0, <2>3, <2>4
<1>4. /\ Ordered(sent) /\ Ahead(sent, tail) /\ AtMost(sent, published)
      /\ \A by, n : Below(got[c], by, n) /\ Below(queue[c], by, n) => Below(sent, by, n)
  <2>1. Ordered(got[c]) /\ AtMost(got[c], published)
    BY DEF HubInv, ClientInOrder
  <2>2. CASE sent = got[c]
    BY <1>2, <2>1, <2>2
  <2>3. CASE sent = Append(got[c], head)
    <3>1. /\ Ordered(got[c]) /\ Below(got[c], head.by, head.n) => Ordered(sent)
          /\ \A by, n : Below(got[c], by, n) /\ (head.by = by => head.n < n) => Below(sent, by, n)
          /\ \A n : AtMost(got[c], n) /\ head.n <= n => AtMost(sent, n)
      BY <1>0, <1>2, <2>3, AppendEvent
    <3> QED
      BY <1>2, <2>1, <2>3, <3>1
  <2> QED
    BY <1>3, <2>2, <2>3
<1>5. TypeOK'
  BY <1>0, <1>2, <1>3, HubFacts DEF HubInv, TypeOK
<1>6. RoomsAgree' /\ ClosedLate' /\ TargetsStayOpen'
  BY <1>0 DEF HubInv, RoomsAgree, ClosedLate, TargetsStayOpen, Members
<1>7. \A d \in Client : ClientInOrder(d)'
  BY <1>0, <1>2, <1>3, <1>4 DEF HubInv, ClientInOrder
<1>8. ASSUME NEW p \in Publisher PROVE FanOut(p)'
  <2>1. FanOut(p) /\ pub[p].todo \subseteq Client
    BY HubFacts DEF HubInv
  <2>2. ASSUME NEW d \in pub[p].todo
        PROVE  Below(got'[d], p, pub[p].ev.n) /\ Below(queue'[d], p, pub[p].ev.n)
    <3>1. d \in Client /\ Below(got[d], p, pub[p].ev.n) /\ Below(queue[d], p, pub[p].ev.n)
      BY <2>1, <2>2 DEF FanOut
    <3> QED
      BY <1>2, <1>3, <1>4, <3>1
  <2> QED
    BY <1>0, <2>1, <2>2 DEF FanOut
<1> QED
  BY <1>5, <1>6, <1>7, <1>8 DEF HubInv

LEMMA HubStep ==
    ASSUME HubInv, [Next]_vars
    PROVE  HubInv'
<1>1. ASSUME NEW c \in Client, NEW ids \in SUBSET Room, Connect(c, ids) PROVE HubInv'
  <2>1. \A d \in Client : closed[d] => reader'[d] \in {"waiting", "done"}
    BY <1>1, HubFacts DEF Connect, HubInv, ClosedLate
  <2> QED
    BY <1>1, <2>1, HubFacts, QuietStep DEF Connect
<1>2. ASSUME NEW c \in Client, StartPumps(c) PROVE HubInv'
  <2>1. \A d \in Client : closed[d] => reader'[d] \in {"waiting", "done"}
    BY <1>2, HubFacts DEF StartPumps, HubInv, ClosedLate
  <2> QED
    BY <1>2, <2>1, HubFacts, QuietStep DEF StartPumps
<1>3. ASSUME NEW c \in Client, ReadFails(c) PROVE HubInv'
  <2>1. \A d \in Client : closed[d] => reader'[d] \in {"waiting", "done"}
    BY <1>3, HubFacts DEF ReadFails, HubInv, ClosedLate
  <2> QED
    BY <1>3, <2>1, HubFacts, QuietStep DEF ReadFails
<1>4. ASSUME NEW c \in Client, Disconnected(c) PROVE HubInv'
  <2>1. \A d \in Client : closed[d] => reader'[d] \in {"waiting", "done"}
    BY <1>4, HubFacts DEF Disconnected, HubInv, ClosedLate
  <2> QED
    BY <1>4, <2>1, HubFacts, QuietStep DEF Disconnected
<1>5. ASSUME NEW c \in Client, PeerGone(c) \/ PingFails(c) \/ ChannelEnds(c) PROVE HubInv'
  <2>1. /\ UNCHANGED <<rooms, joined, queue, closed, reader, ask, pub, published, got>>
        /\ conn' \in [Client -> {"none", "open", "dead", "closed"}]
        /\ writer' \in [Client -> {"none", "running", "done"}]
    BY <1>5, HubFacts DEF PeerGone, PingFails, ChannelEnds
  <2>2. \A d \in Client : closed[d] => reader'[d] \in {"waiting", "done"}
    BY <2>1 DEF HubInv, ClosedLate
  <2> QED
    BY <2>1, <2>2, HubFacts, QuietStep
<1>6. CASE UNCHANGED vars
  BY <1>6 DEF vars, HubInv, TypeOK, RoomsAgree, TargetsStayOpen, ClosedLate, ClientInOrder,
              FanOut, Members
<1> QED
  BY <1>1, <1>2, <1>3, <1>4, <1>5, <1>6, PublishStep, DeliverStep, PublishDoneStep, JoinSteps,
     LeaveSteps, WriteSteps DEF Next, PublisherStep, HandlerStep, WriterStep

-------------------------------------------------------------------------------

LEMMA HubInvariant == Spec => []HubInv
<1>1. Init => HubInv
  BY HubInit
<1>2. HubInv /\ [Next]_vars => HubInv'
  BY HubStep
<1> QED
  BY <1>1, <1>2, PTL DEF Spec

\* Every variable keeps its type, and no client's queue outgrows clientBufferSize.
THEOREM HubTypeCorrect == Spec => []TypeOK
<1>1. HubInv => TypeOK
  BY DEF HubInv
<1> QED
  BY <1>1, HubInvariant, PTL

\* Hub.rooms and Client.rooms agree through every Subscribe, Unsubscribe and Close; a closed
\* client is in no room, and an empty room is not kept.
THEOREM RoomsCorrect == Spec => []RoomsAgree
<1>1. HubInv => RoomsAgree
  BY DEF HubInv
<1> QED
  BY <1>1, HubInvariant, PTL

\* Publish never sends on a closed channel, nor to a client that has left both rooms.
THEOREM TargetsCorrect == Spec => []TargetsStayOpen
<1>1. HubInv => TargetsStayOpen
  BY DEF HubInv
<1> QED
  BY <1>1, HubInvariant, PTL

\* A client is sent an event at most once, and the events of one publisher in order.
THEOREM OrderCorrect == Spec => []OnceAndInOrder
<1>1. HubInv => OnceAndInOrder
  <2> SUFFICES ASSUME HubInv, NEW c \in Client PROVE Ordered(got[c] \o queue[c])
    BY DEF OnceAndInOrder, Ordered
  <2>1. got[c] \in Seq(Event) /\ queue[c] \in Seq(Event)
    BY HubFacts
  <2> QED
    BY <2>1, ConcatOrdered DEF HubInv, ClientInOrder
<1> QED
  BY <1>1, HubInvariant, PTL

-------------------------------------------------------------------------------
(***************************************************************************)
(* The contract. A handler that has not yet read a frame has a connection  *)
(* that works, and one that is past reading has a connection that has      *)
(* failed; so a failed connection joins no room and only a failed one is   *)
(* closed.                                                                 *)
(***************************************************************************)
Phases ==
    \A c \in Client :
        /\ reader[c] \in {"none", "joining"} => writer[c] = "none" /\ conn[c] # "closed"
        /\ reader[c] \in {"closing", "waiting", "done"} => conn[c] = "closed"

ServedInv == HubInv /\ Phases

LEMMA PhasesKept ==
    ASSUME HubInv, Phases, [Next]_vars
    PROVE  Phases'
<1>1. ASSUME NEW c \in Client,
             \/ \E ids \in SUBSET Room : Connect(c, ids)
             \/ StartPumps(c) \/ ReadFails(c) \/ Close(c) \/ Disconnected(c)
      PROVE  Phases'
  <2>1. /\ \A d \in Client \ {c} : /\ reader'[d] = reader[d] /\ writer'[d] = writer[d]
                                   /\ conn'[d] = conn[d]
        /\ reader'[c] \in {"none", "joining"} => writer'[c] = "none" /\ conn'[c] # "closed"
        /\ reader'[c] \in {"closing", "waiting", "done"} => conn'[c] = "closed"
    BY <1>1, HubFacts DEF Connect, StartPumps, ReadFails, Close, Disconnected, Phases
  <2> QED
    BY <2>1 DEF Phases
<1>2. ASSUME NEW c \in Client, PeerGone(c) \/ WriteFails(c) \/ PingFails(c) \/ ChannelEnds(c)
      PROVE  Phases'
  <2>1. /\ reader' = reader
        /\ \A d \in Client \ {c} : writer'[d] = writer[d] /\ conn'[d] = conn[d]
        /\ \/ writer'[c] = writer[c] /\ conn[c] # "closed" /\ conn'[c] # "closed"
           \/ /\ writer[c] = "running" /\ writer'[c] = "done"
              /\ conn'[c] = conn[c] \/ conn'[c] = "closed"
    BY <1>2, HubFacts DEF PeerGone, WriteFails, PingFails, ChannelEnds
  <2> QED
    BY <2>1 DEF Phases
<1>3. ASSUME UNCHANGED <<reader, writer, conn>> PROVE Phases'
  BY <1>3 DEF Phases
<1>4. \/ \E c \in Client :
           \/ \E ids \in SUBSET Room : Connect(c, ids)
           \/ StartPumps(c) \/ ReadFails(c) \/ Close(c) \/ Disconnected(c)
      \/ \E c \in Client : PeerGone(c) \/ WriteFails(c) \/ PingFails(c) \/ ChannelEnds(c)
      \/ UNCHANGED <<reader, writer, conn>>
  BY DEF Next, Publish, PublisherStep, Deliver, PublishDone, Join, SubscribeFrame,
         UnsubscribeFrame, HandlerStep, WriterStep, Write, vars
<1> QED
  BY <1>1, <1>2, <1>3, <1>4

LEMMA ServedInvariant == Spec => []ServedInv
<1>1. Init => Phases
  BY DEF Init, Phases
<1>2. ServedInv /\ [Next]_vars => ServedInv'
  BY HubStep, PhasesKept DEF ServedInv
<1> QED
  BY <1>1, <1>2, HubInit, PTL DEF Spec, ServedInv

-------------------------------------------------------------------------------
(***************************************************************************)
(* What is due, client by client.                                          *)
(***************************************************************************)
LEMMA ExceptAt ==
    ASSUME NEW S, NEW f, NEW g, f = [x \in S |-> f[x]], g = [x \in S |-> g[x]],
           NEW c \in S, NEW v, \A x \in S : g[x] = IF x = c THEN v ELSE f[x]
    PROVE  g = [f EXCEPT ![c] = v]
OBVIOUS

LEMMA DueOf ==
    /\ Due = [c \in Client |-> Due[c]] /\ Due' = [c \in Client |-> Due'[c]]
    /\ \A c \in Client : /\ Due[c] = IF c \in Failed THEN {} ELSE Queued(c) \union Underway(c)
                         /\ Due'[c] = IF c \in Failed' THEN {} ELSE Queued(c)' \union Underway(c)'
BY DEF Due

LEMMA MemberOfAt ==
    /\ MemberOf = [c \in Client |-> MemberOf[c]] /\ MemberOf' = [c \in Client |-> MemberOf'[c]]
    /\ \A c \in Client, room \in Room : /\ room \in MemberOf[c] <=> c \in Members(room)
                                        /\ room \in MemberOf'[c] <=> c \in Members(room)'
    /\ \A c \in Client : MemberOf[c] \subseteq Room /\ MemberOf'[c] \subseteq Room
BY DEF MemberOf

LEMMA MembersStay ==
    ASSUME UNCHANGED rooms
    PROVE  UNCHANGED MemberOf
BY DEF MemberOf, Members

LEMMA DueStays ==
    ASSUME UNCHANGED Failed,
           \A c \in Client \ Failed : UNCHANGED <<Queued(c), Underway(c)>>
    PROVE  UNCHANGED Due
BY DueOf

\* A connection's failure takes all that was due to it, and nothing from the others.
LEMMA FailStep ==
    ASSUME HubInv, NEW c \in Client, UNCHANGED <<rooms, pub, published, got>>,
           conn' = [conn EXCEPT ![c] = "closed"],
           \A d \in Client \ {c} : queue'[d] = queue[d]
    PROVE  Contract!Fail(c)
<1>1. Failed' = Failed \union {c}
  BY HubFacts DEF Failed
<1>2. \A d \in Client \ {c} : Queued(d)' = Queued(d) /\ Underway(d)' = Underway(d)
  BY DEF Queued, Underway
<1>3. \A d \in Client : Due'[d] = IF d = c THEN {} ELSE Due[d]
  BY <1>1, <1>2, DueOf
<1>4. Due' = [Due EXCEPT ![c] = {}]
  BY <1>3, DueOf, ExceptAt
<1> QED
  BY <1>1, <1>4, MembersStay DEF Contract!Fail

\* Publish: the event is due at once to the members of both rooms whose connections work.
LEMMA PublishServes ==
    ASSUME HubInv, NEW p \in Publisher, NEW sev \in Sev, Publish(p, sev)
    PROVE  Contract!Publish(p, sev)
<1>1. PICK ev, todo : /\ ev = [sev |-> sev, by |-> p, n |-> published + 1]
                     /\ todo = Members(sev) \union Members(Broadcast)
  OBVIOUS
<1>2. PICK call : call = [ev |-> ev, todo |-> todo]
  OBVIOUS
<1>3. /\ published' = published + 1 /\ pub[p].todo = {}
      /\ UNCHANGED <<rooms, queue, conn, got>>
      /\ \A q \in Publisher : pub'[q] = IF q = p THEN call ELSE pub[q]
  BY <1>1, <1>2, HubFacts DEF Publish, Publishing
<1>4. call.ev = ev /\ call.todo = todo
  BY <1>2
<1>5. UNCHANGED <<MemberOf, Failed>>
  BY <1>3, MembersStay DEF Failed
<1>6. ASSUME NEW c \in Client
      PROVE  /\ Queued(c)' = Queued(c)
             /\ Underway(c)' = Underway(c) \union (IF c \in todo THEN {ev} ELSE {})
  <2>1. Queued(c)' = Queued(c)
    BY <1>3 DEF Queued
  <2>2. \A e : e \in Underway(c) <=> \E q \in Publisher : c \in pub[q].todo /\ e = pub[q].ev
    BY DEF Underway
  <2>3. \A e : e \in Underway(c)' <=> \E q \in Publisher : c \in pub'[q].todo /\ e = pub'[q].ev
    BY DEF Underway
  <2>4. \A e : e \in Underway(c)' <=> e \in Underway(c) \/ (c \in todo /\ e = ev)
    BY <1>3, <1>4, <2>2, <2>3
  <2> QED
    BY <2>1, <2>4
<1>7. \A c \in Client : c \in Contract!Audience(sev) <=> c \notin Failed /\ c \in todo
  BY <1>1, MemberOfAt DEF Contract!Audience, Room
<1>8. ASSUME NEW c \in Client
      PROVE  Due'[c] = Due[c] \union (IF c \in Contract!Audience(sev) THEN {ev} ELSE {})
  BY <1>5, <1>6, <1>7, DueOf
<1>9. Due' = [c \in Client |->
                Due[c] \union (IF c \in Contract!Audience(sev) THEN {ev} ELSE {})]
  BY <1>8, DueOf
<1> QED
  BY <1>1, <1>3, <1>5, <1>9 DEF Contract!Publish

\* The events of distinct publishers differ, and one on its way is not yet in the queue.
LEMMA EventsApart ==
    ASSUME HubInv, NEW c \in Client
    PROVE  /\ \A p \in Publisher : c \in pub[p].todo =>
                 /\ pub[p].ev \in Event /\ pub[p].ev.by = p /\ pub[p].ev \notin Queued(c)
                 /\ \A e \in Queued(c) : e.by = p => e.n < pub[p].ev.n
           /\ \A p, q \in Publisher : c \in pub[p].todo /\ c \in pub[q].todo /\ p # q
                 => pub[p].ev # pub[q].ev
           /\ \A e \in Queued(c) : e \in Event
           /\ \A i, j \in DOMAIN queue[c] : i # j => queue[c][i] # queue[c][j]
           /\ \A i, j \in DOMAIN queue[c] :
                 i < j /\ queue[c][i].by = queue[c][j].by => queue[c][i].n < queue[c][j].n
<1>1. queue[c] \in Seq(Event) /\ \A i \in DOMAIN queue[c] : queue[c][i] \in Event /\ i \in Nat
  BY HubFacts
<1>2. \A e \in Queued(c) : e \in Event
  BY <1>1 DEF Queued
<1>3. ASSUME NEW p \in Publisher, c \in pub[p].todo
      PROVE  /\ pub[p].ev \in Event /\ pub[p].ev.by = p /\ pub[p].ev \notin Queued(c)
             /\ \A e \in Queued(c) : e.by = p => e.n < pub[p].ev.n
  <2>1. pub[p].ev \in Event /\ pub[p].ev.by = p /\ Below(queue[c], p, pub[p].ev.n)
    BY <1>3, HubFacts DEF HubInv, FanOut, Publishing
  <2>2. \A e \in Queued(c) : e.by = p => e.n < pub[p].ev.n
    BY <2>1 DEF Queued, Below
  <2>3. pub[p].ev.n \in Nat
    BY <2>1, EventOrder
  <2> QED
    BY <2>1, <2>2, <2>3
<1>4. Ordered(queue[c])
  BY DEF HubInv, ClientInOrder
<1>5. \A i, j \in DOMAIN queue[c] :
         i < j /\ queue[c][i].by = queue[c][j].by => queue[c][i].n < queue[c][j].n
  BY <1>4 DEF Ordered
<1>6. ASSUME NEW i \in DOMAIN queue[c], NEW j \in DOMAIN queue[c], queue[c][i] = queue[c][j], i < j
      PROVE  FALSE
  BY <1>1, <1>5, <1>6, EventOrder
<1>7. \A i, j \in DOMAIN queue[c] : i # j => queue[c][i] # queue[c][j]
  BY <1>1, <1>6
<1> QED
  BY <1>2, <1>3, <1>5, <1>7

\* A full queue holds as many events as the buffer has places, all of them different.
LEMMA FullBuffer ==
    ASSUME HubInv, NEW c \in Client, ~(Len(queue[c]) < BufferSize)
    PROVE  \E f \in [1 .. BufferSize -> Queued(c)] :
              \A i, j \in 1 .. BufferSize : i # j => f[i] # f[j]
<1>1. /\ queue[c] \in Seq(Event) /\ Len(queue[c]) = BufferSize /\ BufferSize \in Nat
      /\ DOMAIN queue[c] = 1 .. BufferSize
  BY HubFacts
<1>2. PICK f : f = [i \in 1 .. BufferSize |-> queue[c][i]]
  OBVIOUS
<1>3. f \in [1 .. BufferSize -> Queued(c)]
  BY <1>1, <1>2 DEF Queued
<1>4. \A i, j \in 1 .. BufferSize : i # j => f[i] # f[j]
  BY <1>1, <1>2, EventsApart
<1> QED
  BY <1>3, <1>4

\* Deliver: the event was due already and still is, or is missed by a full buffer.
LEMMA DeliverServes ==
    ASSUME HubInv, NEW p \in Publisher, NEW c \in Client, Deliver(p, c)
    PROVE  UNCHANGED Contract!vars \/ \E e \in Due[c] : Contract!Miss(c, e)
<1>1. /\ UNCHANGED <<rooms, conn, published, got>> /\ c \in pub[p].todo
      /\ queue[c] \in Seq(Event)
  BY HubFacts DEF Deliver
<1>2. PICK ev : ev = pub[p].ev
  OBVIOUS
<1>3. ev \in Event /\ ev \notin Queued(c)
  BY <1>1, <1>2, EventsApart
<1>4. /\ \A d \in Client : queue'[d] = IF d = c THEN Enqueued(queue[c], ev) ELSE queue[d]
      /\ \A q \in Publisher : /\ pub'[q].ev = pub[q].ev
                              /\ pub'[q].todo = IF q = p THEN pub[p].todo \ {c} ELSE pub[q].todo
  <2>1. pub[p] \in [ev : Event, todo : SUBSET Client]
    BY <1>1, HubFacts DEF Publishing
  <2>2. PICK call : call = [pub[p] EXCEPT !.todo = @ \ {c}]
    OBVIOUS
  <2>3. call.ev = pub[p].ev /\ call.todo = pub[p].todo \ {c}
    BY <2>1, <2>2
  <2>4. \A q \in Publisher : pub'[q] = IF q = p THEN call ELSE pub[q]
    BY <2>2, HubFacts DEF Deliver
  <2>5. \A d \in Client : queue'[d] = IF d = c THEN Enqueued(queue[c], ev) ELSE queue[d]
    BY <1>2, HubFacts DEF Deliver
  <2> QED
    BY <2>3, <2>4, <2>5
<1>5. UNCHANGED <<MemberOf, Failed>>
  BY <1>1, MembersStay DEF Failed
<1>6. ASSUME NEW d \in Client, d # c PROVE Queued(d)' = Queued(d) /\ Underway(d)' = Underway(d)
  BY <1>4, <1>6 DEF Queued, Underway
<1>7. Underway(c)' = Underway(c) \ {ev} /\ ev \in Underway(c)
  <2>1. \A e : e \in Underway(c) <=> \E q \in Publisher : c \in pub[q].todo /\ e = pub[q].ev
    BY DEF Underway
  <2>2. \A e : e \in Underway(c)' <=> \E q \in Publisher : c \in pub'[q].todo /\ e = pub'[q].ev
    BY DEF Underway
  <2>3. \A q \in Publisher : c \in pub[q].todo /\ q # p => pub[q].ev # ev
    BY <1>1, <1>2, EventsApart
  <2>4. \A e : e \in Underway(c)' <=> e \in Underway(c) /\ e # ev
    BY <1>1, <1>2, <1>4, <2>1, <2>2, <2>3
  <2>5. ev \in Underway(c)
    BY <1>1, <1>2, <2>1
  <2> QED
    BY <2>4, <2>5
<1>8. CASE c \in Failed
  BY <1>1, <1>5, <1>6, <1>8, DueStays DEF Contract!vars
<1>9. CASE c \notin Failed /\ Len(queue[c]) < BufferSize
  <2>1. queue'[c] = Append(queue[c], ev)
    BY <1>4, <1>9 DEF Enqueued
  <2>2. Queued(c)' = Queued(c) \union {ev}
    <3>1. PICK w : w = Append(queue[c], ev)
      OBVIOUS
    <3>2. /\ \A i \in DOMAIN w : (i \in DOMAIN queue[c] /\ w[i] = queue[c][i]) \/ w[i] = ev
          /\ \A i \in DOMAIN queue[c] : i \in DOMAIN w /\ w[i] = queue[c][i]
          /\ Len(queue[c]) + 1 \in DOMAIN w /\ w[Len(queue[c]) + 1] = ev
      BY <1>1, <1>3, <3>1
    <3>3. {w[i] : i \in DOMAIN w} = Queued(c) \union {ev}
      BY <3>2 DEF Queued
    <3> QED
      BY <2>1, <3>1, <3>3 DEF Queued
  <2>3. Due'[c] = Due[c]
    <3>1. Due'[c] = Queued(c)' \union Underway(c)' /\ Due[c] = Queued(c) \union Underway(c)
      BY <1>5, <1>9, DueOf
    <3> QED
      BY <1>7, <2>2, <3>1
  <2>4. \A d \in Client : Due'[d] = Due[d]
    BY <1>5, <1>6, <2>3, DueOf
  <2> QED
    BY <1>1, <1>5, <2>4, DueOf DEF Contract!vars
<1>10. CASE c \notin Failed /\ ~(Len(queue[c]) < BufferSize)
  <2>1. Queued(c)' = Queued(c)
    BY <1>4, <1>10 DEF Enqueued, Queued
  <2>2. Due[c] = Queued(c) \union Underway(c) /\ Due'[c] = Due[c] \ {ev}
    BY <1>3, <1>5, <1>7, <1>10, <2>1, DueOf
  <2>3. \A d \in Client : Due'[d] = IF d = c THEN Due[c] \ {ev} ELSE Due[d]
    BY <1>5, <1>6, <2>2, DueOf
  <2>4. Due' = [Due EXCEPT ![c] = Due[c] \ {ev}]
    BY <2>3, DueOf, ExceptAt
  <2>5. ev \in Due[c] /\ Queued(c) \subseteq Due[c] \ {ev}
    BY <1>3, <1>7, <2>2
  <2>6. PICK f \in [1 .. BufferSize -> Queued(c)] :
            \A i, j \in 1 .. BufferSize : i # j => f[i] # f[j]
    BY <1>10, FullBuffer
  <2>7. f \in [1 .. BufferSize -> Due[c] \ {ev}]
    BY <2>5, <2>6
  <2>8. Contract!Miss(c, ev)
    BY <1>1, <1>5, <2>4, <2>5, <2>6, <2>7 DEF Contract!Miss
  <2> QED
    BY <2>5, <2>8
<1> QED
  BY <1>8, <1>9, <1>10

\* Write: the oldest event of the queue is got, and no event that is due is older.
LEMMA WriteServes ==
    ASSUME HubInv, NEW c \in Client, Write(c)
    PROVE  \E e \in Due[c] : Contract!Get(c, e)
<1>1. /\ UNCHANGED <<rooms, conn, published, pub>> /\ conn[c] # "closed"
      /\ queue[c] \in Seq(Event) /\ queue[c] # <<>>
  BY HubFacts DEF Write
<1>2. PICK head, tail : head = Head(queue[c]) /\ tail = Tail(queue[c])
  OBVIOUS
<1>3. /\ \A d \in Client : queue'[d] = IF d = c THEN tail ELSE queue[d]
      /\ got' = [got EXCEPT ![c] = Append(@, head)]
  BY <1>2, HubFacts DEF Write
<1>4. UNCHANGED <<MemberOf, Failed>> /\ c \notin Failed
  BY <1>1, MembersStay DEF Failed
<1>5. /\ 1 \in DOMAIN queue[c] /\ head = queue[c][1] /\ head \in Event
      /\ \A i \in DOMAIN queue[c] : i = 1 \/ (1 < i /\ i - 1 \in DOMAIN tail /\ tail[i - 1] = queue[c][i])
      /\ \A i \in DOMAIN tail : i + 1 \in DOMAIN queue[c] /\ tail[i] = queue[c][i + 1] /\ 1 < i + 1
  BY <1>1, <1>2
<1>6. head \in Queued(c) /\ head.n \in Nat
  BY <1>5, EventOrder DEF Queued
<1>7. Queued(c)' = {tail[i] : i \in DOMAIN tail}
  BY <1>3 DEF Queued
<1>8. /\ Queued(c)' = Queued(c) \ {head}
      /\ \A d \in Queued(c) : d.by = head.by => head.n <= d.n
  <2>1. ASSUME NEW d \in Queued(c)' PROVE d \in Queued(c) /\ d # head
    <3>1. PICK i \in DOMAIN tail : d = tail[i]
      BY <1>7, <2>1
    <3>2. d = queue[c][i + 1] /\ i + 1 \in DOMAIN queue[c] /\ 1 < i + 1
      BY <1>5, <3>1
    <3>3. d # head
      BY <1>5, <3>2, EventsApart
    <3> QED
      BY <3>2, <3>3 DEF Queued
  <2>2. ASSUME NEW d \in Queued(c), d # head
        PROVE  d \in Queued(c)' /\ (d.by = head.by => head.n < d.n)
    <3>1. PICK i \in DOMAIN queue[c] : d = queue[c][i]
      BY <2>2 DEF Queued
    <3>2. 1 < i /\ i - 1 \in DOMAIN tail /\ tail[i - 1] = d
      BY <1>5, <2>2, <3>1
    <3>3. d.by = head.by => head.n < d.n
      BY <1>5, <3>1, <3>2, EventsApart
    <3> QED
      BY <1>7, <3>2, <3>3
  <2>3. ASSUME NEW d \in Queued(c), d.by = head.by PROVE head.n <= d.n
    <3>1. CASE d = head
      BY <1>6, <3>1
    <3>2. CASE d # head
      <4>1. head.n < d.n /\ d.n \in Nat
        BY <2>2, <2>3, <3>2, EventsApart, EventOrder
      <4> QED
        BY <1>6, <4>1
    <3> QED
      BY <3>1, <3>2
  <2>4. head \notin Queued(c)'
    BY <2>1
  <2> QED
    BY <2>1, <2>2, <2>3, <2>4
<1>9. /\ Underway(c)' = Underway(c)
      /\ \A d \in Underway(c) : d # head /\ (d.by = head.by => head.n <= d.n)
  <2>1. Underway(c)' = Underway(c)
    BY <1>1 DEF Underway
  <2>2. ASSUME NEW d \in Underway(c) PROVE d # head /\ (d.by = head.by => head.n <= d.n)
    <3>1. PICK q \in Publisher : c \in pub[q].todo /\ d = pub[q].ev
      BY <2>2 DEF Underway
    <3>2. /\ d.by = q /\ d \in Event /\ d \notin Queued(c)
          /\ \A e \in Queued(c) : e.by = q => e.n < d.n
      BY <3>1, EventsApart
    <3>3. d # head /\ d.n \in Nat
      BY <1>6, <3>2, EventOrder
    <3>4. d.by = head.by => head.n < d.n
      BY <1>6, <3>2
    <3> QED
      BY <1>6, <3>3, <3>4
  <2> QED
    BY <2>1, <2>2
<1>10. /\ Due'[c] = Due[c] \ {head} /\ head \in Due[c]
       /\ \A d \in Due[c] : d.by = head.by => head.n <= d.n
  BY <1>4, <1>6, <1>8, <1>9, DueOf
<1>11. \A d \in Client \ {c} : Queued(d)' = Queued(d) /\ Underway(d)' = Underway(d)
  BY <1>1, <1>3 DEF Queued, Underway
<1>12. \A d \in Client : Due'[d] = IF d = c THEN Due[c] \ {head} ELSE Due[d]
  BY <1>4, <1>10, <1>11, DueOf
<1>13. Due' = [Due EXCEPT ![c] = Due[c] \ {head}]
  BY <1>12, DueOf, ExceptAt
<1>14. Contract!Get(c, head)
  BY <1>1, <1>3, <1>4, <1>10, <1>13 DEF Contract!Get
<1> QED
  BY <1>10, <1>14

\* Subscribe, under the exclusive lock: from then on the room is the client's.
LEMMA EnterServes ==
    ASSUME ServedInv, NEW c \in Client, NEW room \in Room, rooms' = Entered(c, room),
           UNCHANGED <<queue, conn, pub, published, got>>, conn[c] # "closed"
    PROVE  Contract!Subscribe(c, room)
<1>1. UNCHANGED <<Failed, Due>> /\ c \notin Failed
  <2>1. UNCHANGED Failed /\ c \notin Failed
    BY DEF Failed
  <2>2. \A d \in Client : UNCHANGED <<Queued(d), Underway(d)>>
    BY DEF Queued, Underway
  <2> QED
    BY <2>1, <2>2, DueStays
<1>2. \A d \in Client : MemberOf'[d] = IF d = c THEN MemberOf[c] \union {room} ELSE MemberOf[d]
  <2>1. \A x \in Room, d \in Client : d \in Members(x)' <=> d \in Members(x) \/ (d = c /\ x = room)
    BY HubFacts, EnteredRooms DEF ServedInv
  <2> QED
    BY <2>1, MemberOfAt
<1>3. MemberOf' = [MemberOf EXCEPT ![c] = MemberOf[c] \union {room}]
  BY <1>2, MemberOfAt, ExceptAt
<1> QED
  BY <1>1, <1>3 DEF Contract!Subscribe

\* Unsubscribe and Close, under the exclusive lock: the client is in none of the rooms left.
LEMMA LeaveServes ==
    ASSUME ServedInv, NEW c \in Client, NEW left \in SUBSET Room, rooms' = Left(c, left),
           UNCHANGED <<queue, conn, pub, published, got>>
    PROVE  /\ MemberOf' = [MemberOf EXCEPT ![c] = MemberOf[c] \ left]
           /\ UNCHANGED <<Failed, Due>>
<1>1. UNCHANGED <<Failed, Due>>
  <2>1. UNCHANGED Failed
    BY DEF Failed
  <2>2. \A d \in Client : UNCHANGED <<Queued(d), Underway(d)>>
    BY DEF Queued, Underway
  <2> QED
    BY <2>1, <2>2, DueStays
<1>2. \A d \in Client : MemberOf'[d] = IF d = c THEN MemberOf[c] \ left ELSE MemberOf[d]
  <2>1. \A x \in Room, d \in Client : d \in Members(x)' <=> d \in Members(x) /\ ~(d = c /\ x \in left)
    BY HubFacts, LeftRooms DEF ServedInv
  <2> QED
    BY <2>1, MemberOfAt
<1> QED
  BY <1>1, <1>2, MemberOfAt, ExceptAt

\* The steps under the exclusive lock, as steps of the contract.
LEMMA LockedServes ==
    ASSUME ServedInv, NEW c \in Client,
           Join(c) \/ Close(c)
             \/ \E room \in Room : SubscribeFrame(c, room) \/ UnsubscribeFrame(c, room)
    PROVE  \/ \E room \in Room : Contract!Subscribe(c, room) \/ Contract!Unsubscribe(c, room)
           \/ Contract!Leave(c)
<1>1. CASE Join(c)
  <2>1. PICK room \in ask[c] : rooms' = Entered(c, room)
    BY <1>1 DEF Join
  <2>2. room \in Room /\ conn[c] # "closed"
    BY <1>1, HubFacts DEF Join, ServedInv, Phases
  <2> QED
    BY <1>1, <2>1, <2>2, EnterServes DEF Join
<1>2. ASSUME NEW room \in Room, SubscribeFrame(c, room)
      PROVE  Contract!Subscribe(c, room)
  BY <1>2, EnterServes DEF SubscribeFrame
<1>3. ASSUME NEW room \in Room, UnsubscribeFrame(c, room)
      PROVE  Contract!Unsubscribe(c, room)
  <2>1. /\ MemberOf' = [MemberOf EXCEPT ![c] = MemberOf[c] \ {room}]
        /\ UNCHANGED <<Failed, Due>>
    BY <1>3, LeaveServes DEF UnsubscribeFrame
  <2> QED
    BY <1>3, <2>1 DEF Contract!Unsubscribe, UnsubscribeFrame, Failed
<1>4. CASE Close(c)
  <2>1. joined[c] \in SUBSET Room /\ conn[c] = "closed"
    BY <1>4, HubFacts DEF Close, ServedInv, Phases
  <2>2. /\ MemberOf' = [MemberOf EXCEPT ![c] = MemberOf[c] \ joined[c]]
        /\ UNCHANGED <<Failed, Due>>
    BY <1>4, <2>1, LeaveServes DEF Close
  <2>3. MemberOf[c] \ joined[c] = {}
    BY MemberOfAt DEF ServedInv, HubInv, RoomsAgree
  <2>4. c \in Failed
    BY <2>1 DEF Failed
  <2> QED
    BY <1>4, <2>2, <2>3, <2>4 DEF Contract!Leave, Close
<1> QED
  BY <1>1, <1>2, <1>3, <1>4

\* The steps of which a client sees nothing.
LEMMA HiddenServes ==
    ASSUME HubInv, UNCHANGED <<rooms, queue, published, got>>, UNCHANGED Failed,
           \A p \in Publisher : pub'[p] = pub[p] \/ (pub[p].todo = {} /\ pub'[p].todo = {})
    PROVE  UNCHANGED Contract!vars
<1>1. \A d \in Client : UNCHANGED Queued(d)
  BY DEF Queued
<1>2. ASSUME NEW d \in Client PROVE UNCHANGED Underway(d)
  <2>1. \A e : e \in Underway(d) <=> \E q \in Publisher : d \in pub[q].todo /\ e = pub[q].ev
    BY DEF Underway
  <2>2. \A e : e \in Underway(d)' <=> \E q \in Publisher : d \in pub'[q].todo /\ e = pub'[q].ev
    BY DEF Underway
  <2>3. \A q \in Publisher : /\ d \in pub[q].todo <=> d \in pub'[q].todo
                             /\ d \in pub[q].todo => pub'[q] = pub[q]
    OBVIOUS
  <2> QED
    BY <2>1, <2>2, <2>3
<1> QED
  BY <1>1, <1>2, DueStays, MembersStay DEF Contract!vars

LEMMA ServesInit == Init => Contract!Init
<1> SUFFICES ASSUME Init PROVE Contract!Init
  OBVIOUS
<1>1. MemberOf = [c \in Client |-> {}]
  <2>1. DOMAIN rooms = {}
    BY DEF Init
  <2> QED
    BY <2>1 DEF MemberOf, Members
<1>2. Failed = {}
  BY DEF Init, Failed
<1>3. Due = [c \in Client |-> {}]
  <2>1. \A c \in Client : queue[c] = <<>> /\ \A p \in Publisher : pub[p].todo = {}
    BY DEF Init, NoClients
  <2>2. \A c \in Client : Queued(c) = {} /\ Underway(c) = {}
    <3> SUFFICES ASSUME NEW c \in Client PROVE Queued(c) = {} /\ Underway(c) = {}
      OBVIOUS
    <3>1. DOMAIN queue[c] = {}
      BY <2>1
    <3>2. \A e : e \in Underway(c) <=> \E q \in Publisher : c \in pub[q].todo /\ e = pub[q].ev
      BY DEF Underway
    <3>3. Queued(c) = {}
      BY <3>1 DEF Queued
    <3> QED
      BY <2>1, <3>2, <3>3
  <2> QED
    BY <2>2 DEF Due
<1> QED
  BY <1>1, <1>2, <1>3 DEF Init, Contract!Init

LEMMA ServesNext == ServedInv /\ [Next]_vars => [Contract!Next]_(Contract!vars)
<1> SUFFICES ASSUME ServedInv, [Next]_vars PROVE Contract!Next \/ UNCHANGED Contract!vars
  OBVIOUS
<1>0. HubInv
  BY DEF ServedInv
<1>1. ASSUME NEW p \in Publisher, NEW sev \in Sev, Publish(p, sev)
      PROVE  Contract!Next
  BY <1>0, <1>1, PublishServes DEF Contract!Next
<1>2. ASSUME NEW p \in Publisher, NEW c \in Client, Deliver(p, c)
      PROVE  Contract!Next \/ UNCHANGED Contract!vars
  BY <1>0, <1>2, DeliverServes DEF Contract!Next
<1>3. ASSUME NEW c \in Client,
             Join(c) \/ Close(c)
               \/ \E room \in Room : SubscribeFrame(c, room) \/ UnsubscribeFrame(c, room)
      PROVE  Contract!Next
  BY <1>3, LockedServes DEF Contract!Next, Room
<1>4. ASSUME NEW c \in Client, Write(c) PROVE Contract!Next
  BY <1>0, <1>4, WriteServes DEF Contract!Next
<1>5. ASSUME NEW c \in Client, ReadFails(c) \/ WriteFails(c) \/ PingFails(c)
      PROVE  Contract!Next
  <2>1. /\ UNCHANGED <<rooms, pub, published, got>> /\ conn' = [conn EXCEPT ![c] = "closed"]
        /\ \A d \in Client \ {c} : queue'[d] = queue[d]
    BY <1>0, <1>5, HubFacts DEF ReadFails, WriteFails, PingFails
  <2> QED
    BY <1>0, <2>1, FailStep DEF Contract!Next
<1>6. ASSUME NEW p \in Publisher, PublishDone(p) PROVE UNCHANGED Contract!vars
  <2>1. /\ UNCHANGED <<rooms, queue, published, got, conn>>
        /\ \A q \in Publisher : pub'[q] = pub[q] \/ (pub[q].todo = {} /\ pub'[q].todo = {})
    BY <1>0, <1>6, HubFacts DEF PublishDone
  <2> QED
    BY <1>0, <2>1, HiddenServes DEF Failed
<1>7. ASSUME NEW c \in Client,
             \/ \E ids \in SUBSET Room : Connect(c, ids)
             \/ StartPumps(c) \/ PeerGone(c) \/ Disconnected(c) \/ ChannelEnds(c)
      PROVE  UNCHANGED Contract!vars
  <2>1. /\ UNCHANGED <<rooms, queue, published, got, pub>>
        /\ conn' = conn \/ (conn[c] # "closed" /\ \E to \in {"open", "dead"} :
                               conn' = [conn EXCEPT ![c] = to])
    BY <1>7 DEF Connect, StartPumps, PeerGone, Disconnected, ChannelEnds, ServedInv, Phases
  <2>2. UNCHANGED Failed
    BY <1>0, <2>1, HubFacts DEF Failed
  <2> QED
    BY <1>0, <2>1, <2>2, HiddenServes
<1>8. CASE UNCHANGED vars
  BY <1>0, <1>8, HiddenServes DEF vars, Failed
<1> QED
  BY <1>1, <1>2, <1>3, <1>4, <1>5, <1>6, <1>7, <1>8
     DEF Next, PublisherStep, HandlerStep, WriterStep

\* For any number of connections, publishers, SEVs and events and any size of the buffer the
\* hub implements HubContract: a fan-out that takes many steps, among those of other
\* publishers and of connections that come and go, serves those who were subscribed at one
\* moment, each of them once and in the publisher's order; only a full buffer or the
\* connection's own failure loses an event.
THEOREM HubContractKept == Spec => HubKeepsContract
BY ServesInit, ServesNext, ServedInvariant, PTL DEF Spec, HubKeepsContract, Contract!Spec

===============================================================================

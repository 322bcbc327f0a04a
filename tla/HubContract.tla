------------------------------ MODULE HubContract -------------------------------
(***************************************************************************)
(* What the hub promises its connections (the comments of Publish, enqueue *)
(* and Close in internal/api/ws/hub.go, docs/architecture.md 3.2), as      *)
(* atomic steps. An event is due to those who are subscribed, at one       *)
(* moment, to its SEV or to all SEVs. A connection gets what is due to it  *)
(* once, the events of one publisher in order, and misses one only by a    *)
(* full buffer of others or by its own failure.                            *)
(***************************************************************************)
EXTENDS Naturals, Sequences

CONSTANTS Client, Sev, Broadcast, Publisher, BufferSize

VARIABLES
    member,     \* member[c]: the rooms c is in
    failed,     \* connections that have failed
    count,      \* how many events have been published
    due,        \* due[c]: the events c is still to get
    seen        \* seen[c]: the events c got

vars == <<member, failed, count, due, seen>>

Init ==
    /\ member = [c \in Client |-> {}]
    /\ failed = {}
    /\ count = 0
    /\ due = [c \in Client |-> {}]
    /\ seen = [c \in Client |-> <<>>]

Subscribe(c, room) ==
    /\ c \notin failed
    /\ member' = [member EXCEPT ![c] = @ \union {room}]
    /\ UNCHANGED <<failed, count, due, seen>>

Unsubscribe(c, room) ==
    /\ c \notin failed
    /\ member' = [member EXCEPT ![c] = @ \ {room}]
    /\ UNCHANGED <<failed, count, due, seen>>

\* The connection fails: nothing is due to it any more.
Fail(c) ==
    /\ failed' = failed \union {c}
    /\ due' = [due EXCEPT ![c] = {}]
    /\ UNCHANGED <<member, count, seen>>

\* A connection that has failed leaves all its rooms, and joins no other.
Leave(c) ==
    /\ c \in failed
    /\ member' = [member EXCEPT ![c] = {}]
    /\ UNCHANGED <<failed, count, due, seen>>

Audience(sev) == {c \in Client \ failed : sev \in member[c] \/ Broadcast \in member[c]}

Publish(p, sev) ==
    /\ count' = count + 1
    /\ due' = [c \in Client |->
                 due[c] \union (IF c \in Audience(sev)
                                THEN {[sev |-> sev, by |-> p, n |-> count + 1]} ELSE {})]
    /\ UNCHANGED <<member, failed, seen>>

\* The oldest event of a publisher comes first.
Get(c, e) ==
    /\ e \in due[c]
    /\ \A d \in due[c] : d.by = e.by => e.n <= d.n
    /\ due' = [due EXCEPT ![c] = @ \ {e}]
    /\ seen' = [seen EXCEPT ![c] = Append(@, e)]
    /\ UNCHANGED <<member, failed, count>>

\* As many other events are due to c as its buffer has places.
Miss(c, e) ==
    /\ e \in due[c]
    /\ \E others \in [1 .. BufferSize -> due[c] \ {e}] :
          \A i, j \in 1 .. BufferSize : i # j => others[i] # others[j]
    /\ due' = [due EXCEPT ![c] = @ \ {e}]
    /\ UNCHANGED <<member, failed, count, seen>>

Next ==
    \/ \E p \in Publisher, sev \in Sev : Publish(p, sev)
    \/ \E c \in Client :
         \/ \E room \in Sev \union {Broadcast} : Subscribe(c, room) \/ Unsubscribe(c, room)
         \/ Fail(c)
         \/ Leave(c)
         \/ \E e \in due[c] : Get(c, e) \/ Miss(c, e)

Spec == Init /\ [][Next]_vars

===============================================================================

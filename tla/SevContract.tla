------------------------------ MODULE SevContract ------------------------------
(***************************************************************************)
(* What the documentation promises of a SEV (docs/architecture.md 4.1 and  *)
(* 4.3, docs/requirements.md 10), as atomic steps: the status and the      *)
(* postmortem move along their state machines, and while a SEV is          *)
(* Postmortem Complete all of it, the postmortem and its review included,  *)
(* is read-only but for editing sessions. An unlock gives a key, which     *)
(* opens sessions of that SEV only, for Lifetime; a session that has begun *)
(* ends with one save, and the SEV is read-only again.                     *)
(***************************************************************************)
EXTENDS Naturals

CONSTANTS SevId, Stages, Start, Final, Moves, DocStages, DocStart, DocMoves, Absent,
          Lifetime

VARIABLES
    stage,      \* stage[s]: the status of s, Absent before it is filed
    fields,     \* fields[s]: everything else the record holds
    doc,        \* doc[s]: the status of its postmortem, Absent before it exists
    text,       \* text[s]: the content of its postmortem
    time,
    keys,       \* the unlocks so far: the SEV and when the key expires
    sessions    \* SEVs of which a locked record is being edited

vars == <<stage, fields, doc, text, time, keys, sessions>>

Init ==
    /\ stage = [s \in SevId |-> Absent]
    /\ fields = [s \in SevId |-> Absent]
    /\ doc = [s \in SevId |-> Absent]
    /\ text = [s \in SevId |-> Absent]
    /\ time = 0
    /\ keys = {}
    /\ sessions = {}

Locked(s)   == stage[s] = Final
Writable(s) == Locked(s) => s \in sessions

\* The step may set the other fields of s, and of no other SEV.
Only(s) == \A t \in SevId \ {s} : fields'[t] = fields[t]

\* The save ends the session: the record is locked again, if it is still complete.
Relock(s) == sessions' = sessions \ {s}

File(s) ==
    /\ stage[s] = Absent
    /\ stage' = [stage EXCEPT ![s] = Start]
    /\ Only(s)
    /\ UNCHANGED <<doc, text, time, keys, sessions>>

Move(s, to) ==
    /\ <<stage[s], to>> \in Moves
    /\ Writable(s)
    /\ stage' = [stage EXCEPT ![s] = to]
    /\ Only(s)
    /\ Relock(s)
    /\ UNCHANGED <<doc, text, time, keys>>

Revise(s) ==
    /\ stage[s] # Absent
    /\ Writable(s)
    /\ Only(s)
    /\ Relock(s)
    /\ UNCHANGED <<stage, doc, text, time, keys>>

StartDoc(s) ==
    /\ stage[s] # Absent
    /\ ~Locked(s)
    /\ doc[s] = Absent
    /\ doc' = [doc EXCEPT ![s] = DocStart]
    /\ UNCHANGED <<stage, fields, text, time, keys, sessions>>

MoveDoc(s, to) ==
    /\ <<doc[s], to>> \in DocMoves
    /\ Writable(s)
    /\ doc' = [doc EXCEPT ![s] = to]
    /\ Relock(s)
    /\ UNCHANGED <<stage, fields, text, time, keys>>

WriteDoc(s) ==
    /\ doc[s] # Absent
    /\ Writable(s)
    /\ \A t \in SevId \ {s} : text'[t] = text[t]
    /\ Relock(s)
    /\ UNCHANGED <<stage, fields, doc, time, keys>>

Unlock(s) ==
    /\ Locked(s)
    /\ keys' = keys \union {[sev |-> s, exp |-> time + Lifetime]}
    /\ UNCHANGED <<stage, fields, doc, text, time, sessions>>

\* A session begins while a key of that very SEV is good.
Begin(s) ==
    /\ Locked(s)
    /\ \E k \in keys : k.sev = s /\ time < k.exp
    /\ sessions' = sessions \union {s}
    /\ UNCHANGED <<stage, fields, doc, text, time, keys>>

\* A session that is given up.
GiveUp(s) ==
    /\ Relock(s)
    /\ UNCHANGED <<stage, fields, doc, text, time, keys>>

Tick ==
    /\ time' = time + 1
    /\ UNCHANGED <<stage, fields, doc, text, keys, sessions>>

Next ==
    \/ \E s \in SevId :
        \/ File(s)
        \/ \E to \in Stages : Move(s, to)
        \/ Revise(s)
        \/ StartDoc(s)
        \/ \E to \in DocStages : MoveDoc(s, to)
        \/ WriteDoc(s)
        \/ Unlock(s)
        \/ Begin(s)
        \/ GiveUp(s)
    \/ Tick

Spec == Init /\ [][Next]_vars

\* A step the documentation forbids: the postmortem of a locked SEV moves along its
\* state machine, and nothing else changes.
ReviewLocked(s, to) ==
    /\ Locked(s)
    /\ <<doc[s], to>> \in DocMoves
    /\ doc' = [doc EXCEPT ![s] = to]
    /\ UNCHANGED <<stage, fields, text, time, keys, sessions>>

SpecButReviews ==
    Init /\ [][Next \/ \E s \in SevId, to \in DocStages : ReviewLocked(s, to)]_vars

===============================================================================

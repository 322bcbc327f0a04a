------------------------------ MODULE Environment ------------------------------
(***************************************************************************)
(* What the models of the smaller services share: the requests in flight,  *)
(* the clock, and a budget of failures (a store or an outside service that *)
(* errs, a process that stops). None of it is the program's own state.     *)
(***************************************************************************)
EXTENDS SevRecord, FiniteSets

CONSTANTS
    Request,        \* handler invocations in flight at once
    Faults,         \* which calls may fail
    MaxFaults,      \* bound: failures
    MaxTime         \* bound: the clock stops here

ASSUME EnvironmentAssumption ==
    /\ Nil \notin Request
    /\ MaxFaults \in Nat /\ MaxTime \in Nat

VARIABLES now, faults

env == <<now, faults>>

EnvInit == now = 0 /\ faults = 0

EnvTypeOK == now \in Nat /\ faults \in Nat

\* A call of this kind fails, once more.
Fail(kind) ==
    /\ kind \in Faults
    /\ faults < MaxFaults
    /\ faults' = faults + 1
    /\ UNCHANGED now

Tick ==
    /\ now < MaxTime
    /\ now' = now + 1
    /\ UNCHANGED faults

===============================================================================

SPECIFICATION Spec
CONSTANTS
    Nil = Nil
    Sev = {s1}
    User = {u1}
    Filing = {f1}
    Assigner = {a1}
    BufferSize = 1
    Faults = {}
    MaxFaults = 0
CHECK_DEADLOCK FALSE
INVARIANT EveryHolderInvited

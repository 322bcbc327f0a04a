SPECIFICATION FairSpec
CONSTANTS
    Nil = Nil
    Category = {c1}
    SevId = {s1, s2}
    Request = {r1}
    Level = {l1}
    Thresholds <- JustOn
    Starts <- Now0
    Flags = {FALSE}
    Targets <- Round
    Limit = 1
    Faults = {}
    MaxFaults = 0
    MaxRoles = 0
    MaxTime = 1
CHECK_DEADLOCK FALSE
PROPERTY OverdueAlarmed

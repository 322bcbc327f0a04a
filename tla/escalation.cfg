SPECIFICATION FairSpec
CONSTANTS
    Nil = Nil
    Category = {c1}
    SevId = {s1, s2}
    Request = {r1}
    Level = {l1}
    Thresholds <- JustOn
    Starts <- Now0
    Flags = {TRUE, FALSE}
    Targets <- Round
    Limit = 2
    Faults = {"crash", "mark", "clear", "roles"}
    MaxFaults = 1
    MaxRoles = 1
    MaxTime = 1
VIEW View
CHECK_DEADLOCK FALSE
INVARIANTS
    TypeOK
    AlarmsCounted
    NoSilentMarker
PROPERTIES
    AlarmsSound
    OverdueAlarmed

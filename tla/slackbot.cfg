SPECIFICATION FairSpec
CONSTANTS
    Nil = Nil
    Sev = {s1, s2}
    User = {u1}
    Filing = {f1}
    Assigner = {a1}
    BufferSize = 1
    Faults = {"api", "slack", "hub", "bot", "overwrite"}
    MaxFaults = 1
CHECK_DEADLOCK FALSE
INVARIANTS
    TypeOK
    PendingTaken
    OpenerInvited
    HoldersInvited
PROPERTY CommandsAnswered

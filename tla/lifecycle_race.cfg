SPECIFICATION Spec
CONSTANTS
    Nil = Nil
    SevId = {s1}
    Request = {r1, r2}
    Category = {c1}
    Drafts <- TimedDraft
    Patches <- TimePatches
    Targets <- MainPath
    Stamps <- LateStamps
    Edits = {}
    Reviews = {}
    TokenTTL = 1
    MaxTime = 1
    MaxHistory = 5
CHECK_DEADLOCK FALSE
SYMMETRY Symmetry
INVARIANTS
    MetricsCurrent
    TypeOK
    LockFollowsStatus
    StatusLogged
    HistoryConnected
    TokensForCompleted
PROPERTY EventsFollowRecord

SPECIFICATION Spec
CONSTANTS
    Nil = Nil
    SevId = {s1}
    Request = {r1, r2}
    Category = {c1}
    Drafts <- OneDraft
    Patches <- BarePatch
    Targets <- MainPath
    Stamps <- OneStamp
    Edits = {}
    Reviews = {}
    TokenTTL = 1
    MaxTime = 0
    MaxHistory = 4
CHECK_DEADLOCK FALSE
PROPERTY LockedRowGuarded

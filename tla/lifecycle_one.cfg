SPECIFICATION Spec
CONSTANTS
    Nil = Nil
    SevId = {s1, s2}
    Request = {r1}
    Category = {c1}
    Drafts <- OneDraft
    Patches <- CategoryPatches
    Targets <- MainPath
    Stamps <- OneStamp
    Edits = {s1}
    Reviews = {s1}
    TokenTTL = 1
    MaxTime = 1
    MaxHistory = 5
CHECK_DEADLOCK FALSE
PROPERTY KeepsContract
VIEW View

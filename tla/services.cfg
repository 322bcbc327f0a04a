SPECIFICATION ServicesFairSpec
CONSTANTS
    Nil = Nil
    Category = {c1}
    Request = {r1, r2}
    Faults = {"login", "bot", "rollback", "lookup", "tracker", "store", "crash", "targets", "marker"}
    MaxFaults = 1
    MaxTime = 1
    Account = {"a1", "a2"}
    Identity = {"n1"}
    Asked <- SomeCalls
    Ttl = 1
    MaxTokens = 2
    MaxSecrets = 0
    BotTtl = 1
    Margin = 1
    Timeout = 0
    MaxRotations = 1
    Credential = {k1}
    Setting = {full, partial}
    Complete = {full}
    MaxKeys = 1
    Days = {1}
    Resolved = {0, 1}
    AskedDue = {3}
    MaxTasks = 1
    MaxIssues = 1
    Viewer = {u1}
    Trusted = {ic}
    Lifetimes = {1}
    Audience = {"external", "internal"}
    MaxPosts = 1
    MaxShareKeys = 1
    Service = {v1}
    TargetChoices <- SomeTargets
    Drafts <- SomeDrafts
    Patches <- SomePatches
    Stamps <- SomeStamps
    Moves = {"mitigated", "resolved"}
CHECK_DEADLOCK FALSE
INVARIANTS
    ServicesTypeOK
    Bootstrapped
    ColumnsAsAsked
    DeactivatedRefused
    RetrySuffices
    ConfigInForce
    DueDatesKept
    IssuesAccounted
    DisclosedWithReason
    SlaTold
PROPERTIES
    BotSignsInAgain

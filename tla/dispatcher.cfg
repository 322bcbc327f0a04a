SPECIFICATION FairSpec
CONSTANTS
    Nil = Nil
    SevId = {s1, s2}
    Subject = {s1}
    Worker = {w1, w2}
    Client = {c1}
    QueueSize = 1
    Minute = 2
    Ceiling = 2
    Events <- TwoEvents
    Asked <- OneAction
    Rows <- RowsMC
    Settings <- SettingsMC
    MaxPlugins = 1
    MaxJobs = 2
    MaxTime = 2
VIEW View
CHECK_DEADLOCK FALSE
INVARIANTS
    TypeOK
    RateHeld
    OncePerJob
PROPERTIES
    CallsWarranted
    AcceptedRuns

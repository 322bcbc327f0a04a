SPECIFICATION FairSpec
CONSTANTS
    Client = {c1, c2}
    Sev = {s1}
    Broadcast = Broadcast
    Publisher = {p1, p2}
    BufferSize = 2
    MaxEvents = 3
    MaxTurns = 4
CHECK_DEADLOCK FALSE
VIEW View
INVARIANTS
    TypeOK
    RoomsAgree
    TargetsStayOpen
PROPERTIES
    HubKeepsContract
    PublishersReturn
    GoneClientsLeave

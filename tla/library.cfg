SPECIFICATION FairSpec
CONSTANTS
    l1 = l1
    l2 = l2
    Listener <- MCListener
    None = None
    Slots = 3
    FmtSize = 2
    MaxLength = 3
INVARIANTS
    TypeOK
    PrintedWhole
PROPERTIES
    EveryoneIsCalled
    NotificationsEnd
    ReportsEnd
CHECK_DEADLOCK FALSE

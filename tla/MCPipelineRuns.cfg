CONSTANTS
    tab = tab
    other = other
    MaxRuns = 2
    LastStage = 2
    Gates = {1}
    Asks <- MCAsks
    Clients = {tab, other}
    Affordable = 2
    MaxHubs = 1
    MaxReviews = 1
    MaxFaults = 1
SPECIFICATION Spec
INVARIANTS
    TypeOK
    OneWorkerAtATime
    
    ApprovedIsSignedOff
PROPERTIES
    TailsTheLog
    EveryStreamEnds
CHECK_DEADLOCK FALSE

CONSTANTS
    Clients = {"old", "new"}
    Daemons = {"d", "e", "f"}
    Build <- TwoBuilds
    Oldest = 1
    MaxSessions = 1
    Turned = {"new"}
SPECIFICATION FairSpec
 
PROPERTIES EveryoneServed NothingLeftBehind
CHECK_DEADLOCK FALSE

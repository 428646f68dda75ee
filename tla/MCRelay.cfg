CONSTANTS
    Links <- Twice
    Sockets = {1, 2}
    MaxConnections = 3
    MaxBack = 1
    MaxFailures = 1
SPECIFICATION FairSpec
INVARIANT OnlyTheirs
 

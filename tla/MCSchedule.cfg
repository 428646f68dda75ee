CONSTANTS
    Runs = {r}
    Rows <- OfEachKind
    Period = 2
    LateAfter = 1
    Horizon = 3
    MaxEdits = 1
    StoreMayFail = TRUE
SPECIFICATION FairSpec
 
PROPERTIES  NothingWaits

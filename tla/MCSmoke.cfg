CONSTANTS
    Runs = {r}
    Versions = {"v1", "v2"}
    Tests <- Two
    StoreMayFail = TRUE
SPECIFICATION FairSpec
INVARIANTS OnlyAgreed  
PROPERTIES InOrder  RunEnds

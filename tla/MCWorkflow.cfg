CONSTANTS
    Workflows <- All
    MaxBursts = 1
    MaxHolds = 1
    StoreMayFail = TRUE
    MayVanish = TRUE
SPECIFICATION FairSpec
INVARIANTS NeedsMet DoneOnce RunTrue CancelStops
PROPERTIES OneMessageAtATime 

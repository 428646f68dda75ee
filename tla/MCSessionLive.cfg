CONSTANTS
    Holders = {a}
    LocalHold = 1
    LeaseTtl = 1
    Sizes = {"large"}
    ReplayBudget = 2
    ResizeCost = 1
    Terminals = {}
    Watchers = {w}
    Locals = {me}
    LocalData = {"keys"}
    Automations = {}
    InitSize = "large"
    ResizeMayFail = FALSE
    QuietAfter = 1
    DrainQuiet = 1
    ReplyWindow = 1
    PumpKeepsUp = FALSE
    Asks = {}
    MayEnd = TRUE
    MayOutlive = TRUE
    MaxPrinted = 1
    MaxGeneration = 1
    MaxInput = 0
    MaxAttachments = 1
    MaxSeq = 0
SPECIFICATION FairSpec
INVARIANTS ProgramOutputComplete
  

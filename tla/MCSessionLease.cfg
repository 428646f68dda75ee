CONSTANTS
    Holders = {a, b}
    LocalHold = 1
    LeaseTtl = 2
    Sizes = {"small", "large"}
    ReplayBudget = 2
    ResizeCost = 1
    Terminals = {}
    Watchers = {}
    Locals = {me}
    LocalData = {"keys", "focus"}
    Automations = {}
    InitSize = "large"
    ResizeMayFail = FALSE
    QuietAfter = 1
    DrainQuiet = 1
    ReplyWindow = 1
    PumpKeepsUp = FALSE
    Asks = {}
    MayEnd = FALSE
    MayOutlive = FALSE
    MaxPrinted = 0
    MaxGeneration = 3
    MaxInput = 2
    MaxAttachments = 1
    MaxSeq = 1
SPECIFICATION Spec
INVARIANTS InputsInOrder LocalOwnsSize
PROPERTIES LostLeaseStaysLost
SYMMETRY Symmetry

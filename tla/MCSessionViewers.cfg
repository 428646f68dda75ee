CONSTANTS
    Holders = {a}
    LocalHold = 1
    LeaseTtl = 1
    Sizes = {"small", "large"}
    ReplayBudget = 1
    ResizeCost = 1
    Terminals = {t, u}
    Watchers = {w}
    Locals = {}
    LocalData = {}
    Automations = {flow}
    InitSize = "large"
    ResizeMayFail = TRUE
    QuietAfter = 1
    DrainQuiet = 1
    ReplyWindow = 1
    PumpKeepsUp = TRUE
    Asks = {"cursor", "other"}
    MayEnd = TRUE
    MayOutlive = FALSE
    MaxPrinted = 2
    MaxGeneration = 1
    MaxInput = 0
    MaxAttachments = 2
    MaxSeq = 2
SPECIFICATION Spec
CONSTRAINT OneScene
INVARIANTS WatcherExact OneAnswerer TerminalExact

CONSTANTS
    Ptys = {p, q}
    Records = {r}
    Drainers = {"app"}
    SpoolCap = 1
    StoreMayFail = FALSE
    FallbackMayHappen = FALSE
    LaunchDuringStart = FALSE
    LaunchersMayDie = FALSE
    DaemonMayDie = FALSE
    MayResume = TRUE
    MayClose = FALSE
SPECIFICATION Spec
INVARIANTS ExitKept 
SYMMETRY Symmetry

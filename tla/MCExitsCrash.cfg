CONSTANTS
    Ptys = {p}
    Records = {r}
    Drainers = {"app", "ys"}
    SpoolCap = 2
    StoreMayFail = FALSE
    FallbackMayHappen = TRUE
    LaunchDuringStart = TRUE
    LaunchersMayDie = TRUE
    DaemonMayDie = TRUE
    MayResume = FALSE
    MayClose = TRUE
SPECIFICATION FairSpec
PROPERTIES RunsEndOnce  GoneSettled

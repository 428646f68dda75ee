CONSTANTS
    Instances = {i, j}
    Connects <- Thrice
    MaxCrashes = 1
SPECIFICATION LinksFairSpec
INVARIANT Held
PROPERTIES OneLink NewestStays

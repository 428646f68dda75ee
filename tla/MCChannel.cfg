CONSTANTS
    c = c
    phone = phone
    Channels = {c}
    Holders = {phone}
    DeviceOf <- OwnDevice
    LocalHold = 1
    LeaseTtl = 1
    Protocols = {2, 3}
    Room = 1
    ActivityRoom = 0
    MaxSeq = 1
    Past <- Before
    MaxRecorded = 3
    MaxRequests = 2
    MaxFaults = 1
SPECIFICATION FairSpec
INVARIANTS  NothingHeld
PROPERTY RevokedEnds
CHECK_DEADLOCK FALSE

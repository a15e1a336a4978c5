CONSTANTS
    MaxConnections = 3
    Handles = {h1, h2}
    Boots = {b1}
    None = None
    max_publishers = 2
    MaxFrames = 2
    MaxStarts = 1
CHECK_DEADLOCK FALSE
SPECIFICATION FairSpec
INVARIANTS
    ConnectionsBounded
    WaitIsSound
    StoppedIsQuiet
PROPERTIES
    StopReturns

SPECIFICATION FairSpec
CONSTANTS
    KeepGoing = {FALSE}
    MaxFaults = 3
INVARIANTS
    LifecycleInv
PROPERTIES
    NothingLost
    RunEnds

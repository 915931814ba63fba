SPECIFICATION FairSpec
CONSTANTS
    gitlab = gitlab
    NoProject = NoProject
    App <- One
    Asked <- OneAsks
    Project = {gitlab}
    MaxLives = 2
    MaxEdits = 2
    MaxFaults = 1
CHECK_DEADLOCK FALSE
INVARIANTS
    DependenciesInv
PROPERTIES
    InTheEnd

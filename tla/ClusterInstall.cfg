SPECIFICATION Spec
CONSTANTS
    s = s
    a = a
    Node <- MCNode
    Server = s
    Configs <- MCConfigs
    Networks <- MCNetworks
    DefaultRole = "access"
    Gpu <- MCAgent
    Held <- MCServer
    Half <- MCHalf
    MaxEdits = 1
    MaxFaults = 1
INVARIANTS
    InstallInv
    InForce
PROPERTIES
    InOrder

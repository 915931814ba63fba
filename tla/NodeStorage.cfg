SPECIFICATION Spec
CONSTANTS
    n1 = n1
    n2 = n2
    d1 = d1
    d2 = d2
    Nodes = {n1, n2}
    Disks = {d1, d2}
    Classes <- MCClasses
    Fitted <- MCFitted
    Hardware <- MCHardware
    Whats = {"install", "addNode", "lvm", "nodeLabels", "helmCharts", "cleanFull"}
    MaxChanges = 2
    MaxFaults = 1
INVARIANTS
    StorageInv
PROPERTIES
    InstallLeavesServed
    OthersLeftAlone

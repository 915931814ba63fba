SPECIFICATION FairSpec
CONSTANTS
    s1 = s1
    a1 = a1
    a2 = a2
    preflight = preflight
    k3s = k3s
    cilium = cilium
    labels = labels
    m1 = m1
    m2 = m2
    m3 = m3
    NoNode = NoNode
    NoBundle = NoBundle
    Node <- MCNode
    Bundle <- MCBundle
    Machine <- MCMachine
    Requests <- MCAll
CHECK_DEADLOCK FALSE
INVARIANTS
    IInv
    StopsAtFailures
    AllOrNothing
    EndsWell
PROPERTIES
    ImplementsLockStep
    Ends

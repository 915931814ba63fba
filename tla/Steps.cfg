SPECIFICATION StepsSpec
CONSTANTS
    s1 = s1
    a1 = a1
    a2 = a2
    disks = disks
    classes = classes
    token = token
    version = version
    Nothing = Nothing
    Server = s1
    MaxSteps = 3
    Node <- MCNode
    Slot <- MCSlot
    main = main
    plain = plain
    two = two
    index = index
    config1 = config1
    config2 = config2
    NoList = NoList
    NoConfig = NoConfig
    ownSecret = ownSecret
    defaultSecret = defaultSecret
    Nobody = Nobody
    Value = {token, version}
    Bundles <- MCBundles
    Tag = {main}
    Manifest = {plain, two, index}
    Holds <- MCHolds
    Ports <- MCPorts
    SecretName = {ownSecret, defaultSecret}
    Defaults <- MCDefaults
    Listings <- MCListings
    Computer = {s1, a1, a2}
    ControlPlane = s1
    Definition <- MCDefinition
    Registered <- MCRegistered
    InstallPipeline <- MCPipeline
    Gate = "preflight"
    Unexplained = "silent"
    NoConnection = "no connection"
    NoServer = "control plane"
    Unbuildable = {"k3s"}
    Illness <- MCIllness
    Questions <- MCQuestions
    Files <- MCFiles
    Provided <- MCProvided
    Machines <- MCMachines
    MaxLost = 1
    MaxMoves = 2
    MaxFaults = 2
CHECK_DEADLOCK FALSE
INVARIANTS
    BundleInv
    PortInv
    DoctorInv
    PreflightInv
PROPERTIES
    MemoryKeeps
    PortIsSettled

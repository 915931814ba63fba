CONSTANTS
    None = None
    Person = {ann, bob}
    Connection = {"gitlab"}
    Registry = {"harbor", "quay"}
    Region = {"east", "west"}
    Account = {"office", "team"}
    Namespace = {"n1", "n2"}
    Domain = {"org", "team.org"}
    Inside <- MCInside
    Pages <- MCPages
    Settled <- MCSettled
    Published <- MCPublished
    Wishes <- MCWishes
    Zones <- MCZones
    MaxEdits = 3
    MaxFaults = 1
SYMMETRY Either
SPECIFICATION Spec
CHECK_DEADLOCK FALSE
INVARIANTS
    ConsoleInv
PROPERTIES
    SavesAreSafe

SPECIFICATION ReleaseSpec
CONSTANTS
    ann = ann
    bob = bob
    Person <- MCPerson
    Component <- MCComponent
    Version <- MCVersion
    FirstVersion <- MCFirst
    MaxCommits = 2
    MaxSets = 2
    MaxMeddling = 1
SYMMETRY People
INVARIANTS
    ReleaseInv

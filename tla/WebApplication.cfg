SPECIFICATION FairSpec
CONSTANTS
    gitlab = gitlab
    ghcr = ghcr
    Registry = {gitlab}
    Elsewhere = {ghcr}
    Migrations = TRUE
    SpecPort = 0
    Port <- MCPort
    Broken = {}
    MaxPipelines = 2
    MaxTroubles = 1
INVARIANTS
    IInv
    SchemaStaysBack
PROPERTIES
    NothingDropped
    CatchesUp

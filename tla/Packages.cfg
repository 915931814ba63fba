SPECIFICATION Spec
CONSTANTS
    Described <- MCDescribed
    Configs <- MCConfigs
    Troubled <- MCTroubled
    Bundles <- MCBundles
    Removable <- MCRemovable
    Lost <- MCLost
    Roles <- MCRoles
    MaxOnly = 1
    MaxTroubles = 1
INVARIANTS
    PackagesInv
PROPERTIES
    InstallIsRight
    CheckupIsRight

SPECIFICATION FairSpec
CONSTANTS
    office = office
    team = team
    ccOffice = ccOffice
    ccTeam = ccTeam
    zone = zone
    part = part
    Provider = {office, team}
    Namespace = {ccOffice, ccTeam}
    Domain = {zone, part}
    Inside <- MCInside
    InstanceName <- MCInstanceName
    SpecContents <- MCContents
    MaxEdits = 1
    MaxFaults = 1
CHECK_DEADLOCK FALSE
INVARIANTS
    IInv
    StatusIsTrue
PROPERTIES
    ComesRight

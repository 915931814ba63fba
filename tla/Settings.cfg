SPECIFICATION SettingsSpec
CONSTANTS
    HandWritten <- MCHandWritten
    Domain = {"a.org", "b.org"}
    NodeName = {"one", "two"}
    Region = {"east"}
    Host = {"dotted", "plain"}
    DottedHost = {"dotted"}
    Package = {"authentik", "projectsend", "seaweedfs", "note"}
    Catalogue = {"authentik", "projectsend", "seaweedfs"}
    Namespace = {"office", "web"}
    MailServer <- MCMailServer
    MailUser = {"ann"}
    MaxNodes = 2
    MaxRuns = 2
    Item = {"a", "b"}
    Version = {1, 2, 3}
    Template = {1, 2}
    Listed <- MCListed
    Shipped <- MCShipped
    Declares <- MCDeclares
    MaxEdits = 2
    Realm = {office, web}
    Site = {"a", "b"}
    SiteOf <- MCSiteOf
    OwnTerms <- MCOwnTerms
    MaxPods = 1
    MaxPlacements = 2
    Zone = {"org", "a.org"}
    Beneath <- MCBeneath
    DnsConfigs <- MCDnsConfigs
    MaxDnsEdits = 2
SYMMETRY EitherRealm
CHECK_DEADLOCK FALSE
INVARIANTS
    PluginsInv
    PlacementInv
    DnsBundleInv
PROPERTIES
    ConfigureKeeps

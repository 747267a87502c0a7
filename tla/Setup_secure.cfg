\* Two servers; one drop, one renewed certificate, two starts.
CONSTANTS
    Urls <- MCUrls
    HostName <- MCHostName
    WithUserinfo = {"bad"}
    Paths <- MCPaths
    AtPath <- MCAtPath
    TraceName <- MCTraceName
    Numbered <- MCNumbered
    Reserved = {"log", "opcua_log"}
    Policies <- MCPolicies
    ProbedUrls <- MCProbed
    Servers = {"s1", "s2"}
    Situations <- MCSituations
    MaxRenewals = 1
    MaxDrops = 1
    MaxStarts = 2
SPECIFICATION FairSpec
INVARIANTS AsSecureAsAsked ReportedFits
PROPERTIES Reconnects
CHECK_DEADLOCK FALSE

SPECIFICATION FairSpec
CONSTANTS
    Users = {u1}
    Macs = {"m1"}
    TwelveCharMacs = {"m1"}
    EndpointIds <- OneEndpoint
    Layouts <- OneLight
    Workers = {w1,w2}
    MaxCommands = 0
    MaxReports = 2
    MaxConnections = 3
    MaxFaults = 1
    None = None
INVARIANTS
    TypeOK
    AtRestUnlessLost
PROPERTIES
    EveryReportSettles
CHECK_DEADLOCK FALSE

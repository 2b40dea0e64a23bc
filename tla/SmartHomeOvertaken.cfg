SPECIFICATION Spec
CONSTANTS
    Users = {u1}
    Macs = {"m1"}
    TwelveCharMacs = {"m1"}
    EndpointIds <- OneEndpoint
    Layouts <- OneLight
    Workers = {w1,w2}
    MaxCommands = 0
    MaxReports = 2
    MaxConnections = 2
    MaxFaults = 0
    None = None
PROPERTIES
    NewestReportKept
CHECK_DEADLOCK FALSE

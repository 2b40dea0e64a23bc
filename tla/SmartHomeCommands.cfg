SPECIFICATION Spec
CONSTANTS
    Users = {u1, u2}
    Macs = {"m1"}
    TwelveCharMacs = {"m1"}
    EndpointIds <- TwoEndpoints
    Layouts <- Boards
    Workers = {w1}
    MaxCommands = 1
    MaxReports = 1
    MaxConnections = 1
    MaxFaults = 0
    None = None
INVARIANTS
    QueryTellsLastReport
    CommandsAreTheOwners
CHECK_DEADLOCK FALSE

SPECIFICATION Spec
CONSTANTS
    Workers = {w1}
    MaxCommands = 1
    MaxFaults = 1
    MaxInbox = 0
    None = None
INVARIANTS
    RunsForTheLifetime
CHECK_DEADLOCK FALSE

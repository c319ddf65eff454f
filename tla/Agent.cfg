SPECIFICATION AgentSpec
CONSTANTS
    Hosts <- AllHosts
    MaxFails = 1
INVARIANTS NothingLeft
PROPERTIES SignalStops
CHECK_DEADLOCK FALSE

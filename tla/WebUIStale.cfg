\* An answer that comes after the error of a later load.
CONSTANTS
    Second = 2
    Trace <- MCTrace
    Substrate <- MCSubstrate
    Observer = {"alice", "bob"}
    Query <- MCQuery
    MaxVersions = 1
    MaxLoads = 2
    MaxClicks = 0
SPECIFICATION Spec
CHECK_DEADLOCK FALSE
INVARIANT
    StaleGraphIsHidden

\* Two loads and one click of a page, one change of the substrate.
CONSTANTS
    Second = 2
    Trace <- MCTrace
    Substrate <- MCSubstrate
    Observer = {"alice", "bob"}
    Query <- MCQuery
    MaxVersions = 2
    MaxLoads = 2
    MaxClicks = 1
SPECIFICATION Spec
CHECK_DEADLOCK FALSE
INVARIANTS
    TypeOK
    ScreenTellsOneCut
    QuietScreenIsCurrent
    ClickedNodeHasTraces
    EndpointsAgree
PROPERTY
    EverythingSettles

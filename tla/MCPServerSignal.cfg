\* A signal at an idle server.
CONSTANTS
    p1 = p1
    p2 = p2
    NoTrace = NoTrace
    Server = {p1}
    MaxRequests = 1
    InvocationID <- MCInvocationID
    InvocationTime <- MCInvocationTime
    TraceID <- MCTraceID
    Trace <- MCTrace
    ValidTrace <- MCValid
    InitialFile <- MCOneFile
    MaxFileTraces = 4
    MaxSurvivors = 9
SPECIFICATION FairSpec
PROPERTY SignalEndsServer
CHECK_DEADLOCK FALSE

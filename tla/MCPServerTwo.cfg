\* Two clients, each with its server, on one file.
CONSTANTS
    p1 = p1
    p2 = p2
    NoTrace = NoTrace
    Server = {p1, p2}
    MaxRequests = 1
    InvocationID <- MCInvocationID
    InvocationTime <- MCInvocationTime
    TraceID <- MCTraceID
    Trace <- MCTrace
    ValidTrace <- MCValid
    InitialFile <- MCOneFile
    MaxFileTraces = 4
    MaxSurvivors = 9
SPECIFICATION Spec
INVARIANT EveryCutIsRecordedOrLogged
CHECK_DEADLOCK FALSE

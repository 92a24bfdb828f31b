\* One server on its file, everything that can happen to it.
CONSTANTS
    p1 = p1
    p2 = p2
    NoTrace = NoTrace
    Server = {p1}
    MaxRequests = 3
    InvocationID <- MCInvocationID
    InvocationTime <- MCInvocationTime
    TraceID <- MCTraceID
    Trace <- MCTrace
    ValidTrace <- MCValid
    InitialFile <- MCInitial
    MaxFileTraces = 3
    MaxSurvivors = 9
SPECIFICATION FairSpec
INVARIANTS
    TypeOK
    AnsweredInOrder
    EveryCutIsRecordedOrLogged
    OnlyCutsAreRecorded
    CutSeesEarlierCallsOnly
PROPERTY
    EveryLineIsHandled
\* A server stops when its client does.
CHECK_DEADLOCK FALSE

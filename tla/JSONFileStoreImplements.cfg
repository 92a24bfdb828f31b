\* Coordinated callers implement TraceStore.
CONSTANTS
    c1 = c1
    c2 = c2
    Caller = {c1, c2}
    NoTrace = NoTrace
    TraceID = {"a", "b", "c", "d"}
    Trace <- MCTrace
    ValidTrace <- MCValid
    Batch <- MCBatch
    InitialFile <- MCCleanInitial
    Coordinated = TRUE
    MaxFileTraces = 3
    MaxSurvivors = 3
SPECIFICATION Spec
PROPERTY ImplementsTraceStore

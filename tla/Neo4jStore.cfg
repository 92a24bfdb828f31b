\* Two callers who do not coordinate, on an empty and a filled database.
CONSTANTS
    c1 = c1
    c2 = c2
    Caller = {c1, c2}
    NoTrace = NoTrace
    TraceID = {"a", "b", "c"}
    Trace <- MCTrace
    ValidTrace <- MCValid
    Source <- MCSource
    Target <- MCTarget
    Batch <- MCBatch
    Options <- MCOptions
    InitialNodes <- MCInitialNodes
    MaxAttempts = 2
SPECIFICATION Spec
INVARIANT
    ReadsAreRight
PROPERTIES
    StoresAreWhole
    ImplementsTraceStore

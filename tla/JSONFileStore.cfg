\* Two callers that do not coordinate, on good and bad files.
CONSTANTS
    c1 = c1
    c2 = c2
    Caller = {c1, c2}
    NoTrace = NoTrace
    TraceID = {"a", "b", "c", "d"}
    Trace <- MCTrace
    ValidTrace <- MCValid
    Batch <- MCBatch
    InitialFile <- MCInitial
    Coordinated = FALSE
    MaxFileTraces = 3
    MaxSurvivors = 2
SPECIFICATION Spec
SYMMETRY Symmetric
INVARIANTS
    TypeOK
    StoreNeverCorrupts
    GetAgreesWithQuery
    BatchAllOrNothing
PROPERTY
    AcknowledgedIsVisible

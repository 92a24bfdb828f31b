\* All substrates of up to three traces, all pairs of cuts, one recorded call.
CONSTANTS
    Trace <- MCTrace
    CutOptions <- MCCutOptions
    Second = 1
    MaxTraces = 3
    MaxCalls = 1
    Now = 4
    FreshID = 100
SPECIFICATION Spec
INVARIANTS
    ShadowAccountsForAll
    DiffLeadsFromAToB
    ReadingsAreTrue
PROPERTY
    RecordingOnlyReveals

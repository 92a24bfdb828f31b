\* Chains through all graphs of three traces over three elements.
CONSTANTS
    Graphs <- MCGraphs
    Starts <- MCStarts
    Depths <- MCDepths
SPECIFICATION FairSpec
INVARIANTS
    TypeOK
    ChainIsASimplePath
    BreaksTellAll
PROPERTY
    EveryChainEnds
\* A call returns.
CHECK_DEADLOCK FALSE

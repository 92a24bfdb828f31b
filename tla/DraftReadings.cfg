\* All links among up to four drafts, unique and repeated IDs; two promotions.
CONSTANTS
    UUID <- MCUUID
    DraftFile <- MCDraftFile
    MaxPromotions = 2
SPECIFICATION ReadingsSpec
CHECK_DEADLOCK FALSE
INVARIANTS
    LineageFindsCycles
    ComparisonsHold
PROPERTIES
    PromotingAgainAddsNothing
    LineageEnds

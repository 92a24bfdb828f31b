\* Two commands over two paths.
CONSTANTS
    p1 = p1
    p2 = p2
    s1 = s1
    s2 = s2
    Path = {p1, p2}
    Span = {s1, s2}
    Inputs <- MCInputs
    Replies <- MCReplies
    Found <- MCFound
    MaxReply = 1
    MaxSessions = 2
SPECIFICATION FairSpec
INVARIANTS
    TypeOK
    EveryDraftIsAccountedFor
    DispositionsMatchDrafts
    DerivationIsGrounded
    CleanExitCoversEveryItem
PROPERTIES
    RecordsComeFirst
    UnattendedSessionsEnd
\* The analyst stops after MaxSessions commands.
CHECK_DEADLOCK FALSE

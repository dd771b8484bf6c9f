SPECIFICATION FairSpec
CONSTANT MaxLines = 4
INVARIANTS
    TypeOK
    CachedAsShown
    AgentResultWhole
    SubprocessDoneIsKept
PROPERTY StreamEnds
CHECK_DEADLOCK FALSE

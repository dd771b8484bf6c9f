SPECIFICATION FairFanOutSpec
CONSTANTS
    Entries = 2
    Id = {n1, n2}
    DeadAfter = 2
    Parallel = 1
    Answer = {"silent", "garbage", "error", "lost", "lossy", "fine"}
    None = None
INVARIANTS
    FanOutTypeOK
    DeadWhenMissed
    ReplyWhole
PROPERTIES
    MarksFollow
    FanOutEnds

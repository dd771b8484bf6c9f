SPECIFICATION Spec
CONSTANTS
    MaxLines = 2
INVARIANT DoneIsKept
CHECK_DEADLOCK FALSE

SPECIFICATION Spec
CONSTANTS
    MaxLines = 2
INVARIANT NothingCachedWhenClientLeft
CHECK_DEADLOCK FALSE

CONSTANTS
    Slots = 3
    Typed = {0, 9}
    NoName = 0
    MaxKeys = 2
    MaxSteps = 5
SPECIFICATION Spec
\* The user stops at the bound.
CHECK_DEADLOCK FALSE
INVARIANT OthersAreKept

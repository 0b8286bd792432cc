SPECIFICATION Spec
CONSTANTS
    StdSets <- MCStdSets
    CommandLines <- MCCommandLines
    MaxHistory = 1
INVARIANT KeyVerified
CHECK_DEADLOCK FALSE

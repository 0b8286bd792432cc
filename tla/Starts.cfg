SPECIFICATION Spec
CONSTANTS
    StdSets <- MCStdSets
    CommandLines <- MCCommandLines
    MaxHistory = 1
INVARIANTS
    TypeOK
    OneDaemon
    Detached
PROPERTIES
    SignalStops
    
CHECK_DEADLOCK FALSE

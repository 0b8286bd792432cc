SPECIFICATION Spec
CONSTANTS
    AM_DEFAULT_INTERVAL = 2
    IntervalWidth = 4
    Numbers = {0, 1, 3, 4, 6}
    MaxDownloads = 3
    MaxScripts = 3
CHECK_DEADLOCK FALSE
INVARIANTS
    TypeOK
    NoForgottenZombie
    StopsWithinInterval
PROPERTIES
    KeepsServing

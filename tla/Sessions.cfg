SPECIFICATION Spec
CONSTANTS
    Handles = {h1, h2, h3}
    None = None
    MaxTries = 2
INVARIANTS
    TypeOK
    NoStaleHandle
    OnlyFailedPollsLeak
PROPERTY NotificationEnds

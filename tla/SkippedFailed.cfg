CONSTANTS
    u1 = u1
    u2 = u2
    u3 = u3
    noise = noise
    Torn = torn
    Mangled = mangled
    TooShort = {}
    TooLong = {}
    Urls <- MCUrls
    Match <- MCMatch
    PathOf <- MCPathOf
    NFeeds = 1
    Listings <- OneFeed
    DefaultMax = 1
    MaxCount = 1
    CountModulus = 65536
    OnceFlags <- OneEach
    MatchOnlyFlags <- OneEach
    XmlFlags <- OneEach
    Kills = FALSE
    IOFaults = FALSE
SPECIFICATION Spec
INVARIANTS SkippedWasDownloaded

CONSTANTS
    u1 = u1
    u2 = u2
    u3 = u3
    noise = noise
    Torn = torn
    Mangled = mangled
    TooShort = {u1}
    TooLong = {}
    Urls <- PlainUrls
    Match <- PlainUrls
    PathOf <- PlainPathOf
    NFeeds = 2
    Listings <- TwoFeeds
    DefaultMax = 1
    MaxCount = 1
    CountModulus = 65536
    OnceFlags <- Both
    MatchOnlyFlags <- Both
    XmlFlags <- Both
    Kills = TRUE
    IOFaults = TRUE
SPECIFICATION Spec
PROPERTIES SignalStops OnceStops

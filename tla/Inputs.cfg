SPECIFICATION InputsSpec
CONSTANTS
    Files <- MCFiles
    Garbage <- MCGarbage
    Digits <- MCDigits
    HomeFolder <- MCHome
    DefaultFolder <- MCFolder
    DefaultStatefile <- MCStatefile
    AM_DEFAULT_INTERVAL = 30
    MAX_OPT_LEN = 3
    MAX_PARAM_LEN = 24
    MAXPATHLEN = 5
    IntervalWidth = 256
    Documents <- MCDocuments
    FeedTexts <- MCTexts
    VideoTypes <- MCVideoTypes
    Urls <- MCUrls
    Length <- MCLength
    MAX_LINE_LEN = 6
    Threshold = 2
    MaxEntries = 4
    MaxKills = 2
    Bytes <- MCBytes
    Zero = zero
    Unwritten = unwritten
    MaxLength = 3
    None = None
    short = short
    least = least
    most = most
    over = over
    x = x
    y = y
CHECK_DEADLOCK FALSE
INVARIANTS
    TypesOK
    ReadAsWritten
    ItemsAsListed
    NothingLeaks
    RestartSettles
    OneSpoiltPerKill
    XmlReadWhole
PROPERTY ReaderEnds

SPECIFICATION HelpersSpec
CONSTANTS
    Inputs <- MCInputs
    Char <- MCChar
    Texts <- MCTexts
    Patterns <- MCPatterns
    Captures <- MCCaptures
    MaxWhich = 3
    Fallback = 2
    MaxFilters = 3
    Nodes <- MCNodes
    Elements <- MCElements
    MaxLost = 1
    Strings <- MCStrings
    Values <- MCValues
    Temp <- MCTemp
    Statefile <- MCStatefile
    Settings <- MCSettings
    Urls <- MCUrls
    Garbage <- MCGarbage
    PathMax = 8
    Keys <- MCKeys
    Names <- MCNames
    DescSize = 500
    UrlSize = 128
    None = None
    n1 = n1
    n2 = n2
    n3 = n3
    n4 = n4
    e1 = e1
    e2 = e2
    e3 = e3
    e4 = e4
INVARIANTS
    TypesOK
    TextsRight
    NothingLost
    WritesFit
PROPERTY ListsKeepPromise

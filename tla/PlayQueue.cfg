SPECIFICATION Spec
CONSTANTS
    Songs <- MCSongs
    NoSong = NoSong
    Content <- MCContent
    Broken = {3}
    Fields = {{1, 2}}
    Filters = {{}, {2}}
    Saved <- MCSaved
    Modes = {"None", "One", "All", "AllQueued"}
    HistorySize = 2
    FutureSize = 2
    MaxRetry = 2
    FirstID = 10
    MaxSelected = 1
    MaxQueue = 3
    MaxSteps = 2
INVARIANT TypeOK
PROPERTIES QueueInOrder OnlyHeardWishesGo GhostsOnlyFromTwins ForetoldIsPlayed ActiveListIsHeard HangsExplained RestartKeepsHistory
CHECK_DEADLOCK FALSE

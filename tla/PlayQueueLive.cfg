SPECIFICATION Spec
CONSTANTS
    Songs <- MCSongs
    NoSong = NoSong
    Content <- MCContent
    Broken = {3}
    Fields = {{1, 2}}
    Filters = {{}, {2}}
    Saved <- MCLongSaved
    Modes = {"None", "AllQueued"}
    HistorySize = 1
    FutureSize = 1
    MaxRetry = 2
    FirstID = 10
    MaxSelected = 1
    MaxQueue = 3
    MaxSteps = 2
PROPERTY QueueDrains
CHECK_DEADLOCK FALSE

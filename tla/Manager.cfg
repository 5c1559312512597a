SPECIFICATION Spec
CONSTANTS
    Drives = {1, 2}
    FirstID = 10
    StartLists = 1
    MaxMade = 4
INVARIANTS TypeOK ActiveAlive
PROPERTIES ActiveRowKept ViewRowKept IDsStayUnique
CHECK_DEADLOCK FALSE

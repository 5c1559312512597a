SPECIFICATION Spec
CONSTANTS
    Entries <- MCEntries
    Key <- MCKey
    Filters <- MCFilters
    Loaded <- MCLoaded
    MaxItems = 4
    MaxSelected = 2
    MaxWork = 5
INVARIANTS TypeOK IndexesExact ShufflePlaysAll
PROPERTIES ActiveFollows AscendingSorts DuplicatesGo OnlyTheseDangle
CHECK_DEADLOCK FALSE

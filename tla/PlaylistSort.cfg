SPECIFICATION Spec
CONSTANTS
    Entries <- MCEntries
    Key <- MCKey
    Filters <- MCFilters
    Loaded <- MCLoaded
    MaxItems = 4
    MaxSelected = 2
    MaxWork = 5
PROPERTY DescendingSorts
CHECK_DEADLOCK FALSE

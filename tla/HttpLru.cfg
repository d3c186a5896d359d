SPECIFICATION BoundedSpec
CONSTANTS
    home = home
    about = about
    HOME = HOME
    Page <- Pages
    key <- Keys
    lifetime <- Lifetime
    endings <- Whole
    Never = Never
    TzShift = 0
    MAX_NUM_ENTRIES = 3
    MaxNow = 2
    MaxFetches = 6
PROPERTIES EvictsLeastRecent
CHECK_DEADLOCK FALSE

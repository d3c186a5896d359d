SPECIFICATION Spec
CONSTANTS
    u1 = u1
    u2 = u2
    u3 = u3
    home = home
    about = about
    HOME = HOME
    Page <- Pages
    key <- Keys
    Never = Never
    TzShift = 0
    MAX_NUM_ENTRIES = 2
    MaxNow = 1
    User <- Users
    wants <- Wants
    chunks <- Cuts
    lifetime <- Lifetime
    endings <- Endings
    NFd = 4
    NoReply = NoReply
INVARIANTS
    TypeOK
    DescriptorsMatchList
    EvictionSafe
PROPERTIES
    WebSpec
    UsesCache
    EvictsOneLeastRecent
CHECK_DEADLOCK FALSE

SPECIFICATION FairSpec
CONSTANTS
    u1 = u1
    u2 = u2
    u3 = u3
    home = home
    about = about
    HOME = HOME
    Page <- Pages
    key <- Keys
    Never = Never
    TzShift = 0
    MAX_NUM_ENTRIES = 2
    MaxNow = 1
    User <- TwoUsers
    wants <- Wants
    chunks <- Cuts
    lifetime <- Lifetime
    endings <- Endings
    NFd = 4
    NoReply = NoReply
PROPERTIES
    Accepted
    Answered
CHECK_DEADLOCK FALSE

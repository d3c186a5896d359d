SPECIFICATION Spec
CONSTANTS
    c1 = c1
    c2 = c2
    c3 = c3
    c4 = c4
    long = long
    short = short
    large = large
    missing = missing
    empty = empty
    Peer <- OnePeer
    NoPeer = NoPeer
    File <- Files
    wants <- WantShort
    kind <- Kinds
    blocks <- Sizes
    lastFull <- AllFull
    BLOCK_MOD = 3
    NFd = 2
    NPort = 1
    MaxRetx = 0
    MaxGot = 4
INVARIANTS
    ClosedMeansDone
CHECK_DEADLOCK FALSE

SPECIFICATION Spec
CONSTANTS
    c1 = c1
    c2 = c2
    c3 = c3
    c4 = c4
    long = long
    short = short
    large = large
    missing = missing
    empty = empty
    Peer <- TwoPeers
    NoPeer = NoPeer
    File <- Files
    wants <- WantBoth
    kind <- Kinds
    blocks <- Sizes
    lastFull <- NoneFull
    BLOCK_MOD = 3
    NFd = 4
    NPort = 2
    MaxRetx = 1
    MaxGot = 4
PROPERTIES
    RetransmitRepeats
CHECK_DEADLOCK FALSE

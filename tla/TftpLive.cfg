SPECIFICATION FairSpec
CONSTANTS
    c1 = c1
    c2 = c2
    c3 = c3
    c4 = c4
    long = long
    short = short
    large = large
    missing = missing
    empty = empty
    Peer <- FourPeers
    NoPeer = NoPeer
    File <- Files
    wants <- WantEach
    kind <- Kinds
    blocks <- Sizes
    lastFull <- NoneFull
    BLOCK_MOD = 3
    NFd = 4
    NPort = 2
    MaxRetx = 0
    MaxGot = 4
INVARIANTS
    TimerArmed
    SocketsHaveClients
PROPERTIES
    TransferSpec
    TransferCompletes
CHECK_DEADLOCK FALSE

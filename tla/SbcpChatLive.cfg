SPECIFICATION FairSpec
CONSTANTS
    p1 = p1
    p2 = p2
    p3 = p3
    anna = anna
    elsa = elsa
    Proc <- MCPair
    NoProc = NoProc
    Name <- MCName
    username <- PairNames
    MaxLines <- PairLines
    NFd = 2
    Cap = 1
    max_clients = 1
    NoLine = NoLine
    BufStart = {NoLine}
PROPERTIES
    AdmissionSpec
    BroadcastSpec
    JoinAnswered
    LeaverReclaimed
    EveryoneServed
CHECK_DEADLOCK FALSE

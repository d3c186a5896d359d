SPECIFICATION FairSpec
CONSTANTS
    p1 = p1
    p2 = p2
    p3 = p3
    anna = anna
    elsa = elsa
    Proc <- MCPair
    NoProc = NoProc
    Name <- MCName
    username <- PairNames
    MaxLines <- Typist
    NFd = 2
    Cap = 2
    max_clients = 2
    NoLine = NoLine
    BufStart = {NoLine}
PROPERTIES
    LinesReachEveryone
CHECK_DEADLOCK FALSE

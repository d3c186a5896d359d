SPECIFICATION Spec
CONSTANTS
    p1 = p1
    p2 = p2
    p3 = p3
    anna = anna
    elsa = elsa
    Proc <- MCProc
    NoProc = NoProc
    Name <- MCName
    username <- MCUsername
    MaxLines <- TwoLines
    NFd = 2
    Cap = 2
    max_clients = 2
    NoLine = NoLine
    BufStart = {NoLine}
INVARIANTS
    TypeOK
    SocketAccounting
    OneUserPerName
    RosterSound
    TrueSenderUntilLeave
PROPERTIES
    AdmissionSpec
    BroadcastSpec
CHECK_DEADLOCK FALSE

CONSTANTS
    Conn = {c1}
    Http = {h1}
    Xdp = {x1}
    QueueSize = 1
    EventChSize = 1
    InsertQSize = 1
    BatchMax = 2
    Workers = 1
    MaxFaults = 1
SPECIFICATION FairSpec
PROPERTIES RunReturns ImplementsLedger

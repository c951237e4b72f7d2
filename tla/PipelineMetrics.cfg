CONSTANTS
    Conn = {c1}
    Http = {}
    Xdp = {}
    QueueSize = 1
    EventChSize = 1
    InsertQSize = 1
    BatchMax = 2
    Workers = 1
    MaxFaults = 0
SPECIFICATION Spec
INVARIANTS MetricsFlushed

CONSTANTS
    Name = {"a", "b"}
    Secret = {"s"}
    SessionLines = 3
    LoginRounds = 2
    SshTries = 2
    StartupMessages = 2
    SipMessages = 2
    Conn = {"c1", "c2"}
    Kinds <- MCKinds
    MaxConns = 1
    ConnDeadline = 2
    VncWindow = 2
    HoldMax = 2
    LastArrival = 3
    MaxTime = 7
    MaxPanics = 1
    Src = {"s1", "s2"}
    Size = {1, 2}
    ReplyBurst = 1
    ReplyWindow = 2
    LimiterMax = 2
    UdpMaxTime = 3
    MaxDatagrams = 4
    Addr = {"a"}
    Listened = {"listened", "failed"}
    Bound = {"listened"}
    OtherPorts = {"other"}
    MgmtPorts = {"mgmt"}
    Packets <- MCPackets
    PerfMax = 1
    ChMax = 1
    KMaxTime = 1
    MaxEdits = 3
    Port = {"p1", "p2", "p3"}
    ScanPortThreshold = 2
    ScanWindow = 2
    ScanDisplayDuration = 3
    MaxSkew = 1
    ScanMaxTime = 6
SPECIFICATION FrontSpec
\* The server may stop, and the bounds end the datagrams, the packets and the clocks.
CHECK_DEADLOCK FALSE
INVARIANTS
    SlotsExact CapturedOnce   NoAmplification ReplyRate
    ReportedOnce 
PROPERTIES
     DropsJustified ObservedReported DetectionExact

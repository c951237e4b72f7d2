CONSTANTS
    Caster = {c1, c2}
    Sub = {s1}
    HistorySize = 2
    SubscriberBuffer = 1
    MaxSeeds = 1
    MaxEvents = 3
    InsertQSize = 2
    MaxReplay = 2
    Ip = {"a", "b", "local"}
    Public = {"a", "b"}
    CacheTTL = 1
    StoreTTL = 3
    MaxCache = 1
    QueueSize = 1
    ResMaxTime = 3
    MaxRestarts = 1
    Looker = {"l"}
    Versions = 2
    Grace = 2
    LookupMax = 1
    MaxFaults = 2
    GeoMaxTime = 3
    LineSize = {1, 2, 4}
    MaxBytes = 3
    MaxWrites = 6
    MaxIOFaults = 2
    Worker = {"w1", "w2"}
    Visitor = {"a", "b"}
    Hours = 2
    MaxCaptured = 2
    MaxRuns = 2
    Listener = {"443", "8443"}
    Id = {1, 3}
    MaxCrashes = 2
    Tracer = {"t1", "t2"}
    MaxTraces = 1
    MaxHops = 3
    HopBuffer = 2
    DrainMax = 3
    ShutdownMax = 1
    MaxTable = 3
    MaxTokens = 3
    DefaultLimit = 2
    MaxLimit = 2
    DstPort = {"22", "80"}
    ObservedPort = {"80"}
    PauseMax = 2
    MaxFrames = 3
    PageMaxTime = 2
    MaxBreaks = 2
    MaxBanFlips = 3
    Call = {"c1", "c2"}
SPECIFICATION BackSpec
\* The process ends, the exporter may be stuck, and the bounds end the events, the clocks,
\* the faults and the tables.
CHECK_DEADLOCK FALSE
INVARIANTS
    SnapshotIsTail EachEventOnce  QueuedExact NoClosedReader 
    CountedExactly UniqueExact SchemaMatchesVersion ExitAfterRun
    CampaignsExact  RankingsAgree MetricsAddUp OneStream ShownExact
PROPERTIES
    FileCatchesUp BansGuarded TraceEnds ProcessExits PanelConverges

CONSTANTS
    Key = {k1}
    Worker = {w1}
    Cooldown = 2
    TicksPerSecond = 2
    EbpfActive = FALSE
    MaxTime = 3
    MaxBans = 2
    MaxCrashes = 0
    MaxFaults = 0
SPECIFICATION Spec
INVARIANTS BansArePersisted

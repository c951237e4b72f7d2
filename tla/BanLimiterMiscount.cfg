CONSTANTS
    Key = {k1}
    Worker = {w1, w2}
    Cooldown = 2
    TicksPerSecond = 2
    EbpfActive = FALSE
    MaxTime = 2
    MaxBans = 2
    MaxCrashes = 0
    MaxFaults = 0
SPECIFICATION Spec
INVARIANTS OnBanMeansBan

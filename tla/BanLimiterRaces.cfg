\* Two callers race, without the kernel map; a crash and a restart.
CONSTANTS
    Key = {k1}
    Worker = {w1, w2}
    Cooldown = 2
    TicksPerSecond = 2
    EbpfActive = FALSE
    MaxTime = 1
    MaxBans = 2
    MaxCrashes = 1
    MaxFaults = 0
SPECIFICATION FairSpec
PROPERTIES EveryBanEnds

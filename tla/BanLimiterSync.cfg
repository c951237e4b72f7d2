CONSTANTS
    Key = {k1}
    Worker = {w1}
    Cooldown = 2
    TicksPerSecond = 2
    EbpfActive = TRUE
    MaxTime = 3
    MaxBans = 2
    MaxCrashes = 1
    MaxFaults = 1
SPECIFICATION Spec
INVARIANTS SyncedWhenQuiet
 

\* The shipped proportions: the volume rule is reached before the flood rule.
CONSTANTS
    RateThreshold = 1
    SustainWindow = 3
    VolumeThreshold = 3
    VolumeWindow = 3
    GCMaxAge = 4
    Second = 1
    MaxTime = 9
    MaxEvents = 6
    MaxPassed = 2
SPECIFICATION Spec
INVARIANTS FloodBanUnreachable
PROPERTIES VolumeBanExact

CONSTANTS
    Port = {p1, p2, p3}
    ScanPortThreshold = 2
    ScanWindow = 2
    ScanDisplayDuration = 3
    MaxSkew = 0
    ScanMaxTime = 8
SPECIFICATION ScanFairSpec
PROPERTIES IdleEntryEvicted

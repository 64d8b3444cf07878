CONSTANTS
    MaxMatches = 3
    PageSize = 1
    NearestOnly = 3
    MaxScanDeaths = 1
    MaxMoved = 0
SPECIFICATION FanoutSpec
INVARIANTS FanoutReachesEveryone
CHECK_DEADLOCK FALSE

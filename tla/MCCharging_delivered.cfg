CONSTANTS
    c1 = c1
    c2 = c2
    w1 = w1
    w2 = w2
    CheckIns <- TwoCheckIns
    Workers <- TwoWorkers
    NoWorker = NoWorker
    NoCheckIn = NoCheckIn
    Prices = {1}
    LaunchPrice = 2
    Launch = 1
    Grace = 1
    Attempts = 1
    MaxStalls = 1
    SweepBatch = 1
    MaxTime = 2
    MaxRules = 1
    MaxFailures = 1
    MaxLapses = 1
SPECIFICATION FairSpec
CHECK_DEADLOCK FALSE
PROPERTIES OwedIsCharged

CONSTANTS
    c1 = c1
    c2 = c2
    w1 = w1
    w2 = w2
    CheckIns <- OneCheckIn
    Workers <- TwoWorkers
    NoWorker = NoWorker
    NoCheckIn = NoCheckIn
    Prices = {0, 1, 2}
    LaunchPrice = 2
    Launch = 1
    Grace = 1
    Attempts = 2
    MaxStalls = 1
    SweepBatch = 1
    MaxTime = 5
    MaxRules = 2
    MaxFailures = 2
    MaxLapses = 2
SPECIFICATION Spec
CHECK_DEADLOCK FALSE
SYMMETRY Symmetry
INVARIANTS
    ChargedOnce
    ChargedAtArrivalPrice
    CompletedMeansSettled

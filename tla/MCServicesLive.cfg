CONSTANTS
    c1 = c1
    c2 = c2
    r1 = r1
    r2 = r2
    p1 = p1
    p2 = p2
    Candidates = {c1, c2}
    Requests = {r1}
    Worker = Worker
    Nobody = Nobody
    SlotIds = {1}
    InitialSlots = 1
    Handlers = {"apply", "markPresent"}
    Capacity = 2
    MaxCrashes = 1
    Orders = {1}
    Payments = {p1, p2}
    TopUpCalls = {r1}
    NoPayment = NoPayment
    MaxDied = 1
    Abouts = {"message"}
    AlertRuns = {r1, r2}
    NoRun = NoRun
    AlertAttempts = 1
    MaxVersion = 1
    MaxSuspensions = 1
    MaxAlertFaults = 1
    Screens = {r1}
    Publishers = {r1, r2}
    MaxArrivals = 2
    MaxSocketDrops = 1
SPECIFICATION ServicesSpec
PROPERTIES
    AbsenteesAreMarked
    MoneyTakenIsCredited
    MessageIsTried
    EveryScreenCatchesUp
CHECK_DEADLOCK FALSE

CONSTANTS
    c1 = c1
    c2 = c2
    r1 = r1
    Candidates = {c1, c2}
    Requests = {r1}
    Worker = Worker
    Nobody = Nobody
    SlotIds = {1, 2, 3}
    InitialSlots = 2
    Handlers = {"apply", "release", "scan"}
    Capacity = 1
    MaxCrashes = 0
    MaxShift = 1
    MaxMoves = 1
SPECIFICATION RescheduleSpec
SYMMETRY Symmetry
INVARIANTS NeverOverCapacity

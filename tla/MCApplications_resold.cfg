CONSTANTS
    c1 = c1
    c2 = c2
    r1 = r1
    r2 = r2
    Candidates = {c1, c2}
    Requests = {r1, r2}
    Worker = Worker
    Nobody = Nobody
    SlotIds <- TwoSlots
    InitialSlots = 2
    Handlers <- RebookHandlers
    Capacity = 1
    MaxCrashes = 0
SPECIFICATION Spec
SYMMETRY Symmetry
INVARIANTS LastSeatSoldOnce

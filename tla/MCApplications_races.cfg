CONSTANTS
    c1 = c1
    c2 = c2
    r1 = r1
    r2 = r2
    Candidates = {c1}
    Requests = {r1, r2}
    Worker = Worker
    Nobody = Nobody
    SlotIds <- OneSlot
    InitialSlots = 1
    Handlers <- AllHandlers
    Capacity = 1
    MaxCrashes = 0
SPECIFICATION Spec
SYMMETRY Symmetry
INVARIANTS RowsFitState
PROPERTIES ImplementsLifecycle 

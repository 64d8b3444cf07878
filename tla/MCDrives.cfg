CONSTANTS
    c1 = c1
    c2 = c2
    r1 = r1
    r2 = r2
    g1 = g1
    Candidates = {c1, c2}
    Requests = {r1}
    Worker = Worker
    Nobody = Nobody
    SlotIds = {1, 2, 3}
    InitialSlots = 2
    Handlers = {"apply", "release", "scan"}
    Capacity = 1
    MaxCrashes = 0
    MaxShift = 1
    MaxMoves = 1
    Applying = {c1, c2}
    Desks = {g1}
    Outsider = Outsider
    TTL = 4
    Rotate = 1
    Retry = 1
    ScanGrace = 2
    OpensAt = 1
    EndsAt = 5
    CodeCalls = {r1, r2}
    MaxMoment = 7
    Places = {p1, p2}
    NoPlace = NoPlace
    FormTabs = {c1, c2}
    FormCalls = {r1, r2}
    QuestionIds = {1}
    MaxQuestions = 1
    MaxEdits = 3
    Listed = {1, 2}
    Away <- AwayFrom
    Radii = {1, 2}
    SearchPage = 1
    SearchCalls = {r1, r2}
SPECIFICATION DrivesSpec
SYMMETRY Symmetry
INVARIANTS
    DrivesTypeOK
    BookingsSurvive
    
    
    
    ListIsOneSearch
PROPERTIES
    PlacesMoveWithTheirSpot
CHECK_DEADLOCK FALSE

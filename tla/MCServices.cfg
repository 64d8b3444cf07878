CONSTANTS
    d1 = d1
    r1 = r1
    r2 = r2
    u1 = u1
    u2 = u2
    u3 = u3
    g1 = g1
    g2 = g2
    Drives = {d1}
    Requests = {r1, r2}
    NoDrive = NoDrive
    Pages = {g1, g2}
    Browsers = {g1, g2}
    BrowserOf <- OwnBrowser
    OtpTries = 2
    MaxTokens = 2
    MaxCodes = 1
    MaxLost = 1
    Persons = {u1, u2, u3}
    CompanyDrives = {d1}
    Owners0 = {u1, u2}
    PeopleRequests = {r1, r2}
    NoOne = NoOne
    MaxAsked = 2
    Orders = {1}
    Payments = {u1, u2}
    TopUpCalls = {r1, r2}
    NoPayment = NoPayment
    MaxDied = 1
    Abouts = {"moved"}
    AlertRuns = {r1, r2}
    NoRun = NoRun
    AlertAttempts = 2
    MaxVersion = 1
    MaxSuspensions = 1
    MaxAlertFaults = 1
    Phones = {u1, u2}
    Tabs = {g1}
    NoUser = NoUser
    MaxScans = 2
    MaxSignIns = 2
    MaxDrops = 1
    MaxIntros = 2
    VoiceAttempts = 1
    MaxVoiceDeaths = 1
    RetentionDays = 1
    CorrectionDays = 1
    AskingDays = 1
    LastDay = 1
    Recorders = {r1, r2}
    ThreadCalls = {r1, r2}
    MaxMessages = 2
    Screens = {g1}
    Publishers = {r1, r2}
    MaxArrivals = 2
    MaxSocketDrops = 1
    TrustCalls = {r1, r2}
    Accounts = {u3}
    Anybody = Anybody
    MaxSubmissions = 2
    MaxReports = 2
    AnonymousCap = 1
    MaxMatches = 3
    PageSize = 1
    NearestOnly = 2
    MaxScanDeaths = 1
    MaxMoved = 2
    Limit = 2
    Window = 2
    ScanCalls = {r1, r2}
    LastSecond = 3
    MostInLog = 2
SPECIFICATION ServicesSpec
SYMMETRY Symmetry
INVARIANTS
    ServicesTypeOK
    SuspensionsCanBeLifted
    TriesBounded
    ReplayMeansLostAnswer
    CompanyKeepsAnOwner
    NothingLeftBehind
    CreditsMatchOrders
    NoSecondCopy
    HeldAgainstOnlyIfTold
    
    
    FactsFit
    ReadMeansSeen
    LeaversDoNotWatch
    ReviewsAnswerWhatWasRead
    PagesSkipNobody
    LimitsHold

    
    
CHECK_DEADLOCK FALSE

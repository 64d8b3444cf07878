CONSTANTS
    Phones = {u1, u2}
    Tabs = {t1, t2}
    NoUser = NoUser
    MaxScans = 1
    MaxSignIns = 2
    MaxDrops = 1
SPECIFICATION OfflineSpec
INVARIANTS SentAsWhoScanned
CHECK_DEADLOCK FALSE

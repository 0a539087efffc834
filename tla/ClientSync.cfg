SPECIFICATION SyncSpec
CONSTANTS
    c1 = c1  c2 = c2  n1 = n1  n2 = n2
    a1 = a1  b1 = b1  b2 = b2  x1 = x1  old = old  stray = stray
    Client = {c1, c2}
    ManualId = {}
    Request = {r1}
    Node = {n1, n2}
    Tag <- MCTag
    External = External
    NodeOf <- MCNodeOf
    DefaultTags <- MCDefaultTags
    DefaultAbroad = None
    Salted = FALSE
    OldSub = {old, stray}
    Announcement = {}
    InitialData <- MCInitialData
    MaxCrashes = 0
    MaxSyncs = 2
    None = None  NoRecord = NoRecord  Absent = Absent  NoSnapshot = NoSnapshot Lost = Lost
INVARIANTS
    SyncTypeOK SyncedMeansAgreed SyncedOnceIsEnough AnsweredMeansAttached
PROPERTIES SyncTouchesOnlyItsOwn
CHECK_DEADLOCK FALSE

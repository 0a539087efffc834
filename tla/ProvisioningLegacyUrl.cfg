SPECIFICATION Spec
CONSTANTS
    c1 = c1  c2 = c2  m1 = m1  n1 = n1  n2 = n2
    a1 = a1  b1 = b1  b2 = b2  x1 = x1  old = old
    Client = {c1}
    ManualId = {}
    Request = {r1}
    Node = {n1, n2}
    Tag <- MCTag
    External = External
    NodeOf <- MCNodeOf
    DefaultTags <- MCDefaultTags
    DefaultAbroad <- MCDefaultAbroad
    Salted = TRUE
    OldSub = {old}
    Announcement = {}
    InitialData <- MigratedData
    MaxCrashes = 0
    None = None  NoRecord = NoRecord  Absent = Absent  NoSnapshot = NoSnapshot Lost = Lost
PROPERTIES PublicUrlKept
CHECK_DEADLOCK FALSE

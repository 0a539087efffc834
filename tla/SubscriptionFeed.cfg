SPECIFICATION FairFeedSpec
CONSTANTS
    c1 = c1  m1 = m1  n1 = n1  n2 = n2
    a1 = a1  b1 = b1  b2 = b2  x1 = x1  old = old  sh = sh  p = p  q = q
    Client = {c1, m1}
    ManualId = {m1}
    Request = {r1}
    Node = {n1, n2}
    Tag <- MCTag
    External = External
    NodeOf <- MCNodeOf
    DefaultTags <- MCDefaultTags
    DefaultAbroad <- MCDefaultAbroad
    Salted = TRUE
    OldSub = {old}
    Announcement = {hi}
    InitialData <- MCInitialData
    MaxCrashes = 1
    None = None  NoRecord = NoRecord  Absent = Absent  NoSnapshot = NoSnapshot Lost = Lost
    Shared = {sh}
    SharedOn <- MCSharedOn
    FallbackOf <- MCFallbackOf
    Untitled = Untitled
    Title = {p, q, Untitled}
    InitialTitle <- MCInitialTitle
    Retitled = {b1}
    MaxRenames = 1
INVARIANTS AnnouncementKept FeedTypeOK AnsweredMeansServed LinksBelong
PROPERTIES FeedEnds
CHECK_DEADLOCK FALSE

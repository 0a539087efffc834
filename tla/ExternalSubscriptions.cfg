SPECIFICATION FairSpec
CONSTANTS
    f1 = f1
    f2 = f2
    u1 = u1
    u2 = u2
    dup = dup
    other = other
    Name = {f1, f2}
    Url = {u1, u2}
    UrlOf <- MCUrlOf
    Label = {1, 2, 3}
    Word = {dup, other, 2}
    Words <- MCWords
    Uri = {1, 2, 3}
    Passes <- MCPasses
    Interval <- MCInterval
    Bodies <- MCBodies
    MaxEvents = 2
    Nothing = Nothing
INVARIANTS TypeOK SlugsRefer
PROPERTIES SlugsStable KnownUntilAnswered FeedsArrive

SPECIFICATION FairSpec
CONSTANTS
    Event = {e1, e2, e3, e4}
    NoRow = NoRow
    Client = {c1}
    MaxPage = 4
    MaxLimit = 2
    DefaultLimit = 2
    PageParams = {0, 2, 5}
    LimitParams = {1, 3, 401}
    MaxTime = 2
INVARIANTS
    TypeOK
    WalkSeesAll
PROPERTIES
    WalkEnds

SPECIFICATION Spec
CONSTANTS
    User = {u1}
    Token = {t1, t2, t3}
    Req = {r1, r2}
    NoToken = NoToken
    NoUser = NoUser
    NoRow = NoRow
    RefreshTTL = 1
    MaxTime = 2
    MaxVersion = 2
    MaxFaults = 1
SYMMETRY Symmetry
VIEW Seen
INVARIANTS
    OneLivePerSession
    SingleSuccessor
    MintedInTime
    BlacklistComplete
PROPERTIES
    ImplementsChains

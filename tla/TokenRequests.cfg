SPECIFICATION AccessSpec
CONSTANTS
    User = {u1}
    Token = {t1, t2}
    Req = {r1, r2}
    NoToken = NoToken
    NoUser = NoUser
    NoRow = NoRow
    RefreshTTL = 1
    MaxTime = 2
    MaxVersion = 2
    MaxFaults = 1
    AccessTTL = 1
    MaxFlight = 1
SYMMETRY Symmetry
INVARIANTS
    BlacklistOnlyRevoked
    FewStaleSessions
    AccessFades
PROPERTIES
    LogoutRevokes

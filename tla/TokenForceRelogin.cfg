SPECIFICATION Spec
CONSTANTS
    User = {u1}
    Token = {t1, t2, t3}
    Req = {r1, r2}
    NoToken = NoToken
    NoUser = NoUser
    NoRow = NoRow
    RefreshTTL = 1
    MaxTime = 1
    MaxVersion = 2
    MaxFaults = 0
SYMMETRY Symmetry
INVARIANTS
    ForceRelogin

SPECIFICATION Spec
CONSTANTS
    User = {u1}
    Role = {admin}
    Char = {"l", "c", "r", "w", ":", "*"}
    Grant <- MCGrant
    Wanted <- MCWanted
    Req = {r1, r2}
    None = None
    AccessTTL = 2
    MaxFlight = 1
    MaxGrant = 1
    MaxFaults = 1
SYMMETRY Symmetry
INVARIANTS
    RevokedRoleFades
PROPERTIES
    LetThroughIsBacked

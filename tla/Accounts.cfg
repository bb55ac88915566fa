SPECIFICATION Spec
CONSTANTS
    User = {u1, u2, u3}
    Address = {a1, a2}
    Req = {r1, r2, r3}
    None = None
    MaxFaults = 1
SYMMETRY Symmetry
INVARIANTS
    OneAccountPerAddress
    WelcomedHaveRole
PROPERTIES
    ConflictIsReal
    RacesAreConflicts

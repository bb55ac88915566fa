SPECIFICATION FairSpec
CONSTANTS
    Client = {c1}
    Address = Address
    Limit = 2
    Window = 3
    MaxFaults = 1
INVARIANTS
    TypeOK
    BurstBound
PROPERTIES
    RejectedOnlyOverLimit
    NeverLockedOut

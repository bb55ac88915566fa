SPECIFICATION Spec
CONSTANTS
    Event = {e1, e2}
    Model = {m1, m2}
    AnyModel = AnyModel
    Filter = {m1}
    Latency = {0, 1}
    Reader = {r1, r2}
    NoRow = NoRow
    NoEntry = NoEntry
    TTL = 1
    MaxTime = 1
    MaxFaults = 1
SYMMETRY Symmetry
INVARIANTS
    StaleAtMostTTL
    PartsInOrder

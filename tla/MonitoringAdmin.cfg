SPECIFICATION Spec
CONSTANTS
    Event = {e1, e2}
    Model = {m1}
    AnyModel = AnyModel
    Filter = {AnyModel}
    Latency = {0, 1}
    Reader = {r1}
    NoRow = NoRow
    NoEntry = NoEntry
    TTL = 1
    MaxTime = 2
    MaxFaults = 0
SYMMETRY Symmetry
INVARIANTS
    AdminIsAnswered

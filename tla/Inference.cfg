SPECIFICATION Spec
CONSTANTS
    User = {u1, u2}
    Session = {s1, s2}
    Event = {e1}
    Model = {m1, m2}
    Req = {r1, r2}
    None = None
    MaxComposite = 1
    MaxFaults = 1
SYMMETRY Symmetry
INVARIANTS
    RecordedByOwner
    OneScoreAcknowledged
    CountersFollow
PROPERTIES
    FirstScoreStands

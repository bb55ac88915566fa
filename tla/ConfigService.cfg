SPECIFICATION FairServiceSpec
CONSTANTS
    Req = {r1, r2}
    MaxConns = 1
    MaxCalls = 2
    Grace = 1
    Form = {f1, f2}
    Shipped = shipped
    Default = default
    NoTable = no_table
    None = none
    MaxFaults = 1
INVARIANTS
    GraceIsGiven
    OwnUnlessOvertaken
    LastSaveStands
    SavedIsAcknowledged
PROPERTIES
    SignalEnds
    RequestsEnd

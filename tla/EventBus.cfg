SPECIFICATION FairBusSpec
CONSTANTS
    Handler = {h1, h2}
    Publisher = {p1, p2}
    Nobody = Nobody
INVARIANTS
    BusTypeOK
    PublishWaitsForAll
    NoSubscriptionLost
PROPERTIES
    PublishReturns

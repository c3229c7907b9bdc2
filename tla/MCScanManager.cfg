SPECIFICATION OneFreeSpec
CONSTANTS
    MaxAps = 1
    Blocks = {b1, b2, b3}
    Null = Null
    ssid_configured = TRUE
INVARIANTS
    TypeOK
    NoLeak
    ReadsAreSafe
    PublishedIsFilled
    EventsBounded
    ReadyIsTrue
PROPERTIES
    LookupIsFollowedByScan
    Reconnects

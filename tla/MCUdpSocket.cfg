SPECIFICATION FairSpec
CONSTANT
    MaxSockets = 2
INVARIANTS
    TypeOK
    NoSocketLeaks
    PublishedWorks
PROPERTY
    Reconnects

SPECIFICATION Spec
CONSTANTS
    BufferCount = 3
    QueueLength = 1
    MaxReplies = 0
    LTFrames <- Lookups
    IPFrames <- Datagrams
PROPERTY
    FetchedIsZeroed

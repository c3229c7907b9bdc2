SPECIFICATION PromptFairSpec
CONSTANTS
    BufferCount = 4
    QueueLength = 1
    MaxReplies = 1
    LTFrames <- Lookups
    IPFrames <- Lookups
PROPERTIES
    AcceptedIsSent
    ReplyIsSent
    DatagramIsWritten
    StarvationEnds

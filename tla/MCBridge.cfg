SPECIFICATION Spec
CONSTANTS
    BufferCount = 2
    QueueLength = 1
    MaxReplies = 2
    LTFrames <- LTTraffic
    IPFrames <- IPTraffic
INVARIANTS
    TypeOK
    Conservation
    LearnedDestinations
PROPERTIES
    OhNoMeansUnderflow
    ImplementsPool
    ImplementsChannel

SPECIFICATION Spec
CONSTANT
    LookupType <- MCLookupType
    SetAp <- MCSetAp
    Contents <- MCContents
    Datagrams <- MCDatagrams
    AccessPoints <- MCAccessPoints
    PacketSize = 31
    MaxSent = 2
    MaxLost = 1
INVARIANTS
    FramesArrive
    NoRemainsWritten

SPECIFICATION Spec
CONSTANTS
    MaskBytes = 2
    Nodes <- MCNodes
    HandshakeLimit = 2
INVARIANTS
    TypeOK
    Lockstep
    MaskInStep
    AliveIsTold

SPECIFICATION FairSpec
CONSTANT
    Typed <- MCTyped
INVARIANTS
    TypeOK
    NeverMixed
PROPERTIES
    RecoveryIsOwed
    BootUsesSaved
    PressIsAnswered

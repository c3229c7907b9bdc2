SPECIFICATION Spec
CONSTANTS
    Nodes <- MCNodes
    FreshCutoff = 4
    MaskCutoff = 2
    MaxTime = 7
INVARIANTS
    TypeOK
    NoFalseFresh
    NoFalseStale
    MaskIsForwarded

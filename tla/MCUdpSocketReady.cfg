SPECIFICATION Spec
CONSTANT
    MaxSockets = 2
INVARIANT
    ReadyMeansConfigured

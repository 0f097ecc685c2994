SPECIFICATION Spec
CONSTANTS
    a1 = a1
    a2 = a2
    extra = extra
    Adapters <- TwoAdapters
    Required <- TwoAdapters
    HasMapper = FALSE
    MaxGen = 2
    MaxTime = 2
SYMMETRY RequiredSymmetry
INVARIANT LastKnownReconciledAsDocumented

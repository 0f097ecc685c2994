SPECIFICATION Spec
CONSTANTS
    a1 = a1
    a2 = a2
    extra = extra
    Adapters <- WithUnregistered
    Required <- OneRequired
    HasMapper = FALSE
    MaxGen = 2
    MaxTime = 2
INVARIANT FinalizingNotReconciled

SPECIFICATION FairSpec
CONSTANTS
    t1 = t1
    t2 = t2
    t3 = t3
    none = none
    NoOwner = none
    Resources <- R3
    Owner <- LockOwner
    Kind <- LockKind
    Targets <- LockTargets
    Txs = {t1, t2, t3}
    Requests <- LockRequests
INVARIANTS
    TreeLocksNeverDeadlock
    ReferencesHold
PROPERTIES
    StepsOfLifecycle
    EveryRequestEnds

SPECIFICATION Spec
CONSTANTS
    Pods = {p1, p2, p3}
    N = 3
    PoolSize = 2
INVARIANTS
    TypeOK
    OneAtATime
    SchemaIsAPrefix
    DoneMeansMigrated
PROPERTIES
    EventuallyMigrated

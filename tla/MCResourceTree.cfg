SPECIFICATION FairSpec
CONSTANTS
    a1 = a1
    a2 = a2
    none = none
    user = user
    adapter = adapter
    acme = acme
    globex = globex
    NoOwner = none
    Resources <- R4
    Adapters <- TwoAdapters
    Owner <- TreeOwner
    Kind <- TreeKind
    Restricted <- TreeRestrict
    Required <- TreeRequired
    Targets <- None4
    MinRefs <- Zero4
    MaxRefs <- Zero4
    Callers <- OneUser
    Systems = {}
    Scope <- Unscoped
INVARIANTS
    TypeOK
    NothingAliveUnderFinalizing
PROPERTIES
    AdaptersFinishFirst
    ImplementsLifecycle
    DeletionCompletes

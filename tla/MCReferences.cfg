SPECIFICATION Spec
CONSTANTS
    a1 = a1
    a2 = a2
    none = none
    user = user
    adapter = adapter
    acme = acme
    globex = globex
    NoOwner = none
    Resources <- R5
    Adapters <- OneAdapter
    Owner <- RefOwner
    Kind <- RefKind
    Restricted <- RefRestrict
    Required <- RefRequired
    Targets <- RefTargets
    MinRefs <- RefMin
    MaxRefs <- RefMax
    Callers <- Orgs
    Systems <- Adapted
    Scope <- OrgScope
INVARIANTS
    NoOrphans
    TenantsApart
    ReferencesIntact
    ReferenceCountsHold

SPECIFICATION Spec
CONSTANTS
    r1 = r1
    r2 = r2
    w1 = w1
    w2 = w2
    b1 = b1
    b2 = b2
    Resources <- TwoResources
    Workers <- TwoWorkers
    Bodies <- TwoBodies
    MaxGen = 3
SYMMETRY CacheSymmetry
INVARIANT MappedFromCommittedResource

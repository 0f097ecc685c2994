------------------------ MODULE MCConditionMapperCache ------------------------
(* TLC instances of ConditionMapperCache. *)
EXTENDS ConditionMapperCache, TLC

CONSTANTS r1, r2, w1, w2, b1, b2

TwoResources == {r1, r2}
TwoWorkers   == {w1, w2}
TwoBodies    == {b1, b2}

CacheSymmetry == Permutations(TwoResources) \cup Permutations(TwoWorkers) \cup Permutations(TwoBodies)
=============================================================================

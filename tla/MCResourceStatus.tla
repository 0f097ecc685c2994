--------------------------- MODULE MCResourceStatus ---------------------------
(* TLC instances of ResourceStatus. *)
EXTENDS ResourceStatus, TLC

CONSTANTS a1, a2, extra

TwoAdapters == {a1, a2}
OneRequired == {a1}
WithUnregistered == {a1, extra}

\* The required adapters are interchangeable.
RequiredSymmetry == Permutations({a1, a2})
=============================================================================

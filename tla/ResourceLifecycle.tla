--------------------------- MODULE ResourceLifecycle ---------------------------
(***************************************************************************)
(* What the API promises about the life of resources that own each other,  *)
(* whatever its transactions, policies, adapters and callers do: four      *)
(* operations, each of which leaves an owner in place for everything that  *)
(* is in the table and nothing alive under what is being deleted.          *)
(* ResourceTree is shown to implement it.                                  *)
(***************************************************************************)
CONSTANTS
    Resources,  \* ids
    NoOwner,    \* the owner of a root resource
    Owner       \* Owner[r]: r's owner

VARIABLE phase  \* "absent", "active", "finalizing" or "gone"

InTable(r) == phase[r] \in {"active", "finalizing"}

Init == phase = [r \in Resources |-> "absent"]

\* A resource is born under a living owner, or is a root.
Appear(r) ==
    /\ phase[r] = "absent"
    /\ Owner[r] # NoOwner => phase[Owner[r]] = "active"
    /\ phase' = [phase EXCEPT ![r] = "active"]

\* A request to delete takes a set of resources with all that is alive below
\* them; some wait for their adapters (Soft), the others go at once and leave
\* nothing behind.
Retire(S, Soft) ==
    /\ \A x \in S : InTable(x)
    /\ \A c \in Resources :
          Owner[c] \in S =>
             /\ phase[c] = "active" => c \in S
             /\ Owner[c] \notin Soft /\ InTable(c) => c \in S \ Soft
    /\ phase' = [x \in Resources |->
                   IF x \in Soft THEN "finalizing" ELSE IF x \in S THEN "gone" ELSE phase[x]]

\* Whatever is waiting goes in the end, alone and without children, or with
\* everything below it.
Remove(S) ==
    /\ \A x \in S : InTable(x)
    /\ \E r \in S : phase[r] = "finalizing"
    /\ \A c \in Resources : InTable(c) /\ Owner[c] \in S => c \in S
    /\ phase' = [x \in Resources |-> IF x \in S THEN "gone" ELSE phase[x]]

Next ==
    \/ \E r \in Resources : Appear(r)
    \/ \E S \in SUBSET Resources :
         \/ Remove(S)
         \/ \E Soft \in SUBSET S : Retire(S, Soft)

Spec == Init /\ [][Next]_phase
=============================================================================

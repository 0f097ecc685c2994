------------------------------ MODULE Registry ------------------------------
(***************************************************************************)
(* The entity registry at start-up (pkg/registry): the descriptors of the  *)
(* configuration are registered in their order, then checked in loops over *)
(* a Go map, whose order differs from run to run, then searched depth      *)
(* first for cycles of required references, and at last turned into        *)
(* routes.  The first defect found ends the process; which one that is     *)
(* depends on the map's order, whether there is one must not.              *)
(*                                                                         *)
(* A descriptor is a record:                                               *)
(*   kind, plural, parent   names, or Unset                                *)
(*   refs                   sequence of [type, target, min, max]           *)
(*   minLen, maxLen         limits of the resource's name, 0 when unset    *)
(*   conds                  sequence of [type, compiles]: mapping rules,   *)
(*                          and whether CEL accepts their expressions      *)
(*   adapters               required adapters                              *)
(*   schema, needSchema     OpenAPI component, and whether it has to exist *)
(***************************************************************************)
EXTENDS Integers, Sequences, FiniteSets, TLC

CONSTANTS Configs,            \* entity lists the configuration may hold
          ConditionType(_),   \* MapAdapterToConditionType: not one to one
          TooLong,            \* condition types of more than 100 bytes
          Schemas             \* components of the OpenAPI document

(* "*" stands for a path parameter and is nobody's plural.                 *)
ASSUME ConfigsAssumption ==
    \A list \in Configs :
      /\ Len(list) \in Nat /\ DOMAIN list = 1 .. Len(list)
      /\ \A i \in DOMAIN list : LET d == list[i] IN
           /\ d.plural # "*"
           /\ d.minLen \in Int /\ d.maxLen \in Int
           /\ Len(d.refs) \in Nat /\ DOMAIN d.refs = 1 .. Len(d.refs)
           /\ \A j \in DOMAIN d.refs : d.refs[j].min \in Int /\ d.refs[j].max \in Int

VARIABLES config,       \* the entity list being loaded
          stage,        \* where start-up is
          descriptors,  \* the global map: kind -> descriptor
          checked,      \* kinds the current loop over the map has visited
          colour,       \* of each kind in the search: 0 new, 1 open, 2 done
          path          \* the search's stack: [kind, next reference]

registryVars == <<config, stage, descriptors, checked, colour, path>>

Kinds == DOMAIN descriptors

Unset == ""       \* the Go zero value of a name
Elements(s) == {s[i] : i \in DOMAIN s}
Put(f, k, v) == [x \in DOMAIN f \cup {k} |-> IF x = k THEN v ELSE f[x]]
Distinct(s) == \A i, j \in DOMAIN s : s[i] = s[j] => i = j

Panic ==
    /\ stage' = "panic"
    /\ UNCHANGED <<config, descriptors, checked, colour, path>>

(* The current loop is over: the next one starts with nothing visited.     *)
Advance(from, to) ==
    /\ stage = from
    /\ stage' = to
    /\ checked' = {}
    /\ UNCHANGED <<config, descriptors, colour, path>>

RegistryInit ==
    /\ config \in Configs
    /\ stage = "load"
    /\ descriptors = <<>>
    /\ checked = {}
    /\ colour = <<>>
    /\ path = <<>>

-----------------------------------------------------------------------------
(* LoadDescriptors: one Register after the other.                          *)
Register ==
    /\ stage = "load"
    /\ Cardinality(Kinds) < Len(config)
    /\ LET d == config[Cardinality(Kinds) + 1] IN
       IF d.kind = Unset \/ d.plural = Unset \/ d.kind \in Kinds
         THEN Panic
         ELSE /\ descriptors' = Put(descriptors, d.kind, d)
              /\ UNCHANGED <<config, stage, checked, colour, path>>

Registered ==
    /\ Cardinality(Kinds) = Len(config)
    /\ Advance("load", "descriptors")

-----------------------------------------------------------------------------
(* Validate, first loop.  The walk along the owners of a kind ends at a    *)
(* kind without parent, or meets a kind it has seen.                       *)
OwnersEnd(k) ==
    LET owner[n \in 0 .. Cardinality(Kinds)] ==
          LET below == IF n = 0 THEN k ELSE owner[n - 1] IN
          IF below \in Kinds THEN descriptors[below].parent ELSE Unset
    IN \E n \in DOMAIN owner : owner[n] = Unset

ReferenceOK(ref) ==
    /\ ref.target \in Kinds
    /\ ref.max > 0 => ref.max >= ref.min

DescriptorOK(k, plurals) ==
    LET d == descriptors[k] IN
    /\ d.parent # Unset => d.parent \in Kinds /\ OwnersEnd(k)
    /\ d.plural \notin plurals
    /\ \A i \in DOMAIN d.refs : ReferenceOK(d.refs[i])
    /\ Distinct([i \in DOMAIN d.refs |-> d.refs[i].type])
    /\ d.maxLen > 0 => d.minLen <= d.maxLen

CheckDescriptor(k) ==
    /\ stage = "descriptors"
    /\ k \notin checked
    /\ IF DescriptorOK(k, {descriptors[j].plural : j \in checked})
         THEN /\ checked' = checked \cup {k}
              /\ UNCHANGED <<config, stage, descriptors, colour, path>>
         ELSE Panic

(* ValidateEntityConditions, the second loop.                              *)
ReservedConditionTypes ==
    {"Reconciled", "LastKnownReconciled"}
      \cup {ConditionType(a) : a \in UNION {descriptors[k].adapters : k \in Kinds}}

ConditionsOK(k) ==
    LET rules == descriptors[k].conds IN
    /\ Distinct([i \in DOMAIN rules |-> rules[i].type])
    /\ \A rule \in Elements(rules) :
         /\ rule.type \notin {Unset} \cup ReservedConditionTypes \cup TooLong
         /\ rule.compiles

CheckConditions(k) ==
    /\ stage = "conditions"
    /\ k \notin checked
    /\ IF ConditionsOK(k)
         THEN /\ checked' = checked \cup {k}
              /\ UNCHANGED <<config, stage, descriptors, colour, path>>
         ELSE Panic

-----------------------------------------------------------------------------
(* The depth-first search over required references.                        *)
Colour(k) == IF k \in DOMAIN colour THEN colour[k] ELSE 0

Open(k, stack) ==
    /\ colour' = Put(colour, k, 1)
    /\ path' = Append(stack, [kind |-> k, next |-> 1])
    /\ UNCHANGED <<config, stage, descriptors, checked>>

DfsRoot(k) ==
    /\ stage = "references"
    /\ path = <<>>
    /\ Colour(k) = 0
    /\ Open(k, <<>>)

(* Mutant of Closed: a finished kind looks like one still on the stack.     *)
ClosedStaysOpen(k) == Put(colour, k, 1)

Closed(k) == Put(colour, k, 2)

DfsStep ==
    /\ stage = "references"
    /\ path # <<>>
    /\ LET top == path[Len(path)]
           refs == descriptors[top.kind].refs
           rest == [path EXCEPT ![Len(path)].next = @ + 1]
       IN IF top.next > Len(refs)
            THEN /\ colour' = Closed(top.kind)
                 /\ path' = SubSeq(path, 1, Len(path) - 1)
                 /\ UNCHANGED <<config, stage, descriptors, checked>>
            ELSE LET ref == refs[top.next] IN
                 CASE ref.min > 0 /\ Colour(ref.target) = 1 -> Panic
                   [] ref.min > 0 /\ Colour(ref.target) = 0 ->
                        Open(ref.target, rest)
                   [] OTHER ->
                        /\ path' = rest
                        /\ UNCHANGED <<config, stage, descriptors, checked, colour>>

-----------------------------------------------------------------------------
(* ValidateSpecSchemas, called when the schema validator is built.         *)
SchemasOK ==
    \A k \in Kinds : LET d == descriptors[k] IN
      d.schema # Unset /\ d.needSchema => d.schema \in Schemas

ValidateSpecSchemas ==
    /\ stage = "schemas"
    /\ IF SchemasOK THEN Advance("schemas", "routes") ELSE Panic

(* RegisterEntityRoutes.  A pattern is a method and a sequence of segments,*)
(* "*" for a path parameter.                                               *)
ResourceRoutes(prefix) ==
    {<<m, prefix>> : m \in {"GET", "POST"}}
      \cup {<<m, prefix \o <<"*">> >> : m \in {"GET", "PATCH", "DELETE"}}
      \cup {<<"POST", prefix \o <<"*", "force-delete">> >>}
      \cup {<<m, prefix \o <<"*", "statuses">> >> : m \in {"GET", "PUT"}}

RoutePrefixes(k) ==
    LET d == descriptors[k] IN
    {<<d.plural>>}
      \cup IF d.parent = Unset THEN {}
           ELSE {<<descriptors[d.parent].plural, "*", d.plural>>}

Served ==
    {<<<<>>, r>> : r \in ResourceRoutes(<<"resources">>)
                     \cup {<<"GET", <<"openapi">> >>, <<"GET", <<"openapi.html">> >>}}
      \cup UNION {UNION {{<<p, r>> : r \in ResourceRoutes(p)} : p \in RoutePrefixes(k)}
                    : k \in Kinds}

(* net/http's ServeMux panics when two patterns match a common path and    *)
(* neither is more specific than the other.                                *)
Covers(p, q) == \A i \in DOMAIN p : p[i] = "*" \/ p[i] = q[i]
Conflict(r, s) ==
    LET p == r[2][2]  q == s[2][2] IN
    /\ r[2][1] = s[2][1]
    /\ Len(p) = Len(q)
    /\ \A i \in DOMAIN p : p[i] = q[i] \/ p[i] = "*" \/ q[i] = "*"
    /\ Covers(p, q) <=> Covers(q, p)

RoutesOK ==
    /\ \A k \in Kinds : descriptors[k].plural # "resources"
    /\ \A r, s \in Served : r # s => ~ Conflict(r, s)

RegisterRoutes ==
    /\ stage = "routes"
    /\ IF RoutesOK THEN Advance("routes", "serving") ELSE Panic

-----------------------------------------------------------------------------
RegistryNext ==
    \/ Register
    \/ Registered
    \/ \E k \in Kinds : CheckDescriptor(k) \/ CheckConditions(k) \/ DfsRoot(k)
    \/ checked = Kinds /\ Advance("descriptors", "conditions")
    \/ checked = Kinds /\ Advance("conditions", "references")
    \/ DfsStep
    \/ path = <<>> /\ (\A k \in Kinds : Colour(k) = 2)
         /\ Advance("references", "schemas")
    \/ ValidateSpecSchemas
    \/ RegisterRoutes

RegistrySpec == RegistryInit /\ [][RegistryNext]_registryVars

-----------------------------------------------------------------------------
(* What makes an entity list sound, said without loops, orders or colours: *)
(* ownership and required references each admit a ranking of the kinds.    *)
Rankings(edges, kinds) ==
    {rank \in [kinds -> 1 .. Cardinality(kinds)] : \A e \in edges : rank[e[1]] > rank[e[2]]}
Ranked(edges, kinds) == Rankings(edges, kinds) # {}

OwnershipOf(D) == {<<d.kind, d.parent>> : d \in {x \in D : x.parent # Unset}}
RequirementsOf(D) == UNION {{<<d.kind, r.target>> : r \in {x \in Elements(d.refs) : x.min > 0}}
                              : d \in D}

Sound(list) ==
    LET D == Elements(list)
        kinds == {d.kind : d \in D}
        reserved == {Unset, "Reconciled", "LastKnownReconciled"} \cup TooLong
                      \cup {ConditionType(a) : a \in UNION {d.adapters : d \in D}}
    IN
    /\ Distinct([i \in DOMAIN list |-> list[i].kind])
    /\ Distinct([i \in DOMAIN list |-> list[i].plural])
    /\ Unset \notin kinds \cup {d.plural : d \in D}
    /\ \A d \in D :
         /\ d.parent \in kinds \cup {Unset}
         /\ \A r \in Elements(d.refs) : r.target \in kinds /\ (r.max <= 0 \/ r.min <= r.max)
         /\ Distinct([i \in DOMAIN d.refs |-> d.refs[i].type])
         /\ d.maxLen <= 0 \/ d.minLen <= d.maxLen
         /\ Distinct([i \in DOMAIN d.conds |-> d.conds[i].type])
         /\ \A c \in Elements(d.conds) : c.compiles /\ c.type \notin reserved
         /\ d.needSchema => d.schema \in Schemas \cup {Unset}
         /\ d.plural \notin {"resources", "openapi", "openapi.html"}
         /\ d.parent # Unset => d.plural \notin {"statuses", "force-delete"}
    /\ Ranked(OwnershipOf(D), kinds)
    /\ Ranked(RequirementsOf(D), kinds)

(* Start-up ends in serving exactly for the sound lists, whatever order Go *)
(* ranges over the descriptor map in: no defect slips through because      *)
(* another kind was visited first, and no sound list, one with shared      *)
(* targets of references included, is refused.                             *)
StartsIffSound ==
    /\ stage = "serving" => Sound(config)
    /\ stage = "panic" => ~ Sound(config)

-----------------------------------------------------------------------------
(* What the proofs need besides: how far each part of start-up has come,   *)
(* and what it has made sure of by then.  The descriptors are those of a   *)
(* beginning of the list.                                                  *)
Loaded ==
    LET n == Cardinality(Kinds) IN
    /\ config \in Configs
    /\ IsFiniteSet(Kinds) /\ n <= Len(config)
    /\ stage \notin {"load", "panic"} => n = Len(config)
    /\ Kinds = {config[i].kind : i \in 1 .. n}
    /\ \A i \in 1 .. n : /\ config[i].kind # Unset /\ config[i].plural # Unset
                         /\ descriptors[config[i].kind] = config[i]
    /\ \A i, j \in 1 .. n : config[i].kind = config[j].kind => i = j

(* The kinds that have passed a loop, in the loop and in later stages.     *)
Vetted(loop, later) ==
    IF stage = loop THEN checked ELSE IF stage \in later THEN Kinds ELSE {}

DescriptorsVetted ==
    LET S == Vetted("descriptors", {"conditions", "references", "schemas", "routes", "serving"})
    IN S \subseteq Kinds /\
       \A k \in S : DescriptorOK(k, {descriptors[j].plural : j \in S \ {k}})

ConditionsVetted ==
    LET S == Vetted("conditions", {"references", "schemas", "routes", "serving"})
    IN S \subseteq Kinds /\ \A k \in S : ConditionsOK(k)

(* The search: the open kinds are the stack, which leads down along        *)
(* required references; what a kind on it has looked at is closed, but for *)
(* the one it waits for; the closed kinds are ranked among themselves.     *)
Descriptors(S) == {descriptors[k] : k \in S}
ClosedKinds == {k \in Kinds : Colour(k) = 2}

Stacked ==
    /\ path \in Seq([kind : Kinds, next : Nat \ {0}])
    /\ \A k \in Kinds : Colour(k) \in {0, 1, 2}
    /\ \A k \in Kinds : Colour(k) = 1 <=> \E i \in DOMAIN path : path[i].kind = k
    /\ \A i, j \in DOMAIN path : path[i].kind = path[j].kind => i = j

StackFalls ==
    \A rank \in Rankings(RequirementsOf(Descriptors(Kinds)), Kinds) :
      \A i, j \in DOMAIN path : i < j => rank[path[i].kind] > rank[path[j].kind]

StackLookedAt ==
    \A i \in DOMAIN path : LET refs == descriptors[path[i].kind].refs IN
      \A r \in DOMAIN refs :
        r < path[i].next /\ refs[r].min > 0 =>
          \/ refs[r].target \in ClosedKinds
          \/ i < Len(path) /\ refs[r].target = path[i + 1].kind

ClosedRanked ==
    /\ Ranked(RequirementsOf(Descriptors(ClosedKinds)), ClosedKinds)
    /\ \A e \in RequirementsOf(Descriptors(ClosedKinds)) : e[2] \in ClosedKinds

Searched ==
    /\ stage \in {"load", "descriptors", "conditions"} => path = <<>> /\ colour = <<>>
    /\ stage = "references" => Stacked /\ StackFalls /\ StackLookedAt /\ ClosedRanked
    /\ stage \in {"schemas", "routes", "serving"} => Ranked(RequirementsOf(Descriptors(Kinds)), Kinds)

RegistryInv ==
    /\ stage \in {"load", "descriptors", "conditions", "references", "schemas", "routes",
                  "serving", "panic"}
    /\ Loaded /\ DescriptorsVetted /\ ConditionsVetted /\ Searched
    /\ stage = "load" => checked = {}
    /\ stage \in {"routes", "serving"} => SchemasOK
    /\ stage = "serving" => RoutesOK
    /\ StartsIffSound
=============================================================================

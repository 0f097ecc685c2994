----------------------------- MODULE SearchApi ------------------------------
(***************************************************************************)
(* The API with the search language it has: the constants Translate,       *)
(* Satisfied and Unresolved of Api are TSLToSQL, Evaluate and              *)
(* UnknownColumn of Search.                                                *)
(***************************************************************************)
EXTENDS Api, Search

(* NOT over a value that may be absent is NULL to PostgreSQL.  The walk    *)
(* rejects it for labels and conditions, and lets it pass for spec fields  *)
(* and for columns that may be NULL.                                       *)
NegatesAbsent(search) ==
    \E n \in Nodes(search) : n.op = "not" /\
      \E atom \in Nodes(n.r) :
        /\ IsExpr(atom) /\ atom.op \notin {"and", "or", "not", "is"}
        /\ \E x \in Nodes(atom) :
             \/ x.op = "null"
             \/ x.op = "id" /\ (x.src = "spec" \/ x.name \in {"deleted_time", "owner_id"})

OfPath(r, id) ==
    LET q == r.query IN
    /\ r.route = "entity" => rows[id].kind = r.kind
    /\ r.route = "root" => q.kind \in {"", rows[id].kind}
    /\ r.parent # "" => rows[id].owner = r.parent
    /\ r.route = "entity" /\ q.ref # <<>> => q.ref \in rows[id].refs

Described(r, id) ==
    LET s == r.query.search
        means(n) == Means(n, Record(id), Columns)
    IN CASE s = Nil -> OfPath(r, id)
         [] s.op = "halves" -> IF s.join = "or" THEN means(s.l) \/ (means(s.r) /\ OfPath(r, id))
                                                ELSE means(s.l) /\ means(s.r) /\ OfPath(r, id)
         [] OTHER -> means(s) /\ OfPath(r, id)


(* LIKE, IN, BETWEEN and a minus keep the subfield of a condition they     *)
(* came across; comparisons and IS NULL drop it.                           *)
RECURSIVE Leaves(_)
Leaves(n) ==
    CASE n.op \in {"and", "or"} -> Leaves(n.l) \/ Leaves(n.r)
      [] n.op \in {"like", "in", "between", "neg"} -> \E c \in Nodes(n) : isConditionNode(c)
      [] OTHER -> FALSE

(* Whether a search is accepted is decided by its parts.  One that is      *)
(* accepted has acceptable operands, and what the first of them leaves in  *)
(* the walk's context turns the second one away only where it is a LIKE,   *)
(* an IN, a BETWEEN or a minus that reaches a condition; a comparison or   *)
(* an IS NULL never does (walkContext.conditionSubfield).                  *)
RejectionComposes ==
    at = "handler" /\ request.op = "list" =>
      LET n == request.query.search IN
      n.op \in {"and", "or"} =>
        LET parts == TSLToSQL(n.l).ok /\ TSLToSQL(n.r).ok IN
        /\ TSLToSQL(n).ok => parts
        /\ parts /\ ~ Leaves(n.l) => TSLToSQL(n).ok
=============================================================================

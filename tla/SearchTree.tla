----------------------------- MODULE SearchTree -----------------------------
(***************************************************************************)
(* Searches as trees, and the outcomes of a SQL condition: what the list   *)
(* handlers (Api) and the search language (Search) both speak of.          *)
(*                                                                         *)
(* A tree is a record with an "op":                                        *)
(*   id          a field: src "label", "cond", "spec" or "field", a name,  *)
(*               for a condition the subfield, and whether the name passes *)
(*               the walk's patterns                                       *)
(*   str num time date bool null                 literals                  *)
(*   array       literals of an IN or a BETWEEN                            *)
(*   and or not neg in between is like = != ...  expressions over l and r  *)
(* The SQL it becomes is a tree too, with "col" for "id".  A condition is  *)
(* true "t", false "f", NULL "n" or an error "e" on a row.                 *)
(***************************************************************************)

EXTENDS Integers

CONSTANT Before(_, _)    \* PostgreSQL's order of texts

Nil == [op |-> "nil"]
Null == [t |-> "null", v |-> 0]     \* the value of a column that has none
Less(a, b) == IF a.t = "text" THEN Before(a.v, b.v) ELSE a.v < b.v
ComparisonOps == {"=", "!=", "<", "<=", ">", ">="}
IsExpr(n) == n.op \in ComparisonOps \cup
                {"and", "or", "not", "neg", "in", "between", "is", "like", "+"}
Text(s) == [op |-> "str", v |-> s]

(* AND and OR over outcomes: an operand that decides the result may hide   *)
(* the other one's error, as PostgreSQL promises no order of evaluation.   *)
Both(a, b) ==
    CASE "f" \in {a, b} -> {"f"} \cup (IF "e" \in {a, b} THEN {"e"} ELSE {})
      [] "e" \in {a, b} -> {"e"}
      [] OTHER -> {IF a = "t" /\ b = "t" THEN "t" ELSE "n"}
Flip(a) == CASE a = "t" -> "f" [] a = "f" -> "t" [] OTHER -> a
AllOf(A, B) == UNION {Both(a, b) : a \in A, b \in B}
Negation(A) == {Flip(a) : a \in A}
AnyOf(A, B) == Negation(AllOf(Negation(A), Negation(B)))
=============================================================================

------------------------------- MODULE Search -------------------------------
(***************************************************************************)
(* The search language of list requests (pkg/db/sql_tsl.go): a walk over   *)
(* the parsed tree that rejects it or emits a SQL condition.  The walk has *)
(* a memory, the condition subfield its last column named, that one        *)
(* operand leaves behind for the next.  Trees and the outcomes of SQL      *)
(* conditions are SearchTree's.                                            *)
(***************************************************************************)
EXTENDS SearchTree, Sequences, FiniteSets, TLC

CONSTANTS Rfc3339,     \* strings time.Parse(time.RFC3339) takes
          Instant(_),  \* the point in time PostgreSQL reads in a string, or -1
          Numeric(_),  \* the number CAST makes of a string, or -1 if it fails
          Decimal(_),  \* the text of a number
          Like(_,_)    \* PostgreSQL's LIKE

(* All the nodes of a tree.                                                *)
RECURSIVE Nodes(_)
Nodes(n) ==
    {n} \cup (IF IsExpr(n) THEN Nodes(n.l) \cup Nodes(n.r) ELSE {})
        \cup (IF n.op = "array" THEN {n.of[i] : i \in DOMAIN n.of} ELSE {})

-----------------------------------------------------------------------------
(* The checks that look at the tree only.                                  *)
requirePredicate(n) == IsExpr(n)
isConditionNode(n) == n.op = "id" /\ n.src = "cond"
isConstantExpr(n) == \A x \in Nodes(n) : x.op # "id"

searchTypedFields == [generation |-> {"num"},
                      created_time |-> {"time", "date"},
                      updated_time |-> {"time", "date"},
                      deleted_time |-> {"time", "date"}]

validateTypedSide(ident, value) ==
    (ident.op = "id" /\ ident.src = "field" /\ ident.name \in DOMAIN searchTypedFields)
      => value.op \in searchTypedFields[ident.name] \cup {"null"}

validateTypedArray(ident, arr) ==
    arr.op = "array" => \A i \in DOMAIN arr.of : validateTypedSide(ident, arr.of[i])

(* Only the first argument of the value's side is looked at, and only when *)
(* it is of the type the subfield asks for.                                *)
validateConditionComparison(op, subfield, args) ==
    LET value == Head(args) IN
    args = <<>> \/
      CASE subfield = "status" ->
             /\ op = "="
             /\ value.op \in {"str", "time", "date"} =>
                  value.v \in {"True", "False", "Unknown"}
        [] subfield \in {"last_updated_time", "last_transition_time"} ->
             value.op \in {"str", "date"} => value.v \in Rfc3339
        [] subfield = "observed_generation" ->
             value.op = "num" => value.whole /\ value.in32

-----------------------------------------------------------------------------
(* The walk.  Its result: accepted or not, the SQL, the arguments bound to *)
(* it in order, and the condition subfield it leaves in the context.       *)
Rejected == [ok |-> FALSE, sql |-> Nil, args |-> <<>>, sub |-> ""]
Emit(sql, args, sub) == [ok |-> TRUE, sql |-> sql, args |-> args, sub |-> sub]

Column(n) == [op |-> "col", src |-> n.src, name |-> n.name,
              sub |-> n.sub, cast |-> FALSE]


resolveColumn(n, sub, inNot) ==
    CASE ~ n.valid \/ (inNot /\ n.src \in {"label", "cond"}) -> Rejected
      [] n.src = "label" -> Emit(Column(n), <<Text(n.name)>>, sub)
      [] n.src = "cond" -> Emit(Column(n), <<Text(n.name)>>, n.sub)
      [] OTHER -> Emit(Column(n), <<>>, sub)

(* A spec field compared with numbers only is cast to one.                 *)
Cast(sql, args) ==
    IF sql.op = "col" /\ args # <<>> /\ (\A i \in DOMAIN args : args[i].op = "num")
      THEN [sql EXCEPT !.cast = sql.src = "spec"]
      ELSE sql
First(args) == SubSeq(args, 1, IF args = <<>> THEN 0 ELSE 1)

RECURSIVE Walk(_, _, _)

(* Both operands, the second in the context the first one left.            *)
Operands(n, sub, inNot) ==
    LET l == Walk(n.l, sub, inNot)
        r == IF l.ok THEN Walk(n.r, l.sub, inNot) ELSE Rejected
    IN [ok |-> l.ok /\ r.ok, l |-> l, r |-> r]

walkLogical(n, sub, inNot) ==
    LET w == Operands(n, sub, inNot) IN
    IF requirePredicate(n.l) /\ requirePredicate(n.r) /\ w.ok
      THEN Emit([op |-> n.op, l |-> w.l.sql, r |-> w.r.sql], w.l.args \o w.r.args, w.r.sub)
      ELSE Rejected

walkNot(n, sub) ==
    LET w == Walk(n.r, "", TRUE) IN
    IF requirePredicate(n.r) /\ w.ok
      THEN Emit([op |-> "not", l |-> Nil, r |-> w.sql], w.args, sub)
      ELSE Rejected

walkUMinus(n, sub, inNot) ==
    LET w == Walk(n.r, sub, inNot) IN
    IF w.ok THEN [w EXCEPT !.sql = [op |-> "neg", l |-> Nil, r |-> w.sql]] ELSE Rejected

walkComparison(n, sub, inNot) ==
    LET w == Operands(n, sub, inNot)
        value == IF isConditionNode(n.r) THEN w.l.args ELSE w.r.args
    IN
    IF /\ ~ (isConstantExpr(n.l) /\ isConstantExpr(n.r))
       /\ validateTypedSide(n.l, n.r)
       /\ validateTypedSide(n.r, n.l)
       /\ w.ok
       /\ n.op \in ComparisonOps
       /\ w.r.sub # "" => validateConditionComparison(n.op, w.r.sub, value)
      THEN Emit([op |-> n.op, l |-> Cast(w.l.sql, First(w.r.args)),
                              r |-> Cast(w.r.sql, First(w.l.args))],
                w.l.args \o w.r.args, "")
      ELSE Rejected

walkIn(n, sub, inNot) ==
    LET w == Operands(n, sub, inNot) IN
    IF /\ ~ isConditionNode(n.l)
       /\ ~ isConstantExpr(n.l)
       /\ validateTypedArray(n.l, n.r)
       /\ n.r.op = "array"
       /\ w.ok
      THEN Emit([op |-> "in", l |-> Cast(w.l.sql, w.r.args), r |-> w.r.sql],
                w.l.args \o w.r.args, w.r.sub)
      ELSE Rejected

walkBetween(n, sub, inNot) ==
    LET w == Operands(n, sub, inNot) IN
    IF /\ ~ isConditionNode(n.l)
       /\ ~ isConstantExpr(n.l)
       /\ n.r.op = "array"
       /\ Len(n.r.of) = 2
       /\ w.ok
      THEN Emit([op |-> "between", r |-> w.r.sql,
                 l |-> IF Len(w.r.args) = 2 THEN Cast(w.l.sql, w.r.args) ELSE w.l.sql],
                w.l.args \o w.r.args, w.r.sub)
      ELSE Rejected

(* Mutant of walkIsNull: the subfield stays in the context.                *)
walkIsNullRemembers(n, sub, inNot) ==
    LET w == Walk(n.l, sub, inNot) IN
    IF ~ isConstantExpr(n.l) /\ w.ok
      THEN Emit([op |-> "is", l |-> w.sql, r |-> Nil], w.args, w.sub)
      ELSE Rejected

walkIsNull(n, sub, inNot) ==
    LET w == Walk(n.l, sub, inNot) IN
    IF ~ isConstantExpr(n.l) /\ w.ok
      THEN Emit([op |-> "is", l |-> w.sql, r |-> Nil], w.args, "")
      ELSE Rejected

walkStringMatch(n, sub, inNot) ==
    LET w == Operands(n, sub, inNot) IN
    IF /\ ~ isConditionNode(n.l)
       /\ ~ (isConstantExpr(n.l) /\ isConstantExpr(n.r))
       /\ w.ok
      THEN Emit([op |-> "like", l |-> w.l.sql, r |-> w.r.sql],
                w.l.args \o w.r.args, w.r.sub)
      ELSE Rejected

(* walkNode, walkNaryExpr and walkArrayLiteral.  Arrays hold literals.     *)
Walk(n, sub, inNot) ==
    CASE n.op = "id" -> resolveColumn(n, sub, inNot)
      [] n.op \in {"str", "num", "time", "date", "bool"} -> Emit(n, <<n>>, sub)
      [] n.op \in {"null", "nil"} -> Emit(n, <<>>, sub)
      [] n.op = "array" -> Emit(n, SelectSeq(n.of, LAMBDA x : x.op # "null"), sub)
      [] n.op \in {"and", "or"} -> walkLogical(n, sub, inNot)
      [] n.op = "in" -> walkIn(n, sub, inNot)
      [] n.op = "between" -> walkBetween(n, sub, inNot)
      [] n.op = "is" -> walkIsNull(n, sub, inNot)
      [] n.op = "like" -> walkStringMatch(n, sub, inNot)
      [] n.op = "not" -> walkNot(n, sub)
      [] n.op = "neg" -> walkUMinus(n, sub, inNot)
      [] OTHER -> walkComparison(n, sub, inNot)

TSLToSQL(n) == IF requirePredicate(n) THEN Walk(n, "", FALSE) ELSE Rejected

-----------------------------------------------------------------------------
(* PostgreSQL.  A row has labels, conds, spec and fields, functions from   *)
(* the names it has a value for; a value has a type t and a v.             *)
Stored(n, row) ==
    CASE n.src = "label" ->
           IF n.name \in DOMAIN row.labels THEN [t |-> "text", v |-> row.labels[n.name]] ELSE Null
      [] n.src = "spec" ->
           IF n.name \in DOMAIN row.spec THEN [t |-> "text", v |-> row.spec[n.name]] ELSE Null
      [] n.src = "cond" ->
           IF n.name \in DOMAIN row.conds THEN row.conds[n.name][n.sub] ELSE Null
      [] OTHER ->
           IF n.name \in DOMAIN row.fields THEN row.fields[n.name] ELSE Null

(* The type a parameter takes from the column it is compared with.         *)
ColumnType(c, columns) ==
    CASE c.cast -> "num"
      [] c.src = "cond" /\ c.sub = "observed_generation" -> "num"
      [] c.src = "cond" /\ c.sub # "status" -> "time"
      [] c.src = "field" /\ c.name \in DOMAIN columns -> columns[c.name]
      [] OTHER -> "text"

Bad == [t |-> "bad", v |-> 0]     \* PostgreSQL refuses it
Literal(n) == IF n.op = "neg" THEN [n.r EXCEPT !.v = 0 - @] ELSE n

Parameter(n, type) ==
    LET lit == Literal(n) IN
    CASE lit.op = "null" -> Null
      [] type = "num" -> IF lit.op = "num" THEN [t |-> "num", v |-> lit.v] ELSE Bad
      [] type = "time" -> IF lit.op \in {"str", "time", "date"} /\ Instant(lit.v) >= 0
                            THEN [t |-> "time", v |-> Instant(lit.v)] ELSE Bad
      [] OTHER -> [t |-> "text", v |-> IF lit.op = "num" THEN Decimal(lit.v) ELSE lit.v]

Holds(op, x, y) ==
    CASE op = "=" -> x.v = y.v
      [] op = "!=" -> x.v # y.v
      [] op = "<" -> Less(x, y)
      [] op = "<=" -> Less(x, y) \/ x.v = y.v
      [] op = ">" -> Less(y, x)
      [] op = ">=" -> Less(y, x) \/ x.v = y.v

(* The field an operand is, maybe under a minus, and the operand's value   *)
(* given the field's.                                                      *)
Bare(n) == IF n.op = "neg" THEN n.r ELSE n
Signed(n, x) == IF n.op = "neg" /\ x # Null THEN [x EXCEPT !.v = 0 - @] ELSE x

(* An operand of a comparison: a column, cast if need be, or a literal of  *)
(* the type the other operand has.                                         *)
Operand(n, type, row) ==
    LET c == Bare(n)
        raw == Stored(c, row)
    IN CASE c.op # "col" -> Parameter(n, type)
         [] c.op = "col" /\ (~ c.cast \/ raw = Null) -> Signed(n, raw)
         [] OTHER -> IF Numeric(raw.v) < 0 THEN Bad ELSE Signed(n, [t |-> "num", v |-> Numeric(raw.v)])

(* A comparison on a row: true, false, null or an error.                   *)
Compare(op, l, r, row, columns) ==
    LET type == ColumnType(IF Bare(l).op = "col" THEN Bare(l) ELSE Bare(r), columns)
        x == Operand(l, type, row)
        y == Operand(r, type, row)
    IN CASE Bad \in {x, y} -> "e"
         [] Bad \notin {x, y} /\ Null \in {x, y} -> "n"
         [] OTHER -> IF (IF op = "like" THEN Like(x.v, y.v) ELSE Holds(op, x, y)) THEN "t" ELSE "f"

RECURSIVE Truth(_, _, _)
Truth(s, row, columns) ==
    CASE s.op = "and" -> AllOf(Truth(s.l, row, columns), Truth(s.r, row, columns))
      [] s.op = "or" -> AnyOf(Truth(s.l, row, columns), Truth(s.r, row, columns))
      [] s.op = "not" -> Negation(Truth(s.r, row, columns))
      [] s.op = "is" -> {IF Stored(s.l, row) = Null THEN "t" ELSE "f"}
      [] s.op = "between" -> AllOf({Compare(">=", s.l, s.r.of[1], row, columns)},
                                   {Compare("<=", s.l, s.r.of[2], row, columns)})
      [] s.op = "in" ->
           LET hits == {Compare("=", s.l, s.r.of[i], row, columns) : i \in DOMAIN s.r.of} IN
           CASE "e" \in hits -> {"e"} [] "t" \in hits -> {"t"}
             [] "n" \in hits -> {"n"} [] OTHER -> {"f"}
      [] s.op \in ComparisonOps \cup {"like"} ->
           {Compare(s.op, s.l, s.r, row, columns)}
      [] OTHER -> {"e"}

(* What fails before a row is read: a column the table has not, and types  *)
(* that do not go together, a number where a truth value has to be, a      *)
(* minus before a text or columns of two types.                            *)
UnknownColumn(s, columns) ==
    \E c \in Nodes(s) : c.op = "col" /\ c.src = "field" /\ c.name \notin DOMAIN columns

IllTyped(s, columns) ==
    \/ s.op = "neg"
    \/ \E n \in Nodes(s) :
         \/ n.op \in {"and", "or", "not"} /\ "neg" \in {n.l.op, n.r.op}
         \/ n.op = "neg" /\ n.r.op = "col" /\ ColumnType(n.r, columns) # "num"
         \/ /\ n.op \in ComparisonOps \cup {"like"}
            /\ Bare(n.l).op = "col" /\ Bare(n.r).op = "col"
            /\ ColumnType(Bare(n.l), columns) # ColumnType(Bare(n.r), columns)

Evaluate(s, row, columns) == IF IllTyped(s, columns) THEN {"e"} ELSE Truth(s, row, columns)

-----------------------------------------------------------------------------
(* What a search means, said without SQL: a comparison holds of a value    *)
(* that is there and compares so, and the connectives are those of logic.  *)
(* Spec fields are texts that are compared as numbers with numbers.        *)
MeansCompare(op, l, r, row, columns) ==
    LET fields == {n \in {l, r} : Bare(n).op = "id"}
        given == {Literal(n).op : n \in {l, r} \ fields}
        field == Bare(CHOOSE n \in fields : TRUE)
        numeric == field.src = "spec" /\ given = {"num"}
        type == IF numeric THEN "num" ELSE ColumnType([cast |-> FALSE] @@ field, columns)
        value(n) ==
          LET x == Stored(Bare(n), row) IN
          CASE n \notin fields -> Parameter(n, type)
            [] n \in fields /\ numeric /\ x # Null -> Signed(n, [t |-> "num", v |-> Numeric(x.v)])
            [] OTHER -> Signed(n, x)
        x == value(l)
        y == value(r)
    IN /\ {Null, Bad} \cap {x, y} = {}
       /\ IF op = "like" THEN Like(x.v, y.v) ELSE Holds(op, x, y)

RECURSIVE Means(_, _, _)
Means(n, row, columns) ==
    CASE n.op = "and" -> Means(n.l, row, columns) /\ Means(n.r, row, columns)
      [] n.op = "or" -> Means(n.l, row, columns) \/ Means(n.r, row, columns)
      [] n.op = "not" -> ~ Means(n.r, row, columns)
      [] n.op = "is" -> Stored(n.l, row) = Null
      [] n.op = "in" -> \E i \in DOMAIN n.r.of : MeansCompare("=", n.l, n.r.of[i], row, columns)
      [] n.op = "between" -> /\ MeansCompare(">=", n.l, n.r.of[1], row, columns)
                             /\ MeansCompare("<=", n.l, n.r.of[2], row, columns)
      [] OTHER -> MeansCompare(n.op, n.l, n.r, row, columns)
=============================================================================

----------------------------- MODULE Conditions -----------------------------
(***************************************************************************)
(* Conditions: the where clauses of requests and the rules of tables.      *)
(* treeToSql turns the parsed condition into SQL and, when asked to        *)
(* simplify, evaluates what is known already (the literals, and the auth   *)
(* and params values put in their place).  An expression is a tree:        *)
(* "lit" is a value that can still be folded, "val" one that is already    *)
(* SQL text, "col" a column of the row and "new" the value an update is    *)
(* about to give it.  SQL text is a tree as well: literalToQuery puts      *)
(* brackets around every operand.                                          *)
(***************************************************************************)
EXTENDS Integers, Sequences, SequencesExt, Exchange

(* A value: n is the number it is (or is read as), s its text.             *)
Null == [t |-> "null", n |-> 0, s |-> ""]
Bool(b) == [t |-> "bool", n |-> IF b THEN 1 ELSE 0, s |-> ""]
Num(n) == [t |-> "num", n |-> n, s |-> ""]
Str(s) == [t |-> "str", n |-> IF s = "1" THEN 1 ELSE 0, s |-> s]

Lit(v) == [e |-> "lit", v |-> v]
Val(v) == [e |-> "val", v |-> v]
Col(c) == [e |-> "col", c |-> c]
New(c) == [e |-> "new", c |-> c]
Op(op, l, r) == [e |-> op, l |-> l, r |-> r]
Not(a) == [e |-> "not", a |-> a]

Comparisons == {"=", "IS", "IS NOT", "LIKE", "NOT LIKE", "<"}
Joins == {"AND", "OR"}

IsLit(x) == x.e = "lit"

(* literalToQuery: a literal becomes text; literalMapping gives true and   *)
(* 'true' the text 1, false and 'false' 0, and 'null' NULL.                *)
SqlValue(v) ==
  CASE v.t = "bool" -> Num(v.n)
    [] v.t = "str" /\ v.s = "null" -> Null
    [] v.t = "str" /\ v.s \in {"1", "true"} -> Num(1)
    [] v.t = "str" /\ v.s \in {"0", "false"} -> Num(0)
    [] OTHER -> v

literalToQuery(x) == IF IsLit(x) THEN Val(SqlValue(x.v)) ELSE x

-----------------------------------------------------------------------------
(* What SQLite makes of an expression on a row [old, new].                 *)
Truth(v) == IF v.t = "null" THEN "null" ELSE IF v.n # 0 THEN "true" ELSE "false"
OfTruth(x) == CASE x = "null" -> Null [] x = "true" -> Num(1) [] x = "false" -> Num(0)
OfBool(b) == Num(IF b THEN 1 ELSE 0)

And(x, y) == IF "false" \in {x, y} THEN "false" ELSE IF "null" \in {x, y} THEN "null" ELSE "true"
Or(x, y) == IF "true" \in {x, y} THEN "true" ELSE IF "null" \in {x, y} THEN "null" ELSE "false"
Negation(x) == CASE x = "null" -> "null" [] x = "true" -> "false" [] x = "false" -> "true"

Compare(op, l, r) ==
  CASE op = "IS" -> OfBool(l = r)
    [] op = "IS NOT" -> OfBool(l # r)
    [] op \notin {"IS", "IS NOT"} /\ Null \in {l, r} -> Null
    [] op \in {"=", "LIKE"} /\ Null \notin {l, r} -> OfBool(l = r)
    [] op = "NOT LIKE" /\ Null \notin {l, r} -> OfBool(l # r)
    [] op = "<" /\ Null \notin {l, r} -> OfBool(IF l.t = r.t THEN l.n < r.n ELSE l.t = "num")

RECURSIVE Eval(_, _)
Eval(x, row) ==
  CASE x.e \in {"lit", "val"} -> SqlValue(x.v)
    [] x.e = "col" -> row.old[x.c]
    [] x.e = "new" -> row.new[x.c]
    [] x.e = "not" -> OfTruth(Negation(Truth(Eval(x.a, row))))
    [] x.e = "AND" -> OfTruth(And(Truth(Eval(x.l, row)), Truth(Eval(x.r, row))))
    [] x.e = "OR" -> OfTruth(Or(Truth(Eval(x.l, row)), Truth(Eval(x.r, row))))
    [] x.e \in Comparisons ->
         Compare(IF x.e = "=" /\ Lit(Null) \in {x.l, x.r} THEN "IS" ELSE x.e,
                 Eval(x.l, row), Eval(x.r, row))

Holds(x, row) == Truth(Eval(x, row)) = "true"

-----------------------------------------------------------------------------
Unknown == [e |-> "unknown"]

(* handleNull, handleBool: one side is NULL, or true or false.             *)
handleNull(op, other) ==
  CASE op = "AND" -> Lit(Null)
    [] op = "OR" -> other
    [] op = "LIKE" -> Lit(Bool(FALSE))
    [] op = "NOT LIKE" -> Lit(Bool(TRUE))
    [] op = "=" -> Lit(Null)
    [] op = "IS" /\ IsLit(other) -> Lit(Bool(other.v.t = "null"))
    [] op = "IS NOT" /\ IsLit(other) -> Lit(Bool(other.v.t # "null"))
    [] OTHER -> Unknown

(* Mutant: an alternative that is true is dropped like one that is false.  *)
handleBoolDropped(b, op, other) ==
  CASE op = "AND" -> IF b THEN other ELSE Lit(Bool(FALSE))
    [] op = "OR" -> other
    [] op \notin Joins -> Unknown

handleBool(b, op, other) ==
  CASE op = "AND" -> IF b THEN other ELSE Lit(Bool(FALSE))
    [] op = "OR" -> IF b THEN Lit(Bool(TRUE)) ELSE other
    [] op \notin Joins -> Unknown

(* applyLiteralOperator: the operator of JavaScript, when l has one.       *)
applyLiteralOperator(l, r, op) ==
  CASE op \in {"=", "IS"} -> Lit(Bool(l = r))
    [] op = "IS NOT" -> Lit(Bool(l # r))
    [] op = "AND" /\ l.t = "bool" -> Lit(IF l.n = 1 THEN r ELSE l)
    [] op = "OR" /\ l.t = "bool" -> Lit(IF l.n = 1 THEN l ELSE r)
    [] op = "<" /\ l.t \in {"num", "bool"} -> Lit(Bool(l.n < r.n))
    [] OTHER -> Unknown

BothLiteral(l, r, op) ==
  LET byNull == IF l.t # r.t /\ "null" \in {l.t, r.t}
                THEN handleNull(op, Lit(IF l.t = "null" THEN r ELSE l)) ELSE Unknown
  IN IF l.t = r.t THEN applyLiteralOperator(l, r, op)
     ELSE IF byNull # Unknown THEN byNull
     ELSE IF "bool" \in {l.t, r.t} THEN applyLiteralOperator(l, r, op)
     ELSE Unknown

OneLiteral(v, other, op) ==
  CASE v.t = "bool" -> handleBool(v.n = 1, op, other)
    [] v.t = "null" -> handleNull(op, other)
    [] v.t \notin {"bool", "null"} -> Unknown

(* Mutant: only the operand that is an alternative loses its brackets.     *)
Unbracketed(op, l, r) ==
  IF op = "AND" /\ l.e = "OR" THEN Op("OR", l.l, Op("AND", l.r, r)) ELSE Op(op, l, r)

Bracketed(op, l, r) == Op(op, l, r)

applyBinaryOperator(l, r, op, simplify) ==
  LET o == IF op = "=" /\ Lit(Null) \in {l, r} THEN "IS" ELSE op
      folded == CASE ~simplify \/ ~(IsLit(l) \/ IsLit(r)) -> Unknown
                  [] simplify /\ IsLit(l) /\ IsLit(r) -> BothLiteral(l.v, r.v, o)
                  [] simplify /\ IsLit(l) /\ ~IsLit(r) -> OneLiteral(l.v, r, o)
                  [] simplify /\ ~IsLit(l) /\ IsLit(r) -> OneLiteral(r.v, l, o)
  IN IF folded # Unknown THEN folded ELSE Bracketed(o, literalToQuery(l), literalToQuery(r))

applyUnaryOperator(a, simplify) ==
  IF simplify /\ IsLit(a)
  THEN Lit(IF a.v.t = "null" THEN Null ELSE Num(IF a.v.n = 0 THEN 1 ELSE 0))
  ELSE Not(literalToQuery(a))

(* treeToSql.  `set' gives the values an update is about to write: they    *)
(* are put in place of new.c as text; other columns keep the old value.    *)
RECURSIVE treeToSql(_, _, _)
treeToSql(x, set, simplify) ==
  CASE x.e \in {"lit", "val", "col"} -> x
    [] x.e = "new" -> IF x.c \in DOMAIN set THEN literalToQuery(set[x.c]) ELSE Col(x.c)
    [] x.e = "not" -> applyUnaryOperator(treeToSql(x.a, set, simplify), simplify)
    [] x.e \in Comparisons \cup Joins ->
         applyBinaryOperator(treeToSql(x.l, set, simplify), treeToSql(x.r, set, simplify), x.e, simplify)

(* applyBoolJoinOperator(..., 'AND'): the where clause and the rule.       *)
JoinAnd(args, simplify) ==
  LET kept == SelectSeq(args, LAMBDA a : ~(IsLit(a) /\ a.v.t \in {"bool", "null"}))
      texts == [i \in DOMAIN kept |-> literalToQuery(kept[i])]
      all == [i \in DOMAIN args |-> literalToQuery(args[i])]
      Join(seq) == FoldLeft(LAMBDA l, r : IF l = Unknown THEN r ELSE Bracketed("AND", l, r), Unknown, seq)
  IN CASE ~simplify -> Join(all)
       [] simplify /\ Lit(Bool(FALSE)) \in ToSet(args) -> Lit(Bool(FALSE))
       [] simplify /\ Lit(Bool(FALSE)) \notin ToSet(args) /\ Lit(Null) \in ToSet(args) -> Lit(Null)
       [] OTHER -> Join(texts)

(* buildSelectWhere: "nothing" when no row can match, "everything" for an  *)
(* empty condition, and the text otherwise.                                *)
buildSelectWhere(conds, simplify) ==
  IF Len(conds) > 1
  THEN LET joined == JoinAnd(conds, simplify)
       IN IF joined = Unknown THEN [where |-> "everything", sql |-> Unknown]
          ELSE [where |-> "text", sql |-> literalToQuery(joined)]
  ELSE LET one == conds[1]
       IN CASE ~simplify \/ ~IsLit(one) -> [where |-> "text", sql |-> literalToQuery(one)]
            [] simplify /\ IsLit(one) /\
               (one.v = Null \/ (one.v.t \in {"bool", "num"} /\ one.v.n = 0)
                  \/ (one.v.t = "str" /\ one.v.s \in {"", "false", "0", "null"})) ->
               [where |-> "nothing", sql |-> Unknown]
            [] simplify /\ IsLit(one) /\
               ((one.v.t \in {"bool", "num"} /\ one.v.n # 0)
                  \/ (one.v.t = "str" /\ one.v.s \in {"true", "1"})) ->
               [where |-> "everything", sql |-> Unknown]
            [] OTHER -> [where |-> "invalid", sql |-> Unknown]

Selects(built, row) ==
  \/ built.where = "everything"
  \/ built.where = "text" /\ Holds(built.sql, row)

-----------------------------------------------------------------------------
(* Inputs: conditions over a text column and a number column.              *)
Columns == {"owner", "n"}
AnyRow == [owner : {Null, Str("a"), Str("b")}, n : {Null, Num(0), Num(5)}]
Unchanged(r) == [old |-> r, new |-> r]

Literals == {Lit(v) : v \in {Null, Bool(TRUE), Bool(FALSE), Num(0), Num(5), Str("a"), Str("")}}

(* Comparisons of like with like, or with NULL; auth.uid is a text or NULL *)
(* that is already in its place.                                           *)
Simple ==
       {Op(op, Col("owner"), Lit(v)) : op \in {"=", "IS", "IS NOT", "LIKE"}, v \in {Null, Str("a")}}
  \cup {Op(op, Lit(v), Lit(Str("a"))) : op \in {"=", "IS", "IS NOT", "LIKE"}, v \in {Null, Str("a"), Str("b")}}
  \cup {Op(op, Lit(v), Col("n")) : op \in {"<", "="}, v \in {Null, Num(0)}}
  \cup {Col("n"), Not(Col("n")), Not(Lit(Num(0))), Not(Op("IS", Col("owner"), Lit(Null)))}

Some == {Lit(Bool(TRUE)), Lit(Bool(FALSE)), Lit(Null), Lit(Num(5)), Col("n"),
         Op("=", Col("owner"), Lit(Str("a"))), Op("IS NOT", Lit(Null), Lit(Str("a")))}

Conditions2 == {Op(op, l, r) : op \in Joins, l \in Simple \cup Literals, r \in Simple \cup Literals}
Conditions3 == {Op(op, Op(op2, a, b), c) : op \in Joins, op2 \in Joins, a \in Some, b \in Some, c \in Some}

ConditionsAsked ==
  {[part |-> "condition", condition |-> c] : c \in Literals \cup Simple \cup Conditions2 \cup Conditions3}

NoSet == [c \in {} |-> Lit(Null)]

ConditionAnswer ==
  [part |-> "condition",
   simplified |-> buildSelectWhere(<<treeToSql(asked.condition, NoSet, TRUE)>>, TRUE),
   plain |-> buildSelectWhere(<<treeToSql(asked.condition, NoSet, FALSE)>>, FALSE)]

(* "automatically simplify expressions if possible" (JsepContext): a       *)
(* condition selects the same rows whether it is simplified or not, unless *)
(* it is refused as a literal that means nothing.  It holds where nothing  *)
(* above a NULL is negated and no boolean is compared with a number.       *)
SimplifyKeepsRows ==
  Answered("condition") /\ answer.simplified.where # "invalid" =>
    \A r \in AnyRow : /\ Selects(answer.simplified, Unchanged(r)) = Holds(asked.condition, Unchanged(r))
                    /\ Selects(answer.plain, Unchanged(r)) = Holds(asked.condition, Unchanged(r))
=============================================================================

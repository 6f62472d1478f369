----------------------------- MODULE TableRules -----------------------------
(***************************************************************************)
(* The rules of a table: TableRulesExtension adds the rule of an operation *)
(* to the where clause of each statement, as one more condition of the     *)
(* row.  An update's rule may speak of new.column; an insert is a select   *)
(* from the rows to be inserted, so that its rule can choose among them;   *)
(* the rows of a referenced table that a select expands obey that table's  *)
(* list rule.                                                              *)
(***************************************************************************)
EXTENDS Conditions

NoRule == [rule |-> "null", cond |-> Unknown]       \* nobody but an admin
BlankRule == [rule |-> "blank", cond |-> Unknown]
AnyoneRule == [rule |-> "true", cond |-> Unknown]   \* the text true or 1
Rule(c) == [rule |-> "expr", cond |-> c]

(* parseRuleQuery.                                                         *)
RuleStatus(rule) ==
  CASE rule.rule = "null" -> 403 [] rule.rule = "blank" -> 404 [] OTHER -> 200

parseRuleQuery(rule, set, simplify) ==
  IF rule.rule = "true" THEN Val(Num(1)) ELSE treeToSql(rule.cond, set, simplify)

-----------------------------------------------------------------------------
IsOwner == Op("=", Col("owner"), Lit(Str("a")))
Anonymous == Op("IS NOT", Lit(Null), Lit(Null))          \* auth.uid != null, signed out
SignedIn == Op("IS NOT", Lit(Str("a")), Lit(Null))       \* the same, signed in

RuleConditions ==
  {IsOwner, Anonymous, SignedIn, Lit(Null),
   Op("AND", SignedIn, IsOwner), Op("OR", Anonymous, IsOwner), Op("OR", SignedIn, IsOwner),
   Op("OR", Op("<", Col("n"), Lit(Num(5))), IsOwner),
   Op("AND", IsOwner, Op("=", New("owner"), Lit(Str("a")))),
   Op("OR", Op("IS", New("n"), Lit(Num(5))), Op("AND", IsOwner, Op("<", Col("n"), New("n"))))}

TheRules == {NoRule, BlankRule, AnyoneRule} \cup {Rule(c) : c \in RuleConditions}

(* What a client asks for: all rows, none, its own, alternatives, a        *)
(* negation; a statement may also come without a where clause.             *)
Absent == [e |-> "absent"]
Wheres ==
  {Lit(Bool(TRUE)), Lit(Bool(FALSE)), Lit(Null), Lit(Num(5)), Lit(Str("a")), Lit(Str("true")),
   Op("=", Col("owner"), Lit(Str("b"))), Op("=", Col("owner"), Lit(Null)),
   Op("OR", Lit(Bool(TRUE)), Lit(Null)), Op("OR", Col("n"), Op("IS", Col("owner"), Lit(Null))),
   Op("OR", Op("=", Col("n"), Lit(Num(5))), Lit(Null)),
   Not(Op("OR", Op("=", Col("n"), Lit(Num(5))), Lit(Null))), Not(Lit(Bool(FALSE)))}

Sets ==
  {[c \in {"owner"} |-> Lit(Str("b"))], [c \in {"owner"} |-> Lit(Null)],
   [c \in {"n"} |-> Lit(Num(5))], [c \in {"n", "owner"} |-> IF c = "n" THEN Lit(Num(0)) ELSE Lit(Str("a"))]}

Asks(op, where, set) ==
  {[part |-> "statement", op |-> op, access |-> access, rule |-> rule, where |-> w, set |-> s,
    simplify |-> simplify] :
     access \in {"rules", "skip", "admin"}, rule \in TheRules, w \in where, s \in set, simplify \in BOOLEAN}

StatementsAsked ==
       Asks("list", Wheres \cup {Absent}, {NoSet}) \cup Asks("view", Wheres \cup {Absent}, {NoSet})
  \cup Asks("insert", {Absent}, {NoSet}) \cup Asks("delete", Wheres, {NoSet})
  \cup Asks("update", Wheres, Sets \cup {NoSet}) \cup Asks("expand", {IsOwner}, {NoSet})

(* Whether the rule of the operation applies: a view asks its extensions   *)
(* in any case.                                                            *)
RuleApplies(a) == a.access = "rules" \/ (a.access = "skip" /\ a.op = "view")

(* The condition the statement is parsed with: a view is of one id, the    *)
(* rows of an expansion are joined by a foreign key, which is text already.*)
Condition(a) ==
  CASE a.op = "view" /\ a.where # Absent -> Op("AND", Op("=", Col("n"), Lit(Num(5))), a.where)
    [] a.op = "view" /\ a.where = Absent -> Op("=", Col("n"), Lit(Num(5)))
    [] a.op # "view" -> a.where

(* Mutant: the rule is what remains when the client asks for nothing.      *)
appendWhereIfNone(where, rule) == IF where = <<>> THEN Append(where, rule) ELSE where

appendWhere(where, rule) == Append(where, rule)

Parsed(where, set, simplify) == IF where = Absent THEN <<>> ELSE <<treeToSql(where, set, simplify)>>

parseSelectQuery(a) == Parsed(Condition(a), NoSet, a.simplify)

(* An update must set something; its where may speak of new.column too.    *)
NothingSet(a) == a.op = "update" /\ DOMAIN a.set = {}
parseUpdateQuery(a) == Parsed(a.where, a.set, a.simplify)

(* An insert has no condition of its own.                                  *)
parseInsertQuery(a) == <<>>
parseDeleteQuery(a) == Parsed(a.where, NoSet, a.simplify)

ParsedQuery(a) ==
  CASE a.op \in {"list", "view", "expand"} -> parseSelectQuery(a)
    [] a.op = "update" -> parseUpdateQuery(a)
    [] a.op = "insert" -> parseInsertQuery(a)
    [] a.op = "delete" -> parseDeleteQuery(a)

Conds(a) ==
  IF RuleApplies(a) THEN appendWhere(ParsedQuery(a), parseRuleQuery(a.rule, a.set, a.simplify))
  ELSE ParsedQuery(a)

(* build{Select,Insert,Update,Delete}Query with allowAllWhere.  A statement*)
(* that can match no row is not sent.  Without a condition all rows are    *)
(* meant: a select says WHERE 1, an update has no WHERE, an insert takes   *)
(* its VALUES and not a select from them; a condition that is always true  *)
(* leaves a deletion with a WHERE and nothing behind it.                   *)
WhereOne == [where |-> "text", sql |-> Val(Num(1))]
NoWhere == [where |-> "everything", sql |-> Unknown]
BlankWhere == [where |-> "blank", sql |-> Unknown]

Where(conds, simplify, none, always) ==
  LET built == buildSelectWhere(conds, simplify)
  IN IF conds = <<>> THEN none ELSE IF built.where = "everything" THEN always ELSE built

buildSelectQuery(conds, simplify) == Where(conds, simplify, WhereOne, WhereOne)
buildInsertQuery(conds, simplify) == Where(conds, simplify, NoWhere, WhereOne)
buildUpdateQuery(conds, simplify) == Where(conds, simplify, NoWhere, NoWhere)
buildDeleteQuery(conds, simplify) == Where(conds, simplify, WhereOne, BlankWhere)

Built(a) ==
  CASE a.op \in {"list", "view", "expand"} -> buildSelectQuery(Conds(a), a.simplify)
    [] a.op = "insert" -> buildInsertQuery(Conds(a), a.simplify)
    [] a.op = "update" -> buildUpdateQuery(Conds(a), a.simplify)
    [] a.op = "delete" -> buildDeleteQuery(Conds(a), a.simplify)

Refused(a) == NothingSet(a) \/ (RuleApplies(a) /\ RuleStatus(a.rule) # 200)
RefusedStatus(a) == IF NothingSet(a) THEN 400 ELSE RuleStatus(a.rule)

BuiltStatus(a) ==
  CASE Built(a).where = "invalid" -> 500
    [] Built(a).where = "blank" -> 400
    [] OTHER -> 200

StatementAnswer ==
  IF Refused(asked)
  THEN [part |-> "statement", status |-> RefusedStatus(asked),
        built |-> [where |-> "nothing", sql |-> Unknown]]
  ELSE [part |-> "statement", status |-> BuiltStatus(asked), built |-> Built(asked)]

-----------------------------------------------------------------------------
(* The row a statement is about: an update makes a new one of it.          *)
RowOf(a, r) ==
  [old |-> r, new |-> [c \in Columns |-> IF c \in DOMAIN a.set THEN Eval(a.set[c], Unchanged(r)) ELSE r[c]]]

Reaches(r) == answer.status = 200 /\ Selects(answer.built, Unchanged(r))

RuleHolds(a, r) ==
  CASE a.rule.rule = "true" -> TRUE
    [] a.rule.rule = "expr" -> Holds(a.rule.cond, RowOf(a, r))
    [] a.rule.rule \in {"null", "blank"} -> FALSE

(* Whatever a client asks for, a statement reads, changes and adds only    *)
(* rows that the rule of its operation lets through; a rule about new      *)
(* values is about the row as it will be.                                  *)
RowsObeyRule ==
  Answered("statement") /\ RuleApplies(asked) =>
    \A r \in AnyRow : Reaches(r) => RuleHolds(asked, r)

(* And it reaches all of them that the client's condition selects, unless  *)
(* it is refused (for conditions that negate nothing above a NULL).        *)
RECURSIVE Negates(_)
Negates(x) ==
  CASE x.e = "not" -> TRUE
    [] x.e \in Joins -> Negates(x.l) \/ Negates(x.r)
    [] OTHER -> FALSE

RowsAskedFor ==
  Answered("statement") /\ answer.status = 200 /\ ~Negates(Condition(asked)) =>
    \A r \in AnyRow : Reaches(r) <=>
      /\ Condition(asked) # Absent => Holds(Condition(asked), RowOf(asked, r))
      /\ RuleApplies(asked) => RuleHolds(asked, r)
=============================================================================

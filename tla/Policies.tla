------------------------------ MODULE Policies ------------------------------
(***************************************************************************)
(* The PostgREST routes (SupabaseCompatExtension): the filters of the      *)
(* request and the row-level policies stored for the table become one      *)
(* where clause of a statement on the table, which the rules of the table  *)
(* then join as for any other statement.  Conditions are built as text:    *)
(* what is bracketed and what is not is part of the model.                 *)
(***************************************************************************)
EXTENDS TableRules, FiniteSets

(* A policy as it is stored; permissive is 1 or 0 in the table.            *)
NoExpr == [e |-> "no expression"]
Uid == [e |-> "uid"]                      \* auth.uid()

Policy(role, operation, using, check, permissive) ==
  [role |-> role, operation |-> operation, using |-> using, check |-> check, permissive |-> permissive]

(* insertPolicy stores the boolean as a number, loadPolicies hands it out  *)
(* as it is stored.  getPolicies catches a failure to create the table and *)
(* gives no policies; a failure of loadPolicies, which it does not await,  *)
(* fails the request.                                                      *)
Stored(p) == [p EXCEPT !.permissive = IF @ = "true" THEN "1" ELSE "0"]

getPolicies(a) == IF a.load = "no_table" THEN <<>> ELSE [i \in DOMAIN a.policies |-> Stored(a.policies[i])]

(* extractAuthContext.                                                     *)
AuthContext(a) ==
  [uid |-> IF a.bearer = "none" THEN Null ELSE Str("a"),
   role |-> CASE a.apikey = "service" \/ a.bearer = "service_role" -> "service_role"
              [] a.apikey # "service" /\ a.bearer = "authenticated" -> "authenticated"
              [] OTHER -> "anon"]

-----------------------------------------------------------------------------
(* Text joined without brackets: & binds tighter than |.                   *)
Joined(op, seq) == FoldLeft(LAMBDA l, r : Op(op, l, r), Head(seq), Tail(seq))

OrThenAnd(ors, ands) ==
  CASE ands = <<>> -> Joined("OR", ors)
    [] ors = <<>> -> Joined("AND", ands)
    [] OTHER -> Joined("OR", Append(Front(ors), Joined("AND", <<Last(ors)>> \o ands)))

RECURSIVE replaceAuthFunctions(_, _)
replaceAuthFunctions(x, ctx) ==
  CASE x = Uid -> Lit(ctx.uid)
    [] x.e \in Comparisons \cup Joins ->
         Op(x.e, replaceAuthFunctions(x.l, ctx), replaceAuthFunctions(x.r, ctx))
    [] OTHER -> x

Matches(p, operation, ctx) ==
  p.operation \in {operation, "ALL"} /\ p.role \in {ctx.role, "anon", "authenticated"}

Exprs(policies, which, ctx) ==
  LET exprs == SelectSeq([i \in DOMAIN policies |-> IF which = "using" THEN policies[i].using ELSE policies[i].check],
                         LAMBDA x : x # NoExpr)
  IN [i \in DOMAIN exprs |-> replaceAuthFunctions(exprs[i], ctx)]

compileGroup(policies, which, op, ctx) ==
  LET exprs == Exprs(policies, which, ctx)
  IN IF exprs = <<>> THEN <<>> ELSE <<Joined(op, exprs)>>

compileRlsExpression(policies, operation, ctx) ==
  LET matching == SelectSeq(policies, LAMBDA p : Matches(p, operation, ctx))
      permissive == SelectSeq(matching, LAMBDA p : p.permissive # "false")
      restrictive == SelectSeq(matching, LAMBDA p : p.permissive = "false")
      both == operation \notin {"SELECT", "DELETE"}
      ors == compileGroup(permissive, "using", "OR", ctx)
               \o (IF both THEN compileGroup(permissive, "check", "OR", ctx) ELSE <<>>)
      ands == compileGroup(restrictive, "using", "AND", ctx)
               \o (IF both THEN compileGroup(restrictive, "check", "AND", ctx) ELSE <<>>)
  IN IF ctx.role = "service_role" \/ ors \o ands = <<>> THEN Absent ELSE OrThenAnd(ors, ands)

-----------------------------------------------------------------------------
(* One filter of the request: column.operator=value.  The column is        *)
(* whatever the key has before its first dot, and goes into the condition  *)
(* as it stands; a value has its quotes doubled, which the parser of       *)
(* conditions does not undo.  AnyColumn is text that is not one name, and  *)
(* AnyText a value with a quote or a backslash: what a condition around it *)
(* means depends on the text, and the model does not say.                  *)
AnyColumn == "any text"
AnyText == Str("any text")
Filter(c, op, v) == [c |-> c, op |-> op, v |-> v]

ReadableFilter(f) ==
  f.c # AnyColumn /\ AnyText \notin (IF f.op = "in" THEN {f.v[i] : i \in DOMAIN f.v} ELSE {f.v})

Readable(filters) == \A i \in DOMAIN filters : ReadableFilter(filters[i])

(* "in" is a chain of alternatives without brackets around it; "match" has *)
(* no object in a query string; "not" calls itself until the stack is used *)
(* up.                                                                     *)
filterToJsepExpr(f) ==
  CASE f.op \in {"eq", "is"} -> Op("IS", Col(f.c), Lit(f.v))
    [] f.op = "neq" -> Op("IS NOT", Col(f.c), Lit(f.v))
    [] f.op = "lt" -> Op("<", Col(f.c), Lit(f.v))
    [] f.op \in {"like", "ilike", "cs", "cd", "ov"} -> Op("LIKE", Col(f.c), Lit(f.v))
    [] f.op = "in" -> Joined("OR", [i \in DOMAIN f.v |-> Op("IS", Col(f.c), Lit(f.v[i]))])
    [] f.op = "match" -> Lit(Num(1))

Unsupported(f) == f.op \in {"not", "unknown"}

buildFilterExpression(filters) ==
  IF filters = <<>> THEN Absent
  ELSE Joined("AND", [i \in DOMAIN filters |-> filterToJsepExpr(filters[i])])

(* Mutant: the two are joined as they are; & goes to the last alternative. *)
CombinedBare(user, rls) ==
  CASE user = Absent -> rls
    [] rls = Absent -> user
    [] OTHER -> IF user.e = "OR" THEN Op("OR", user.l, Op("AND", user.r, rls)) ELSE Op("AND", user, rls)

Combined(user, rls) ==
  CASE user = Absent -> rls
    [] rls = Absent -> user
    [] OTHER -> Op("AND", user, rls)

-----------------------------------------------------------------------------
RestOp(a) ==
  CASE a.method = "get" -> "SELECT" [] a.method = "patch" -> "UPDATE" [] a.method = "delete" -> "DELETE"

(* The statement on the table.  A post stores what it is given, a head     *)
(* counts all rows: neither looks at filters or policies.                  *)
RestStatement(a) ==
  [op |-> CASE a.method \in {"get", "head"} -> "list" [] a.method = "post" -> "insert"
            [] a.method = "patch" -> "update" [] a.method = "delete" -> "delete",
   where |-> IF a.method \in {"post", "head"} THEN Absent
             ELSE Combined(buildFilterExpression(a.filters),
                           compileRlsExpression(getPolicies(a), RestOp(a), AuthContext(a))),
   set |-> IF a.method = "patch" THEN [c \in {"owner"} |-> Lit(Str("b"))] ELSE NoSet,
   access |-> "rules", rule |-> a.rule, simplify |-> TRUE]

NothingBuilt == [where |-> "nothing", sql |-> Unknown]

(* A request whose condition the model does not read: it may be refused,   *)
(* or reach rows that neither filters nor policies select.                 *)
Undetermined == [part |-> "rest", status |-> 0, built |-> NothingBuilt]

Found(a, built) == {r \in a.rows : Selects(built, Unchanged(r))}

(* single and maybeSingle of a select.                                     *)
SelectStatus(a, n) ==
  CASE a.expects = "single" /\ n = 0 -> 406
    [] a.expects # "many" /\ n > 1 -> 400
    [] OTHER -> 200

RestAnswer ==
  LET s == RestStatement(asked)
      status == CASE ~asked.exists -> 404
                  [] asked.exists /\ asked.method \in {"post", "patch"} /\ ~asked.body -> 400
                  [] asked.exists /\ asked.method \in {"patch", "delete"} /\ asked.filters = <<>> -> 400
                  [] OTHER -> 200
      bad == \/ asked.method # "head" /\ asked.load = "fails"
             \/ asked.method \notin {"post", "head"} /\ \E i \in DOMAIN asked.filters : Unsupported(asked.filters[i])
      Refuse(code) == [part |-> "rest", status |-> code, built |-> NothingBuilt]
  IN IF status # 200 THEN Refuse(status)
     ELSE IF bad THEN Refuse(400)
     ELSE IF asked.method \notin {"post", "head"} /\ ~Readable(asked.filters) THEN Undetermined
     ELSE IF Refused(s) THEN Refuse(RefusedStatus(s))
     ELSE IF BuiltStatus(s) # 200 THEN Refuse(BuiltStatus(s))
     ELSE IF asked.method = "get" /\ SelectStatus(asked, Cardinality(Found(asked, Built(s)))) # 200
          THEN Refuse(SelectStatus(asked, Cardinality(Found(asked, Built(s)))))
     ELSE [part |-> "rest", status |-> 200, built |-> Built(s)]

-----------------------------------------------------------------------------
(* Inputs.                                                                 *)
Owns == Op("IS", Col("owner"), Uid)
Marked == Op("IS", Col("n"), Lit(Num(5)))

ThePolicies ==
       {Policy("authenticated", "ALL", using, check, permissive) :
          using \in {NoExpr, Owns, Marked}, check \in {NoExpr, Op("IS NOT", Uid, Lit(Null))},
          permissive \in {"true", "false"}}
  \cup {Policy("anon", "SELECT", Op("OR", Marked, Owns), NoExpr, "true"),
        Policy("service_role", "ALL", Marked, NoExpr, "true")}

Filters ==
  {<<>>, <<Filter("owner", "in", <<Str("a"), Str("b")>>)>>, <<Filter("owner", "eq", Str("b"))>>,
   <<Filter("owner", "is", Null), Filter("n", "lt", Num(5))>>, <<Filter("owner", "match", Null)>>,
   <<Filter("n", "neq", Num(5)), Filter("owner", "in", <<Str("a"), Str("c")>>)>>,
   <<Filter("owner", "like", Str("a"))>>, <<Filter("owner", "not", Str("a"))>>,
   <<Filter("owner", "eq", AnyText)>>, <<Filter("n", "lt", Num(5)), Filter(AnyColumn, "eq", Str("a"))>>}

SomeRows == {{}, {[owner |-> Str("a"), n |-> Num(5)]},
             {[owner |-> Str("a"), n |-> Num(0)], [owner |-> Str("b"), n |-> Num(5)]}}

Asking == [part |-> "rest", method |-> "get", filters |-> <<>>, policies |-> <<>>, load |-> "works",
            apikey |-> "anon", bearer |-> "authenticated", rule |-> AnyoneRule, body |-> TRUE,
            exists |-> TRUE, expects |-> "many", rows |-> {}]

RestAsked ==
       {[Asking EXCEPT !.method = m, !.filters = f, !.policies = p, !.bearer = b] :
          m \in {"get", "patch", "delete"}, f \in Filters,
          p \in {<<>>} \cup {<<p1>> : p1 \in ThePolicies}
                  \cup {<<p1, p2>> : p1 \in ThePolicies, p2 \in ThePolicies},
          b \in {"none", "authenticated"}}
  \cup {[Asking EXCEPT !.method = m, !.filters = f, !.load = l, !.apikey = k, !.bearer = b,
                        !.policies = <<Policy("anon", "ALL", Owns, NoExpr, "true")>>] :
          m \in {"get", "delete"}, f \in Filters, l \in {"works", "no_table", "fails"},
          k \in {"service", "anon", "other"}, b \in {"none", "anon", "authenticated", "service_role"}}
  \cup {[Asking EXCEPT !.method = m, !.body = b, !.exists = x, !.rule = r, !.filters = f] :
          m \in {"get", "post", "patch", "delete", "head"}, b \in BOOLEAN, x \in BOOLEAN,
          r \in TheRules, f \in Filters}
  \cup {[Asking EXCEPT !.expects = x, !.rows = rows, !.filters = f] :
          x \in {"many", "single", "maybeSingle"}, rows \in SomeRows, f \in Filters}

-----------------------------------------------------------------------------
FilterHolds(f, r) ==
  CASE f.op \in {"eq", "is"} -> r[f.c] = f.v
    [] f.op = "neq" -> r[f.c] # f.v
    [] f.op = "lt" -> r[f.c] # Null /\ r[f.c].n < f.v.n
    [] f.op = "like" -> r[f.c] = f.v
    [] f.op = "in" -> \E i \in DOMAIN f.v : r[f.c] = f.v[i]
    [] f.op = "match" -> TRUE

(* The expressions that stand for the caller on this operation.            *)
Allowing(a, permissive) ==
  LET ctx == AuthContext(a)
      of == {i \in DOMAIN a.policies :
               a.policies[i].permissive \in permissive /\ Matches(a.policies[i], RestOp(a), ctx)}
  IN {replaceAuthFunctions(x, ctx) :
        x \in ({a.policies[i].using : i \in of}
                 \cup (IF RestOp(a) = "UPDATE" THEN {a.policies[i].check : i \in of} ELSE {})) \ {NoExpr}}

Guarded(a) == a.load # "no_table" /\ AuthContext(a).role # "service_role"

(* A request through /rest/v1 whose filters name columns and whose values  *)
(* have no quote and no backslash, to a table whose policies for the       *)
(* caller are all permissive, reads, changes and deletes exactly the rows  *)
(* that all its filters select, that one of these policies lets through    *)
(* when there is any, and that the rule of the table lets through: no      *)
(* filter and no policy widens another (buildFilterExpression,             *)
(* compileRlsExpression, executeSelect, handlePatch, handleDelete).        *)
RowsObeyPolicies ==
  /\ Answered("rest") /\ answer.status = 200 /\ asked.method \in {"get", "patch", "delete"}
  /\ Readable(asked.filters) /\ Allowing(asked, {"false"}) = {}
  => \A r \in AnyRow : Selects(answer.built, Unchanged(r)) <=>
       /\ \A i \in DOMAIN asked.filters : FilterHolds(asked.filters[i], r)
       /\ Guarded(asked) /\ Allowing(asked, {"true"}) # {} =>
            \E x \in Allowing(asked, {"true"}) : Holds(x, Unchanged(r))
       /\ RuleHolds(RestStatement(asked), r)

(* "RESTRICTIVE policies are combined with AND": a row that is reached     *)
(* obeys every restrictive policy for the caller.  Policies are stored     *)
(* with permissive 0 or 1, and 0 is not false.                             *)
RestrictiveRestricts ==
  Answered("rest") /\ answer.status = 200 /\ asked.method \in {"get", "patch", "delete"} /\ Guarded(asked) =>
    \A r \in AnyRow : Selects(answer.built, Unchanged(r)) =>
      \A x \in Allowing(asked, {"false"}) : Holds(x, Unchanged(r))
=============================================================================

------------------------------ MODULE BatchRun ------------------------------
(***************************************************************************)
(* How $DatabaseRawImpl runs what was prepared.  A prepared query has      *)
(* callbacks (onRun before the statement, onError or onSuccess and then    *)
(* after it); a prepared transaction holds queries and transactions, and   *)
(* may have callbacks of its own.  _exec runs one query, _execBatch all    *)
(* statements of a transaction in one batch.  $Database._runAction builds  *)
(* the largest of them: the guard of the action, then its statements.      *)
(***************************************************************************)
EXTENDS Integers, Sequences, SequencesExt, Exchange

(* sql: what the statement does when it runs ("empty": there is none);     *)
(* a group has `prepared' instead.  id is the place in the transaction.    *)
Query(onRun, onError, then, sql) ==
  [sort |-> "query", id |-> <<>>, onRun |-> onRun, onError |-> onError,
   then |-> then, sql |-> sql, prepared |-> <<>>]

Group(onRun, onError, then, prepared) ==
  [sort |-> "group", id |-> <<>>, onRun |-> onRun, onError |-> onError,
   then |-> then, sql |-> "ok", prepared |-> prepared]

Outcomes == {"ok", "fails"}

(* What the rest of $Database prepares: a select, one whose rows are       *)
(* mapped (by a function that may throw), a statement that carries files,  *)
(* an action's guard, a statement that came out empty; a select with its   *)
(* total, and an insert too large for one statement.                       *)
Queries ==
       {Query("none", "none", then, sql) : then \in {"none", "maps", "throws"}, sql \in Outcomes}
  \cup {Query(run, "returns", "none", sql) : run \in {"ok", "fails"}, sql \in Outcomes}
  \cup {Query("none", "throws", "none", sql) : sql \in Outcomes}
  \cup {Query("none", "none", "none", "empty")}

Plain(sql) == Query("none", "none", "none", sql)

Groups ==
       {Group("none", "none", "object", <<Plain(sql), Plain("ok")>>) : sql \in Outcomes}
  \cup {Group(run, "returns", "none", <<Plain(a), Plain(b)>>) :
          run \in {"ok", "fails"}, a \in Outcomes, b \in Outcomes}

Placed(items) ==
  [i \in DOMAIN items |->
     [items[i] EXCEPT !.id = <<i>>,
        !.prepared = [j \in DOMAIN @ |-> [@[j] EXCEPT !.id = <<i, j>>]]]]

Transactions ==
  {Group("none", "none", "none", Placed(items)) :
     items \in UNION {[1 .. n -> Queries \cup Groups] : n \in 1 .. 2}}

-----------------------------------------------------------------------------
(* Mutant: the empty statement keeps its place among those sent.           *)
RECURSIVE StatementsAll(_)
StatementsAll(t) ==
  FlattenSeq([i \in DOMAIN t.prepared |->
    IF t.prepared[i].sort = "group" THEN StatementsAll(t.prepared[i])
    ELSE <<t.prepared[i]>>])

(* collect: the statements of a transaction, in order.  An empty one is    *)
(* not sent, and its callbacks are not collected.                          *)
RECURSIVE Statements(_)
Statements(t) ==
  FlattenSeq([i \in DOMAIN t.prepared |->
    CASE t.prepared[i].sort = "group" -> Statements(t.prepared[i])
      [] t.prepared[i].sort = "query" ->
           IF t.prepared[i].sql = "empty" THEN <<>> ELSE <<t.prepared[i]>>])

(* The owners of onRun and onError, a group before its members; a query    *)
(* always has an onError, which calls the one it was prepared with.        *)
RECURSIVE Owners(_)
Owners(t) ==
  <<t>> \o FlattenSeq([i \in DOMAIN t.prepared |->
    CASE t.prepared[i].sort = "group" -> Owners(t.prepared[i])
      [] t.prepared[i].sort = "query" ->
           IF t.prepared[i].sql = "empty" THEN <<>> ELSE <<t.prepared[i]>>])

Starters(t) == SelectSeq(Owners(t), LAMBDA o : o.onRun # "none")
Handlers(t) == SelectSeq(Owners(t), LAMBDA o : o.sort = "query" \/ o.onError # "none")

(* The first failure: an onRun, or else a statement of the batch.          *)
Started(t) == \A i \in DOMAIN Starters(t) : Starters(t)[i].onRun = "ok"
Committed(t) == Started(t) /\ \A i \in DOMAIN Statements(t) : Statements(t)[i].sql # "fails"

-----------------------------------------------------------------------------
Raw == [error |-> "raw", of |-> <<>>]            \* what the database or onRun threw
SqlError(q) == [error |-> "sql", of |-> q.id]    \* the D1Error made of it
OwnError(o) == [error |-> "own", of |-> o.id]    \* what a handler throws instead
Multiple == [error |-> "multiple", of |-> <<>>]  \* "Multiple errors", status 400
NoError == [error |-> "none", of |-> <<>>]

(* Mutant: what a handler throws is logged and forgotten.                  *)
ToldQuietly(h, so) ==
  LET e == IF h.sort = "group" THEN Raw
           ELSE IF so.d1 # NoError THEN so.d1 ELSE SqlError(h)
  IN IF h.onError = "throws" THEN so
     ELSE [errors |-> IF e = so.d1 THEN so.errors ELSE Append(so.errors, e),
           d1 |-> IF e.error = "sql" THEN e ELSE so.d1]

(* onError(e, d1Error).  The first query to be told makes the D1Error, the *)
(* others are given it; a group is given the raw error and returns it.     *)
Told(h, so) ==
  LET e == IF h.sort = "group" THEN Raw
           ELSE IF so.d1 # NoError THEN so.d1 ELSE SqlError(h)
  IN CASE h.onError = "throws" -> [so EXCEPT !.errors = Append(@, OwnError(h))]
       [] h.onError # "throws" ->
            [errors |-> IF e = so.d1 THEN so.errors ELSE Append(so.errors, e),
             d1 |-> IF e.error = "sql" THEN e ELSE so.d1]

Failure(t) ==
  LET told == FoldLeft(LAMBDA so, h : Told(h, so), [errors |-> <<>>, d1 |-> NoError], Handlers(t))
  IN IF Len(told.errors) = 1 THEN told.errors[1] ELSE Multiple

-----------------------------------------------------------------------------
(* collectResults: walks the transaction again with a counter into the     *)
(* results.  A result is [of |-> whose, rows |-> which statement's].       *)
RowsOf(q) == [rows |-> q.id, shape |-> "array"]
NoRows == [rows |-> <<>>, shape |-> "array"]

RECURSIVE Collect(_, _, _)
Collect(t, sent, from) ==
  LET Step(so, p) ==
        IF p.sort = "group"
        THEN LET nested == Collect(p, sent, so.next)
             IN [next |-> nested.next, seen |-> so.seen \o nested.seen,
                 results |-> IF p.then = "object" THEN so.results
                             ELSE so.results \o nested.results]
        ELSE LET rows == IF p.sql = "empty" THEN NoRows ELSE RowsOf(sent[so.next])
             IN [next |-> IF p.sql = "empty" THEN so.next ELSE so.next + 1,
                 seen |-> Append(so.seen, [by |-> p.id, rows |-> rows.rows]),
                 results |-> IF p.then = "throws" THEN so.results
                             ELSE Append(so.results,
                                    [rows EXCEPT !.shape = IF p.then = "maps" THEN "mapped" ELSE @])]
  IN FoldLeft(Step, [next |-> from, seen |-> <<>>, results |-> <<>>], t.prepared)

(* _execBatch.                                                             *)
ExecBatch(t) ==
  LET collected == Collect(t, Statements(t), 1)
  IN IF Committed(t)
     THEN [part |-> "batch", error |-> NoError, committed |-> TRUE,
           seen |-> collected.seen, results |-> collected.results]
     ELSE [part |-> "batch", error |-> Failure(t), committed |-> FALSE,
           seen |-> <<>>, results |-> <<>>]

(* _exec: one query by itself; a mapping that throws gives null.           *)
Exec(q) ==
  LET fails == q.onRun = "fails" \/ q.sql = "fails"
      rows == IF q.sql = "empty" THEN NoRows ELSE RowsOf(q)
  IN [part |-> "batch", committed |-> ~fails,
      error |-> CASE ~fails -> NoError
                  [] fails /\ q.onError = "throws" -> OwnError(q)
                  [] fails /\ q.onError # "throws" -> SqlError(q),
      seen |-> IF fails THEN <<>> ELSE <<[by |-> q.id, rows |-> rows.rows]>>,
      results |-> IF fails \/ q.then = "throws" THEN <<>>
                  ELSE <<[rows EXCEPT !.shape = IF q.then = "maps" THEN "mapped" ELSE @]>>]

BatchAsked == {[part |-> "batch", transaction |-> t] : t \in Transactions}
BatchAnswer == ExecBatch(asked.transaction)

-----------------------------------------------------------------------------
(* $Database._runAction.  A guard that simplifies to a literal is decided  *)
(* at once; any other becomes the first statement of the batch, made to    *)
(* fail when it does not hold, and its onError throws 403 Forbidden.       *)
Guards == {"none", "true", "false", "sql_true", "sql_false"}

ActionAsked ==
  {[part |-> "action", known |-> known, requireAuth |-> requireAuth, uid |-> uid,
    dryRun |-> dryRun, params |-> params, guard |-> guard, sql |-> sql, steps |-> steps] :
     known \in BOOLEAN, requireAuth \in BOOLEAN, uid \in BOOLEAN, dryRun \in BOOLEAN,
     params \in {"valid", "invalid"}, guard \in Guards,
     sql \in {<<>>, <<"write">>, <<"write", "fails">>, <<"no_table">>},
     steps \in {<<>>, <<"write">>, <<"write", "refused">>, <<"files_fail">>}}

GuardQuery(a) ==
  CASE a.guard = "sql_true" -> <<Query("none", "throws", "none", "ok")>>
    [] a.guard = "sql_false" -> <<Query("none", "throws", "none", "fails")>>
    [] a.guard \notin {"sql_true", "sql_false"} -> <<>>

Statement(entry) ==
  CASE entry = "write" -> Plain("ok")
    [] entry = "fails" -> Plain("fails")
    [] entry = "files_fail" -> Query("ok", "returns", "none", "fails")

(* Mutant: the guard is a batch of its own.                               *)
ActionBatchApart(a) ==
  Group("none", "none", "none",
        Placed([i \in DOMAIN (a.sql \o a.steps) |-> Statement((a.sql \o a.steps)[i])]))

ActionBatch(a) ==
  Group("none", "none", "none",
        Placed(GuardQuery(a) \o [i \in DOMAIN (a.sql \o a.steps) |-> Statement((a.sql \o a.steps)[i])]))

Refusal(status) == [part |-> "action", status |-> status, wrote |-> FALSE]

(* The status an error is answered with: handlers throw Forbidden, several *)
(* errors are a ProcessError, and a D1Error is answered as 400.            *)
Status(error) ==
  CASE error.error = "none" -> 200
    [] error.error = "own" -> 403
    [] error.error \in {"multiple", "sql"} -> 400
    [] error.error = "raw" -> 500

(* The checks in the order they are made.  A step that the rules of its    *)
(* table refuse is refused while it is prepared.                           *)
RunAction(a) ==
  LET ran == ExecBatch(ActionBatch(a))
  IN CASE ~a.known -> Refusal(404)
       [] a.known /\ a.requireAuth /\ ~a.uid -> Refusal(401)
       [] a.known /\ (a.requireAuth => a.uid) ->
          CASE a.dryRun -> Refusal(200)
            [] ~a.dryRun /\ a.params = "invalid" -> Refusal(400)
            [] ~a.dryRun /\ a.params = "valid" /\ a.guard = "false" -> Refusal(403)
            [] ~a.dryRun /\ a.params = "valid" /\ a.guard # "false" ->
               CASE (a.sql = <<>>) = (a.steps = <<>>) -> Refusal(500)
                 [] a.sql = <<"no_table">> /\ a.steps = <<>> -> Refusal(500)
                 [] a.sql = <<>> /\ "refused" \in ToSet(a.steps) -> Refusal(403)
                 [] OTHER -> [part |-> "action", status |-> Status(ran.error),
                              wrote |-> ran.committed]

ActionAnswer == RunAction(asked)

-----------------------------------------------------------------------------
(* The results of a batch come back in one list and are handed out by a    *)
(* second walk over the transaction: each query is given the rows of its   *)
(* own statement, although empty statements were not sent.                 *)
RowsReachTheirQuery ==
  Answered("batch") =>
    \A i \in DOMAIN answer.seen : answer.seen[i].rows \in {answer.seen[i].by, <<>>}
      /\ (answer.seen[i].rows = <<>> =>
            \A s \in ToSet(Statements(asked.transaction)) : s.id # answer.seen[i].by)

(* A query means the same whether it is run by itself or as the only one   *)
(* of a transaction: the same error, the same effect and the same rows.    *)
AloneOrInBatch ==
  Answered("batch") /\ Len(asked.transaction.prepared) = 1
      /\ asked.transaction.prepared[1].sort = "query"
    => LET alone == Exec(asked.transaction.prepared[1])
       IN asked.transaction.prepared[1].sql # "empty" \/ asked.transaction.prepared[1].onRun = "none"
          => alone = answer

(* "If it fails, the entire transaction is rolled back"                    *)
(* (docs/actions-guide.md): nothing of an action is written unless its     *)
(* guard holds and every statement succeeds, wherever the guard is         *)
(* evaluated.                                                              *)
GuardStopsTheAction ==
  Answered("action") /\ answer.wrote =>
    /\ asked.guard \in {"none", "true", "sql_true"}
    /\ "fails" \notin ToSet(asked.sql) /\ "files_fail" \notin ToSet(asked.steps)
=============================================================================

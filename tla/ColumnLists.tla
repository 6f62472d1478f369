----------------------------- MODULE ColumnLists -----------------------------
(***************************************************************************)
(* The columns of statements on a table: those a caller is shown (a select *)
(* with its expansions, the returning clause, the SQL of an action), those *)
(* it may filter and order by, and those it may write.  A column may be    *)
(* hidden (noSelect), closed to inserts (noInsert) or to updates           *)
(* (noUpdate).  The table t has a uid, id, and refers to u by ref.         *)
(***************************************************************************)
EXTENDS Integers, Sequences, SequencesExt, FiniteSets, Exchange

ColumnsOf == [t |-> {"id", "a", "s", "ref"}, u |-> {"id", "b", "s"}]
Whole(table) == {<<table, c>> : c \in ColumnsOf[table]}
foreignKey == [c \in {"ref"} |-> <<"u", "id">>]

(* What a list may name.                                                   *)
Star == [i |-> "*"]
Name(c) == [i |-> "name", c |-> c]
Of(table, c) == [i |-> "of", t |-> table, c |-> c]
Lower(c) == [i |-> "lower", c |-> c]
Count == [i |-> "count"]
Literal == [i |-> "literal"]
As(x, name) == [i |-> "as", x |-> x, as |-> name]
Expand(of, args) == [i |-> "expand", of |-> of, args |-> args]
Match(of) == [i |-> "match", of |-> of]

-----------------------------------------------------------------------------
(* What is parsed shows some columns under a name, or is refused.          *)
Selected(shown, alias) == [shown |-> shown, alias |-> alias]
Bad == Selected({}, <<"bad">>)

(* createJsepContext: the columns of a table that a caller can name.       *)
Visible(a, table) == {c \in ColumnsOf[table] : a.admin \/ <<table, c>> \notin a.hidden}

(* Mutant: any column of the table can be named.                           *)
identUnseen(a, table, c) ==
  IF c \in ColumnsOf[table] THEN Selected({<<table, c>>}, <<table, c>>) ELSE Bad

ident(a, table, c) ==
  IF c \in Visible(a, table) THEN Selected({<<table, c>>}, <<table, c>>) ELSE Bad

(* treeToSql of an entry of a list; only the table itself can be named.    *)
EntryToSql(a, table, x) ==
  CASE x.i = "name" -> ident(a, table, x.c)
    [] x.i = "of" -> IF x.t = table THEN ident(a, table, x.c) ELSE Bad
    [] x.i = "lower" -> LET p == ident(a, table, x.c)
                        IN IF p = Bad THEN Bad ELSE Selected(p.shown, <<"lower", p.alias>>)
    [] x.i = "count" -> Selected({}, <<"count">>)
    [] x.i \in {"literal", "expand", "*", "match", "as"} -> Bad

(* The entry proper, and what it shows under the name that it is given.    *)
Bare(x) == IF x.i = "as" THEN x.x ELSE x
Renamed(x, p) == IF p = Bad \/ x.i # "as" THEN p ELSE Selected(p.shown, <<"as", x.as>>)

Entry(a, table, x) == Renamed(x, EntryToSql(a, table, Bare(x)))

Repeated(cols) == \E i, j \in DOMAIN cols : i # j /\ cols[i].alias = cols[j].alias
Shown(selected) == UNION {p.shown : p \in selected}

(* An expansion names a referenced table or the column that refers to it;  *)
(* the rows are found by that column and the one it refers to.             *)
Expansion(a, x) ==
  LET by == {c \in Visible(a, "t") \cap DOMAIN foreignKey :
               IF x.of \in DOMAIN ColumnsOf THEN foreignKey[c][1] = x.of ELSE c = x.of}
      table == foreignKey[CHOOSE c \in by : TRUE][1]
      cols == IF x.args = <<>> THEN [c \in Visible(a, table) |-> ident(a, table, c)]
              ELSE [i \in DOMAIN x.args |-> Entry(a, table, x.args[i])]
  IN IF by = {} \/ (\E c \in by : foreignKey[c][2] \notin Visible(a, foreignKey[c][1])) THEN Bad
     ELSE IF Bad \in Range(cols) \/ Repeated(cols) THEN Bad
     ELSE Selected(Shown(Range(cols)), <<"as", x.of>>)

(* parseColumnList: what is asked for beside *, by its place in the list;  *)
(* an expansion only in a select.                                          *)
parseColumnList(a, list, allowExpand) ==
  [i \in {k \in DOMAIN list : list[k] # Star} |->
     LET x == list[i]
     IN IF allowExpand /\ Bare(x).i = "expand" THEN Renamed(x, Expansion(a, Bare(x)))
        ELSE Entry(a, "t", x)]

parseColumnListOrder(a, list) ==
  {IF x.i = "name" THEN ident(a, "t", x.c) ELSE Bad : x \in ToSet(list)}

(* checkColsWildcard: * stands for the fields the caller may see, unless   *)
(* the table lets it through as it is; no name may come twice.             *)
Expanded(a) ==
  IF a.wildcard THEN {Selected(Whole("t"), <<"*">>)}
  ELSE {Selected({<<"t", c>>}, <<"field", c>>) : c \in Visible(a, "t")}

checkColsWildcard(a, list, cols) ==
  LET wild == IF Star \in ToSet(list) THEN Expanded(a) ELSE {}
  IN IF Repeated(cols) \/ (\E p \in wild, q \in Range(cols) : p.alias = q.alias) THEN {Bad}
     ELSE wild \cup Range(cols)

(* The condition, and handleSelectDeps: a search in the full text table    *)
(* joins it, for a column that it has.                                     *)
FilterColumn(a, x) ==
  CASE x.i # "match" -> EntryToSql(a, "t", x)
    [] x = Match("t") -> IF a.fts = {} THEN Bad ELSE Selected({"t"} \X a.fts, <<"match">>)
    [] x.i = "match" /\ x.of # "t" -> IF x.of \in a.fts THEN ident(a, "t", x.of) ELSE Bad

ReadAnswer(ok, shown, used) ==
  [part |-> "columns", ok |-> ok, shown |-> IF ok THEN shown ELSE {}, used |-> IF ok THEN used ELSE {}, written |-> {}]

(* rawSelect: a list that comes out empty is every column of the table.    *)
SelectColumns(a) ==
  LET list == IF a.list = <<>> THEN <<Star>> ELSE a.list
      asks == parseColumnList(a, list, TRUE)
      cols == checkColsWildcard(a, list, asks)
      used == parseColumnListOrder(a, a.order) \cup {FilterColumn(a, x) : x \in ToSet(a.where)}
  IN ReadAnswer(Bad \notin Range(asks) \cup cols \cup used,
                IF cols = {} THEN Whole("t") ELSE Shown(cols), Shown(used))

(* The returning clause of an insert, an update or a deletion.             *)
ReturningColumns(a) ==
  LET asks == parseColumnList(a, a.list, FALSE)
      cols == checkColsWildcard(a, a.list, asks)
  IN ReadAnswer(Bad \notin Range(asks) \cup cols, Shown(cols), {})

(* _expandReturningWildcard: the SQL of an action names what it likes.     *)
ActionColumns(a) ==
  ReadAnswer(TRUE, UNION {IF x = Star THEN {"t"} \X Visible(a, "t") ELSE {<<"t", x.c>>} : x \in ToSet(a.list)}, {})

-----------------------------------------------------------------------------
(* Writing: rows is the sequence of the sets of columns given.  Of an      *)
(* insert the first row is compared with what may be written, and the      *)
(* rows of each batch with the first of the batch.                         *)
batchSize == 5
BatchOf(i) == (i - 1) \div batchSize

SameKeys(rows) == \A i, j \in DOMAIN rows : BatchOf(i) = BatchOf(j) => rows[i] = rows[j]

WriteAnswer(status, written) ==
  [part |-> "columns", ok |-> status = 200, shown |-> {}, used |-> {},
   written |-> IF status = 200 THEN written ELSE {}]

InsertColumns(a, given) ==
  LET rows == [i \in DOMAIN given |-> IF a.autoSetUid THEN given[i] \cup {"id"} ELSE given[i]]
      known(row) == row \subseteq ColumnsOf["t"]
      status == IF ~a.skip /\ given[1] \cap a.noInsert # {} THEN 403
                ELSE IF ~known(rows[1]) THEN 400
                ELSE IF ~SameKeys(rows) THEN 500
                ELSE IF \E i \in DOMAIN rows : ~known(rows[i]) THEN 400 ELSE 200
  IN WriteAnswer(status, UNION ToSet(given))

UpdateColumns(a) ==
  LET set == a.rows[1]
      status == IF set = {} THEN 400
                ELSE IF ~a.skip /\ set \cap a.noUpdate # {} THEN 403
                ELSE IF ~(set \subseteq ColumnsOf["t"]) THEN 400 ELSE 200
  IN WriteAnswer(status, set)

(* rawEdit: with "INSERT" the record is replaced by a new one of its id.   *)
ColumnsAnswer ==
  CASE asked.op = "select" -> SelectColumns(asked)
    [] asked.op = "returning" -> ReturningColumns(asked)
    [] asked.op = "action" -> ActionColumns(asked)
    [] asked.op = "insert" -> InsertColumns(asked, asked.rows)
    [] asked.op = "replace" -> InsertColumns(asked, <<asked.rows[1] \cup {"id"}>>)
    [] asked.op \in {"update", "edit"} -> UpdateColumns(asked)

-----------------------------------------------------------------------------
(* Inputs.                                                                 *)
Reading == [part |-> "columns", op |-> "select", admin |-> FALSE, wildcard |-> FALSE, hidden |-> {},
         fts |-> {}, list |-> <<>>, order |-> <<>>, where |-> <<>>]

Hidden == SUBSET {<<"t", "s">>, <<"t", "ref">>, <<"u", "id">>, <<"u", "s">>} \cup {Whole("t")}

Entries == {Star, Name("a"), Name("s"), Of("t", "s"), Of("u", "s"), Lower("s"), Count, Literal,
            As(Name("s"), "x"), As(Name("a"), "x"), Expand("u", <<>>), Expand("t", <<>>),
            As(Expand("u", <<>>), "x"),
            Expand("ref", <<Name("b"), Name("s")>>), Expand("u", <<As(Name("s"), "x")>>),
            Expand("u", <<Expand("t", <<>>)>>)}

Lists == {<<>>} \cup {<<x>> : x \in Entries} \cup {<<x, y>> : x \in Entries, y \in Entries}

Used == {Name("a"), Name("s"), Of("t", "s"), Of("u", "s"), Match("t"), Match("a"), Match("s")}

Writing == [part |-> "columns", op |-> "insert", skip |-> FALSE, autoSetUid |-> FALSE,
          noInsert |-> {}, noUpdate |-> {}, rows |-> <<{"a"}>>]

InsertedColumns == {{"a"}, {"a", "s"}, {"a", "id"}, {"a", "none"}}
InsertedRows == UNION {{[i \in 1..n |-> IF i = k THEN second ELSE first] :
                  k \in 1..n, first \in InsertedColumns, second \in InsertedColumns} : n \in 1..(batchSize + 2)}

ColumnsInit ==
  \/ \E o \in {"select", "returning"}, l \in Lists, h \in Hidden, m \in BOOLEAN, w \in BOOLEAN :
       asked = [Reading EXCEPT !.op = o, !.list = l, !.hidden = h, !.admin = m, !.wildcard = w]
  \/ \E l \in {<<>>, <<Star>>, <<Name("s")>>, <<Name("a"), Star>>}, h \in Hidden, m \in BOOLEAN :
       asked = [Reading EXCEPT !.op = "action", !.list = l, !.hidden = h, !.admin = m]
  \/ \E o \in {<<>>, <<Name("a")>>, <<Name("a"), Name("s")>>}, w \in {<<>>} \cup {<<x>> : x \in Used},
        f \in SUBSET {"a", "s"}, h \in Hidden, m \in BOOLEAN :
       asked = [Reading EXCEPT !.order = o, !.where = w, !.fts = f, !.hidden = h, !.admin = m]
  \/ \E o \in {"insert", "replace"}, r \in InsertedRows, n \in SUBSET {"id", "s"}, u \in BOOLEAN, s \in BOOLEAN :
       asked = [Writing EXCEPT !.op = o, !.rows = r, !.noInsert = n, !.autoSetUid = u, !.skip = s]
  \/ \E o \in {"update", "edit"}, k \in InsertedColumns \cup {{}}, n \in SUBSET {"id", "s"}, s \in BOOLEAN :
       asked = [Writing EXCEPT !.op = o, !.rows = <<k>>, !.noUpdate = n, !.skip = s]

-----------------------------------------------------------------------------
Reads == {"select", "returning", "action"}
Inserts == {"insert", "replace"}

(* "value in this field cannot be get (except for admins)": whatever a     *)
(* caller asks for, it is shown no hidden column of either table and can   *)
(* neither filter nor order by one.  Excepted are a table that passes *    *)
(* through, one whose every column is hidden (an empty list is read as     *)
(* all), a search of the whole full text table and what the SQL of an      *)
(* action names.                                                           *)
HiddenStaysHidden ==
  Answered("columns") /\ answer.ok /\ asked.op \in Reads /\ ~asked.admin =>
    \A c \in (answer.shown \cup answer.used) \cap asked.hidden :
      \/ asked.wildcard /\ (Star \in ToSet(asked.list) \/ (asked.op = "select" /\ asked.list = <<>>))
      \/ Whole("t") \subseteq asked.hidden /\ asked.op = "select"
      \/ Match("t") \in ToSet(asked.where) /\ c \notin answer.shown /\ c[2] \in asked.fts
      \/ asked.op = "action" /\ Name(c[2]) \in ToSet(asked.list)

(* Clients write only columns that are open to them, in any row: a batch   *)
(* holds one set of columns, and the first row was looked at.  Excepted is *)
(* the uid where the table gives one to rows that have none.               *)
ClosedStaysClosed ==
  Answered("columns") /\ answer.ok /\ asked.op \notin Reads /\ ~asked.skip =>
    /\ asked.op \in Inserts /\ Len(asked.rows) <= batchSize =>
         answer.written \cap asked.noInsert \subseteq (IF asked.autoSetUid THEN {"id"} ELSE {})
    /\ asked.op \notin Inserts => answer.written \cap asked.noUpdate = {}

ColumnsKept == HiddenStaysHidden /\ ClosedStaysClosed

(* "value in this field cannot be inserted" (noInsert): not in any row of  *)
(* an insert.                                                              *)
NeverInserted ==
  Answered("columns") /\ answer.ok /\ asked.op \in Inserts /\ ~asked.skip =>
    answer.written \cap asked.noInsert \subseteq (IF asked.autoSetUid THEN {"id"} ELSE {})
=============================================================================

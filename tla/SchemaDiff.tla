----------------------------- MODULE SchemaDiff -----------------------------
(***************************************************************************)
(* Migrations from settings: validateTableChange compares the table that   *)
(* was deployed last with the one of the new settings, and alterTable      *)
(* turns the difference into statements.  A field is renamed by naming the *)
(* old one (lastName); what SQLite cannot alter is done by making the      *)
(* table anew and copying its rows.  A database runs the statements here,  *)
(* as one transaction: the first that fails undoes them all.               *)
(***************************************************************************)
EXTENDS Integers, Sequences, SequencesExt, FiniteSets, Exchange

CONSTANT ColumnNames  \* the names that columns are given in settings

NoName == "no"

(* A table of the settings: fields [name -> [def, was]], indexes           *)
(* [name -> column], triggers [name -> body], the columns of its full text *)
(* search ({}: none), and those that other tables refer to or that have a  *)
(* usage (kept).  "plain" columns can be added to a table, "unique" not.   *)
sqliteSupportedColumnAdd(def) == def # "unique"

(* The code appends random letters: no column has such a name.             *)
Temp(c) == c \o "_tmp"

ASSUME TempAssumption ==
  \A c \in ColumnNames : /\ c # NoName /\ Temp(c) \notin ColumnNames
                         /\ \A d \in ColumnNames : Temp(c) = Temp(d) => c = d

-----------------------------------------------------------------------------
(* validateTableChange: the field each field was before.                   *)
Named(next, last, f) == {l \in DOMAIN last.fields : l \in {f, next.fields[f].was}}

RenamedTo(next, l, f) == {g \in DOMAIN next.fields \ {f} : next.fields[g].was = l}

Before(next, last, f) ==
  LET left == {l \in Named(next, last, f) : RenamedTo(next, l, f) \ {l} = {}}
  IN CASE left = {} -> NoName
       [] next.fields[f].was \in left -> next.fields[f].was
       [] OTHER -> f

After(next, l) == {g \in DOMAIN next.fields : g = l \/ next.fields[g].was = l}

AmbiguousFields(next, last) ==
  \/ \E f \in DOMAIN next.fields : \E l \in Named(next, last, f) :
       Cardinality(RenamedTo(next, l, f)) > 1
  \/ \E l \in DOMAIN last.fields :
       /\ Cardinality(After(next, l)) > 1
       /\ ~(/\ Cardinality(After(next, l)) = 2
            /\ Cardinality({g \in After(next, l) : next.fields[g].was = l}) = 1)

(* validateFieldChange of a field and of the one it was (NoName: none): one *)
(* that other tables refer to, that has a usage or that is searched cannot *)
(* go away; what else differs between two is an alteration.                *)
validateFieldChange(next, last, f, l) ==
  CASE f = NoName -> IF l \in last.kept \cup next.fts THEN "refused" ELSE "drop"
    [] f # NoName /\ l = NoName -> "create"
    [] NoName \notin {f, l} ->
         IF f = l /\ next.fields[f] = last.fields[l] THEN "same" ELSE "alter"

Changes(next, last) ==
  LET was == [f \in DOMAIN next.fields |-> Before(next, last, f)]
      change == [f \in DOMAIN was |-> validateFieldChange(next, last, f, was[f])]
      gone == {l \in DOMAIN last.fields : After(next, l) = {}}
      changed == {f \in DOMAIN was : change[f] = "alter"}
  IN [was |-> was,
      create |-> {f \in DOMAIN was : change[f] = "create"},
      drop |-> {l \in gone : validateFieldChange(next, last, NoName, l) = "drop"},
      refused |-> {l \in gone : validateFieldChange(next, last, NoName, l) = "refused"},
      rename |-> {f \in changed : was[f] # f},
      alter |-> {f \in changed : next.fields[f].def # last.fields[was[f]].def},
      indexes |-> {i \in DOMAIN next.idx : i \notin DOMAIN last.idx \/ next.idx[i] # last.idx[i]},
      oldIndexes |-> {i \in DOMAIN last.idx : i \notin DOMAIN next.idx \/ next.idx[i] # last.idx[i]},
      triggers |-> {t \in DOMAIN next.trg : t \notin DOMAIN last.trg \/ next.trg[t] # last.trg[t]},
      oldTriggers |-> {t \in DOMAIN last.trg : t \notin DOMAIN next.trg \/ next.trg[t] # last.trg[t]},
      fts |-> next.fts # last.fts]

(* A renamed table names its last name and keeps the folder of its files;  *)
(* fields in use are neither dropped nor renamed.                          *)
Accepted(next, last, ch) ==
  /\ next.name # last.name => next.was = last.name /\ next.r2Base = last.name
  /\ ~AmbiguousFields(next, last)
  /\ ch.refused = {}
  /\ {ch.was[f] : f \in ch.rename} \cap last.kept = {}

-----------------------------------------------------------------------------
(* alterTable.                                                             *)
Each(f) == LET seq == SetToSeq(DOMAIN f) IN [i \in DOMAIN seq |-> f[seq[i]]]

CreateIndexes(t, S) == Each([i \in S |-> [do |-> "create index", key |-> <<t.name, i>>, col |-> t.idx[i]]])
DropIndexes(t, S) == Each([i \in S |-> [do |-> "drop index", key |-> <<t.name, i>>]])
CreateTriggers(t, S) == Each([x \in S |-> [do |-> "create trigger", key |-> <<t.name, x>>, body |-> t.trg[x]]])
DropTriggers(t, S) == Each([x \in S |-> [do |-> "drop trigger", key |-> <<t.name, x>>]])
CreateFts(t) == IF t.fts = {} THEN <<>> ELSE <<[do |-> "create fts", table |-> t.name, cols |-> t.fts]>>
DropFts(t) == IF t.fts = {} THEN <<>> ELSE <<[do |-> "drop fts", table |-> t.name]>>

NotPossible(next, last, ch) ==
  \/ \E c \in ch.drop : ~sqliteSupportedColumnAdd(last.fields[c].def)
  \/ \E f \in ch.create : ~sqliteSupportedColumnAdd(next.fields[f].def)
  \/ ch.alter # {}

(* Mutant: fields take their new names at once.                            *)
ColumnStatementsAtOnce(next, last, ch) ==
  LET added == {f \in ch.create : sqliteSupportedColumnAdd(next.fields[f].def)}
      renamed == IF next.name # last.name THEN <<[do |-> "rename table", to |-> next.name]>> ELSE <<>>
  IN (IF \A c \in ch.drop : sqliteSupportedColumnAdd(last.fields[c].def)
      THEN renamed \o Each([c \in ch.drop |-> [do |-> "drop column", col |-> c]]) ELSE <<>>)
     \o Each([f \in added |-> [do |-> "add column", col |-> f, def |-> next.fields[f].def]])
     \o Each([f \in ch.rename |-> [do |-> "rename column", col |-> ch.was[f], to |-> f]])

(* Columns dropped, added, renamed and given their names.  When a dropped  *)
(* one needs the table made anew, what was planned so far is forgotten,    *)
(* the renaming of the table included.                                     *)
ColumnStatements(next, last, ch) ==
  LET added == {f \in ch.create : sqliteSupportedColumnAdd(next.fields[f].def)}
      renamed == IF next.name # last.name THEN <<[do |-> "rename table", to |-> next.name]>> ELSE <<>>
  IN (IF \A c \in ch.drop : sqliteSupportedColumnAdd(last.fields[c].def)
      THEN renamed \o Each([c \in ch.drop |-> [do |-> "drop column", col |-> c]]) ELSE <<>>)
     \o Each([f \in added |-> [do |-> "add column", col |-> Temp(f), def |-> next.fields[f].def]])
     \o Each([f \in ch.rename |-> [do |-> "rename column", col |-> ch.was[f], to |-> Temp(f)]])
     \o Each([f \in added \cup ch.rename |-> [do |-> "rename column", col |-> Temp(f), to |-> f]])

(* Mutant: indexes are left alone when columns change.                     *)
alterTableKeepsIndexes(next, last, ch) ==
  LET columns == ColumnStatements(next, last, ch)
      anew == NotPossible(next, last, ch)
      moved == next.name # last.name
      copied == DOMAIN next.fields \ ch.create
  IN DropTriggers(last, IF moved THEN DOMAIN last.trg ELSE ch.oldTriggers)
     \o DropIndexes(last, IF moved THEN DOMAIN last.idx ELSE ch.oldIndexes)
     \o (IF (ch.fts \/ moved) /\ ~anew THEN DropFts(last) ELSE <<>>)
     \o columns
     \o (IF anew THEN <<[do |-> "recreate", table |-> next, copied |-> copied]>>
         ELSE CreateIndexes(next, IF moved THEN DOMAIN next.idx ELSE ch.indexes)
              \o CreateTriggers(next, IF moved THEN DOMAIN next.trg ELSE ch.triggers)
              \o (IF ch.fts \/ moved THEN CreateFts(next) ELSE <<>>))

alterTable(next, last, ch) ==
  LET columns == ColumnStatements(next, last, ch)
      anew == NotPossible(next, last, ch)
      moved == next.name # last.name
      clear == moved \/ columns # <<>>
      copied == DOMAIN next.fields \ ch.create
  IN DropTriggers(last, IF moved THEN DOMAIN last.trg ELSE ch.oldTriggers)
     \o DropIndexes(last, IF clear THEN DOMAIN last.idx ELSE ch.oldIndexes)
     \o (IF (ch.fts \/ moved) /\ ~anew THEN DropFts(last) ELSE <<>>)
     \o columns
     \o (IF anew THEN <<[do |-> "recreate", table |-> next, copied |-> copied]>>
         ELSE CreateIndexes(next, IF clear THEN DOMAIN next.idx ELSE ch.indexes)
              \o CreateTriggers(next, IF moved THEN DOMAIN next.trg ELSE ch.triggers)
              \o (IF ch.fts \/ moved THEN CreateFts(next) ELSE <<>>))

-----------------------------------------------------------------------------
(* The database: the table's columns [name -> [def, from]] (from: the      *)
(* column of the last table its values come from), indexes and triggers by *)
(* name, and full text tables with the triggers on the table that fill     *)
(* them (hooks).                                                           *)
NewColumn(def) == [def |-> def, from |-> NoName]
Without(f, k) == [x \in DOMAIN f \ {k} |-> f[x]]
With(f, k, v) == [x \in DOMAIN f \cup {k} |-> IF x = k THEN v ELSE f[x]]

Possible(db, s) ==
  CASE s.do = "drop column" -> /\ s.col \in DOMAIN db.cols /\ db.cols[s.col].def # "unique"
                               /\ \A i \in DOMAIN db.idx : db.idx[i] # s.col
                               /\ \A h \in DOMAIN db.hooks : s.col \notin db.hooks[h]
    [] s.do = "add column" -> s.col \notin DOMAIN db.cols
    [] s.do = "rename column" -> s.col \in DOMAIN db.cols /\ s.to \notin DOMAIN db.cols
    [] s.do = "create index" -> s.key \notin DOMAIN db.idx /\ s.col \in DOMAIN db.cols /\ s.key[1] = db.name
    [] s.do = "create trigger" -> s.key \notin DOMAIN db.trg /\ s.key[1] = db.name
    [] s.do = "create fts" -> s.table \notin DOMAIN db.fts /\ s.table = db.name /\ s.cols \subseteq DOMAIN db.cols
    [] s.do = "recreate" -> s.table.name = db.name /\ s.copied \subseteq DOMAIN db.cols
    [] s.do \in {"rename table", "drop index", "drop trigger", "drop fts"} -> TRUE

ToName(c, s) == IF c = s.col THEN s.to ELSE c

(* createTableQuery on what is left of the database, with given columns.   *)
NewTable(db, t, cols) ==
  [db EXCEPT !.name = t.name, !.cols = cols,
             !.idx = [k \in {<<t.name, i>> : i \in DOMAIN t.idx} |-> t.idx[k[2]]],
             !.trg = [k \in {<<t.name, x>> : x \in DOMAIN t.trg} |-> t.trg[k[2]]],
             !.fts = IF t.fts = {} THEN Without(@, t.name) ELSE With(@, t.name, t.fts),
             !.hooks = [h \in (IF t.fts = {} THEN {} ELSE {t.name}) |-> t.fts]]

Done(db, s) ==
  CASE s.do = "rename table" -> [db EXCEPT !.name = s.to]
    [] s.do = "drop column" -> [db EXCEPT !.cols = Without(@, s.col)]
    [] s.do = "add column" -> [db EXCEPT !.cols = With(@, s.col, NewColumn(s.def))]
    [] s.do = "rename column" ->
         [db EXCEPT !.cols = With(Without(@, s.col), s.to, @[s.col]),
                    !.idx = [i \in DOMAIN @ |-> ToName(@[i], s)],
                    !.hooks = [h \in DOMAIN @ |-> {ToName(c, s) : c \in @[h]}]]
    [] s.do = "drop index" -> [db EXCEPT !.idx = Without(@, s.key)]
    [] s.do = "create index" -> [db EXCEPT !.idx = With(@, s.key, s.col)]
    [] s.do = "drop trigger" -> [db EXCEPT !.trg = Without(@, s.key)]
    [] s.do = "create trigger" -> [db EXCEPT !.trg = With(@, s.key, s.body)]
    [] s.do = "drop fts" -> [db EXCEPT !.fts = Without(@, s.table), !.hooks = Without(@, s.table)]
    [] s.do = "create fts" -> [db EXCEPT !.fts = With(@, s.table, s.cols), !.hooks = With(@, s.table, s.cols)]
    [] s.do = "recreate" ->
         NewTable(db, s.table,
               [f \in DOMAIN s.table.fields |->
                  [def |-> s.table.fields[f].def,
                   from |-> IF f \in s.copied THEN db.cols[f].from ELSE NoName]])

(* The statements run in order; from the first that fails on nothing does. *)
Step(so, s) ==
  IF so.ok /\ Possible(so.db, s) THEN [ok |-> TRUE, db |-> Done(so.db, s)]
  ELSE [ok |-> FALSE, db |-> so.db]

Executed(db, statements) ==
  LET run[n \in 0 .. Len(statements)] ==
        IF n = 0 THEN [ok |-> TRUE, db |-> db] ELSE Step(run[n - 1], statements[n])
  IN run[Len(statements)]

Empty == [name |-> NoName, cols |-> [c \in {} |-> NoName], idx |-> [c \in {} |-> NoName],
          trg |-> [c \in {} |-> NoName], fts |-> [c \in {} |-> {}], hooks |-> [c \in {} |-> {}]]

(* createTable, on an empty database.                                      *)
Created(t, from) == NewTable(Empty, t, [f \in DOMAIN t.fields |-> [def |-> t.fields[f].def, from |-> from[f]]])

SchemaAnswer ==
  LET last == asked.last
      next == asked.next
      ch == Changes(next, last)
      run == Executed(Created(last, [f \in DOMAIN last.fields |-> f]), alterTable(next, last, ch))
  IN IF ~Accepted(next, last, ch) THEN [part |-> "schema", accepted |-> FALSE, ok |-> FALSE, db |-> Empty]
     ELSE [part |-> "schema", accepted |-> TRUE, ok |-> run.ok, db |-> run.db]

-----------------------------------------------------------------------------
(* Inputs: two columns and what can be said about them.                    *)
TableNames == {"a", "b"}
ColumnKinds == {"plain", "unique"}
None == [x \in {} |-> NoName]

Table(name, was, fields, idx, trg, fts, kept) ==
  [name |-> name, was |-> was, r2Base |-> IF was = NoName THEN "" ELSE was, fields |-> fields,
   idx |-> idx, trg |-> trg, fts |-> fts, kept |-> kept]

Fields(names, was) == UNION {[S -> [def : ColumnKinds, was : was]] : S \in SUBSET names \ {{}}}
Indexes(fields) == {None} \cup {[i \in {"k"} |-> c] : c \in DOMAIN fields} \cup {[c \in DOMAIN fields |-> c]}
Triggers == {None} \cup {[x \in {"x"} |-> body] : body \in {"one", "two"}}

LastTables(idx, trg, fts, kept) ==
  UNION {{Table("t", NoName, f, i, t, s, k) :
            i \in (IF idx THEN Indexes(f) ELSE {None}), t \in (IF trg THEN Triggers ELSE {None}),
            s \in (IF fts THEN SUBSET DOMAIN f ELSE {{}}), k \in (IF kept THEN SUBSET DOMAIN f ELSE {{}})} :
           f \in Fields(TableNames, {NoName})}

NextTables(name, was, names, idx, trg, fts) ==
  UNION {{Table(name, IF name = "t" THEN NoName ELSE "t", f, i, t, s, {}) :
            i \in (IF idx THEN Indexes(f) ELSE {None}), t \in (IF trg THEN Triggers ELSE {None}),
            s \in (IF fts THEN SUBSET DOMAIN f ELSE {{}})} : f \in Fields(names, was)}

Ask(last, next) == \E l \in last, n \in next : asked = [part |-> "schema", last |-> l, next |-> n]

SchemaInit ==
  \/ Ask(LastTables(FALSE, FALSE, FALSE, TRUE),
         NextTables("t", TableNames \cup {"c", NoName}, TableNames \cup {"c"}, FALSE, FALSE, FALSE))
  \/ Ask(LastTables(TRUE, FALSE, FALSE, FALSE), NextTables("t", TableNames \cup {NoName}, TableNames, TRUE, FALSE, FALSE))
  \/ \E name \in {"t", "u"} :
       \/ Ask(LastTables(FALSE, FALSE, TRUE, FALSE),
              NextTables(name, TableNames \cup {NoName}, TableNames, FALSE, FALSE, TRUE))
       \/ Ask(LastTables(FALSE, TRUE, FALSE, FALSE), NextTables(name, {NoName}, TableNames, FALSE, TRUE, FALSE))

-----------------------------------------------------------------------------
(* What the settings mean: a field is what it says it was, if that was a   *)
(* field; without a word it is the field of its name, unless another says  *)
(* to have been that one.                                                  *)
Meant(next, last) ==
  [f \in DOMAIN next.fields |->
     CASE next.fields[f].was \in DOMAIN last.fields -> next.fields[f].was
       [] next.fields[f].was \notin DOMAIN last.fields /\ f \in DOMAIN last.fields
            /\ RenamedTo(next, f, f) = {} -> f
       [] OTHER -> NoName]

(* A migration that is generated and runs to its end leaves the table that *)
(* the new settings create on an empty database, with every column's       *)
(* values where the settings say they come from (alterTable).  The full    *)
(* text search is excepted when fields are renamed and its settings read   *)
(* as before: its triggers then follow the columns, not their names.       *)
MigrationGivesTable ==
  Answered("schema") /\ answer.ok =>
    LET want == Created(asked.next, Meant(asked.next, asked.last))
        ch == Changes(asked.next, asked.last)
    IN /\ answer.db.name = want.name /\ answer.db.cols = want.cols
       /\ answer.db.idx = want.idx /\ answer.db.trg = want.trg
       /\ ch.rename = {} \/ ch.fts =>
            answer.db.hooks = want.hooks /\ \A t \in DOMAIN want.fts : answer.db.fts[t] = want.fts[t]

(* It runs to its end when it is accepted, unless a renamed table or field *)
(* comes with a column that cannot be dropped in place, a field takes the  *)
(* name of one that goes away, or a column of the full text search is      *)
(* dropped while the table is made anew.                                   *)
AcceptedMigrationRuns ==
  Answered("schema") /\ answer.accepted =>
    LET ch == Changes(asked.next, asked.last)
        anew == NotPossible(asked.next, asked.last, ch)
    IN \/ answer.ok
       \/ anew /\ asked.next.name # asked.last.name
       \/ anew /\ ch.drop \cap asked.last.fts # {}
       \/ \E f \in ch.rename : f \in DOMAIN asked.last.fields /\ \A g \in ch.rename : ch.was[g] # f
=============================================================================

------------------------------ MODULE SqlText ------------------------------
(***************************************************************************)
(* SQL as text: how a migration is split into the statements of a batch    *)
(* (splitter.ts) and how the command line puts parameters into a statement *)
(* (replaceSqlPlaceholders.ts).  Both read the text one character after    *)
(* the other with the same rules for quotes and comments.  A text is a     *)
(* sequence of tokens: a character that the readers tell apart, or a word. *)
(***************************************************************************)
EXTENDS Integers, Sequences, SequencesExt, Exchange

Blank == {" ", "\n"}
Quotes == {"'", "dq", "bq"}
Words == {"w", "BEGIN", "CASE", "END", "TRANSACTION", "COMMIT"}

-----------------------------------------------------------------------------
(* The reader.  It is in the code, after a "-" or "/" that may begin a     *)
(* comment, in a name after "$", or skips to a marker.  read is what the   *)
(* statement holds so far, skipped what was skipped.                       *)
Reader == [mode |-> "code", marker |-> <<>>, skipped |-> <<>>, keep |-> TRUE,
           read |-> <<>>, depth |-> 0, statements |-> <<>>]

Skip(s, marker, keep) ==
  [s EXCEPT !.mode = "skip", !.marker = marker, !.skipped = <<>>, !.keep = keep]

Read(s, tok) == [s EXCEPT !.mode = "code", !.read = Append(@, tok)]

(* A BEGIN or CASE between blanks opens a compound statement.              *)
Compound(s) ==
  LET n == Len(s.read)
  IN IF n >= 3 /\ s.read[n] \in Blank /\ s.read[n - 1] \in {"BEGIN", "CASE"}
          /\ s.read[n - 2] \in Blank
       THEN [s EXCEPT !.depth = @ + 1] ELSE s


(* An END after a blank and before a blank or ";" closes one.              *)
CompoundEnd(s, tok) ==
  LET n == Len(s.read)
  IN IF s.depth > 0 /\ tok \in Blank \cup {";"} /\ n >= 2
          /\ s.read[n] = "END" /\ s.read[n - 1] \in Blank
       THEN [s EXCEPT !.depth = @ - 1] ELSE s

Char(before, tok) ==
  LET s == CompoundEnd(before, tok)
  IN CASE tok \in Quotes -> Skip(Read(s, tok), <<tok>>, TRUE)
       [] tok \in {"-", "/"} -> [s EXCEPT !.mode = tok]
       [] tok = "$" -> [Read(s, tok) EXCEPT !.mode = "$", !.skipped = <<"$">>]
       [] tok = ";" /\ s.depth = 0 ->
            [s EXCEPT !.statements = Append(@, s.read), !.read = <<>>]
       [] OTHER -> Compound(Read(s, tok))

(* A skip ends with its marker; a line comment leaves its end of line.     *)
Skipping(s, tok) ==
  LET skipped == Append(s.skipped, tok)
      read == IF s.keep THEN Append(s.read, tok)
              ELSE IF s.marker = <<"\n">> /\ tok = "\n" THEN Append(s.read, "\n") ELSE s.read
  IN IF IsSuffix(s.marker, skipped)
       THEN Compound([s EXCEPT !.mode = "code", !.skipped = <<>>, !.marker = <<>>, !.read = read])
       ELSE [s EXCEPT !.skipped = skipped, !.read = read]

(* The character after "-" or "/".                                         *)
Comment(s, tok) ==
  CASE s.mode = "-" /\ tok = "-" -> Skip(s, <<"\n">>, FALSE)
    [] s.mode = "/" /\ tok = "*" -> Skip(s, <<"*", "/">>, FALSE)
    [] OTHER -> Char(Read(s, s.mode), tok)

(* A name after "$" is read up to the first character that is not of it,   *)
(* that one included; "$name$" opens a text that ends with the same.       *)
Dollar(s, tok) ==
  LET name == Append(s.skipped, tok)
  IN CASE tok \in Words -> [s EXCEPT !.read = Append(@, tok), !.skipped = name]
       [] tok = "$" -> Skip(Read(s, tok), name, TRUE)
       [] OTHER -> Compound(Read(s, tok))

ReadToken(s, tok) ==
  CASE s.mode = "code" -> Char(s, tok)
    [] s.mode = "skip" -> Skipping(s, tok)
    [] s.mode \in {"-", "/"} -> Comment(s, tok)
    [] s.mode = "$" -> Dollar(s, tok)

(* What is left when the text ends.                                        *)
LastStatement(s) == IF s.mode \in {"-", "/"} THEN Append(s.read, s.mode) ELSE s.read

RECURSIVE Trim(_)
Trim(text) ==
  IF text # <<>> /\ text[1] \in Blank THEN Trim(Tail(text))
  ELSE IF text # <<>> /\ Last(text) \in Blank THEN Trim(Front(text)) ELSE text

splitSqlIntoStatements(text) ==
  LET s == FoldLeft(ReadToken, Reader, text)
      trimmed == [i \in 1 .. Len(s.statements) + 1 |->
                    Trim(Append(s.statements, LastStatement(s))[i])]
  IN SelectSeq(trimmed, LAMBDA t : t # <<>>)

(* With no ";" but perhaps the last one, the text is one statement.        *)
mayContainMultipleStatements(text) ==
  LET trimmed == Trim(text)
      first == {i \in DOMAIN trimmed :
                  trimmed[i] = ";" /\ \A j \in 1 .. i - 1 : trimmed[j] # ";"}
  IN first # {} /\ first # {Len(trimmed)}

(* trimSqlQuery: for the dump of a database, the transaction around it is  *)
(* cut, wherever in the text its words are first found.                    *)
Occurrences(text, part) ==
  {i \in 1 .. Len(text) - Len(part) + 1 : SubSeq(text, i, i + Len(part) - 1) = part}

CutFirst(text, part) ==
  LET found == Occurrences(text, part)
  IN IF found = {} THEN text
     ELSE SubSeq(text, 1, Min(found) - 1) \o SubSeq(text, Min(found) + Len(part), Len(text))

BeginTransaction == <<"BEGIN", " ", "TRANSACTION">>
mayContainTransaction(text) == Occurrences(text, BeginTransaction) # {}

trimSqlQuery(text) ==
  IF mayContainTransaction(text)
    THEN CutFirst(CutFirst(text, Append(BeginTransaction, ";")), <<"COMMIT", ";">>)
    ELSE text

(* What is left of a transaction is an error.                              *)
splitSqlQuery(text) ==
  LET trimmed == trimSqlQuery(text)
      split == splitSqlIntoStatements(trimmed)
  IN [error |-> mayContainTransaction(trimmed),
      statements |-> IF mayContainMultipleStatements(trimmed) /\ split # <<>>
                       THEN split ELSE <<trimmed>>]

-----------------------------------------------------------------------------
(* Placeholders.  The reader is the same, but it keeps the comments, and   *)
(* knows no statements.                                                    *)
escapeSqlValue(value) ==
  <<"'">> \o FlattenSeq([i \in DOMAIN value |->
               IF value[i] = "'" THEN <<"'", "'">> ELSE <<value[i]>>]) \o <<"'">>

Unread == [reader |-> Reader, text |-> <<>>, params |-> <<>>, error |-> FALSE]

(* Mutant: a "?" anywhere is a placeholder.                                *)
IsPlaceholderAnywhere(s, tok) == tok = "?"

IsPlaceholder(s, tok) ==
  tok = "?" /\ (s.mode \in {"code", "-", "/"})

Place(p, tok) ==
  LET next == [p EXCEPT !.reader = ReadToken([p.reader EXCEPT !.depth = 0], tok)]
  IN CASE p.error -> p
       [] ~p.error /\ ~IsPlaceholder(p.reader, tok) -> [next EXCEPT !.text = Append(@, tok)]
       [] ~p.error /\ IsPlaceholder(p.reader, tok) ->
            IF p.params = <<>> THEN [next EXCEPT !.error = TRUE]
            ELSE [next EXCEPT !.text = @ \o escapeSqlValue(Head(p.params)),
                              !.params = Tail(@)]

replaceSqlPlaceholders(text, params) ==
  FoldLeft(Place, [Unread EXCEPT !.params = params], text)

-----------------------------------------------------------------------------
(* What is asked: statements as they are written, in pieces of code,       *)
(* quoted text and comments.                                               *)
Piece(kind, text) == [kind |-> kind, text |-> text]
Code(text) == Piece("code", text)
Quoted(text) == Piece("quote", text)
Remark(text) == Piece("comment", text)

StatementForms == {
  <<Code(<<"w">>)>>,
  <<Code(<<"w", " ", "?">>)>>,
  <<Code(<<"w", "-", "?", "/", "w">>)>>,
  <<Code(<<"w", " ">>), Quoted(<<"'", "?", ";", "'">>)>>,
  <<Quoted(<<"'", "w", "'", "'", ";", "'">>), Code(<<"w">>)>>,
  <<Quoted(<<"dq", "-", "-", ";", "dq">>), Code(<<" ", "?">>)>>,
  <<Quoted(<<"$", "w", "$", ";", "?", "'", "$", "w", "$">>), Code(<<" ", "w">>)>>,
  <<Code(<<"w">>), Remark(<<"-", "-", ";", "?", "'", "\n">>), Code(<<"w">>)>>,
  <<Code(<<"w">>), Remark(<<"/", "*", "/", ";", "?", "*", "/">>), Code(<<"?">>)>>,
  <<Code(<<"w", " ", "BEGIN", " ", "w", ";", " ", "w", ";", " ", "END">>)>>,
  <<Code(<<"w", " ", "CASE", " ", "?", " ", "END", " ", "w">>)>>,
  <<Code(<<"w", "\n", "BEGIN", "\n", "w", " ", "CASE", " ", "w", " ", "END", ";", "w", ";",
           "\n", "END">>)>>,
  <<Code(<<"w", " ">>), Quoted(<<"'", "COMMIT", ";", "'">>)>>,
  <<Code(<<"w", " ">>), Quoted(<<"'", "BEGIN", " ", "TRANSACTION", "'">>)>> }

BeginStatement == <<Code(BeginTransaction)>>
CommitStatement == <<Code(<<"COMMIT">>)>>

AsWritten(form) == FlattenSeq([i \in DOMAIN form |-> form[i].text])

(* The statement without its remarks; a line remark leaves its end.        *)
Source(form) ==
  FlattenSeq([i \in DOMAIN form |->
    IF form[i].kind # "comment" THEN form[i].text
    ELSE IF Last(form[i].text) = "\n" THEN <<"\n">> ELSE <<>>])

Join(forms, sep) ==
  FlattenSeq([i \in DOMAIN forms |->
    IF i = Len(forms) THEN AsWritten(forms[i]) ELSE AsWritten(forms[i]) \o sep])

ParamValues == { <<"w">>, <<"'", ";">>, <<"?">> }

SqlTextAsked ==
  [part : {"split"},
   forms : UNION {[1 .. n -> StatementForms] : n \in 1 .. 3}
             \cup {<<BeginStatement, f, g, last>> : f \in StatementForms, g \in StatementForms,
                                           last \in {BeginStatement, CommitStatement}},
   sep : {<<";">>, <<";", "\n">>}, ended : BOOLEAN]
  \cup
  [part : {"place"}, forms : UNION {[1 .. n -> StatementForms] : n \in 1 .. 2},
   params : UNION {[1 .. n -> ParamValues] : n \in 0 .. 2}]

AskedText ==
  IF asked.part = "place" THEN Join(asked.forms, <<";">>)
  ELSE Join(asked.forms, asked.sep) \o (IF asked.ended THEN asked.sep ELSE <<>>)

SplitAnswer ==
  LET q == splitSqlQuery(AskedText)
  IN [part |-> "split", error |-> q.error, statements |-> q.statements]

PlaceAnswer ==
  LET p == replaceSqlPlaceholders(AskedText, asked.params)
  IN [part |-> "place", error |-> p.error, text |-> p.text]

-----------------------------------------------------------------------------
(* A dump begins and commits a transaction of its own.                     *)
IsDump == Head(asked.forms) = BeginStatement /\ Last(asked.forms) = CommitStatement /\ asked.ended

Expected ==
  IF IsDump THEN SubSeq(asked.forms, 2, Len(asked.forms) - 1) ELSE asked.forms

(* A statement that is read as the begin or the end of a transaction, also *)
(* where it only quotes it.                                                *)
Mentions(form) ==
  \/ mayContainTransaction(AsWritten(form))
  \/ IsDump /\ Occurrences(AsWritten(form), <<"COMMIT", ";">>) # {}


(* The placeholders of a statement, and only they, get the parameters in   *)
(* their order; too few are refused.                                       *)
Pieces == FlattenSeq([i \in DOMAIN asked.forms |->
            IF i = Len(asked.forms) THEN asked.forms[i]
            ELSE Append(asked.forms[i], Code(<<";">>))])

PlacesBefore(i) ==
  FlattenSeq([j \in 1 .. i - 1 |->
    IF Pieces[j].kind = "code" THEN SelectSeq(Pieces[j].text, LAMBDA t : t = "?") ELSE <<>>])

Filled(i) ==
  LET text == Pieces[i].text
      nth(k) == Len(PlacesBefore(i)) + Len(SelectSeq(SubSeq(text, 1, k), LAMBDA t : t = "?"))
  IN IF Pieces[i].kind # "code" THEN text
     ELSE FlattenSeq([k \in DOMAIN text |->
            IF text[k] = "?" THEN escapeSqlValue(asked.params[nth(k)]) ELSE <<text[k]>>])

PlaceholdersFilled ==
  Answered("place") =>
    IF Len(PlacesBefore(Len(Pieces) + 1)) > Len(asked.params) THEN answer.error
    ELSE ~answer.error /\ answer.text = FlattenSeq([i \in DOMAIN Pieces |-> Filled(i)])
=============================================================================

------------------------------ MODULE MCAnswers ------------------------------
(* The parts that keep no state, each asked all of its bounded inputs.     *)
EXTENDS BatchRun, Policies, ColumnLists, SchemaDiff, SqlText, Identity

AnswersInit ==
  /\ answer = NotYet
  /\ \/ asked \in BatchAsked
     \/ asked \in ActionAsked
     \/ asked \in ConditionsAsked
     \/ asked \in StatementsAsked
     \/ asked \in RestAsked
     \/ ColumnsInit
     \/ SchemaInit
     \/ asked \in SqlTextAsked
     \/ asked \in IdentityAsked

AnswersNext ==
  \/ Serve("batch", BatchAnswer)
  \/ Serve("action", ActionAnswer)
  \/ Serve("condition", ConditionAnswer)
  \/ Serve("statement", StatementAnswer)
  \/ Serve("rest", RestAnswer)
  \/ Serve("columns", ColumnsAnswer)
  \/ Serve("schema", SchemaAnswer)
  \/ Serve("split", SplitAnswer)
  \/ Serve("place", PlaceAnswer)
  \/ Serve("identity", IdentityAnswer)

AnswersSpec == AnswersInit /\ [][AnswersNext]_exchangeVars
=============================================================================

SPECIFICATION AnswersSpec
INVARIANTS
  NeverInserted
CHECK_DEADLOCK FALSE

CONSTANTS
  AuthTables = {"users", "staff"}
  ColumnNames = {"a", "b", "c"}

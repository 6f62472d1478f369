SPECIFICATION AnswersSpec
INVARIANTS
  RestrictiveRestricts
CHECK_DEADLOCK FALSE

CONSTANTS
  AuthTables = {"users", "staff"}
  ColumnNames = {"a", "b", "c"}

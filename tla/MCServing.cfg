SPECIFICATION ServingSpec
CONSTANTS
  p1 = p1
  p2 = p2
  n1 = n1
  n2 = n2
  k1 = k1
  k2 = k2
  e1 = e1
  Requests = {p1, p2}
  maxAttempts = 2
  windowSeconds = 2
  lockoutSeconds = 3
  MaxTime = 7
  MaxCalls = 5
  Calls = {p1, p2}
  Keys = {k1, k2}
  Names = {n1, n2}
  FileOps = {"insert", "update", "clear", "refer", "delete"}
  rowsPerStatement = 1
  MaxLost = 1
  Checks = {p1, p2}
  Kids = {n1, n2}
  JWKS_CACHE_TTL = 2
  JustFetched = 1
  MaxInstant = 4
  Visits = {p1, p2}
  Isolates = {n1, n2}
  NoIsolate = none
  MaxCut = 1
  Events = {k1, k2, e1}
  Since = 1
  Interval = 1
  Overlap = 1
  PageLimit = 1
  SEEN_IDS_MAX = 2
  SEEN_IDS_PRUNE = 1
  MaxDelay = 2
  MaxEnd = 4
  Users = {n1, n2}
  Commands = {p1, p2}
  NoLogin = none
  MaxSessions = 2
  MaxRenewals = 2
  MaxInterrupts = 1
  AuthTables = {"users", "staff"}
  ColumnNames = {"a", "b", "c"}
SYMMETRY Swaps
INVARIANTS
  BurstsWithinLimit
  RecordsHaveTheirFiles
  NoOrphans
  RotatedKeyFound
  RetiredKeyForgotten
  FlagMeansSeeded
  PrintedOnce
  NothingMissed
  SavedLoginRenews
  RowsReachTheirQuery
  AloneOrInBatch
  GuardStopsTheAction
  SimplifyKeepsRows
  RowsObeyRule
  RowsAskedFor
  RowsObeyPolicies
  MigrationGivesTable
  AcceptedMigrationRuns
  
  PlaceholdersFilled
  IdentityIsProven
  ColumnsKept
CHECK_DEADLOCK FALSE

SPECIFICATION InstalledSpec
CONSTANTS
  d1 = d1
  d2 = d2
  i1 = i1
  i2 = i2
  Deployers = {d1, d2}
  FolderUsers = {}
  Installers = {}
  InfraEntries = {"kv"}
  Tables = {"notes", "users"}
  Defs = {"v1"}
  NoTable = "none"
  Rank <- TableRank
  MaxStamp = 2
INVARIANTS
  SchemaFollowsSettings
  ReplayByIdGivesSchema
PROPERTIES
  NoLostUpdate
  ImplementsAtomicDeploy
CHECK_DEADLOCK FALSE

SPECIFICATION DeployingSpec
CONSTANTS
  d1 = d1
  i1 = i1
  i2 = i2
  Deployers = {d1}
  FolderUsers = {}
  Installers = {i1, i2}
  InfraEntries = {"kv", "identities"}
  Tables = {"notes"}
  Defs = {"v1"}
  NoTable = "none"
  Rank <- TableRank
  MaxStamp = 1
  Runners = {"ci", "dev"}
  Declared = {"v1", "v2"}
  NoConfig = "none"
  NoTables = "tableless"
  MaxEdits = 1
  MaxUnheard = 1
INVARIANTS
  WorkerServesCommitted
PROPERTIES
  SetupAloneConverges
  RepeatedDeployConverges
CHECK_DEADLOCK FALSE

SPECIFICATION Spec
CONSTANTS
  d1 = d1
  d2 = d2
  i1 = i1
  i2 = i2
  Deployers = {d1}
  FolderUsers = {d1}
  Installers = {i1}
  InfraEntries = {"kv"}
  Tables = {"notes"}
  Defs = {"v1"}
  NoTable = "none"
  Rank <- TableRank
  MaxStamp = 2
INVARIANTS
  IterationWorks

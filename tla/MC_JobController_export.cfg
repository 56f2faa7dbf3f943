\* One export, healthy database.
CONSTANTS
  ri1 = ri1
  ri2 = ri2
  ri3 = ri3
  rx1 = rx1
  k1 = k1
  wi1 = wi1
  wi2 = wi2
  wx1 = wx1
  NoKey = NoKey
  NoJob = NoJob
  ImportReqs = {}
  ExportReqs = {rx1}
  Keys = {k1}
  ImportWorkers = {}
  ExportWorkers = {wx1}
  QueueSize = 1
  KeyTableWorks = TRUE
  DBMayFail = FALSE
  MayExpire = FALSE
  MayShutdown = FALSE
SPECIFICATION Spec

PROPERTY
  LifecycleRefined

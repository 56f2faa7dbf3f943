\* Two imports, a channel of capacity one, healthy database.
CONSTANTS
  ri1 = ri1
  ri2 = ri2
  ri3 = ri3
  rx1 = rx1
  k1 = k1
  wi1 = wi1
  wi2 = wi2
  wx1 = wx1
  NoKey = NoKey
  NoJob = NoJob
  ImportReqs = {ri1, ri2}
  ExportReqs = {}
  Keys = {k1}
  ImportWorkers = {wi1}
  ExportWorkers = {}
  QueueSize = 1
  KeyTableWorks = TRUE
  DBMayFail = FALSE
  MayExpire = FALSE
  MayShutdown = FALSE
SPECIFICATION Spec

PROPERTY
  AcceptedJobsFinish

\* Imports only, a failing database, key expiry and shutdown: every status write is a forward step of the job state machine.
CONSTANTS
  ri1 = ri1
  ri2 = ri2
  ri3 = ri3
  rx1 = rx1
  k1 = k1
  wi1 = wi1
  wi2 = wi2
  wx1 = wx1
  NoKey = NoKey
  NoJob = NoJob
  ImportReqs = {ri1, ri2}
  ExportReqs = {}
  Keys = {k1}
  ImportWorkers = {wi1}
  ExportWorkers = {}
  QueueSize = 1
  KeyTableWorks = TRUE
  DBMayFail = TRUE
  MayExpire = TRUE
  MayShutdown = TRUE
SPECIFICATION Spec

INVARIANT
  TypeOK
PROPERTY
  LifecycleRefined

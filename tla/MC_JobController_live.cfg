\* Three imports sharing a key and an export, room in the queues, the shipped key table (its statements fail), healthy database, no shutdown.
CONSTANTS
  ri1 = ri1
  ri2 = ri2
  ri3 = ri3
  rx1 = rx1
  k1 = k1
  wi1 = wi1
  wi2 = wi2
  wx1 = wx1
  NoKey = NoKey
  NoJob = NoJob
  ImportReqs = {ri1, ri2, ri3}
  ExportReqs = {rx1}
  Keys = {k1}
  ImportWorkers = {wi1}
  ExportWorkers = {wx1}
  QueueSize = 3
  KeyTableWorks = FALSE
  DBMayFail = FALSE
  MayExpire = FALSE
  MayShutdown = FALSE
SPECIFICATION Spec

PROPERTIES
  AcceptedJobsFinish

\* One users import job over every file of up to three rows and one users
\* export request, on a database that may fail any call and a client that
\* may go away.
CONSTANTS
  e1 = e1
  e2 = e2
  i1 = i1
  i2 = i2
  e3 = e3
  i3 = i3
  j1 = j1
  j2 = j2
  NoVal = NoVal
  Jobs = {j1}
  Emails = {e1, e2, e3}
  Ids = {i1, i2, i3}
  Files <- SingleJobFiles
  InitUsers <- ExportStartTables
  BatchSize = 2
  DBMayFail = TRUE
  ExportBatchSize = 2
  WriteMayFail = TRUE
SPECIFICATION FullSpec
INVARIANTS
  FullTypeOK
  FirstOccurrenceWins
  ParsedRowsFaithful
  FinalCountersConsistent
  JournalFaithful
  StreamFaithful
  CompleteExport
  FailedJSONUnterminated
PROPERTIES
  SurvivorsWritten
  PercentageMonotonic

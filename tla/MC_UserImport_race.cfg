\* Two jobs, healthy database, empty table, only fresh ids: the same new e-mail in both files.
CONSTANTS
  e1 = e1
  e2 = e2
  i1 = i1
  i2 = i2
  j1 = j1
  j2 = j2
  NoVal = NoVal
  Jobs = {j1, j2}
  Emails = {e1, e2}
  Ids = {i1, i2}
  Files <- FreshIdFiles
  InitUsers <- EmptyTable
  BatchSize = 1
  DBMayFail = FALSE
SPECIFICATION Spec
INVARIANT
  PerRowErrorsNeverFailJob

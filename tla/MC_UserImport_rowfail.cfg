\* One job, healthy database: a file whose rows clash on id or with an existing user.
CONSTANTS
  e1 = e1
  e2 = e2
  i1 = i1
  i2 = i2
  j1 = j1
  j2 = j2
  NoVal = NoVal
  Jobs = {j1}
  Emails = {e1, e2}
  Ids = {i1, i2}
  Files <- RowFiles
  InitUsers <- StartTables
  BatchSize = 2
  DBMayFail = FALSE
SPECIFICATION Spec
INVARIANT
  PerRowErrorsNeverFailJob

CONSTANTS
  a1 = a1  a2 = a2  s1 = s1  s2 = s2  u1 = u1  u2 = u2
  NoVal = NoVal
  BadUUID = BadUUID
  ArticleIds = {a1, a2}
  Slugs = {s1, s2}
  UserIds = {u1, u2}
  Users = {u1}
  Files <- ArticleFiles
  InitArticles <- ArticleTables
  MaxRows = 2
  BatchSize = 2
  DBMayFail = FALSE
  ProgressMayFail = FALSE
SPECIFICATION Spec
INVARIANT ConstraintsPreEnforced

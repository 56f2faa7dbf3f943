CONSTANTS
  a1 = a1  a2 = a2  s1 = s1  s2 = s2  u1 = u1  u2 = u2  c1 = c1
  NoVal = NoVal
  BadUUID = BadUUID
  MaxCommentWords = 1
  ArticleIds = {a1, a2}
  Slugs = {s1, s2}
  CommentIds = {c1}
  UserIds = {u1, u2}
  Users = {u1}
  ArticleFiles <- ArticleFileSet
  CommentFiles <- CommentFileSet
  InitArticles <- ArticleTables
  InitComments <- CommentTables
  MaxArticleRows = 3
  MaxCommentRows = 3
  BatchSize = 2
  DBMayFail = TRUE
  ProgressMayFail = FALSE
SPECIFICATION Spec
INVARIANTS TypeOK ArticleSurvivorsChecked CommentConstraintsPreEnforced
  CommentBodyRuleEnforced
PROPERTIES ArticleSurvivorsWritten

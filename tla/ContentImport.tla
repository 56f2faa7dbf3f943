---------------------------- MODULE ContentImport ----------------------------
(***************************************************************************)
(* An articles import job and a comments import job running at once on two *)
(* workers of the pool (Pool.Start gives each its goroutine). They share   *)
(* the articles table: the articles job upserts it while the comments job  *)
(* checks its article references against it (MarkInvalidFKComments) and   *)
(* then inserts comments that reference it.                                *)
(***************************************************************************)
EXTENDS Functions

CONSTANTS ArticleIds, Slugs, CommentIds, UserIds, Users, NoVal, BadUUID,
          MaxCommentWords,
          ArticleFiles, CommentFiles, MaxArticleRows, MaxCommentRows,
          InitArticles, InitComments,
          BatchSize, DBMayFail, ProgressMayFail

VARIABLES
  aFile, aLineNumber, aPc, aJob, aCursor, aStagingBatch, aStaging,
  aTotalRows, aValidRows, aInvalidRows, aValidationErrors, aPromoted, aSuccessfulInserts, aJobErrors,
  aMarkFailed, aProcessErr,
  cFile, cLineNumber, cPc, cJob, cCursor, cStagingBatch, cStaging,
  cTotalRows, cValidRows, cInvalidRows, cValidationErrors, cPromoted, cSuccessfulInserts, cJobErrors,
  cMarkFailed, cProcessErr,
  articles, comments

articleVars == <<aFile, aLineNumber, aPc, aJob, aCursor, aStagingBatch,
                 aStaging, aTotalRows, aValidRows, aInvalidRows, aValidationErrors,
                 aPromoted, aSuccessfulInserts, aJobErrors, aMarkFailed,
                 aProcessErr>>
commentVars == <<cFile, cLineNumber, cPc, cJob, cCursor, cStagingBatch,
                 cStaging, cTotalRows, cValidRows, cInvalidRows, cValidationErrors,
                 cPromoted, cSuccessfulInserts, cJobErrors, cMarkFailed,
                 cProcessErr>>
vars == <<articleVars, commentVars, articles, comments>>

A == INSTANCE ArticleImport
       WITH Files <- ArticleFiles, MaxRows <- MaxArticleRows, file <- aFile,
            lineNumber <- aLineNumber, pc <- aPc, job <- aJob,
            cursor <- aCursor, stagingBatch <- aStagingBatch,
            staging <- aStaging, totalRows <- aTotalRows,
            validRows <- aValidRows, invalidRows <- aInvalidRows,
            validationErrors <- aValidationErrors, promoted <- aPromoted,
            successfulInserts <- aSuccessfulInserts, jobErrors <- aJobErrors,
            markFailed <- aMarkFailed, processErr <- aProcessErr

C == INSTANCE CommentImport
       WITH MaxRows <- MaxCommentRows, file <- cFile, lineNumber <- cLineNumber,
            pc <- cPc, job <- cJob, cursor <- cCursor,
            stagingBatch <- cStagingBatch, staging <- cStaging,
            totalRows <- cTotalRows, validRows <- cValidRows,
            invalidRows <- cInvalidRows, validationErrors <- cValidationErrors,
            promoted <- cPromoted, successfulInserts <- cSuccessfulInserts,
            jobErrors <- cJobErrors, markFailed <- cMarkFailed,
            processErr <- cProcessErr

Init == A!Init /\ C!Init

(* A step of the articles worker, the comments worker standing still. *)
ArticleWorker == A!Next /\ UNCHANGED <<commentVars, comments>>

(* A step of the comments worker; it never writes the articles table. *)
CommentWorker == C!Next /\ UNCHANGED articleVars

Next == ArticleWorker \/ CommentWorker

(* Each worker runs its job to the end; failing database calls are never  *)
(* forced.                                                                 *)
Spec == Init /\ [][Next]_vars
        /\ WF_vars(A!Step /\ UNCHANGED <<commentVars, comments>>)
        /\ WF_vars(C!Step /\ UNCHANGED articleVars)

-----------------------------------------------------------------------------
TypeOK == A!TypeOK /\ C!TypeOK

(* The articles job's survivors are first slug occurrences with a known   *)
(* author (ArticleImport!SurvivorsChecked).                                *)
ArticleSurvivorsChecked == A!SurvivorsChecked

(* When processArticlesImport finishes, the id of every surviving staging *)
(* row is in the articles table: the last, partial batch of the cursor     *)
(* included.                                                               *)
ArticleSurvivorsWritten ==
  [][A!FinishImport =>
       \A s \in Range(A!Survivors) : A!ToArticle(s).id \in A!ArticleIdsOf(articles)]_vars

(* The comments job never fails on a constraint of the comments table     *)
(* when its marks ran, whatever the articles job wrote between the FK mark *)
(* and CreateBatch (CommentImport!ConstraintsPreEnforced).                 *)
CommentConstraintsPreEnforced == C!ConstraintsPreEnforced

(* The comments job stages a row as valid only under the body rules of  *)
(* the spec (CommentImport!BodyRuleEnforced).                               *)
CommentBodyRuleEnforced == C!BodyRuleEnforced
=============================================================================

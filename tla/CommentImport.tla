---------------------------- MODULE CommentImport ----------------------------
(***************************************************************************)
(* One comments import job: ProcessImport and processCommentsImport        *)
(* (src/internal/service/import/parsers/format.go), the staging_comments   *)
(* statements of StagingRepository (staging_repo.go) and the batch upsert  *)
(* CommentRepository.CreateBatch (src/unnamed/part_000).                   *)
(*                                                                         *)
(* The comments table references articles(id) and users(id); CreateBatch  *)
(* is INSERT ... ON CONFLICT (id) DO UPDATE. The pipeline only marks       *)
(* duplicate ids within the file and missing article or user ids: a        *)
(* comment has no natural key besides its id. The articles table is read, *)
(* never written, here; an articles job may write it meanwhile.            *)
(***************************************************************************)
EXTENDS Naturals, Sequences, FiniteSets, SequencesExt, Parsers

CONSTANTS
  CommentIds,    \* the comment UUIDs a file may carry
  ArticleIds,    \* the article UUIDs a comment may reference
  UserIds,       \* the user UUIDs a comment may reference
  Users,         \* the ids in the users table
  NoVal,         \* an empty field: NULL in the staging table
  BadUUID,       \* a non-empty id that does not parse as a UUID
  MaxCommentWords, \* models.MaxCommentWords (500)
  CommentFiles,  \* the files the job may be given
  MaxRows,       \* a bound on the lines of those files
  InitArticles,  \* the articles tables the database may hold at the start
  InitComments,  \* the comments tables the database may hold at the start
  BatchSize,     \* s.config.BatchSize
  DBMayFail,     \* whether a database call may return an error
  ProgressMayFail \* whether UpdateProgress, SetTotalRecords, AddErrors and
                  \* GetByID, whose errors the pipeline ignores, may fail

(* A character of a comment body as countWords sees it: unicode.IsSpace, *)
(* unicode.IsPunct, or any other code point.                               *)
CharClass == {"space", "punct", "letter"}

(* An input record: a malformed line (nil record), or the fields of a     *)
(* CommentImport; the body is its sequence of characters.                  *)
Row == [kind : {"record", "malformed", "empty", "oversized", "header"},
        id : CommentIds \cup {NoVal, BadUUID},
        article : ArticleIds \cup {NoVal, BadUUID},
        user : UserIds \cup {NoVal, BadUUID},
        body : Seq(CharClass), createdAt : {NoVal, "rfc3339", "garbled"}]

ASSUME {NoVal, BadUUID} \cap (CommentIds \cup ArticleIds \cup UserIds) = {}
ASSUME NoVal # BadUUID
ASSUME MaxCommentWords \in Nat
ASSUME Users \subseteq UserIds
ASSUME CommentFiles \subseteq [name : Extensions, lines : Seq(Row)] /\ CommentFiles # {}
ASSUME MaxRows \in Nat /\ \A f \in CommentFiles : Len(f.lines) <= MaxRows
ASSUME BatchSize \in Nat \ {0}
ASSUME DBMayFail \in BOOLEAN
ASSUME ProgressMayFail \in BOOLEAN /\ (ProgressMayFail => DBMayFail)

(* uuid.New() in convertStagingToComment for a row without an id. *)
GenId(n) == <<"comment", n>>
Comment == [id : CommentIds \cup {GenId(n) : n \in 1..MaxRows},
            article : ArticleIds, user : UserIds]

StagingRow == [row : 1..MaxRows, id : CommentIds \cup {NoVal, BadUUID},
               article : ArticleIds \cup {NoVal, BadUUID},
               user : UserIds \cup {NoVal, BadUUID},
               isValid : BOOLEAN, isDuplicate : BOOLEAN]

Phase == {"start", "parse", "dupBatch", "fk", "promote", "complete",
          "failing", "done"}
Status == {"pending", "processing", "completed", "failed"}
JobRecord == [status : Status, total : Nat, processed : Nat,
              successful : Nat, failed : Nat]

VARIABLES
  file,              \* the uploaded file: its extension and lines
  lineNumber,        \* the parser's lineNumber
  pc,                \* where the worker is in ProcessImport
  job,               \* the jobs table row
  cursor,            \* the next line of the file the parser reads
  stagingBatch,      \* rows buffered before CreateStagingComments
  staging,           \* staging_comments rows, in staging_id order
  totalRows, validRows, invalidRows,   \* processCommentsImport's counters
  validationErrors,  \* the validator errors awaiting recordValidationErrors, in order
  promoted,          \* survivors already handed to CreateBatch
  successfulInserts, \* rows reported written by CreateBatch
  jobErrors,         \* the job_errors rows of the job: the errors journaled
  markFailed,        \* a mark statement returned an error that was discarded
  processErr,        \* the error the pipeline returned: "none", "db",
                     \* "constraint" or "parse" (a parser error)
  comments,          \* the comments table
  articles           \* the articles table, read by the FK checks

vars == <<file, lineNumber, pc, job, cursor, stagingBatch, staging, totalRows,
          validRows, invalidRows, validationErrors, promoted, successfulInserts,
          jobErrors, markFailed, processErr, comments, articles>>

-----------------------------------------------------------------------------
(* Helpers                                                                 *)

ArticleIdsOf(as) == {a.id : a \in as}

(* Mutant: only unicode.IsSpace separates words. *)
RECURSIVE CountWordsSpaceOnlyFrom(_, _)
CountWordsSpaceOnlyFrom(s, inWord) ==
  IF s = <<>> THEN 0
  ELSE IF Head(s) = "space" THEN CountWordsSpaceOnlyFrom(Tail(s), FALSE)
  ELSE (IF inWord THEN 0 ELSE 1) + CountWordsSpaceOnlyFrom(Tail(s), TRUE)

countWordsSpaceOnly(s) == IF s = <<>> THEN 0 ELSE CountWordsSpaceOnlyFrom(s, FALSE)

(* The loop of countWords from a character on, inWord carried along: a   *)
(* space or punctuation ends a word, any other character starts one when   *)
(* not in a word.                                                          *)
RECURSIVE CountWordsFrom(_, _)
CountWordsFrom(s, inWord) ==
  IF s = <<>> THEN 0
  ELSE IF Head(s) \in {"space", "punct"} THEN CountWordsFrom(Tail(s), FALSE)
  ELSE (IF inWord THEN 0 ELSE 1) + CountWordsFrom(Tail(s), TRUE)

(* countWords: an empty body has no words. *)
countWords(s) == IF s = <<>> THEN 0 ELSE CountWordsFrom(s, FALSE)

(* CommentValidator.ValidateCommentImport: the field and code of each     *)
(* error.                                                                  *)
ValidateCommentImport(r) ==
  LET E(f, c) == {[field |-> f, code |-> c]}
      None == {}
  IN (IF r.id = BadUUID THEN E("id", "INVALID_UUID") ELSE None)
     \cup (IF r.article = NoVal THEN E("article_id", "MISSING_FIELD")
           ELSE IF r.article = BadUUID THEN E("article_id", "INVALID_ARTICLE")
           ELSE None)
     \cup (IF r.user = NoVal THEN E("user_id", "MISSING_FIELD")
           ELSE IF r.user = BadUUID THEN E("user_id", "INVALID_USER")
           ELSE None)
     \cup (IF r.body = <<>> THEN E("body", "BODY_EMPTY")
           ELSE IF countWords(r.body) > MaxCommentWords
                THEN E("body", "BODY_TOO_LONG") ELSE None)
     \cup (IF r.createdAt = "garbled"
           THEN E("created_at", "INVALID_TIMESTAMP") ELSE None)

IsValidRecord(r) == r.kind = "record" /\ ValidateCommentImport(r) = {}

(* A ValidationError: the row it names and which of the row's errors it  *)
(* is; the validator's errors for record r at row n, in the order they are *)
(* appended to validationErrors.                                           *)
ErrorEntry == [row : 1..MaxRows, k : Nat \ {0}]
RowErrors(r, n) == [k \in 1..Cardinality(ValidateCommentImport(r)) |-> [row |-> n, k |-> k]]

(* The staging row processComment builds for row n; a nil record carries  *)
(* only its row number.                                                    *)
ToStaging(r, n) ==
  IF IsNilRecord(r)
  THEN [row |-> n, id |-> NoVal, article |-> NoVal, user |-> NoVal,
        isValid |-> FALSE, isDuplicate |-> FALSE]
  ELSE [row |-> n, id |-> r.id, article |-> r.article, user |-> r.user,
        isValid |-> IsValidRecord(r), isDuplicate |-> FALSE]

(* GetValidStagingComments: is_valid AND NOT is_duplicate, by staging_id. *)
Survivors == SelectSeq(staging, LAMBDA s : s.isValid /\ ~s.isDuplicate)

(* convertStagingToComment: the staged id, or uuid.New() when empty. *)
ToComment(s) ==
  [id |-> IF s.id = NoVal THEN GenId(s.row) ELSE s.id,
   article |-> s.article, user |-> s.user]

(* CreateBatch's statement, row by row: a row replaces the comment with   *)
(* its id or is inserted; it fails on an id the statement already touched  *)
(* or a missing article or user, and then rolls back.                      *)
RECURSIVE UpsertComments(_, _, _)
UpsertComments(batch, tbl, touched) ==
  IF batch = <<>> THEN [ok |-> TRUE, table |-> tbl]
  ELSE LET c == Head(batch)
       IN IF \/ c.id \in touched
             \/ c.article \notin ArticleIdsOf(articles)
             \/ c.user \notin Users
          THEN [ok |-> FALSE, table |-> tbl]
          ELSE UpsertComments(Tail(batch),
                              {t \in tbl : t.id # c.id} \cup {c},
                              touched \cup {c.id})

Lines == file.lines

(* ProcessImport: DetectFormat(filepath.Ext(job.FilePath)); the comments   *)
(* pipeline takes the CSV parser when format.IsCSV() and NDJSON otherwise, *)
(* the same split as IsNDJSON.                                             *)
Fmt == DetectFormat(file.name)

(* The parser exists: NDJSON at once, CSV once NewCSVParser read the header. *)
ParserReady == IsNDJSON(Fmt) \/ cursor > 1

(* The parser is at a line, and what it does with it. *)
AtLine == ParserReady /\ cursor <= Len(Lines)
NextStep == ParseStep(Fmt, Lines[cursor])

(* processComment flushes a full buffer; a nil record returns before. *)
ProcessCommentFlushes ==
  /\ AtLine
  /\ NextStep.callback
  /\ ~IsNilRecord(Lines[cursor])
  /\ Len(stagingBatch) + 1 >= BatchSize

(* Where a database call whose error fails the job is made. *)
AtDBCall ==
  \/ pc = "parse" /\ (ProcessCommentFlushes \/
                      (ParserReady /\ cursor > Len(Lines)
                       /\ stagingBatch # <<>>))
  \/ pc = "promote" /\ promoted < Len(Survivors)

(* An UPDATE of the staging rows at positions D to invalid; a duplicate   *)
(* mark also sets is_duplicate.                                            *)
MarkRows(st, D, dup) ==
  [i \in DOMAIN st |-> IF i \in D
                       THEN [st[i] EXCEPT !.isValid = FALSE,
                                          !.isDuplicate = dup \/ @]
                       ELSE st[i]]

(* CreateStagingComments: one multi-row INSERT in a transaction; the rows  *)
(* follow the job's earlier rows in staging_id order, all or none.         *)
CreateStagingComments(rows) == staging' = staging \o rows

(* CleanupStagingComments: DELETE of the job's staging rows; its error is  *)
(* ignored, and leftover rows are read by no other job.                    *)
CleanupStagingComments == staging' = <<>>

(* The outcomes of a database call: it may return an error when the      *)
(* database may fail.                                                      *)
DBOk == IF DBMayFail THEN BOOLEAN ELSE {TRUE}

(* A write to the jobs row whose error is ignored (UpdateProgress,        *)
(* SetTotalRecords): the row becomes newJob or stays as it was.            *)
ProgressOk == IF ProgressMayFail THEN BOOLEAN ELSE {TRUE}
IgnoredJobWrite(newJob) == \E ok \in ProgressOk : job' = IF ok THEN newJob ELSE job

(* recordValidationErrors: the list of the validator's errors cut into    *)
(* chunks of BatchSize errors (a boundary may split one row's errors), one *)
(* AddErrors transaction per chunk that inserts the whole chunk or         *)
(* nothing; its error is ignored and the loop goes on.                     *)
RecordValidationErrors ==
  LET s == validationErrors
      n == (Len(s) + BatchSize - 1) \div BatchSize
      last(c) == IF c * BatchSize <= Len(s) THEN c * BatchSize ELSE Len(s)
      C == [c \in 1..n |-> Range(SubSeq(s, (c - 1) * BatchSize + 1, last(c)))]
  IN \E committed \in IF ProgressMayFail THEN SUBSET DOMAIN C ELSE {DOMAIN C} :
       jobErrors' = jobErrors \cup UNION {C[c] : c \in committed}

(* A mark statement whose error is discarded with _: it updates the rows  *)
(* at D, or fails and updates nothing.                                     *)
MarkOutcome(D, dup) ==
  \E ok \in DBOk :
    IF ok THEN /\ staging' = MarkRows(staging, D, dup)
               /\ UNCHANGED markFailed
          ELSE /\ markFailed' = TRUE
               /\ UNCHANGED staging

-----------------------------------------------------------------------------
Init ==
  /\ file \in CommentFiles
  /\ articles \in InitArticles
  \* the database's foreign keys hold in the tables it starts with
  /\ comments \in {t \in InitComments : \A c \in t : c.article \in ArticleIdsOf(articles)}
  /\ pc = "start"
  /\ job = [status |-> "pending", total |-> 0, processed |-> 0,
            successful |-> 0, failed |-> 0]
  /\ lineNumber = 0
  /\ cursor = 1
  /\ stagingBatch = <<>>
  /\ staging = <<>>
  /\ totalRows = 0 /\ validRows = 0 /\ invalidRows = 0
  /\ validationErrors = <<>>
  /\ promoted = 0
  /\ successfulInserts = 0
  /\ jobErrors = {}
  /\ markFailed = FALSE
  /\ processErr = "none"

(* ProcessImport: SetStarted; on an error the job is left pending. *)
SetStarted ==
  /\ pc = "start"
  /\ \E ok \in DBOk :
       IF ok THEN /\ job' = [job EXCEPT !.status = "processing"]
                  /\ pc' = "parse"
             ELSE /\ pc' = "done"
                  /\ UNCHANGED job
  /\ UNCHANGED <<file, lineNumber, cursor, stagingBatch, staging, totalRows,
                 validRows, invalidRows, validationErrors, promoted,
                 successfulInserts, jobErrors, markFailed, processErr,
                 comments, articles>>

(* processCommentsImport on a CSV file: NewCSVParser reads the header    *)
(* row; a file with none fails the job ("failed to create CSV parser").   *)
NewCSVParser ==
  /\ pc = "parse"
  /\ ~ParserReady
  /\ IF Lines = <<>>
     THEN /\ pc' = "failing"
          /\ processErr' = "parse"
          /\ UNCHANGED <<cursor, lineNumber>>
     ELSE /\ cursor' = 2
          /\ lineNumber' = FirstLineNumber("csv")
          /\ UNCHANGED <<pc, processErr>>
  /\ UNCHANGED <<file, job, stagingBatch, staging, totalRows, validRows,
                 invalidRows, validationErrors, promoted, successfulInserts,
                 jobErrors, markFailed, comments, articles>>

(* A line ParseComments reads without calling back: an empty line, or a  *)
(* CSV row encoding/csv fails to read.                                     *)
SkipLine ==
  /\ pc = "parse"
  /\ AtLine
  /\ ~NextStep.callback /\ ~NextStep.fail
  /\ cursor' = cursor + 1
  /\ lineNumber' = IF NextStep.count THEN lineNumber + 1 ELSE lineNumber
  /\ UNCHANGED <<file, pc, job, stagingBatch, staging, totalRows, validRows,
                 invalidRows, validationErrors, promoted, successfulInserts,
                 jobErrors, markFailed, processErr, comments, articles>>

(* The NDJSON scanner stops on a line over its buffer: ParseComments      *)
(* returns scanner.Err() and processCommentsImport returns it.            *)
ScanError ==
  /\ pc = "parse"
  /\ AtLine
  /\ NextStep.fail
  /\ pc' = "failing"
  /\ processErr' = "parse"
  /\ UNCHANGED <<file, lineNumber, job, cursor, stagingBatch, staging,
                 totalRows, validRows, invalidRows, validationErrors, promoted,
                 successfulInserts, jobErrors, markFailed, comments, articles>>

(* The parser callback processComment for one row: count it, stage it,    *)
(* keep the validator's errors, and flush a full buffer with               *)
(* CreateStagingComments and UpdateProgress. A malformed row returns       *)
(* before the flush check.                                                 *)
ProcessComment ==
  /\ pc = "parse"
  /\ AtLine
  /\ NextStep.callback
  /\ LET n   == lineNumber + 1
         r   == Lines[cursor]
         buf == Append(stagingBatch, ToStaging(r, n))
         tot == totalRows + 1
         val == validRows + (IF IsValidRecord(r) THEN 1 ELSE 0)
         inv == invalidRows + (IF IsValidRecord(r) THEN 0 ELSE 1)
     IN /\ cursor' = cursor + 1
        /\ lineNumber' = n
        /\ totalRows' = tot
        /\ validRows' = val
        /\ invalidRows' = inv
        /\ validationErrors' = IF r.kind = "record" /\ ~IsValidRecord(r)
                               THEN validationErrors \o RowErrors(r, n)
                               ELSE validationErrors
        /\ IF ProcessCommentFlushes
           THEN /\ CreateStagingComments(buf)
                /\ stagingBatch' = <<>>
                /\ IgnoredJobWrite([job EXCEPT !.processed = tot, !.successful = val,
                                                        !.failed = inv])
           ELSE /\ stagingBatch' = buf
                /\ UNCHANGED <<staging, job>>
  /\ UNCHANGED <<file, pc, promoted, successfulInserts, jobErrors, markFailed,
                 processErr, comments, articles>>

(* After the parser: insert the remaining batch, then SetTotalRecords. *)
FlushRemaining ==
  /\ pc = "parse"
  /\ ParserReady /\ cursor > Len(Lines)
  /\ CreateStagingComments(stagingBatch)
  /\ stagingBatch' = <<>>
  /\ IgnoredJobWrite([job EXCEPT !.total = totalRows])
  /\ pc' = "dupBatch"
  /\ UNCHANGED <<file, lineNumber, cursor, totalRows, validRows, invalidRows,
                 validationErrors, promoted, successfulInserts, jobErrors,
                 markFailed, processErr, comments, articles>>

(* MarkDuplicateCommentsInBatch: a row with a non-NULL id equal to that   *)
(* of a row with a smaller staging_id, whatever that row's validity.       *)
MarkDuplicateCommentsInBatch ==
  /\ pc = "dupBatch"
  /\ LET dup(i) == /\ staging[i].id # NoVal
                   /\ \E k \in 1..(i - 1) : staging[k].id = staging[i].id
     IN MarkOutcome({i \in DOMAIN staging : dup(i)}, TRUE)
  /\ pc' = "fk"
  /\ UNCHANGED <<file, lineNumber, job, cursor, stagingBatch, totalRows,
                 validRows, invalidRows, validationErrors, promoted,
                 successfulInserts, jobErrors, processErr, comments, articles>>

(* Mutant: the FK check tests the article reference only. *)
MarkInvalidFKCommentsArticleOnly ==
  /\ pc = "fk"
  /\ LET bad(i) == /\ staging[i].isValid
                   /\ staging[i].article # NoVal
                   /\ staging[i].article \notin ArticleIdsOf(articles)
     IN MarkOutcome({i \in DOMAIN staging : bad(i)}, FALSE)
  /\ pc' = "promote"
  /\ UNCHANGED <<file, lineNumber, job, cursor, stagingBatch, totalRows,
                 validRows, invalidRows, validationErrors, promoted,
                 successfulInserts, jobErrors, processErr, comments, articles>>

(* MarkInvalidFKComments: a valid row whose non-NULL article_id is not an *)
(* article's id, or whose non-NULL user_id is not a user's id, as the      *)
(* articles table is now.                                                  *)
MarkInvalidFKComments ==
  /\ pc = "fk"
  /\ LET missing(v, ids) == v # NoVal /\ v \notin ids
         bad(i) == /\ staging[i].isValid
                   /\ \/ missing(staging[i].article, ArticleIdsOf(articles))
                      \/ missing(staging[i].user, Users)
     IN MarkOutcome({i \in DOMAIN staging : bad(i)}, FALSE)
  /\ pc' = "promote"
  /\ UNCHANGED <<file, lineNumber, job, cursor, stagingBatch, totalRows,
                 validRows, invalidRows, validationErrors, promoted,
                 successfulInserts, jobErrors, processErr, comments, articles>>

(* Mutant: the successful count grows by the batch capacity, not by the  *)
(* rows written.                                                           *)
InsertValidBatchCountsCapacity ==
  /\ pc = "promote"
  /\ promoted < Len(Survivors)
  /\ LET last  == IF promoted + BatchSize <= Len(Survivors)
                  THEN promoted + BatchSize ELSE Len(Survivors)
         batch == [i \in 1..(last - promoted) |-> ToComment(Survivors[promoted + i])]
         res   == UpsertComments(batch, comments, {})
     IN IF res.ok
        THEN /\ comments' = res.table
             /\ promoted' = last
             /\ successfulInserts' = successfulInserts + BatchSize
             /\ UNCHANGED <<pc, processErr>>
        ELSE /\ pc' = "failing"
             /\ processErr' = "constraint"
             /\ UNCHANGED <<comments, promoted, successfulInserts>>
  /\ UNCHANGED <<file, lineNumber, job, cursor, stagingBatch, staging,
                 totalRows, validRows, invalidRows, validationErrors,
                 jobErrors, markFailed, articles>>

(* One callback of GetValidStagingComments: the next BatchSize survivors  *)
(* are converted (convertStagingToComment cannot fail on a row the         *)
(* validator accepted) and written by CreateBatch in one transaction. A    *)
(* failing statement fails the whole job.                                  *)
InsertValidBatch ==
  /\ pc = "promote"
  /\ promoted < Len(Survivors)
  /\ LET last  == IF promoted + BatchSize <= Len(Survivors)
                  THEN promoted + BatchSize ELSE Len(Survivors)
         batch == [i \in 1..(last - promoted) |-> ToComment(Survivors[promoted + i])]
         res   == UpsertComments(batch, comments, {})
     IN IF res.ok
        THEN /\ comments' = res.table
             /\ promoted' = last
             /\ successfulInserts' = successfulInserts + Len(batch)
             /\ UNCHANGED <<pc, processErr>>
        ELSE /\ pc' = "failing"
             /\ processErr' = "constraint"
             /\ UNCHANGED <<comments, promoted, successfulInserts>>
  /\ UNCHANGED <<file, lineNumber, job, cursor, stagingBatch, staging,
                 totalRows, validRows, invalidRows, validationErrors,
                 jobErrors, markFailed, articles>>

(* The end of processCommentsImport: recordValidationErrors,              *)
(* CleanupStagingComments, and the final UpdateProgress.                   *)
FinishImport ==
  /\ pc = "promote"
  /\ promoted = Len(Survivors)
  /\ RecordValidationErrors
  /\ CleanupStagingComments
  /\ IgnoredJobWrite([job EXCEPT !.processed = totalRows,
                                          !.successful = successfulInserts,
                                          !.failed = totalRows - successfulInserts])
  /\ pc' = "complete"
  /\ UNCHANGED <<file, lineNumber, cursor, stagingBatch, totalRows, validRows,
                 invalidRows, validationErrors, promoted, successfulInserts,
                 markFailed, processErr, comments, articles>>

(* ProcessImport after success: GetByID, its error discarded, then        *)
(* SetCompleted with the counts read back; a failed GetByID returns a zero *)
(* Job, so SetCompleted then writes successful = failed = 0.               *)
SetCompleted ==
  /\ pc = "complete"
  /\ \E read \in ProgressOk, ok \in DBOk :
       LET got == IF read THEN job ELSE [job EXCEPT !.successful = 0, !.failed = 0]
       IN job' = IF ok THEN [got EXCEPT !.status = "completed"] ELSE job
  /\ pc' = "done"
  /\ UNCHANGED <<file, lineNumber, cursor, stagingBatch, staging, totalRows,
                 validRows, invalidRows, validationErrors, promoted,
                 successfulInserts, jobErrors, markFailed, processErr,
                 comments, articles>>

(* A database call of the pipeline whose error is returned fails:        *)
(* CreateStagingComments, the survivors query or CreateBatch.              *)
DBError ==
  /\ DBMayFail
  /\ AtDBCall
  /\ pc' = "failing"
  /\ processErr' = "db"
  /\ UNCHANGED <<file, lineNumber, job, cursor, stagingBatch, staging,
                 totalRows, validRows, invalidRows, validationErrors, promoted,
                 successfulInserts, jobErrors, markFailed, comments, articles>>

(* handleJobFailure: SetFailed, its own error ignored; staging is kept. *)
HandleJobFailure ==
  /\ pc = "failing"
  /\ \E ok \in DBOk :
       IF ok THEN job' = [job EXCEPT !.status = "failed"]
             ELSE UNCHANGED job
  /\ pc' = "done"
  /\ UNCHANGED <<file, lineNumber, cursor, stagingBatch, staging, totalRows,
                 validRows, invalidRows, validationErrors, promoted,
                 successfulInserts, jobErrors, markFailed, processErr,
                 comments, articles>>

(* The worker's steps other than a failing database call. *)
Step ==
  \/ SetStarted
  \/ NewCSVParser
  \/ SkipLine
  \/ ScanError
  \/ ProcessComment
  \/ FlushRemaining
  \/ MarkDuplicateCommentsInBatch
  \/ MarkInvalidFKComments
  \/ InsertValidBatch
  \/ FinishImport
  \/ SetCompleted
  \/ HandleJobFailure

(* The job has ended and the worker waits for the next one. *)
Terminated == pc = "done" /\ UNCHANGED vars

Next == Step \/ DBError \/ Terminated

Spec == Init /\ [][Next]_vars /\ WF_vars(Step)

-----------------------------------------------------------------------------
(* Properties                                                              *)

TypeOK ==
  /\ file \in [name : Extensions, lines : Seq(Row)]
  /\ pc \in Phase
  /\ job \in JobRecord
  /\ lineNumber \in 0..MaxRows
  /\ cursor \in 1..(MaxRows + 1)
  /\ stagingBatch \in Seq(StagingRow)
  /\ staging \in Seq(StagingRow)
  /\ {totalRows, validRows, invalidRows, promoted, successfulInserts} \subseteq Nat
  /\ validationErrors \in Seq(ErrorEntry)
  /\ jobErrors \subseteq ErrorEntry
  /\ markFailed \in BOOLEAN
  /\ processErr \in {"none", "db", "constraint", "parse"}
  /\ comments \subseteq Comment

(* Spec 3: the pipeline pre-enforces the target's constraints. With its   *)
(* mark statements run, processCommentsImport never fails on a constraint  *)
(* violation of CreateBatch, even while an articles job writes articles.   *)
ConstraintsPreEnforced ==
  ~markFailed => processErr # "constraint"

(* The words of a body as the comments rules state them: maximal runs of  *)
(* characters that are neither space nor punctuation; a word starts where  *)
(* such a character follows none.                                          *)
WordStarts(s) ==
  {i \in 1..Len(s) : s[i] = "letter" /\ (i = 1 \/ s[i - 1] # "letter")}

(* processComment stages a record as valid only if its body is not empty *)
(* and holds at most MaxCommentWords words as the comments rules count     *)
(* them: countWords, the loop over the body's runes behind BODY_TOO_LONG,  *)
(* must treat punctuation as a separator and count a word the body ends   *)
(* in, in every row of the batch and of staging. The body is that of the  *)
(* line the parsers' reference (Parsers!SpecCallbacks) gives the row's     *)
(* number, so the row numbers processComment stages are checked as well.   *)
BodyRuleEnforced ==
  LET cbs == SpecCallbacks(Fmt, Lines)
  IN \A s \in Range(staging \o stagingBatch) :
       s.isValid =>
         \E i \in DOMAIN cbs :
           LET b == cbs[i].line.body
           IN /\ cbs[i].row = s.row
              /\ b # <<>> /\ Cardinality(WordStarts(b)) <= MaxCommentWords

=============================================================================

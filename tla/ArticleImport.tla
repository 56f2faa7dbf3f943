---------------------------- MODULE ArticleImport ----------------------------
(***************************************************************************)
(* One articles import job: ProcessImport and processArticlesImport        *)
(* (src/internal/service/import/parsers/format.go), the staging_articles   *)
(* statements of StagingRepository (staging_repo.go) and the batch upsert  *)
(* ArticleRepository.CreateBatch (src/unnamed/part_000).                   *)
(*                                                                         *)
(* The articles table carries UNIQUE(slug) and author_id REFERENCES users; *)
(* CreateBatch is INSERT ... ON CONFLICT (id) DO UPDATE, and PostgreSQL    *)
(* checks both constraints row by row as the statement goes. A row is      *)
(* abstracted to classes of its fields: the validator's verdict depends   *)
(* on the class, the marks and the upsert on the id, normalised slug,     *)
(* author, status and published_at.                                        *)
(* Unlike the users pipeline, processArticlesImport discards the errors of *)
(* its three mark statements (format.go 550-554).                          *)
(***************************************************************************)
EXTENDS Naturals, Sequences, FiniteSets, SequencesExt, Parsers

CONSTANTS
  ArticleIds,    \* the article UUIDs a file may carry
  Slugs,         \* normalised slugs
  UserIds,       \* the author UUIDs a file may carry
  Users,         \* the ids in the users table (no users job runs meanwhile)
  NoVal,         \* an empty field: NULL in the staging table
  BadUUID,       \* a non-empty id or author_id that does not parse as a UUID
  Files,         \* the files the job may be given
  MaxRows,       \* a bound on the lines of those files
  InitArticles,  \* the articles tables the database may hold at the start
  BatchSize,     \* s.config.BatchSize
  DBMayFail,     \* whether a database call may return an error
  ProgressMayFail \* whether UpdateProgress, SetTotalRecords, AddErrors and
                  \* GetByID, whose errors the pipeline ignores, may fail

(* An input record: a malformed line (nil record), or the fields of an   *)
(* ArticleImport. slug is the normalised slug processArticle stages        *)
(* (lower-cased, trimmed, spaces to "-"); slugKebab tells whether the raw  *)
(* slug already matched ^[a-z0-9]+(-[a-z0-9]+)*$ within 255 characters.    *)
(* status is lower-cased; "other" is any other non-empty word.             *)
ArticleStatus == {NoVal, "draft", "published", "archived", "other"}
Row == [kind : {"record", "malformed", "empty", "oversized", "header"},
        id : ArticleIds \cup {NoVal, BadUUID}, slug : Slugs \cup {NoVal},
        slugKebab : BOOLEAN, title : {"ok", "missing", "long"},
        body : {"ok", "missing"}, author : UserIds \cup {NoVal, BadUUID},
        status : ArticleStatus, publishedAt : {NoVal, "rfc3339", "garbled"},
        tags : {"ok", "tooMany", "longTag"}]

ASSUME {NoVal, BadUUID} \cap (ArticleIds \cup Slugs \cup UserIds) = {}
ASSUME NoVal # BadUUID
ASSUME Users \subseteq UserIds
ASSUME Files \subseteq [name : Extensions, lines : Seq(Row)] /\ Files # {}
ASSUME MaxRows \in Nat /\ \A f \in Files : Len(f.lines) <= MaxRows
ASSUME BatchSize \in Nat \ {0}
ASSUME DBMayFail \in BOOLEAN
ASSUME ProgressMayFail \in BOOLEAN /\ (ProgressMayFail => DBMayFail)

(* uuid.New() in convertStagingToArticle for a row without an id. *)
GenId(n) == <<"article", n>>
ArticleId == ArticleIds \cup {GenId(n) : n \in 1..MaxRows}
Article == [id : ArticleId, slug : Slugs, author : UserIds,
            status : ArticleStatus \ {NoVal}, published : BOOLEAN]

StagingRow == [row : 1..MaxRows, id : ArticleIds \cup {NoVal, BadUUID},
               slug : Slugs \cup {NoVal}, author : UserIds \cup {NoVal, BadUUID},
               status : ArticleStatus, publishedAt : {NoVal, "rfc3339", "garbled"},
               isValid : BOOLEAN, isDuplicate : BOOLEAN]

Phase == {"start", "parse", "dupBatch", "dupExisting", "authorFK", "promote",
          "complete", "failing", "done"}
Status == {"pending", "processing", "completed", "failed"}
JobRecord == [status : Status, total : Nat, processed : Nat,
              successful : Nat, failed : Nat]

VARIABLES
  file,              \* the uploaded file: its extension and lines
  lineNumber,        \* the parser's lineNumber
  pc,                \* where the worker is in ProcessImport
  job,               \* the jobs table row
  cursor,            \* the next line of the file the parser reads
  stagingBatch,      \* rows buffered before CreateStagingArticles
  staging,           \* staging_articles rows, in staging_id order
  totalRows, validRows, invalidRows,   \* processArticlesImport's counters
  validationErrors,  \* the validator errors awaiting recordValidationErrors, in order
  promoted,          \* survivors already handed to CreateBatch
  successfulInserts, \* rows reported written by CreateBatch
  jobErrors,         \* the job_errors rows of the job: the errors journaled
  markFailed,        \* a mark statement returned an error that was discarded
  processErr,        \* the error the pipeline returned: "none", "db",
                     \* "constraint" or "parse" (a parser error)
  articles           \* the articles table

vars == <<file, lineNumber, pc, job, cursor, stagingBatch, staging, totalRows,
          validRows, invalidRows, validationErrors, promoted, successfulInserts,
          jobErrors, markFailed, processErr, articles>>

-----------------------------------------------------------------------------
(* Helpers                                                                 *)

ArticleIdsOf(as) == {a.id : a \in as}

(* ArticleValidator.ValidateArticleImport: the field and code of each     *)
(* error. AllowedArticleStatuses holds draft, published and archived.      *)
ValidateArticleImport(r) ==
  LET E(f, c) == {[field |-> f, code |-> c]}
      None == {}
  IN (IF r.id = BadUUID THEN E("id", "INVALID_UUID") ELSE None)
     \cup (IF r.slug = NoVal THEN E("slug", "MISSING_FIELD")
           ELSE IF ~r.slugKebab THEN E("slug", "INVALID_SLUG") ELSE None)
     \cup (CASE r.title = "missing" -> E("title", "MISSING_FIELD")
              [] r.title = "long" -> E("title", "INVALID_TITLE")
              [] OTHER -> None)
     \cup (IF r.body = "missing" THEN E("body", "MISSING_FIELD") ELSE None)
     \cup (IF r.author = NoVal THEN E("author_id", "MISSING_FIELD")
           ELSE IF r.author = BadUUID THEN E("author_id", "INVALID_AUTHOR")
           ELSE None)
     \cup (IF r.status = NoVal THEN E("status", "MISSING_FIELD")
           ELSE IF r.status = "other" THEN E("status", "INVALID_STATUS")
           ELSE None)
     \cup (IF r.status = "draft" /\ r.publishedAt # NoVal
           THEN E("published_at", "INVALID_PUBLISHED_AT") ELSE None)
     \cup (IF r.status = "published" /\ r.publishedAt = NoVal
           THEN E("published_at", "MISSING_PUBLISHED_AT") ELSE None)
     \cup (IF r.publishedAt = "garbled"
           THEN E("published_at", "INVALID_TIMESTAMP") ELSE None)
     \cup (IF r.tags # "ok" THEN E("tags", "INVALID_TAGS") ELSE None)

IsValidRecord(r) == r.kind = "record" /\ ValidateArticleImport(r) = {}

(* A ValidationError: the row it names and which of the row's errors it  *)
(* is; the validator's errors for record r at row n, in the order they are *)
(* appended to validationErrors.                                           *)
ErrorEntry == [row : 1..MaxRows, k : Nat \ {0}]
RowErrors(r, n) == [k \in 1..Cardinality(ValidateArticleImport(r)) |-> [row |-> n, k |-> k]]

(* The staging row processArticle builds for row n: a nil record carries  *)
(* only its row number; a rejected row keeps its fields.                   *)
ToStaging(r, n) ==
  IF IsNilRecord(r)
  THEN [row |-> n, id |-> NoVal, slug |-> NoVal, author |-> NoVal,
        status |-> NoVal, publishedAt |-> NoVal,
        isValid |-> FALSE, isDuplicate |-> FALSE]
  ELSE [row |-> n, id |-> r.id, slug |-> r.slug, author |-> r.author,
        status |-> r.status, publishedAt |-> r.publishedAt,
        isValid |-> IsValidRecord(r), isDuplicate |-> FALSE]

(* GetValidStagingArticles: is_valid AND NOT is_duplicate, by staging_id. *)
Survivors == SelectSeq(staging, LAMBDA s : s.isValid /\ ~s.isDuplicate)

(* convertStagingToArticle: the staged id, or uuid.New() when empty; the *)
(* status as staged; published_at only if it parses as RFC 3339 (the parse *)
(* error is ignored).                                                      *)
ToArticle(s) ==
  [id |-> IF s.id = NoVal THEN GenId(s.row) ELSE s.id,
   slug |-> s.slug, author |-> s.author, status |-> s.status,
   published |-> s.publishedAt = "rfc3339"]

(* CreateBatch's statement, row by row: a row replaces the article with   *)
(* its id or is inserted. It fails when a row meets an id the statement    *)
(* already touched, a slug held by another article, an author missing     *)
(* from users, or breaks a CHECK of the schema: status IN ('draft',        *)
(* 'published') and chk_published_at (published_at set iff published). A   *)
(* failure rolls the whole statement back.                                 *)
RECURSIVE UpsertArticles(_, _, _)
UpsertArticles(batch, tbl, touched) ==
  IF batch = <<>> THEN [ok |-> TRUE, table |-> tbl]
  ELSE LET a    == Head(batch)
           rest == {t \in tbl : t.id # a.id}
       IN IF \/ a.id \in touched
             \/ \E t \in rest : t.slug = a.slug
             \/ a.author \notin Users
             \/ a.status \notin {"draft", "published"}
             \/ a.published # (a.status = "published")
          THEN [ok |-> FALSE, table |-> tbl]
          ELSE UpsertArticles(Tail(batch), rest \cup {a}, touched \cup {a.id})

Lines == file.lines

(* ProcessImport: DetectFormat(filepath.Ext(job.FilePath)); the articles   *)
(* pipeline takes the CSV parser when format.IsCSV() and NDJSON otherwise, *)
(* the same split as IsNDJSON.                                             *)
Fmt == DetectFormat(file.name)

(* The parser exists: NDJSON at once, CSV once NewCSVParser read the header. *)
ParserReady == IsNDJSON(Fmt) \/ cursor > 1

(* The parser is at a line, and what it does with it. *)
AtLine == ParserReady /\ cursor <= Len(Lines)
NextStep == ParseStep(Fmt, Lines[cursor])

(* processArticle flushes a full buffer; a nil record returns before. *)
ProcessArticleFlushes ==
  /\ AtLine
  /\ NextStep.callback
  /\ ~IsNilRecord(Lines[cursor])
  /\ Len(stagingBatch) + 1 >= BatchSize

(* Where a database call whose error fails the job is made. *)
AtDBCall ==
  \/ pc = "parse" /\ (ProcessArticleFlushes \/
                      (ParserReady /\ cursor > Len(Lines)
                       /\ stagingBatch # <<>>))
  \/ pc = "promote" /\ promoted < Len(Survivors)

(* An UPDATE of the staging rows at positions D to invalid; a duplicate   *)
(* mark also sets is_duplicate.                                            *)
MarkRows(st, D, dup) ==
  [i \in DOMAIN st |-> IF i \in D
                       THEN [st[i] EXCEPT !.isValid = FALSE,
                                          !.isDuplicate = dup \/ @]
                       ELSE st[i]]

(* CreateStagingArticles: one multi-row INSERT in a transaction; the rows  *)
(* follow the job's earlier rows in staging_id order, all or none.         *)
CreateStagingArticles(rows) == staging' = staging \o rows

(* CleanupStagingArticles: DELETE of the job's staging rows; its error is  *)
(* ignored, and leftover rows are read by no other job.                    *)
CleanupStagingArticles == staging' = <<>>

(* The outcomes of a database call: it may return an error when the      *)
(* database may fail.                                                      *)
DBOk == IF DBMayFail THEN BOOLEAN ELSE {TRUE}

(* A write to the jobs row whose error is ignored (UpdateProgress,        *)
(* SetTotalRecords): the row becomes newJob or stays as it was.            *)
ProgressOk == IF ProgressMayFail THEN BOOLEAN ELSE {TRUE}
IgnoredJobWrite(newJob) == \E ok \in ProgressOk : job' = IF ok THEN newJob ELSE job

(* recordValidationErrors: the list of the validator's errors cut into    *)
(* chunks of BatchSize errors (a boundary may split one row's errors), one *)
(* AddErrors transaction per chunk that inserts the whole chunk or         *)
(* nothing; its error is ignored and the loop goes on.                     *)
RecordValidationErrors ==
  LET s == validationErrors
      n == (Len(s) + BatchSize - 1) \div BatchSize
      last(c) == IF c * BatchSize <= Len(s) THEN c * BatchSize ELSE Len(s)
      C == [c \in 1..n |-> Range(SubSeq(s, (c - 1) * BatchSize + 1, last(c)))]
  IN \E committed \in IF ProgressMayFail THEN SUBSET DOMAIN C ELSE {DOMAIN C} :
       jobErrors' = jobErrors \cup UNION {C[c] : c \in committed}

(* The outcomes of a mark statement whose error is discarded with _: it   *)
(* updates the rows at D, or fails and updates nothing.                    *)
MarkOutcome(D, dup) ==
  \E ok \in DBOk :
    IF ok THEN /\ staging' = MarkRows(staging, D, dup)
               /\ UNCHANGED markFailed
          ELSE /\ markFailed' = TRUE
               /\ UNCHANGED staging

-----------------------------------------------------------------------------
Init ==
  /\ file \in Files
  /\ articles \in InitArticles
  /\ pc = "start"
  /\ job = [status |-> "pending", total |-> 0, processed |-> 0,
            successful |-> 0, failed |-> 0]
  /\ lineNumber = 0
  /\ cursor = 1
  /\ stagingBatch = <<>>
  /\ staging = <<>>
  /\ totalRows = 0 /\ validRows = 0 /\ invalidRows = 0
  /\ validationErrors = <<>>
  /\ promoted = 0
  /\ successfulInserts = 0
  /\ jobErrors = {}
  /\ markFailed = FALSE
  /\ processErr = "none"

(* ProcessImport: SetStarted. On an error ProcessImport returns at once   *)
(* and the job is left pending.                                            *)
SetStarted ==
  /\ pc = "start"
  /\ \E ok \in DBOk :
       IF ok THEN /\ job' = [job EXCEPT !.status = "processing"]
                  /\ pc' = "parse"
             ELSE /\ pc' = "done"
                  /\ UNCHANGED job
  /\ UNCHANGED <<file, lineNumber, cursor, stagingBatch, staging, totalRows,
                 validRows, invalidRows, validationErrors, promoted,
                 successfulInserts, jobErrors, markFailed, processErr,
                 articles>>

(* processArticlesImport on a CSV file: NewCSVParser reads the header    *)
(* row; a file with none fails the job ("failed to create CSV parser").   *)
NewCSVParser ==
  /\ pc = "parse"
  /\ ~ParserReady
  /\ IF Lines = <<>>
     THEN /\ pc' = "failing"
          /\ processErr' = "parse"
          /\ UNCHANGED <<cursor, lineNumber>>
     ELSE /\ cursor' = 2
          /\ lineNumber' = FirstLineNumber("csv")
          /\ UNCHANGED <<pc, processErr>>
  /\ UNCHANGED <<file, job, stagingBatch, staging, totalRows, validRows,
                 invalidRows, validationErrors, promoted, successfulInserts,
                 jobErrors, markFailed, articles>>

(* A line ParseArticles reads without calling back: an empty line, or a  *)
(* CSV row encoding/csv fails to read.                                     *)
SkipLine ==
  /\ pc = "parse"
  /\ AtLine
  /\ ~NextStep.callback /\ ~NextStep.fail
  /\ cursor' = cursor + 1
  /\ lineNumber' = IF NextStep.count THEN lineNumber + 1 ELSE lineNumber
  /\ UNCHANGED <<file, pc, job, stagingBatch, staging, totalRows, validRows,
                 invalidRows, validationErrors, promoted, successfulInserts,
                 jobErrors, markFailed, processErr, articles>>

(* The NDJSON scanner stops on a line over its buffer: ParseArticles      *)
(* returns scanner.Err() and processArticlesImport returns it.            *)
ScanError ==
  /\ pc = "parse"
  /\ AtLine
  /\ NextStep.fail
  /\ pc' = "failing"
  /\ processErr' = "parse"
  /\ UNCHANGED <<file, lineNumber, job, cursor, stagingBatch, staging,
                 totalRows, validRows, invalidRows, validationErrors, promoted,
                 successfulInserts, jobErrors, markFailed, articles>>

(* The parser callback processArticle for one row: count it, stage it,    *)
(* keep the validator's errors, and when the buffer is full flush it with  *)
(* CreateStagingArticles and UpdateProgress. A malformed row returns       *)
(* before the flush check.                                                 *)
ProcessArticle ==
  /\ pc = "parse"
  /\ AtLine
  /\ NextStep.callback
  /\ LET n   == lineNumber + 1
         r   == Lines[cursor]
         buf == Append(stagingBatch, ToStaging(r, n))
         tot == totalRows + 1
         val == validRows + (IF IsValidRecord(r) THEN 1 ELSE 0)
         inv == invalidRows + (IF IsValidRecord(r) THEN 0 ELSE 1)
     IN /\ cursor' = cursor + 1
        /\ lineNumber' = n
        /\ totalRows' = tot
        /\ validRows' = val
        /\ invalidRows' = inv
        /\ validationErrors' = IF r.kind = "record" /\ ~IsValidRecord(r)
                               THEN validationErrors \o RowErrors(r, n)
                               ELSE validationErrors
        /\ IF ProcessArticleFlushes
           THEN /\ CreateStagingArticles(buf)
                /\ stagingBatch' = <<>>
                /\ IgnoredJobWrite([job EXCEPT !.processed = tot, !.successful = val,
                                                        !.failed = inv])
           ELSE /\ stagingBatch' = buf
                /\ UNCHANGED <<staging, job>>
  /\ UNCHANGED <<file, pc, promoted, successfulInserts, jobErrors, markFailed,
                 processErr, articles>>

(* After the parser: insert the remaining batch, then SetTotalRecords. *)
FlushRemaining ==
  /\ pc = "parse"
  /\ ParserReady /\ cursor > Len(Lines)
  /\ CreateStagingArticles(stagingBatch)
  /\ stagingBatch' = <<>>
  /\ IgnoredJobWrite([job EXCEPT !.total = totalRows])
  /\ pc' = "dupBatch"
  /\ UNCHANGED <<file, lineNumber, cursor, totalRows, validRows, invalidRows,
                 validationErrors, promoted, successfulInserts, jobErrors,
                 markFailed, processErr, articles>>

(* MarkDuplicateArticlesInBatch: a row whose slug equals that of a row    *)
(* with a smaller staging_id, whatever that row's validity. NULL slugs     *)
(* never compare equal. The row count is only logged.                      *)
MarkDuplicateArticlesInBatch ==
  /\ pc = "dupBatch"
  /\ LET dup(i) == /\ staging[i].slug # NoVal
                   /\ \E k \in 1..(i - 1) : staging[k].slug = staging[i].slug
     IN MarkOutcome({i \in DOMAIN staging : dup(i)}, TRUE)
  /\ pc' = "dupExisting"
  /\ UNCHANGED <<file, lineNumber, job, cursor, stagingBatch, totalRows,
                 validRows, invalidRows, validationErrors, promoted,
                 successfulInserts, jobErrors, processErr, articles>>

(* MarkDuplicateArticlesAgainstExisting: a valid row whose slug is in the *)
(* articles table, unless its id is already an article's id.               *)
MarkDuplicateArticlesAgainstExisting ==
  /\ pc = "dupExisting"
  /\ LET dup(i) == /\ staging[i].isValid
                   /\ staging[i].slug \in {a.slug : a \in articles}
                   /\ staging[i].id = NoVal \/ staging[i].id \notin ArticleIdsOf(articles)
     IN MarkOutcome({i \in DOMAIN staging : dup(i)}, TRUE)
  /\ pc' = "authorFK"
  /\ UNCHANGED <<file, lineNumber, job, cursor, stagingBatch, totalRows,
                 validRows, invalidRows, validationErrors, promoted,
                 successfulInserts, jobErrors, processErr, articles>>

(* Mutant: the FK check compares the article's id column with users. *)
MarkInvalidAuthorFKArticlesWrongColumn ==
  /\ pc = "authorFK"
  /\ LET bad(i) == /\ staging[i].isValid
                   /\ staging[i].id # NoVal
                   /\ staging[i].id \notin Users
     IN MarkOutcome({i \in DOMAIN staging : bad(i)}, FALSE)
  /\ pc' = "promote"
  /\ UNCHANGED <<file, lineNumber, job, cursor, stagingBatch, totalRows,
                 validRows, invalidRows, validationErrors, promoted,
                 successfulInserts, jobErrors, processErr, articles>>

(* MarkInvalidAuthorFKArticles: a valid row whose non-NULL author_id is   *)
(* not a user's id is marked invalid (not duplicate).                      *)
MarkInvalidAuthorFKArticles ==
  /\ pc = "authorFK"
  /\ LET bad(i) == /\ staging[i].isValid
                   /\ staging[i].author # NoVal
                   /\ staging[i].author \notin Users
     IN MarkOutcome({i \in DOMAIN staging : bad(i)}, FALSE)
  /\ pc' = "promote"
  /\ UNCHANGED <<file, lineNumber, job, cursor, stagingBatch, totalRows,
                 validRows, invalidRows, validationErrors, promoted,
                 successfulInserts, jobErrors, processErr, articles>>

(* One callback of GetValidStagingArticles: the next BatchSize survivors  *)
(* are converted (convertStagingToArticle cannot fail on a row the         *)
(* validator accepted) and written by CreateBatch in one transaction. A    *)
(* failing statement fails the whole job.                                  *)
InsertValidBatch ==
  /\ pc = "promote"
  /\ promoted < Len(Survivors)
  /\ LET last  == IF promoted + BatchSize <= Len(Survivors)
                  THEN promoted + BatchSize ELSE Len(Survivors)
         batch == [i \in 1..(last - promoted) |-> ToArticle(Survivors[promoted + i])]
         res   == UpsertArticles(batch, articles, {})
     IN IF res.ok
        THEN /\ articles' = res.table
             /\ promoted' = last
             /\ successfulInserts' = successfulInserts + Len(batch)
             /\ UNCHANGED <<pc, processErr>>
        ELSE /\ pc' = "failing"
             /\ processErr' = "constraint"
             /\ UNCHANGED <<articles, promoted, successfulInserts>>
  /\ UNCHANGED <<file, lineNumber, job, cursor, stagingBatch, staging,
                 totalRows, validRows, invalidRows, validationErrors,
                 jobErrors, markFailed>>

(* Mutant: the cursor loop stops before a last, partial batch. *)
FinishImportSkipsLastBatch ==
  /\ pc = "promote"
  /\ promoted + BatchSize > Len(Survivors)
  /\ RecordValidationErrors
  /\ CleanupStagingArticles
  /\ IgnoredJobWrite([job EXCEPT !.processed = totalRows,
                                          !.successful = successfulInserts,
                                          !.failed = totalRows - successfulInserts])
  /\ pc' = "complete"
  /\ UNCHANGED <<file, lineNumber, cursor, stagingBatch, totalRows, validRows,
                 invalidRows, validationErrors, promoted, successfulInserts,
                 markFailed, processErr, articles>>

(* The end of processArticlesImport: recordValidationErrors,              *)
(* CleanupStagingArticles, and the final UpdateProgress.                   *)
FinishImport ==
  /\ pc = "promote"
  /\ promoted = Len(Survivors)
  /\ RecordValidationErrors
  /\ CleanupStagingArticles
  /\ IgnoredJobWrite([job EXCEPT !.processed = totalRows,
                                          !.successful = successfulInserts,
                                          !.failed = totalRows - successfulInserts])
  /\ pc' = "complete"
  /\ UNCHANGED <<file, lineNumber, cursor, stagingBatch, totalRows, validRows,
                 invalidRows, validationErrors, promoted, successfulInserts,
                 markFailed, processErr, articles>>

(* ProcessImport after success: GetByID, its error discarded, then        *)
(* SetCompleted with the counts read back; a failed GetByID returns a zero *)
(* Job, so SetCompleted then writes successful = failed = 0.               *)
SetCompleted ==
  /\ pc = "complete"
  /\ \E read \in ProgressOk, ok \in DBOk :
       LET got == IF read THEN job ELSE [job EXCEPT !.successful = 0, !.failed = 0]
       IN job' = IF ok THEN [got EXCEPT !.status = "completed"] ELSE job
  /\ pc' = "done"
  /\ UNCHANGED <<file, lineNumber, cursor, stagingBatch, staging, totalRows,
                 validRows, invalidRows, validationErrors, promoted,
                 successfulInserts, jobErrors, markFailed, processErr,
                 articles>>

(* A database call of the pipeline whose error is returned fails:        *)
(* CreateStagingArticles, the survivors query or CreateBatch.              *)
DBError ==
  /\ DBMayFail
  /\ AtDBCall
  /\ pc' = "failing"
  /\ processErr' = "db"
  /\ UNCHANGED <<file, lineNumber, job, cursor, stagingBatch, staging,
                 totalRows, validRows, invalidRows, validationErrors, promoted,
                 successfulInserts, jobErrors, markFailed, articles>>

(* handleJobFailure: SetFailed, its own error ignored; staging is kept. *)
HandleJobFailure ==
  /\ pc = "failing"
  /\ \E ok \in DBOk :
       IF ok THEN job' = [job EXCEPT !.status = "failed"]
             ELSE UNCHANGED job
  /\ pc' = "done"
  /\ UNCHANGED <<file, lineNumber, cursor, stagingBatch, staging, totalRows,
                 validRows, invalidRows, validationErrors, promoted,
                 successfulInserts, jobErrors, markFailed, processErr,
                 articles>>

(* The worker's steps other than a failing database call. *)
Step ==
  \/ SetStarted
  \/ NewCSVParser
  \/ SkipLine
  \/ ScanError
  \/ ProcessArticle
  \/ FlushRemaining
  \/ MarkDuplicateArticlesInBatch
  \/ MarkDuplicateArticlesAgainstExisting
  \/ MarkInvalidAuthorFKArticles
  \/ InsertValidBatch
  \/ FinishImport
  \/ SetCompleted
  \/ HandleJobFailure

(* The job has ended and the worker waits for the next one. *)
Terminated == pc = "done" /\ UNCHANGED vars

Next == Step \/ DBError \/ Terminated

Spec == Init /\ [][Next]_vars /\ WF_vars(Step)

-----------------------------------------------------------------------------
(* Properties                                                              *)

TypeOK ==
  /\ file \in [name : Extensions, lines : Seq(Row)]
  /\ pc \in Phase
  /\ job \in JobRecord
  /\ lineNumber \in 0..MaxRows
  /\ cursor \in 1..(MaxRows + 1)
  /\ stagingBatch \in Seq(StagingRow)
  /\ staging \in Seq(StagingRow)
  /\ {totalRows, validRows, invalidRows, promoted, successfulInserts} \subseteq Nat
  /\ validationErrors \in Seq(ErrorEntry)
  /\ jobErrors \subseteq ErrorEntry
  /\ markFailed \in BOOLEAN
  /\ processErr \in {"none", "db", "constraint", "parse"}
  /\ articles \subseteq Article

(* The row number the parsers' reference (Parsers!SpecCallbacks) gives   *)
(* the first record of the file with slug sl.                              *)
FirstSlugRow(sl) ==
  LET cbs  == SpecCallbacks(Fmt, Lines)
      rows == {cbs[i].row : i \in {k \in DOMAIN cbs : ~IsNilRecord(cbs[k].line)
                                                    /\ cbs[k].line.slug = sl}}
  IN CHOOSE n \in rows : \A m \in rows : n <= m

(* Slug deduplication, first occurrence wins (spec 4.3): once the mark    *)
(* statements have run without error, every row GetValidStagingArticles    *)
(* hands to CreateBatch is the first row of its file with its slug, and    *)
(* its author is a user.                                                   *)
SurvivorsChecked ==
  pc = "promote" /\ ~markFailed =>
    \A s \in Range(Survivors) : s.row = FirstSlugRow(s.slug) /\ s.author \in Users

(* Spec 3: the pipeline pre-enforces the target's constraints so that a  *)
(* bad row is classified rather than losing the whole batch. With its mark *)
(* statements run, processArticlesImport never fails on a constraint       *)
(* violation of CreateBatch.                                               *)
ConstraintsPreEnforced ==
  ~markFailed => processErr # "constraint"
=============================================================================

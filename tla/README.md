# TLA+ models of the bulk import/export service

These modules model the Go service under `src/`. The service imports users, articles and comments from CSV/NDJSON files, and runs export jobs. Asynchronous jobs drive all of this, and a worker pool executes them.

## The system's parts and how they interact

| Part | Code | Role |
|---|---|---|
| HTTP handlers | `src/unnamed/part_004` (`CreateImport`, `CreateAsyncExport`) | 1. Look up the idempotency key. 2. Validate the request. 3. Create the job row. 4. Store the key. 5. Submit the job to the pool and answer 202. The submit's error is ignored. |
| Idempotency repository | `src/unnamed/part_000` (`IdempotencyRepository`) | `GetByKey` and `Create` on `idempotency_keys`. |
| Worker pool | `src/internal/domain/models/models.go` (`Pool`) | Bounded import and export channels, and a non-blocking submit. One goroutine per worker, and one job at a time. `Stop` closes `quit` and waits for the workers. |
| Import service | `src/internal/service/import/parsers/format.go` (`Service`) | `ProcessImport`: 1. `SetStarted`. 2. The per-resource pipeline. 3. `GetByID` + `SetCompleted`, or `handleJobFailure` on error. |
| Per-resource pipelines | `processUsersImport`, `processArticlesImport`, `processCommentsImport` | Pass 1: parse, validate and stage in batches, with progress. Then the remaining flush and `SetTotalRecords`. Then the set-based mark statements: duplicates, plus FK checks for articles and comments. Pass 2: stream the survivors and upsert them in batches. Last: the validation-error journal, the staging cleanup and the final progress. |
| Staging repository | `src/internal/repository/postgres/staging_repo.go` | Staging inserts, the mark statements and the survivor cursor. |
| Target repositories | `src/unnamed/part_000` | `CreateBatch`: one `INSERT ... ON CONFLICT (id) DO UPDATE` in one transaction. Constraints: `users.email` and `articles.slug` are UNIQUE; `articles.author_id`, `comments.article_id` and `comments.user_id` are FKs. |
| Job repository | `src/internal/repository/postgres/job_repo.go` | Status and counter writes of the `jobs` row, and the `job_errors` journal. |
| Progress | `src/internal/domain/errors/errors.go` `CalculateProgress` | The percentage the status endpoint reports. It is clamped to 99 until the job is completed or failed. |
| Async export | `src/internal/service/export/export_service.go` `ProcessAsyncExport` | `SetStarted`, then streaming to a file, `Update` of the job, and `SetCompleted`. |
| Shutdown | `src/cmd/server/main.go` | Cancels the workers' context, then stops the pool. |

## Modules

| Module | Models |
|---|---|
| `Parsers` | `DetectFormat`, the parser choice, and one loop iteration of the CSV and NDJSON parsers (`csv_parser.go`), with a reference definition of the callbacks spec §4.1 describes for a whole file. |
| `UserImport` | `ProcessImport` + `processUsersImport` for a set of jobs sharing the users table. It drives the parsers of `Parsers` line by line, as `ArticleImport` and `CommentImport` do. |
| `ArticleImport` | `ProcessImport` + `processArticlesImport` for one job. |
| `CommentImport` | `ProcessImport` + `processCommentsImport` for one job. It reads the articles table. |
| `ContentImport` | Composes an articles job and a comments job running at once. Each is an `INSTANCE` with renamed variables, and they share `articles`. |
| `ExportStream` | The synchronous export `GET /v1/exports`: `StreamExport`, `StreamUsers` (NDJSON), `StreamJSON` and the cursor `GetAllWithCursor`. |
| `UserImportExport` | Composes the users import jobs with one export stream reading the users table they write. |
| `JobLifecycle` | The abstract job state machine of spec §4.5. |
| `JobController` | Handlers, idempotency table, pool, workers, the status writes of both services, and shutdown. It refines `JobLifecycle`. |
| `MC_*` | Model values and bounds for TLC. |

### The import pipelines (`UserImport`, `ArticleImport`, `CommentImport`)

The three modules have the same shape, because the three Go functions do. Their state:

- `pc`: where the worker is.
- `job`: the `jobs` row (status and counters).
- `cursor` and `lineNumber`: the next line of `file` the parser reads, and the parser's own line counter.
- `stagingBatch`: the in-memory buffer.
- `staging`: the staging rows, in `staging_id` order.
- The function's counters (`totalRows`, `validRows`, `invalidRows`, `successfulInserts`) and the validator errors it collects.
- `promoted`: how far the survivor cursor has gone.
- `jobErrors`: the journal rows.
- The target table.

Every pipeline reads its file through the parsers. A file is a name (its extension) and a sequence of lines. A line has a kind:

- `empty`;
- `oversized`: longer than the NDJSON scanner's 10 MiB buffer;
- `malformed`: not a JSON object, or a row `encoding/csv` fails to read;
- `header`;
- a record: for users `invalid` or `valid`, with its e-mail and id; for articles and comments `record`, with its fields.

`DetectFormat` picks the parser: users test `IsNDJSON`, articles and comments `IsCSV`, which split the formats the same way. `NewCSVParser` reads the header, and fails the job on an empty file. Each later step is one iteration of the parser's loop, keeping its `lineNumber`:

- `SkipLine`: a line that gets no callback. For NDJSON this is an empty line, which is still counted. For CSV it is a blank line, which `encoding/csv` passes over uncounted, or a row it fails to read, which is counted.
- `ScanError`: the NDJSON scanner stops on an oversized line, and the pipeline returns the error (`processErr = "parse"` for articles and comments).
- `ProcessUser`, `ProcessArticle`, `ProcessComment`: the callback with row number `lineNumber`. A line that does not unmarshal reaches it as `nil`, and is staged as an invalid row that carries only its number.

For users a record is abstracted to "valid" or "invalid". Articles and comments records carry a class for each field the validator checks, and the validator is translated:

- `ValidateArticleImport`: empty, non-kebab or too-long fields, a malformed author UUID, the status, a garbled `published_at`, and too many or too-long tags.
- `ValidateCommentImport`: a malformed id, a missing or malformed article or user, an empty body, more than `MaxCommentWords` words, and a garbled `created_at`.

The processing step stages the record and marks it valid exactly when the validator returns no error (`IsValidRecord`). A comment body is a sequence of character classes (space, punctuation, other). `countWords` is the recursive operator `CountWordsFrom`, which follows the Go loop with its `inWord` flag. `CommentBodyRuleEnforced` checks the validity it decides against the spec's definition of a word: a maximal run of characters that are neither space nor punctuation.

The fields the statements compare:

| Resource | Fields kept |
|---|---|
| users | e-mail, id |
| articles | id, slug, author |
| comments | id, article, user |

A row without an id gets `uuid.New()` in `convertStaging*`. The model writes it as a fresh value per row.

Actions, one per step of the code:

| Action | Code |
|---|---|
| `NewCSVParser`, `SkipLine`, `ScanError` | Users only: the parser steps above (`csv_parser.go` l.22–71 and 272–297, `format.go` l.325–345). |
| `SetStarted` | `ProcessImport` l.190. On failure it returns at once and the job stays pending. |
| `ProcessUser` / `ProcessArticle` / `ProcessComment` | The parser callback, including the flush (`CreateStaging*` + `UpdateProgress`). A malformed row returns before the flush check. |
| `FlushRemaining` | The remaining flush and `SetTotalRecords`. |
| `CreateStaging*`, `CleanupStaging*` (helpers) | The multi-row INSERT of a buffered batch: one transaction that appends all the rows in staging order or, as `DBError`, none of them. The job's DELETE of its staging rows. |
| (ignored writes) | `UpdateProgress`, `SetTotalRecords` and `AddErrors` return errors that the pipelines drop. With `DBMayFail` (users) or `ProgressMayFail` (articles, comments), each such write either lands or leaves its row as it was (`IgnoredJobWrite`). `validationErrors` is the list of the validator's errors in the order `processUser` appends them. A record carries the number of errors the validator returns for it (`RowErrors`), and each error names its row. `RecordValidationErrors` cuts this list into chunks of `BatchSize` errors (`ErrorChunks`), as `recordValidationErrors` does, so one row's errors can fall into two chunks. Each chunk is one `AddErrors` transaction that commits whole or not at all. The users module records in the history variable `lostWrite` whether `SetTotalRecords` or the final `UpdateProgress` was lost. A pass-1 `UpdateProgress` is not recorded, because later writes overwrite it. |
| mark actions | One per UPDATE statement, in the code's order. The users pipeline adjusts its counters by the rows affected. The articles and comments pipelines discard the statement's error (`_`): `MarkOutcome` either applies the update or records `markFailed` and goes on. |
| `InsertValidBatch` | One callback of `GetValidStaging*`: the next `BatchSize` survivors go through `CreateBatch`. For articles and comments the statement is checked row by row, as PostgreSQL does (`UpsertArticles` and `UpsertComments` are RECURSIVE). It fails on an id already touched by the statement, a UNIQUE clash, or a missing FK target. A failure fails the job (`processErr = "constraint"`). |
| `FinishImport` | `recordValidationErrors`, `Cleanup*`, and the final `UpdateProgress`, in one step. `Cleanup*` also ignores its error, but the model always empties staging: leftover rows carry the job's id, and no other job reads them. |
| `SetCompleted` | `GetByID` (its error discarded) + `SetCompleted` with the counters read back. `GetByID` returns nil only for `sql.ErrNoRows`, which cannot happen here. On any other error it returns a zero `Job`, so `SetCompleted` then writes successful = failed = 0. |
| `DBError` | Any pipeline database call whose error is returned. It is enabled only where such a call is made (`AtDBCall`). |
| `HandleJobFailure` | `SetFailed`, whose error is ignored. |

### The export stream (`ExportStream`, `UserImportExport`)

`ExportStream` has these parts:

- **`StartExport`:** the handler picks the format. `StreamJSON` writes `"[\n"` first, and that write may fail. Then the query may fail, or it returns the table's rows in some order (`queried`). The model leaves out `created_at`, so any order is possible.
- **`FetchRow`:** one `rows.Next`. A full batch goes to the callback (`Callback`), and the next batch starts empty.
- **`EndOfRows`:** `rows.Next` returns false, either at the end or on a row-stream error. The remaining batch goes to the callback. `StreamJSON` writes `"\n]"` only when there was no error, and that write may itself fail.

A callback either writes all of its records, or writes the first k and then fails.

- `StreamUsers` writes one record per row and counts `recordCount`.
- `StreamJSON`'s `writeRecord` writes `",\n"` before every record but the first of the array.

`out` is the sequence of writes the client received. The handler only logs errors once streaming began, and the model records them in `exportErr`.

`UserImportExport` runs this stream beside the users import jobs. The query's snapshot is the `users` table at the moment the stream starts.

### `JobController` and `JobLifecycle`

Requests are identified with the jobs they create. Per request:

- `hpc`: where the handler is (check key, validate, create, store key, submit).
- `resp` and `respJob`: the answer.
- `reqKey`: the Idempotency-Key header.

Shared state:

- `jobs`: status and key per job. `Create` fails while another job holds the key, because of UNIQUE(idempotency_key).
- `idem`: the `idempotency_keys` table. `KeyTableWorks = FALSE` is the shipped schema, where both statements fail. The liveness run and the idempotency violation run use it. The lifecycle, queue-full, export and shutdown runs set `KeyTableWorks = TRUE`, so that the key-hit and expiry steps also occur among the status writes `LifecycleRefined` checks; no property is stated about what a working key table returns, since the program has none.
- `importQ` and `exportQ`: the bounded channels.
- `wpc` and `wjob`: per worker.
- `mainPc`: serving, cancelled, stopping or stopped.

Worker actions follow `processImportJob`, `ProcessImport` and `ProcessAsyncExport`. The import pipeline between `SetStarted` and its final status write is one step (`RunImport`); the pipeline modules above model it in detail. After `cancel()`, every database call made with the workers' context fails (`WorkerDBOk`).

`LifecycleRefined` checks `JobLifecycle!Spec` under the refinement mapping `status <- [j |-> jobs[j].status]`. Every status write of the controller must be a step of the abstract machine: pending → processing → completed/failed, never backwards.

## Runs

| Run | Cfg | Expect | What it shows |
|---|---|---|---|
| users_single | `MC_UserImportExport.cfg` | pass (4 847 623 states, about 100 s) | One users job over 477 files: every NDJSON file of 0–3 lines over the 6 row shapes (5 records, the rejected one with three validator errors so that with `BatchSize = 2` a chunk holds errors of two rows, and a malformed line) and an oversized line, and of 0–2 lines with empty lines too; every CSV file of a header and 0–2 lines over the row shapes and empty lines; an empty CSV file; and `.jsonl`, `.json` and other-extension files. It has 4 starting tables, `BatchSize = 2`, and a database that may fail any call, the ignored writes included. Beside it runs an export stream in either format, with `ExportBatchSize = 2`, and any write to the client may fail. It checks `FullTypeOK`, `FirstOccurrenceWins`, `ParsedRowsFaithful`, `FinalCountersConsistent`, `JournalFaithful`, `StreamFaithful`, `CompleteExport`, `FailedJSONUnterminated`, `SurvivorsWritten` and `PercentageMonotonic`. |
| users_row_clash | `MC_UserImport_rowfail.cfg` | violation | `PerRowErrorsNeverFailJob`: a repeated id or a taken e-mail fails the job. Its files are NDJSON files of 1–3 records, so that a missing header cannot fail the job first. |
| users_email_race | `MC_UserImport_race.cfg` | violation | Same property, two jobs importing one new e-mail. |
| users_journal | `MC_UserImport_journal.cfg` | violation | `RejectedRowsJournaled`. |
| jc_lifecycle | `MC_JobController.cfg` | pass (6 306) | Imports, a failing database, key expiry and shutdown. It checks `TypeOK` and `LifecycleRefined`. |
| jc_liveness | `MC_JobController_live.cfg` | pass (70 820) | Three keyed imports, one export, room in the queues, a healthy database and the shipped key table (`KeyTableWorks = FALSE`: its statements fail, so the second and third keyed imports are answered 500). It checks `AcceptedJobsFinish`. |
| jc_idempotency_key | `MC_JobController_idemkey.cfg` | violation | `KeyedRequestNeverFails` under the shipped schema. |
| jc_queue_full | `MC_JobController_queuefull.cfg` | violation | `AcceptedJobsFinish` with a channel of capacity 1. |
| jc_export_regress | `MC_JobController_export.cfg` | violation | `LifecycleRefined` for one export. |
| jc_shutdown | `MC_JobController_shutdown.cfg` | violation | `ShutdownLeavesNoJobProcessing`. |
| content_concurrent | `MC_ContentImport.cfg` | pass (1 278 620 states, about 50 s) | An articles job and a comments job at once, on a database that may fail any call whose error is returned or whose failure a property reads (`ProgressMayFail = FALSE`: no property of this run reads the counters or the journal, and letting those writes fail multiplies the states tenfold). Files are every NDJSON sequence of 1–2 rows over 4 article shapes and 4 comment shapes, with two starting tables each. Each side adds a CSV file with a header, a blank line or a row `encoding/csv` cannot read, and a record, so that the record's row number is not its line; an NDJSON file stopped by an oversized line; and for articles an empty CSV file. `ArticleSurvivorsChecked` and `CommentBodyRuleEnforced` find a staged row's line through `Parsers!SpecCallbacks`, so they also check the row numbers the parsers give. It checks `TypeOK`, `ArticleSurvivorsChecked`, `CommentConstraintsPreEnforced`, `ArticleSurvivorsWritten` and `CommentBodyRuleEnforced`. |
| articles_slug_move | `MC_ArticleImport.cfg` | violation | `ConstraintsPreEnforced` for one articles job with a healthy database. |

What the passing properties say:

- **`FirstOccurrenceWins`** (users) and **`ArticleSurvivorsChecked`** (articles): once the marks have run, every survivor is the first row of its file with its natural key, as spec §4.3 requires. Articles must also have an author that exists.
- **`ParsedRowsFaithful`** (users): while the parser runs, the staged rows are a prefix of the reference callbacks (`SpecCallbacks`): the records spec §4.1 says the parser hands over, with the row numbers of spec §2 (CSV header is row 1; every later non-blank line counts). Once pass 1 is done, they are exactly those callbacks. `FirstOccurrenceWins` is stated with the same row numbers.
- **`SurvivorsWritten`** and **`ArticleSurvivorsWritten`**: when the pipeline finishes, every survivor is in the target table, including the last, partial batch.
- **`FinalCountersConsistent`**: for a finished job, processed = successful + failed. `SetCompleted` writes back the counters `GetByID` read. A completed job whose `SetTotalRecords`, final `UpdateProgress` and `GetByID` all succeeded (`~lostWrite`) also has processed = total and successful ≤ total. When one of them fails, the job still completes, with pass-1 counters, a total of 0, or successful = failed = 0. This is the code's behaviour (hazard `format.go:423`); the property is guarded rather than checked against it.
- **`JournalFaithful`**: every `job_errors` row names a record the validator rejected, at the row number spec 2 gives it (`Parsers!SpecCallbacks`), and one of that record's errors. This holds across staging flushes and however the `AddErrors` chunks fall, some of them failing. Naming the errors with the next row breaks it. A row can be partly journaled, when its errors straddle two chunks and one of the two `AddErrors` fails. That is the code's behaviour (hazard `format.go:784`); no run slot is left to show it.
- **`PercentageMonotonic`**: the reported percentage never goes down over a job's life.
- **`CommentConstraintsPreEnforced`**: if its marks ran, the comments job never fails on a constraint of `CreateBatch`. This holds even while the articles job writes the articles table between the comments' FK mark and their insert. Nothing in the code deletes an article or changes its id, so a reference checked once stays valid.
- **`StreamFaithful`**: while the cursor runs, the records written so far, followed by the current batch, are exactly the rows fetched so far, in cursor order.
- **`CompleteExport`**: a stream that ends without error gave the client every queried row once and in order, the last partial batch included. For NDJSON, `recordCount` equals the number of rows. For JSON, the output is one complete array.
- **`FailedJSONUnterminated`**: a failed JSON stream never ends with `]`. The 200 status is already sent, so the missing bracket is the only sign of truncation.
- **`CommentBodyRuleEnforced`**: a comment row staged as valid has a non-empty body of at most `MaxCommentWords` words, counted as the spec defines words (`WordStarts`). So `countWords` must split words at punctuation, and must count a word at the start or end of the body.
- **`LifecycleRefined`**: with DB failures, key expiry and shutdown, the import path only moves statuses forward.
- **`AcceptedJobsFinish`**: with room in the queues and a healthy database, every job accepted with 202 eventually completes or fails.

Every property of a passing run has a mutant in `PROJECT.json`. Each mutant is an operator defined next to the action it replaces, and each is a plausible bug:

- last occurrence wins;
- an empty NDJSON line not counted;
- swapped counter signs;
- the last partial batch skipped;
- `failed` taken from a drifting counter;
- `AddErrors` without its transaction;
- `processed` written as the successful count;
- the author FK compared on the wrong column;
- the comment FK check missing its user test;
- the successful count grown by batch capacity;
- a submit without the capacity check, or with an off-by-one;
- a worker that keeps its job;
- the key never stored;
- a full export batch that is not reset;
- the final flush of the cursor dropped;
- `"]"` written even on an error;
- words split only by spaces.

### Bounds and why they are enough

- **Users files:** three NDJSON lines (two when an empty line is among them) or a header and two CSV lines are enough to put an empty, malformed or oversized line before, between and after records, so skipped lines shift the row numbers that dedup and `ParsedRowsFaithful` compare.
- **Users:** two e-mails and two ids cover every relation the code distinguishes: a repeated e-mail, a repeated id, an id of an existing user, an e-mail held under another id, and a rejected row before a valid duplicate. Three rows with `BatchSize = 2` give a full flush, a partial remaining flush and a partial last survivor batch.
- **Articles:**
  - Two slugs, two ids and two authors (one missing) cover the cases:
    - a new id on a taken slug;
    - an update keeping its slug or moving it;
    - a missing author;
    - a fresh row.
  - The violation run adds a table where both slugs are taken.
- **Comments:**
  - One comment id and two article references (`a2` only comes into existence if the articles job writes it) cover:
    - the id dedup;
    - the FK race with the articles job;
    - an update of an existing comment.
  - A missing user exercises the user FK.
  - With two rows and `BatchSize = 2` every file is a single batch, which may be partial.
- **Export:** the run adds a starting table of two users (`e2`, `e3`) that no file row touches. A job that inserts `e1` then gives the export 3 rows, with `ExportBatchSize = 2`. This gives a full batch followed by a partial last batch, a table whose size is exactly one batch, and an empty table. In JSON, the separator rule meets both a record that is first of its batch but not first of the array, and the array's very first record.
- **Parsers in the content run:** one CSV and one stopped NDJSON file per resource is enough for every parser step of both modules to fire, and for a row number to differ from its line. `MaxRows` (`MaxArticleRows`, `MaxCommentRows` = 3) bounds the lines of a file; it is a constant, with an `ASSUME` against the files, so that TLC does not rebuild the file sets in every state.
- **Comment bodies:** `MaxCommentWords = 1`. The accepted body `"ab "` is one word, followed by a trailing space. The rejected body `" a,b"` is two words only if punctuation splits words. Between them the two bodies cover every branch of the `countWords` loop.
- **Controller:** two or three requests sharing one key are the least that show a retry and a race. A queue size equal to the number of requests (live run), or one less (queue-full run), puts the channel exactly at and beyond its limit.

### Fairness

`Pool.Start` gives each worker its own goroutine, which runs a job to its end. Each handler goroutine also runs until it returns. So the model has:

- weak fairness for each worker's steps (`Step` in the pipeline modules, `WorkerStep` in the controller);
- weak fairness for each handler's steps;
- weak fairness for `Pool.Stop` once the shutdown signal has come.

Failing database calls, key expiry and the signal itself are never forced.

## Findings

1. **A per-row conflict fails a users job.** Code bug, `part_000:346`. Two rows with one id in a batch, or a new id with a taken e-mail, make the single upsert statement fail, and the job fails. This is against spec §7.
2. **Concurrent users imports of one new e-mail fail the later job.** Code bug, `staging_repo.go:87`. Both jobs check `users` before either one promotes.
3. **Only validator errors are journaled.** Spec/code divergence, `format.go:417`. Malformed and duplicate rows get no `JobError`.
4. **Idempotency never works with the shipped schema.** Code bug, `part_000:694`. The repository uses column `key`, but the schema has `idempotency_key` (and `status_code NOT NULL`). Every keyed retry reaches `jobs.Create`, hits UNIQUE(idempotency_key), and is answered 500.
5. **A full queue loses an accepted job.** Code bug, `part_004:213`. `CreateImport` ignores "queue is full" and answers 202, and the job stays pending forever.
6. **The async export moves a job from processing back to pending.** Code bug, `export_service.go:247`. `Update` writes back the handler's stale in-memory job.
7. **Shutdown leaves jobs processing.** Spec/code divergence, `main.go:132`. The context is cancelled before the pool stops, so a running job's `SetFailed` fails too.
8. **Moving an article onto a taken slug fails the whole articles job.** Code bug, `staging_repo.go:234`. `MarkDuplicateArticlesAgainstExisting` exempts every row whose id exists. The `ON CONFLICT (id)` update then violates UNIQUE(slug), and the job fails instead of rejecting the row (spec §3, §7).

One more disagreement has no run of its own, because every run slot is taken. **A failed `GetByID` completes a job with zero counters** (`format.go:218`, `job_repo.go:49-56`). On any error but `sql.ErrNoRows`, `GetByID` returns a pointer to a zero `Job` together with the error. `ProcessImport` drops the error, sees a non-nil job and calls `SetCompleted(id, 0, 0)`. The completed row then says processed = n, successful = 0, failed = 0. With the `lostWrite` guard removed, TLC finds this in 8 steps of `users_single`: one valid row, `GetByID` failing, `SetCompleted` succeeding. The guard keeps `FinalCountersConsistent` about the other paths.

Other hazards are listed in `PROJECT.json` with the properties that cover them. One has no run of its own: the articles and comments pipelines discard the errors of their mark statements (`format.go:550-554`, `705-708`). The passing properties assume the marks ran (`~markFailed`). When a mark error is discarded, the unchecked rows reach `CreateBatch`, which then fails the job, possibly after earlier batches were committed. Spec §4.4 instead fails the job at once on a phase-2 error.

## Not modelled, and what is left

- **Field decoding of the parsers, and the users validator:** a line is its kind and the record it carries. The users validator is abstracted to the row kinds "valid" and "invalid". `ParseGeneric` and `TotalLines` are never called. A CSV file starting with a blank line is not among the files: `encoding/csv` would take the next line as the header.
- **A JSON `null` line:** it unmarshals without error into a zero record, so it reaches the callback as a record, not as `nil`. Every line kind of the model either fails to unmarshal or is a record.
- **`DownloadFileFromURL`:** the name from `Content-Disposition` is not sanitised and the body is cut at 500 MB without error. Both are I/O outside the state machine.
- **`GetErrors` paging:** it orders by a non-unique `row_number`, so rows with one number may move between pages. It is a read.
- **Config, metrics, logging, the router, middleware, and the PowerShell test-data script:** they hold no state the properties tell apart.
- **Status, error and download endpoints:** they only read.
- **`failJob` in `Pool.processImportJob`** (`models.go:296`, 387–397): when the saved file cannot be opened, the pool writes the job pending → failed through `jobRepo.Update` and ignores its error. The spec's diagram (§4.5) has no such edge. The handler saves the file before it submits the job, so this needs the file to vanish between the two. That can happen: `SaveUploadedFile` (`format.go:937`) names the file `<name>_<UnixNano><ext>`. Two uploads of one file name within one clock tick share a path. The later upload overwrites the earlier one's content, and the first job's deferred cleanup deletes the file the second job still has to open. Both are listed as hazards. Modelling them needs file contents and a clock in `JobController`, and the pending → failed write would break `LifecycleRefined` in every run that allows it. The pool's own format detection is unused, because `ProcessImport` ignores it.
- **Filters of the streaming export, and the articles and comments streams:** they follow the same cursor as the users stream.

Left for later sittings:

- **Textual id comparison.** The mark statements compare `a.id::text` with the staged string, so an upper-case UUID in a file is not recognised as an existing article or user. This needs ids with two spellings.
- **A users job concurrent with an articles job.** Authors could appear while the articles FK mark runs.
- **Liveness with failing status writes.** This covers `SetStarted` failing without `SetFailed`, and `GetByID` being ignored.
- **The async export's file stream:** it is one step of `ProcessAsyncExport` in `JobController`. Its record-count estimate is not modelled.
- **NDJSON truncation:** an NDJSON stream that fails mid-way looks complete to the client. This is listed as a hazard, with no property.
- **Archived articles:** the validator accepts status `archived`, but the table's CHECK rejects it (spec §9). `ConstraintsPreEnforced` fails on such a row in the same way as in the `articles_slug_move` run. The run's files show the slug move instead.

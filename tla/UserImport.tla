----------------------------- MODULE UserImport -----------------------------
(***************************************************************************)
(* The users import pipeline: importservice.Service.processUsersImport     *)
(* and ProcessImport (src/internal/service/import/parsers/format.go), the  *)
(* staging statements of StagingRepository (staging_repo.go) and the batch *)
(* upsert UserRepository.CreateBatch (src/unnamed/part_000).               *)
(*                                                                         *)
(* Every job runs on its own worker; the jobs share the users table, which *)
(* carries the UNIQUE(email) constraint and is upserted ON CONFLICT (id).  *)
(* A file is its extension and its lines, read by the parser DetectFormat *)
(* picks (Parsers); a line the parser hands over is malformed (nil         *)
(* record), rejected by the validator, or valid. Field values are          *)
(* abstracted to the normalised e-mail and the id.                         *)
(***************************************************************************)
EXTENDS Naturals, Sequences, FiniteSets, Functions, SequencesExt, Parsers

CONSTANTS
  Jobs,        \* the users import jobs
  Emails,      \* normalised (trimmed, lower-cased) e-mail addresses
  Ids,         \* the user UUIDs a file may carry
  NoVal,       \* an empty field: NULL in the staging table
  Files,       \* the files a job may be given
  InitUsers,   \* the users tables the database may hold at the start
  BatchSize,   \* s.config.BatchSize (IMPORT_BATCH_SIZE)
  DBMayFail    \* whether a database call may return an error

(* A line of a file; errors is the number of ValidationErrors the         *)
(* validator returns for a record (one per failing field check).           *)
Row == [kind : {"header", "empty", "oversized", "malformed", "invalid", "valid"},
        email : Emails \cup {NoVal}, id : Ids \cup {NoVal}, errors : Nat]
File == [name : Extensions, lines : Seq(Row)]

ASSUME NoVal \notin Emails \cup Ids
ASSUME Files \subseteq File /\ Files # {}
ASSUME BatchSize \in Nat \ {0}
ASSUME DBMayFail \in BOOLEAN

MaxRows == CHOOSE m \in {Len(f.lines) : f \in Files} :
             \A f \in Files : Len(f.lines) <= m

(* uuid.New() for a row without an id: fresh, and unique per job and row. *)
GenId(j, n) == <<j, n>>
UserId == Ids \cup (Jobs \X (1..MaxRows))
User == [id : UserId, email : Emails]

(* A ValidationError of processUser: the row it names and which of that   *)
(* row's errors it is. A JobError carries the same two.                    *)
ErrorEntry == [row : 1..MaxRows, k : Nat \ {0}]

StagingRow == [row : 1..MaxRows, email : Emails \cup {NoVal},
               id : Ids \cup {NoVal}, isValid : BOOLEAN, isDuplicate : BOOLEAN]

Phase == {"start", "parse", "dupBatch", "dupExisting", "promote",
          "complete", "failing", "done"}
Status == {"pending", "processing", "completed", "failed"}
JobRecord == [status : Status, total : Nat, processed : Nat,
              successful : Nat, failed : Nat]

VARIABLES
  file,              \* each job's uploaded file
  pc,                \* where each job's worker is in ProcessImport
  job,               \* the jobs table row of each job
  cursor,            \* the next line the parser reads
  lineNumber,        \* the parser's lineNumber
  stagingBatch,      \* rows buffered in memory before CreateStagingUsers
  staging,           \* staging_users rows of each job, in staging_id order
  totalRows, validRows, invalidRows,   \* processUsersImport's counters
  validationErrors,  \* the validator errors awaiting recordValidationErrors, in order
  promoted,          \* survivors already handed to CreateBatch
  successfulInserts, \* rows reported written by CreateBatch
  jobErrors,         \* the job_errors table: the errors journaled per job
  users,             \* the users table
  lostWrite          \* history: SetTotalRecords, the final UpdateProgress or GetByID
                     \* returned an error the code ignored

vars == <<file, pc, job, cursor, lineNumber, stagingBatch, staging, totalRows, validRows,
          invalidRows, validationErrors, promoted, successfulInserts,
          jobErrors, users, lostWrite>>

-----------------------------------------------------------------------------
(* Helpers                                                                 *)

Emails0(us) == {u.email : u \in us}
Ids0(us) == {u.id : u \in us}

(* Mutant: the errors name the row after the one being processed. *)
RowErrorsNextRow(r, n) == [k \in 1..r.errors |-> [row |-> n + 1, k |-> k]]

(* The ValidationErrors ValidateUserImport(row, user) returns for record  *)
(* r at row n, in the order processUser appends them to validationErrors.  *)
RowErrors(r, n) == [k \in 1..r.errors |-> [row |-> n, k |-> k]]

(* The staging row processUser builds for the record of row n. *)
ToStaging(r, n) ==
  IF IsNilRecord(r)
  THEN [row |-> n, email |-> NoVal, id |-> NoVal,
        isValid |-> FALSE, isDuplicate |-> FALSE]
  ELSE [row |-> n, email |-> r.email, id |-> r.id,
        isValid |-> r.kind = "valid", isDuplicate |-> FALSE]

(* GetValidStagingUsers: is_valid AND NOT is_duplicate, by staging_id. *)
Survivors(j) == SelectSeq(staging[j], LAMBDA s : s.isValid /\ ~s.isDuplicate)

(* convertStagingToUser: the staged id, or uuid.New() when it is empty. *)
ToUser(j, s) ==
  [id |-> IF s.id = NoVal THEN GenId(j, s.row) ELSE s.id, email |-> s.email]

(* INSERT ... ON CONFLICT (id) DO UPDATE of a batch into the users table:  *)
(* the table it leaves, and whether the statement fails.                   *)
UpsertedTable(batch, us) ==
  LET bIds == {b.id : b \in Range(batch)}
  IN {u \in us : u.id \notin bIds} \cup Range(batch)

UpsertFails(batch, us) ==
  \* the same id twice: "ON CONFLICT DO UPDATE cannot affect row a second time"
  \/ ~IsInjective([i \in DOMAIN batch |-> batch[i].id])
  \* an e-mail held by another id: unique violation on users.email
  \/ \E u, v \in UpsertedTable(batch, us) : u.email = v.email /\ u.id # v.id

Lines(j) == file[j].lines
FileFormat(j) == DetectFormat(file[j].name)

(* The parser exists: NDJSON at once, CSV once NewCSVParser read the header. *)
ParserReady(j) == IsNDJSON(FileFormat(j)) \/ cursor[j] > 1

(* The parser is at a line, and what it does with it. *)
AtLine(j) == ParserReady(j) /\ cursor[j] <= Len(Lines(j))
NextStep(j) == ParseStep(FileFormat(j), Lines(j)[cursor[j]])

(* Where a database call is made and may return an error. *)
ProcessUserFlushes(j) ==
  /\ AtLine(j)
  /\ NextStep(j).callback
  /\ ~IsNilRecord(Lines(j)[cursor[j]])
  /\ Len(stagingBatch[j]) + 1 >= BatchSize

AtDBCall(j) ==
  \/ pc[j] = "parse" /\ (ProcessUserFlushes(j) \/
                         (ParserReady(j) /\ cursor[j] > Len(Lines(j))
                          /\ stagingBatch[j] # <<>>))
  \/ pc[j] \in {"dupBatch", "dupExisting"}
  \/ pc[j] = "promote" /\ promoted[j] < Len(Survivors(j))

(* The outcomes of a database call: it may return an error when the      *)
(* database may fail.                                                      *)
DBOk == IF DBMayFail THEN BOOLEAN ELSE {TRUE}

(* A write to the jobs row whose error processUsersImport ignores          *)
(* (UpdateProgress, SetTotalRecords): the row becomes newJob or stays as   *)
(* it was.                                                                 *)
IgnoredJobWrite(j, newJob, ok) == job' = IF ok THEN newJob ELSE job

(* The same for a write no later write overwrites (SetTotalRecords, the   *)
(* final UpdateProgress): its loss is remembered.                          *)
LastingJobWrite(j, newJob) ==
  \E ok \in DBOk :
    /\ IgnoredJobWrite(j, newJob, ok)
    /\ lostWrite' = [lostWrite EXCEPT ![j] = @ \/ ~ok]

(* CreateStagingUsers: one multi-row INSERT in a transaction; the rows    *)
(* take staging_ids in batch order after the job's earlier rows, all of    *)
(* them or none (a failure is DBError).                                    *)
CreateStagingUsers(j, rows) == staging' = [staging EXCEPT ![j] = @ \o rows]

(* An UPDATE ... SET is_duplicate = true, is_valid = false of the staging *)
(* rows at the positions D; RowsAffected is the size of D.                 *)
MarkDuplicates(st, D) ==
  [i \in DOMAIN st |-> IF i \in D THEN [st[i] EXCEPT !.isDuplicate = TRUE,
                                                    !.isValid = FALSE]
                                  ELSE st[i]]

-----------------------------------------------------------------------------
Init ==
  /\ file \in [Jobs -> Files]
  /\ users \in InitUsers
  /\ pc = [j \in Jobs |-> "start"]
  /\ job = [j \in Jobs |-> [status |-> "pending", total |-> 0, processed |-> 0,
                            successful |-> 0, failed |-> 0]]
  /\ cursor = [j \in Jobs |-> 1]
  /\ lineNumber = [j \in Jobs |-> 0]
  /\ stagingBatch = [j \in Jobs |-> <<>>]
  /\ staging = [j \in Jobs |-> <<>>]
  /\ totalRows = [j \in Jobs |-> 0]
  /\ validRows = [j \in Jobs |-> 0]
  /\ invalidRows = [j \in Jobs |-> 0]
  /\ validationErrors = [j \in Jobs |-> <<>>]
  /\ promoted = [j \in Jobs |-> 0]
  /\ successfulInserts = [j \in Jobs |-> 0]
  /\ jobErrors = [j \in Jobs |-> {}]
  /\ lostWrite = [j \in Jobs |-> FALSE]

(* ProcessImport: SetStarted. If it fails ProcessImport returns at once,   *)
(* without handleJobFailure, and the job is left pending.                  *)
SetStarted(j) ==
  /\ pc[j] = "start"
  /\ \E ok \in DBOk :
       IF ok THEN /\ job' = [job EXCEPT ![j].status = "processing"]
                  /\ pc' = [pc EXCEPT ![j] = "parse"]
             ELSE /\ pc' = [pc EXCEPT ![j] = "done"]
                  /\ UNCHANGED job
  /\ UNCHANGED <<file, lostWrite, lineNumber, cursor, stagingBatch, staging, totalRows, validRows,
                 invalidRows, validationErrors, promoted, successfulInserts,
                 jobErrors, users>>

(* processUsersImport on a CSV file: NewCSVParser reads the header row; *)
(* a file with none fails the job ("failed to create CSV parser").         *)
NewCSVParser(j) ==
  /\ pc[j] = "parse"
  /\ ~ParserReady(j)
  /\ IF Lines(j) = <<>>
     THEN /\ pc' = [pc EXCEPT ![j] = "failing"]
          /\ UNCHANGED <<cursor, lineNumber>>
     ELSE /\ cursor' = [cursor EXCEPT ![j] = 2]
          /\ lineNumber' = [lineNumber EXCEPT ![j] = FirstLineNumber("csv")]
          /\ UNCHANGED pc
  /\ UNCHANGED <<file, lostWrite, job, stagingBatch, staging, totalRows, validRows,
                 invalidRows, validationErrors, promoted, successfulInserts,
                 jobErrors, users>>

(* A line the parser reads without calling back: an empty line, or a CSV *)
(* row encoding/csv fails to read.                                         *)
SkipLine(j) ==
  /\ pc[j] = "parse"
  /\ AtLine(j)
  /\ ~NextStep(j).callback /\ ~NextStep(j).fail
  /\ cursor' = [cursor EXCEPT ![j] = @ + 1]
  /\ lineNumber' = [lineNumber EXCEPT ![j] = IF NextStep(j).count THEN @ + 1 ELSE @]
  /\ UNCHANGED <<file, lostWrite, pc, job, stagingBatch, staging, totalRows, validRows,
                 invalidRows, validationErrors, promoted, successfulInserts,
                 jobErrors, users>>

(* The NDJSON scanner stops on a line over its buffer: ParseUsers returns *)
(* scanner.Err() and processUsersImport returns it.                        *)
ScanError(j) ==
  /\ pc[j] = "parse"
  /\ AtLine(j)
  /\ NextStep(j).fail
  /\ pc' = [pc EXCEPT ![j] = "failing"]
  /\ UNCHANGED <<file, lostWrite, job, cursor, lineNumber, stagingBatch, staging,
                 totalRows, validRows, invalidRows, validationErrors, promoted,
                 successfulInserts, jobErrors, users>>

(* The parser reads a line and calls processUser with its lineNumber as   *)
(* the row: count it, build its staging row, keep the validator's errors, *)
(* buffer it, and when the buffer is full flush it with CreateStagingUsers *)
(* and UpdateProgress. A nil record returns before the flush check.        *)
ProcessUser(j) ==
  /\ pc[j] = "parse"
  /\ AtLine(j)
  /\ NextStep(j).callback
  /\ LET n   == lineNumber[j] + 1
         r   == Lines(j)[cursor[j]]
         buf == Append(stagingBatch[j], ToStaging(r, n))
         tot == totalRows[j] + 1
         val == validRows[j] + (IF r.kind = "valid" THEN 1 ELSE 0)
         inv == invalidRows[j] + (IF r.kind = "valid" THEN 0 ELSE 1)
     IN /\ cursor' = [cursor EXCEPT ![j] = @ + 1]
        /\ lineNumber' = [lineNumber EXCEPT ![j] = n]
        /\ totalRows' = [totalRows EXCEPT ![j] = tot]
        /\ validRows' = [validRows EXCEPT ![j] = val]
        /\ invalidRows' = [invalidRows EXCEPT ![j] = inv]
        /\ validationErrors' = [validationErrors EXCEPT ![j] =
                                  IF r.kind = "invalid" THEN @ \o RowErrors(r, n) ELSE @]
        /\ IF ProcessUserFlushes(j)
           THEN /\ CreateStagingUsers(j, buf)
                /\ stagingBatch' = [stagingBatch EXCEPT ![j] = <<>>]
                /\ \E ok \in DBOk :
                     IgnoredJobWrite(j, [job EXCEPT ![j].processed = tot,
                                           ![j].successful = val, ![j].failed = inv], ok)
           ELSE /\ stagingBatch' = [stagingBatch EXCEPT ![j] = buf]
                /\ UNCHANGED <<staging, job>>
  /\ UNCHANGED <<file, pc, promoted, successfulInserts, jobErrors, users, lostWrite>>

(* After the parser: insert the remaining staging batch, then            *)
(* SetTotalRecords, whose error is ignored.                                *)
FlushRemaining(j) ==
  /\ pc[j] = "parse"
  /\ ParserReady(j) /\ cursor[j] > Len(Lines(j))
  /\ CreateStagingUsers(j, stagingBatch[j])
  /\ stagingBatch' = [stagingBatch EXCEPT ![j] = <<>>]
  /\ LastingJobWrite(j, [job EXCEPT ![j].total = totalRows[j]])
  /\ pc' = [pc EXCEPT ![j] = "dupBatch"]
  /\ UNCHANGED <<file, lineNumber, cursor, totalRows, validRows, invalidRows,
                 validationErrors, promoted, successfulInserts, jobErrors, users>>

(* Mutant: the last occurrence of an e-mail survives instead of the first. *)
MarkDuplicateUsersInBatchLastWins(j) ==
  /\ pc[j] = "dupBatch"
  /\ LET st == staging[j]
         dup(i) == st[i].email # NoVal /\ \E k \in (i + 1)..Len(st) : st[k].email = st[i].email
         D == {i \in DOMAIN st : dup(i)}
     IN /\ staging' = [staging EXCEPT ![j] = MarkDuplicates(st, D)]
        /\ invalidRows' = [invalidRows EXCEPT ![j] = @ + Cardinality(D)]
        /\ validRows' = [validRows EXCEPT ![j] = @ - Cardinality(D)]
  /\ pc' = [pc EXCEPT ![j] = "dupExisting"]
  /\ UNCHANGED <<file, lostWrite, lineNumber, job, cursor, stagingBatch, totalRows, validationErrors,
                 promoted, successfulInserts, jobErrors, users>>

(* MarkDuplicateUsersInBatch: a row whose e-mail equals that of a row with *)
(* a smaller staging_id of the same job, whatever that row's validity, is  *)
(* marked duplicate and invalid. NULL e-mails never compare equal.         *)
MarkDuplicateUsersInBatch(j) ==
  /\ pc[j] = "dupBatch"
  /\ LET st == staging[j]
         dup(i) == st[i].email # NoVal /\ \E k \in 1..(i - 1) : st[k].email = st[i].email
         D == {i \in DOMAIN st : dup(i)}
     IN /\ staging' = [staging EXCEPT ![j] = MarkDuplicates(st, D)]
        /\ invalidRows' = [invalidRows EXCEPT ![j] = @ + Cardinality(D)]
        /\ validRows' = [validRows EXCEPT ![j] = @ - Cardinality(D)]
  /\ pc' = [pc EXCEPT ![j] = "dupExisting"]
  /\ UNCHANGED <<file, lostWrite, lineNumber, job, cursor, stagingBatch, totalRows, validationErrors,
                 promoted, successfulInserts, jobErrors, users>>

(* Mutant: the affected rows are subtracted from invalidRows, added to    *)
(* validRows.                                                             *)
MarkDuplicateUsersAgainstExistingSwapped(j) ==
  /\ pc[j] = "dupExisting"
  /\ LET st == staging[j]
         dup(i) == /\ st[i].isValid
                   /\ st[i].email \in Emails0(users)
                   /\ st[i].id = NoVal \/ st[i].id \notin Ids0(users)
         D == {i \in DOMAIN st : dup(i)}
     IN /\ staging' = [staging EXCEPT ![j] = MarkDuplicates(st, D)]
        /\ invalidRows' = [invalidRows EXCEPT ![j] = @ - Cardinality(D)]
        /\ validRows' = [validRows EXCEPT ![j] = @ + Cardinality(D)]
  /\ pc' = [pc EXCEPT ![j] = "promote"]
  /\ UNCHANGED <<file, lostWrite, lineNumber, job, cursor, stagingBatch, totalRows, validationErrors,
                 promoted, successfulInserts, jobErrors, users>>

(* MarkDuplicateUsersAgainstExisting: a valid row whose e-mail is in the   *)
(* users table, unless its id is already a user's id. It reads the users   *)
(* table as it is now; other jobs may write it before this job promotes.   *)
MarkDuplicateUsersAgainstExisting(j) ==
  /\ pc[j] = "dupExisting"
  /\ LET st == staging[j]
         dup(i) == /\ st[i].isValid
                   /\ st[i].email \in Emails0(users)
                   /\ st[i].id = NoVal \/ st[i].id \notin Ids0(users)
         D == {i \in DOMAIN st : dup(i)}
     IN /\ staging' = [staging EXCEPT ![j] = MarkDuplicates(st, D)]
        /\ invalidRows' = [invalidRows EXCEPT ![j] = @ + Cardinality(D)]
        /\ validRows' = [validRows EXCEPT ![j] = @ - Cardinality(D)]
  /\ pc' = [pc EXCEPT ![j] = "promote"]
  /\ UNCHANGED <<file, lostWrite, lineNumber, job, cursor, stagingBatch, totalRows, validationErrors,
                 promoted, successfulInserts, jobErrors, users>>

(* One callback of GetValidStagingUsers: the next BatchSize survivors are  *)
(* converted and written by CreateBatch in one transaction. A failing      *)
(* statement rolls back and fails the whole job.                           *)
InsertValidBatch(j) ==
  /\ pc[j] = "promote"
  /\ promoted[j] < Len(Survivors(j))
  /\ LET sv    == Survivors(j)
         last  == IF promoted[j] + BatchSize <= Len(sv)
                  THEN promoted[j] + BatchSize ELSE Len(sv)
         batch == [i \in 1..(last - promoted[j]) |-> ToUser(j, sv[promoted[j] + i])]
     IN IF UpsertFails(batch, users)
        THEN /\ pc' = [pc EXCEPT ![j] = "failing"]
             /\ UNCHANGED <<users, promoted, successfulInserts>>
        ELSE /\ users' = UpsertedTable(batch, users)
             /\ promoted' = [promoted EXCEPT ![j] = last]
             /\ successfulInserts' = [successfulInserts EXCEPT ![j] = @ + Len(batch)]
             /\ UNCHANGED pc
  /\ UNCHANGED <<file, lostWrite, lineNumber, job, cursor, stagingBatch, staging, totalRows, validRows,
                 invalidRows, validationErrors, jobErrors>>

(* recordValidationErrors: the list of the validator's errors, in the     *)
(* order processUser appended them, cut into chunks of BatchSize errors; a *)
(* chunk boundary may fall between two errors of one row.                  *)
ErrorChunks(j) ==
  LET s == validationErrors[j]
      n == (Len(s) + BatchSize - 1) \div BatchSize
      last(c) == IF c * BatchSize <= Len(s) THEN c * BatchSize ELSE Len(s)
  IN [c \in 1..n |-> Range(SubSeq(s, (c - 1) * BatchSize + 1, last(c)))]

(* One AddErrors per chunk: a transaction that inserts the whole chunk or *)
(* rolls back; its error is ignored and the loop goes on.                  *)
RecordValidationErrors(j) ==
  LET C == ErrorChunks(j) IN
  \E committed \in IF DBMayFail THEN SUBSET DOMAIN C ELSE {DOMAIN C} :
    jobErrors' = [jobErrors EXCEPT ![j] = @ \cup UNION {C[c] : c \in committed}]

(* CleanupStagingUsers. Its error is ignored; the rows a failed cleanup  *)
(* leaves carry the job's id and no statement of another job reads them,   *)
(* so they are dropped either way.                                         *)
CleanupStagingUsers(j) == staging' = [staging EXCEPT ![j] = <<>>]

(* The final UpdateProgress, whose error is ignored. *)
FinalProgress(j, processed, successful, failed) ==
  LastingJobWrite(j, [job EXCEPT ![j].processed = processed,
                                 ![j].successful = successful,
                                 ![j].failed = failed])

(* Mutants of the end of processUsersImport: the cursor loop stops before *)
(* a last, partial batch; the final failed count is taken from the        *)
(* invalidRows counter; processed is written as the successful count.     *)
FinishImportSkipsLastBatch(j) ==
  /\ pc[j] = "promote"
  /\ promoted[j] + BatchSize > Len(Survivors(j))
  /\ RecordValidationErrors(j) /\ CleanupStagingUsers(j)
  /\ FinalProgress(j, totalRows[j], successfulInserts[j],
                   totalRows[j] - successfulInserts[j])
  /\ pc' = [pc EXCEPT ![j] = "complete"]
  /\ UNCHANGED <<file, lineNumber, cursor, stagingBatch, totalRows, validRows, invalidRows,
                 validationErrors, promoted, successfulInserts, users>>

FinishImportFailedFromCounter(j) ==
  /\ pc[j] = "promote"
  /\ promoted[j] = Len(Survivors(j))
  /\ RecordValidationErrors(j) /\ CleanupStagingUsers(j)
  /\ FinalProgress(j, totalRows[j], successfulInserts[j], invalidRows[j])
  /\ pc' = [pc EXCEPT ![j] = "complete"]
  /\ UNCHANGED <<file, lineNumber, cursor, stagingBatch, totalRows, validRows, invalidRows,
                 validationErrors, promoted, successfulInserts, users>>

FinishImportProcessedAsSuccessful(j) ==
  /\ pc[j] = "promote"
  /\ promoted[j] = Len(Survivors(j))
  /\ RecordValidationErrors(j) /\ CleanupStagingUsers(j)
  /\ FinalProgress(j, successfulInserts[j], successfulInserts[j],
                   totalRows[j] - successfulInserts[j])
  /\ pc' = [pc EXCEPT ![j] = "complete"]
  /\ UNCHANGED <<file, lineNumber, cursor, stagingBatch, totalRows, validRows, invalidRows,
                 validationErrors, promoted, successfulInserts, users>>

(* The end of processUsersImport: recordValidationErrors journals the      *)
(* validator's errors, CleanupStagingUsers deletes the staging rows, and   *)
(* UpdateProgress writes the final counters; all three errors ignored.     *)
FinishImport(j) ==
  /\ pc[j] = "promote"
  /\ promoted[j] = Len(Survivors(j))
  /\ RecordValidationErrors(j) /\ CleanupStagingUsers(j)
  /\ FinalProgress(j, totalRows[j], successfulInserts[j],
                   totalRows[j] - successfulInserts[j])
  /\ pc' = [pc EXCEPT ![j] = "complete"]
  /\ UNCHANGED <<file, lineNumber, cursor, stagingBatch, totalRows, validRows, invalidRows,
                 validationErrors, promoted, successfulInserts, users>>

(* ProcessImport after success: GetByID, its error discarded, then        *)
(* SetCompleted with the counts read back. GetByID returns nil only for    *)
(* sql.ErrNoRows, which cannot happen here; on any other error it returns  *)
(* a pointer to a zero Job, so SetCompleted writes successful = failed = 0. *)
SetCompleted(j) ==
  /\ pc[j] = "complete"
  /\ \E read, ok \in DBOk :
       LET got == IF read THEN job[j] ELSE [job[j] EXCEPT !.successful = 0, !.failed = 0]
       IN /\ IgnoredJobWrite(j, [job EXCEPT ![j] = [got EXCEPT !.status = "completed"]], ok)
          /\ lostWrite' = [lostWrite EXCEPT ![j] = @ \/ ~read]
  /\ pc' = [pc EXCEPT ![j] = "done"]
  /\ UNCHANGED <<file, lineNumber, cursor, stagingBatch, staging, totalRows, validRows,
                 invalidRows, validationErrors, promoted, successfulInserts,
                 jobErrors, users>>

(* A database call of the pipeline returns an error (CreateStagingUsers,   *)
(* a mark statement, the survivors query or CreateBatch).                  *)
DBError(j) ==
  /\ DBMayFail
  /\ AtDBCall(j)
  /\ pc' = [pc EXCEPT ![j] = "failing"]
  /\ UNCHANGED <<file, lostWrite, lineNumber, job, cursor, stagingBatch, staging, totalRows, validRows,
                 invalidRows, validationErrors, promoted, successfulInserts,
                 jobErrors, users>>

(* handleJobFailure: SetFailed, whose own error is ignored. The staging   *)
(* rows are left in place.                                                 *)
HandleJobFailure(j) ==
  /\ pc[j] = "failing"
  /\ \E ok \in DBOk :
       IF ok THEN job' = [job EXCEPT ![j].status = "failed"]
             ELSE UNCHANGED job
  /\ pc' = [pc EXCEPT ![j] = "done"]
  /\ UNCHANGED <<file, lostWrite, lineNumber, cursor, stagingBatch, staging, totalRows, validRows,
                 invalidRows, validationErrors, promoted, successfulInserts,
                 jobErrors, users>>

Terminated == \A j \in Jobs : pc[j] = "done"

(* The steps of one worker other than a failing database call. *)
Step(j) ==
  \/ SetStarted(j)
  \/ NewCSVParser(j)
  \/ SkipLine(j)
  \/ ScanError(j)
  \/ ProcessUser(j)
  \/ FlushRemaining(j)
  \/ MarkDuplicateUsersInBatch(j)
  \/ MarkDuplicateUsersAgainstExisting(j)
  \/ InsertValidBatch(j)
  \/ FinishImport(j)
  \/ SetCompleted(j)
  \/ HandleJobFailure(j)

Next ==
  \/ \E j \in Jobs : Step(j) \/ DBError(j)
  \/ Terminated /\ UNCHANGED vars

(* Every worker runs its job to the end: weak fairness per job. A failing *)
(* database call is never forced.                                          *)
Spec == Init /\ [][Next]_vars /\ \A j \in Jobs : WF_vars(Step(j))

-----------------------------------------------------------------------------
(* Properties                                                              *)

TypeOK ==
  /\ file \in [Jobs -> File]
  /\ pc \in [Jobs -> Phase]
  /\ job \in [Jobs -> JobRecord]
  /\ cursor \in [Jobs -> 1..(MaxRows + 1)]
  /\ lineNumber \in [Jobs -> 0..MaxRows]
  /\ stagingBatch \in [Jobs -> Seq(StagingRow)]
  /\ staging \in [Jobs -> Seq(StagingRow)]
  /\ totalRows \in [Jobs -> Nat]
  /\ validRows \in [Jobs -> Int]
  /\ invalidRows \in [Jobs -> Nat]
  /\ validationErrors \in [Jobs -> Seq(ErrorEntry)]
  /\ promoted \in [Jobs -> Nat]
  /\ successfulInserts \in [Jobs -> Nat]
  /\ jobErrors \in [Jobs -> SUBSET ErrorEntry]
  /\ lostWrite \in [Jobs -> BOOLEAN]
  /\ users \subseteq User

(* The callbacks spec 4.1 says the parser makes for job j's file. *)
Callbacks(j) == SpecCallbacks(FileFormat(j), Lines(j))

(* The least row number of a record of the file carrying e-mail e. *)
FirstRow(j, e) ==
  LET rows == {c.row : c \in {c \in Range(Callbacks(j)) :
                                ~IsNilRecord(c.line) /\ c.line.email = e}}
  IN CHOOSE n \in rows : \A m \in rows : n <= m

(* Deduplication, first occurrence wins (spec 8: among rows with one      *)
(* e-mail only the one with the least row number survives): once the mark *)
(* statements have run, which compare staging_id order, every row that    *)
(* GetValidStagingUsers will hand to CreateBatch has the least row number  *)
(* of its e-mail in the file.                                              *)
FirstOccurrenceWins ==
  \A j \in Jobs : pc[j] = "promote" =>
    \A s \in Range(Survivors(j)) : s.row = FirstRow(j, s.email)

(* The parser and processUser stage the file as spec 4.1 describes it:    *)
(* while the file is read, the staged and buffered rows are the first      *)
(* callbacks, each with its row number (NDJSON: its line, empty lines      *)
(* counted; CSV: header row 1, unreadable rows counted, blank lines not),  *)
(* in file order; once the remaining batch is flushed they are all of      *)
(* them, up to an oversized line.                                          *)
ParsedRowsFaithful ==
  \A j \in Jobs :
    LET staged == staging[j] \o stagingBatch[j]
        cbs == Callbacks(j)
        expected == [i \in DOMAIN cbs |-> ToStaging(cbs[i].line, cbs[i].row)]
    IN /\ pc[j] = "parse" => IsPrefix(staged, expected)
       /\ pc[j] = "dupBatch" => staged = expected

(* When processUsersImport finishes, every surviving staging row has been *)
(* written to the users table: the last, partial batch of the survivors   *)
(* cursor included.                                                        *)
SurvivorsWritten ==
  [][\A j \in Jobs : FinishImport(j) =>
       \A s \in Range(Survivors(j)) : ToUser(j, s).id \in Ids0(users)]_vars

(* The final counters of a finished job add up (spec 2 and 8): a failed  *)
(* job keeps its last pass-1 progress, in which processed = successful +   *)
(* failed; a completed job whose SetTotalRecords, final UpdateProgress and *)
(* GetByID all succeeded counted every parsed row, no more successes than  *)
(* rows, and processed = successful + failed. The code ignores the errors   *)
(* of all three, so after such a loss the completed row keeps stale pass-1 *)
(* counters, total 0, or successful = failed = 0 (history lostWrite).       *)
FinalCountersConsistent ==
  \A j \in Jobs :
    /\ job[j].status = "failed" =>
         job[j].processed = job[j].successful + job[j].failed
    /\ job[j].status = "completed" /\ ~lostWrite[j] =>
         /\ job[j].processed = job[j].successful + job[j].failed
         /\ job[j].total = job[j].processed
         /\ job[j].successful <= job[j].total

(* The journal (spec 2, JobError): every job_errors row of a job names,   *)
(* by the row number spec 2 gives it (Parsers!SpecCallbacks), a record the *)
(* validator rejected and one of that record's errors, never a line past   *)
(* an oversized one: processUser's errors, buffered over several staging   *)
(* flushes and cut into AddErrors chunks of any boundary, some of which    *)
(* fail, keep the row number of the line they came from.                   *)
JournalFaithful ==
  \A j \in Jobs :
    \A e \in jobErrors[j] :
      \E c \in Range(Callbacks(j)) :
        c.row = e.row /\ c.line.kind = "invalid" /\ e.k <= c.line.errors

(* The percentage CalculateProgress reports (clamped to 99 until the job  *)
(* is completed or failed) as a fraction num/den.                          *)
Percentage(j) ==
  LET t == job[j].total
      p == job[j].processed
  IN IF t = 0 THEN <<0, 1>>
     ELSE IF p >= t /\ job[j].status \notin {"completed", "failed"}
          THEN <<99, 100>>
          ELSE <<p, t>>

AtMost(a, b) == a[1] * b[2] <= b[1] * a[2]

(* The reported percentage never goes down over the life of a job (spec 8 *)
(* percentage monotonicity), through pass-1 progress, SetTotalRecords, the *)
(* final UpdateProgress and SetCompleted or SetFailed.                     *)
PercentageMonotonic ==
  [][\A j \in Jobs : AtMost(Percentage(j), Percentage(j)')]_vars

(* Spec 7: a per-row problem never fails the job. With a healthy database *)
(* no import job ends failed, whatever rows its file holds.                *)
PerRowErrorsNeverFailJob ==
  \A j \in Jobs : job[j].status # "failed"

(* Spec 3 and scenario 5: every rejected row (parse error, validator      *)
(* error, duplicate) has a JobError entry once processUsersImport has run  *)
(* recordValidationErrors.                                                 *)
RejectedRowsJournaled ==
  [][\A j \in Jobs : FinishImport(j) =>
       \A s \in Range(staging[j]) :
         ~(s.isValid /\ ~s.isDuplicate) => \E e \in jobErrors'[j] : e.row = s.row]_vars

=============================================================================

---------------------------- MODULE JobController ---------------------------
(***************************************************************************)
(* The job controller: the HTTP handlers that create jobs                  *)
(* (ImportHandler.CreateImport, ExportHandler.CreateAsyncExport in         *)
(* src/unnamed/part_004), the idempotency-key table (IdempotencyRepository *)
(* in src/unnamed/part_000), the worker pool (worker.Pool in               *)
(* src/internal/domain/models/models.go), the status writes of             *)
(* ProcessImport and ProcessAsyncExport, and the shutdown sequence of      *)
(* main (src/cmd/server/main.go).                                          *)
(*                                                                         *)
(* Each request creates at most one job, identified by the request. The    *)
(* import pipeline between SetStarted and its final status write is one    *)
(* step here; UserImport models it in detail.                              *)
(***************************************************************************)
EXTENDS Naturals, Sequences, FiniteSets, SequencesExt

CONSTANTS
  ImportReqs,     \* POST /v1/imports requests
  ExportReqs,     \* POST /v1/exports requests
  Keys,           \* Idempotency-Key header values
  NoKey,          \* no Idempotency-Key header
  NoJob,          \* no job
  ImportWorkers,  \* cfg.Worker.ImportWorkers goroutines
  ExportWorkers,  \* cfg.Worker.ExportWorkers goroutines
  QueueSize,      \* cfg.Worker.QueueSize: capacity of each channel
  KeyTableWorks,  \* whether the idempotency_keys statements match the schema
  DBMayFail,      \* whether a database call may return an error
  MayExpire,      \* whether an idempotency key may pass its expires_at
  MayShutdown     \* whether SIGTERM may arrive

Reqs == ImportReqs \cup ExportReqs
Workers == ImportWorkers \cup ExportWorkers

ASSUME ImportReqs \cap ExportReqs = {} /\ ImportWorkers \cap ExportWorkers = {}
ASSUME NoKey \notin Keys /\ NoJob \notin Reqs
ASSUME QueueSize \in Nat
ASSUME {KeyTableWorks, DBMayFail, MayExpire, MayShutdown} \subseteq BOOLEAN

JobStatus == {"none", "pending", "processing", "completed", "failed"}
HandlerPc == {"check", "validate", "create", "storeKey", "submit", "done"}
WorkerPc == {"idle", "start", "run", "update", "complete", "exited"}
Response == {"none", "200", "202", "400", "500"}

VARIABLES
  reqKey,     \* the Idempotency-Key header of each import request
  hpc,        \* where each request's handler is
  resp,       \* the HTTP status answered to each request
  respJob,    \* the job id in each answer
  jobs,       \* the jobs table: status and idempotency_key of each job
  idem,       \* the idempotency_keys table: job of each key and if unexpired
  importQ,    \* the importChan buffer
  exportQ,    \* the exportChan buffer
  wpc,        \* where each worker goroutine is
  wjob,       \* the job each worker is processing
  mainPc      \* main: serving, cancelled (cancel()), stopping (Stop), stopped

vars == <<reqKey, hpc, resp, respJob, jobs, idem, importQ, exportQ, wpc,
          wjob, mainPc>>

-----------------------------------------------------------------------------
(* Helpers                                                                 *)

(* A database call made with the workers' context: it fails once cancel() *)
(* has run, and otherwise may fail when the database may.                  *)
WorkerDBOk == IF mainPc # "serving" THEN {FALSE}
              ELSE IF DBMayFail THEN BOOLEAN ELSE {TRUE}
(* A database call made with the request's context. *)
RequestDBOk == IF DBMayFail THEN BOOLEAN ELSE {TRUE}

SetStatus(j, s) == jobs' = [jobs EXCEPT ![j].status = s]

(* GetByKey: a row for the key whose expires_at is in the future. *)
KeyFound(k) == KeyTableWorks /\ idem[k].job # NoJob /\ idem[k].live

(* jobs.idempotency_key is UNIQUE: Create fails while a job holds k. *)
KeyTaken(k) == k # NoKey /\ \E j \in Reqs : jobs[j].key = k

Answer(r, code, j) ==
  /\ resp' = [resp EXCEPT ![r] = code]
  /\ respJob' = [respJob EXCEPT ![r] = j]
  /\ hpc' = [hpc EXCEPT ![r] = "done"]

-----------------------------------------------------------------------------
Init ==
  /\ reqKey \in {f \in [Reqs -> Keys \cup {NoKey}] :
                   \A r \in ExportReqs : f[r] = NoKey}
  /\ hpc = [r \in Reqs |-> IF r \in ImportReqs THEN "check" ELSE "validate"]
  /\ resp = [r \in Reqs |-> "none"]
  /\ respJob = [r \in Reqs |-> NoJob]
  /\ jobs = [j \in Reqs |-> [status |-> "none", key |-> NoKey]]
  /\ idem = [k \in Keys |-> [job |-> NoJob, live |-> FALSE]]
  /\ importQ = <<>>
  /\ exportQ = <<>>
  /\ wpc = [w \in Workers |-> "idle"]
  /\ wjob = [w \in Workers |-> NoJob]
  /\ mainPc = "serving"

(* CreateImport, lines 73-97: with a key, GetByKey then GetByID; a live   *)
(* key answers 200 with its job. A failed lookup is logged and the        *)
(* request goes on as if the key were new.                                 *)
CheckKey(r) ==
  /\ hpc[r] = "check"
  /\ \E ok \in RequestDBOk :
       IF reqKey[r] # NoKey /\ KeyFound(reqKey[r]) /\ ok
       THEN Answer(r, "200", idem[reqKey[r]].job)
       ELSE /\ hpc' = [hpc EXCEPT ![r] = "validate"]
            /\ UNCHANGED <<resp, respJob>>
  /\ UNCHANGED <<reqKey, jobs, idem, importQ, exportQ, wpc, wjob, mainPc>>

(* The request checks before the job is created (resource, file, size,    *)
(* saving or downloading the file, format): each answers 400 or 500.       *)
Validate(r) ==
  /\ hpc[r] = "validate"
  /\ \/ Answer(r, "400", NoJob)
     \/ /\ hpc' = [hpc EXCEPT ![r] = "create"]
        /\ UNCHANGED <<resp, respJob>>
  /\ UNCHANGED <<reqKey, jobs, idem, importQ, exportQ, wpc, wjob, mainPc>>

(* JobRepository.Create of a pending job carrying the key; an error (the  *)
(* UNIQUE idempotency_key among them) answers 500.                         *)
CreateJob(r) ==
  /\ hpc[r] = "create"
  /\ \E ok \in RequestDBOk :
       IF ok /\ ~KeyTaken(reqKey[r])
       THEN /\ jobs' = [jobs EXCEPT ![r] = [status |-> "pending", key |-> reqKey[r]]]
            /\ hpc' = [hpc EXCEPT ![r] = IF reqKey[r] # NoKey THEN "storeKey"
                                                             ELSE "submit"]
            /\ UNCHANGED <<resp, respJob>>
       ELSE /\ Answer(r, "500", NoJob)
            /\ UNCHANGED jobs
  /\ UNCHANGED <<reqKey, idem, importQ, exportQ, wpc, wjob, mainPc>>

(* IdempotencyRepository.Create; its error is logged and ignored. The key *)
(* column is UNIQUE and expired rows stay until CleanupExpired, which no   *)
(* code calls.                                                             *)
StoreKey(r) ==
  /\ hpc[r] = "storeKey"
  /\ LET k == reqKey[r] IN
     \E ok \in RequestDBOk :
       idem' = IF ok /\ KeyTableWorks /\ idem[k].job = NoJob
               THEN [idem EXCEPT ![k] = [job |-> r, live |-> TRUE]]
               ELSE idem
  /\ hpc' = [hpc EXCEPT ![r] = "submit"]
  /\ UNCHANGED <<reqKey, resp, respJob, jobs, importQ, exportQ, wpc, wjob, mainPc>>

(* Mutants of Submit: the capacity check dropped (a send that never     *)
(* fails), and an off-by-one that refuses the last free slot.              *)
SubmitNoCapacityCheck(r) ==
  /\ hpc[r] = "submit"
  /\ IF r \in ImportReqs
     THEN /\ importQ' = Append(importQ, r)
          /\ UNCHANGED exportQ
     ELSE /\ exportQ' = Append(exportQ, r)
          /\ UNCHANGED importQ
  /\ Answer(r, "202", r)
  /\ UNCHANGED <<reqKey, jobs, idem, wpc, wjob, mainPc>>

SubmitOffByOne(r) ==
  /\ hpc[r] = "submit"
  /\ IF r \in ImportReqs
     THEN /\ importQ' = IF Len(importQ) + 1 < QueueSize THEN Append(importQ, r) ELSE importQ
          /\ UNCHANGED exportQ
     ELSE /\ exportQ' = IF Len(exportQ) + 1 < QueueSize THEN Append(exportQ, r) ELSE exportQ
          /\ UNCHANGED importQ
  /\ Answer(r, "202", r)
  /\ UNCHANGED <<reqKey, jobs, idem, wpc, wjob, mainPc>>

(* Pool.SubmitImportJob / SubmitExportJob: a non-blocking send that fails *)
(* on a full channel; the handler ignores the error and answers 202.       *)
Submit(r) ==
  /\ hpc[r] = "submit"
  /\ IF r \in ImportReqs
     THEN /\ importQ' = IF Len(importQ) < QueueSize THEN Append(importQ, r) ELSE importQ
          /\ UNCHANGED exportQ
     ELSE /\ exportQ' = IF Len(exportQ) < QueueSize THEN Append(exportQ, r) ELSE exportQ
          /\ UNCHANGED importQ
  /\ Answer(r, "202", r)
  /\ UNCHANGED <<reqKey, jobs, idem, wpc, wjob, mainPc>>

(* An idempotency key passes its expires_at: GetByKey stops finding it.   *)
ExpireKey(k) ==
  /\ MayExpire
  /\ idem[k].job # NoJob /\ idem[k].live
  /\ idem' = [idem EXCEPT ![k].live = FALSE]
  /\ UNCHANGED <<reqKey, hpc, resp, respJob, jobs, importQ, exportQ, wpc, wjob, mainPc>>

(* Mutant: the worker reads the head of the channel without removing it. *)
TakeKeepsJob(w) ==
  /\ wpc[w] = "idle"
  /\ IF w \in ImportWorkers
     THEN /\ importQ # <<>>
          /\ wjob' = [wjob EXCEPT ![w] = Head(importQ)]
     ELSE /\ exportQ # <<>>
          /\ wjob' = [wjob EXCEPT ![w] = Head(exportQ)]
  /\ wpc' = [wpc EXCEPT ![w] = "start"]
  /\ UNCHANGED <<reqKey, hpc, resp, respJob, jobs, idem, importQ, exportQ, mainPc>>

(* importWorker / exportWorker: the select receives the next job. Once    *)
(* the context is cancelled or quit closed, Go may still pick this case.   *)
Take(w) ==
  /\ wpc[w] = "idle"
  /\ IF w \in ImportWorkers
     THEN /\ importQ # <<>>
          /\ wjob' = [wjob EXCEPT ![w] = Head(importQ)]
          /\ importQ' = Tail(importQ)
          /\ UNCHANGED exportQ
     ELSE /\ exportQ # <<>>
          /\ wjob' = [wjob EXCEPT ![w] = Head(exportQ)]
          /\ exportQ' = Tail(exportQ)
          /\ UNCHANGED importQ
  /\ wpc' = [wpc EXCEPT ![w] = "start"]
  /\ UNCHANGED <<reqKey, hpc, resp, respJob, jobs, idem, mainPc>>

(* The select's ctx.Done() or quit case: the goroutine returns. *)
Exit(w) ==
  /\ wpc[w] = "idle"
  /\ mainPc \in {"cancelled", "stopping"}
  /\ wpc' = [wpc EXCEPT ![w] = "exited"]
  /\ UNCHANGED <<reqKey, hpc, resp, respJob, jobs, idem, importQ, exportQ,
                 wjob, mainPc>>

(* ProcessImport / ProcessAsyncExport: SetStarted. On error the service   *)
(* returns at once and the job stays pending.                              *)
SetStarted(w) ==
  /\ wpc[w] = "start"
  /\ \E ok \in WorkerDBOk :
       IF ok THEN /\ SetStatus(wjob[w], "processing")
                  /\ wpc' = [wpc EXCEPT ![w] = "run"]
                  /\ UNCHANGED wjob
             ELSE /\ wpc' = [wpc EXCEPT ![w] = "idle"]
                  /\ wjob' = [wjob EXCEPT ![w] = NoJob]
                  /\ UNCHANGED jobs
  /\ UNCHANGED <<reqKey, hpc, resp, respJob, idem, importQ, exportQ, mainPc>>

(* The import pipeline and its final status write: GetByID + SetCompleted *)
(* on success, handleJobFailure's SetFailed on error; either write may     *)
(* fail and is only logged. After cancel() the pipeline fails.             *)
RunImport(w) ==
  /\ w \in ImportWorkers
  /\ wpc[w] = "run"
  /\ \E outcome \in IF mainPc = "serving" THEN {"completed", "failed"}
                                           ELSE {"failed"},
        ok \in WorkerDBOk :
       IF ok THEN SetStatus(wjob[w], outcome) ELSE UNCHANGED jobs
  /\ wpc' = [wpc EXCEPT ![w] = "idle"]
  /\ wjob' = [wjob EXCEPT ![w] = NoJob]
  /\ UNCHANGED <<reqKey, hpc, resp, respJob, idem, importQ, exportQ, mainPc>>

(* ProcessAsyncExport: create the output file and stream the rows; on an  *)
(* error handleJobFailure's SetFailed, whose error is ignored.             *)
StreamExport(w) ==
  /\ w \in ExportWorkers
  /\ wpc[w] = "run"
  /\ \E streamed \in WorkerDBOk :
       IF streamed
       THEN /\ wpc' = [wpc EXCEPT ![w] = "update"]
            /\ UNCHANGED <<jobs, wjob>>
       ELSE /\ \E ok \in WorkerDBOk :
                 IF ok THEN SetStatus(wjob[w], "failed") ELSE UNCHANGED jobs
            /\ wpc' = [wpc EXCEPT ![w] = "idle"]
            /\ wjob' = [wjob EXCEPT ![w] = NoJob]
  /\ UNCHANGED <<reqKey, hpc, resp, respJob, idem, importQ, exportQ, mainPc>>

(* jobRepo.Update(ctx, job) with the handler's in-memory job: it writes   *)
(* the file path and counts, and also that job's Status, still pending.   *)
UpdateExport(w) ==
  /\ wpc[w] = "update"
  /\ \E ok \in WorkerDBOk :
       IF ok THEN SetStatus(wjob[w], "pending") ELSE UNCHANGED jobs
  /\ wpc' = [wpc EXCEPT ![w] = "complete"]
  /\ UNCHANGED <<reqKey, hpc, resp, respJob, idem, importQ, exportQ, wjob, mainPc>>

(* SetCompleted of the export; its error is logged. *)
CompleteExport(w) ==
  /\ wpc[w] = "complete"
  /\ \E ok \in WorkerDBOk :
       IF ok THEN SetStatus(wjob[w], "completed") ELSE UNCHANGED jobs
  /\ wpc' = [wpc EXCEPT ![w] = "idle"]
  /\ wjob' = [wjob EXCEPT ![w] = NoJob]
  /\ UNCHANGED <<reqKey, hpc, resp, respJob, idem, importQ, exportQ, mainPc>>

(* main after SIGTERM: cancel() of the workers' context, then Stop closes *)
(* quit and waits for every worker goroutine to return.                    *)
CancelWorkers ==
  /\ MayShutdown
  /\ mainPc = "serving"
  /\ mainPc' = "cancelled"
  /\ UNCHANGED <<reqKey, hpc, resp, respJob, jobs, idem, importQ, exportQ, wpc, wjob>>

StopPool ==
  /\ \/ /\ mainPc = "cancelled"
        /\ mainPc' = "stopping"
     \/ /\ mainPc = "stopping"
        /\ \A w \in Workers : wpc[w] = "exited"
        /\ mainPc' = "stopped"
  /\ UNCHANGED <<reqKey, hpc, resp, respJob, jobs, idem, importQ, exportQ, wpc, wjob>>

(* Nothing left to do: every request answered, every worker blocked in    *)
(* its select on an empty channel or returned.                             *)
Quiescent ==
  /\ \A r \in Reqs : hpc[r] = "done"
  /\ \A w \in Workers : wpc[w] \in {"idle", "exited"}
  /\ \/ mainPc = "stopped"
     \/ mainPc = "serving" /\ importQ = <<>> /\ exportQ = <<>>

HandlerStep(r) ==
  CheckKey(r) \/ Validate(r) \/ CreateJob(r) \/ StoreKey(r) \/ Submit(r)

WorkerStep(w) ==
  \/ Take(w) \/ Exit(w) \/ SetStarted(w) \/ RunImport(w)
  \/ StreamExport(w) \/ UpdateExport(w) \/ CompleteExport(w)

Next ==
  \/ \E r \in Reqs : HandlerStep(r)
  \/ \E w \in Workers : WorkerStep(w)
  \/ \E k \in Keys : ExpireKey(k)
  \/ CancelWorkers \/ StopPool
  \/ Quiescent /\ UNCHANGED vars

(* Every handler goroutine and every worker goroutine runs while it can;  *)
(* main's shutdown proceeds once the signal has come. The signal itself    *)
(* and key expiry are never forced.                                        *)
Spec ==
  /\ Init /\ [][Next]_vars
  /\ \A r \in Reqs : WF_vars(HandlerStep(r))
  /\ \A w \in Workers : WF_vars(WorkerStep(w))
  /\ WF_vars(StopPool)

-----------------------------------------------------------------------------
(* Properties                                                              *)

TypeOK ==
  /\ reqKey \in [Reqs -> Keys \cup {NoKey}]
  /\ hpc \in [Reqs -> HandlerPc]
  /\ resp \in [Reqs -> Response]
  /\ respJob \in [Reqs -> Reqs \cup {NoJob}]
  /\ jobs \in [Reqs -> [status : JobStatus, key : Keys \cup {NoKey}]]
  /\ idem \in [Keys -> [job : Reqs \cup {NoJob}, live : BOOLEAN]]
  /\ importQ \in BoundedSeq(ImportReqs, QueueSize)
  /\ exportQ \in BoundedSeq(ExportReqs, QueueSize)
  /\ wpc \in [Workers -> WorkerPc]
  /\ wjob \in [Workers -> Reqs \cup {NoJob}]
  /\ mainPc \in {"serving", "cancelled", "stopping", "stopped"}

(* The jobs table as the abstract job state machine sees it. *)
Lifecycle == INSTANCE JobLifecycle WITH
               Jobs <- Reqs, status <- [j \in Reqs |-> jobs[j].status]

(* Spec 4.5: every status the handlers, workers, pipeline and export      *)
(* write moves a job forward through pending, processing, completed or    *)
(* failed; processing never goes back to pending.                          *)
LifecycleRefined == Lifecycle!Spec

(* With a healthy database, a request carrying an Idempotency-Key is never *)
(* answered 500: it gets the key's job or a new one (CreateImport).        *)
KeyedRequestNeverFails ==
  \A r \in ImportReqs : reqKey[r] # NoKey => resp[r] # "500"

(* Every job accepted with 202 is eventually completed or failed: the     *)
(* pool receives it and the worker writes a final status.                 *)
AcceptedJobsFinish ==
  \A r \in Reqs : resp[r] = "202" ~> jobs[r].status \in {"completed", "failed"}

(* Spec 5, cancellation: once shutdown has stopped the pool, no job is     *)
(* left processing; a worker that saw the cancelled context marked its    *)
(* job failed.                                                             *)
ShutdownLeavesNoJobProcessing ==
  mainPc = "stopped" => \A j \in Reqs : jobs[j].status # "processing"

=============================================================================

--------------------------- MODULE UserImportExport ---------------------------
(***************************************************************************)
(* The users import pipeline together with a synchronous users export: an  *)
(* API request streams the users table (ExportStream) while import workers *)
(* upsert batches into it. The two share only the users table; the export  *)
(* query reads it once and streams that snapshot.                          *)
(***************************************************************************)
EXTENDS UserImport

CONSTANTS ExportBatchSize, WriteMayFail

VARIABLES epc, format, queried, fetched, exportBatch, out, recordCount,
          first, exportErr

E == INSTANCE ExportStream
       WITH table <- users, epc <- epc, format <- format, queried <- queried,
            fetched <- fetched, exportBatch <- exportBatch, out <- out,
            recordCount <- recordCount, first <- first, exportErr <- exportErr

exportVars == <<epc, format, queried, fetched, exportBatch, out, recordCount,
                first, exportErr>>

allVars == <<vars, exportVars>>

FullInit == Init /\ E!ExportInit

(* A step of an import worker, the export request untouched. *)
ImportStep == Next /\ UNCHANGED exportVars

(* A step of the export request, the import untouched. *)
ExportStep == E!ExportNext /\ UNCHANGED vars

FullNext == ImportStep \/ ExportStep

(* Each import worker and the request's goroutine run to the end. *)
FullSpec ==
  /\ FullInit /\ [][FullNext]_allVars
  /\ \A j \in Jobs : WF_allVars(Step(j) /\ UNCHANGED exportVars)
  /\ WF_allVars(ExportStep)

FullTypeOK == TypeOK /\ E!ExportTypeOK

(* Export properties of ExportStream, checked while imports run. *)
StreamFaithful == E!StreamFaithful
CompleteExport == E!CompleteExport
FailedJSONUnterminated == E!FailedJSONUnterminated

=============================================================================

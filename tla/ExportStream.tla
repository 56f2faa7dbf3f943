---------------------------- MODULE ExportStream ----------------------------
(***************************************************************************)
(* The synchronous export GET /v1/exports?resource=users: the handler      *)
(* ExportHandler.StreamExport (src/unnamed/part_004), the service's        *)
(* StreamUsers (NDJSON) and StreamJSON (a JSON array) of                   *)
(* src/internal/service/export/export_service.go, and the cursor           *)
(* UserRepository.GetAllWithCursor (src/unnamed/part_000).                  *)
(*                                                                         *)
(* GetAllWithCursor runs one SELECT ... ORDER BY created_at and walks its  *)
(* rows with rows.Next, handing them to the callback in batches of         *)
(* BatchSize and the rest at the end. The query reads one snapshot of the  *)
(* table; the rows then stream while other workers keep writing the table. *)
(* What reaches the client is modelled as the sequence of writes made to   *)
(* the response writer: an opening "[", a separator ",", a record, a       *)
(* closing "]". Filters are left out (every row matches); created_at is    *)
(* not modelled, so the query may return the rows in any order.            *)
(***************************************************************************)
EXTENDS Naturals, Sequences, SequencesExt

CONSTANTS
  ExportBatchSize, \* s.config.BatchSize of the export service (EXPORT_BATCH_SIZE)
  DBMayFail,       \* whether the query, or the row stream, may fail
  WriteMayFail     \* whether a write to the client may fail (client gone)

ASSUME ExportBatchSize \in Nat \ {0}
ASSUME DBMayFail \in BOOLEAN /\ WriteMayFail \in BOOLEAN

VARIABLES
  table,        \* the rows of the exported table (written by other workers)
  epc,          \* "idle", "streaming" or "done"
  format,       \* the format query parameter: "ndjson" or "json"
  queried,      \* the rows the query returned, in cursor order
  fetched,      \* how many of them rows.Next has delivered
  exportBatch,  \* GetAllWithCursor's batch, not yet handed to the callback
  out,          \* the writes the client received, in order
  recordCount,  \* StreamUsers' recordCount
  first,        \* StreamJSON's first: no record written yet
  exportErr     \* the error the handler logs: "none", "db" or "write"

exportVars == <<epc, format, queried, fetched, exportBatch, out, recordCount,
                first, exportErr>>

(* The writes: "[\n", ",\n", "\n]" and the marshalled row. *)
Open == [kind |-> "open"]
Sep == [kind |-> "sep"]
Close == [kind |-> "close"]
Rec(r) == [kind |-> "rec", row |-> r]

(* The rows of the records among some writes, in order. *)
RecRows(ws) ==
  LET recs == SelectSeq(ws, LAMBDA w : w.kind = "rec")
  IN [i \in 1..Len(recs) |-> recs[i].row]

(* StreamUsers' callback: one write of the JSON and "\n" per user. *)
NDJSONWrites(recs) == [i \in 1..Len(recs) |-> Rec(recs[i])]

(* StreamJSON's callback: writeRecord writes ",\n" before every record     *)
(* but the first of the array, then the record.                           *)
JSONWrites(recs, isFirst) ==
  FlattenSeq([i \in 1..Len(recs) |->
                IF isFirst /\ i = 1 THEN <<Rec(recs[i])>>
                ELSE <<Sep, Rec(recs[i])>>])

(* The callback of the chosen format over a batch: either all its writes  *)
(* succeed, or the first k do and the next one fails, which ends the       *)
(* callback with that error.                                               *)
Callback(recs) ==
  LET ws == IF format = "ndjson" THEN NDJSONWrites(recs)
            ELSE JSONWrites(recs, first)
  IN {[writes |-> ws, ok |-> TRUE]} \cup
     (IF WriteMayFail
      THEN {[writes |-> SubSeq(ws, 1, k), ok |-> FALSE] : k \in 0..Len(ws) - 1}
      ELSE {})

(* The effect of a callback's writes, followed by tail: recordCount counts *)
(* the NDJSON records written and first is cleared by a record.            *)
Emit(o, tail) ==
  /\ out' = out \o o.writes \o tail
  /\ recordCount' = IF format = "ndjson"
                    THEN recordCount + Len(RecRows(o.writes))
                    ELSE recordCount
  /\ first' = (first /\ RecRows(o.writes) = <<>>)

ExportInit ==
  /\ epc = "idle"
  /\ format = "ndjson"
  /\ queried = <<>>
  /\ fetched = 0
  /\ exportBatch = <<>>
  /\ out = <<>>
  /\ recordCount = 0
  /\ first = TRUE
  /\ exportErr = "none"

(* StreamExport with a valid resource and format: the content type is set *)
(* and StreamUsers or StreamJSON starts; StreamJSON first writes "[\n",    *)
(* then GetAllWithCursor runs the query. A failed write or query ends the  *)
(* stream with that error.                                                 *)
StartExport ==
  /\ epc = "idle"
  /\ \E f \in {"ndjson", "json"} :
       LET opening == IF f = "json" THEN <<Open>> ELSE <<>>
       IN /\ format' = f
          /\ \/ /\ f = "json" /\ WriteMayFail
                /\ out' = <<>>
                /\ exportErr' = "write"
                /\ epc' = "done"
                /\ UNCHANGED queried
             \/ /\ DBMayFail
                /\ out' = opening
                /\ exportErr' = "db"
                /\ epc' = "done"
                /\ UNCHANGED queried
             \/ /\ out' = opening
                /\ \E q \in SetToSeqs(table) : queried' = q
                /\ epc' = "streaming"
                /\ UNCHANGED exportErr
  /\ UNCHANGED <<table, fetched, exportBatch, recordCount, first>>

FetchRowKeepsBatch ==
  /\ epc = "streaming"
  /\ fetched < Len(queried)
  /\ LET b == Append(exportBatch, queried[fetched + 1])
     IN /\ fetched' = fetched + 1
        /\ IF Len(b) >= ExportBatchSize
           THEN \E o \in Callback(b) :
                  /\ Emit(o, <<>>)
                  /\ exportBatch' = b
                  /\ IF o.ok THEN UNCHANGED <<epc, exportErr>>
                     ELSE epc' = "done" /\ exportErr' = "write"
           ELSE /\ exportBatch' = b
                /\ UNCHANGED <<epc, exportErr, out, recordCount, first>>
  /\ UNCHANGED <<table, format, queried>>

(* rows.Next delivers the next row into the batch; a full batch goes to   *)
(* the callback and a new, empty batch is started. A callback error ends  *)
(* GetAllWithCursor with it.                                               *)
FetchRow ==
  /\ epc = "streaming"
  /\ fetched < Len(queried)
  /\ LET b == Append(exportBatch, queried[fetched + 1])
     IN /\ fetched' = fetched + 1
        /\ IF Len(b) >= ExportBatchSize
           THEN \E o \in Callback(b) :
                  /\ Emit(o, <<>>)
                  /\ exportBatch' = <<>>
                  /\ IF o.ok THEN UNCHANGED <<epc, exportErr>>
                     ELSE epc' = "done" /\ exportErr' = "write"
           ELSE /\ exportBatch' = b
                /\ UNCHANGED <<epc, exportErr, out, recordCount, first>>
  /\ UNCHANGED <<table, format, queried>>

LastCallbackDropped == {[writes |-> <<>>, ok |-> TRUE]}

(* After the loop: a non-empty batch still goes to the callback. *)
LastCallback ==
  IF exportBatch # <<>> THEN Callback(exportBatch)
  ELSE {[writes |-> <<>>, ok |-> TRUE]}

EndOfRowsClosesOnError ==
  /\ epc = "streaming"
  /\ \E rowsErr \in (IF DBMayFail THEN BOOLEAN ELSE {FALSE}) :
       /\ rowsErr \/ fetched = Len(queried)
       /\ \E o \in LastCallback :
            \/ /\ ~(o.ok /\ format = "json")
               /\ Emit(o, <<>>)
               /\ exportErr' = IF ~o.ok THEN "write"
                               ELSE IF rowsErr THEN "db" ELSE "none"
            \/ /\ o.ok /\ format = "json"
               /\ Emit(o, <<Close>>)
               /\ exportErr' = IF rowsErr THEN "db" ELSE "none"
  /\ epc' = "done"
  /\ exportBatch' = <<>>
  /\ UNCHANGED <<table, format, queried, fetched>>

(* rows.Next returns false, at the end of the rows or on an error of the  *)
(* row stream. The last batch still goes to the callback, then             *)
(* GetAllWithCursor returns the callback's error or rows.Err(). StreamJSON *)
(* writes "\n]" only if that was nil; the handler logs any error and, the  *)
(* 200 status being sent, returns.                                         *)
EndOfRows ==
  /\ epc = "streaming"
  /\ \E rowsErr \in (IF DBMayFail THEN BOOLEAN ELSE {FALSE}) :
       /\ rowsErr \/ fetched = Len(queried)
       /\ \E o \in LastCallback :
            LET ok == o.ok /\ ~rowsErr
            IN \/ /\ ~(ok /\ format = "json")
                  /\ Emit(o, <<>>)
                  /\ exportErr' = IF ~o.ok THEN "write"
                                  ELSE IF rowsErr THEN "db" ELSE "none"
               \/ /\ ok /\ format = "json"
                  /\ Emit(o, <<Close>>)
                  /\ exportErr' = "none"
               \/ /\ ok /\ format = "json" /\ WriteMayFail
                  /\ Emit(o, <<>>)
                  /\ exportErr' = "write"
  /\ epc' = "done"
  /\ exportBatch' = <<>>
  /\ UNCHANGED <<table, format, queried, fetched>>

ExportNext == StartExport \/ FetchRow \/ EndOfRows

-----------------------------------------------------------------------------
(* Properties                                                              *)

ExportTypeOK ==
  /\ epc \in {"idle", "streaming", "done"}
  /\ format \in {"ndjson", "json"}
  /\ fetched \in 0..Len(queried)
  /\ recordCount \in Nat
  /\ first \in BOOLEAN
  /\ exportErr \in {"none", "db", "write"}

(* While the cursor runs, the records written and then the rows in the    *)
(* batch are exactly the rows fetched so far, in cursor order: every row   *)
(* GetAllWithCursor fetches reaches the callback once and none twice,      *)
(* across batch boundaries.                                                *)
StreamFaithful ==
  epc = "streaming" => RecRows(out) \o exportBatch = SubSeq(queried, 1, fetched)

(* A stream that ends without error gave the client every row the query   *)
(* returned, once and in order, the last partial batch included. NDJSON    *)
(* is one line per row and StreamUsers' recordCount is their number; JSON  *)
(* is one complete array: "[", the records separated by ",", "]".          *)
CompleteExport ==
  epc = "done" /\ exportErr = "none" =>
    /\ format = "ndjson" =>
         out = NDJSONWrites(queried) /\ recordCount = Len(queried)
    /\ format = "json" =>
         out = <<Open>> \o JSONWrites(queried, TRUE) \o <<Close>>

(* The handler cannot change the 200 status once streaming began, so a    *)
(* failed JSON stream must not end with "]": the client then tells a       *)
(* truncated array from a complete one. StreamJSON returns before the      *)
(* closing bracket on any error of GetAllWithCursor.                       *)
FailedJSONUnterminated ==
  epc = "done" /\ format = "json" /\ exportErr # "none" =>
    out = <<>> \/ Last(out) # Close

=============================================================================

------------------------------ MODULE Parsers ------------------------------
(***************************************************************************)
(* The import file parsers: DetectFormat (parsers/format.go), CSVParser    *)
(* and NDJSONParser (parsers/csv_parser.go).                               *)
(*                                                                         *)
(* A file is its extension and its lines. The parsers only tell lines      *)
(* apart by kind: "empty"; "oversized" (longer than the NDJSON scanner's   *)
(* 10 MiB buffer); "malformed" (not a JSON object, or a line encoding/csv  *)
(* fails to read); "header" (a CSV header row); and the kinds of the       *)
(* records a pipeline tells apart, whose fields the parser hands over      *)
(* unchanged. Every parser walks the lines once, keeping lineNumber, and   *)
(* calls the pipeline's callback with (lineNumber, record or nil).         *)
(***************************************************************************)
EXTENDS Naturals, Sequences, FiniteSets, SequencesExt

Extensions == {".csv", ".ndjson", ".jsonl", ".json", "other"}

(* DetectFormat: by the lower-cased extension, CSV by default. *)
DetectFormat(ext) ==
  CASE ext = ".csv" -> "csv"
    [] ext \in {".ndjson", ".jsonl"} -> "ndjson"
    [] ext = ".json" -> "json"
    [] OTHER -> "csv"

(* FileFormat.IsNDJSON: the pipelines use the NDJSON parser for ndjson and *)
(* json, the CSV parser otherwise.                                         *)
IsNDJSON(fmt) == fmt \in {"ndjson", "json"}

(* The lines json.Unmarshal cannot turn into a record: the callback gets nil. *)
IsNilRecord(line) == line.kind \in {"malformed", "header"}

(* Mutant: an empty line is skipped without advancing lineNumber. *)
NDJSONScanUncounted(line) ==
  [count |-> line.kind \notin {"oversized", "empty"},
   callback |-> line.kind \notin {"empty", "oversized"},
   fail |-> line.kind = "oversized"]

(* One iteration of NDJSONParser's loop: Scan fails on an oversized line,  *)
(* ending the loop with scanner.Err(); otherwise lineNumber advances, an   *)
(* empty line is skipped, and any other line goes to the callback (nil     *)
(* when it does not unmarshal).                                            *)
NDJSONScan(line) ==
  [count |-> line.kind # "oversized",
   callback |-> line.kind \notin {"empty", "oversized"},
   fail |-> line.kind = "oversized"]

(* One reader.Read of CSVParser's loop: encoding/csv passes over empty     *)
(* lines; a read error advances lineNumber and skips the row; a record     *)
(* advances it and goes to the callback.                                   *)
CSVRead(line) ==
  [count |-> line.kind # "empty",
   callback |-> line.kind \notin {"empty", "malformed"},
   fail |-> FALSE]

(* The parser's step on the next line of a file of format fmt. *)
ParseStep(fmt, line) == IF IsNDJSON(fmt) THEN NDJSONScan(line) ELSE CSVRead(line)

(* The lineNumber a parser starts its loop with: NewCSVParser has read    *)
(* the header, line 1; NewNDJSONParser starts at 0.                        *)
FirstLineNumber(fmt) == IF IsNDJSON(fmt) THEN 0 ELSE 1

-----------------------------------------------------------------------------
(* The callbacks spec 4.1 and 2 (JobError row number) describe for a whole *)
(* file, stated without the loop: the reference the parsers are checked    *)
(* against.                                                                *)

(* Where an NDJSON file stops: its first oversized line, else past its end. *)
StopAt(fmt, ls) ==
  LET over == {n \in DOMAIN ls : ls[n].kind = "oversized"}
  IN IF IsNDJSON(fmt) /\ over # {}
     THEN CHOOSE n \in over : \A m \in over : n <= m
     ELSE Len(ls) + 1

(* The row number of line n: its line for NDJSON; for CSV the header is   *)
(* row 1 and every later non-empty line, read or not, one more.            *)
SpecRowNumber(fmt, ls, n) ==
  IF IsNDJSON(fmt) THEN n
  ELSE 1 + Cardinality({k \in 2..n : ls[k].kind # "empty"})

(* The lines that reach the callback, in file order. *)
CallbackLines(fmt, ls) ==
  LET skipped == IF IsNDJSON(fmt) THEN {"empty"} ELSE {"empty", "malformed"}
  IN {n \in (FirstLineNumber(fmt) + 1)..(StopAt(fmt, ls) - 1) :
        ls[n].kind \notin skipped}

(* The callbacks, in order: the row number and the line of each. *)
SpecCallbacks(fmt, ls) ==
  LET cl == CallbackLines(fmt, ls)
      ns == SelectSeq([n \in DOMAIN ls |-> n], LAMBDA n : n \in cl)
  IN [i \in DOMAIN ns |-> [row |-> SpecRowNumber(fmt, ls, ns[i]),
                           line |-> ls[ns[i]]]]

=============================================================================

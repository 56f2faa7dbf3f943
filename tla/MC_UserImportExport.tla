------------------------- MODULE MC_UserImportExport -------------------------
(***************************************************************************)
(* Model values and bounds for checking a users import job and a users    *)
(* export request at once.                                                 *)
(***************************************************************************)
EXTENDS UserImportExport, MC_UserImport

CONSTANTS e3, i3

(* The users tables at the start, plus one of two users neither file row *)
(* touches: a job that then inserts e1 gives the export three rows, a full *)
(* batch and a partial one.                                                *)
ExportStartTables ==
  StartTables \cup {{[id |-> i2, email |-> e2], [id |-> i3, email |-> e3]}}

=============================================================================

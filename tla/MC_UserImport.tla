---------------------------- MODULE MC_UserImport ----------------------------
(***************************************************************************)
(* Model values and bounds for checking UserImport with TLC.               *)
(***************************************************************************)
EXTENDS UserImport

CONSTANTS e1, e2, i1, i2, j1, j2

(* Row shapes of a users file: valid rows with and without an id, a row   *)
(* the validator rejects with three errors (name and role missing, active *)
(* not a boolean; its e-mail still staged), so that with BatchSize = 2 an  *)
(* AddErrors chunk holds errors of two rows, and a malformed line.         *)
Valid(e, i) == [kind |-> "valid", email |-> e, id |-> i, errors |-> 0]
Rejected(e) == [kind |-> "invalid", email |-> e, id |-> NoVal, errors |-> 3]
Malformed == [kind |-> "malformed", email |-> NoVal, id |-> NoVal, errors |-> 0]

(* Lines the parsers alone look at. *)
Line(k) == [kind |-> k, email |-> NoVal, id |-> NoVal, errors |-> 0]

RowShapes ==
  {Valid(e1, NoVal), Valid(e1, i1), Valid(e2, i1), Valid(e2, NoVal),
   Rejected(e1), Malformed}

NDJSON(ls) == [name |-> ".ndjson", lines |-> ls]
CSV(ls) == [name |-> ".csv", lines |-> <<Line("header")>> \o ls]

(* One job: every NDJSON file of up to three lines over the row shapes   *)
(* and oversized lines, and of up to two lines with empty lines as well;  *)
(* every CSV file of a header and up to two lines over the row shapes (a   *)
(* malformed one fails to read) and empty lines; a CSV file without        *)
(* header; files whose other extensions pick each parser.                  *)
SingleJobFiles ==
  {NDJSON(ls) : ls \in BoundedSeq(RowShapes \cup {Line("oversized")}, 3)
                      \cup BoundedSeq(RowShapes \cup {Line("empty"), Line("oversized")}, 2)}
  \cup {CSV(ls) : ls \in BoundedSeq(RowShapes \cup {Line("empty")}, 2)}
  \cup {[name |-> ".csv", lines |-> <<>>],
        [name |-> ".jsonl", lines |-> <<Valid(e1, NoVal)>>],
        [name |-> ".json", lines |-> <<Valid(e1, NoVal)>>],
        [name |-> "other", lines |-> <<Line("header"), Valid(e1, NoVal)>>]}

(* Files every line of which reaches the callback: the NDJSON files of up *)
(* to three rows over the row shapes.                                      *)
RowFiles == {NDJSON(ls) : ls \in BoundedSeq(RowShapes, 3) \ {<<>>}}

(* The concurrent run's files: one line, a new user under a fresh id. *)
FreshIdFiles == {NDJSON(<<Valid(e1, NoVal)>>), NDJSON(<<Valid(e2, NoVal)>>)}

(* Users tables at the start: empty, one user sharing i1/e1 with the      *)
(* files, one user with another id holding e2.                             *)
StartTables ==
  {{}, {[id |-> i1, email |-> e1]}, {[id |-> i2, email |-> e2]}}
EmptyTable == {{}}

=============================================================================

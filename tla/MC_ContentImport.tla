--------------------------- MODULE MC_ContentImport ---------------------------
(***************************************************************************)
(* Model values and bounds for an articles job and a comments job at once. *)
(***************************************************************************)
EXTENDS ContentImport, Sequences, SequencesExt

CONSTANTS a1, a2, s1, s2, u1, u2, c1

(* A record the validator accepts: a kebab slug, title and body, a draft *)
(* without published_at, no tags.                                          *)
ValidA(i, sl, u) ==
  [kind |-> "record", id |-> i, slug |-> sl, slugKebab |-> TRUE, title |-> "ok",
   body |-> "ok", author |-> u, status |-> "draft", publishedAt |-> NoVal,
   tags |-> "ok"]
(* A comment the validator accepts: a body of one word and a trailing   *)
(* space ("ab "), and a timestamp; one it rejects: two words over           *)
(* MaxCommentWords, split by punctuation only (" a,b").                     *)
ValidC(i, ar, u) ==
  [kind |-> "record", id |-> i, article |-> ar, user |-> u,
   body |-> <<"letter", "letter", "space">>, createdAt |-> "rfc3339"]
RejectedC(i) ==
  [ValidC(i, a1, u1) EXCEPT !.body = <<"space", "letter", "punct", "letter">>]

(* Articles rows: a new article a2 on a free slug, a new id on a1's slug, *)
(* an update of a1, a fresh row whose author is missing.                   *)
ArticleShapes ==
  {ValidA(a2, s2, u1), ValidA(a2, s1, u1), ValidA(a1, s1, u1),
   ValidA(NoVal, s2, u2)}

(* Comments rows: c1 on a1 and on a2 (which only the articles job may     *)
(* create), a fresh comment by a missing user, a rejected c1. Malformed    *)
(* lines take the same path as in the users and articles runs.             *)
CommentShapes ==
  {ValidC(c1, a1, u1), ValidC(c1, a2, u1), ValidC(NoVal, a2, u2),
   RejectedC(c1)}

(* Lines the parsers pass over or fail on; their fields are never read. *)
Line(kind) == [ValidC(NoVal, NoVal, NoVal) EXCEPT !.kind = kind]
LineA(kind) == [ValidA(NoVal, NoVal, NoVal) EXCEPT !.kind = kind]

(* Every sequence of one or two shapes as an NDJSON file; a CSV file whose *)
(* record follows a row encoding/csv cannot read, so that it is row 3 (an  *)
(* empty line before it in the comments file, so that it is row 2); an     *)
(* empty CSV file; an NDJSON file stopped by a line over the scanner's     *)
(* buffer (after an empty line in the comments file).                      *)
ArticleFileSet ==
  {[name |-> ".ndjson", lines |-> ls] : ls \in BoundedSeq(ArticleShapes, 2) \ {<<>>}}
  \cup {[name |-> ".csv", lines |-> <<LineA("header"), LineA("malformed"),
                                     ValidA(a2, s2, u1)>>],
        [name |-> ".csv", lines |-> <<>>],
        [name |-> ".jsonl", lines |-> <<LineA("oversized")>>]}
CommentFileSet ==
  {[name |-> ".ndjson", lines |-> ls] : ls \in BoundedSeq(CommentShapes, 2) \ {<<>>}}
  \cup {[name |-> ".csv", lines |-> <<Line("header"), Line("empty"),
                                     ValidC(c1, a1, u1)>>],
        [name |-> ".json", lines |-> <<Line("empty"), Line("oversized")>>]}

(* A stored draft article. *)
Draft(i, sl, u) ==
  [id |-> i, slug |-> sl, author |-> u, status |-> "draft", published |-> FALSE]

ArticleTables == {{}, {Draft(a1, s1, u1)}}
CommentTables == {{}, {[id |-> c1, article |-> a1, user |-> u1]}}
=============================================================================

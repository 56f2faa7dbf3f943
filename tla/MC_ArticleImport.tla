--------------------------- MODULE MC_ArticleImport ---------------------------
(***************************************************************************)
(* Model values and bounds for checking ArticleImport alone.               *)
(***************************************************************************)
EXTENDS ArticleImport

CONSTANTS a1, a2, s1, s2, u1, u2

(* A record the validator accepts: a kebab slug, title and body, a draft *)
(* without published_at, no tags.                                          *)
ValidA(i, sl, u) ==
  [kind |-> "record", id |-> i, slug |-> sl, slugKebab |-> TRUE, title |-> "ok",
   body |-> "ok", author |-> u, status |-> "draft", publishedAt |-> NoVal,
   tags |-> "ok"]

(* A fresh record the validator rejects for its status (INVALID_STATUS). *)
RejectedA(sl) == [ValidA(NoVal, sl, u1) EXCEPT !.status = "other"]
MalformedA == [ValidA(NoVal, NoVal, NoVal) EXCEPT !.kind = "malformed"]

(* A new id on the slug of article a1, updates of a1 keeping its slug or  *)
(* moving it to s2, a fresh row whose author is missing, a fresh row on s2,*)
(* a rejected row, a malformed line.                                       *)
ArticleShapes ==
  {ValidA(a2, s1, u1), ValidA(a1, s1, u1), ValidA(a1, s2, u1),
   ValidA(NoVal, s2, u2), ValidA(NoVal, s2, u1), RejectedA(s2), MalformedA}

(* Every sequence of one or two shapes, as an NDJSON file. *)
ArticleFiles ==
  {[name |-> ".ndjson", lines |-> ls] : ls \in BoundedSeq(ArticleShapes, 2) \ {<<>>}}

(* A stored draft article. *)
Draft(i, sl, u) ==
  [id |-> i, slug |-> sl, author |-> u, status |-> "draft", published |-> FALSE]

(* Articles tables at the start: empty, a1 on s1, and a1 on s1 with a2 on *)
(* s2.                                                                     *)
ArticleTables ==
  {{}, {Draft(a1, s1, u1)},
   {Draft(a1, s1, u1), Draft(a2, s2, u1)}}
=============================================================================

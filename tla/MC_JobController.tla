--------------------------- MODULE MC_JobController --------------------------
(***************************************************************************)
(* Model values for checking JobController with TLC.                       *)
(***************************************************************************)
EXTENDS JobController

CONSTANTS ri1, ri2, ri3, rx1, k1, wi1, wi2, wx1

(* Requests, keys and workers are interchangeable among themselves. *)
Symmetry == Permutations({ri1, ri2, ri3}) \cup Permutations({wi1, wi2})

=============================================================================

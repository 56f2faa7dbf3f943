---------------------------- MODULE JobLifecycle ----------------------------
(***************************************************************************)
(* The job state machine the service promises (spec 4.5): a job is        *)
(* created pending, is started once, and ends completed or failed; a      *)
(* pending job may be cancelled. Transitions only go forward: no job       *)
(* returns to pending and no finished job changes status again.            *)
(***************************************************************************)
CONSTANTS Jobs

VARIABLE status

Status == {"none", "pending", "processing", "completed", "failed", "cancelled"}

Init == status = [j \in Jobs |-> "none"]

Create(j) ==
  /\ status[j] = "none"
  /\ status' = [status EXCEPT ![j] = "pending"]

Start(j) ==
  /\ status[j] = "pending"
  /\ status' = [status EXCEPT ![j] = "processing"]

Finish(j) ==
  /\ status[j] = "processing"
  /\ \E s \in {"completed", "failed"} : status' = [status EXCEPT ![j] = s]

Cancel(j) ==
  /\ status[j] = "pending"
  /\ status' = [status EXCEPT ![j] = "cancelled"]

Next == \E j \in Jobs : Create(j) \/ Start(j) \/ Finish(j) \/ Cancel(j)

Spec == Init /\ [][Next]_status

=============================================================================

------------------------------ MODULE JobRows ------------------------------
(***************************************************************************)
(* Rows of document_processing_jobs, job_execution_plans and               *)
(* job_approval_requests as far as the approval workflow tells them apart, *)
(* and the effect each SQL statement has on one row.  A row that has not   *)
(* been inserted is an element of its table with status or job "absent".   *)
(* Timestamps, reasons, reviewers, risk tiers and plan bodies are left     *)
(* out: no statement decides anything on them.                             *)
(*                                                                         *)
(* Here and in the modules built on this one, a definition marked "Slip"   *)
(* is not part of the model: it is a mistake the code could have made, and *)
(* serves to show that some property notices it.                           *)
(***************************************************************************)
CONSTANTS
    Jobs,          \* job ids (fresh ULIDs minted by CreateProcessingJob)
    Plans,         \* plan ids (chosen by the caller of UpsertJobExecutionPlan)
    Approvals,     \* approval ids (fresh "apr_" ULIDs)
    CallerStatus,  \* plan status strings passed in by callers of the upsert
    None           \* the empty id

(***************************************************************************)
(* A status a caller writes into a plan is kept apart from the ones the    *)
(* workflow writes, so that the two writers can be told apart.             *)
(***************************************************************************)
Decision == {"pending_approval", "approved", "rejected"}

ASSUME NoneIsNoId == None \notin Jobs \cup Plans \cup Approvals
ASSUME CallersApart == CallerStatus \cap Decision = {} /\ None \notin CallerStatus

JobStatus  == {"absent", "queued", "running", "succeeded", "failed"}
PlanStatus == {"", "executing", "completed"} \cup Decision
ReviewStatus == {"pending", "approved", "rejected"}

JobRow      == [status: JobStatus, planStatus: PlanStatus, plan: Plans \cup {None}]
PlanRow     == [job: Jobs \cup {None}, status: Decision \cup CallerStatus \cup {None}]
ApprovalRow == [job: Jobs \cup {None}, plan: Plans \cup {None},
                status: ReviewStatus \cup {"absent"}]

NoJob      == [status |-> "absent", planStatus |-> "", plan |-> None]
NoPlan     == [job |-> None, status |-> None]
NoApproval == [job |-> None, plan |-> None, status |-> "absent"]

----------------------------------------------------------------------------
(* document_processing_jobs *)

\* INSERT by CreateProcessingJob: no plan, empty plan_status, QUEUED.
QueuedRow == [NoJob EXCEPT !.status = "queued"]

\* Slip: the CASE around plan_status is dropped.
RunningRowUnguarded(r) == [r EXCEPT !.status = "running", !.planStatus = "executing"]

\* Slip: a rejected job is let through as well.
RunningRowAfterRejection(r) ==
    [r EXCEPT !.status = "running",
              !.planStatus = IF @ \in {"", "approved", "none", "rejected"}
                             THEN "executing" ELSE @]

\* markProcessingJobRunning: a job without a decision against it starts executing.
RunningRow(r) ==
    [r EXCEPT !.status = "running",
              !.planStatus = IF @ \in {"", "approved", "none"} THEN "executing" ELSE @]

\* failProcessingJob leaves the plan status alone.
FailedRow(r) == [r EXCEPT !.status = "failed"]

\* completeProcessingJob has no guard on the status it replaces.
CompletedRow(r) == [r EXCEPT !.status = "succeeded", !.planStatus = "completed"]

\* updateProcessingJobPlanState
PlanStateRow(r, p, s) == [r EXCEPT !.plan = p, !.planStatus = s]

(* job_execution_plans *)

\* Slip: the upsert also sets job_id = EXCLUDED.job_id.
UpsertedPlanMoves(r, j, s) == [job |-> j, status |-> s]

\* upsertJobExecutionPlan: on conflict the owner (and created_at) stay.
UpsertedPlan(r, j, s) == IF r = NoPlan THEN [job |-> j, status |-> s]
                         ELSE [r EXCEPT !.status = s]

\* updateJobExecutionPlanStatus
PlanStatusRow(r, s) == [r EXCEPT !.status = s]

(* job_approval_requests *)

\* createJobApprovalRequest
PendingApproval(j, p) == [job |-> j, plan |-> p, status |-> "pending"]

\* approveJobApproval and rejectJobApproval: neither asks whether the row is still pending.
ReviewedRow(r, verdict) == [r EXCEPT !.status = verdict]

\* getJobApprovalPlanID finds the row only under the job it was requested for.
FoundUnder(r, j) == r.status # "absent" /\ r.job = j
=============================================================================

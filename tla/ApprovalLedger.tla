--------------------------- MODULE ApprovalLedger ---------------------------
(***************************************************************************)
(* What the approval workflow promises: every store operation happens at   *)
(* once, on the committed tables.  JobApproval, where the operations are   *)
(* transactions of several statements that interleave, wait for row locks  *)
(* and fail half way, implements this specification.                       *)
(***************************************************************************)
EXTENDS JobRows

VARIABLES
    jobs,          \* document_processing_jobs
    capabilities,  \* the jobs that have a job_capabilities row
    plans,         \* job_execution_plans
    approvals      \* job_approval_requests

vars == <<jobs, capabilities, plans, approvals>>

Exists(j) == jobs[j].status # "absent"

Init ==
    /\ jobs = [j \in Jobs |-> NoJob]
    /\ capabilities = {}
    /\ plans = [p \in Plans |-> NoPlan]
    /\ approvals = [a \in Approvals |-> NoApproval]

\* Slip: the job is inserted without its capability.
CreateJobAlone(j) ==
    /\ ~Exists(j)
    /\ jobs' = [jobs EXCEPT ![j] = QueuedRow]
    /\ UNCHANGED <<capabilities, plans, approvals>>

CreateProcessingJob(j) ==
    /\ ~Exists(j)
    /\ jobs' = [jobs EXCEPT ![j] = QueuedRow]
    /\ capabilities' = capabilities \cup {j}
    /\ UNCHANGED <<plans, approvals>>

\* Callers only hold ids of jobs whose creation has committed.
UpsertJobExecutionPlan(p, j, s) ==
    /\ Exists(j)
    /\ plans' = [plans EXCEPT ![p] = UpsertedPlan(@, j, s)]
    /\ UNCHANGED <<jobs, capabilities, approvals>>

RequestJobApproval(j, p, a) ==
    /\ Exists(j)
    /\ plans[p].job = j
    /\ approvals[a] = NoApproval
    /\ approvals' = [approvals EXCEPT ![a] = PendingApproval(j, p)]
    /\ plans' = [plans EXCEPT ![p] = PlanStatusRow(@, "pending_approval")]
    /\ jobs' = [jobs EXCEPT ![j] = PlanStateRow(@, p, "pending_approval")]
    /\ UNCHANGED capabilities

\* Slip: the review forgets the row of the plan.
ReviewLeavesPlan(j, a, verdict) ==
    /\ Exists(j)
    /\ FoundUnder(approvals[a], j)
    /\ approvals' = [approvals EXCEPT ![a] = ReviewedRow(@, verdict)]
    /\ jobs' = [jobs EXCEPT ![j] = PlanStateRow(@, approvals[a].plan, verdict)]
    /\ UNCHANGED <<capabilities, plans>>

\* ApproveJobApproval and RejectJobApproval differ in the verdict they write.
ReviewJobApproval(j, a, verdict) ==
    /\ Exists(j)
    /\ FoundUnder(approvals[a], j)
    /\ approvals' = [approvals EXCEPT ![a] = ReviewedRow(@, verdict)]
    /\ LET p == approvals[a].plan
       IN  /\ plans' = [plans EXCEPT ![p] = PlanStatusRow(@, verdict)]
           /\ jobs' = [jobs EXCEPT ![j] = PlanStateRow(@, p, verdict)]
    /\ UNCHANGED capabilities

MarkProcessingJobRunning(j) ==
    /\ Exists(j)
    /\ jobs' = [jobs EXCEPT ![j] = RunningRow(@)]
    /\ UNCHANGED <<capabilities, plans, approvals>>

FailProcessingJob(j) ==
    /\ Exists(j)
    /\ jobs' = [jobs EXCEPT ![j] = FailedRow(@)]
    /\ UNCHANGED <<capabilities, plans, approvals>>

CompleteProcessingJob(j) ==
    /\ Exists(j)
    /\ jobs' = [jobs EXCEPT ![j] = CompletedRow(@)]
    /\ UNCHANGED <<capabilities, plans, approvals>>

Next ==
    \/ \E j \in Jobs : \/ CreateProcessingJob(j)
                       \/ MarkProcessingJobRunning(j)
                       \/ FailProcessingJob(j)
                       \/ CompleteProcessingJob(j)
    \/ \E j \in Jobs, p \in Plans, s \in CallerStatus : UpsertJobExecutionPlan(p, j, s)
    \/ \E j \in Jobs, p \in Plans, a \in Approvals : RequestJobApproval(j, p, a)
    \/ \E j \in Jobs, a \in Approvals, verdict \in {"approved", "rejected"} :
           ReviewJobApproval(j, a, verdict)

Spec == Init /\ [][Next]_vars

----------------------------------------------------------------------------
\* Every table holds rows of its type; a job has a capability exactly when it exists.
TypeOK ==
    /\ jobs \in [Jobs -> JobRow]
    /\ capabilities = {j \in Jobs : Exists(j)}
    /\ plans \in [Plans -> PlanRow]
    /\ approvals \in [Approvals -> ApprovalRow]

(***************************************************************************)
(* Ownership: an approval request is for a plan of its own job, and a job  *)
(* points at a plan of its own, although UpsertJobExecutionPlan accepts    *)
(* any plan id under any job id and a reviewer any pair of ids.            *)
(***************************************************************************)
Ownership ==
    /\ \A a \in Approvals : approvals[a] # NoApproval =>
           /\ approvals[a].job \in Jobs
           /\ approvals[a].plan \in Plans
           /\ plans[approvals[a].plan].job = approvals[a].job
    /\ \A j \in Jobs : jobs[j].plan # None => plans[jobs[j].plan].job = j

\* The verdict an approval row must carry for the job row to say s of its plan.
Vouches(s) == CASE s = "pending_approval" -> "pending"
                [] s = "executing"        -> "approved"
                [] OTHER                  -> s

(***************************************************************************)
(* What a job row says of its plan is vouched for by an approval request   *)
(* of that job and that plan: no job is approved, or executes a plan, on a *)
(* request that was never made, was rejected since, or is about another    *)
(* plan.  Approve, reject and re-request may come in any order and number. *)
(***************************************************************************)
ApprovalBacksJob ==
    \A j \in Jobs :
        jobs[j].planStatus \in Decision \cup {"executing"} /\ jobs[j].plan # None =>
            \E a \in Approvals : /\ approvals[a].job = j
                                 /\ approvals[a].plan = jobs[j].plan
                                 /\ approvals[a].status = Vouches(jobs[j].planStatus)

(***************************************************************************)
(* The job row and the row of the plan it points at carry the same         *)
(* decision, unless a caller has rewritten the plan since.                 *)
(***************************************************************************)
PlanAgrees ==
    \A j \in Jobs :
        LET r == jobs[j] IN
        r.plan # None /\ r.planStatus # "completed" =>
            plans[r.plan].status \in
                CallerStatus \cup {IF r.planStatus = "executing" THEN "approved" ELSE r.planStatus}

(***************************************************************************)
(* A job with a plan under review starts executing only when the last      *)
(* decision on it was an approval: a rejected, pending or completed plan   *)
(* is not picked up again by MarkProcessingJobRunning, even if an older    *)
(* approval of the same plan still stands.                                 *)
(***************************************************************************)
ExecutionFollowsApproval ==
    [][\A j \in Jobs :
          jobs'[j].planStatus = "executing" /\ jobs[j].planStatus # "executing" =>
              jobs[j].planStatus = IF jobs[j].plan = None THEN "" ELSE "approved"]_jobs

(***************************************************************************)
(* domain/types.go:16-17 names the two refusals "job execution plan        *)
(* requires approval" and "job execution plan was rejected": a job whose   *)
(* plan awaits approval or was rejected does not start running.            *)
(***************************************************************************)
RunsOnlyApproved ==
    [][\A j \in Jobs :
          jobs'[j].status = "running" /\ jobs[j].status # "running" =>
              jobs[j].planStatus \notin {"pending_approval", "rejected"}]_jobs
=============================================================================

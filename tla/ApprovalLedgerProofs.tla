------------------------ MODULE ApprovalLedgerProofs ------------------------
(***************************************************************************)
(* The invariants of the approval ledger, for every number of jobs, plans  *)
(* and approval requests.                                                  *)
(***************************************************************************)
EXTENDS ApprovalLedger, TLAPS

----------------------------------------------------------------------------
(* Every row a statement writes is a row of its table. *)

\* The statements on document_processing_jobs keep its rows well typed.
LEMMA JobRowTypes ==
    /\ NoJob \in JobRow /\ QueuedRow \in JobRow
    /\ \A r \in JobRow : /\ RunningRow(r) \in JobRow
                         /\ FailedRow(r) \in JobRow
                         /\ CompletedRow(r) \in JobRow
    /\ \A r \in JobRow, p \in Plans, s \in Decision : PlanStateRow(r, p, s) \in JobRow
  <1> USE DEF JobRow
  <1>1. NoJob \in JobRow /\ QueuedRow \in JobRow
    BY DEF NoJob, QueuedRow, JobStatus, PlanStatus
  <1>2. ASSUME NEW r \in JobRow
        PROVE  RunningRow(r) \in JobRow /\ FailedRow(r) \in JobRow /\ CompletedRow(r) \in JobRow
    BY DEF RunningRow, FailedRow, CompletedRow, JobStatus, PlanStatus
  <1>3. ASSUME NEW r \in JobRow, NEW p \in Plans, NEW s \in Decision
        PROVE  PlanStateRow(r, p, s) \in JobRow
    BY DEF PlanStateRow, PlanStatus
  <1> QED
    BY <1>1, <1>2, <1>3

\* The statements on job_execution_plans keep its rows well typed.
LEMMA PlanRowTypes ==
    /\ NoPlan \in PlanRow
    /\ \A r \in PlanRow, s \in Decision : PlanStatusRow(r, s) \in PlanRow
    /\ \A r \in PlanRow, j \in Jobs, s \in CallerStatus : UpsertedPlan(r, j, s) \in PlanRow
  BY DEF PlanRow, NoPlan, PlanStatusRow, UpsertedPlan

\* The statements on job_approval_requests keep its rows well typed.
LEMMA ApprovalRowTypes ==
    /\ NoApproval \in ApprovalRow
    /\ \A j \in Jobs, p \in Plans : PendingApproval(j, p) \in ApprovalRow
    /\ \A r \in ApprovalRow, v \in {"approved", "rejected"} : ReviewedRow(r, v) \in ApprovalRow
  BY DEF ApprovalRow, NoApproval, PendingApproval, ReviewedRow, ReviewStatus

----------------------------------------------------------------------------

\* Only a job with a plan carries a decision, and a job with a plan always carries a status.
Planned ==
    \A j \in Jobs : /\ jobs[j].plan = None => jobs[j].planStatus \notin Decision
                    /\ jobs[j].plan # None => jobs[j].planStatus # ""

\* Inductive: the decision invariants hold each other up through Ownership and Planned.
IInv == TypeOK /\ Ownership /\ Planned /\ ApprovalBacksJob /\ PlanAgrees

USE NoneIsNoId, CallersApart

----------------------------------------------------------------------------
\* The invariant holds of the empty tables.
LEMMA InitIInv == Init => IInv
  <1> SUFFICES ASSUME Init PROVE IInv
    OBVIOUS
  <1>1. TypeOK
    BY JobRowTypes, PlanRowTypes, ApprovalRowTypes DEF Init, TypeOK, Exists, NoJob
  <1>2. Ownership /\ Planned /\ ApprovalBacksJob /\ PlanAgrees
    BY DEF Init, Ownership, Planned, ApprovalBacksJob, PlanAgrees, NoJob, Decision
  <1> QED
    BY <1>1, <1>2 DEF IInv

\* An approval request vouches for the row of job j.
Backed(j) ==
    jobs[j].planStatus \in Decision \cup {"executing"} /\ jobs[j].plan # None =>
        \E a \in Approvals : /\ approvals[a].job = j
                             /\ approvals[a].plan = jobs[j].plan
                             /\ approvals[a].status = Vouches(jobs[j].planStatus)

\* CreateProcessingJob: the new row carries no plan and no decision.
LEMMA CreatePreserves ==
  ASSUME IInv, NEW j \in Jobs, CreateProcessingJob(j) PROVE IInv'
  <1> USE DEF CreateProcessingJob
  <1>1. TypeOK'
    BY JobRowTypes, PlanRowTypes, ApprovalRowTypes DEF IInv, TypeOK, Exists, QueuedRow, NoJob
  <1>2. /\ jobs'[j].plan = None /\ jobs'[j].planStatus = ""
        /\ \A i \in Jobs \ {j} : jobs'[i] = jobs[i]
    BY DEF IInv, TypeOK, QueuedRow, NoJob
  <1>3. Ownership' /\ Planned' /\ PlanAgrees'
    <2>1. Ownership'
      <3>1. \A i \in Jobs : jobs'[i].plan # None => jobs[i].plan = jobs'[i].plan
        BY <1>2
      <3> QED
        BY <3>1 DEF IInv, Ownership
    <2>2. Planned'
      BY <1>2 DEF IInv, Planned, Decision
    <2>3. PlanAgrees'
      BY <1>2 DEF IInv, PlanAgrees
    <2> QED
      BY <2>1, <2>2, <2>3
  <1>4. ApprovalBacksJob'
    <2> SUFFICES ASSUME NEW i \in Jobs PROVE Backed(i)'
      BY DEF ApprovalBacksJob, Backed
    <2>1. Backed(i)
      BY DEF IInv, ApprovalBacksJob, Backed
    <2> QED
      BY <1>2, <2>1 DEF Backed
  <1> QED
    BY <1>1, <1>3, <1>4 DEF IInv

\* UpsertJobExecutionPlan: a new plan is nobody's yet, an old one keeps its owner.
LEMMA UpsertPreserves ==
  ASSUME IInv, NEW p \in Plans, NEW j \in Jobs, NEW s \in CallerStatus,
         UpsertJobExecutionPlan(p, j, s)
  PROVE  IInv'
  <1> USE DEF UpsertJobExecutionPlan
  <1>1. TypeOK'
    BY JobRowTypes, PlanRowTypes, ApprovalRowTypes DEF IInv, TypeOK, Exists
  <1>2. /\ \A q \in Plans \ {p} : plans'[q] = plans[q]
        /\ plans'[p].status \in CallerStatus
        /\ plans[p].job \in Jobs => plans'[p].job = plans[p].job
    BY DEF IInv, TypeOK, UpsertedPlan, PlanRow, NoPlan
  <1>3. Ownership'
    BY <1>2 DEF IInv, TypeOK, Ownership, JobRow
  <1>4. PlanAgrees'
    <2> SUFFICES ASSUME NEW i \in Jobs,
                        jobs[i].plan # None, jobs[i].planStatus # "completed"
                 PROVE  plans'[jobs[i].plan].status \in CallerStatus \cup
                          {IF jobs[i].planStatus = "executing" THEN "approved"
                                                               ELSE jobs[i].planStatus}
      BY DEF PlanAgrees
    <2>1. jobs[i].plan \in Plans
      BY DEF IInv, TypeOK, JobRow
    <2> QED
      BY <1>2, <2>1 DEF IInv, PlanAgrees
  <1>5. Planned' /\ ApprovalBacksJob'
    BY DEF IInv, Planned, ApprovalBacksJob
  <1> QED
    BY <1>1, <1>3, <1>4, <1>5 DEF IInv

(***************************************************************************)
(* A decision on approval a of plan p, pending or reviewed, written to the *)
(* three rows at once.                                                     *)
(***************************************************************************)
Decided(j, p, a, row, s) ==
    /\ approvals' = [approvals EXCEPT ![a] = row]
    /\ plans' = [plans EXCEPT ![p] = PlanStatusRow(@, s)]
    /\ jobs' = [jobs EXCEPT ![j] = PlanStateRow(@, p, s)]
    /\ UNCHANGED capabilities

\* What requests and reviews share: approval, plan and job rows get one decision.
LEMMA DecisionPreserves ==
  ASSUME IInv, NEW j \in Jobs, NEW p \in Plans, NEW a \in Approvals,
         NEW row \in ApprovalRow, NEW s \in Decision,
         Exists(j), plans[p].job = j,
         approvals[a] = NoApproval \/ approvals[a].job = j,
         row.job = j, row.plan = p, row.status = Vouches(s),
         Decided(j, p, a, row, s)
  PROVE  IInv'
  <1> USE DEF Decided
  <1>1. /\ approvals' \in [Approvals -> ApprovalRow]
        /\ plans' \in [Plans -> PlanRow]
        /\ jobs' \in [Jobs -> JobRow]
    BY JobRowTypes, PlanRowTypes, ApprovalRowTypes DEF IInv, TypeOK
  <1>2. /\ approvals'[a] = row /\ \A b \in Approvals \ {a} : approvals'[b] = approvals[b]
        /\ plans'[p].status = s /\ \A q \in Plans \ {p} : plans'[q] = plans[q]
        /\ jobs'[j].plan = p /\ jobs'[j].planStatus = s
        /\ jobs'[j].status = jobs[j].status
        /\ \A i \in Jobs \ {j} : jobs'[i] = jobs[i]
        /\ \A q \in Plans : plans'[q].job = plans[q].job
    BY DEF IInv, TypeOK, PlanStatusRow, PlanStateRow, PlanRow, JobRow
  <1>3. TypeOK'
    BY <1>1, <1>2 DEF IInv, TypeOK, Exists
  <1>4. Ownership'
    BY <1>2 DEF IInv, TypeOK, Ownership, JobRow
  <1>5. Planned'
    <2> SUFFICES ASSUME NEW i \in Jobs
                 PROVE  /\ jobs'[i].plan = None => jobs'[i].planStatus \notin Decision
                        /\ jobs'[i].plan # None => jobs'[i].planStatus # ""
      BY DEF Planned
    <2>1. p # None /\ s # ""
      BY DEF Decision
    <2>2. CASE i = j
      BY <1>2, <2>1, <2>2
    <2>3. CASE i # j
      <3>1. jobs'[i] = jobs[i]
        BY <1>2, <2>3
      <3> QED
        BY <3>1 DEF IInv, Planned
    <2> QED
      BY <2>2, <2>3
  <1>6. ApprovalBacksJob'
    <2> SUFFICES ASSUME NEW i \in Jobs PROVE Backed(i)'
      BY DEF ApprovalBacksJob, Backed
    <2>1. CASE i = j
      BY <1>2, <2>1 DEF Backed
    <2>2. CASE i # j
      <3>1. Backed(i)
        BY DEF IInv, ApprovalBacksJob, Backed
      <3>2. \A b \in Approvals : approvals[b].job = i => b # a
        BY <2>2 DEF NoApproval
      <3> QED
        BY <1>2, <2>2, <3>1, <3>2 DEF Backed
    <2> QED
      BY <2>1, <2>2
  <1>7. PlanAgrees'
    <2> SUFFICES ASSUME NEW i \in Jobs,
                        jobs'[i].plan # None, jobs'[i].planStatus # "completed"
                 PROVE  plans'[jobs'[i].plan].status \in CallerStatus \cup
                          {IF jobs'[i].planStatus = "executing" THEN "approved"
                                                                ELSE jobs'[i].planStatus}
      BY DEF PlanAgrees
    <2>1. CASE i = j
      BY <1>2, <2>1 DEF Decision
    <2>2. CASE i # j
      <3>1. jobs[i].plan \in Plans /\ jobs[i].plan # p
        BY <1>2, <2>2 DEF IInv, TypeOK, Ownership, JobRow
      <3> QED
        BY <1>2, <2>2, <3>1 DEF IInv, PlanAgrees
    <2> QED
      BY <2>1, <2>2
  <1> QED
    BY <1>3, <1>4, <1>5, <1>6, <1>7 DEF IInv

\* RequestJobApproval: a decision written on a fresh approval row.
LEMMA RequestPreserves ==
  ASSUME IInv, NEW j \in Jobs, NEW p \in Plans, NEW a \in Approvals,
         RequestJobApproval(j, p, a)
  PROVE  IInv'
  <1> DEFINE row == PendingApproval(j, p)
  <1>1. row \in ApprovalRow /\ row.job = j /\ row.plan = p
    BY JobRowTypes, PlanRowTypes, ApprovalRowTypes DEF PendingApproval
  <1>2. row.status = Vouches("pending_approval")
    BY DEF PendingApproval, Vouches
  <1>3. Decided(j, p, a, row, "pending_approval")
    BY DEF RequestJobApproval, Decided
  <1> QED
    BY <1>1, <1>2, <1>3, DecisionPreserves DEF RequestJobApproval, Decision

\* ApproveJobApproval and RejectJobApproval: a decision on the row found under the job.
LEMMA ReviewPreserves ==
  ASSUME IInv, NEW j \in Jobs, NEW a \in Approvals, NEW v \in {"approved", "rejected"},
         ReviewJobApproval(j, a, v)
  PROVE  IInv'
  <1> DEFINE p   == approvals[a].plan
             row == ReviewedRow(approvals[a], v)
  <1>1. approvals[a] \in ApprovalRow /\ approvals[a].job = j
    BY DEF IInv, TypeOK, ReviewJobApproval, FoundUnder
  <1>2. p \in Plans /\ plans[p].job = j
    BY DEF IInv, Ownership, ReviewJobApproval, FoundUnder, NoApproval
  <1>3. row \in ApprovalRow /\ row.job = j /\ row.plan = p /\ row.status = v
    BY <1>1, JobRowTypes, PlanRowTypes, ApprovalRowTypes DEF ReviewedRow, ApprovalRow
  <1>4. v \in Decision /\ v = Vouches(v)
    BY DEF Vouches, Decision
  <1>5. Decided(j, p, a, row, v)
    BY DEF ReviewJobApproval, Decided
  <1>6. Exists(j)
    BY DEF ReviewJobApproval
  <1> HIDE DEF p, row
  <1> QED
    BY <1>1, <1>2, <1>3, <1>4, <1>5, <1>6, DecisionPreserves

\* MarkProcessingJobRunning, FailProcessingJob and CompleteProcessingJob.
LEMMA StatusPreserves ==
  ASSUME IInv, NEW j \in Jobs,
         MarkProcessingJobRunning(j) \/ FailProcessingJob(j) \/ CompleteProcessingJob(j)
  PROVE  IInv'
  <1> USE DEF MarkProcessingJobRunning, FailProcessingJob, CompleteProcessingJob
  <1>1. /\ jobs' \in [Jobs -> JobRow]
        /\ UNCHANGED <<capabilities, plans, approvals>>
        /\ \A i \in Jobs \ {j} : jobs'[i] = jobs[i]
    BY JobRowTypes, PlanRowTypes, ApprovalRowTypes DEF IInv, TypeOK
  <1>2. /\ jobs'[j].plan = jobs[j].plan
        /\ jobs'[j].status # "absent"
        /\ \/ jobs'[j].planStatus = jobs[j].planStatus
           \/ jobs'[j].planStatus = "executing" /\ jobs[j].planStatus \in {"", "approved"}
           \/ jobs'[j].planStatus = "completed"
    <2>1. jobs[j] \in JobRow /\ jobs[j].planStatus # "none"
      BY DEF IInv, TypeOK, JobRow, PlanStatus, Decision
    <2>2. CASE MarkProcessingJobRunning(j)
      <3>1. jobs'[j] = RunningRow(jobs[j])
        BY <2>2 DEF IInv, TypeOK
      <3> QED
        BY <2>1, <3>1 DEF RunningRow, JobRow
    <2>3. CASE FailProcessingJob(j)
      <3>1. jobs'[j] = FailedRow(jobs[j])
        BY <2>3 DEF IInv, TypeOK
      <3> QED
        BY <2>1, <3>1 DEF FailedRow, JobRow
    <2>4. CASE CompleteProcessingJob(j)
      <3>1. jobs'[j] = CompletedRow(jobs[j])
        BY <2>4 DEF IInv, TypeOK
      <3> QED
        BY <2>1, <3>1 DEF CompletedRow, JobRow
    <2> QED
      BY <2>2, <2>3, <2>4
  <1>3. TypeOK'
    BY <1>1, <1>2 DEF IInv, TypeOK, Exists, MarkProcessingJobRunning, FailProcessingJob,
                      CompleteProcessingJob
  <1>4. Ownership' /\ Planned'
    <2>1. \A i \in Jobs : jobs'[i].plan = jobs[i].plan
      BY <1>1, <1>2
    <2>2. Ownership'
      BY <1>1, <2>1 DEF IInv, Ownership
    <2>3. Planned'
      <3> SUFFICES ASSUME NEW i \in Jobs
                   PROVE  /\ jobs'[i].plan = None => jobs'[i].planStatus \notin Decision
                          /\ jobs'[i].plan # None => jobs'[i].planStatus # ""
        BY DEF Planned
      <3>1. /\ jobs[i].plan = None => jobs[i].planStatus \notin Decision
            /\ jobs[i].plan # None => jobs[i].planStatus # ""
        BY DEF IInv, Planned
      <3> QED
        BY <1>1, <1>2, <2>1, <3>1 DEF Decision
    <2> QED
      BY <2>2, <2>3
  <1>5. ApprovalBacksJob'
    <2> SUFFICES ASSUME NEW i \in Jobs PROVE Backed(i)'
      BY DEF ApprovalBacksJob, Backed
    <2>1. Backed(i)
      BY DEF IInv, ApprovalBacksJob, Backed
    <2>2. CASE i # j
      BY <1>1, <2>1, <2>2 DEF Backed
    <2>3. CASE i = j /\ jobs'[j].planStatus = jobs[j].planStatus
      BY <1>1, <1>2, <2>1, <2>3 DEF Backed
    <2>4. CASE i = j /\ jobs'[j].planStatus = "executing" /\ jobs[j].planStatus = "approved"
      <3>1. Vouches("executing") = "approved" /\ Vouches("approved") = "approved"
        BY DEF Vouches
      <3> QED
        BY <1>1, <1>2, <2>1, <2>4, <3>1 DEF Backed, Decision
    <2>5. CASE i = j /\ jobs[j].planStatus = ""
      BY <1>2, <2>1, <2>5 DEF Backed, IInv, Planned, Decision
    <2>6. CASE i = j /\ jobs'[j].planStatus = "completed"
      BY <2>6 DEF Backed, Decision
    <2> QED
      BY <1>2, <2>2, <2>3, <2>4, <2>5, <2>6
  <1>6. PlanAgrees'
    <2> SUFFICES ASSUME NEW i \in Jobs,
                        jobs'[i].plan # None, jobs'[i].planStatus # "completed"
                 PROVE  plans[jobs'[i].plan].status \in CallerStatus \cup
                          {IF jobs'[i].planStatus = "executing" THEN "approved"
                                                                ELSE jobs'[i].planStatus}
      BY <1>1 DEF PlanAgrees
    <2>1. jobs'[i].plan = jobs[i].plan
      BY <1>1, <1>2
    <2>2. \/ jobs'[i].planStatus = jobs[i].planStatus
          \/ jobs'[i].planStatus = "executing" /\ jobs[i].planStatus = "approved"
      BY <1>1, <1>2, <2>1 DEF IInv, Planned
    <2>3. plans[jobs[i].plan].status \in CallerStatus \cup
            {IF jobs[i].planStatus = "executing" THEN "approved" ELSE jobs[i].planStatus}
      BY <2>1, <2>2 DEF IInv, PlanAgrees
    <2> QED
      BY <2>1, <2>2, <2>3
  <1> QED
    BY <1>3, <1>4, <1>5, <1>6 DEF IInv

\* Every step of the ledger preserves the invariant.
LEMMA NextPreserves == IInv /\ [Next]_vars => IInv'
  <1> SUFFICES ASSUME IInv, [Next]_vars PROVE IInv'
    OBVIOUS
  <1>1. CASE UNCHANGED vars
    BY <1>1 DEF vars, IInv, TypeOK, Exists, Ownership, Planned, ApprovalBacksJob, PlanAgrees
  <1>2. ASSUME NEW j \in Jobs, CreateProcessingJob(j) PROVE IInv'
    BY <1>2, CreatePreserves
  <1>3. ASSUME NEW j \in Jobs,
               MarkProcessingJobRunning(j) \/ FailProcessingJob(j) \/ CompleteProcessingJob(j)
        PROVE  IInv'
    BY <1>3, StatusPreserves
  <1>4. ASSUME NEW j \in Jobs, NEW p \in Plans, NEW s \in CallerStatus,
               UpsertJobExecutionPlan(p, j, s)
        PROVE  IInv'
    BY <1>4, UpsertPreserves
  <1>5. ASSUME NEW j \in Jobs, NEW p \in Plans, NEW a \in Approvals, RequestJobApproval(j, p, a)
        PROVE  IInv'
    BY <1>5, RequestPreserves
  <1>6. ASSUME NEW j \in Jobs, NEW a \in Approvals, NEW v \in {"approved", "rejected"},
               ReviewJobApproval(j, a, v)
        PROVE  IInv'
    BY <1>6, ReviewPreserves
  <1> QED
    BY <1>1, <1>2, <1>3, <1>4, <1>5, <1>6 DEF Next

\* The inductive invariant holds in every reachable state of the ledger.
THEOREM LedgerInvariant == Spec => []IInv
  BY InitIInv, NextPreserves, PTL DEF Spec

(* The tables are well typed and a job exists exactly with its capability. *)
THEOREM LedgerTypeOK == Spec => []TypeOK
  <1>1. IInv => TypeOK
    BY DEF IInv
  <1> QED
    BY <1>1, LedgerInvariant, PTL

(* Approval requests and jobs only ever point at plans of their own job. *)
THEOREM LedgerOwnership == Spec => []Ownership
  <1>1. IInv => Ownership
    BY DEF IInv
  <1> QED
    BY <1>1, LedgerInvariant, PTL

(***************************************************************************)
(* What a job row says of its plan is vouched for by an approval request,  *)
(* under any sequence of requests, reviews, upserts and status updates.    *)
(***************************************************************************)
THEOREM LedgerApprovalBacksJob == Spec => []ApprovalBacksJob
  <1>1. IInv => ApprovalBacksJob
    BY DEF IInv
  <1> QED
    BY <1>1, LedgerInvariant, PTL

(* Job row and plan row agree on the decision until a caller rewrites the plan. *)
THEOREM LedgerPlanAgrees == Spec => []PlanAgrees
  <1>1. IInv => PlanAgrees
    BY DEF IInv
  <1> QED
    BY <1>1, LedgerInvariant, PTL

\* A job that starts executing has no plan or was approved last.
FollowsApproval ==
    \A j \in Jobs :
        jobs'[j].planStatus = "executing" /\ jobs[j].planStatus # "executing" =>
            jobs[j].planStatus = IF jobs[j].plan = None THEN "" ELSE "approved"

\* Only MarkProcessingJobRunning sets a job executing.
LEMMA ExecutionStep == IInv /\ [Next]_vars => [FollowsApproval]_jobs
  <1> SUFFICES ASSUME IInv, [Next]_vars, NEW j \in Jobs, jobs' # jobs,
                      jobs'[j].planStatus = "executing", jobs[j].planStatus # "executing"
               PROVE  jobs[j].planStatus = IF jobs[j].plan = None THEN "" ELSE "approved"
    BY DEF FollowsApproval
  <1>1. jobs \in [Jobs -> JobRow] /\ (jobs[j].plan = None => jobs[j].planStatus \notin Decision)
          /\ (jobs[j].plan # None => jobs[j].planStatus # "")
    BY DEF IInv, TypeOK, Planned
  <1>2. MarkProcessingJobRunning(j)
    <2>1. ASSUME NEW i \in Jobs,
                 \/ CreateProcessingJob(i) \/ FailProcessingJob(i) \/ CompleteProcessingJob(i)
                 \/ MarkProcessingJobRunning(i) /\ i # j
          PROVE  FALSE
      <3>1. CASE i # j
        BY <1>1, <2>1, <3>1 DEF CreateProcessingJob, FailProcessingJob,
             CompleteProcessingJob, MarkProcessingJobRunning
      <3>2. CASE i = j
        <4>1. jobs'[j] \in {QueuedRow, FailedRow(jobs[j]), CompletedRow(jobs[j])}
          BY <1>1, <2>1, <3>2 DEF CreateProcessingJob, FailProcessingJob,
               CompleteProcessingJob
        <4>2. jobs[j] \in JobRow
          BY <1>1
        <4> QED
          BY <4>1, <4>2 DEF QueuedRow, NoJob, FailedRow, CompletedRow, JobRow
      <3> QED
        BY <3>1, <3>2
    <2>2. ASSUME NEW i \in Jobs, NEW p \in Plans, NEW s \in CallerStatus,
                 UpsertJobExecutionPlan(p, i, s)
          PROVE  FALSE
      BY <2>2 DEF UpsertJobExecutionPlan
    <2>3. ASSUME NEW i \in Jobs, NEW p, NEW s \in Decision,
                 jobs' = [jobs EXCEPT ![i] = PlanStateRow(@, p, s)]
          PROVE  FALSE
      BY <1>1, <2>3 DEF PlanStateRow, JobRow, Decision
    <2>4. ASSUME NEW i \in Jobs, NEW p \in Plans, NEW a \in Approvals,
                 RequestJobApproval(i, p, a)
          PROVE  FALSE
      BY <2>3, <2>4 DEF RequestJobApproval, Decision
    <2>5. ASSUME NEW i \in Jobs, NEW a \in Approvals, NEW v \in {"approved", "rejected"},
                 ReviewJobApproval(i, a, v)
          PROVE  FALSE
      BY <2>3, <2>5 DEF ReviewJobApproval, Decision
    <2>6. ~UNCHANGED vars
      BY DEF vars
    <2> QED
      BY <2>1, <2>2, <2>4, <2>5, <2>6 DEF Next
  <1>3. jobs[j] \in JobRow /\ jobs'[j] = RunningRow(jobs[j])
    BY <1>1, <1>2 DEF MarkProcessingJobRunning
  <1>4. jobs[j].planStatus \in {"", "approved"}
    BY <1>3 DEF RunningRow, JobRow, PlanStatus, Decision
  <1> QED
    BY <1>1, <1>4 DEF Decision

(***************************************************************************)
(* A plan under review starts executing only straight from an approval     *)
(* (the step, for [][...]_jobs of ApprovalLedger).                         *)
(***************************************************************************)
THEOREM LedgerExecutionFollowsApproval == Spec => ExecutionFollowsApproval
  <1>1. Spec => [][FollowsApproval]_jobs
    BY ExecutionStep, LedgerInvariant, PTL DEF Spec
  <1> QED
    BY <1>1 DEF ExecutionFollowsApproval, FollowsApproval
=============================================================================

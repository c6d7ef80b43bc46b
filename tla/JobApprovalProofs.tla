------------------------- MODULE JobApprovalProofs -------------------------
(***************************************************************************)
(* The statement-level approval workflow: its open transactions, the lock  *)
(* order, and that it implements ApprovalLedger, for every number of       *)
(* clients, jobs, plans and approval requests.                             *)
(***************************************************************************)
EXTENDS JobApproval, TLAPS

----------------------------------------------------------------------------
(* Every row a statement writes is a row of its table. *)

\* The statements on document_processing_jobs keep its rows well typed.
LEMMA JobRowTypes ==
    /\ NoJob \in JobRow /\ QueuedRow \in JobRow
    /\ \A r \in JobRow : /\ RunningRow(r) \in JobRow
                         /\ FailedRow(r) \in JobRow
                         /\ CompletedRow(r) \in JobRow
    /\ \A r \in JobRow, p \in Plans, s \in Decision : PlanStateRow(r, p, s) \in JobRow
  <1> USE DEF JobRow
  <1>1. NoJob \in JobRow /\ QueuedRow \in JobRow
    BY DEF NoJob, QueuedRow, JobStatus, PlanStatus
  <1>2. ASSUME NEW r \in JobRow
        PROVE  RunningRow(r) \in JobRow /\ FailedRow(r) \in JobRow /\ CompletedRow(r) \in JobRow
    BY DEF RunningRow, FailedRow, CompletedRow, JobStatus, PlanStatus
  <1>3. ASSUME NEW r \in JobRow, NEW p \in Plans, NEW s \in Decision
        PROVE  PlanStateRow(r, p, s) \in JobRow
    BY DEF PlanStateRow, PlanStatus
  <1> QED
    BY <1>1, <1>2, <1>3

\* The statements on job_execution_plans keep its rows well typed.
LEMMA PlanRowTypes ==
    /\ NoPlan \in PlanRow
    /\ \A r \in PlanRow, s \in Decision : PlanStatusRow(r, s) \in PlanRow
    /\ \A r \in PlanRow, j \in Jobs, s \in CallerStatus : UpsertedPlan(r, j, s) \in PlanRow
  BY DEF PlanRow, NoPlan, PlanStatusRow, UpsertedPlan

\* The statements on job_approval_requests keep its rows well typed.
LEMMA ApprovalRowTypes ==
    /\ NoApproval \in ApprovalRow
    /\ \A j \in Jobs, p \in Plans : PendingApproval(j, p) \in ApprovalRow
    /\ \A r \in ApprovalRow, v \in {"approved", "rejected"} : ReviewedRow(r, v) \in ApprovalRow
  BY DEF ApprovalRow, NoApproval, PendingApproval, ReviewedRow, ReviewStatus

----------------------------------------------------------------------------

USE NoneIsNoId, CallersApart, ClientsAreNoIds, TimesAreNumbers

Reviews == {"approved", "rejected"}

----------------------------------------------------------------------------
(* Where a call stands determines what it has written so far. *)

WrittenBefore ==
    [pc \in Steps |->
        CASE pc = "insertJob"  -> {{"capability"}}
          [] pc = "updatePlan" -> {{"approval"}}
          [] pc = "updateJob"  -> {{"approval", "plan"}}
          [] pc = "commit"     -> {{"capability", "job"}, {"approval", "plan", "job"}}
          [] OTHER             -> {{}}]

\* A creation: its job is invisible to everybody else until it commits.
Creating(t) ==
    /\ t.op = "create"
    /\ t.pc \in {"insertCapability", "insertJob", "commit"}
    /\ t.pc = "commit" => t.dirty = {"capability", "job"}
    /\ t.job \in Jobs /\ ~Exists(t.job)

\* A request: the plan it read is still one of the job's, its approval id is still free.
Requesting(t) ==
    /\ t.op = "request"
    /\ t.pc \in {"insertApproval", "updatePlan", "updateJob", "commit"}
    /\ t.pc = "commit" => t.dirty = {"approval", "plan", "job"}
    /\ t.job \in Jobs /\ Exists(t.job)
    /\ t.plan \in Plans /\ plans[t.plan].job = t.job
    /\ t.approval \in Approvals /\ approvals[t.approval] = NoApproval

\* A review: the row it found is still there, under the same job and plan.
Reviewing(t) ==
    /\ t.op \in Reviews
    /\ t.pc \in {"selectPlanID", "updateApproval", "updatePlan", "updateJob", "commit"}
    /\ t.pc = "commit" => t.dirty = {"approval", "plan", "job"}
    /\ t.job \in Jobs /\ Exists(t.job)
    /\ t.approval \in Approvals
    /\ t.pc # "selectPlanID" => /\ FoundUnder(approvals[t.approval], t.job)
                                /\ approvals[t.approval].plan = t.plan
                                /\ t.plan \in Plans

Open(t) == t = Idle \/ Creating(t) \/ Requesting(t) \/ Reviewing(t)

\* A requested row names a plan.
NamedPlans == \A a \in Approvals : approvals[a].status # "absent" => approvals[a].plan \in Plans

\* Fresh ids stay apart: no two open calls insert the same job or approval.
Apart ==
    \A c, d \in Clients : c # d =>
        /\ tx[c].op = "create" => tx[d].job # tx[c].job
        /\ tx[c].op = "request" /\ tx[d].op = "request" => tx[d].approval # tx[c].approval

TxInv ==
    \A c \in Clients : Open(tx[c]) /\ tx[c].dirty \in WrittenBefore[tx[c].pc]

IInv == TypeOK /\ NamedPlans /\ Apart /\ TxInv

----------------------------------------------------------------------------
\* A client outside any call has a well-typed record that has written nothing.
LEMMA IdleType == Idle \in TxRecord /\ Idle.dirty \in WrittenBefore[Idle.pc]
  BY DEF Idle, TxRecord, Steps, Ops, Tables, WrittenBefore

\* The invariant holds of the empty tables with every client idle.
LEMMA InitIInv == Init => IInv
  <1> SUFFICES ASSUME Init PROVE IInv
    OBVIOUS
  <1>1. TypeOK
    BY JobRowTypes, PlanRowTypes, ApprovalRowTypes, IdleType DEF Init, TypeOK
  <1>2. NamedPlans /\ Apart
    BY DEF Init, NamedPlans, NoApproval, Apart, Idle
  <1>3. TxInv
    BY IdleType DEF Init, TxInv, Open
  <1> QED
    BY <1>1, <1>2, <1>3 DEF IInv

----------------------------------------------------------------------------
(* Steps inside one call: the tables stay, one client's record changes.    *)

\* A step that changes one client's record only, to an open call, preserves the invariant.
LEMMA OwnStep ==
  ASSUME IInv, UNCHANGED tables, NEW c \in Clients, NEW t \in TxRecord,
         tx' = [tx EXCEPT ![c] = t],
         Open(t), t.dirty \in WrittenBefore[t.pc],
         \A d \in Clients \ {c} :
            /\ t.op = "create" => tx[d].job # t.job
            /\ tx[d].op = "create" => t.job # tx[d].job
            /\ t.op = "request" /\ tx[d].op = "request" => tx[d].approval # t.approval
  PROVE  IInv'
  <1>1. tx'[c] = t /\ \A d \in Clients \ {c} : tx'[d] = tx[d]
    BY DEF IInv, TypeOK
  <1>2. TypeOK' /\ NamedPlans'
    BY DEF IInv, TypeOK, NamedPlans, tables
  <1>3. Apart'
    <2> SUFFICES ASSUME NEW a \in Clients, NEW b \in Clients \ {a}
                 PROVE  /\ tx'[a].op = "create" => tx'[b].job # tx'[a].job
                        /\ tx'[a].op = "request" /\ tx'[b].op = "request"
                             => tx'[b].approval # tx'[a].approval
      BY DEF Apart
    <2>1. CASE a = c
      BY <1>1, <2>1
    <2>2. CASE b = c
      BY <1>1, <2>2
    <2>3. CASE a # c /\ b # c
      BY <1>1, <2>3 DEF IInv, Apart
    <2> QED
      BY <2>1, <2>2, <2>3
  <1>4. TxInv'
    <2> SUFFICES ASSUME NEW d \in Clients
                 PROVE  Open(tx[d])' /\ (tx[d].dirty \in WrittenBefore[tx[d].pc])'
      BY DEF TxInv, WrittenBefore
    <2>1. Open(tx'[d]) /\ tx'[d].dirty \in WrittenBefore[tx'[d].pc]
      BY <1>1 DEF IInv, TxInv
    <2> QED
      BY <2>1 DEF Open, Creating, Requesting, Reviewing, Exists, tables
  <1> QED
    BY <1>2, <1>3, <1>4 DEF IInv

\* The same, for a step of a call that keeps its operation and its ids.
LEMMA SameCall ==
  ASSUME IInv, UNCHANGED tables, NEW c \in Clients, NEW t \in TxRecord,
         tx' = [tx EXCEPT ![c] = t],
         Open(t), t.dirty \in WrittenBefore[t.pc],
         t.op = tx[c].op, t.job = tx[c].job, t.approval = tx[c].approval
  PROVE  IInv'
  <1>1. \A d \in Clients \ {c} :
            /\ t.op = "create" => tx[d].job # t.job
            /\ tx[d].op = "create" => t.job # tx[d].job
            /\ t.op = "request" /\ tx[d].op = "request" => tx[d].approval # t.approval
    BY DEF IInv, Apart
  <1> QED
    BY <1>1, OwnStep

\* A call that returns, or fails, before it commits.
LEMMA Returns ==
  ASSUME IInv, UNCHANGED tables, NEW c \in Clients, tx' = [tx EXCEPT ![c] = Idle]
  PROVE  IInv'
  <1>1. \A d \in Clients : tx[d].op = "create" => tx[d].job \in Jobs
    BY DEF IInv, TxInv, Open, Creating, Requesting, Reviewing, Idle, Reviews
  <1>2. Idle.op = "none" /\ Idle.job = None /\ Open(Idle)
    BY DEF Idle, Open
  <1> QED
    BY <1>1, <1>2, IdleType, OwnStep

\* CreateProcessingJob begins with an id no open call inserts.
LEMMA BeginCreatePreserves ==
  ASSUME IInv, NEW c \in Clients, NEW j \in Jobs, BeginCreate(c, j) PROVE IInv'
  <1> DEFINE t == [pc |-> "insertCapability", op |-> "create", job |-> j, approval |-> None,
                   plan |-> None, dirty |-> {}]
  <1>1. t \in TxRecord /\ t.dirty \in WrittenBefore[t.pc]
    BY DEF TxRecord, Steps, Ops, WrittenBefore
  <1>2. Open(t)
    BY DEF Open, Creating, BeginCreate, FreshJob
  <1>3. UNCHANGED tables /\ tx' = [tx EXCEPT ![c] = t]
    BY DEF BeginCreate, Begin
  <1>4. \A d \in Clients : tx[d].job # j
    BY DEF BeginCreate, FreshJob
  <1> QED
    BY <1>1, <1>2, <1>3, <1>4, OwnStep

\* RequestJobApproval begins with the plan it has read and a fresh approval id.
LEMMA BeginRequestPreserves ==
  ASSUME IInv, NEW c \in Clients, NEW j \in Jobs, NEW a \in Approvals, BeginRequest(c, j, a)
  PROVE  IInv'
  <1>1. PICK p \in Latest(j) : Begin(c, "insertApproval", "request", j, a, p)
    BY DEF BeginRequest
  <1> DEFINE t == [pc |-> "insertApproval", op |-> "request", job |-> j, approval |-> a,
                   plan |-> p, dirty |-> {}]
  <1>2. p \in Plans /\ plans[p].job = j
    BY DEF Latest
  <1>3. t \in TxRecord /\ t.dirty \in WrittenBefore[t.pc]
    BY <1>2 DEF TxRecord, Steps, Ops, WrittenBefore
  <1>4. Open(t)
    BY <1>2 DEF Open, Requesting, BeginRequest, FreshApproval
  <1>5. UNCHANGED tables /\ tx' = [tx EXCEPT ![c] = t]
    BY <1>1 DEF Begin
  <1>6. \A d \in Clients : /\ tx[d].op = "create" => tx[d].job # j
                           /\ tx[d].op = "request" => tx[d].approval # a
    BY DEF BeginRequest, FreshApproval, IInv, TxInv, Open, Creating, Requesting, Reviewing,
           Idle, Reviews
  <1>7. t.op = "request" /\ t.job = j /\ t.approval = a
    OBVIOUS
  <1> HIDE DEF t
  <1> QED
    BY <1>3, <1>4, <1>5, <1>6, <1>7, OwnStep

\* A review begins on any approval id.
LEMMA BeginReviewPreserves ==
  ASSUME IInv, NEW c \in Clients, NEW j \in Jobs, NEW a \in Approvals, NEW v \in Reviews,
         BeginReview(c, j, a, v)
  PROVE  IInv'
  <1> DEFINE t == [pc |-> "selectPlanID", op |-> v, job |-> j, approval |-> a,
                   plan |-> None, dirty |-> {}]
  <1>1. t \in TxRecord /\ t.dirty \in WrittenBefore[t.pc]
    BY DEF TxRecord, Steps, Ops, WrittenBefore, Reviews
  <1>2. Open(t)
    BY DEF Open, Reviewing, BeginReview
  <1>3. UNCHANGED tables /\ tx' = [tx EXCEPT ![c] = t]
    BY DEF BeginReview, Begin
  <1>4. \A d \in Clients : tx[d].op = "create" => tx[d].job # j
    BY DEF BeginReview, IInv, TxInv, Open, Creating, Requesting, Reviewing, Idle, Reviews
  <1>5. v # "create" /\ v # "request"
    BY DEF Reviews
  <1> QED
    BY <1>1, <1>2, <1>3, <1>4, <1>5, OwnStep

\* SelectPlanID either finds the row, and the call goes on, or returns.
LEMMA SelectPreserves ==
  ASSUME IInv, NEW c \in Clients, SelectPlanID(c) PROVE IInv'
  <1> DEFINE r == approvals[tx[c].approval]
             t == [tx[c] EXCEPT !.plan = r.plan, !.pc = "updateApproval"]
  <1>1. tx[c] \in TxRecord /\ Reviewing(tx[c]) /\ tx[c].dirty = {}
    <2>1. tx[c] \in TxRecord /\ Open(tx[c]) /\ tx[c].dirty \in WrittenBefore[tx[c].pc]
      BY DEF IInv, TypeOK, TxInv
    <2>2. tx[c].pc = "selectPlanID"
      BY DEF SelectPlanID
    <2>3. WrittenBefore["selectPlanID"] = {{}}
      BY DEF WrittenBefore, Steps
    <2> QED
      BY <2>1, <2>2, <2>3 DEF Open, Creating, Requesting, Idle
  <1>2. CASE FoundUnder(r, tx[c].job)
    <2>1. r.plan \in Plans
      BY <1>1, <1>2 DEF IInv, NamedPlans, FoundUnder, Reviewing
    <2>2. t \in TxRecord /\ t.dirty \in WrittenBefore[t.pc]
      BY <1>1, <2>1 DEF TxRecord, Steps, WrittenBefore
    <2>3. Open(t) /\ t.op = tx[c].op /\ t.job = tx[c].job /\ t.approval = tx[c].approval
      BY <1>1, <1>2, <2>1 DEF TxRecord, Open, Reviewing
    <2>4. UNCHANGED tables /\ tx' = [tx EXCEPT ![c] = t]
      BY <1>2 DEF SelectPlanID
    <2> QED
      BY <2>2, <2>3, <2>4, SameCall
  <1>3. CASE ~FoundUnder(r, tx[c].job)
    BY <1>3, Returns DEF SelectPlanID
  <1> QED
    BY <1>2, <1>3

\* The statements that write a row: each moves the call to its next statement.
WriteStep(c) ==
    \/ InsertCapability(c) \/ InsertJob(c) \/ InsertApproval(c)
    \/ UpdateApproval(c) \/ UpdatePlan(c) \/ UpdateJob(c)

\* A statement that writes one more table inside its transaction.
LEMMA WritePreserves ==
  ASSUME IInv, NEW c \in Clients, NEW table, NEW pc,
         UNCHANGED tables, Wrote(c, table, pc),
         \/ tx[c].pc = "insertCapability" /\ table = "capability" /\ pc = "insertJob"
         \/ tx[c].pc = "insertJob"        /\ table = "job"        /\ pc = "commit"
         \/ tx[c].pc = "insertApproval"   /\ table = "approval"   /\ pc = "updatePlan"
         \/ tx[c].pc = "updateApproval"   /\ table = "approval"   /\ pc = "updatePlan"
         \/ tx[c].pc = "updatePlan"       /\ table = "plan"       /\ pc = "updateJob"
         \/ tx[c].pc = "updateJob"        /\ table = "job"        /\ pc = "commit"
  PROVE  IInv'
  <1> DEFINE t == [tx[c] EXCEPT !.dirty = @ \cup {table}, !.pc = pc]
  <1>1. tx[c] \in TxRecord /\ Open(tx[c]) /\ tx[c].dirty \in WrittenBefore[tx[c].pc]
    BY DEF IInv, TypeOK, TxInv
  <1>2. tx' = [tx EXCEPT ![c] = t]
    BY DEF Wrote, IInv, TypeOK
  <1>3. /\ t \in TxRecord
        /\ t.pc = pc /\ t.dirty = tx[c].dirty \cup {table}
        /\ t.op = tx[c].op /\ t.job = tx[c].job
        /\ t.approval = tx[c].approval /\ t.plan = tx[c].plan
    BY <1>1 DEF TxRecord, Steps, Tables
  <1>4. t.dirty \in WrittenBefore[t.pc]
    BY <1>1, <1>3 DEF WrittenBefore, Steps
  <1>5. Open(t)
    <2>1. tx[c] # Idle
      BY DEF Idle
    <2>2. CASE Creating(tx[c])
      BY <1>1, <1>3, <2>2 DEF Open, Creating, WrittenBefore, Steps
    <2>3. CASE Requesting(tx[c])
      BY <1>1, <1>3, <2>3 DEF Open, Requesting, WrittenBefore, Steps
    <2>4. CASE Reviewing(tx[c])
      BY <1>1, <1>3, <2>4 DEF Open, Reviewing, WrittenBefore, Steps
    <2> QED
      BY <1>1, <2>1, <2>2, <2>3, <2>4 DEF Open
  <1> HIDE DEF t
  <1> QED
    BY <1>2, <1>3, <1>4, <1>5, SameCall

\* The six writing statements preserve the invariant.
LEMMA WriteStepPreserves == ASSUME IInv, NEW c \in Clients, WriteStep(c) PROVE IInv'
  BY WritePreserves DEF WriteStep, InsertCapability, InsertJob, InsertApproval, UpdateApproval,
     UpdatePlan, UpdateJob

----------------------------------------------------------------------------
(* Steps that change the committed tables. *)

\* What no step takes away: rows, owners of plans, subjects of approvals.
Monotone ==
    /\ \A j \in Jobs : Exists(j) => Exists(j)'
    /\ \A p \in Plans : plans[p].job \in Jobs => plans'[p].job = plans[p].job
    /\ \A a \in Approvals : approvals[a].status # "absent" =>
           /\ approvals'[a].status # "absent"
           /\ approvals'[a].job = approvals[a].job
           /\ approvals'[a].plan = approvals[a].plan

\* Committed tables may change under an open call as long as owners and ids stay.
LEMMA OthersStayOpen ==
  ASSUME IInv, Monotone, NEW d \in Clients, tx'[d] = tx[d],
         tx[d].op = "create" => ~Exists(tx[d].job)',
         tx[d].op = "request" => approvals'[tx[d].approval] = NoApproval
  PROVE  Open(tx[d])' /\ (tx[d].dirty \in WrittenBefore[tx[d].pc])'
  <1>1. Open(tx[d]) /\ tx[d].dirty \in WrittenBefore[tx[d].pc]
    BY DEF IInv, TxInv
  <1>2. (tx[d].dirty \in WrittenBefore[tx[d].pc])'
    BY <1>1
  <1>3. CASE tx[d] = Idle
    BY <1>2, <1>3 DEF Open, Idle
  <1>4. CASE Creating(tx[d])
    <2>1. Creating(tx[d])'
      BY <1>4 DEF Creating, Exists
    <2> QED
      BY <1>2, <2>1 DEF Open
  <1>5. CASE Requesting(tx[d])
    <2>1. Requesting(tx[d])'
      BY <1>5 DEF Requesting, Monotone, Exists
    <2> QED
      BY <1>2, <2>1 DEF Open
  <1>6. CASE Reviewing(tx[d])
    <2>1. Reviewing(tx[d])'
      BY <1>6 DEF Reviewing, Monotone, Exists, FoundUnder
    <2> QED
      BY <1>2, <2>1 DEF Open
  <1> QED
    BY <1>1, <1>2, <1>3, <1>4, <1>5, <1>6 DEF Open

\* An autocommitted UPDATE of a job row that keeps the row in being.
LEMMA JobRowPreserves ==
  ASSUME IInv, NEW j \in Jobs, NEW row \in JobRow, UpdateJobRow(j, row),
         row.status # "absent"
  PROVE  IInv'
  <1> USE DEF UpdateJobRow
  <1>1. TypeOK' /\ NamedPlans' /\ Apart'
    BY DEF IInv, TypeOK, NamedPlans, Apart
  <1>2. Monotone /\ \A i \in Jobs : Exists(i)' => Exists(i)
    BY DEF IInv, TypeOK, Monotone, Exists
  <1>3. TxInv'
    <2> SUFFICES ASSUME NEW d \in Clients
                 PROVE  Open(tx[d])' /\ (tx[d].dirty \in WrittenBefore[tx[d].pc])'
      BY DEF TxInv
    <2>1. tx[d].op = "create" => tx[d].job \in Jobs /\ ~Exists(tx[d].job)
      BY DEF IInv, TxInv, Open, Creating, Requesting, Reviewing, Idle, Reviews
    <2>2. tx[d].op = "create" => ~Exists(tx[d].job)'
      BY <1>2, <2>1
    <2>3. tx[d].op = "request" => approvals[tx[d].approval] = NoApproval
      BY DEF IInv, TxInv, Open, Creating, Requesting, Reviewing, Idle, Reviews
    <2> QED
      BY <1>2, <2>2, <2>3, OthersStayOpen
  <1> QED
    BY <1>1, <1>3 DEF IInv

\* MarkProcessingJobRunning, FailProcessingJob and CompleteProcessingJob.
LEMMA StatusPreserves ==
  ASSUME IInv, NEW j \in Jobs,
         MarkProcessingJobRunning(j) \/ FailProcessingJob(j) \/ CompleteProcessingJob(j)
  PROVE  IInv'
  <1>1. jobs[j] \in JobRow
    BY DEF IInv, TypeOK
  <1>2. RunningRow(jobs[j]) \in JobRow /\ RunningRow(jobs[j]).status # "absent"
    BY <1>1, JobRowTypes, PlanRowTypes, ApprovalRowTypes DEF RunningRow, JobRow
  <1>3. FailedRow(jobs[j]) \in JobRow /\ FailedRow(jobs[j]).status # "absent"
    BY <1>1, JobRowTypes, PlanRowTypes, ApprovalRowTypes DEF FailedRow, JobRow
  <1>4. CompletedRow(jobs[j]) \in JobRow /\ CompletedRow(jobs[j]).status # "absent"
    BY <1>1, JobRowTypes, PlanRowTypes, ApprovalRowTypes DEF CompletedRow, JobRow
  <1> QED
    BY <1>2, <1>3, <1>4, JobRowPreserves DEF MarkProcessingJobRunning, FailProcessingJob,
       CompleteProcessingJob

\* UpsertJobExecutionPlan keeps the owner of a plan that is there.
LEMMA UpsertPreserves ==
  ASSUME IInv, NEW p \in Plans, NEW j \in Jobs, NEW s \in CallerStatus, NEW t \in Times,
         UpsertJobExecutionPlan(p, j, s, t)
  PROVE  IInv'
  <1> USE DEF UpsertJobExecutionPlan
  <1>1. TypeOK' /\ NamedPlans' /\ Apart'
    BY JobRowTypes, PlanRowTypes, ApprovalRowTypes DEF IInv, TypeOK, NamedPlans, Apart
  <1>2. Monotone
    BY DEF IInv, TypeOK, Monotone, Exists, UpsertedPlan, PlanRow, NoPlan
  <1>3. TxInv'
    <2> SUFFICES ASSUME NEW d \in Clients
                 PROVE  Open(tx[d])' /\ (tx[d].dirty \in WrittenBefore[tx[d].pc])'
      BY DEF TxInv
    <2>1. tx[d].op = "create" => ~Exists(tx[d].job)'
      BY DEF IInv, TxInv, Open, Creating, Requesting, Reviewing, Idle, Reviews, Exists
    <2>2. tx[d].op = "request" => approvals[tx[d].approval] = NoApproval
      BY DEF IInv, TxInv, Open, Creating, Requesting, Reviewing, Idle, Reviews
    <2> QED
      BY <1>2, <2>1, <2>2, OthersStayOpen
  <1> QED
    BY <1>1, <1>3 DEF IInv

----------------------------------------------------------------------------
(* Commit takes effect as one step of the ledger. *)

\* A transaction that commits is a whole creation, a whole request or a whole review.
LEMMA CommitKinds ==
  ASSUME IInv, NEW c \in Clients, Commit(c)
  PROVE  /\ tx[c] \in TxRecord
         /\ \/ Creating(tx[c]) /\ tx[c].dirty = {"capability", "job"}
            \/ Requesting(tx[c]) /\ tx[c].dirty = {"approval", "plan", "job"}
            \/ Reviewing(tx[c]) /\ tx[c].dirty = {"approval", "plan", "job"}
  BY DEF IInv, TypeOK, TxInv, Commit, Open, Creating, Requesting, Reviewing, Idle

\* The commit of a creation is CreateProcessingJob of the ledger.
LEMMA CommitCreates ==
  ASSUME IInv, NEW c \in Clients, Commit(c), Creating(tx[c])
  PROVE  tx[c].job \in Jobs /\ Ledger!CreateProcessingJob(tx[c].job)
  <1>1. tx[c].op = "create" /\ tx[c].dirty = {"capability", "job"}
    BY DEF Commit, Creating
  <1>2. tx[c].job \in Jobs /\ ~Exists(tx[c].job)
    BY DEF Creating
  <1> QED
    BY <1>1, <1>2 DEF Commit, CommittedJob, Ledger!CreateProcessingJob, Ledger!Exists, Exists,
       Ledger!QueuedRow, QueuedRow, Ledger!NoJob, NoJob

\* The commit of a request is RequestJobApproval of the ledger.
LEMMA CommitRequests ==
  ASSUME IInv, NEW c \in Clients, Commit(c), Requesting(tx[c])
  PROVE  /\ tx[c].job \in Jobs /\ tx[c].plan \in Plans /\ tx[c].approval \in Approvals
         /\ Ledger!RequestJobApproval(tx[c].job, tx[c].plan, tx[c].approval)
  <1>1. tx[c].op = "request" /\ tx[c].dirty = {"approval", "plan", "job"}
    BY DEF Commit, Requesting
  <1>2. /\ tx[c].job \in Jobs /\ tx[c].plan \in Plans /\ tx[c].approval \in Approvals
        /\ Exists(tx[c].job) /\ plans[tx[c].plan].job = tx[c].job
        /\ approvals[tx[c].approval] = NoApproval
    BY DEF Requesting
  <1> QED
    BY <1>1, <1>2 DEF Commit, CommittedJob, CommittedApproval, Verdict,
       Ledger!RequestJobApproval, Ledger!Exists, Exists, Ledger!NoApproval, NoApproval,
       Ledger!PendingApproval, PendingApproval, Ledger!PlanStatusRow, PlanStatusRow,
       Ledger!PlanStateRow, PlanStateRow

\* The commit of a review is ReviewJobApproval of the ledger.
LEMMA CommitReviews ==
  ASSUME IInv, NEW c \in Clients, Commit(c), Reviewing(tx[c])
  PROVE  /\ tx[c].job \in Jobs /\ tx[c].approval \in Approvals /\ tx[c].op \in Reviews
         /\ Ledger!ReviewJobApproval(tx[c].job, tx[c].approval, tx[c].op)
  <1>1. tx[c].op \in Reviews /\ tx[c].dirty = {"approval", "plan", "job"}
    BY DEF Commit, Reviewing
  <1>2. /\ tx[c].job \in Jobs /\ tx[c].approval \in Approvals /\ Exists(tx[c].job)
        /\ FoundUnder(approvals[tx[c].approval], tx[c].job)
        /\ approvals[tx[c].approval].plan = tx[c].plan
    BY DEF Reviewing, Commit
  <1> QED
    BY <1>1, <1>2 DEF Commit, CommittedJob, CommittedApproval, Verdict, Reviews,
       Ledger!ReviewJobApproval, Ledger!Exists, Exists, Ledger!FoundUnder, FoundUnder,
       Ledger!ReviewedRow, ReviewedRow, Ledger!PlanStatusRow, PlanStatusRow,
       Ledger!PlanStateRow, PlanStateRow

\* The effect of a commit on the tables, by kind, as far as the other open calls can see it.
LEMMA CommitEffect ==
  ASSUME IInv, NEW c \in Clients, Commit(c)
  PROVE  /\ TypeOK' /\ NamedPlans' /\ Monotone
         /\ tx'[c] = Idle /\ \A d \in Clients \ {c} : tx'[d] = tx[d]
         /\ \A i \in Jobs : ~Exists(i) /\ (tx[c].op = "create" => tx[c].job # i) => ~Exists(i)'
         /\ \A b \in Approvals :
               approvals[b] = NoApproval /\ (tx[c].op = "request" => tx[c].approval # b)
                 => approvals'[b] = NoApproval
  <1> DEFINE t == tx[c]
  <1>1. /\ tx' \in [Clients -> TxRecord] /\ tx'[c] = Idle
        /\ \A d \in Clients \ {c} : tx'[d] = tx[d]
        /\ created' \in [Plans -> Nat]
    BY IdleType DEF Commit, IInv, TypeOK
  <1>2. CASE Creating(t)
    <2>1. t.op = "create" /\ t.job \in Jobs /\ t.dirty = {"capability", "job"}
      BY <1>2 DEF Commit, Creating
    <2>2. /\ jobs' = [jobs EXCEPT ![t.job] = QueuedRow]
          /\ capabilities' = capabilities \cup {t.job}
          /\ UNCHANGED <<plans, approvals>>
      BY <2>1 DEF Commit, CommittedJob
    <2>3. TypeOK' /\ NamedPlans'
      BY <1>1, <2>1, <2>2, JobRowTypes, PlanRowTypes, ApprovalRowTypes DEF IInv, TypeOK, NamedPlans
    <2>4. Monotone
      BY <2>1, <2>2 DEF IInv, TypeOK, Monotone, Exists, QueuedRow, NoJob
    <2> QED
      BY <1>1, <2>1, <2>2, <2>3, <2>4 DEF IInv, TypeOK, Exists
  <1> DEFINE Written(s, row) ==
               /\ jobs' = [jobs EXCEPT ![t.job] = PlanStateRow(jobs[t.job], t.plan, s)]
               /\ plans' = [plans EXCEPT ![t.plan] = PlanStatusRow(@, s)]
               /\ approvals' = [approvals EXCEPT ![t.approval] = row]
               /\ UNCHANGED capabilities
  <1>3. ASSUME t.job \in Jobs, t.plan \in Plans, t.approval \in Approvals,
               NEW s \in Decision, NEW row \in ApprovalRow, Written(s, row),
               row.status # "absent", row.plan = t.plan,
               approvals[t.approval].status # "absent" =>
                 row.job = approvals[t.approval].job /\ row.plan = approvals[t.approval].plan
        PROVE  /\ TypeOK' /\ NamedPlans' /\ Monotone
               /\ \A i \in Jobs : ~Exists(i) => ~Exists(i)'
               /\ \A b \in Approvals \ {t.approval} : approvals'[b] = approvals[b]
    <2>1. TypeOK' /\ NamedPlans'
      BY <1>1, <1>3, JobRowTypes, PlanRowTypes, ApprovalRowTypes DEF IInv, TypeOK, NamedPlans
    <2>2. \A i \in Jobs : jobs'[i].status = jobs[i].status
      BY <1>3 DEF IInv, TypeOK, PlanStateRow, JobRow
    <2>3. \A q \in Plans : plans'[q].job = plans[q].job
      BY <1>3 DEF IInv, TypeOK, PlanStatusRow, PlanRow
    <2>4. \A b \in Approvals \ {t.approval} : approvals'[b] = approvals[b]
      BY <1>3 DEF IInv, TypeOK
    <2>5. approvals'[t.approval] = row
      BY <1>3 DEF IInv, TypeOK
    <2>6. Monotone
      BY <1>3, <2>2, <2>3, <2>4, <2>5 DEF Monotone, Exists
    <2> QED
      BY <2>1, <2>2, <2>4, <2>6 DEF Exists
  <1>4. CASE Requesting(t)
    <2> DEFINE row == PendingApproval(t.job, t.plan)
    <2>1. /\ t.op = "request" /\ t.dirty = {"approval", "plan", "job"}
          /\ t.job \in Jobs /\ t.plan \in Plans /\ t.approval \in Approvals
          /\ approvals[t.approval].status = "absent"
      BY <1>4 DEF Commit, Requesting, NoApproval
    <2>2. row \in ApprovalRow /\ row.status # "absent" /\ row.plan = t.plan
      BY <2>1, JobRowTypes, PlanRowTypes, ApprovalRowTypes DEF PendingApproval
    <2>3. Written("pending_approval", row)
      BY <2>1 DEF Commit, CommittedJob, CommittedApproval, Verdict
    <2>4. "pending_approval" \in Decision
      BY DEF Decision
    <2> HIDE DEF row, Written
    <2> QED
      BY <1>1, <1>3, <2>1, <2>2, <2>3, <2>4
  <1>5. CASE Reviewing(t)
    <2> DEFINE row == ReviewedRow(approvals[t.approval], t.op)
    <2>1. /\ t.op \in Reviews /\ t.dirty = {"approval", "plan", "job"}
          /\ t.job \in Jobs /\ t.plan \in Plans /\ t.approval \in Approvals
          /\ approvals[t.approval].plan = t.plan
          /\ approvals[t.approval].status # "absent"
      BY <1>5 DEF Commit, Reviewing, FoundUnder
    <2>2. approvals[t.approval] \in ApprovalRow
      BY <2>1 DEF IInv, TypeOK
    <2>3. /\ row \in ApprovalRow /\ row.status # "absent" /\ row.plan = t.plan
          /\ row.job = approvals[t.approval].job
      BY <2>1, <2>2, JobRowTypes, PlanRowTypes, ApprovalRowTypes DEF ReviewedRow, ApprovalRow, Reviews
    <2>4. Written(t.op, row)
      BY <2>1 DEF Commit, CommittedJob, CommittedApproval, Verdict, Reviews
    <2>5. t.op \in Decision /\ t.op # "request" /\ t.op # "create"
      BY <2>1 DEF Decision, Reviews
    <2>6. \A b \in Approvals : approvals[b] = NoApproval => b # t.approval
      BY <2>1 DEF NoApproval
    <2> HIDE DEF row, Written
    <2> QED
      BY <1>1, <1>3, <2>1, <2>3, <2>4, <2>5, <2>6
  <1> QED
    BY <1>2, <1>4, <1>5, CommitKinds

\* A commit preserves the invariant.
LEMMA CommitPreserves ==
  ASSUME IInv, NEW c \in Clients, Commit(c) PROVE IInv'
  <1>1. Apart'
    <2>1. \A d \in Clients : tx[d].op = "create" => tx[d].job \in Jobs
      BY DEF IInv, TxInv, Open, Creating, Requesting, Reviewing, Idle, Reviews
    <2> SUFFICES ASSUME NEW a \in Clients, NEW b \in Clients, a # b
                 PROVE  /\ tx'[a].op = "create" => tx'[b].job # tx'[a].job
                        /\ tx'[a].op = "request" /\ tx'[b].op = "request"
                             => tx'[b].approval # tx'[a].approval
      BY DEF Apart
    <2>2. CASE a # c /\ b # c
      BY <2>2, CommitEffect DEF IInv, Apart
    <2>3. CASE a = c
      BY <2>3, CommitEffect DEF Idle
    <2>4. CASE b = c
      BY <2>1, <2>4, CommitEffect DEF Idle
    <2> QED
      BY <2>2, <2>3, <2>4
  <1>2. TxInv'
    <2> SUFFICES ASSUME NEW d \in Clients
                 PROVE  Open(tx[d])' /\ (tx[d].dirty \in WrittenBefore[tx[d].pc])'
      BY DEF TxInv
    <2>1. CASE d = c
      <3>1. tx'[d] = Idle
        BY <2>1, CommitEffect
      <3> QED
        BY <3>1, IdleType DEF Open
    <2>2. CASE d # c
      <3>1. tx'[d] = tx[d] /\ Monotone
        BY <2>2, CommitEffect
      <3>2. /\ tx[d].op = "create" => tx[d].job \in Jobs /\ ~Exists(tx[d].job)
            /\ tx[d].op = "request" => /\ tx[d].approval \in Approvals
                                       /\ approvals[tx[d].approval] = NoApproval
        BY DEF IInv, TxInv, Open, Creating, Requesting, Reviewing, Idle, Reviews
      <3>3. /\ tx[d].op = "create" => tx[c].job # tx[d].job
            /\ tx[d].op = "request" /\ tx[c].op = "request" => tx[c].approval # tx[d].approval
        BY <2>2 DEF IInv, Apart
      <3>4. tx[d].op = "create" => ~Exists(tx[d].job)'
        BY <3>2, <3>3, CommitEffect
      <3>5. tx[d].op = "request" => approvals'[tx[d].approval] = NoApproval
        BY <3>2, <3>3, CommitEffect
      <3> QED
        BY <3>1, <3>4, <3>5, OthersStayOpen
    <2> QED
      BY <2>1, <2>2
  <1> QED
    BY <1>1, <1>2, CommitEffect DEF IInv

----------------------------------------------------------------------------
\* A step that changes nothing preserves the invariant.
LEMMA StutterPreserves == ASSUME IInv, UNCHANGED vars PROVE IInv'
  <1>1. TypeOK' /\ NamedPlans' /\ Apart'
    BY DEF vars, IInv, TypeOK, NamedPlans, Apart
  <1>2. TxInv'
    BY DEF vars, IInv, TxInv, Open, Creating, Requesting, Reviewing, Exists
  <1> QED
    BY <1>1, <1>2 DEF IInv

\* Every step preserves the invariant.
LEMMA NextPreserves == IInv /\ [Next]_vars => IInv'
  <1> SUFFICES ASSUME IInv, [Next]_vars PROVE IInv'
    OBVIOUS
  <1>1. ASSUME Autocommit PROVE IInv'
    BY <1>1, StatusPreserves, UpsertPreserves DEF Autocommit
  <1>2. ASSUME NEW c \in Clients, BeginCall(c) PROVE IInv'
    BY <1>2, BeginCreatePreserves, BeginRequestPreserves, BeginReviewPreserves
       DEF BeginCall, Reviews
  <1>3. ASSUME NEW c \in Clients, Statement(c) PROVE IInv'
    BY <1>3, WriteStepPreserves, SelectPreserves, CommitPreserves DEF Statement, WriteStep
  <1>4. ASSUME NEW c \in Clients, Rollback(c) PROVE IInv'
    BY <1>4, Returns DEF Rollback
  <1> QED
    BY <1>1, <1>2, <1>3, <1>4, StutterPreserves DEF Next

\* The inductive invariant holds in every reachable state of the workflow.
THEOREM JobApprovalInvariant == Spec => []IInv
  BY InitIInv, NextPreserves, PTL DEF Spec

(* Tables and open transactions are well typed in every interleaving. *)
THEOREM JobApprovalTypeOK == Spec => []TypeOK
  <1>1. IInv => TypeOK
    BY DEF IInv
  <1> QED
    BY <1>1, JobApprovalInvariant, PTL

----------------------------------------------------------------------------
\* What a client has written tells which of its statements are behind it.
LEMMA HeldRows ==
  ASSUME TxInv, TypeOK, NEW d \in Clients
  PROVE  /\ "job" \in tx[d].dirty => tx[d].pc = "commit"
         /\ "plan" \in tx[d].dirty => tx[d].pc \in {"updateJob", "commit"}
         /\ "approval" \in tx[d].dirty => tx[d].pc \in {"updatePlan", "updateJob", "commit"}
  <1>1. tx[d].pc \in Steps /\ tx[d].dirty \in WrittenBefore[tx[d].pc]
    BY DEF TxInv, TypeOK, TxRecord
  <1> QED
    BY <1>1 DEF WrittenBefore, Steps

(***************************************************************************)
(* The order approval, plan, job: a client that holds a row has only rows  *)
(* of later tables left to wait for, so the last waiter of any group waits *)
(* for a client that waits for nobody in it.                               *)
(***************************************************************************)
LEMMA LockOrder == IInv => NoWaitCycle
  <1> SUFFICES ASSUME IInv, NEW group \in SUBSET Clients, group # {}
               PROVE  \E c \in group : \A d \in group : ~WaitsFor(c, d)
    BY DEF NoWaitCycle
  <1> DEFINE Waits(pc) == \E c, d \in group : WaitsFor(c, d) /\ tx[c].pc = pc
  <1>1. \A c, d \in group : WaitsFor(c, d) =>
          \/ tx[c].pc = "updateApproval" /\ tx[d].pc \in {"updatePlan", "updateJob", "commit"}
          \/ tx[c].pc = "updatePlan" /\ tx[d].pc \in {"updateJob", "commit"}
          \/ tx[c].pc = "updateJob" /\ tx[d].pc = "commit"
    BY HeldRows DEF IInv, WaitsFor
  <1>2. CASE Waits("updateJob")
    <2>1. PICK d \in group : tx[d].pc = "commit"
      BY <1>1, <1>2
    <2> QED
      BY <1>1, <2>1
  <1>3. CASE ~Waits("updateJob") /\ Waits("updatePlan")
    <2>1. PICK d \in group : tx[d].pc \in {"updateJob", "commit"}
      BY <1>1, <1>3
    <2> QED
      BY <1>1, <1>3, <2>1
  <1>4. CASE ~Waits("updateJob") /\ ~Waits("updatePlan") /\ Waits("updateApproval")
    <2>1. PICK d \in group : tx[d].pc \in {"updatePlan", "updateJob", "commit"}
      BY <1>1, <1>4
    <2> QED
      BY <1>1, <1>4, <2>1
  <1>5. CASE ~Waits("updateJob") /\ ~Waits("updatePlan") /\ ~Waits("updateApproval")
    BY <1>1, <1>5
  <1> QED
    BY <1>2, <1>3, <1>4, <1>5

(* No set of transactions ever waits for itself: the row locks cannot deadlock. *)
THEOREM NoDeadlock == Spec => []NoWaitCycle
  BY LockOrder, JobApprovalInvariant, PTL

----------------------------------------------------------------------------
(* Termination, as far as it is a matter of safety: a call comes closer to  *)
(* its end with each of its statements, and some call can always go on.     *)

\* The statements a call has before it, the commit included.
StatementsLeft ==
    [idle |-> 0, commit |-> 1, insertJob |-> 2, updateJob |-> 2, insertCapability |-> 3,
     updatePlan |-> 3, insertApproval |-> 4, updateApproval |-> 4, selectPlanID |-> 5]

\* A step leaves a call alone or brings it closer to its end.
ClosingIn ==
    \A c \in Clients : tx[c].pc # "idle" =>
        tx'[c] = tx[c] \/ StatementsLeft[tx'[c].pc] < StatementsLeft[tx[c].pc]

\* The next statement of the call client c is in waits for no row.
Ready(c) ==
    \/ tx[c].pc \in {"insertCapability", "insertJob", "insertApproval", "selectPlanID", "commit"}
    \/ tx[c].pc = "updateApproval" /\ ~ApprovalLocked(tx[c].approval, c)
    \/ tx[c].pc = "updatePlan" /\ ~PlanLocked(tx[c].plan, c)
    \/ tx[c].pc = "updateJob" /\ ~JobLocked(tx[c].job, c)

\* If any call has begun, the next statement of one of them can run.
SomebodyProceeds ==
    (\E c \in Clients : tx[c].pc # "idle") => \E c \in Clients : Ready(c)

\* Every statement, and giving up, brings the call closer to its end.
LEMMA StepsCloseIn == ASSUME TypeOK, [Next]_vars PROVE [ClosingIn]_tx
  <1> SUFFICES ASSUME NEW c \in Clients, tx[c].pc # "idle", tx'[c] # tx[c]
               PROVE  StatementsLeft[tx'[c].pc] < StatementsLeft[tx[c].pc]
    BY DEF ClosingIn
  <1>1. tx \in [Clients -> TxRecord] /\ tx[c] \in TxRecord /\ tx[c].pc \in Steps \ {"idle"}
    BY DEF TypeOK, TxRecord
  <1>2. 0 < StatementsLeft[tx[c].pc]
    BY <1>1 DEF StatementsLeft, Steps
  <1>3. CASE tx'[c] = Idle
    BY <1>2, <1>3 DEF StatementsLeft, Idle
  <1>4. ASSUME NEW pc \in Steps, tx'[c].pc = pc,
               StatementsLeft[pc] < StatementsLeft[tx[c].pc]
        PROVE  StatementsLeft[tx'[c].pc] < StatementsLeft[tx[c].pc]
    BY <1>4
  <1>5. ASSUME NEW d \in Clients, d # c, BeginCall(d) \/ Statement(d) \/ Rollback(d)
        PROVE  FALSE
    BY <1>1, <1>5 DEF BeginCall, BeginCreate, BeginRequest, BeginReview, Begin, Statement,
       InsertCapability, InsertJob, InsertApproval, SelectPlanID, UpdateApproval, UpdatePlan,
       UpdateJob, Commit, Rollback, Wrote
  <1>6. ASSUME Autocommit PROVE FALSE
    BY <1>6 DEF Autocommit, MarkProcessingJobRunning, FailProcessingJob,
       CompleteProcessingJob, UpdateJobRow, UpsertJobExecutionPlan
  <1>7. ~BeginCall(c)
    BY DEF BeginCall, BeginCreate, BeginRequest, BeginReview, Begin, Idle
  <1>8. CASE Statement(c)
    <2>1. CASE InsertCapability(c) \/ InsertJob(c) \/ InsertApproval(c) \/ UpdateApproval(c)
                 \/ UpdatePlan(c) \/ UpdateJob(c)
      BY <1>1, <2>1 DEF InsertCapability, InsertJob, InsertApproval, UpdateApproval,
         UpdatePlan, UpdateJob, Wrote, StatementsLeft, TxRecord
    <2>2. CASE SelectPlanID(c)
      BY <1>1, <1>3, <2>2 DEF SelectPlanID, StatementsLeft, TxRecord
    <2>3. CASE Commit(c)
      BY <1>1, <1>3, <2>3 DEF Commit
    <2> QED
      BY <1>8, <2>1, <2>2, <2>3 DEF Statement
  <1>9. CASE Rollback(c)
    BY <1>1, <1>3, <1>9 DEF Rollback
  <1> QED
    BY <1>5, <1>6, <1>7, <1>8, <1>9 DEF Next, vars

(***************************************************************************)
(* A call under way never starts over: whatever step is taken, by anyone,  *)
(* the statements before it become fewer or it has not moved.              *)
(***************************************************************************)
THEOREM CallsCloseIn == Spec => [][ClosingIn]_tx
  <1>1. TypeOK /\ [Next]_vars => [ClosingIn]_tx
    BY StepsCloseIn
  <1> QED
    BY <1>1, JobApprovalTypeOK, PTL DEF Spec

(***************************************************************************)
(* As long as any call is under way, one of them has a statement that      *)
(* waits for no row: with CallsCloseIn, the calls under way end unless the *)
(* scheduler never runs the statements that could run.                     *)
(***************************************************************************)
THEOREM SomeCallProceeds == Spec => []SomebodyProceeds
  <1>1. ASSUME IInv, NoWaitCycle PROVE SomebodyProceeds
    <2> SUFFICES ASSUME NEW b \in Clients, tx[b].pc # "idle"
                 PROVE  \E c \in Clients : Ready(c)
      BY DEF SomebodyProceeds
    <2> DEFINE group == {c \in Clients : tx[c].pc # "idle"}
    <2>1. PICK c \in group : \A d \in group : ~WaitsFor(c, d)
      BY <1>1 DEF NoWaitCycle
    <2>2. \A d \in Clients \ {c} : ~WaitsFor(c, d)
      <3>1. \A d \in Clients \ group : tx[d].dirty = {}
        BY <1>1 DEF IInv, TxInv, WrittenBefore, Steps
      <3> QED
        BY <2>1, <3>1 DEF WaitsFor
    <2>3. tx[c].pc \in Steps \ {"idle"}
      BY <1>1, <2>1 DEF IInv, TypeOK, TxRecord
    <2>4. Ready(c)
      BY <2>2, <2>3 DEF Ready, Steps, WaitsFor, ApprovalLocked, PlanLocked, JobLocked
    <2> QED
      BY <2>4
  <1>2. IInv => SomebodyProceeds
    BY <1>1, LockOrder
  <1> QED
    BY <1>2, JobApprovalInvariant, PTL

----------------------------------------------------------------------------
\* Initial states are initial states of the ledger.
LEMMA InitRefines == Init => Ledger!Init
  BY DEF Init, Ledger!Init, Ledger!NoJob, NoJob, Ledger!NoPlan, NoPlan,
         Ledger!NoApproval, NoApproval

\* A commit is one step of the ledger.
LEMMA CommitRefines ==
  ASSUME IInv, NEW c \in Clients, Commit(c) PROVE Ledger!Next
  <1>1. CASE Creating(tx[c])
    BY <1>1, CommitCreates DEF Ledger!Next
  <1>2. CASE Requesting(tx[c])
    BY <1>2, CommitRequests DEF Ledger!Next
  <1>3. CASE Reviewing(tx[c])
    BY <1>3, CommitReviews DEF Ledger!Next, Reviews
  <1> QED
    BY <1>1, <1>2, <1>3, CommitKinds

\* A call of one statement is one step of the ledger.
LEMMA AutocommitRefines == ASSUME Autocommit PROVE Ledger!Next
  <1>1. ASSUME NEW j \in Jobs,
               \/ MarkProcessingJobRunning(j) \/ FailProcessingJob(j)
               \/ CompleteProcessingJob(j)
        PROVE  Ledger!Next
    BY <1>1 DEF MarkProcessingJobRunning, FailProcessingJob, CompleteProcessingJob,
       UpdateJobRow, Exists, RunningRow, FailedRow, CompletedRow, Ledger!Next,
       Ledger!MarkProcessingJobRunning, Ledger!FailProcessingJob,
       Ledger!CompleteProcessingJob, Ledger!Exists, Ledger!RunningRow, Ledger!FailedRow,
       Ledger!CompletedRow
  <1>2. ASSUME NEW j \in Jobs, NEW p \in Plans, NEW s \in CallerStatus, NEW t \in Times,
               UpsertJobExecutionPlan(p, j, s, t)
        PROVE  Ledger!Next
    BY <1>2 DEF UpsertJobExecutionPlan, Exists, UpsertedPlan, NoPlan, Ledger!Next,
       Ledger!UpsertJobExecutionPlan, Ledger!Exists, Ledger!UpsertedPlan, Ledger!NoPlan
  <1> QED
    BY <1>1, <1>2 DEF Autocommit

\* Everything but a commit and an autocommitted statement leaves the tables alone.
LEMMA NextRefines == IInv /\ [Next]_vars => [Ledger!Next]_(Ledger!vars)
  <1> SUFFICES ASSUME IInv, [Next]_vars PROVE [Ledger!Next]_(Ledger!vars)
    OBVIOUS
  <1>1. UNCHANGED tables => UNCHANGED Ledger!vars
    BY DEF tables, Ledger!vars
  <1>2. ASSUME UNCHANGED vars PROVE UNCHANGED tables
    BY <1>2 DEF vars, tables
  <1>3. ASSUME NEW c \in Clients, BeginCall(c) \/ Rollback(c) PROVE UNCHANGED tables
    BY <1>3 DEF BeginCall, BeginCreate, BeginRequest, BeginReview, Begin, Rollback
  <1>4. ASSUME NEW c \in Clients, Statement(c), ~Commit(c) PROVE UNCHANGED tables
    BY <1>4 DEF Statement, InsertCapability, InsertJob, InsertApproval, SelectPlanID,
       UpdateApproval, UpdatePlan, UpdateJob
  <1> QED
    BY <1>1, <1>2, <1>3, <1>4, CommitRefines, AutocommitRefines DEF Next

(***************************************************************************)
(* The transactions of document.go implement the ledger's atomic steps: a  *)
(* request or review takes effect in all its tables at commit or not at    *)
(* all, however the statements of the clients interleave and fail.         *)
(***************************************************************************)
THEOREM JobApprovalRefinesLedger == Spec => RefinesLedger
  BY InitRefines, NextRefines, JobApprovalInvariant, PTL DEF Spec, RefinesLedger, Ledger!Spec

----------------------------------------------------------------------------
(* What is proved of the ledger holds of the interleaved statements. *)

LedgerFacts == INSTANCE ApprovalLedgerProofs

\* The two instances of the ledger mean the same initial states,
LEMMA SameInit == Ledger!Init => LedgerFacts!Init
  BY DEF Ledger!Init, LedgerFacts!Init, Ledger!NoJob, LedgerFacts!NoJob, Ledger!NoPlan,
         LedgerFacts!NoPlan, Ledger!NoApproval, LedgerFacts!NoApproval

\* the same steps,
LEMMA SameNext == [Ledger!Next]_(Ledger!vars) => [LedgerFacts!Next]_(LedgerFacts!vars)
  BY DEF Ledger!Next, LedgerFacts!Next, Ledger!CreateProcessingJob,
         LedgerFacts!CreateProcessingJob, Ledger!UpsertJobExecutionPlan,
         LedgerFacts!UpsertJobExecutionPlan, Ledger!RequestJobApproval,
         LedgerFacts!RequestJobApproval, Ledger!ReviewJobApproval,
         LedgerFacts!ReviewJobApproval, Ledger!MarkProcessingJobRunning,
         LedgerFacts!MarkProcessingJobRunning, Ledger!FailProcessingJob,
         LedgerFacts!FailProcessingJob, Ledger!CompleteProcessingJob,
         LedgerFacts!CompleteProcessingJob, Ledger!Exists, LedgerFacts!Exists,
         Ledger!FoundUnder, LedgerFacts!FoundUnder, Ledger!vars, LedgerFacts!vars,
         Ledger!QueuedRow, LedgerFacts!QueuedRow, Ledger!NoJob, LedgerFacts!NoJob,
         Ledger!NoPlan, LedgerFacts!NoPlan, Ledger!NoApproval, LedgerFacts!NoApproval,
         Ledger!RunningRow, LedgerFacts!RunningRow, Ledger!FailedRow,
         LedgerFacts!FailedRow, Ledger!CompletedRow, LedgerFacts!CompletedRow,
         Ledger!PlanStateRow, LedgerFacts!PlanStateRow, Ledger!UpsertedPlan,
         LedgerFacts!UpsertedPlan, Ledger!PlanStatusRow, LedgerFacts!PlanStatusRow,
         Ledger!PendingApproval, LedgerFacts!PendingApproval, Ledger!ReviewedRow,
         LedgerFacts!ReviewedRow

\* and make the same claims.
LEMMA SameClaims ==
    /\ LedgerFacts!ApprovalBacksJob => Ledger!ApprovalBacksJob
    /\ LedgerFacts!Ownership => Ledger!Ownership
    /\ LedgerFacts!PlanAgrees => Ledger!PlanAgrees
  <1>1. LedgerFacts!ApprovalBacksJob => Ledger!ApprovalBacksJob
    BY DEF Ledger!ApprovalBacksJob, LedgerFacts!ApprovalBacksJob, Ledger!Vouches,
           LedgerFacts!Vouches, Ledger!Decision, LedgerFacts!Decision
  <1>2. LedgerFacts!Ownership => Ledger!Ownership
    BY DEF Ledger!Ownership, LedgerFacts!Ownership, Ledger!NoApproval, LedgerFacts!NoApproval
  <1>3. LedgerFacts!PlanAgrees => Ledger!PlanAgrees
    BY DEF Ledger!PlanAgrees, LedgerFacts!PlanAgrees
  <1> QED
    BY <1>1, <1>2, <1>3

\* The ledger's inductive invariant holds of the committed tables.
LEMMA TablesKeepLedgerInvariant == Spec => []LedgerFacts!IInv
  <1>1. Ledger!Init => LedgerFacts!IInv
    BY SameInit, LedgerFacts!InitIInv DEF LedgerFacts!Decision, Decision
  <1>2. LedgerFacts!IInv /\ [Ledger!Next]_(Ledger!vars) => LedgerFacts!IInv'
    BY SameNext, LedgerFacts!NextPreserves DEF LedgerFacts!Decision, Decision
  <1> QED
    BY <1>1, <1>2, JobApprovalRefinesLedger, PTL DEF RefinesLedger, Ledger!Spec

(***************************************************************************)
(* In the committed tables a job is approved, rejected, pending or         *)
(* executing on a plan only if an approval request of that job and plan    *)
(* says so, at every moment of every interleaving.                         *)
(***************************************************************************)
THEOREM JobApprovalBacked == Spec => []Ledger!ApprovalBacksJob
  <1>1. LedgerFacts!IInv => Ledger!ApprovalBacksJob
    BY SameClaims DEF LedgerFacts!IInv
  <1> QED
    BY <1>1, TablesKeepLedgerInvariant, PTL

(***************************************************************************)
(* No interleaving of requests, reviews and upserts makes an approval row  *)
(* or a job row point at the plan of another job, although a request reads *)
(* its plan before its transaction begins.                                 *)
(***************************************************************************)
THEOREM JobApprovalOwnership == Spec => []Ledger!Ownership
  <1>1. LedgerFacts!IInv => Ledger!Ownership
    BY SameClaims DEF LedgerFacts!IInv
  <1> QED
    BY <1>1, TablesKeepLedgerInvariant, PTL

(***************************************************************************)
(* The job row and the plan row are written by two statements with other   *)
(* clients' in between; still they never disagree on a committed decision  *)
(* unless a caller has rewritten the plan since.                           *)
(***************************************************************************)
THEOREM JobApprovalPlanAgrees == Spec => []Ledger!PlanAgrees
  <1>1. LedgerFacts!IInv => Ledger!PlanAgrees
    BY SameClaims DEF LedgerFacts!IInv
  <1> QED
    BY <1>1, TablesKeepLedgerInvariant, PTL

(***************************************************************************)
(* Whatever transactions are open, a job with a plan starts executing only *)
(* when the last committed decision on it was an approval.                 *)
(***************************************************************************)
THEOREM JobApprovalExecutionFollows == Spec => Ledger!ExecutionFollowsApproval
  <1>1. LedgerFacts!IInv /\ [Ledger!Next]_(Ledger!vars) => [LedgerFacts!FollowsApproval]_jobs
    BY SameNext, LedgerFacts!ExecutionStep DEF LedgerFacts!Decision, Decision
  <1>2. Spec => [][LedgerFacts!FollowsApproval]_jobs
    BY <1>1, TablesKeepLedgerInvariant, JobApprovalRefinesLedger, PTL
       DEF RefinesLedger, Ledger!Spec
  <1> QED
    BY <1>2 DEF Ledger!ExecutionFollowsApproval, LedgerFacts!FollowsApproval

\* What the two rows of CreateProcessingJob promise together.
CapabilityWithJob == capabilities = {j \in Jobs : Exists(j)}

(***************************************************************************)
(* CreateProcessingJob inserts the capability first and the job after it,  *)
(* and may fail or die in between: no job is ever seen without its         *)
(* capability, and no capability without its job.                          *)
(***************************************************************************)
THEOREM JobApprovalCapabilities == Spec => []CapabilityWithJob
  <1>1. LedgerFacts!IInv => CapabilityWithJob
    BY DEF LedgerFacts!IInv, LedgerFacts!TypeOK, LedgerFacts!Exists, CapabilityWithJob, Exists
  <1> QED
    BY <1>1, TablesKeepLedgerInvariant, PTL
=============================================================================

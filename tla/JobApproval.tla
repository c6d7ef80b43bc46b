---------------------------- MODULE JobApproval ----------------------------
(***************************************************************************)
(* The approval workflow of repository/postgres as it runs: each client    *)
(* (an API or worker process inside one store call) is in the middle of a  *)
(* database transaction, one SQL statement per step, and other clients'    *)
(* statements come in between.  Postgres runs at READ COMMITTED: a         *)
(* statement sees committed rows only, an UPDATE of a row another          *)
(* transaction has written waits until that transaction ends.              *)
(*                                                                         *)
(* A transaction's uncommitted row versions are its row locks, so one set  *)
(* "dirty" holds both.  The values written are constants of the operation  *)
(* (Verdict), applied to the committed tables by Commit.                   *)
(***************************************************************************)
EXTENDS JobRows, Naturals

CONSTANTS
    Clients,   \* processes inside a store call
    Times      \* the created_at values callers give their plans

ASSUME ClientsAreNoIds == None \notin Clients
ASSUME TimesAreNumbers == Times \subseteq Nat

VARIABLES
    jobs, capabilities, plans, approvals,   \* the committed tables
    created,   \* created_at of each plan, the order GetJobExecutionPlan reads by
    tx         \* per client, the store call it is in

tables == <<jobs, capabilities, plans, approvals, created>>
vars == <<jobs, capabilities, plans, approvals, created, tx>>

Ops == {"none", "create", "request", "approved", "rejected"}
Steps == {"idle", "insertCapability", "insertJob", "insertApproval", "selectPlanID",
          "updateApproval", "updatePlan", "updateJob", "commit"}
Tables == {"capability", "job", "plan", "approval"}

Idle == [pc |-> "idle", op |-> "none", job |-> None, approval |-> None,
         plan |-> None, dirty |-> {}]

Exists(j) == jobs[j].status # "absent"

\* Slip: the operation's own name is written, a request's too.
VerdictVerbatim(op) == op

\* The plan status a transaction writes; review transactions are named by their verdict.
Verdict(op) == IF op = "request" THEN "pending_approval" ELSE op

----------------------------------------------------------------------------
(* Row locks *)

JobLocked(j, self)  == \E d \in Clients \ {self} : "job" \in tx[d].dirty /\ tx[d].job = j
PlanLocked(p, self) == \E d \in Clients \ {self} : "plan" \in tx[d].dirty /\ tx[d].plan = p
ApprovalLocked(a, self) ==
    \E d \in Clients \ {self} : "approval" \in tx[d].dirty /\ tx[d].approval = a

\* Client c has executed its statement, which wrote table t; its next one is pc.
Wrote(c, t, pc) == tx' = [tx EXCEPT ![c].dirty = @ \cup {t}, ![c].pc = pc]

----------------------------------------------------------------------------
Init ==
    /\ jobs = [j \in Jobs |-> NoJob]
    /\ capabilities = {}
    /\ plans = [p \in Plans |-> NoPlan]
    /\ approvals = [a \in Approvals |-> NoApproval]
    /\ created = [p \in Plans |-> 0]
    /\ tx = [c \in Clients |-> Idle]

\* The ids of a row nobody has inserted and no open transaction is about to insert.
FreshJob(j) == ~Exists(j) /\ \A c \in Clients : tx[c].job # j
FreshApproval(a) ==
    approvals[a] = NoApproval /\ \A c \in Clients : tx[c].op = "request" => tx[c].approval # a

Begin(c, pc, op, j, a, p) ==
    /\ tx[c] = Idle
    /\ tx' = [tx EXCEPT ![c] = [pc |-> pc, op |-> op, job |-> j, approval |-> a,
                                plan |-> p, dirty |-> {}]]
    /\ UNCHANGED tables

(* CreateProcessingJob: the capability and the job in one transaction. *)

BeginCreate(c, j) == FreshJob(j) /\ Begin(c, "insertCapability", "create", j, None, None)

InsertCapability(c) ==
    /\ tx[c].pc = "insertCapability"
    /\ Wrote(c, "capability", "insertJob")
    /\ UNCHANGED tables

InsertJob(c) ==
    /\ tx[c].pc = "insertJob"
    /\ Wrote(c, "job", "commit")
    /\ UNCHANGED tables

(* RequestJobApproval: the plan is read before the transaction begins.  It *)
(* gives up there if the job has no plan or its JSON does not parse.       *)

Latest(j) == {p \in Plans : /\ plans[p].job = j
                            /\ \A q \in Plans : plans[q].job = j => created[q] <= created[p]}

BeginRequest(c, j, a) ==
    /\ Exists(j)
    /\ FreshApproval(a)
    /\ \E p \in Latest(j) : Begin(c, "insertApproval", "request", j, a, p)

\* Slip: the request takes the job row first, before it locks the plan.
InsertApprovalLockingJob(c) ==
    /\ tx[c].pc = "insertApproval"
    /\ ~JobLocked(tx[c].job, c)
    /\ tx' = [tx EXCEPT ![c].dirty = {"approval", "job"}, ![c].pc = "updatePlan"]
    /\ UNCHANGED tables

InsertApproval(c) ==
    /\ tx[c].pc = "insertApproval"
    /\ Wrote(c, "approval", "updatePlan")
    /\ UNCHANGED tables

(* ApproveJobApproval and RejectJobApproval, on any pair of ids. *)

BeginReview(c, j, a, verdict) ==
    Exists(j) /\ Begin(c, "selectPlanID", verdict, j, a, None)

\* Slip: the return on a missing row leaves the transaction open.
SelectPlanIDLeavesOpen(c) ==
    /\ tx[c].pc = "selectPlanID"
    /\ LET r == approvals[tx[c].approval] IN
       tx' = [tx EXCEPT ![c] = IF FoundUnder(r, tx[c].job)
                               THEN [@ EXCEPT !.plan = r.plan, !.pc = "updateApproval"]
                               ELSE [@ EXCEPT !.pc = "idle"]]
    /\ UNCHANGED tables

SelectPlanID(c) ==
    /\ tx[c].pc = "selectPlanID"
    /\ LET r == approvals[tx[c].approval] IN
       tx' = [tx EXCEPT ![c] = IF FoundUnder(r, tx[c].job)
                               THEN [@ EXCEPT !.plan = r.plan, !.pc = "updateApproval"]
                               ELSE Idle]
    /\ UNCHANGED tables

UpdateApproval(c) ==
    /\ tx[c].pc = "updateApproval"
    /\ ~ApprovalLocked(tx[c].approval, c)
    /\ Wrote(c, "approval", "updatePlan")
    /\ UNCHANGED tables

(* The two UPDATEs that requests and reviews end with.  A request sends    *)
(* the second one twice, the first time with its approval id as the job    *)
(* id: that one matches no row, locks nothing and is no step here.         *)

\* Slip: the UPDATE runs on s.q() instead of qtx, outside the transaction.
UpdatePlanOutsideTx(c) ==
    /\ tx[c].pc = "updatePlan"
    /\ ~PlanLocked(tx[c].plan, c)
    /\ plans' = [plans EXCEPT ![tx[c].plan] = PlanStatusRow(@, Verdict(tx[c].op))]
    /\ tx' = [tx EXCEPT ![c].pc = "updateJob"]
    /\ UNCHANGED <<jobs, capabilities, approvals, created>>

UpdatePlan(c) ==
    /\ tx[c].pc = "updatePlan"
    /\ ~PlanLocked(tx[c].plan, c)
    /\ Wrote(c, "plan", "updateJob")
    /\ UNCHANGED tables

UpdateJob(c) ==
    /\ tx[c].pc = "updateJob"
    /\ ~JobLocked(tx[c].job, c)
    /\ Wrote(c, "job", "commit")
    /\ UNCHANGED tables

(* The end of a transaction. *)

CommittedJob(t) ==
    IF t.op = "create" THEN QueuedRow ELSE PlanStateRow(jobs[t.job], t.plan, Verdict(t.op))

CommittedApproval(t) ==
    IF t.op = "request" THEN PendingApproval(t.job, t.plan)
                        ELSE ReviewedRow(approvals[t.approval], t.op)

Commit(c) ==
    /\ tx[c].pc = "commit"
    /\ LET t == tx[c] IN
       /\ jobs' = IF "job" \in t.dirty
                  THEN [jobs EXCEPT ![t.job] = CommittedJob(t)] ELSE jobs
       /\ capabilities' = IF "capability" \in t.dirty
                          THEN capabilities \cup {t.job} ELSE capabilities
       /\ plans' = IF "plan" \in t.dirty
                   THEN [plans EXCEPT ![t.plan] = PlanStatusRow(@, Verdict(t.op))] ELSE plans
       /\ approvals' = IF "approval" \in t.dirty
                       THEN [approvals EXCEPT ![t.approval] = CommittedApproval(t)]
                       ELSE approvals
    /\ tx' = [tx EXCEPT ![c] = Idle]
    /\ UNCHANGED created

\* Any statement may fail, the context may be cancelled, the process may die.
Rollback(c) ==
    /\ tx[c] # Idle
    /\ tx' = [tx EXCEPT ![c] = Idle]
    /\ UNCHANGED tables

----------------------------------------------------------------------------
(* Calls of one autocommitted statement; they wait for the row too. *)

UpsertJobExecutionPlan(p, j, s, t) ==
    /\ Exists(j)
    /\ ~PlanLocked(p, None)
    /\ plans' = [plans EXCEPT ![p] = UpsertedPlan(@, j, s)]
    /\ created' = IF plans[p] = NoPlan THEN [created EXCEPT ![p] = t] ELSE created
    /\ UNCHANGED <<jobs, capabilities, approvals, tx>>

UpdateJobRow(j, row) ==
    /\ Exists(j)
    /\ ~JobLocked(j, None)
    /\ jobs' = [jobs EXCEPT ![j] = row]
    /\ UNCHANGED <<capabilities, plans, approvals, created, tx>>

MarkProcessingJobRunning(j) == UpdateJobRow(j, RunningRow(jobs[j]))
FailProcessingJob(j)        == UpdateJobRow(j, FailedRow(jobs[j]))
CompleteProcessingJob(j)    == UpdateJobRow(j, CompletedRow(jobs[j]))

----------------------------------------------------------------------------
\* The statements of a call that has begun.
Statement(c) ==
    \/ InsertCapability(c) \/ InsertJob(c) \/ InsertApproval(c)
    \/ SelectPlanID(c) \/ UpdateApproval(c)
    \/ UpdatePlan(c) \/ UpdateJob(c) \/ Commit(c)

BeginCall(c) ==
    \/ \E j \in Jobs : BeginCreate(c, j)
    \/ \E j \in Jobs, a \in Approvals : BeginRequest(c, j, a)
    \/ \E j \in Jobs, a \in Approvals, verdict \in {"approved", "rejected"} :
           BeginReview(c, j, a, verdict)

Autocommit ==
    \/ \E j \in Jobs : \/ MarkProcessingJobRunning(j)
                       \/ FailProcessingJob(j)
                       \/ CompleteProcessingJob(j)
    \/ \E j \in Jobs, p \in Plans, s \in CallerStatus, t \in Times :
           UpsertJobExecutionPlan(p, j, s, t)

Next == Autocommit \/ \E c \in Clients : BeginCall(c) \/ Statement(c) \/ Rollback(c)

Spec == Init /\ [][Next]_vars

(***************************************************************************)
(* A call that has begun goes on executing its statements.  A statement    *)
(* that waits for a row becomes enabled again and again as others commit,  *)
(* and Postgres queues the waiters of a row: strong fairness.  Rollback    *)
(* gets none, so nothing relies on failures or on the deadlock detector.   *)
(***************************************************************************)
FairSpec == Spec /\ \A c \in Clients : SF_vars(Statement(c))

----------------------------------------------------------------------------
TxRecord == [pc: Steps, op: Ops, job: Jobs \cup {None}, approval: Approvals \cup {None},
             plan: Plans \cup {None}, dirty: SUBSET Tables]

\* Committed tables, read order and open calls hold values of their types.
TypeOK ==
    /\ jobs \in [Jobs -> JobRow]
    /\ capabilities \subseteq Jobs
    /\ plans \in [Plans -> PlanRow]
    /\ approvals \in [Approvals -> ApprovalRow]
    /\ created \in [Plans -> Nat]
    /\ tx \in [Clients -> TxRecord]

\* Client c's next statement needs a row client d has written and not committed.
WaitsFor(c, d) ==
    /\ c # d
    /\ \/ /\ tx[c].pc = "updateApproval"
          /\ "approval" \in tx[d].dirty /\ tx[d].approval = tx[c].approval
       \/ /\ tx[c].pc = "updatePlan"
          /\ "plan" \in tx[d].dirty /\ tx[d].plan = tx[c].plan
       \/ /\ tx[c].pc = "updateJob"
          /\ "job" \in tx[d].dirty /\ tx[d].job = tx[c].job

(***************************************************************************)
(* No deadlock among transactions: in every group of clients one waits for *)
(* nobody of the group.  Requests, approvals and rejections lock approval, *)
(* plan and job rows in one order (document.go:339-381, 411-437, 455-481). *)
(***************************************************************************)
NoWaitCycle ==
    \A group \in (SUBSET Clients) \ {{}} :
        \E c \in group : \A d \in group : ~WaitsFor(c, d)

(***************************************************************************)
(* The committed tables change only as ApprovalLedger lets them: a request *)
(* or a review takes effect in all its tables or in none, whatever runs    *)
(* between its statements and wherever it fails, on the rows as they are   *)
(* when it commits, though it read the plan and the approval earlier.      *)
(***************************************************************************)
Ledger == INSTANCE ApprovalLedger
    WITH jobs <- jobs, capabilities <- capabilities, plans <- plans, approvals <- approvals

RefinesLedger == Ledger!Spec

(***************************************************************************)
(* Every call that has begun returns: nobody waits for a row for ever.     *)
(***************************************************************************)
EveryCallReturns == \A c \in Clients : tx[c] # Idle ~> tx[c] = Idle
=============================================================================

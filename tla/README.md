# Verification of the Synthify shared package

`src/` is the Go package `shared` of Synthify: the stores, services and types
that its API server and its document workers have in common. Uploaded documents
are processed by jobs; a job may need its execution plan approved by a person,
builds a tree of items in a workspace, and reports its progress to a browser.
The package has no scheduler of its own: every operation is called from request
handlers and workers in several processes, which share a Postgres database, a
Firestore project and a mounted file system. What is hard about it is therefore
what several processes do to those three stores at the same time, and what is
left when one of them fails half way.

The repository contains no SQL schema. The tables are modelled from the
statements of `repository/postgres/sqlcgen`; the keys are the columns the
`ON CONFLICT` clauses name. Postgres is assumed to run at its default isolation,
READ COMMITTED (`BeginTx(ctx, nil)`).

## Inventory

| Component | State | Operations | What is hard | What makes it correct |
|---|---|---|---|---|
| Job creation (`document.go:485`) | `document_processing_jobs`, `job_capabilities` | CreateProcessingJob | two inserts, any may fail | a job and its capability exist together |
| Plans and approval (`document.go:235-483`) | `job_execution_plans`, `job_approval_requests`, plan columns of the job | upsert plan, request, approve, reject | plan read before the transaction, three tables per transaction, row locks, reviews in any order and number | the three tables tell one story; nothing executes on a refused plan |
| Job lifecycle (`job/lifecycle`, `job/status`) | status columns of the job row, the Firestore document | MarkRunning, TryFail, Complete, NotifyQueued, stages | row first, document second, either may fail; merged documents; overlapping callers | the browser sees no success that did not happen; the stores agree again after a clean call |
| Stage checkpoints (`document.go:606`, `storage/filesystem.go:154`) | `job_stage_checkpoints`, one JSON file per stage | running, succeeded, failed; read and write the file | shared temporary file, crash between file and row | a stage recorded as succeeded has a readable checkpoint |
| File cache (`filesystem.go:97`) | JSON files | ReadCache, WriteCache | as above | a reader sees a whole entry or none |
| Tree and items (`tree.go`, `item.go`) | `tree_items`, `job_mutation_logs`, aliases | root creation, item creation and revision under a capability, paths | check then act outside the transaction | one root; budget kept; protected items untouched; every mutation logged |
| Accounts and workspaces (`workspace.go`) | `accounts`, `account_users`, `workspaces` | get or create the account, create a workspace | read then insert, dropped error | what a user creates stays accessible to that user only; accounts bounded |
| Documents and chunks (`document.go:17-175, 656`) | `documents`, files, chunks | inserts, queries, replace all chunks | delete and insert under READ COMMITTED | a save replaces what was there when it began, or nothing; saves that do not overlap leave the chunks of one call |
| Chunking (`document/chunking.go`) | none but that of the loop | SplitSections, BuildChunks | boundaries: headings, length, white space | no text lost or moved, sections bounded, each under its heading |
| Job log (`joblog.go`, `job/log`) | `job_logs`, `job_mutation_logs` | append, keyset pages, offset pages | pages while rows arrive | each row once |
| Capability and billing rules (`domain`) | none | Allows, AllowsDocument, IsExpired, risk tiers | stored form loses fields | checks mean the same on a loaded capability |
| In-memory store (`repository/mock`) | maps | a test double of all stores, mostly stubs; every operation holds one RWMutex | - | saves of chunks replace the list |
| Bootstrap, middleware, transport, applog, util | none of their own | start-up, headers, conversions, output | - | - |

Interaction: handlers and workers call `joblifecycle.Service`; it calls the
Postgres store and then the notifier. Workers call the store for plans, items,
checkpoints and logs directly. Nothing calls back.

The list of everything in this code that is hard to test, each at its line and
with the property that covers it, is in `PROJECT.json` under `hazards`.

## Modules

    JobRows                 rows and what each SQL statement does to one row
      ApprovalLedger        the workflow as atomic operations     (abstract)
        ApprovalLedgerProofs
        MCApprovalLedger
      JobApproval           the same, one SQL statement per step  (detailed)
        JobApprovalProofs   uses ApprovalLedgerProofs through refinement
        MCJobApproval
    JobStatusMirror         one job in Postgres and in Firestore
      JobStatusMirrorProofs
      MCJobStatusMirror
    TreeItems               rows of the tree and the walks over them
      TreeStore             roots, items, revisions and their audit rows
        TreeStoreProofs
        MCTreeStore
    JobLogPaging            pages of the log and of related jobs while rows arrive
      JobLogPagingProofs
      MCJobLogPaging
    Chunking                how BuildChunks cuts a text into sections
      DocumentChunks        ... and calls that save the chunks     (detailed)
        DocumentChunksProofs
        MCDocumentChunks
    ChunkLists              a saved list that is replaced at once (abstract)
    EntryFile               one cache or checkpoint file on the mount
      EntryFileProofs
      MCEntryFile
    Accounts                the account of a user and the workspaces under it
      AccountsProofs
      MCAccounts

**JobRows** has the row types and one operator per SQL statement, e.g.
`RunningRow` for `markProcessingJobRunning` with the CASE around `plan_status`.
Both workflow modules use it, so the abstract and the detailed model cannot
differ in what a statement writes.

**ApprovalLedger** is what the store promises: each operation happens at once.
`ReviewJobApproval(j, a, verdict)` stands for both ApproveJobApproval and
RejectJobApproval, which differ in the word they write. A reviewer may pass any
pair of a job and an approval id; the id is found only under its own job. A plan
id is chosen by the caller of the upsert and may belong to another job. Nothing
asks whether an approval request is still pending, or whether the job has
finished; the model leaves both open like the code.

**JobApproval** has one client per process inside a store call. `tx[c]` is the
call: its next statement `pc`, its ids and `dirty`, the tables it has written
and not committed. An uncommitted write is invisible to everybody else and is a
row lock: another UPDATE of the row waits. `Commit` applies the values to the
rows as they are then (the statements name columns, they do not write rows read
earlier). `RequestJobApproval` reads the plan before `BeginTx`
(`document.go:321`): `BeginRequest` binds the plan then, and its status may have
changed when the approval row is written. Ties in `created_at` leave the latest
plan open. `Rollback` may happen at any statement: an SQL error, a cancelled
context, a dead process. The statement at `document.go:365`, which passes the
approval id as a job id, matches no row and is not a step. Its error is ignored,
but after a failed statement Postgres accepts no other in that transaction, so
the next one fails: that is `Rollback`.

Calls of one autocommitted statement (the upsert and the three status updates)
are one step; they too wait for locked rows.

**JobStatusMirror** follows one job. The row's status is a text: the insert
writes the enum's number, the updates write words. The document is merged field
by field: what a write leaves out stays. A call of `Service` is two steps,
`Update` and `Notify`. `UpdateError` is a statement that reports an error, with
or without having taken effect; MarkRunning and Complete then return, TryFail
goes on (`service.go:67`). `NotifyLost` and `Dies` lose the rest of a call.
NotifyQueued, stage reports, UpdateProcessingJobStage and UpsertJobEvaluation are
single writes by anybody at any time. The variables `completed`, `solo` and
`synced` are history and guard nothing.

**TreeStore** follows the tree of each workspace. `items` and `log` are the
committed rows in the order of their commits, an item's id is its position.
`calls[c]` is the store call of client `c`, between two statements:
GetOrCreateTree (`RootFound`, `RootMissing`, `WorkspaceFound`, `InsertRoot`, back
to the root query), CreateStructuredItemWithCapability (the count of `WithinBudget`
or `BudgetExhausted`, then `AppendItem`) and UpdateItemSummaryHTMLWithCapability
(`ContextAllows` or `ContextRefuses`, then the transaction `UpdateItem`,
`CommitUpdate`). The two inserts of `AppendItem` take no row anyone could wait
for, so their transaction is one step; the UPDATE of a revision locks its row, and
who comes second waits (`RowLocked`). `Fail` ends a call at any statement, with
its transaction rolled back. CreateWorkspace and CreateItem are one transaction
each. The two queries whose errors the code swallows may fail: the root query
(`RootQueryFails`: any error means "no root") and the count (`CountFails`: an error
counts 0). `misled` is the history of these failures, per workspace and per job, and
`MaxMisled` bounds them for each; `BudgetBound` and `RootsBound` count each as one more item.

What the capability of a job allows is a constant per job: operations, workspace,
`MaxItemCreations`; and so is `Writes`, the contents it comes up with. A refused call returns before its first statement and changes
nothing, so expiry and the lists of documents and items are left out, and with
them the workspace that CreateStructuredItemWithCapability is refused for.
`Curate` is external: the code reads `human_curated` and `locked` and never writes
them, so somebody else does. `Legacy` workspaces are the ones without a root that
GetOrCreateTree provides for; CreateWorkspace makes none. Callers name committed
items as parents, of any workspace (nothing in the code compares the two), and
workspaces that exist. `late` is history: how often a protected item has been
revised since it became protected. Aliases, item sources and timestamps are left
out: one-row upserts that no modelled operation reads.

`FindPaths` is the walk of the code as a recursive function; `Ancestors` and
`IsPath` say what a path is without walking.

**JobLogPaging** has one reader and any number of writers. A page is one query,
so it is one step. `Begin` starts a walk (`ListJobLogs`, `SearchJobLogs`,
`ListRelatedJobLogs`) with the page size the code grants; `NextPage` and
`LastPage` are `paginateLogRows`, cut at the key (timestamp, id) of the last row
shown; `NextRelated` and `LastRelated` are cut at an offset. The writers commit
rows with any timestamp: it is taken before the insert, by another machine's
clock, and audit rows of the tree keep whole seconds. Ids are unique numbers in
the order of their texts. Two jobs never have the same `created_at`, which is
kept to the microsecond; with a tie Postgres may order two offset pages
differently and nothing could be promised. `known`, `shown` and `repeats` are
history.

**Chunking** is BuildChunks. A text is the sequence of its lines, and a line is where
it stands: the rune it begins at, the rune before its newline, and the part without white
space around it. Of what a line says the model keeps what LooksLikeHeading asks (the
mark, the number of words) and the title NormalizeHeading finds, perhaps empty. One
round of the loop of SplitSections is one step: `WriteLine` where the line joins the
buffer, `FlushAndWrite` where a heading or the length cuts before it. `RuneCount` is
the length of the buffer with all its newlines and blank lines, as the code counts it;
a section is what `strings.TrimSpace` leaves. The code's flush returns without emptying
a buffer that holds only white space, so a blank buffer is never cut. `TrimText` is
the trim of the whole text; after it SplitSections always finds a section, so its
"Introduction" is for callers other than BuildChunks and is not modelled.

**DocumentChunks** is what follows: calls of SaveDocumentChunks for one document with
the chunks BuildChunks has returned, each one transaction. `BeginSave` is the start of
the DELETE, which sees the rows committed then; `DeleteDocumentChunks` is its end: it
waits while another open transaction has deleted one of them, and skips what that one has
gone on to delete; `CreateDocumentChunk` is one INSERT under a new id, unseen by
others until `CommitSave`. `RollbackSave` may happen at any statement. Nothing
compares the lists: each call's rows are its own (`<<call, n>>`).

**ChunkLists** is what that amounts to. A `Save` replaces, at once, everything that
was there when the call began; what others have saved since (`since`) stays beside it.
So one list is what saves leave that do not overlap; with overlap the union of
several may stay, until the next save.

**EntryFile** models names as links: a file is known by the call that made it, an
envelope by the call that wrote it. WriteCache and WriteCheckpoint are the same
steps (`Create`, `Write` or `WriteFails`, `Close` or `CloseLoses`, `Rename` or
`RenameMissing`), ReadCache and ReadCheckpoint are `Open` and `Decode`; the module
is about one final name, different ones share nothing. The temporary name is
the final one with `.tmp`, so overlapping calls open, truncate and rename the same
file, and a call may rename the file of another. `Stop` is a process that dies
or a rename that fails. One `Encode` is one write and the decoder reads one
value from the beginning: entries are small, and a file holds one whole text or
is `Torn`. That a close loses what was written is external: the code ignores the
error of `Close`, the mount may report one. `marks` is history, what befell a
file: shared by two calls, cut off, lost.

**Accounts** has the three statements of GetOrCreateAccount, each committed by
itself: the lookup (any of the user's accounts, `LIMIT 1` has no order), the insert
and the membership row. `LookupFails` is an error of the first, taken for a missing
account; `CreateAccountUserFails` an error of the last, which is dropped.
A new account has a fresh id, so the `ON CONFLICT` of the insert never applies.
CreateWorkspace is called by a user with an account that some call has returned
to that user: the request handlers, outside this repository, hold no other.

A definition marked *Slip* is not part of a model: it is a mistake the code
could have made, kept next to the definition it would replace, to show that some
property notices it.

## Checked by TLC

| Run | Instance | Shows |
|---|---|---|
| `approval_ledger` | 2 jobs, 2 plans, 3 approvals, symmetric; 31 000 states | `TypeOK`, `Ownership`, `ApprovalBacksJob`, `PlanAgrees`, `ExecutionFollowsApproval` |
| `approval_tx` | 1 job, 2 plans, 2 approvals, 2 clients, 2 creation times; 358 000 states | `TypeOK`, `NoWaitCycle`, and `RefinesLedger`: the transactions implement the ledger |
| `approval_returns` | 2 clients, 1 job, 1 plan, 2 approvals, no symmetry; 93 000 states | `EveryCallReturns` under fairness |
| `status_mirror` | 2 callers, 2 stages, 2 percentages; 17 000 states | `TypeOK`, `SuccessIsRecorded`, `FinishedDocument`, `SoloCallSyncs` |
| `tree_store` | 2 workspaces, one of them legacy, 2 jobs (a creator with a budget of 1, a reviser), 2 contents, 2 clients, 2 governance states, 3 items, 3 audit rows, 1 failed root query of the new workspace, 1 failed count of the creator; 499 000 states | `TypeOK`, `BudgetBound`, `RootsBound`, `LateBound`, `AuditTail`, `BeforeWasContent`, `PathsAreAncestors`, and `CallsReturn` under fairness |
| `job_log_pages` | 2 jobs, 1 workspace, 3 log rows, 2 timestamps, page sizes 1 and 2; 1 087 000 states | `TypeOK`, `EachOnce`, `NothingMissed` for log pages; `NoJobMissed`, `RepeatsBound` for related jobs |
| `document_chunks` | every text of up to 4 lines of 8 kinds, saved by 3 calls; 149 000 states | `TypeOK`, `TextKept`, `SectionBound`, `HeadingLeads`, and `RefinesChunkLists`: the transactions replace the list |
| `entry_file` | 4 writing calls, 1 reader; 34 000 states | `TypeOK`, `LastWritten`, `ReadsLast`, `WholeOrPending`, `OwnTemp` |
| `accounts` | 2 users, 2 clients, 3 accounts, 1 failed lookup of each user; 7 000 states | `TypeOK`, `AccountsBound`, `Reachable`, `NobodyElse` |
| `tree_one_root` | 2 workspaces, one of them legacy, 2 clients, 4 items, jobs that may do nothing, no failing query | finding: `OneTree` fails |
| `approval_refusal` | 1 job | finding: `RunsOnlyApproved` fails |
| `status_read_back` | 1 caller | finding: `RunningReadsRunning` fails |

Bounds. In the workflow and mirror modules no counter is unbounded: every run
covers its whole state space and the only bounds are the sizes of the sets. The
tables of TreeStore grow; `MaxItems` and `MaxLog` bound them, and `Room` lets a
call begin only while there is room for the rows of every call under way, so that
the bound never stops a call half way. Three items are a root, a child and a
grandchild, or both roots of a race and an item; two calls are what it takes to
overrun a budget of one. A failing query happens at most `MaxMisled` times for each
workspace and job: once for the new workspace, the only way to a second root there (the
old one gets its own by the race), and once for the job that creates, for a third
item. One job creates and revises with the first content, the other revises with the
first or the second: so there are overlapping revisions that differ in the content
alone, in the job alone, in both and in nothing, and `AuditTail` can see which of them
stayed. An UPDATE that asks for the content read before, and whose affected rows nobody
counts, breaks it, and only by overlapping revisions that differ. Two
jobs are needed for a plan id of another job and for a review under the wrong
job; two plans for a job that changes its plan; three approvals for an old
approval, a rejection and a new request at once. One job is enough where the
question is about overlapping transactions: those of different jobs share a
plan or an approval row only as `Ownership` allows, that is, never. In JobLogPaging
the ids bound the log rows and the timestamps the jobs: three rows and pages of
one are a page before, at and after the cut, two timestamps give ties that only
the id breaks, and a second job is what moves the first across an offset. In
EntryFile each writing call is made once; with four, two can share a file, a third
find what they left and a fourth replace it under the reader. In Accounts
`AccountIds` bounds the accounts and `MaxMisled` the failed lookups of a user:
three accounts are the bound of `AccountsBound` reached by one user with two
clients and one failure. The eight kinds of lines of MCDocumentChunks are the boundary cases:
120 and 121 runes, eight and nine words, a heading without a title, a blank line, lines
of 1749 and of 1750 runes, of which one of each fills a section exactly with the newline
between them and two of 1750 exceed it, and a line longer than a section; four lines put a blank line
and a heading before or after a cut. Three saves are one that is overlapped by two others,
or that begins between their commits. The proofs below remove these bounds for everything but
the properties listed there as only model-checked. Deadlock is checked in every run but
`document_chunks`, where every call is made once and the system then really stops.

Fairness. `FairSpec` has strong fairness of each client's next statement: a
process executes its statements one after the other, and Postgres hands a row
over to the waiting transactions when its holder ends, so a statement enabled
again and again is executed. `Rollback` has none: no call needs a failure, a
timeout or the deadlock detector to return. `FairSpec` of TreeStore has weak
fairness of each client's `Step` and strong fairness of `UpdateItem`, the only
statement that waits: again a process goes on with what it has begun, and a row
lock is handed over. Nothing makes a call begin or the editor act. The other specifications have no
fairness; their properties are safety.

## Findings

* **`approval_refusal`.** `domain/types.go:16-17` declares `ErrApprovalRequired`
  ("job execution plan requires approval") and `ErrPlanRejected` ("job execution
  plan was rejected"), and `transport/connect/errors.go` maps them to
  failed-precondition; nothing in the package returns them. MarkProcessingJobRunning
  sets the status to running whatever the plan status is; only `plan_status`
  is guarded. `ExecutionFollowsApproval` is the part that holds: the plan status
  does not become executing.
* **`tree_one_root`.** The comment of GetOrCreateTree (`tree.go:14`) says one
  workspace has one tree and its root is returned if there is one. Root query and
  insert are two statements outside a transaction and the table has no key that
  would refuse the second root: two first calls for a workspace without a root
  leave two. `RootsBound` is the part that holds: a workspace made by
  CreateWorkspace keeps its one root, an older one gets at most one per overlapping
  call.
* **`status_read_back`.** The status column holds `"1"` after the insert and
  words after any update, and `toJob` (`document.go:777`) and `parseJobStatus` parse
  numbers and drop the error. In the run one call of MarkRunning leaves `running` in the
  row, and the row reads back as `UNSPECIFIED`, although the enum has a `RUNNING` and the
  in-memory store's "realistic mock jobs" (`mock/store.go:405`) have a job in it (`:418`).
  `failed` and `succeeded` read back the same way.

## Proved by TLAPS

For all values of the constants, that is, any number of jobs, plans, approvals,
clients, callers, items, rows and files:

* **ApprovalLedgerProofs.** `Spec => []Inv` for `TypeOK`, `Ownership`,
  `ApprovalBacksJob` and `PlanAgrees`, and the action property
  `ExecutionFollowsApproval`. None of the four is inductive alone. `IInv` adds
  `Planned` (a job without a plan carries no decision, one with a plan always carries
  a status). A decision on a new plan may replace the job's pointer to an old one;
  that the approval vouching for another job is not the one just reviewed follows from
  `Ownership`, which in turn holds because an upsert never moves a plan. Requests and
  reviews share one lemma, `DecisionPreserves`.
* **JobApprovalProofs.** `TypeOK`, `NoWaitCycle`, the refinement `Spec =>
  RefinesLedger`, and with it everything the ledger promises, of the committed tables:
  `ApprovalBacksJob`, `Ownership`, `PlanAgrees`, `ExecutionFollowsApproval`, and that
  a job and its capability come together (`CapabilityWithJob`). They are carried over
  by `TablesKeepLedgerInvariant`, from the ledger's own lemmas on its steps. `IInv`
  says of each open call which rows it relies on: a request's plan belongs to its job
  although it was read before the transaction began, a review's approval row is there
  and names its plan; which tables it has written at each `pc`; and that no two calls
  insert the same id. `OthersStayOpen` is the core: whatever others commit in between,
  owners and ids stay. `NoDeadlock`: a client that waits at a later table holds only
  earlier ones, so in any group one that has come furthest waits for nobody of the
  group. Refinement: a commit and each autocommitted statement is one step of the
  ledger, everything else a stutter. `CallsCloseIn` and `SomeCallProceeds` are the
  safety half of `EveryCallReturns`: each step of a call, a rollback included, leaves
  it fewer statements (`StatementsLeft`), and while any call is under way one of them
  can go on, which follows from `NoWaitCycle` for the group of all that wait.
* **JobStatusMirrorProofs.** `TypeOK`, `SuccessIsRecorded`, `FinishedDocument` and
  `SoloCallSyncs`. `IInv` adds that a caller about to notify a completion has
  completed, and that a call marked as running alone has no other open call beside it
  and has left its word in the row once it is about to notify.

* **TreeStoreProofs.** All the invariants: `TypeOK`, `BudgetBound`, `LateBound`,
  `RootsBound`, `AuditTail`, `BeforeWasContent` and `PathsAreAncestors`. The three
  bounds count more than the tables: a call that has passed its check but not yet
  written holds a place, so the invariants bound the sum: `BudgetInv` creations plus
  calls past the count, `RootsInv` roots plus calls past the root query (a failed
  query is entered on the other side of both), `LateInv` late revisions plus revisions
  past the governance check. A write turns a call into a row, which leaves the sum;
  the check is what keeps it when a call passes. `AuditInv` adds that every content of
  a row, and every content a call holds as the one before, was left there by an audit
  row; `WriteKeepsAudit` is the one place where a row and its audit row are written,
  and serves creations and revisions alike.

  The bounds have exact cases: `BudgetIsHardForOneClient` (no overlap and no failed
  count: the budget is a hard limit) and `MadeWorkspaceIsOneTree` (made by
  CreateWorkspace, no failed root query: exactly one root). The run `tree_one_root`
  shows that the latter does not hold of a workspace from before CreateWorkspace made
  roots.

  `PathsAreAncestors` is about a recursive function. That `PathUp` satisfies its own
  equation needs that some function does: `WalksExist`, where the shortest table
  prefix without one leads to a contradiction, since a round asks only for the parent
  and parents come first (`RoundAsksParent`). `WalkFindsPath` then takes the least
  item at which the walk would not give the path. Both use the library's
  well-foundedness of the naturals through `LeastOf`, which needs no operator as a
  parameter.

  `CapabilityConfines`: whatever a job creates, revises or logs is in the workspace of
  its capability and of a kind its operations name. `HomeInv` carries what was checked
  when a call began through its later statements: it relies on an item never moving to
  another workspace (`RowsKeepPlace`). `TreeCallsCloseIn` and the lemma
  `SomeTreeCallProceeds` are the safety half of `CallsReturn`. GetOrCreateTree calls
  itself again after inserting a root; `RootsRemain` is why it finds one the second
  time, so only a failing root query makes it go round again.
* **JobLogPagingProofs.** `TypeOK`, `EachOnce` and `NothingMissed`, and for the offset
  pages `NoJobMissed` and `RepeatsBound`. The invariant `Divided` says that the rows a
  walk has shown are not after its cut, and that the rows it knew at the beginning are
  shown or still after it. Committed rows keep their keys, so a write disturbs neither
  half. `NewestCut` and `NewestAll` say what a page is: the newest rows after the cut,
  with nothing left between them and the next cut. Keys are totally ordered because
  ids are unique. `PagesAreFull`: a page with a next one holds as many rows as asked
  for, all new, so the pages before the last are no more than the rows there are. It
  needs that the newest `n` rows are `n` rows (`NewestCount`), by the least `n` that
  is not so: the next row is the one with the fewest newer ones (`FewestBefore`), and
  before it there are exactly the rows of the shorter page. For offsets the invariant
  `RelatedInv` says that a job known at the beginning is shown or stands at or behind
  the offset, and that repeats plus shown jobs behind the offset are no more than the
  jobs created since. A place is a count of newer jobs: that different jobs have
  different places and that every place is taken (`PlacesDiffer`, `PlacesTaken`) makes
  a page as large as the step of the offset, and a created job moves every other by
  one place (`PlacesMove`), so it puts at most one more shown job behind the offset.
* **EntryFileProofs.** All five. The invariant adds that calls under way that have the
  same file open have been noticed (`Exclusive`), that a call alone with its file
  finds it as it wrote it (`Complete`), and that a file a reader has open never gets
  back to the temporary name (`ReadApart`), so that no later call truncates it.
  `OwnFileStep` serves every step that changes at most the text of the call's own
  file; create and rename, which move names, are proved apart. `EntryChangesAtRename`:
  under `[]InTurn` (no two calls share a file, no close loses it; calls may still fail
  or die anywhere) what is under the final name changes only in a step of a rename and
  to the whole of what that call wrote, so a write is atomic to readers.
* **DocumentChunksProofs.** `TypeOK`, `TextKept`, `SectionBound`, `HeadingLeads`, and
  the refinement `Spec => RefinesChunkLists`, for all texts and any number of calls.
  The three are about finished sections and not inductive: `LoopInv` says the same of
  the buffer. Everything filled in front of it lies in a section, it has the heading
  that the last heading line gave it and no heading line behind its first filled one,
  and what is filled in it is within the limit or one line, since a buffer with
  something in it is cut before it exceeds the limit. `FlushKeeps` is the lemma on a
  flush, of the loop or after it. Under the refinement mapping `since` is what is
  committed and not seen by the call's DELETE, which is why a commit is a `Save` and
  every other statement a stutter or a `Begin`. `ListsStayWhole`: of the rows of each
  call there are all or none, since a DELETE takes away whole lists (`WholeInv` says
  so of what each has seen) and a commit adds one. `SavesInTurnLeaveOneList`: under
  `[]InTurn`, at most one save under way, the rows are of one list.
* **AccountsProofs.** All four. `AccessInv`: an account being joined is nobody's yet,
  and an account has one member at most. `BoundInv` counts, as in the tree, the
  accounts of a user plus the calls that have found none and may yet create one. With
  one client and no failed lookup the bound is one, so with `AccessInv` every call
  returns the same account (`OneCallerOneAccount`), apart from accounts whose
  membership row was refused.

Assumptions (named in the modules, evaluated by TLC): ids differ from the empty id, a
caller's plan statuses are told apart from those the workflow writes, creation times
are naturals, percentages are percentages, sets of clients are finite, a default page
size is positive and at most the largest. Callers hold ids of jobs whose creation has
committed: `Exists(j)` guards every other operation; on an unknown id the code changes
no row, except that a plan may be stored for it.

Four theorems have a hypothesis beside the assumptions, and say what overlap costs:
one client (`BudgetIsHardForOneClient`, `OneCallerOneAccount`), or calls that take
turns (`[]InTurn` in `SavesInTurnLeaveOneList` and `EntryChangesAtRename`). The code
enforces none of them; the theorems without it bound what happens when it is not met.

Only model-checked: `EveryCallReturns` and `CallsReturn`, since liveness under
fairness is beyond the prover. What is proved towards them is that calls only ever
come closer to their end and that one of them can always go on; that the scheduler
then runs it is the fairness.

## Not modelled

* **Stage checkpoint rows** (`document.go:606-654`). Three upserts of one row, the last
  of which wins. The question worth asking is what the row may say of the checkpoint
  file when a worker dies between the two; but who writes both, and in which order, is
  outside this repository. A worker in the model would be invented.
* **A job's way through all stores.** The same holds of a composition of approval,
  status, tree and chunks: no code here calls more than one of them, except
  `joblifecycle.Service`, which is JobStatusMirror.
* **A crash of the machine after a rename** (`filesystem.go:205`): nothing is synced
  before it, so the file system may then show a truncated entry under the final name.
  EntryFile has processes that die and a close that loses what was written, not this.
* **The capability that is read back** (`document.go:210-234`): its allowed operations
  are neither stored nor returned. It is in the list of hazards; nothing here uses it.
* **Aliases and sources of items, documents and their files**: single inserts or
  upserts that no other operation of the package relies on.
* **Queries** (listings, subtrees, vector search, planning signals): one statement
  and a conversion, no state.
* **Bootstrap, configuration, middleware, mappers, output**: no state of their own, or
  functions of one request.
* **The in-memory store**: one lock around every operation, and most of them stubs.
* **Generated code.** 14 000 of the 20 500 lines of the package are protobuf and Connect
  output, with no behaviour of the system in them. The statements in `sqlcgen` are modelled
  with the operations that run them. Of the hand-written code and `sqlcgen` together the models
  stand for a third; most of the rest is queries, conversions and the test double.

Reasons for each are also under `components` in `PROJECT.json`.

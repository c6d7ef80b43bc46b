----------------------------- MODULE TreeStore -----------------------------
(***************************************************************************)
(* The tree of a workspace in repository/postgres: its roots, the items    *)
(* people and jobs add, the revisions jobs make, and the audit rows these  *)
(* leave.  A client is a process inside one store call, between two of its *)
(* statements; clients work for jobs, several may work for one.            *)
(*                                                                         *)
(* What a job's capability says (operations, budget, workspace) is fixed   *)
(* when the job is created.  A call it refuses (operation, document, item  *)
(* or expiry) returns before its first statement and is a stuttering step. *)
(***************************************************************************)
EXTENDS TreeItems, FiniteSets

CONSTANTS
    Workspaces,    \* workspace ids
    Legacy,        \* the workspaces that are there at the start, without a root
    Jobs,          \* jobs that mutate the tree
    Contents,      \* summaries of items
    None,          \* no id, no content
    Clients,       \* processes inside a store call
    Home,          \* the workspace of each job's capability
    Operations,    \* the operations of each job's capability
    Budget,        \* MaxItemCreations of each job's capability, 0 for no limit
    Writes,        \* the contents each job comes up with
    EditorStates,  \* governance states an editor sets
    MaxItems,      \* bound on the rows of tree_items
    MaxLog,        \* bound on the rows of job_mutation_logs
    MaxMisled      \* bound on the failed queries of each workspace and job

ASSUME WorkspacesAssumption == Legacy \subseteq Workspaces
ASSUME NoneAssumption == None \notin Workspaces \cup Jobs \cup Contents
ASSUME ClientsAssumption == IsFiniteSet(Clients)
ASSUME CapabilityAssumption ==
    /\ Home \in [Jobs -> Workspaces]
    /\ Operations \in [Jobs -> SUBSET {"create_item", "update_item"}]
    /\ Budget \in [Jobs -> Nat]
ASSUME EditorAssumption == EditorStates \subseteq Governance
ASSUME WritesAssumption == Writes \in [Jobs -> SUBSET Contents]
ASSUME FailuresAssumption == MaxMisled \in [Workspaces \cup Jobs -> Nat]
ASSUME BoundsAssumption == MaxItems \in Nat /\ MaxLog \in Nat

VARIABLES
    workspaces,  \* ids in table workspaces
    items,       \* tree_items, in the order of commits
    log,         \* job_mutation_logs, in the order of commits
    calls,       \* per client, the store call it is in
    late,        \* history: revisions an item has had since it is protected
    misled       \* history: queries that failed and whose error was swallowed, per
                 \* workspace (of its root) and per job (of its mutations)

vars == <<workspaces, items, log, calls, late, misled>>

Steps == {"idle", "readRoot", "readWorkspace", "insertRoot", "count", "append",
          "readContext", "update", "commit"}

Idle == [pc |-> "idle", ws |-> None, job |-> None, item |-> 0, parent |-> NoParent,
         content |-> None, before |-> None]

At(c, pc) == calls[c].pc = pc
Goto(c, pc) == calls' = [calls EXCEPT ![c].pc = pc]
Return(c) == calls' = [calls EXCEPT ![c] = Idle]

Insert(row) ==
    /\ Len(items) < MaxItems
    /\ items' = Append(items, row)

Busy == {c \in Clients : ~At(c, "idle")}

\* The bounds keep room for what the calls under way may still insert.
Room ==
    Len(items) + Cardinality(Busy) < MaxItems /\ Len(log) + Cardinality(Busy) < MaxLog

----------------------------------------------------------------------------
Init ==
    /\ workspaces = Legacy
    /\ items = <<>>
    /\ log = <<>>
    /\ calls = [c \in Clients |-> Idle]
    /\ late = [i \in 1..MaxItems |-> 0]
    /\ misled = [x \in Workspaces \cup Jobs |-> 0]

(***************************************************************************)
(* CreateWorkspace: the workspace and its root, in one transaction.        *)
(***************************************************************************)
CreateWorkspace(w) ==
    /\ w \in Workspaces \ workspaces
    /\ Insert(PlainItem(w, NoParent, "system", None))
    /\ workspaces' = workspaces \cup {w}
    /\ UNCHANGED <<log, calls, late, misled>>

(***************************************************************************)
(* CreateItem: one insert; the timestamp it then sets on the workspace's   *)
(* items is left out, its error is dropped.  An empty parent id is NULL.   *)
(***************************************************************************)
CreateItem(w, p) ==
    /\ w \in workspaces
    /\ Insert(PlainItem(w, p, "caller", None))
    /\ UNCHANGED <<workspaces, log, calls, late, misled>>

----------------------------------------------------------------------------
(* GetOrCreateTree *)

GetOrCreateTree(c, w) ==
    /\ At(c, "idle")
    /\ w \in workspaces
    /\ calls' = [calls EXCEPT ![c] = [Idle EXCEPT !.pc = "readRoot", !.ws = w]]
    /\ UNCHANGED <<workspaces, items, log, late, misled>>

RootFound(c) ==
    /\ At(c, "readRoot")
    /\ Roots(items, calls[c].ws) # {}
    /\ Return(c)
    /\ UNCHANGED <<workspaces, items, log, late, misled>>

\* Slip: the root just read is not looked at.
RootMissingAlways(c) ==
    /\ At(c, "readRoot")
    /\ Goto(c, "readWorkspace")
    /\ UNCHANGED <<workspaces, items, log, late, misled>>

RootMissing(c) ==
    /\ At(c, "readRoot")
    /\ Roots(items, calls[c].ws) = {}
    /\ Goto(c, "readWorkspace")
    /\ UNCHANGED <<workspaces, items, log, late, misled>>

\* Any error of the query is taken for a missing root.  The call may have used
\* the room it began with for a root of its own: there must be room for another.
RootQueryFails(c) ==
    /\ At(c, "readRoot")
    /\ misled[calls[c].ws] < MaxMisled[calls[c].ws]
    /\ Len(items) + Cardinality(Busy) <= MaxItems
    /\ misled' = [misled EXCEPT ![calls[c].ws] = @ + 1]
    /\ Goto(c, "readWorkspace")
    /\ UNCHANGED <<workspaces, items, log, late>>

WorkspaceFound(c) ==
    /\ At(c, "readWorkspace")
    /\ Goto(c, "insertRoot")
    /\ UNCHANGED <<workspaces, items, log, late, misled>>

\* Slip: the call inserts again instead of asking for the root again.
InsertRootForever(c) ==
    /\ At(c, "insertRoot")
    /\ Goto(c, "readWorkspace")
    /\ UNCHANGED <<workspaces, items, log, late, misled>>

\* The insert commits by itself; the call then starts again.
InsertRoot(c) ==
    /\ At(c, "insertRoot")
    /\ Insert(PlainItem(calls[c].ws, NoParent, "system", None))
    /\ Goto(c, "readRoot")
    /\ UNCHANGED <<workspaces, log, late, misled>>

----------------------------------------------------------------------------
(* CreateStructuredItemWithCapability *)

CreateStructuredItem(c, j, p, x) ==
    /\ At(c, "idle")
    /\ "create_item" \in Operations[j]
    /\ Home[j] \in workspaces
    /\ calls' = [calls EXCEPT ![c] =
           [Idle EXCEPT !.pc = IF Budget[j] > 0 THEN "count" ELSE "append",
                        !.ws = Home[j], !.job = j, !.parent = p, !.content = x]]
    /\ UNCHANGED <<workspaces, items, log, late, misled>>

\* Slip: a budget of n lets the n+1st item through.
MutationsOneShort(j) == Cardinality({k \in 1..Len(log) : log[k].job = j}) - 1

\* countJobMutations counts the job's revisions as well: their target is an item, too.
Mutations(j) == Cardinality({k \in 1..Len(log) : log[k].job = j})

WithinBudget(c) ==
    /\ At(c, "count")
    /\ Mutations(calls[c].job) < Budget[calls[c].job]
    /\ Goto(c, "append")
    /\ UNCHANGED <<workspaces, items, log, late, misled>>

\* A count that failed reads as 0 and passes.
CountFails(c) ==
    /\ At(c, "count")
    /\ misled[calls[c].job] < MaxMisled[calls[c].job]
    /\ misled' = [misled EXCEPT ![calls[c].job] = @ + 1]
    /\ Goto(c, "append")
    /\ UNCHANGED <<workspaces, items, log, late>>

BudgetExhausted(c) ==
    /\ At(c, "count")
    /\ Mutations(calls[c].job) >= Budget[calls[c].job]
    /\ Return(c)
    /\ UNCHANGED <<workspaces, items, log, late, misled>>

LogEntry(c, i, kind) ==
    [job |-> calls[c].job, item |-> i, kind |-> kind,
     before |-> calls[c].before, after |-> calls[c].content]

Logged(entry) ==
    /\ Len(log) < MaxLog
    /\ log' = Append(log, entry)

\* Slip: an insert that failed does not end the transaction.
AppendEntryOnly(c) ==
    /\ At(c, "append")
    /\ Logged(LogEntry(c, Len(items) + 1, "append"))
    /\ Return(c)
    /\ UNCHANGED <<workspaces, items, late, misled>>

\* One transaction: both rows become visible at its commit, and nobody waits for them.
AppendItem(c) ==
    /\ At(c, "append")
    /\ Insert(StructuredItem(calls[c].ws, calls[c].parent, calls[c].content, calls[c].job))
    /\ Logged(LogEntry(c, Len(items) + 1, "append"))
    /\ Return(c)
    /\ UNCHANGED <<workspaces, late, misled>>

----------------------------------------------------------------------------
(* UpdateItemSummaryHTMLWithCapability *)

UpdateItemSummary(c, j, i, x) ==
    /\ At(c, "idle")
    /\ "update_item" \in Operations[j]
    /\ calls' = [calls EXCEPT ![c] =
           [Idle EXCEPT !.pc = "readContext", !.ws = Home[j], !.job = j,
                        !.item = i, !.content = x]]
    /\ UNCHANGED <<workspaces, items, log, late, misled>>

\* Slip: only a locked item is refused.
MayReviseCurated(c) ==
    /\ items[calls[c].item].ws = calls[c].ws
    /\ items[calls[c].item].gov # "locked"

MayRevise(c) ==
    /\ items[calls[c].item].ws = calls[c].ws
    /\ ~Protected(items[calls[c].item].gov)

\* Slip: the audit row is given the new content for the old one.
ContextAllowsSwapped(c) ==
    /\ At(c, "readContext")
    /\ MayRevise(c)
    /\ calls' = [calls EXCEPT ![c].pc = "update", ![c].before = calls[c].content]
    /\ UNCHANGED <<workspaces, items, log, late, misled>>

ContextAllows(c) ==
    /\ At(c, "readContext")
    /\ MayRevise(c)
    /\ calls' = [calls EXCEPT ![c].pc = "update",
                              ![c].before = items[calls[c].item].content]
    /\ UNCHANGED <<workspaces, items, log, late, misled>>

ContextRefuses(c) ==
    /\ At(c, "readContext")
    /\ ~MayRevise(c)
    /\ Return(c)
    /\ UNCHANGED <<workspaces, items, log, late, misled>>

\* The row of an item is locked from a transaction's UPDATE to its end.
RowLocked(i) == \E c \in Clients : At(c, "commit") /\ calls[c].item = i

\* updateItemSummaryAndMutation asks neither for the governance state nor for the content.
UpdateItem(c) ==
    /\ At(c, "update")
    /\ ~RowLocked(calls[c].item)
    /\ Goto(c, "commit")
    /\ UNCHANGED <<workspaces, items, log, late, misled>>

\* Slip: the UPDATE asks that the content still be the one read before, and nobody
\* looks at the number of rows it changed.
CommitIfUnchanged(c) ==
    /\ At(c, "commit")
    /\ Logged(LogEntry(c, calls[c].item, "revise"))
    /\ LET fresh == items[calls[c].item].content = calls[c].before
       IN  /\ items' = IF fresh THEN [items EXCEPT ![calls[c].item].content = calls[c].content,
                                                  ![calls[c].item].job = calls[c].job]
                       ELSE items
           /\ late' = [late EXCEPT ![calls[c].item] =
                   IF fresh /\ Protected(items[calls[c].item].gov) THEN @ + 1 ELSE @]
    /\ Return(c)
    /\ UNCHANGED <<workspaces, misled>>

CommitUpdate(c) ==
    /\ At(c, "commit")
    /\ Logged(LogEntry(c, calls[c].item, "revise"))
    /\ items' = [items EXCEPT ![calls[c].item].content = calls[c].content,
                              ![calls[c].item].job = calls[c].job]
    /\ late' = [late EXCEPT ![calls[c].item] =
                    IF Protected(items[calls[c].item].gov) THEN @ + 1 ELSE @]
    /\ Return(c)
    /\ UNCHANGED <<workspaces, misled>>

----------------------------------------------------------------------------
\* A statement or a commit that reports an error, a cancelled context, a dead
\* process: the call is over and its transaction rolled back.
Fail(c) ==
    /\ ~At(c, "idle")
    /\ Return(c)
    /\ UNCHANGED <<workspaces, items, log, late, misled>>

\* An editor outside this repository protects an item or releases it.
Curate(i, g) ==
    /\ g # items[i].gov
    /\ ~RowLocked(i)
    /\ items' = [items EXCEPT ![i].gov = g]
    /\ late' = [late EXCEPT ![i] = IF Protected(g) /\ Protected(items[i].gov) THEN @ ELSE 0]
    /\ UNCHANGED <<workspaces, log, calls, misled>>

----------------------------------------------------------------------------
Step(c) ==
    \/ RootFound(c) \/ RootMissing(c) \/ RootQueryFails(c) \/ WorkspaceFound(c)
    \/ InsertRoot(c)
    \/ WithinBudget(c) \/ CountFails(c) \/ BudgetExhausted(c) \/ AppendItem(c)
    \/ ContextAllows(c) \/ ContextRefuses(c) \/ UpdateItem(c) \/ CommitUpdate(c)

Call(c) ==
    \/ \E w \in Workspaces : GetOrCreateTree(c, w)
    \/ \E j \in Jobs, p \in 0..Len(items) :
           \E x \in Writes[j] : CreateStructuredItem(c, j, p, x)
    \/ \E j \in Jobs, i \in 1..Len(items) :
           \E x \in Writes[j] : UpdateItemSummary(c, j, i, x)

Setup ==
    \/ \E w \in Workspaces : CreateWorkspace(w)
    \/ \E w \in Workspaces, p \in 0..Len(items) : CreateItem(w, p)

Next ==
    \/ Room /\ (Setup \/ \E c \in Clients : Call(c))
    \/ \E c \in Clients : Step(c) \/ Fail(c)
    \/ \E i \in 1..Len(items), g \in EditorStates : Curate(i, g)

Spec == Init /\ [][Next]_vars

(***************************************************************************)
(* A process inside a call goes on with it and the database answers; who   *)
(* waits for a row lock is served in turn.  Nothing makes a call begin.    *)
(***************************************************************************)
FairSpec == Spec /\ \A c \in Clients : WF_vars(Step(c)) /\ SF_vars(UpdateItem(c))

----------------------------------------------------------------------------
(* Properties *)

Ids == 0..MaxItems

ItemRow == [ws : Workspaces, parent : Ids, by : {"system", "caller"},
            content : Contents \cup {None}, gov : Governance, job : Jobs \cup {None}]

Entry == [job : Jobs, item : Ids, kind : {"append", "revise"},
          before : Contents \cup {None}, after : Contents]

CallRecord == [pc : Steps, ws : Workspaces \cup {None}, job : Jobs \cup {None},
               item : Ids, parent : Ids, content : Contents \cup {None},
               before : Contents \cup {None}]

\* What a call holds at each of its steps: who calls, for which item.
CallShape(c) ==
    /\ calls[c].item \in 0..Len(items) /\ calls[c].parent \in 0..Len(items)
    /\ calls[c].pc \in {"readRoot", "readWorkspace", "insertRoot"} =>
            calls[c].ws \in workspaces
    /\ calls[c].pc \in {"count", "append", "readContext", "update", "commit"} =>
            calls[c].job \in Jobs /\ calls[c].content \in Contents
    /\ calls[c].pc \in {"count", "append"} => calls[c].ws \in workspaces
    /\ calls[c].pc \in {"readContext", "update", "commit"} => calls[c].item > 0

\* Types of the tables and calls, parents that were there before their
\* children (so that every walk up ends).
TablesOK ==
    /\ workspaces \subseteq Workspaces
    /\ items \in Seq(ItemRow) /\ Len(items) <= MaxItems
    /\ \A i \in 1..Len(items) : items[i].ws \in workspaces /\ items[i].parent < i
    /\ log \in Seq(Entry)
    /\ \A k \in 1..Len(log) : log[k].item \in 1..Len(items)
    /\ calls \in [Clients -> CallRecord]
    /\ \A c \in Clients : CallShape(c)
    /\ late \in [1..MaxItems -> Nat]

\* The tables and calls are well typed, and so is the count of failed queries.
TypeOK ==
    /\ TablesOK
    /\ misled \in [Workspaces \cup Jobs -> Nat]
    /\ \A x \in Workspaces \cup Jobs : misled[x] <= MaxMisled[x]

(***************************************************************************)
(* Budgets.  The count of CreateStructuredItemWithCapability comes before  *)
(* its transaction: calls of one job that count at the same time all pass, *)
(* and so does a call whose count failed.  But no more than the clients at *)
(* hand overrun the budget by one each, less the one that fills it, and    *)
(* each failed count lets one more through; a job with one worker and a    *)
(* database that answers keeps its budget.                                 *)
(***************************************************************************)
Appended(j) == {k \in 1..Len(log) : log[k].job = j /\ log[k].kind = "append"}

BudgetBound ==
    \A j \in Jobs : Budget[j] > 0 =>
        Cardinality(Appended(j)) <= Budget[j] + Cardinality(Clients) - 1 + misled[j]

(***************************************************************************)
(* Roots.  A workspace made by CreateWorkspace never gets a second root    *)
(* from GetOrCreateTree as long as the root query answers; one that was    *)
(* there without a root gets at most one from each client whose first call *)
(* found none.  Each query that failed costs one root more.                *)
(***************************************************************************)
SystemRoots(w) == {i \in Roots(items, w) : items[i].by = "system"}

RootsAllowed(w) == (IF w \in Legacy THEN Cardinality(Clients) ELSE 1) + misled[w]

RootsBound == \A w \in workspaces : Cardinality(SystemRoots(w)) <= RootsAllowed(w)

\* GetOrCreateTree's comment: "1 workspace = 1 tree. If there is a root item, return it."
OneTree == \A w \in workspaces : Cardinality(SystemRoots(w)) <= 1

(***************************************************************************)
(* Governance.  UpdateItemSummaryHTMLWithCapability asks for the state     *)
(* before its transaction, so a revision under way still overwrites an     *)
(* item an editor has protected since; but each client at most once.       *)
(***************************************************************************)
LateBound == \A i \in 1..Len(items) : late[i] <= Cardinality(Clients)

(***************************************************************************)
(* Audit.  The last audit row of an item tells its content and the job     *)
(* behind it, whatever calls overlapped or failed; an item without one     *)
(* was never touched by a job.                                             *)
(***************************************************************************)
EntriesOf(i) == {k \in 1..Len(log) : log[k].item = i}

AuditTail ==
    \A i \in 1..Len(items) :
        /\ EntriesOf(i) = {} => items[i].job = None /\ items[i].content = None
        /\ \A k \in EntriesOf(i) :
               (\A l \in EntriesOf(i) : l <= k) =>
                   items[i].job = log[k].job /\ items[i].content = log[k].after

(***************************************************************************)
(* What an audit row gives as the content before is what some earlier row  *)
(* of the item left there (or nothing, for an item made by hand): perhaps  *)
(* not the last one, but never a content nobody committed.                 *)
(***************************************************************************)
BeforeWasContent ==
    \A k \in 1..Len(log) :
        \/ log[k].before = None
        \/ \E l \in EntriesOf(log[k].item) : l < k /\ log[l].after = log[k].before

(***************************************************************************)
(* Paths.  FindPaths finds a path exactly when the target is an ancestor   *)
(* of the source within the workspace, and that path climbs parent by      *)
(* parent, whichever parents the callers of CreateItem have named.         *)
(***************************************************************************)
PathsAreAncestors ==
    \A w \in workspaces : \A s, t \in ItemsOf(items, w) :
        /\ FindPaths(items, w, s, t) = {} <=> t \notin Ancestors(items, w, s)
        /\ \A p \in FindPaths(items, w, s, t) : IsPath(items, s, t, p)

\* A call, once begun, comes back: GetOrCreateTree's recursion ends and no
\* revision waits for a row for ever.
CallsReturn == \A c \in Clients : ~At(c, "idle") ~> At(c, "idle")
=============================================================================

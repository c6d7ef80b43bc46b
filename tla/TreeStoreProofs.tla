-------------------------- MODULE TreeStoreProofs --------------------------
(***************************************************************************)
(* The tree store for every number of clients, jobs, workspaces and items: *)
(* its types, and how far calls that read before their transaction can     *)
(* overrun a budget, a protection and the one root of a workspace.  Each   *)
(* of the three bounds counts what is done together with the calls that    *)
(* have passed the check and not yet acted.                                *)
(***************************************************************************)
EXTENDS TreeStore, FiniteSetTheorems, WellFoundedInduction, TLAPS

USE WorkspacesAssumption, NoneAssumption, ClientsAssumption, CapabilityAssumption,
    EditorAssumption, BoundsAssumption

----------------------------------------------------------------------------
(* Types *)

\* What a job comes up with is a content.
LEMMA WritesAreContents == \A j \in Jobs : Writes[j] \subseteq Contents
  BY WritesAssumption

\* The rows the inserts write are rows of the table.
LEMMA RowTypes ==
    /\ \A w \in Workspaces, p \in Ids, by \in {"system", "caller"} :
            PlainItem(w, p, by, None) \in ItemRow
    /\ \A w \in Workspaces, p \in Ids, x \in Contents, j \in Jobs :
            StructuredItem(w, p, x, j) \in ItemRow
  BY DEF PlainItem, StructuredItem, ItemRow, Governance

\* A client outside any call has a well-typed record that asks for nothing.
LEMMA IdleType ==
    /\ Idle \in CallRecord
    /\ Idle.pc = "idle" /\ Idle.item = 0 /\ Idle.parent = 0
  BY DEF Idle, CallRecord, Steps, Ids, NoParent

\* The empty tables are well typed.
LEMMA InitTables == Init => TablesOK
  <1> SUFFICES ASSUME Init PROVE TablesOK
    OBVIOUS
  <1>1. items \in Seq(ItemRow) /\ Len(items) = 0 /\ log \in Seq(Entry) /\ Len(log) = 0
    BY DEF Init
  <1>2. calls \in [Clients -> CallRecord] /\ \A c \in Clients : CallShape(c)
    BY IdleType, <1>1 DEF Init, CallShape
  <1>3. late \in [1..MaxItems -> Nat] /\ workspaces \subseteq Workspaces
    BY DEF Init
  <1> QED BY <1>1, <1>2, <1>3 DEF TablesOK

\* An insert of a well-typed row under an earlier parent keeps the table's part of the types.
LEMMA InsertKeepsTable ==
  ASSUME TablesOK, NEW row \in ItemRow, row.parent \in 0..Len(items),
         row.ws \in workspaces', Insert(row), workspaces \subseteq workspaces'
  PROVE  /\ items' \in Seq(ItemRow) /\ Len(items') <= MaxItems /\ Len(items') = Len(items) + 1
         /\ \A i \in 1..Len(items') : items'[i].ws \in workspaces' /\ items'[i].parent < i
         /\ \A i \in 1..Len(items) : items'[i] = items[i]
         /\ items'[Len(items) + 1] = row
  <1>1. items \in Seq(ItemRow) /\ Len(items) \in Nat /\ Len(items) < MaxItems
        /\ items' = Append(items, row)
    BY DEF TablesOK, Insert
  <1>2. /\ items' \in Seq(ItemRow) /\ Len(items') = Len(items) + 1
        /\ \A i \in 1..Len(items) : items'[i] = items[i]
        /\ items'[Len(items) + 1] = row
    BY <1>1
  <1>3. ASSUME NEW i \in 1..Len(items')
        PROVE  items'[i].ws \in workspaces' /\ items'[i].parent < i
    <2>1. CASE i \in 1..Len(items)
      BY <1>2, <2>1 DEF TablesOK
    <2>2. CASE i = Len(items) + 1
      BY <1>1, <1>2, <2>2
    <2> QED BY <1>1, <1>2, <1>3, <2>1, <2>2
  <1> QED BY <1>1, <1>2, <1>3

\* When one client's record is replaced by a well-shaped one and the tables only
\* grow, the calls' part of the types is kept.
LEMMA CallsStayTyped ==
  ASSUME TablesOK, NEW c \in Clients, NEW r \in CallRecord,
         calls' = [calls EXCEPT ![c] = r],
         workspaces \subseteq workspaces', Len(items') \in Nat, Len(items) <= Len(items'),
         CallShape(c)'
  PROVE  calls' \in [Clients -> CallRecord] /\ \A d \in Clients : CallShape(d)'
  <1>1. calls' \in [Clients -> CallRecord]
    BY DEF TablesOK
  <1>2. ASSUME NEW d \in Clients, d # c PROVE CallShape(d)'
    BY <1>2 DEF TablesOK, CallShape
  <1> QED BY <1>1, <1>2

\* A call that returns leaves well-typed calls behind.
LEMMA ReturnStaysTyped ==
  ASSUME TablesOK, NEW c \in Clients, Return(c),
         workspaces \subseteq workspaces', Len(items') \in Nat, Len(items) <= Len(items')
  PROVE  calls' \in [Clients -> CallRecord] /\ \A d \in Clients : CallShape(d)'
  <1>1. calls'[c] = Idle /\ calls' = [calls EXCEPT ![c] = Idle]
    BY DEF Return, TablesOK
  <1>2. CallShape(c)'
    BY <1>1, IdleType DEF CallShape
  <1> QED BY <1>1, <1>2, IdleType, CallsStayTyped

\* A client that begins a call or goes on to its next step without touching a
\* table keeps the types if its new record is well shaped.
LEMMA QuietStepKeepsTables ==
  ASSUME TablesOK, NEW c \in Clients, NEW r \in CallRecord,
         calls' = [calls EXCEPT ![c] = r],
         UNCHANGED <<workspaces, items, log, late>>, CallShape(c)'
  PROVE  TablesOK'
  <1>1. Len(items') \in Nat /\ Len(items) <= Len(items')
    BY DEF TablesOK
  <1>2. calls' \in [Clients -> CallRecord] /\ \A d \in Clients : CallShape(d)'
    BY <1>1, CallsStayTyped
  <1> QED BY <1>2 DEF TablesOK

\* A call that starts keeps the types: its record is well shaped.
LEMMA CallKeepsTables == ASSUME TablesOK, NEW c \in Clients, Call(c) PROVE TablesOK'
  <1>0. Len(items) \in Nat /\ Len(items) <= MaxItems /\ workspaces \subseteq Workspaces
        /\ calls \in [Clients -> CallRecord]
    BY DEF TablesOK
  <1>1. ASSUME NEW w \in Workspaces, GetOrCreateTree(c, w) PROVE TablesOK'
    <2> DEFINE r == [Idle EXCEPT !.pc = "readRoot", !.ws = w]
    <2>1. w \in workspaces
          /\ calls' = [calls EXCEPT ![c] = r] /\ UNCHANGED <<workspaces, items, log, late>>
      BY <1>0, <1>1 DEF GetOrCreateTree
    <2>2. r \in CallRecord
      BY IdleType DEF CallRecord, Steps
    <2>3. CallShape(c)'
      BY <1>0, <2>1 DEF CallShape, Idle, NoParent
    <2> QED BY <2>1, <2>2, <2>3, QuietStepKeepsTables
  <1>2. ASSUME NEW j \in Jobs, NEW x \in Contents, NEW p \in 0..Len(items),
               CreateStructuredItem(c, j, p, x)
        PROVE  TablesOK'
    <2> DEFINE r == [Idle EXCEPT !.pc = IF Budget[j] > 0 THEN "count" ELSE "append",
                                 !.ws = Home[j], !.job = j, !.parent = p, !.content = x]
    <2>1. Home[j] \in workspaces
          /\ calls' = [calls EXCEPT ![c] = r] /\ UNCHANGED <<workspaces, items, log, late>>
      BY <1>0, <1>2 DEF CreateStructuredItem
    <2>2. r \in CallRecord
      <3>1. Home[j] \in Workspaces /\ p \in Ids
        BY <1>0 DEF Ids
      <3>2. (IF Budget[j] > 0 THEN "count" ELSE "append") \in Steps
        BY DEF Steps
      <3> QED BY <3>1, <3>2, IdleType DEF CallRecord
    <2>3. CallShape(c)'
      BY <1>0, <2>1 DEF CallShape, Idle, NoParent
    <2> QED BY <2>1, <2>2, <2>3, QuietStepKeepsTables
  <1>3. ASSUME NEW j \in Jobs, NEW x \in Contents, NEW i \in 1..Len(items),
               UpdateItemSummary(c, j, i, x)
        PROVE  TablesOK'
    <2> DEFINE r == [Idle EXCEPT !.pc = "readContext", !.ws = Home[j], !.job = j,
                                 !.item = i, !.content = x]
    <2>1. calls' = [calls EXCEPT ![c] = r] /\ UNCHANGED <<workspaces, items, log, late>>
      BY <1>0, <1>3 DEF UpdateItemSummary
    <2>2. r \in CallRecord
      <3>1. Home[j] \in Workspaces /\ i \in Ids /\ "readContext" \in Steps
        BY <1>0 DEF Ids, Steps
      <3> QED BY <3>1, IdleType DEF CallRecord
    <2>3. CallShape(c)'
      BY <1>0, <2>1 DEF CallShape, Idle, NoParent
    <2> QED BY <2>1, <2>2, <2>3, QuietStepKeepsTables
  <1> QED BY <1>1, <1>2, <1>3, WritesAreContents DEF Call

\* A statement that only moves its call on, or ends it, keeps the types.
LEMMA QuietKeepsTables ==
  ASSUME TablesOK, NEW c \in Clients,
         \/ RootFound(c) \/ RootMissing(c) \/ WorkspaceFound(c)
         \/ WithinBudget(c) \/ BudgetExhausted(c)
         \/ RootQueryFails(c) \/ CountFails(c)
         \/ ContextAllows(c) \/ ContextRefuses(c) \/ UpdateItem(c) \/ Fail(c)
  PROVE  TablesOK'
  <1>0. /\ Len(items) \in Nat /\ calls \in [Clients -> CallRecord] /\ CallShape(c)
        /\ calls[c] \in CallRecord
    BY DEF TablesOK
  <1>1. CASE RootFound(c) \/ BudgetExhausted(c) \/ ContextRefuses(c) \/ Fail(c)
    <2>1. Return(c) /\ UNCHANGED <<workspaces, items, log, late>>
      BY <1>1 DEF RootFound, BudgetExhausted, ContextRefuses, Fail
    <2>2. calls' \in [Clients -> CallRecord] /\ \A d \in Clients : CallShape(d)'
      BY <1>0, <2>1, ReturnStaysTyped
    <2> QED BY <2>1, <2>2 DEF TablesOK
  <1>2. ASSUME NEW pc \in Steps, Goto(c, pc), UNCHANGED <<workspaces, items, log, late>>,
               CallShape(c)'
        PROVE  TablesOK'
    <2>1. calls' = [calls EXCEPT ![c] = [calls[c] EXCEPT !.pc = pc]]
      BY <1>0, <1>2 DEF Goto
    <2>2. [calls[c] EXCEPT !.pc = pc] \in CallRecord
      BY <1>0 DEF CallRecord
    <2> QED BY <1>2, <2>1, <2>2, QuietStepKeepsTables
  <1>3. CASE \/ RootMissing(c) \/ RootQueryFails(c) \/ WorkspaceFound(c)
             \/ WithinBudget(c) \/ CountFails(c) \/ UpdateItem(c)
    <2>1. PICK pc \in {"readWorkspace", "insertRoot", "append", "commit"} :
              /\ Goto(c, pc) /\ UNCHANGED <<workspaces, items, log, late>>
              /\ pc = "readWorkspace" => At(c, "readRoot")
              /\ pc = "insertRoot" => At(c, "readWorkspace")
              /\ pc = "append" => At(c, "count")
              /\ pc = "commit" => At(c, "update")
      BY <1>3 DEF RootMissing, RootQueryFails, WorkspaceFound, WithinBudget, CountFails,
                  UpdateItem
    <2>2. CallShape(c)'
      BY <1>0, <2>1 DEF CallShape, Goto, At, CallRecord
    <2> QED BY <1>2, <2>1, <2>2 DEF Steps
  <1>4. CASE ContextAllows(c)
    <2> DEFINE r == [calls[c] EXCEPT !.pc = "update",
                                     !.before = items[calls[c].item].content]
    <2>1. calls' = [calls EXCEPT ![c] = r] /\ UNCHANGED <<workspaces, items, log, late>>
      BY <1>0, <1>4 DEF ContextAllows
    <2>2. At(c, "readContext") /\ calls[c].item \in 1..Len(items)
      BY <1>0, <1>4 DEF ContextAllows, At, CallShape
    <2>3. items[calls[c].item].content \in Contents \cup {None}
      <3>1. items[calls[c].item] \in ItemRow
        BY <2>2 DEF TablesOK
      <3> QED BY <3>1 DEF ItemRow
    <2>4. r \in CallRecord
      BY <1>0, <2>3 DEF CallRecord, Steps
    <2>5. CallShape(c)'
      BY <1>0, <2>1, <2>2, <2>4 DEF CallShape, At, CallRecord
    <2> QED BY <2>1, <2>4, <2>5, QuietStepKeepsTables
  <1> QED BY <1>1, <1>3, <1>4

\* A root made by GetOrCreateTree keeps the types.
LEMMA InsertRootKeepsTables ==
  ASSUME TablesOK, NEW c \in Clients, InsertRoot(c) PROVE TablesOK'
  <1> DEFINE row == PlainItem(calls[c].ws, NoParent, "system", None)
  <1>1. /\ calls[c].ws \in workspaces /\ calls[c] \in CallRecord /\ CallShape(c)
        /\ Len(items) \in Nat /\ calls \in [Clients -> CallRecord]
    BY DEF TablesOK, CallShape, InsertRoot, At
  <1>2. row \in ItemRow /\ row.parent = 0 /\ row.ws = calls[c].ws
    <2>1. calls[c].ws \in Workspaces /\ NoParent \in Ids
      BY <1>1 DEF TablesOK, NoParent, Ids
    <2>2. row \in ItemRow
      BY <2>1, RowTypes
    <2> QED BY <2>2 DEF PlainItem, NoParent
  <1>3. Insert(row) /\ workspaces' = workspaces /\ UNCHANGED <<log, late>>
        /\ calls' = [calls EXCEPT ![c] = [calls[c] EXCEPT !.pc = "readRoot"]]
    BY <1>1 DEF InsertRoot, Goto
  <1>4. /\ items' \in Seq(ItemRow) /\ Len(items') <= MaxItems /\ Len(items') = Len(items) + 1
        /\ \A i \in 1..Len(items') : items'[i].ws \in workspaces' /\ items'[i].parent < i
    BY <1>1, <1>2, <1>3, InsertKeepsTable
  <1>5. [calls[c] EXCEPT !.pc = "readRoot"] \in CallRecord
    BY <1>1 DEF CallRecord, Steps
  <1>6. CallShape(c)'
    BY <1>1, <1>3, <1>4 DEF CallShape, CallRecord
  <1>7. calls' \in [Clients -> CallRecord] /\ \A d \in Clients : CallShape(d)'
    <2> DEFINE r == [calls[c] EXCEPT !.pc = "readRoot"]
    <2>1. r \in CallRecord /\ calls' = [calls EXCEPT ![c] = r]
      BY <1>3, <1>5
    <2>2. Len(items') \in Nat /\ Len(items) <= Len(items') /\ workspaces \subseteq workspaces'
      BY <1>1, <1>3, <1>4
    <2> HIDE DEF r
    <2> QED BY <1>6, <2>1, <2>2, CallsStayTyped
  <1>8. \A k \in 1..Len(log) : log[k].item \in 1..Len(items')
    BY <1>1, <1>4 DEF TablesOK
  <1> QED BY <1>3, <1>4, <1>7, <1>8 DEF TablesOK

\* A workspace with its root, or an item somebody adds, keeps the types.
LEMMA SetupKeepsTables == ASSUME TablesOK, Setup PROVE TablesOK'
  <1>0. Len(items) \in Nat /\ Len(items) <= MaxItems /\ workspaces \subseteq Workspaces
    BY DEF TablesOK
  <1>1. ASSUME NEW w \in Workspaces, NEW p \in 0..Len(items), NEW by \in {"system", "caller"},
               Insert(PlainItem(w, p, by, None)), w \in workspaces',
               workspaces \subseteq workspaces', workspaces' \subseteq Workspaces,
               UNCHANGED <<log, calls, late>>
        PROVE  TablesOK'
    <2> DEFINE row == PlainItem(w, p, by, None)
    <2>1. row \in ItemRow /\ row.parent = p /\ row.ws = w
      <3>1. p \in Ids
        BY <1>0 DEF Ids
      <3>2. row \in ItemRow
        BY <3>1, RowTypes
      <3> QED BY <3>2 DEF PlainItem
    <2>2. /\ items' \in Seq(ItemRow) /\ Len(items') <= MaxItems /\ Len(items') = Len(items) + 1
          /\ \A i \in 1..Len(items') : items'[i].ws \in workspaces' /\ items'[i].parent < i
      BY <1>1, <2>1, InsertKeepsTable
    <2>3. \A c \in Clients : CallShape(c)'
      BY <1>0, <1>1, <2>2 DEF TablesOK, CallShape
    <2>4. \A k \in 1..Len(log) : log[k].item \in 1..Len(items')
      BY <1>0, <2>2 DEF TablesOK
    <2> QED BY <1>1, <2>2, <2>3, <2>4 DEF TablesOK
  <1>2. ASSUME NEW w \in Workspaces, CreateWorkspace(w) PROVE TablesOK'
    <2>1. 0 \in 0..Len(items)
      BY <1>0
    <2> QED BY <1>0, <1>1, <1>2, <2>1 DEF CreateWorkspace, NoParent
  <1>3. ASSUME NEW w \in Workspaces, NEW p \in 0..Len(items), CreateItem(w, p) PROVE TablesOK'
    BY <1>0, <1>1, <1>3 DEF CreateItem
  <1> QED BY <1>2, <1>3 DEF Setup

\* An item made by a job, with its audit row, keeps the types.
LEMMA AppendItemKeepsTables ==
  ASSUME TablesOK, NEW c \in Clients, AppendItem(c) PROVE TablesOK'
  <1> DEFINE row == StructuredItem(calls[c].ws, calls[c].parent, calls[c].content, calls[c].job)
             entry == LogEntry(c, Len(items) + 1, "append")
  <1>1. /\ calls[c].ws \in workspaces /\ calls[c] \in CallRecord /\ calls[c].job \in Jobs
        /\ calls[c].content \in Contents /\ calls[c].parent \in 0..Len(items)
        /\ Len(items) \in Nat /\ workspaces \subseteq Workspaces
    BY DEF TablesOK, CallShape, AppendItem, At
  <1>2. Insert(row) /\ Logged(entry) /\ Return(c) /\ workspaces' = workspaces /\ late' = late
        /\ Len(items) < MaxItems
    BY DEF AppendItem, Insert
  <1>3. row \in ItemRow /\ row.parent = calls[c].parent /\ row.ws = calls[c].ws
    <2>1. calls[c].ws \in Workspaces /\ calls[c].parent \in Ids
      BY <1>1, <1>2 DEF Ids
    <2>2. row \in ItemRow
      BY <1>1, <2>1, RowTypes
    <2> QED BY <2>2 DEF StructuredItem
  <1>4. entry \in Entry /\ entry.item = Len(items) + 1
    BY <1>1, <1>2 DEF LogEntry, Entry, Ids, CallRecord
  <1>5. /\ items' \in Seq(ItemRow) /\ Len(items') <= MaxItems /\ Len(items') = Len(items) + 1
        /\ \A i \in 1..Len(items') : items'[i].ws \in workspaces' /\ items'[i].parent < i
    BY <1>1, <1>2, <1>3, InsertKeepsTable
  <1>6. log' \in Seq(Entry) /\ \A k \in 1..Len(log') : log'[k].item \in 1..Len(items')
    <2>1. log \in Seq(Entry) /\ log' = Append(log, entry)
      BY <1>2 DEF TablesOK, Logged
    <2>2. /\ log' \in Seq(Entry) /\ Len(log') = Len(log) + 1 /\ log'[Len(log) + 1] = entry
          /\ \A k \in 1..Len(log) : log'[k] = log[k]
      BY <1>4, <2>1
    <2>3. ASSUME NEW k \in 1..Len(log') PROVE log'[k].item \in 1..Len(items')
      <3>1. CASE k \in 1..Len(log)
        <4>1. log[k].item \in 1..Len(items) /\ log'[k] = log[k]
          BY <2>2, <3>1 DEF TablesOK
        <4> QED BY <1>1, <1>5, <4>1
      <3>2. CASE k = Len(log) + 1
        BY <1>1, <1>4, <1>5, <2>2, <3>2
      <3>3. Len(log) \in Nat
        BY <2>1
      <3> QED BY <2>2, <2>3, <3>1, <3>2, <3>3
    <2> QED BY <2>2, <2>3
  <1>7. calls' \in [Clients -> CallRecord] /\ \A d \in Clients : CallShape(d)'
    BY <1>1, <1>2, <1>5, ReturnStaysTyped
  <1> QED BY <1>1, <1>2, <1>5, <1>6, <1>7 DEF TablesOK

\* Replacing a row by one of the same workspace and parent keeps the table's part of the types.
LEMMA RewriteKeepsTable ==
  ASSUME TablesOK, NEW i \in 1..Len(items), NEW row \in ItemRow,
         row.ws = items[i].ws, row.parent = items[i].parent,
         items' = [items EXCEPT ![i] = row], workspaces' = workspaces
  PROVE  /\ items' \in Seq(ItemRow) /\ Len(items') = Len(items)
         /\ \A k \in 1..Len(items') : items'[k].ws \in workspaces' /\ items'[k].parent < k
         /\ items'[i] = row
         /\ \A k \in 1..Len(items) : k # i => items'[k] = items[k]
  <1>1. items \in Seq(ItemRow)
    BY DEF TablesOK
  <1>2. /\ items' \in Seq(ItemRow) /\ Len(items') = Len(items)
        /\ items'[i] = row /\ \A k \in 1..Len(items) : k # i => items'[k] = items[k]
    BY <1>1
  <1> QED BY <1>2 DEF TablesOK

\* Which row a commit or an editor writes.
Revised(c) == [items[calls[c].item] EXCEPT !.content = calls[c].content, !.job = calls[c].job]
Curated(i, g) == [items[i] EXCEPT !.gov = g]

\* What CommitUpdate finds and does, with its row named.
LEMMA CommitFacts ==
  ASSUME TablesOK, NEW c \in Clients, CommitUpdate(c)
  PROVE  /\ calls[c].item \in 1..Len(items) /\ calls[c].job \in Jobs
         /\ calls[c].content \in Contents /\ calls[c] \in CallRecord
         /\ Revised(c) \in ItemRow
         /\ items[calls[c].item] \in ItemRow
         /\ Revised(c).ws = items[calls[c].item].ws
         /\ Revised(c).parent = items[calls[c].item].parent
         /\ Revised(c).by = items[calls[c].item].by
         /\ Revised(c).gov = items[calls[c].item].gov
         /\ Revised(c).content = calls[c].content /\ Revised(c).job = calls[c].job
         /\ items' = [items EXCEPT ![calls[c].item] = Revised(c)]
         /\ log' = Append(log, LogEntry(c, calls[c].item, "revise"))
         /\ LogEntry(c, calls[c].item, "revise") \in Entry
         /\ Return(c) /\ workspaces' = workspaces
  <1>1. /\ calls[c].item \in 1..Len(items) /\ calls[c].job \in Jobs
        /\ calls[c].content \in Contents /\ calls[c] \in CallRecord
        /\ Len(items) \in Nat /\ Len(items) <= MaxItems
    BY DEF TablesOK, CallShape, CommitUpdate, At
  <1>2. items[calls[c].item] \in ItemRow /\ items \in Seq(ItemRow)
    BY <1>1 DEF TablesOK
  <1>3. /\ Revised(c) \in ItemRow
        /\ Revised(c).ws = items[calls[c].item].ws
        /\ Revised(c).parent = items[calls[c].item].parent
        /\ Revised(c).by = items[calls[c].item].by
        /\ Revised(c).gov = items[calls[c].item].gov
        /\ Revised(c).content = calls[c].content /\ Revised(c).job = calls[c].job
    BY <1>1, <1>2 DEF Revised, ItemRow
  <1>4. items' = [items EXCEPT ![calls[c].item] = Revised(c)]
    BY <1>1, <1>2 DEF CommitUpdate, Revised, ItemRow
  <1>5. LogEntry(c, calls[c].item, "revise") \in Entry
    BY <1>1 DEF LogEntry, Entry, CallRecord, Ids
  <1> QED BY <1>1, <1>2, <1>3, <1>4, <1>5 DEF CommitUpdate, Logged

\* A committed revision, with its audit row, keeps the types.
LEMMA CommitKeepsTables ==
  ASSUME TablesOK, NEW c \in Clients, CommitUpdate(c) PROVE TablesOK'
  <1> DEFINE entry == LogEntry(c, calls[c].item, "revise")
  <1>1. /\ items' \in Seq(ItemRow) /\ Len(items') = Len(items)
        /\ \A k \in 1..Len(items') : items'[k].ws \in workspaces' /\ items'[k].parent < k
    BY CommitFacts, RewriteKeepsTable
  <1>2. log' \in Seq(Entry) /\ \A k \in 1..Len(log') : log'[k].item \in 1..Len(items')
    <2>1. log \in Seq(Entry) /\ \A k \in 1..Len(log) : log[k].item \in 1..Len(items)
      BY DEF TablesOK
    <2>2. entry \in Entry /\ entry.item \in 1..Len(items) /\ log' = Append(log, entry)
      BY CommitFacts DEF LogEntry
    <2> HIDE DEF entry
    <2>3. /\ log' \in Seq(Entry) /\ Len(log') = Len(log) + 1 /\ log'[Len(log) + 1] = entry
          /\ \A k \in 1..Len(log) : log'[k] = log[k]
      BY <2>1, <2>2
    <2>4. Len(log) \in Nat
      BY <2>1
    <2> QED BY <1>1, <2>1, <2>2, <2>3, <2>4
  <1>3. calls' \in [Clients -> CallRecord] /\ \A d \in Clients : CallShape(d)'
    <2>1. Return(c) /\ workspaces' = workspaces /\ Len(items') \in Nat /\ Len(items) <= Len(items')
      BY <1>1, CommitFacts DEF TablesOK
    <2> QED BY <2>1, ReturnStaysTyped
  <1>4. late' \in [1..MaxItems -> Nat]
    <2>1. late \in [1..MaxItems -> Nat] /\ calls[c].item \in 1..MaxItems
      BY CommitFacts DEF TablesOK
    <2>2. late[calls[c].item] \in Nat
      BY <2>1
    <2> QED BY <2>1, <2>2 DEF CommitUpdate
  <1>5. workspaces' = workspaces /\ workspaces \subseteq Workspaces /\ Len(items) <= MaxItems
    BY CommitFacts DEF TablesOK
  <1> QED BY <1>1, <1>2, <1>3, <1>4, <1>5 DEF TablesOK

\* What an editor's change does, with its row named.
LEMMA CurateFacts ==
  ASSUME TablesOK, NEW i \in 1..Len(items), NEW g \in EditorStates, Curate(i, g)
  PROVE  /\ items[i] \in ItemRow /\ Curated(i, g) \in ItemRow
         /\ Curated(i, g).ws = items[i].ws /\ Curated(i, g).parent = items[i].parent
         /\ Curated(i, g).by = items[i].by /\ Curated(i, g).gov = g
         /\ Curated(i, g).content = items[i].content /\ Curated(i, g).job = items[i].job
         /\ items' = [items EXCEPT ![i] = Curated(i, g)]
         /\ UNCHANGED <<workspaces, log, calls>>
  <1>1. items[i] \in ItemRow /\ items \in Seq(ItemRow) /\ g \in Governance
    BY DEF TablesOK
  <1>2. /\ Curated(i, g) \in ItemRow
        /\ Curated(i, g).ws = items[i].ws /\ Curated(i, g).parent = items[i].parent
        /\ Curated(i, g).by = items[i].by /\ Curated(i, g).gov = g
        /\ Curated(i, g).content = items[i].content /\ Curated(i, g).job = items[i].job
    BY <1>1 DEF Curated, ItemRow
  <1>3. items' = [items EXCEPT ![i] = Curated(i, g)]
    BY <1>1 DEF Curate, Curated
  <1> QED BY <1>1, <1>2, <1>3 DEF Curate

\* An editor's change keeps the types.
LEMMA CurateKeepsTables ==
  ASSUME TablesOK, NEW i \in 1..Len(items), NEW g \in EditorStates, Curate(i, g) PROVE TablesOK'
  <1>1. /\ items' \in Seq(ItemRow) /\ Len(items') = Len(items)
        /\ \A k \in 1..Len(items') : items'[k].ws \in workspaces' /\ items'[k].parent < k
    BY CurateFacts, RewriteKeepsTable
  <1>2. UNCHANGED <<workspaces, log, calls>>
    BY CurateFacts
  <1>3. late' \in [1..MaxItems -> Nat]
    <2>1. late \in [1..MaxItems -> Nat] /\ i \in 1..MaxItems
      BY DEF TablesOK
    <2>2. late[i] \in Nat
      BY <2>1
    <2> QED BY <2>1, <2>2 DEF Curate
  <1>4. \A c \in Clients : CallShape(c)'
    BY <1>1, <1>2 DEF TablesOK, CallShape
  <1> QED BY <1>1, <1>2, <1>3, <1>4 DEF TablesOK

\* Every step, and a stuttering one, keeps the types.
LEMMA NextKeepsTables == TablesOK /\ [Next]_vars => TablesOK'
  <1> SUFFICES ASSUME TablesOK, [Next]_vars PROVE TablesOK'
    OBVIOUS
  <1>1. CASE Setup
    BY <1>1, SetupKeepsTables
  <1>2. ASSUME NEW c \in Clients, Call(c) PROVE TablesOK'
    BY <1>2, CallKeepsTables
  <1>3. ASSUME NEW c \in Clients, Step(c) \/ Fail(c) PROVE TablesOK'
    BY <1>3, QuietKeepsTables, InsertRootKeepsTables, AppendItemKeepsTables, CommitKeepsTables
       DEF Step
  <1>4. ASSUME NEW i \in 1..Len(items), NEW g \in EditorStates, Curate(i, g) PROVE TablesOK'
    BY <1>4, CurateKeepsTables
  <1>5. CASE UNCHANGED vars
    BY <1>5 DEF vars, TablesOK, CallShape
  <1> QED BY <1>1, <1>2, <1>3, <1>4, <1>5 DEF Next

\* Only a query that fails is counted, under the workspace or job it is about.
LEMMA MisledGrows ==
  ASSUME TypeOK, [Next]_vars
  PROVE  /\ misled' \in [Workspaces \cup Jobs -> Nat]
         /\ \A x \in Workspaces \cup Jobs : misled'[x] <= MaxMisled[x]
         /\ \A x \in Workspaces \cup Jobs : misled[x] \in Nat /\ misled[x] <= misled'[x]
         /\ \A c \in Clients : RootQueryFails(c) =>
                /\ calls[c].ws \in Workspaces
                /\ misled'[calls[c].ws] = misled[calls[c].ws] + 1
         /\ \A c \in Clients : CountFails(c) =>
                /\ calls[c].job \in Jobs
                /\ misled'[calls[c].job] = misled[calls[c].job] + 1
  <1>0. /\ misled \in [Workspaces \cup Jobs -> Nat]
        /\ MaxMisled \in [Workspaces \cup Jobs -> Nat]
        /\ \A x \in Workspaces \cup Jobs : misled[x] <= MaxMisled[x]
    BY FailuresAssumption DEF TypeOK
  <1>1. \A c \in Clients : RootQueryFails(c) => calls[c].ws \in Workspaces
    BY DEF TypeOK, TablesOK, CallShape, RootQueryFails, At
  <1>2. \A c \in Clients : CountFails(c) => calls[c].job \in Jobs
    BY DEF TypeOK, TablesOK, CallShape, CountFails, At
  <1>3. ASSUME NEW x \in Workspaces \cup Jobs, misled[x] < MaxMisled[x],
               misled' = [misled EXCEPT ![x] = misled[x] + 1]
        PROVE  /\ misled' \in [Workspaces \cup Jobs -> Nat]
               /\ \A y \in Workspaces \cup Jobs : misled'[y] <= MaxMisled[y]
               /\ \A y \in Workspaces \cup Jobs : misled[y] \in Nat /\ misled[y] <= misled'[y]
               /\ misled'[x] = misled[x] + 1
    <2>1. misled[x] + 1 \in Nat /\ misled[x] + 1 <= MaxMisled[x]
      BY <1>0, <1>3
    <2> QED BY <1>0, <1>3, <2>1
  <1>4. ASSUME NEW c \in Clients, RootQueryFails(c)
        PROVE  /\ calls[c].ws \in Workspaces /\ misled[calls[c].ws] < MaxMisled[calls[c].ws]
               /\ misled' = [misled EXCEPT ![calls[c].ws] = misled[calls[c].ws] + 1]
    BY <1>1, <1>4 DEF RootQueryFails
  <1>5. ASSUME NEW c \in Clients, CountFails(c)
        PROVE  /\ calls[c].job \in Jobs /\ misled[calls[c].job] < MaxMisled[calls[c].job]
               /\ misled' = [misled EXCEPT ![calls[c].job] = misled[calls[c].job] + 1]
    BY <1>2, <1>5 DEF CountFails
  <1>6. CASE misled' = misled
    <2>1. \A c \in Clients : ~RootQueryFails(c) /\ ~CountFails(c)
      BY <1>0, <1>3, <1>4, <1>5, <1>6
    <2> QED BY <1>0, <1>6, <2>1
  <1>7. ASSUME NEW c \in Clients, Call(c) \/ Step(c) \/ Fail(c),
               ~RootQueryFails(c), ~CountFails(c)
        PROVE  misled' = misled
    BY <1>7 DEF Call, Step, Fail, GetOrCreateTree, RootFound, RootMissing, WorkspaceFound,
                InsertRoot, CreateStructuredItem, WithinBudget, BudgetExhausted, AppendItem,
                UpdateItemSummary, ContextAllows, ContextRefuses, UpdateItem, CommitUpdate
  <1>8. misled' = misled \/ \E c \in Clients : RootQueryFails(c) \/ CountFails(c)
    BY <1>7 DEF Next, Setup, CreateWorkspace, CreateItem, Curate, vars
  <1>9. (\E c \in Clients : RootQueryFails(c) \/ CountFails(c)) =>
            /\ misled' \in [Workspaces \cup Jobs -> Nat]
            /\ \A x \in Workspaces \cup Jobs : misled'[x] <= MaxMisled[x]
            /\ \A x \in Workspaces \cup Jobs : misled[x] \in Nat /\ misled[x] <= misled'[x]
    BY <1>3, <1>4, <1>5
  <1> QED BY <1>3, <1>4, <1>5, <1>6, <1>8, <1>9

\* The types of tables, calls and counts are kept by every step.
LEMMA NextKeepsTypeOK == TypeOK /\ [Next]_vars => TypeOK'
  BY NextKeepsTables, MisledGrows DEF TypeOK

\* And hold at the start.
LEMMA InitTypeOK == Init => TypeOK
  BY InitTables, FailuresAssumption DEF TypeOK, Init

\* Tables and calls keep their types: every item's parent was there before it, so
\* that FindPaths' walk ends, and every audit row names an item that is there.
THEOREM TypeCorrect == Spec => []TypeOK
  <1> QED BY InitTypeOK, NextKeepsTypeOK, PTL DEF Spec

----------------------------------------------------------------------------
(* Counting calls *)

\* Any set of clients has a size, at most that of all clients; sizes respect inclusion.
LEMMA ClientSets ==
  /\ Cardinality(Clients) \in Nat
  /\ \A S \in SUBSET Clients : /\ IsFiniteSet(S) /\ Cardinality(S) \in Nat
                               /\ Cardinality(S) <= Cardinality(Clients)
  /\ \A S, R \in SUBSET Clients : R \subseteq S => Cardinality(R) <= Cardinality(S)
  /\ \A S \in SUBSET Clients : \A c \in S : Cardinality(S \ {c}) = Cardinality(S) - 1
  <1>1. ASSUME NEW S \in SUBSET Clients
        PROVE  IsFiniteSet(S) /\ Cardinality(S) \in Nat /\ Cardinality(S) <= Cardinality(Clients)
    BY FS_Subset, FS_CardinalityType
  <1>2. ASSUME NEW S \in SUBSET Clients, NEW R \in SUBSET Clients, R \subseteq S
        PROVE  Cardinality(R) <= Cardinality(S)
    BY <1>1, <1>2, FS_Subset
  <1>3. ASSUME NEW S \in SUBSET Clients, NEW c \in S
        PROVE  Cardinality(S \ {c}) = Cardinality(S) - 1
    BY <1>1, FS_RemoveElement
  <1> QED BY <1>1, <1>2, <1>3, FS_CardinalityType

\* A set of clients with one more has at most one more.
LEMMA ClientSetsPlusOne ==
  ASSUME NEW S \in SUBSET Clients, NEW c \in Clients, NEW R, R \subseteq S \cup {c}
  PROVE  Cardinality(R) <= Cardinality(S) + 1
  <1>1. R \in SUBSET Clients /\ S \cup {c} \in SUBSET Clients
    OBVIOUS
  <1>2. Cardinality(R) <= Cardinality(S \cup {c})
    BY <1>1, ClientSets
  <1>3. Cardinality(S \cup {c}) <= Cardinality(S) + 1
    <2>1. IsFiniteSet(S) /\ Cardinality(S) \in Nat
      BY ClientSets
    <2>2. CASE c \in S
      <3>1. Cardinality(S \cup {c}) = Cardinality(S)
        BY <2>1, <2>2, FS_AddElement
      <3> QED BY <2>1, <3>1
    <2>3. CASE c \notin S
      <3>1. Cardinality(S \cup {c}) = Cardinality(S) + 1
        BY <2>1, <2>3, FS_AddElement
      <3> QED BY <2>1, <3>1
    <2> QED BY <2>2, <2>3
  <1>4. /\ Cardinality(R) \in Nat /\ Cardinality(S \cup {c}) \in Nat
        /\ Cardinality(S) \in Nat
    BY <1>1, ClientSets
  <1> QED BY <1>2, <1>3, <1>4

\* Which steps lead a call past its check; nobody moves another client's call.
LEMMA PastTheCheck ==
  ASSUME TablesOK, NEW c \in Clients, Call(c) \/ Step(c) \/ Fail(c)
  PROVE  /\ \A d \in Clients : d # c => calls'[d] = calls[d]
         /\ calls'[c].pc = "append" =>
                WithinBudget(c) \/ CountFails(c) \/ ~(Budget[calls'[c].job] > 0)
         /\ calls'[c].pc \in {"readWorkspace", "insertRoot"} =>
                RootMissing(c) \/ RootQueryFails(c) \/ WorkspaceFound(c)
         /\ calls'[c].pc \in {"update", "commit"} => ContextAllows(c) \/ UpdateItem(c)
  <1>0. calls \in [Clients -> CallRecord] /\ calls[c] \in CallRecord
    BY DEF TablesOK
  <1>1. CASE Return(c)
    BY <1>0, <1>1, IdleType DEF Return
  <1>2. CASE RootMissing(c) \/ RootQueryFails(c) \/ WorkspaceFound(c)
    BY <1>0, <1>2 DEF RootMissing, RootQueryFails, WorkspaceFound, Goto, CallRecord
  <1>3. CASE WithinBudget(c) \/ CountFails(c)
    BY <1>0, <1>3 DEF WithinBudget, CountFails, Goto, CallRecord
  <1>4. CASE ContextAllows(c)
    BY <1>0, <1>4 DEF ContextAllows, CallRecord
  <1>5. CASE UpdateItem(c)
    BY <1>0, <1>5 DEF UpdateItem, Goto, CallRecord
  <1>6. CASE InsertRoot(c)
    BY <1>0, <1>6 DEF InsertRoot, Goto, CallRecord
  <1>7. ASSUME NEW w \in Workspaces, GetOrCreateTree(c, w)
        PROVE  calls'[c].pc = "readRoot" /\ \A d \in Clients : d # c => calls'[d] = calls[d]
    BY <1>0, <1>7 DEF GetOrCreateTree, Idle
  <1>8. ASSUME NEW j \in Jobs, NEW x \in Contents, NEW q \in 0..Len(items),
               CreateStructuredItem(c, j, q, x)
        PROVE  /\ calls'[c].pc = IF Budget[j] > 0 THEN "count" ELSE "append"
               /\ calls'[c].job = j
               /\ \A d \in Clients : d # c => calls'[d] = calls[d]
    BY <1>0, <1>8 DEF CreateStructuredItem, Idle
  <1>9. ASSUME NEW j \in Jobs, NEW x \in Contents, NEW i \in 1..Len(items),
               UpdateItemSummary(c, j, i, x)
        PROVE  calls'[c].pc = "readContext" /\ \A d \in Clients : d # c => calls'[d] = calls[d]
    BY <1>0, <1>9 DEF UpdateItemSummary, Idle
  <1>10. CASE Call(c)
    BY <1>7, <1>8, <1>9, <1>10, WritesAreContents DEF Call
  <1>11. CASE Step(c) \/ Fail(c)
    BY <1>1, <1>2, <1>3, <1>4, <1>5, <1>6, <1>11
       DEF Step, Fail, RootFound, BudgetExhausted, AppendItem, ContextRefuses, CommitUpdate
  <1> QED BY <1>10, <1>11

----------------------------------------------------------------------------
(* Budgets *)

\* Calls for job j that have counted and not yet inserted.
Appending(j) == {c \in Clients : At(c, "append") /\ calls[c].job = j}

BudgetInv ==
    \A j \in Jobs : Budget[j] > 0 =>
        Cardinality(Appended(j)) + Cardinality(Appending(j))
            <= Budget[j] + Cardinality(Clients) - 1 + misled[j]

\* The creations logged for a job are a finite part of its audit rows.
LEMMA AppendedFinite ==
  ASSUME TablesOK, NEW j
  PROVE  /\ IsFiniteSet(Appended(j)) /\ Cardinality(Appended(j)) \in Nat
         /\ Mutations(j) \in Nat /\ Cardinality(Appended(j)) <= Mutations(j)
         /\ Len(log) + 1 \notin Appended(j)
  <1> DEFINE all == {k \in 1..Len(log) : log[k].job = j}
  <1>1. Len(log) \in Nat
    BY DEF TablesOK
  <1>2. IsFiniteSet(all)
    <2>1. IsFiniteSet(1..Len(log)) /\ all \in SUBSET (1..Len(log))
      BY <1>1, FS_Interval
    <2> QED BY <2>1, FS_Subset
  <1>3. Appended(j) \in SUBSET all
    BY DEF Appended
  <1>4. IsFiniteSet(Appended(j)) /\ Cardinality(Appended(j)) <= Cardinality(all)
    BY <1>2, <1>3, FS_Subset
  <1> QED BY <1>1, <1>2, <1>4, FS_CardinalityType DEF Appended, Mutations

\* One more audit row adds at most itself to the creations of its job.
LEMMA AppendedGrows ==
  ASSUME TablesOK, NEW entry, log' = Append(log, entry), NEW j
  PROVE  Appended(j)' = IF entry.job = j /\ entry.kind = "append"
                        THEN Appended(j) \cup {Len(log) + 1} ELSE Appended(j)
  <1>1. log \in Seq(Entry) /\ Len(log) \in Nat
    BY DEF TablesOK
  <1>2. /\ Len(log') = Len(log) + 1 /\ log'[Len(log) + 1] = entry
        /\ \A k \in 1..Len(log) : log'[k] = log[k]
    BY <1>1
  <1>3. Appended(j)' = {k \in 1..Len(log') : log'[k].job = j /\ log'[k].kind = "append"}
    BY DEF Appended
  <1>4. 1..Len(log') = 1..Len(log) \cup {Len(log) + 1} /\ Len(log) + 1 \notin 1..Len(log)
    BY <1>1, <1>2
  <1> QED BY <1>2, <1>3, <1>4 DEF Appended

\* A step that logs no creation and lets no counting call pass keeps the budget.
LEMMA BudgetFrame ==
  ASSUME TablesOK, NEW j \in Jobs, Cardinality(Appended(j)') = Cardinality(Appended(j)),
         Appending(j)' \subseteq Appending(j)
  PROVE  Cardinality(Appended(j)') + Cardinality(Appending(j)')
            <= Cardinality(Appended(j)) + Cardinality(Appending(j))
  <1>1. Appending(j) \in SUBSET Clients /\ Appending(j)' \in SUBSET Clients
    BY DEF Appending
  <1>2. /\ Cardinality(Appending(j)') <= Cardinality(Appending(j))
        /\ Cardinality(Appending(j)') \in Nat /\ Cardinality(Appending(j)) \in Nat
    BY <1>1, ClientSets
  <1> QED BY <1>2, AppendedFinite

\* Every step keeps the budget invariant.
LEMMA NextKeepsBudget == TypeOK /\ BudgetInv /\ [Next]_vars => BudgetInv'
  <1> SUFFICES ASSUME TypeOK, BudgetInv, [Next]_vars, NEW j \in Jobs, Budget[j] > 0
               PROVE  Cardinality(Appended(j)') + Cardinality(Appending(j)')
                        <= Budget[j] + Cardinality(Clients) - 1 + misled'[j]
    BY DEF BudgetInv
  <1> DEFINE total == Cardinality(Appended(j)) + Cardinality(Appending(j))
  <1>0. /\ total <= Budget[j] + Cardinality(Clients) - 1 + misled[j] /\ total \in Nat
        /\ misled[j] \in Nat /\ misled'[j] \in Nat /\ misled[j] <= misled'[j] /\ TablesOK
        /\ Cardinality(Appended(j)) \in Nat /\ Budget[j] \in Nat
        /\ Cardinality(Clients) \in Nat
        /\ Appending(j) \in SUBSET Clients /\ Cardinality(Appending(j)) \in Nat
        /\ Appending(j)' \in SUBSET Clients /\ Cardinality(Appending(j)') \in Nat
        /\ Cardinality(Appending(j)') <= Cardinality(Clients)
    <2>1. /\ misled[j] \in Nat /\ misled'[j] \in Nat /\ misled[j] <= misled'[j] /\ TablesOK
      BY MisledGrows DEF TypeOK
    <2> QED BY <2>1, AppendedFinite, ClientSets DEF BudgetInv, Appending
  <1>1. CASE log' = log /\ Appending(j)' \subseteq Appending(j)
    <2>1. Appended(j)' = Appended(j)
      BY <1>1 DEF Appended
    <2> QED BY <1>0, <1>1, <2>1, BudgetFrame
  <1>2. ASSUME NEW c \in Clients, Call(c) \/ Step(c) \/ Fail(c), ~WithinBudget(c),
               ~CountFails(c)
        PROVE  Appending(j)' \subseteq Appending(j)
    BY <1>0, <1>2, PastTheCheck DEF Appending, At
  <1>3. ASSUME NEW c \in Clients, WithinBudget(c)
        PROVE  Cardinality(Appended(j)') + Cardinality(Appending(j)')
                 <= Budget[j] + Cardinality(Clients) - 1 + misled'[j]
    <2>1. log' = log /\ Appended(j)' = Appended(j)
      BY <1>3 DEF WithinBudget, Appended
    <2>2. CASE calls[c].job = j
      <3>1. Mutations(j) < Budget[j]
        BY <1>3, <2>2 DEF WithinBudget
      <3>2. Cardinality(Appended(j)) <= Budget[j] - 1
        BY <1>0, <3>1, AppendedFinite
      <3> QED BY <1>0, <2>1, <3>2
    <2>3. CASE calls[c].job # j
      <3>1. Appending(j)' \subseteq Appending(j)
        BY <1>3, <2>3 DEF WithinBudget, Goto, Appending, At, TypeOK, TablesOK, CallRecord
      <3> QED BY <1>1, <2>1, <3>1
    <2> QED BY <2>2, <2>3
  <1>12. ASSUME NEW c \in Clients, CountFails(c)
         PROVE  Cardinality(Appended(j)') + Cardinality(Appending(j)')
                  <= Budget[j] + Cardinality(Clients) - 1 + misled'[j]
    <2>1. log' = log /\ Appended(j)' = Appended(j) /\ calls \in [Clients -> CallRecord]
      BY <1>0, <1>12 DEF CountFails, Appended, TablesOK
    <2>2. CASE calls[c].job = j
      <3>1. misled'[j] = misled[j] + 1
        BY <1>12, <2>2, MisledGrows
      <3>2. Appending(j)' \subseteq Appending(j) \cup {c}
        BY <1>12, <2>1 DEF CountFails, Goto, Appending, At, CallRecord
      <3>3. Cardinality(Appending(j)') <= Cardinality(Appending(j)) + 1
        BY <1>0, <3>2, ClientSetsPlusOne
      <3> QED BY <1>0, <2>1, <3>1, <3>3
    <2>3. CASE calls[c].job # j
      <3>1. Appending(j)' \subseteq Appending(j)
        BY <1>12, <2>1, <2>3 DEF CountFails, Goto, Appending, At, CallRecord
      <3> QED BY <1>1, <2>1, <3>1
    <2> QED BY <2>2, <2>3
  <1>4. ASSUME NEW c \in Clients, AppendItem(c)
        PROVE  Cardinality(Appended(j)') + Cardinality(Appending(j)')
                 <= Budget[j] + Cardinality(Clients) - 1 + misled'[j]
    <2> DEFINE entry == LogEntry(c, Len(items) + 1, "append")
    <2>1. log' = Append(log, entry) /\ entry.job = calls[c].job /\ entry.kind = "append"
      BY <1>4 DEF AppendItem, Logged, LogEntry
    <2> HIDE DEF entry
    <2>2. Appended(j)' = IF calls[c].job = j THEN Appended(j) \cup {Len(log) + 1}
                         ELSE Appended(j)
      BY <1>0, <2>1, AppendedGrows
    <2>3. Return(c) /\ At(c, "append") /\ calls \in [Clients -> CallRecord]
      BY <1>4 DEF AppendItem, TypeOK, TablesOK
    <2>4. CASE calls[c].job = j
      <3>1. c \in Appending(j) /\ Appending(j)' = Appending(j) \ {c}
        BY <2>3, <2>4, IdleType DEF Appending, At, Return
      <3>2. Cardinality(Appending(j)') = Cardinality(Appending(j)) - 1
        BY <1>0, <3>1, ClientSets
      <3>3. Cardinality(Appended(j)') = Cardinality(Appended(j)) + 1
        <4>1. IsFiniteSet(Appended(j)) /\ Len(log) + 1 \notin Appended(j)
          BY <1>0, AppendedFinite
        <4>2. Cardinality(Appended(j) \cup {Len(log) + 1}) = Cardinality(Appended(j)) + 1
          BY <4>1, FS_AddElement
        <4> QED BY <2>2, <2>4, <4>2
      <3> QED BY <1>0, <3>2, <3>3
    <2>5. CASE calls[c].job # j
      <3>1. Appending(j)' \subseteq Appending(j)
        BY <2>3, IdleType DEF Appending, At, Return
      <3> QED BY <1>0, <2>2, <2>5, <3>1, BudgetFrame
    <2> QED BY <2>4, <2>5
  <1>5. ASSUME NEW c \in Clients, CommitUpdate(c)
        PROVE  Cardinality(Appended(j)') + Cardinality(Appending(j)')
                 <= Budget[j] + Cardinality(Clients) - 1 + misled'[j]
    <2> DEFINE entry == LogEntry(c, calls[c].item, "revise")
    <2>1. log' = Append(log, entry) /\ entry.kind = "revise"
      BY <1>5 DEF CommitUpdate, Logged, LogEntry
    <2> HIDE DEF entry
    <2>2. Appended(j)' = Appended(j)
      BY <1>0, <2>1, AppendedGrows
    <2>3. Appending(j)' \subseteq Appending(j)
      <3>1. Return(c) /\ calls \in [Clients -> CallRecord]
        BY <1>5 DEF CommitUpdate, TypeOK, TablesOK
      <3> QED BY <3>1, IdleType DEF Appending, At, Return
    <2> QED BY <1>0, <2>2, <2>3, BudgetFrame
  <1>6. ASSUME NEW c \in Clients, Call(c) \/ Step(c) \/ Fail(c),
               ~WithinBudget(c), ~CountFails(c), ~AppendItem(c), ~CommitUpdate(c)
        PROVE  log' = log
    BY <1>6 DEF Call, Step, Fail, GetOrCreateTree, RootFound, RootMissing, RootQueryFails,
                WorkspaceFound, InsertRoot, CreateStructuredItem, BudgetExhausted, UpdateItemSummary,
                ContextAllows, ContextRefuses, UpdateItem
  <1>7. ASSUME NEW c \in Clients, Call(c) \/ Step(c) \/ Fail(c)
        PROVE  Cardinality(Appended(j)') + Cardinality(Appending(j)')
                 <= Budget[j] + Cardinality(Clients) - 1 + misled'[j]
    BY <1>1, <1>2, <1>3, <1>4, <1>5, <1>6, <1>7, <1>12
  <1>8. CASE log' = log /\ calls' = calls
    BY <1>1, <1>8 DEF Appending, At
  <1>9. CASE Setup
    BY <1>8, <1>9 DEF Setup, CreateWorkspace, CreateItem
  <1>10. ASSUME NEW i \in 1..Len(items), NEW g \in EditorStates, Curate(i, g)
         PROVE  log' = log /\ calls' = calls
    BY <1>10 DEF Curate
  <1>11. CASE UNCHANGED vars
    BY <1>8, <1>11 DEF vars
  <1> QED BY <1>7, <1>8, <1>9, <1>10, <1>11 DEF Next

\* A job's creations exceed its budget by at most one for each further client and for
\* each failed count: CreateStructuredItemWithCapability counts before it inserts.
THEOREM BudgetOverrunBounded == Spec => []BudgetBound
  <1>1. Init => TypeOK /\ BudgetInv
    <2> SUFFICES ASSUME Init, NEW j \in Jobs, Budget[j] > 0
                 PROVE  Cardinality(Appended(j)) + Cardinality(Appending(j))
                          <= Budget[j] + Cardinality(Clients) - 1 + misled[j]
      BY InitTypeOK DEF BudgetInv
    <2>1. Appended(j) = {} /\ Appending(j) = {}
      BY IdleType DEF Init, Appended, Appending, At
    <2>2. Budget[j] \in Nat /\ Cardinality(Clients) \in Nat /\ misled[j] = 0
      BY ClientSets DEF Init
    <2> QED BY <2>1, <2>2, FS_EmptySet
  <1>2. TypeOK /\ BudgetInv /\ [Next]_vars => TypeOK' /\ BudgetInv'
    BY NextKeepsTypeOK, NextKeepsBudget
  <1>3. TypeOK /\ BudgetInv => BudgetBound
    <2> SUFFICES ASSUME TypeOK, BudgetInv, NEW j \in Jobs, Budget[j] > 0
                 PROVE  Cardinality(Appended(j))
                          <= Budget[j] + Cardinality(Clients) - 1 + misled[j]
      BY DEF BudgetBound
    <2>1. Appending(j) \in SUBSET Clients
      BY DEF Appending
    <2>2. Cardinality(Appending(j)) \in Nat /\ Cardinality(Clients) \in Nat
      BY <2>1, ClientSets
    <2>3. Cardinality(Appended(j)) \in Nat /\ Budget[j] \in Nat /\ misled[j] \in Nat
      BY AppendedFinite DEF TypeOK
    <2> QED BY <2>2, <2>3 DEF BudgetInv
  <1> QED BY <1>1, <1>2, <1>3, PTL DEF Spec

\* The budget of a job whose count never failed, in a store with one client.
BudgetKept ==
    \A j \in Jobs : Budget[j] > 0 /\ misled[j] = 0 => Cardinality(Appended(j)) <= Budget[j]

(***************************************************************************)
(* MaxItemCreations is a hard limit when calls do not overlap and no count *)
(* fails: overlap and failure are the only two ways past it.               *)
(***************************************************************************)
THEOREM BudgetIsHardForOneClient ==
  ASSUME Cardinality(Clients) = 1 PROVE Spec => []BudgetKept
  <1>1. ASSUME TypeOK, BudgetBound PROVE BudgetKept
    <2> SUFFICES ASSUME NEW j \in Jobs, Budget[j] > 0, misled[j] = 0
                 PROVE  Cardinality(Appended(j)) <= Budget[j]
      BY DEF BudgetKept
    <2>1. Cardinality(Appended(j)) \in Nat /\ Budget[j] \in Nat
      BY <1>1, AppendedFinite DEF TypeOK
    <2>2. Cardinality(Appended(j)) <= Budget[j] + 1 - 1 + 0
      BY <1>1 DEF BudgetBound
    <2> QED BY <2>1, <2>2
  <1> QED BY <1>1, TypeCorrect, BudgetOverrunBounded, PTL

----------------------------------------------------------------------------
(* Governance *)

\* Revisions of item i that have read its governance state and not yet committed.
Revising(i) == {c \in Clients : calls[c].pc \in {"update", "commit"} /\ calls[c].item = i}

LateInv ==
    /\ \A i \in 1..Len(items) :
          /\ late[i] + Cardinality(Revising(i)) <= Cardinality(Clients)
          /\ ~Protected(items[i].gov) => late[i] = 0
    /\ \A i \in 1..MaxItems : i > Len(items) => late[i] = 0

\* Sizes of the sets of revising calls.
LEMMA RevisingSizes ==
  ASSUME NEW i
  PROVE  /\ Revising(i) \in SUBSET Clients /\ Cardinality(Revising(i)) \in Nat
         /\ Cardinality(Revising(i)) <= Cardinality(Clients)
         /\ Revising(i)' \in SUBSET Clients /\ Cardinality(Revising(i)') \in Nat
         /\ Cardinality(Revising(i)') <= Cardinality(Clients)
         /\ Cardinality(Clients) \in Nat
         /\ Revising(i)' \subseteq Revising(i) =>
                Cardinality(Revising(i)') <= Cardinality(Revising(i))
  <1>1. Revising(i) \in SUBSET Clients /\ Revising(i)' \in SUBSET Clients
    BY DEF Revising
  <1> QED BY <1>1, ClientSets

\* A step that leaves governance alone, and lets no revision past the check, keeps
\* the invariant; items it adds have had no late revision and have no call on them.
LEMMA LateFrame ==
  ASSUME TablesOK, LateInv, late' = late, Len(items') \in Nat, Len(items) <= Len(items'),
         Len(items') <= MaxItems,
         \A i \in 1..Len(items) : items'[i].gov = items[i].gov,
         \A i \in 1..Len(items') : Revising(i)' \subseteq Revising(i)
  PROVE  LateInv'
  <1>0. Len(items) \in Nat /\ late \in [1..MaxItems -> Nat]
    BY DEF TablesOK
  <1>1. ASSUME NEW i \in 1..Len(items')
        PROVE  /\ late'[i] + Cardinality(Revising(i)') <= Cardinality(Clients)
               /\ ~Protected(items'[i].gov) => late'[i] = 0
    <2>1. CASE i \in 1..Len(items)
      <3>1. /\ late[i] + Cardinality(Revising(i)) <= Cardinality(Clients)
            /\ ~Protected(items[i].gov) => late[i] = 0
            /\ late[i] \in Nat /\ items'[i].gov = items[i].gov
        BY <1>0, <2>1 DEF LateInv
      <3>2. Cardinality(Revising(i)') <= Cardinality(Revising(i))
        BY <1>1, RevisingSizes
      <3> QED BY <3>1, <3>2, RevisingSizes
    <2>2. CASE i > Len(items)
      <3>1. late[i] = 0
        BY <1>0, <1>1, <2>2 DEF LateInv
      <3> QED BY <3>1, RevisingSizes
    <2> QED BY <1>0, <2>1, <2>2
  <1>2. \A i \in 1..MaxItems : i > Len(items') => late'[i] = 0
    BY <1>0 DEF LateInv
  <1> QED BY <1>1, <1>2 DEF LateInv

\* An insert leaves the rows that are there alone.
LEMMA InsertLeavesRows ==
  ASSUME TablesOK, NEW row, Insert(row)
  PROVE  /\ Len(items') = Len(items) + 1 /\ Len(items) \in Nat /\ Len(items') <= MaxItems
         /\ \A i \in 1..Len(items) : items'[i] = items[i]
         /\ items'[Len(items) + 1] = row
  BY DEF TablesOK, Insert

\* A step of a client other than a passed check, a commit or a return leaves late and rows.
LEMMA RowsGrow ==
  ASSUME TablesOK, NEW c \in Clients, Call(c) \/ Step(c) \/ Fail(c), ~CommitUpdate(c)
  PROVE  /\ late' = late /\ Len(items') \in Nat /\ Len(items) <= Len(items')
         /\ Len(items') <= MaxItems
         /\ \A i \in 1..Len(items) : items'[i] = items[i]
  <1>1. Len(items) \in Nat /\ Len(items) <= MaxItems
    BY DEF TablesOK
  <1>2. CASE InsertRoot(c) \/ AppendItem(c)
    <2>1. PICK row : Insert(row) /\ late' = late
      BY <1>2 DEF InsertRoot, AppendItem
    <2> QED BY <1>1, <2>1, InsertLeavesRows
  <1>3. CASE ~InsertRoot(c) /\ ~AppendItem(c)
    <2>1. items' = items /\ late' = late
      BY <1>3 DEF Call, Step, Fail, GetOrCreateTree, RootFound, RootMissing, RootQueryFails,
                  WorkspaceFound, CreateStructuredItem, WithinBudget, CountFails,
                  BudgetExhausted, UpdateItemSummary,
                  ContextAllows, ContextRefuses, UpdateItem
    <2> QED BY <1>1, <2>1
  <1> QED BY <1>2, <1>3

\* Every step keeps the governance invariant.
LEMMA NextKeepsLate == TablesOK /\ LateInv /\ [Next]_vars => LateInv'
  <1> SUFFICES ASSUME TablesOK, LateInv, [Next]_vars PROVE LateInv'
    OBVIOUS
  <1>0. /\ Len(items) \in Nat /\ Len(items) <= MaxItems /\ late \in [1..MaxItems -> Nat]
        /\ calls \in [Clients -> CallRecord]
    BY DEF TablesOK
  <1>1. ASSUME NEW c \in Clients, ContextAllows(c) PROVE LateInv'
    <2> DEFINE i == calls[c].item
    <2>1. /\ i \in 1..Len(items) /\ ~Protected(items[i].gov)
          /\ UNCHANGED <<items, late>>
          /\ calls' = [calls EXCEPT ![c] = [calls[c] EXCEPT
                           !.pc = "update", !.before = items[i].content]]
      <3>1. At(c, "readContext") /\ MayRevise(c) /\ CallShape(c)
        BY <1>1 DEF ContextAllows, TablesOK
      <3>2. i \in 1..Len(items) /\ ~Protected(items[i].gov)
        BY <1>0, <3>1 DEF MayRevise, CallShape, At
      <3> QED BY <1>0, <1>1, <3>2 DEF ContextAllows
    <2>2. ASSUME NEW k \in 1..Len(items), k # i
          PROVE  Revising(k)' \subseteq Revising(k)
      BY <1>0, <2>1, <2>2 DEF Revising, CallRecord
    <2>3. late[i] = 0
      BY <2>1 DEF LateInv
    <2>4. ASSUME NEW k \in 1..Len(items)
          PROVE  late[k] + Cardinality(Revising(k)') <= Cardinality(Clients)
      <3>1. CASE k = i
        BY <2>3, <3>1, RevisingSizes
      <3>2. CASE k # i
        <4>1. late[k] + Cardinality(Revising(k)) <= Cardinality(Clients) /\ late[k] \in Nat
          BY <1>0 DEF LateInv
        <4> QED BY <2>2, <3>2, <4>1, RevisingSizes
      <3> QED BY <3>1, <3>2
    <2> QED BY <2>1, <2>4 DEF LateInv
  <1>2. ASSUME NEW c \in Clients, CommitUpdate(c) PROVE LateInv'
    <2>0. PICK i \in 1..Len(items) : i = calls[c].item
      BY <1>2, CommitFacts
    <2>1. /\ i \in 1..Len(items) /\ Return(c) /\ At(c, "commit")
          /\ late' = [late EXCEPT ![i] = IF Protected(items[i].gov) THEN late[i] + 1 ELSE late[i]]
          /\ Revised(c).gov = items[i].gov
      BY <1>0, <1>2, <2>0, CommitFacts DEF CommitUpdate
    <2>2. /\ Len(items') = Len(items)
          /\ items'[i] = Revised(c) /\ \A k \in 1..Len(items) : k # i => items'[k] = items[k]
      BY <1>2, <2>0, CommitFacts, RewriteKeepsTable
    <2>3. \A k \in 1..Len(items) : items'[k].gov = items[k].gov
      BY <2>1, <2>2
    <2>4. c \in Revising(i) /\ Revising(i)' = Revising(i) \ {c}
      BY <1>0, <2>0, <2>1, IdleType DEF Revising, At, Return
    <2>5. Cardinality(Revising(i)') = Cardinality(Revising(i)) - 1
      BY <2>4, RevisingSizes, ClientSets
    <2>6. /\ late[i] + Cardinality(Revising(i)) <= Cardinality(Clients) /\ late[i] \in Nat
          /\ ~Protected(items[i].gov) => late[i] = 0
      BY <1>0, <2>1 DEF LateInv
    <2>7. late'[i] = IF Protected(items[i].gov) THEN late[i] + 1 ELSE late[i]
      BY <1>0, <2>1
    <2>8. ASSUME NEW k \in 1..Len(items)
          PROVE  /\ late'[k] + Cardinality(Revising(k)') <= Cardinality(Clients)
                 /\ ~Protected(items'[k].gov) => late'[k] = 0
      <3>1. CASE k = i
        BY <2>3, <2>5, <2>6, <2>7, <3>1, RevisingSizes
      <3>2. CASE k # i
        <4>1. late'[k] = late[k] /\ late[k] \in Nat
          BY <1>0, <2>1, <3>2
        <4>2. Revising(k)' \subseteq Revising(k)
          BY <1>0, <2>1, IdleType DEF Revising, Return
        <4>3. /\ late[k] + Cardinality(Revising(k)) <= Cardinality(Clients)
              /\ ~Protected(items[k].gov) => late[k] = 0
          BY DEF LateInv
        <4>4. Cardinality(Revising(k)') <= Cardinality(Revising(k))
          BY <4>2, RevisingSizes
        <4> QED BY <2>3, <4>1, <4>3, <4>4, RevisingSizes
      <3> QED BY <3>1, <3>2
    <2>9. \A k \in 1..MaxItems : k > Len(items) => late'[k] = 0
      BY <1>0, <2>1 DEF LateInv
    <2> QED BY <2>2, <2>8, <2>9 DEF LateInv
  <1>3. ASSUME NEW c \in Clients, Call(c) \/ Step(c) \/ Fail(c),
               ~ContextAllows(c), ~CommitUpdate(c)
        PROVE  LateInv'
    <2>1. \A k : Revising(k)' \subseteq Revising(k)
      <3>1. UpdateItem(c) => /\ calls[c].pc = "update"
                             /\ calls' = [calls EXCEPT ![c] = [calls[c] EXCEPT !.pc = "commit"]]
        BY <1>0 DEF UpdateItem, At, Goto
      <3>2. UpdateItem(c) => calls[c].pc = "update" /\ calls'[c].item = calls[c].item
        BY <1>0, <3>1 DEF CallRecord
      <3> QED BY <1>3, <3>2, PastTheCheck DEF Revising
    <2>2. /\ late' = late /\ Len(items') \in Nat /\ Len(items) <= Len(items')
          /\ Len(items') <= MaxItems /\ \A i \in 1..Len(items) : items'[i].gov = items[i].gov
      BY <1>3, RowsGrow
    <2> QED BY <2>1, <2>2, LateFrame
  <1>4. ASSUME NEW i \in 1..Len(items), NEW g \in EditorStates, Curate(i, g) PROVE LateInv'
    <2>1. /\ Len(items') = Len(items) /\ items'[i] = Curated(i, g) /\ Curated(i, g).gov = g
          /\ \A k \in 1..Len(items) : k # i => items'[k] = items[k]
      BY <1>4, CurateFacts, RewriteKeepsTable
    <2>2. /\ late' = [late EXCEPT ![i] =
                 IF Protected(g) /\ Protected(items[i].gov) THEN late[i] ELSE 0]
          /\ calls' = calls
      BY <1>4 DEF Curate
    <2>3. \A k : Revising(k)' = Revising(k)
      BY <2>2 DEF Revising
    <2>4. ASSUME NEW k \in 1..Len(items)
          PROVE  /\ late'[k] + Cardinality(Revising(k)') <= Cardinality(Clients)
                 /\ ~Protected(items'[k].gov) => late'[k] = 0
      <3>1. /\ late[k] + Cardinality(Revising(k)) <= Cardinality(Clients)
            /\ ~Protected(items[k].gov) => late[k] = 0
        BY DEF LateInv
      <3>2. late'[k] = IF k = i
                       THEN IF Protected(g) /\ Protected(items[i].gov) THEN late[i] ELSE 0
                       ELSE late[k]
        BY <1>0, <2>2
      <3>3. late'[k] = late[k] \/ late'[k] = 0
        BY <3>2
      <3>4. late'[k] + Cardinality(Revising(k)') <= Cardinality(Clients)
        BY <2>3, <3>1, <3>3, RevisingSizes
      <3>5. ~Protected(items'[k].gov) => late'[k] = 0
        BY <2>1, <3>1, <3>2
      <3> QED BY <3>4, <3>5
    <2>5. \A k \in 1..MaxItems : k > Len(items) => late'[k] = 0
      BY <1>0, <2>2 DEF LateInv
    <2> QED BY <2>1, <2>4, <2>5 DEF LateInv
  <1>5. CASE Setup
    <2>1. PICK row : Insert(row) /\ UNCHANGED <<calls, late>>
      BY <1>5 DEF Setup, CreateWorkspace, CreateItem
    <2>2. \A k : Revising(k)' = Revising(k)
      BY <2>1 DEF Revising
    <2>3. /\ Len(items') \in Nat /\ Len(items) <= Len(items') /\ Len(items') <= MaxItems
          /\ \A i \in 1..Len(items) : items'[i].gov = items[i].gov
      BY <2>1, InsertLeavesRows
    <2> QED BY <2>1, <2>2, <2>3, LateFrame
  <1>6. CASE UNCHANGED vars
    BY <1>6 DEF vars, LateInv, Revising
  <1> QED BY <1>1, <1>2, <1>3, <1>4, <1>5, <1>6 DEF Next

\* An item an editor protects is still revised by calls that read its state before,
\* but by each client once at most: UpdateItemSummaryHTMLWithCapability checks first.
THEOREM LateRevisionsBounded == Spec => []LateBound
  <1>1. Init => TablesOK /\ LateInv
    <2> SUFFICES ASSUME Init PROVE LateInv
      BY InitTables
    <2> QED BY DEF Init, LateInv
  <1>2. TablesOK /\ LateInv /\ [Next]_vars => TablesOK' /\ LateInv'
    BY NextKeepsTables, NextKeepsLate
  <1>3. TablesOK /\ LateInv => LateBound
    <2> SUFFICES ASSUME TablesOK, LateInv, NEW i \in 1..Len(items)
                 PROVE  late[i] <= Cardinality(Clients)
      BY DEF LateBound
    <2>1. late[i] \in Nat /\ late[i] + Cardinality(Revising(i)) <= Cardinality(Clients)
      BY DEF TablesOK, LateInv
    <2> QED BY <2>1, RevisingSizes
  <1> QED BY <1>1, <1>2, <1>3, PTL DEF Spec

----------------------------------------------------------------------------
(* Roots *)

\* Calls of GetOrCreateTree that have missed the root of w and not yet inserted one.
Inserting(w) ==
    {c \in Clients : calls[c].pc \in {"readWorkspace", "insertRoot"} /\ calls[c].ws = w}

\* Nobody makes an old workspace anew.
LegacyKept == Legacy \subseteq workspaces

RootsCount ==
    \A w \in workspaces :
        /\ Cardinality(SystemRoots(w)) + Cardinality(Inserting(w)) <= RootsAllowed(w)
        /\ w \notin Legacy => SystemRoots(w) # {}

RootsInv == LegacyKept /\ RootsCount

\* What a workspace may have of roots never shrinks, and grows with a failed query.
LEMMA AllowedGrows ==
  ASSUME TypeOK, [Next]_vars, NEW w \in Workspaces
  PROVE  /\ RootsAllowed(w) \in Nat /\ RootsAllowed(w)' \in Nat
         /\ RootsAllowed(w) <= RootsAllowed(w)'
         /\ w \notin Legacy => 1 <= RootsAllowed(w)'
         /\ w \in Legacy => Cardinality(Clients) <= RootsAllowed(w)'
         /\ \A c \in Clients : RootQueryFails(c) /\ calls[c].ws = w =>
                RootsAllowed(w)' = RootsAllowed(w) + 1
  <1>1. /\ misled[w] \in Nat /\ misled'[w] \in Nat /\ misled[w] <= misled'[w]
        /\ \A c \in Clients : RootQueryFails(c) /\ calls[c].ws = w =>
               misled'[w] = misled[w] + 1
    BY MisledGrows
  <1>2. Cardinality(Clients) \in Nat
    BY ClientSets
  <1>3. /\ RootsAllowed(w) = (IF w \in Legacy THEN Cardinality(Clients) ELSE 1) + misled[w]
        /\ RootsAllowed(w)' = (IF w \in Legacy THEN Cardinality(Clients) ELSE 1) + misled'[w]
    BY DEF RootsAllowed
  <1> QED BY <1>1, <1>2, <1>3

\* The roots the system made for a workspace are a finite part of the table.
LEMMA RootsFinite ==
  ASSUME TablesOK, NEW w
  PROVE  /\ IsFiniteSet(SystemRoots(w)) /\ Cardinality(SystemRoots(w)) \in Nat
         /\ Len(items) + 1 \notin SystemRoots(w)
         /\ SystemRoots(w) \subseteq Roots(items, w)
         /\ w \notin workspaces => SystemRoots(w) = {}
  <1>1. Len(items) \in Nat
    BY DEF TablesOK
  <1>2. IsFiniteSet(1..Len(items)) /\ SystemRoots(w) \in SUBSET (1..Len(items))
    BY <1>1, FS_Interval DEF SystemRoots, Roots
  <1>3. IsFiniteSet(SystemRoots(w))
    BY <1>2, FS_Subset
  <1> QED BY <1>1, <1>2, <1>3, FS_CardinalityType DEF SystemRoots, Roots, TablesOK

\* An insert adds at most its own row to the roots the system made.
LEMMA RootsGrow ==
  ASSUME TablesOK, NEW row, Insert(row), NEW w
  PROVE  SystemRoots(w)' = IF row.ws = w /\ row.parent = NoParent /\ row.by = "system"
                           THEN SystemRoots(w) \cup {Len(items) + 1} ELSE SystemRoots(w)
  <1>1. /\ Len(items') = Len(items) + 1 /\ Len(items) \in Nat
        /\ \A i \in 1..Len(items) : items'[i] = items[i]
        /\ items'[Len(items) + 1] = row
    BY InsertLeavesRows
  <1>2. SystemRoots(w)' = {i \in 1..Len(items') : /\ items'[i].ws = w
                                                 /\ items'[i].parent = NoParent
                                                 /\ items'[i].by = "system"}
    BY DEF SystemRoots, Roots
  <1>3. 1..Len(items') = 1..Len(items) \cup {Len(items) + 1}
        /\ Len(items) + 1 \notin 1..Len(items)
    BY <1>1
  <1> QED BY <1>1, <1>2, <1>3 DEF SystemRoots, Roots

\* Rewriting rows in place, workspace, parent and maker kept, leaves the roots.
LEMMA RootsStay ==
  ASSUME TablesOK, NEW w, Len(items') = Len(items),
         \A i \in 1..Len(items) : /\ items'[i].ws = items[i].ws
                                  /\ items'[i].parent = items[i].parent
                                  /\ items'[i].by = items[i].by
  PROVE  SystemRoots(w)' = SystemRoots(w)
  BY DEF SystemRoots, Roots

\* A step that adds no root of the system, and lets no call miss one, keeps the invariant.
LEMMA RootsFrame ==
  ASSUME TypeOK, RootsCount, [Next]_vars, workspaces' = workspaces,
         \A w \in workspaces : SystemRoots(w)' = SystemRoots(w),
         \A w \in workspaces : Inserting(w)' \subseteq Inserting(w)
  PROVE  RootsCount'
  <1> SUFFICES ASSUME NEW w \in workspaces
      PROVE  Cardinality(SystemRoots(w)) + Cardinality(Inserting(w)') <= RootsAllowed(w)'
    BY DEF RootsCount
  <1>0. TablesOK /\ w \in Workspaces
    BY DEF TypeOK, TablesOK
  <1>1. Inserting(w) \in SUBSET Clients /\ Inserting(w)' \in SUBSET Clients
    BY DEF Inserting
  <1>2. /\ Cardinality(Inserting(w)') <= Cardinality(Inserting(w))
        /\ Cardinality(Inserting(w)') \in Nat /\ Cardinality(Inserting(w)) \in Nat
        /\ Cardinality(Clients) \in Nat /\ Cardinality(SystemRoots(w)) \in Nat
    BY <1>0, <1>1, ClientSets, RootsFinite
  <1>3. Cardinality(SystemRoots(w)) + Cardinality(Inserting(w)) <= RootsAllowed(w)
    BY DEF RootsCount
  <1>4. /\ RootsAllowed(w) \in Nat /\ RootsAllowed(w)' \in Nat
        /\ RootsAllowed(w) <= RootsAllowed(w)'
    BY <1>0, AllowedGrows
  <1> QED BY <1>2, <1>3, <1>4

\* What was within bounds stays so while its roots and calls are the same.
LEMMA StillAllowed ==
  ASSUME TypeOK, RootsCount, [Next]_vars, NEW w \in workspaces
  PROVE  Cardinality(SystemRoots(w)) + Cardinality(Inserting(w)) <= RootsAllowed(w)'
  <1>1. TablesOK /\ w \in Workspaces
    BY DEF TypeOK, TablesOK
  <1>2. Inserting(w) \in SUBSET Clients
    BY DEF Inserting
  <1>3. Cardinality(SystemRoots(w)) \in Nat /\ Cardinality(Inserting(w)) \in Nat
    BY <1>1, <1>2, RootsFinite, ClientSets
  <1>4. Cardinality(SystemRoots(w)) + Cardinality(Inserting(w)) <= RootsAllowed(w)
    BY DEF RootsCount
  <1> QED BY <1>1, <1>3, <1>4, AllowedGrows

\* Every step keeps the invariant about roots.
LEMMA NextKeepsRoots ==
  ASSUME TypeOK, LegacyKept, RootsCount, [Next]_vars PROVE RootsCount'
  <1>0. /\ TablesOK /\ Len(items) \in Nat /\ calls \in [Clients -> CallRecord]
        /\ workspaces \subseteq Workspaces
    BY DEF TypeOK, TablesOK
  <1>1. ASSUME NEW c \in Clients, RootMissing(c) PROVE RootsCount'
    <2>1. PICK v : v = calls[c].ws
      OBVIOUS
    <2>2. /\ Roots(items, v) = {} /\ UNCHANGED <<workspaces, items>>
          /\ calls' = [calls EXCEPT ![c] = [calls[c] EXCEPT !.pc = "readWorkspace"]]
      BY <1>0, <1>1, <2>1 DEF RootMissing, Goto
    <2>3. \A w : SystemRoots(w)' = SystemRoots(w)
      BY <2>2 DEF SystemRoots, Roots
    <2>4. ASSUME NEW w \in workspaces
          PROVE  Cardinality(SystemRoots(w)) + Cardinality(Inserting(w)') <= RootsAllowed(w)'
      <3>1. CASE w = v
        <4>1. SystemRoots(w) = {} /\ Cardinality(SystemRoots(w)) = 0
          BY <1>0, <2>2, <3>1, RootsFinite, FS_EmptySet
        <4>2. w \in Legacy
          BY <4>1 DEF RootsCount
        <4>3. Inserting(w)' \in SUBSET Clients
          BY DEF Inserting
        <4>4. /\ Cardinality(Inserting(w)') \in Nat /\ Cardinality(Clients) \in Nat
              /\ Cardinality(Inserting(w)') <= Cardinality(Clients)
          BY <4>3, ClientSets
        <4>5. Cardinality(Clients) <= RootsAllowed(w)' /\ RootsAllowed(w)' \in Nat
          BY <1>0, <4>2, AllowedGrows
        <4> QED BY <4>1, <4>4, <4>5
      <3>2. CASE w # v
        <4>1. Inserting(w)' = Inserting(w)
          <5>1. /\ calls'[c].ws = v /\ \A d \in Clients : d # c => calls'[d] = calls[d]
            BY <1>0, <2>1, <2>2 DEF CallRecord
          <5> QED BY <2>1, <3>2, <5>1 DEF Inserting
        <4> QED BY <1>0, <4>1, StillAllowed
      <3> QED BY <3>1, <3>2
    <2> QED BY <2>2, <2>3, <2>4 DEF RootsCount
  <1>11. ASSUME NEW c \in Clients, RootQueryFails(c) PROVE RootsCount'
    <2>1. PICK v : v = calls[c].ws
      OBVIOUS
    <2>2. /\ UNCHANGED <<workspaces, items>>
          /\ calls' = [calls EXCEPT ![c] = [calls[c] EXCEPT !.pc = "readWorkspace"]]
      BY <1>0, <1>11, <2>1 DEF RootQueryFails, Goto
    <2>3. \A w : SystemRoots(w)' = SystemRoots(w)
      BY <2>2 DEF SystemRoots, Roots
    <2>4. /\ calls'[c].ws = v /\ \A d \in Clients : d # c => calls'[d] = calls[d]
      BY <1>0, <2>1, <2>2 DEF CallRecord
    <2>5. ASSUME NEW w \in workspaces
          PROVE  Cardinality(SystemRoots(w)) + Cardinality(Inserting(w)') <= RootsAllowed(w)'
      <3>1. CASE w = v
        <4>1. Inserting(w)' \subseteq Inserting(w) \cup {c} /\ Inserting(w) \in SUBSET Clients
          BY <2>4 DEF Inserting
        <4>2. /\ Cardinality(Inserting(w)') <= Cardinality(Inserting(w)) + 1
              /\ Cardinality(Inserting(w)) \in Nat
          BY <4>1, ClientSets, ClientSetsPlusOne
        <4>3. Inserting(w)' \in SUBSET Clients
          BY <4>1
        <4>4. Cardinality(Inserting(w)') \in Nat
          BY <4>3, ClientSets
        <4>5. RootsAllowed(w)' = RootsAllowed(w) + 1 /\ RootsAllowed(w) \in Nat
          BY <1>0, <1>11, <2>1, <3>1, AllowedGrows
        <4>6. Cardinality(SystemRoots(w)) + Cardinality(Inserting(w)) <= RootsAllowed(w)
          BY DEF RootsCount
        <4>7. Cardinality(SystemRoots(w)) \in Nat
          BY <1>0, RootsFinite
        <4> QED BY <4>2, <4>4, <4>5, <4>6, <4>7
      <3>2. CASE w # v
        <4>1. Inserting(w)' = Inserting(w)
          BY <2>1, <2>4, <3>2 DEF Inserting
        <4> QED BY <1>0, <4>1, StillAllowed
      <3> QED BY <3>1, <3>2
    <2> QED BY <2>2, <2>3, <2>5 DEF RootsCount
  <1>2. ASSUME NEW c \in Clients, InsertRoot(c) PROVE RootsCount'
    <2>1. PICK v : v = calls[c].ws
      OBVIOUS
    <2>2. /\ Insert(PlainItem(v, NoParent, "system", None)) /\ workspaces' = workspaces
          /\ calls' = [calls EXCEPT ![c] = [calls[c] EXCEPT !.pc = "readRoot"]]
          /\ calls[c].pc = "insertRoot" /\ v \in workspaces
      BY <1>0, <1>2, <2>1 DEF InsertRoot, Goto, At, TypeOK, TablesOK, CallShape
    <2>3. \A w : SystemRoots(w)' = IF w = v THEN SystemRoots(w) \cup {Len(items) + 1}
                                   ELSE SystemRoots(w)
      <3>1. PICK row : row = PlainItem(v, NoParent, "system", None)
        OBVIOUS
      <3>2. row.ws = v /\ row.parent = NoParent /\ row.by = "system"
        BY <3>1 DEF PlainItem
      <3>3. Insert(row)
        BY <2>2, <3>1
      <3> QED BY <1>0, <3>2, <3>3, RootsGrow
    <2>4. c \in Inserting(v) /\ Inserting(v)' = Inserting(v) \ {c}
          /\ \A w : w # v => Inserting(w)' = Inserting(w)
      BY <1>0, <2>1, <2>2 DEF Inserting, CallRecord
    <2>6. Inserting(v) \in SUBSET Clients
      BY DEF Inserting
    <2>7. /\ Cardinality(Inserting(v)') = Cardinality(Inserting(v)) - 1
          /\ Cardinality(Inserting(v)) \in Nat
      BY <2>4, <2>6, ClientSets
    <2>8. /\ Cardinality(SystemRoots(v)') = Cardinality(SystemRoots(v)) + 1
          /\ Cardinality(SystemRoots(v)) \in Nat
      BY <1>0, <2>3, RootsFinite, FS_AddElement
    <2>9. /\ Cardinality(SystemRoots(v)) + Cardinality(Inserting(v)) <= RootsAllowed(v)'
          /\ RootsAllowed(v)' \in Nat
      BY <1>0, <2>2, StillAllowed, AllowedGrows
    <2>10. /\ Cardinality(SystemRoots(v)') + Cardinality(Inserting(v)') <= RootsAllowed(v)'
           /\ SystemRoots(v)' # {}
      <3>1. SystemRoots(v)' # {}
        BY <2>3
      <3>2. Cardinality(SystemRoots(v)') + Cardinality(Inserting(v)')
              = Cardinality(SystemRoots(v)) + Cardinality(Inserting(v))
        BY <2>7, <2>8
      <3> QED BY <2>9, <3>1, <3>2
    <2>11. ASSUME NEW w \in workspaces, w # v
           PROVE  SystemRoots(w)' = SystemRoots(w) /\ Inserting(w)' = Inserting(w)
      BY <2>3, <2>4, <2>11
    <2>12. ASSUME NEW w \in workspaces, w # v
           PROVE  /\ Cardinality(SystemRoots(w)') + Cardinality(Inserting(w)') <= RootsAllowed(w)'
                  /\ w \notin Legacy => SystemRoots(w)' # {}
      BY <2>11, <2>12, StillAllowed DEF RootsCount
    <2> QED BY <2>2, <2>10, <2>12 DEF RootsCount
  <1>3. ASSUME NEW c \in Clients, Call(c) \/ Step(c) \/ Fail(c), ~RootMissing(c),
               ~RootQueryFails(c)
        PROVE  \A w : Inserting(w)' \subseteq Inserting(w)
    <2>1. WorkspaceFound(c) => /\ calls[c].pc = "readWorkspace"
                               /\ calls' = [calls EXCEPT ![c] = [calls[c] EXCEPT !.pc = "insertRoot"]]
      BY <1>0 DEF WorkspaceFound, At, Goto
    <2>2. WorkspaceFound(c) => calls[c].pc = "readWorkspace" /\ calls'[c].ws = calls[c].ws
      BY <1>0, <2>1 DEF CallRecord
    <2> QED BY <1>0, <1>3, <2>2, PastTheCheck DEF Inserting
  <1>4. ASSUME NEW c \in Clients, AppendItem(c) PROVE RootsCount'
    <2>1. PICK row : Insert(row) /\ row.by = "caller" /\ workspaces' = workspaces
      BY <1>4 DEF AppendItem, StructuredItem
    <2>2. \A w : SystemRoots(w)' = SystemRoots(w)
      BY <1>0, <2>1, RootsGrow
    <2>3. ~RootMissing(c) /\ ~RootQueryFails(c)
      BY <1>4 DEF AppendItem, RootMissing, RootQueryFails, At
    <2> QED BY <1>3, <1>4, <2>1, <2>2, <2>3, RootsFrame DEF Step
  <1>5. ASSUME NEW c \in Clients, CommitUpdate(c) PROVE RootsCount'
    <2>1. PICK i \in 1..Len(items) : i = calls[c].item
      BY <1>0, <1>5, CommitFacts
    <2>2. /\ Len(items') = Len(items) /\ workspaces' = workspaces
          /\ items'[i] = Revised(c) /\ \A k \in 1..Len(items) : k # i => items'[k] = items[k]
          /\ Revised(c).ws = items[i].ws /\ Revised(c).parent = items[i].parent
          /\ Revised(c).by = items[i].by
      BY <1>0, <1>5, <2>1, CommitFacts, RewriteKeepsTable
    <2>3. \A w : SystemRoots(w)' = SystemRoots(w)
      <3>1. \A k \in 1..Len(items) : /\ items'[k].ws = items[k].ws
                                     /\ items'[k].parent = items[k].parent
                                     /\ items'[k].by = items[k].by
        BY <2>2
      <3> QED BY <1>0, <2>2, <3>1, RootsStay
    <2>4. ~RootMissing(c) /\ ~RootQueryFails(c)
      BY <1>5 DEF CommitUpdate, RootMissing, RootQueryFails, At
    <2> QED BY <1>3, <1>5, <2>2, <2>3, <2>4, RootsFrame DEF Step
  <1>6. ASSUME NEW c \in Clients, Call(c) \/ Step(c) \/ Fail(c),
               ~RootMissing(c), ~RootQueryFails(c), ~InsertRoot(c), ~AppendItem(c),
               ~CommitUpdate(c)
        PROVE  RootsCount'
    <2>1. UNCHANGED <<items, workspaces>>
      BY <1>6 DEF Call, Step, Fail, GetOrCreateTree, RootFound, WorkspaceFound,
                  CreateStructuredItem, WithinBudget, CountFails, BudgetExhausted,
                  UpdateItemSummary, ContextAllows, ContextRefuses, UpdateItem
    <2>2. \A w : SystemRoots(w)' = SystemRoots(w)
      BY <2>1 DEF SystemRoots, Roots
    <2> QED BY <1>3, <1>6, <2>1, <2>2, RootsFrame
  <1>7. ASSUME NEW v \in Workspaces, CreateWorkspace(v) PROVE RootsCount'
    <2>1. /\ Insert(PlainItem(v, NoParent, "system", None)) /\ v \notin workspaces
          /\ workspaces' = workspaces \cup {v} /\ calls' = calls
      BY <1>7 DEF CreateWorkspace
    <2>2. \A w : SystemRoots(w)' = IF w = v THEN SystemRoots(w) \cup {Len(items) + 1}
                                   ELSE SystemRoots(w)
      BY <1>0, <2>1, RootsGrow DEF PlainItem
    <2>3. SystemRoots(v)' = {Len(items) + 1} /\ Cardinality(SystemRoots(v)') = 1
      <3>1. SystemRoots(v) = {}
        BY <1>0, <2>1, RootsFinite
      <3>2. SystemRoots(v)' = SystemRoots(v) \cup {Len(items) + 1}
        BY <2>2
      <3>3. SystemRoots(v)' = {Len(items) + 1}
        BY <3>1, <3>2
      <3> QED BY <3>3, FS_Singleton
    <2>4. Inserting(v)' = {} /\ \A w : Inserting(w)' = Inserting(w)
      <3>1. \A c \in Clients : calls[c].pc \in {"readWorkspace", "insertRoot"} =>
                calls[c].ws \in workspaces
        BY <1>0 DEF TablesOK, CallShape
      <3>2. Inserting(v) = {}
        BY <2>1, <3>1 DEF Inserting
      <3> QED BY <2>1, <3>2 DEF Inserting
    <2>5. v \notin Legacy
      BY <2>1 DEF LegacyKept
    <2>6. Cardinality(SystemRoots(v)') + Cardinality(Inserting(v)') <= RootsAllowed(v)'
      BY <2>3, <2>4, <2>5, AllowedGrows, FS_EmptySet
    <2>7. ASSUME NEW w \in workspaces
          PROVE  /\ Cardinality(SystemRoots(w)') + Cardinality(Inserting(w)') <= RootsAllowed(w)'
                 /\ w \notin Legacy => SystemRoots(w)' # {}
      BY <2>1, <2>2, <2>4, StillAllowed DEF RootsCount
    <2> QED BY <2>1, <2>3, <2>6, <2>7 DEF RootsCount
  <1>8. ASSUME NEW v \in Workspaces, NEW p \in 0..Len(items), CreateItem(v, p) PROVE RootsCount'
    <2>1. PICK row : Insert(row) /\ row.by = "caller" /\ workspaces' = workspaces /\ calls' = calls
      BY <1>8 DEF CreateItem, PlainItem
    <2>2. \A w : SystemRoots(w)' = SystemRoots(w) /\ Inserting(w)' = Inserting(w)
      BY <1>0, <2>1, RootsGrow DEF Inserting
    <2> QED BY <2>1, <2>2, RootsFrame
  <1>9. ASSUME NEW i \in 1..Len(items), NEW g \in EditorStates, Curate(i, g) PROVE RootsCount'
    <2>1. /\ Len(items') = Len(items) /\ UNCHANGED <<workspaces, calls>>
          /\ items'[i] = Curated(i, g) /\ \A k \in 1..Len(items) : k # i => items'[k] = items[k]
          /\ Curated(i, g).ws = items[i].ws /\ Curated(i, g).parent = items[i].parent
          /\ Curated(i, g).by = items[i].by
      BY <1>0, <1>9, CurateFacts, RewriteKeepsTable
    <2>2. \A w : SystemRoots(w)' = SystemRoots(w) /\ Inserting(w)' = Inserting(w)
      <3>1. \A k \in 1..Len(items) : /\ items'[k].ws = items[k].ws
                                     /\ items'[k].parent = items[k].parent
                                     /\ items'[k].by = items[k].by
        BY <2>1
      <3> QED BY <1>0, <2>1, <3>1, RootsStay DEF Inserting
    <2> QED BY <2>1, <2>2, RootsFrame
  <1>10. CASE UNCHANGED vars
    <2>1. UNCHANGED <<workspaces, items, calls>>
      BY <1>10 DEF vars
    <2>2. \A w : SystemRoots(w)' = SystemRoots(w) /\ Inserting(w)' = Inserting(w)
      BY <2>1 DEF SystemRoots, Roots, Inserting
    <2> QED BY <2>1, <2>2, RootsFrame
  <1> QED BY <1>1, <1>2, <1>4, <1>5, <1>6, <1>7, <1>8, <1>9, <1>10, <1>11 DEF Next, Setup

\* The invariant about roots holds in every reachable state.
LEMMA RootsAlways == Spec => [](TypeOK /\ RootsInv)
  <1>1. Init => TypeOK /\ RootsInv
    <2> SUFFICES ASSUME Init, NEW w \in workspaces
                 PROVE  /\ w \in Legacy
                        /\ Cardinality(SystemRoots(w)) + Cardinality(Inserting(w))
                             <= RootsAllowed(w)
      BY InitTypeOK DEF RootsInv, RootsCount, LegacyKept, Init
    <2>1. SystemRoots(w) = {} /\ Inserting(w) = {} /\ w \in Legacy
      BY IdleType DEF Init, SystemRoots, Roots, Inserting
    <2>2. RootsAllowed(w) \in Nat
      BY <2>1, ClientSets DEF RootsAllowed, Init
    <2> QED BY <2>1, <2>2, FS_EmptySet
  <1>2. TypeOK /\ RootsInv /\ [Next]_vars => TypeOK' /\ RootsInv'
    <2> SUFFICES ASSUME TypeOK, RootsInv, [Next]_vars PROVE RootsInv'
      BY NextKeepsTypeOK
    <2>1. workspaces \subseteq workspaces'
      BY DEF Next, Setup, CreateWorkspace, CreateItem, Call, Step, Fail, GetOrCreateTree,
             RootFound, RootMissing, RootQueryFails, WorkspaceFound, InsertRoot,
             CreateStructuredItem, WithinBudget, CountFails, BudgetExhausted, AppendItem,
             UpdateItemSummary, ContextAllows, ContextRefuses, UpdateItem, CommitUpdate,
             Curate, vars
    <2> QED BY <2>1, NextKeepsRoots DEF RootsInv, LegacyKept
  <1> QED BY <1>1, <1>2, PTL DEF Spec

\* GetOrCreateTree adds to a workspace that came with a root no other, and to an old
\* one at most one from each client, but for one more after each failed root query.
THEOREM RootsBounded == Spec => []RootsBound
  <1>1. TypeOK /\ RootsInv => RootsBound
    <2> SUFFICES ASSUME TypeOK, RootsInv, NEW w \in workspaces
                 PROVE  Cardinality(SystemRoots(w)) <= RootsAllowed(w)
      BY DEF RootsBound
    <2>1. Inserting(w) \in SUBSET Clients /\ TablesOK /\ w \in Workspaces
      BY DEF Inserting, TypeOK, TablesOK
    <2>2. Cardinality(Inserting(w)) \in Nat /\ Cardinality(SystemRoots(w)) \in Nat
      BY <2>1, ClientSets, RootsFinite
    <2>3. Cardinality(SystemRoots(w)) + Cardinality(Inserting(w)) <= RootsAllowed(w)
      BY DEF RootsInv, RootsCount
    <2>4. RootsAllowed(w) \in Nat
      BY <2>1, ClientSets DEF RootsAllowed, TypeOK
    <2> QED BY <2>2, <2>3, <2>4
  <1> QED BY <1>1, RootsAlways, PTL

\* The trees that were never at risk: made by CreateWorkspace, every root query answered.
MadeTreesWhole ==
    \A w \in workspaces \ Legacy : misled[w] = 0 => Cardinality(SystemRoots(w)) = 1

(***************************************************************************)
(* "1 workspace = 1 tree" holds of every workspace made by CreateWorkspace *)
(* as long as no root query about it has failed: it has exactly one root   *)
(* of the system's, however many calls of GetOrCreateTree overlap or fail  *)
(* half way.                                                               *)
(***************************************************************************)
THEOREM MadeWorkspaceIsOneTree == Spec => []MadeTreesWhole
  <1>1. ASSUME TypeOK, RootsInv PROVE MadeTreesWhole
    <2> SUFFICES ASSUME NEW w \in workspaces \ Legacy, misled[w] = 0
                 PROVE  Cardinality(SystemRoots(w)) = 1
      BY DEF MadeTreesWhole
    <2>1. TablesOK /\ Inserting(w) \in SUBSET Clients
      BY <1>1 DEF Inserting, TypeOK
    <2>2. /\ Cardinality(SystemRoots(w)) \in Nat /\ IsFiniteSet(SystemRoots(w))
          /\ Cardinality(Inserting(w)) \in Nat
      BY <2>1, ClientSets, RootsFinite
    <2>3. /\ SystemRoots(w) # {} /\ RootsAllowed(w) = 1
          /\ Cardinality(SystemRoots(w)) + Cardinality(Inserting(w)) <= RootsAllowed(w)
      BY <1>1 DEF RootsInv, RootsCount, RootsAllowed
    <2>4. Cardinality(SystemRoots(w)) # 0
      BY <2>2, <2>3, FS_EmptySet
    <2> QED BY <2>2, <2>3, <2>4
  <1> QED BY <1>1, RootsAlways, PTL

----------------------------------------------------------------------------
(* Audit *)

\* Some row of the log L tells that item i was left with content x.
LeftBy(L, i, x) == \E l \in 1..Len(L) : L[l].item = i /\ L[l].after = x

\* What a call holds for the content before was left by an audit row.
BeforeLogged(L, call) ==
    /\ call.pc \in {"count", "append", "readContext"} => call.before = None
    /\ call.pc \in {"update", "commit"} =>
          call.before = None \/ LeftBy(L, call.item, call.before)

\* So was every content a job wrote.
ContentsLogged ==
    /\ \A i \in 1..Len(items) : items[i].content = None \/ LeftBy(log, i, items[i].content)
    /\ \A c \in Clients : BeforeLogged(log, calls[c])

AuditInv == AuditTail /\ ContentsLogged /\ BeforeWasContent

\* A row appended to the log is the last one of its item and leaves the others' alone.
LEMMA EntriesGrow ==
  ASSUME TablesOK, NEW entry, log' = Append(log, entry)
  PROVE  /\ Len(log) \in Nat /\ Len(log') = Len(log) + 1 /\ log'[Len(log) + 1] = entry
         /\ \A k \in 1..Len(log) : log'[k] = log[k]
         /\ 1..Len(log') = 1..Len(log) \cup {Len(log) + 1}
         /\ \A i : EntriesOf(i)' = IF entry.item = i THEN EntriesOf(i) \cup {Len(log) + 1}
                                   ELSE EntriesOf(i)
         /\ \A i : EntriesOf(i) \subseteq 1..Len(log)
         /\ \A i, x : LeftBy(log, i, x) => LeftBy(log', i, x)
         /\ LeftBy(log', entry.item, entry.after)
  <1>1. log \in Seq(Entry) /\ Len(log) \in Nat
    BY DEF TablesOK
  <1>2. /\ Len(log') = Len(log) + 1 /\ log'[Len(log) + 1] = entry
        /\ \A k \in 1..Len(log) : log'[k] = log[k]
    BY <1>1
  <1>3. 1..Len(log') = 1..Len(log) \cup {Len(log) + 1} /\ Len(log) + 1 \notin 1..Len(log)
    BY <1>1, <1>2
  <1>4. \A i : EntriesOf(i) \subseteq 1..Len(log)
    BY DEF EntriesOf
  <1>5. \A i : EntriesOf(i)' = IF entry.item = i THEN EntriesOf(i) \cup {Len(log) + 1}
                               ELSE EntriesOf(i)
    BY <1>2, <1>3 DEF EntriesOf
  <1>6. \A i, x : LeftBy(log, i, x) => LeftBy(log', i, x)
    BY <1>2, <1>3 DEF LeftBy
  <1>7. LeftBy(log', entry.item, entry.after)
    BY <1>2, <1>3 DEF LeftBy
  <1> QED BY <1>1, <1>2, <1>3, <1>4, <1>5, <1>6, <1>7

\* One more audit row whose content before was left by an earlier one keeps the
\* property of all audit rows.
LEMMA BeforeGrows ==
  ASSUME TablesOK, BeforeWasContent, NEW entry, log' = Append(log, entry),
         entry.before = None \/ LeftBy(log, entry.item, entry.before)
  PROVE  BeforeWasContent'
  <1> SUFFICES ASSUME NEW k \in 1..Len(log'), log'[k].before # None
               PROVE  \E l \in 1..Len(log') : /\ log'[l].item = log'[k].item /\ l < k
                                              /\ log'[l].after = log'[k].before
    BY DEF BeforeWasContent, EntriesOf
  <1>1. CASE k \in 1..Len(log)
    <2>1. log'[k] = log[k]
      BY <1>1, EntriesGrow
    <2>2. PICK l \in 1..Len(log) : /\ log[l].item = log[k].item /\ l < k
                                   /\ log[l].after = log[k].before
      BY <1>1, <2>1 DEF BeforeWasContent, EntriesOf
    <2>3. l \in 1..Len(log') /\ log'[l] = log[l]
      BY EntriesGrow
    <2> QED BY <2>1, <2>2, <2>3
  <1>2. CASE k = Len(log) + 1
    <2>1. log'[k] = entry
      BY <1>2, EntriesGrow
    <2>2. PICK l \in 1..Len(log) : log[l].item = entry.item /\ log[l].after = entry.before
      BY <2>1 DEF LeftBy
    <2>3. l \in 1..Len(log') /\ log'[l] = log[l] /\ l < k
      BY <1>2, EntriesGrow
    <2> QED BY <2>1, <2>2, <2>3
  <1> QED BY <1>1, <1>2, EntriesGrow

\* A step that leaves the log, what jobs wrote into the rows and the calls past
\* their read alone, and adds only rows without content, keeps the audit invariant.
LEMMA AuditFrame ==
  ASSUME TablesOK, AuditInv, log' = log, Len(items') \in Nat, Len(items) <= Len(items'),
         \A i \in 1..Len(items) : items'[i].content = items[i].content
                                  /\ items'[i].job = items[i].job,
         \A i \in 1..Len(items') : i > Len(items) =>
                items'[i].content = None /\ items'[i].job = None,
         \A c \in Clients : BeforeLogged(log, calls'[c])
  PROVE  AuditInv'
  <1>0. Len(items) \in Nat /\ \A k \in 1..Len(log) : log[k].item \in 1..Len(items)
    BY DEF TablesOK
  <1>1. \A i : EntriesOf(i)' = EntriesOf(i)
    BY DEF EntriesOf
  <1>2. \A i \in 1..Len(items') : i > Len(items) => EntriesOf(i) = {}
    BY <1>0 DEF EntriesOf
  <1>3. AuditTail'
    <2> SUFFICES ASSUME NEW i \in 1..Len(items')
                 PROVE  /\ EntriesOf(i) = {} => items'[i].job = None /\ items'[i].content = None
                        /\ \A k \in EntriesOf(i) : (\A l \in EntriesOf(i) : l <= k) =>
                              items'[i].job = log[k].job /\ items'[i].content = log[k].after
      BY <1>1 DEF AuditTail
    <2>1. CASE i \in 1..Len(items)
      <3>1. /\ EntriesOf(i) = {} => items[i].job = None /\ items[i].content = None
            /\ \A k \in EntriesOf(i) : (\A l \in EntriesOf(i) : l <= k) =>
                  items[i].job = log[k].job /\ items[i].content = log[k].after
        BY <2>1 DEF AuditInv, AuditTail
      <3> QED BY <2>1, <3>1
    <2>2. CASE i > Len(items)
      BY <1>2, <2>2
    <2> QED BY <1>0, <2>1, <2>2
  <1>4. ContentsLogged'
    BY <1>0 DEF AuditInv, ContentsLogged
  <1>5. BeforeWasContent'
    BY <1>0 DEF AuditInv, BeforeWasContent, EntriesOf
  <1> QED BY <1>3, <1>4, <1>5 DEF AuditInv

\* A row a job wrote together with its audit row, the other rows and calls as they
\* were: the two writes of AppendItem and of CommitUpdate.
LEMMA WriteKeepsAudit ==
  ASSUME TablesOK, AuditInv, NEW c \in Clients, Return(c), NEW entry, log' = Append(log, entry),
         entry.before = None \/ LeftBy(log, entry.item, entry.before),
         entry.item \in 1..Len(items'), Len(items') \in Nat, Len(items) <= Len(items'),
         \A i \in 1..Len(items') : i > Len(items) => i = entry.item,
         items'[entry.item].content = entry.after, items'[entry.item].job = entry.job,
         \A i \in 1..Len(items) : i # entry.item => items'[i] = items[i]
  PROVE  AuditInv'
  <1>0. Len(items) \in Nat /\ calls \in [Clients -> CallRecord]
    BY DEF TablesOK
  <1>1. ASSUME NEW i \in 1..Len(items'), i # entry.item
        PROVE  i \in 1..Len(items) /\ items'[i] = items[i] /\ EntriesOf(i)' = EntriesOf(i)
    BY <1>0, <1>1, EntriesGrow
  <1>2. AuditTail'
    <2> SUFFICES ASSUME NEW i \in 1..Len(items')
                 PROVE  /\ EntriesOf(i)' = {} => items'[i].job = None /\ items'[i].content = None
                        /\ \A k \in EntriesOf(i)' : (\A l \in EntriesOf(i)' : l <= k) =>
                              items'[i].job = log'[k].job /\ items'[i].content = log'[k].after
      BY DEF AuditTail
    <2>1. CASE i = entry.item
      <3>1. Len(log) + 1 \in EntriesOf(i)' /\ EntriesOf(i)' \subseteq 1..(Len(log) + 1)
        BY <2>1, EntriesGrow
      <3>2. ASSUME NEW k \in EntriesOf(i)', \A l \in EntriesOf(i)' : l <= k
            PROVE  k = Len(log) + 1
        BY <3>1, <3>2, EntriesGrow
      <3> QED BY <2>1, <3>1, <3>2, EntriesGrow
    <2>2. CASE i # entry.item
      <3>1. \A k \in EntriesOf(i) : log'[k] = log[k]
        BY EntriesGrow
      <3>2. /\ i \in 1..Len(items) /\ items'[i] = items[i] /\ EntriesOf(i)' = EntriesOf(i)
        BY <1>1, <2>2
      <3>3. /\ EntriesOf(i) = {} => items[i].job = None /\ items[i].content = None
            /\ \A k \in EntriesOf(i) : (\A l \in EntriesOf(i) : l <= k) =>
                  items[i].job = log[k].job /\ items[i].content = log[k].after
        BY <3>2 DEF AuditInv, AuditTail
      <3> QED BY <3>1, <3>2, <3>3
    <2> QED BY <2>1, <2>2
  <1>3. ContentsLogged'
    <2>1. ASSUME NEW i \in 1..Len(items')
          PROVE  items'[i].content = None \/ LeftBy(log', i, items'[i].content)
      <3>1. CASE i = entry.item
        BY <3>1, EntriesGrow
      <3>2. CASE i # entry.item
        BY <1>1, <3>2, EntriesGrow DEF AuditInv, ContentsLogged
      <3> QED BY <3>1, <3>2
    <2>2. ASSUME NEW d \in Clients
          PROVE  BeforeLogged(log', calls'[d])
      <3>1. CASE d = c
        <4>1. calls'[d].pc = "idle"
          BY <1>0, <3>1, IdleType DEF Return
        <4> QED BY <4>1 DEF BeforeLogged
      <3>2. CASE d # c
        <4>1. calls'[d] = calls[d]
          BY <1>0, <3>2 DEF Return
        <4> QED BY <4>1, EntriesGrow DEF AuditInv, ContentsLogged, BeforeLogged
      <3> QED BY <3>1, <3>2
    <2> QED BY <2>1, <2>2 DEF ContentsLogged
  <1>4. BeforeWasContent'
    BY BeforeGrows DEF AuditInv
  <1> QED BY <1>2, <1>3, <1>4 DEF AuditInv

\* A call begins with nothing in hand for the content before.
LEMMA CallBegins ==
  ASSUME NEW c \in Clients, Call(c)
  PROVE  \E call : /\ calls' = [calls EXCEPT ![c] = call]
                   /\ call.before = None
                   /\ call.pc \notin {"update", "commit"}
  <1>1. CASE \E w \in Workspaces : GetOrCreateTree(c, w)
    <2>1. PICK w \in Workspaces : GetOrCreateTree(c, w)
      BY <1>1
    <2>2. PICK call : call = [Idle EXCEPT !.pc = "readRoot", !.ws = w]
      OBVIOUS
    <2>3. call.before = None /\ call.pc = "readRoot"
      BY <2>2 DEF Idle
    <2> QED BY <2>1, <2>2, <2>3 DEF GetOrCreateTree
  <1>2. CASE \E j \in Jobs, p \in 0..Len(items) : \E x \in Writes[j] :
                CreateStructuredItem(c, j, p, x)
    <2>1. PICK j \in Jobs, p \in 0..Len(items) :
                \E x \in Writes[j] : CreateStructuredItem(c, j, p, x)
      BY <1>2
    <2> PICK x \in Writes[j] : CreateStructuredItem(c, j, p, x)
      BY <2>1
    <2>2. PICK call : call = [Idle EXCEPT !.pc = IF Budget[j] > 0 THEN "count" ELSE "append",
                                          !.ws = Home[j], !.job = j, !.parent = p,
                                          !.content = x]
      OBVIOUS
    <2>3. call.before = None /\ call.pc \in {"count", "append"}
      BY <2>2 DEF Idle
    <2> QED BY <2>1, <2>2, <2>3 DEF CreateStructuredItem
  <1>3. CASE \E j \in Jobs, i \in 1..Len(items) : \E x \in Writes[j] :
                UpdateItemSummary(c, j, i, x)
    <2>1. PICK j \in Jobs, i \in 1..Len(items) :
                \E x \in Writes[j] : UpdateItemSummary(c, j, i, x)
      BY <1>3
    <2> PICK x \in Writes[j] : UpdateItemSummary(c, j, i, x)
      BY <2>1
    <2>2. PICK call : call = [Idle EXCEPT !.pc = "readContext", !.ws = Home[j], !.job = j,
                                          !.item = i, !.content = x]
      OBVIOUS
    <2>3. call.before = None /\ call.pc = "readContext"
      BY <2>2 DEF Idle
    <2> QED BY <2>1, <2>2, <2>3 DEF UpdateItemSummary
  <1> QED BY <1>1, <1>2, <1>3 DEF Call

\* Every step keeps the audit invariant.
LEMMA NextKeepsAudit == TablesOK /\ AuditInv /\ [Next]_vars => AuditInv'
  <1> SUFFICES ASSUME TablesOK, AuditInv, [Next]_vars PROVE AuditInv'
    OBVIOUS
  <1>0. /\ Len(items) \in Nat /\ calls \in [Clients -> CallRecord]
        /\ \A c \in Clients : BeforeLogged(log, calls[c])
    BY DEF TablesOK, AuditInv, ContentsLogged
  <1>1. ASSUME NEW c \in Clients, AppendItem(c) PROVE AuditInv'
    <2>1. PICK n \in Nat : n = Len(items) + 1
      BY <1>0
    <2>2. PICK row : row = StructuredItem(calls[c].ws, calls[c].parent, calls[c].content,
                                          calls[c].job)
      OBVIOUS
    <2>3. PICK entry : entry = LogEntry(c, n, "append")
      OBVIOUS
    <2>4. /\ Insert(row) /\ log' = Append(log, entry) /\ Return(c) /\ At(c, "append")
          /\ entry.before = calls[c].before /\ entry.item = n /\ entry.after = calls[c].content
          /\ entry.job = calls[c].job
          /\ row.content = calls[c].content /\ row.job = calls[c].job
      BY <1>1, <2>1, <2>2, <2>3 DEF AppendItem, Logged, LogEntry, StructuredItem
    <2>5. entry.before = None
      BY <1>0, <2>4 DEF At, BeforeLogged
    <2>6. /\ Len(items') = n /\ items'[n] = row
          /\ \A i \in 1..Len(items) : items'[i] = items[i]
      BY <2>1, <2>4, InsertLeavesRows
    <2>7. /\ Len(items') \in Nat /\ Len(items) <= Len(items') /\ entry.item \in 1..Len(items')
          /\ \A i \in 1..Len(items') : i > Len(items) => i = entry.item
          /\ \A i \in 1..Len(items) : i # entry.item => items'[i] = items[i]
      BY <1>0, <2>1, <2>4, <2>6
    <2>8. /\ items'[entry.item].content = entry.after /\ items'[entry.item].job = entry.job
          /\ entry.before = None \/ LeftBy(log, entry.item, entry.before)
      BY <2>4, <2>5, <2>6
    <2>9. Return(c) /\ log' = Append(log, entry)
      BY <2>4
    <2> QED BY <2>7, <2>8, <2>9, WriteKeepsAudit
  <1>2. ASSUME NEW c \in Clients, CommitUpdate(c) PROVE AuditInv'
    <2>1. PICK i \in 1..Len(items) : i = calls[c].item
      BY <1>2, CommitFacts
    <2>2. PICK entry : entry = LogEntry(c, i, "revise")
      OBVIOUS
    <2>3. /\ log' = Append(log, entry) /\ Return(c) /\ At(c, "commit")
          /\ entry.before = calls[c].before /\ entry.item = i /\ entry.after = calls[c].content
          /\ entry.job = calls[c].job
      BY <1>2, <2>1, <2>2 DEF CommitUpdate, Logged, LogEntry
    <2>4. entry.before = None \/ LeftBy(log, i, entry.before)
      BY <1>0, <2>1, <2>3 DEF At, BeforeLogged
    <2>5. /\ Len(items') = Len(items)
          /\ items'[i] = Revised(c) /\ \A k \in 1..Len(items) : k # i => items'[k] = items[k]
          /\ Revised(c).content = calls[c].content /\ Revised(c).job = calls[c].job
      BY <1>2, <2>1, CommitFacts, RewriteKeepsTable
    <2>6. /\ Len(items') \in Nat /\ Len(items) <= Len(items') /\ entry.item \in 1..Len(items')
          /\ \A k \in 1..Len(items') : k > Len(items) => k = entry.item
          /\ \A k \in 1..Len(items) : k # entry.item => items'[k] = items[k]
      BY <1>0, <2>1, <2>3, <2>5
    <2>7. /\ items'[entry.item].content = entry.after /\ items'[entry.item].job = entry.job
          /\ entry.before = None \/ LeftBy(log, entry.item, entry.before)
      BY <2>3, <2>4, <2>5
    <2>8. Return(c) /\ log' = Append(log, entry)
      BY <2>3
    <2> QED BY <2>6, <2>7, <2>8, WriteKeepsAudit
  <1>3. ASSUME NEW c \in Clients, Call(c) \/ Step(c) \/ Fail(c),
               ~AppendItem(c), ~CommitUpdate(c), ~InsertRoot(c)
        PROVE  AuditInv'
    <2>1. UNCHANGED <<items, log>>
      BY <1>3 DEF Call, Step, Fail, GetOrCreateTree, RootFound, RootMissing, RootQueryFails,
                  WorkspaceFound, CreateStructuredItem, WithinBudget, CountFails,
                  BudgetExhausted, UpdateItemSummary,
                  ContextAllows, ContextRefuses, UpdateItem
    <2>2. BeforeLogged(log, calls'[c])
      <3>1. CASE Call(c)
        <4>1. PICK call : /\ calls' = [calls EXCEPT ![c] = call]
                          /\ call.before = None
                          /\ call.pc \notin {"update", "commit"}
          BY <3>1, CallBegins
        <4> QED BY <1>0, <4>1 DEF BeforeLogged
      <3>2. CASE Return(c)
        <4>1. calls'[c].pc = "idle"
          BY <1>0, <3>2, IdleType DEF Return
        <4> QED BY <4>1 DEF BeforeLogged
      <3>3. CASE ContextAllows(c)
        <4>1. PICK i \in 1..Len(items) : i = calls[c].item
          BY <3>3 DEF TablesOK, CallShape, ContextAllows, At
        <4>2. calls' = [calls EXCEPT ![c] = [calls[c] EXCEPT
                           !.pc = "update", !.before = items[i].content]]
          BY <1>0, <3>3, <4>1 DEF ContextAllows
        <4>3. calls'[c].pc = "update" /\ calls'[c].before = items[i].content
              /\ calls'[c].item = i
          BY <1>0, <4>1, <4>2 DEF CallRecord
        <4> QED BY <4>3 DEF AuditInv, ContentsLogged, BeforeLogged
      <3>4. ASSUME NEW pc \in {"readWorkspace", "insertRoot"}, Goto(c, pc)
            PROVE  calls'[c].pc = pc
        BY <1>0, <3>4 DEF Goto, CallRecord
      <3>5. CASE WithinBudget(c) \/ CountFails(c) \/ UpdateItem(c)
        <4>1. /\ calls'[c].before = calls[c].before /\ calls'[c].item = calls[c].item
              /\ \/ calls[c].pc = "count" /\ calls'[c].pc = "append"
                 \/ calls[c].pc = "update" /\ calls'[c].pc = "commit"
          BY <1>0, <3>5 DEF WithinBudget, CountFails, UpdateItem, Goto, At, CallRecord
        <4> QED BY <1>0, <4>1 DEF BeforeLogged
      <3>6. CASE RootMissing(c) \/ RootQueryFails(c) \/ WorkspaceFound(c)
        BY <3>4, <3>6 DEF RootMissing, RootQueryFails, WorkspaceFound, BeforeLogged
      <3>7. CASE RootFound(c) \/ BudgetExhausted(c) \/ ContextRefuses(c) \/ Fail(c)
        BY <3>2, <3>7 DEF RootFound, BudgetExhausted, ContextRefuses, Fail
      <3> QED BY <1>3, <3>1, <3>3, <3>5, <3>6, <3>7 DEF Step
    <2>3. \A d \in Clients : d # c => calls'[d] = calls[d]
      BY <1>3, PastTheCheck
    <2> QED BY <1>0, <2>1, <2>2, <2>3, AuditFrame
  <1>4. ASSUME NEW w, NEW q, NEW by, Insert(PlainItem(w, q, by, None)), log' = log,
               \A c \in Clients : calls'[c] = calls[c] \/ calls'[c].pc = "readRoot"
        PROVE  AuditInv'
    <2>1. /\ Len(items') = Len(items) + 1 /\ items'[Len(items) + 1].content = None
          /\ items'[Len(items) + 1].job = None
          /\ \A i \in 1..Len(items) : items'[i] = items[i]
      <3>1. PICK row : row = PlainItem(w, q, by, None)
        OBVIOUS
      <3>2. row.content = None /\ row.job = None
        BY <3>1 DEF PlainItem
      <3> QED BY <1>4, <3>1, <3>2, InsertLeavesRows
    <2>2. \A i \in 1..Len(items') : i > Len(items) => i = Len(items) + 1
      BY <1>0, <2>1
    <2>3. \A c \in Clients : BeforeLogged(log, calls'[c])
      BY <1>0, <1>4 DEF BeforeLogged
    <2>4. Len(items') \in Nat /\ Len(items) <= Len(items')
      BY <1>0, <2>1
    <2> QED BY <1>4, <2>1, <2>2, <2>3, <2>4, AuditFrame
  <1>5. ASSUME NEW c \in Clients, InsertRoot(c) PROVE AuditInv'
    <2>1. \A d \in Clients : calls'[d] = calls[d] \/ calls'[d].pc = "readRoot"
      BY <1>0, <1>5 DEF InsertRoot, Goto, CallRecord
    <2> QED BY <1>4, <1>5, <2>1 DEF InsertRoot
  <1>6. CASE Setup
    BY <1>4, <1>6 DEF Setup, CreateWorkspace, CreateItem
  <1>7. ASSUME NEW i \in 1..Len(items), NEW g \in EditorStates, Curate(i, g) PROVE AuditInv'
    <2>1. /\ Len(items') = Len(items) /\ UNCHANGED <<log, calls>>
          /\ items'[i] = Curated(i, g) /\ \A k \in 1..Len(items) : k # i => items'[k] = items[k]
          /\ Curated(i, g).content = items[i].content /\ Curated(i, g).job = items[i].job
      BY <1>7, CurateFacts, RewriteKeepsTable
    <2> QED BY <1>0, <2>1, AuditFrame
  <1>8. CASE UNCHANGED vars
    BY <1>0, <1>8, AuditFrame DEF vars
  <1> QED BY <1>1, <1>2, <1>3, <1>5, <1>6, <1>7, <1>8 DEF Next

\* The audit invariant holds of the empty tables, and from then on.
LEMMA AuditAlways == Spec => [](TablesOK /\ AuditInv)
  <1>1. Init => AuditInv
    <2> SUFFICES ASSUME Init PROVE AuditInv
      OBVIOUS
    <2>1. Len(items) = 0 /\ Len(log) = 0 /\ \A c \in Clients : calls[c].pc = "idle"
      BY IdleType DEF Init
    <2> QED BY <2>1 DEF AuditInv, AuditTail, ContentsLogged, BeforeLogged, BeforeWasContent
  <1> QED BY <1>1, InitTables, NextKeepsTables, NextKeepsAudit, PTL DEF Spec

\* The last audit row of an item tells its content and the job behind it: row and
\* audit row are written in one transaction, however calls overlap and fail.
THEOREM AuditComplete == Spec => []AuditTail
  <1>1. TablesOK /\ AuditInv => AuditTail
    BY DEF AuditInv
  <1> QED BY <1>1, AuditAlways, PTL

\* The content before in an audit row was once committed for that item, though the
\* read behind it is outside the transaction.
THEOREM BeforeOnceCommitted == Spec => []BeforeWasContent
  <1>1. TablesOK /\ AuditInv => BeforeWasContent
    BY DEF AuditInv
  <1> QED BY <1>1, AuditAlways, PTL
----------------------------------------------------------------------------
(* Paths.  Items come after their parents, so what FindPaths computes can   *)
(* be shown item by item: the least item of which it would not be true.     *)

\* A set of naturals with something in it has a least member.
LEMMA LeastOf ==
  ASSUME NEW S \in SUBSET Nat, S # {}
  PROVE  \E m \in S : \A k \in S : m <= k
  <1> DEFINE R == {ss \in Nat \X Nat : ss[1] < ss[2]}
  <1>1. IsWellFoundedOn(R, Nat)
    BY NatLessThanWellFounded DEF OpToRel
  <1>2. PICK m \in S : \A k \in S : <<k, m>> \notin R
    <2> HIDE DEF R
    <2> QED BY <1>1, WFMin
  <1>3. ASSUME NEW k \in S PROVE m <= k
    <2>1. m \in Nat /\ k \in Nat /\ <<k, m>> \in Nat \X Nat
      OBVIOUS
    <2>2. ~(k < m)
      BY <1>2, <2>1
    <2> QED BY <2>1, <2>2
  <1> QED BY <1>3

\* One round of the loop: where the walk goes from item i, given where it goes from the others.
Round(T, w, t, up, i) ==
    IF i \notin ItemsOf(T, w) THEN <<>>
    ELSE IF i = t THEN <<i>>
    ELSE LET rest == up[T[i].parent]
         IN  IF rest = <<>> THEN <<>> ELSE <<i>> \o rest

\* A function that is what it says of itself: the equation PathUp is defined by.
IsWalk(T, w, t, g) == g = [i \in 0..Len(T) |-> Round(T, w, t, g, i)]

ParentsFirst(T) ==
    Len(T) \in Nat /\ \A i \in 1..Len(T) : T[i].parent \in Nat /\ T[i].parent < i

\* A round asks only for the parent, so two walks that agree below i agree at i.
LEMMA RoundAsksParent ==
  ASSUME NEW T, NEW w, NEW t, ParentsFirst(T), NEW i \in 0..Len(T), NEW g, NEW h,
         \A k \in 0..(i - 1) : g[k] = h[k]
  PROVE  Round(T, w, t, g, i) = Round(T, w, t, h, i)
  <1>1. CASE i \notin ItemsOf(T, w)
    BY <1>1 DEF Round
  <1>2. CASE i \in ItemsOf(T, w)
    <2>1. i \in 1..Len(T)
      BY <1>2 DEF ItemsOf
    <2>2. T[i].parent \in 0..(i - 1)
      BY <2>1 DEF ParentsFirst
    <2>3. g[T[i].parent] = h[T[i].parent]
      BY <2>2
    <2> QED BY <2>3 DEF Round
  <1> QED BY <1>1, <1>2

\* There is a walk over the first m items, for every m.
LEMMA WalksExist ==
  ASSUME NEW T, NEW w, NEW t, ParentsFirst(T)
  PROVE  \E g : IsWalk(T, w, t, g)
  <1> DEFINE Walk(g, m) == \A i \in 0..m : g[i] = Round(T, w, t, g, i)
             Missing == {m \in 0..Len(T) : ~ \E g : Walk(g, m)}
  <1>1. Len(T) \in Nat /\ Missing \in SUBSET Nat
    BY DEF ParentsFirst
  <1>2. Missing = {}
    <2> SUFFICES ASSUME Missing # {} PROVE FALSE
      OBVIOUS
    <2>1. PICK m \in Missing : \A k \in Missing : m <= k
      <3> HIDE DEF Missing
      <3> QED BY <1>1, LeastOf
    <2>2. m \in 0..Len(T) /\ ~ \E g : Walk(g, m)
      BY <2>1
    <2>3. PICK g : \A i \in 0..(m - 1) : g[i] = Round(T, w, t, g, i)
      <3>1. CASE m = 0
        BY <3>1
      <3>2. CASE m # 0
        <4>1. m - 1 \in 0..Len(T) /\ ~(m <= m - 1)
          BY <1>1, <2>2, <3>2
        <4>2. m - 1 \notin Missing
          BY <2>1, <4>1
        <4> QED BY <4>1, <4>2
      <3> QED BY <3>1, <3>2
    <2> DEFINE h == [i \in 0..m |-> IF i = m THEN Round(T, w, t, g, m) ELSE g[i]]
    <2>4. ASSUME NEW i \in 0..m PROVE h[i] = Round(T, w, t, h, i)
      <3>1. \A k \in 0..(i - 1) : g[k] = h[k]
        BY <1>1, <2>2
      <3>2. h[i] = Round(T, w, t, g, i)
        <4>1. CASE i = m
          BY <2>2, <4>1
        <4>2. CASE i # m
          <5>1. i \in 0..(m - 1)
            BY <2>2, <4>2
          <5> QED BY <2>3, <4>2, <5>1
        <4> QED BY <4>1, <4>2
      <3>3. i \in 0..Len(T)
        BY <1>1, <2>2
      <3> HIDE DEF h
      <3> QED BY <3>1, <3>2, <3>3, RoundAsksParent
    <2>5. Walk(h, m)
      BY <2>4
    <2> QED BY <2>2, <2>5
  <1>3. PICK g : Walk(g, Len(T))
    BY <1>1, <1>2
  <1> DEFINE h == [i \in 0..Len(T) |-> g[i]]
  <1>4. ASSUME NEW i \in 0..Len(T) PROVE h[i] = Round(T, w, t, h, i)
    <2>1. \A k \in 0..(i - 1) : g[k] = h[k]
      BY <1>1
    <2>2. h[i] = Round(T, w, t, g, i)
      BY <1>3
    <2> HIDE DEF h
    <2> QED BY <2>1, <2>2, RoundAsksParent
  <1>5. h = [i \in 0..Len(T) |-> Round(T, w, t, h, i)]
    <2>1. [i \in 0..Len(T) |-> Round(T, w, t, h, i)] = [i \in 0..Len(T) |-> h[i]]
      <3> HIDE DEF h
      <3> QED BY <1>4
    <2> QED BY <2>1
  <1>6. IsWalk(T, w, t, h)
    <2> HIDE DEF h
    <2> QED BY <1>5 DEF IsWalk
  <1> HIDE DEF h
  <1> QED BY <1>6

\* So PathUp satisfies its own equation.
LEMMA PathUpRounds ==
  ASSUME NEW T, NEW w, NEW t, ParentsFirst(T)
  PROVE  \A i \in 0..Len(T) : PathUp(T, w, t)[i] = Round(T, w, t, PathUp(T, w, t), i)
  <1>1. \E g : IsWalk(T, w, t, g)
    BY WalksExist
  <1>2. \E g : g = [i \in 0..Len(T) |->
                      IF i \notin ItemsOf(T, w) THEN <<>>
                      ELSE IF i = t THEN <<i>>
                      ELSE LET rest == g[T[i].parent]
                           IN  IF rest = <<>> THEN <<>> ELSE <<i>> \o rest]
    BY <1>1, Zenon DEF IsWalk, Round
  <1>3. PathUp(T, w, t) = [i \in 0..Len(T) |-> Round(T, w, t, PathUp(T, w, t), i)]
    BY <1>2, Zenon DEF PathUp, Round
  <1> DEFINE up == PathUp(T, w, t)
  <1>4. up = [i \in 0..Len(T) |-> Round(T, w, t, up, i)]
    BY <1>3
  <1> HIDE DEF up
  <1>5. \A i \in 0..Len(T) : up[i] = Round(T, w, t, up, i)
    BY <1>4
  <1> QED BY <1>5 DEF up

\* An ancestor of an item is the item or an ancestor of its parent.
LEMMA AncestorsClimb ==
  ASSUME NEW T, NEW w, ParentsFirst(T), NEW t \in ItemsOf(T, w), NEW i \in ItemsOf(T, w)
  PROVE  t \in Ancestors(T, w, i) <=>
            \/ t = i
            \/ T[i].parent \in ItemsOf(T, w) /\ t \in Ancestors(T, w, T[i].parent)
  <1> DEFINE I == ItemsOf(T, w)
             Closed(S) == \A k \in S : T[k].parent \in I => T[k].parent \in S
             up == T[i].parent
  <1>1. \A s : t \in Ancestors(T, w, s) <=> \A S \in SUBSET I : s \in S /\ Closed(S) => t \in S
    BY DEF Ancestors
  <1>2. ASSUME t \in Ancestors(T, w, i), t # i
        PROVE  up \in I /\ t \in Ancestors(T, w, up)
    <2>1. up \in I
      <3> SUFFICES ASSUME up \notin I PROVE FALSE
        OBVIOUS
      <3>1. Closed({i}) /\ {i} \in SUBSET I
        OBVIOUS
      <3> QED BY <1>1, <1>2, <3>1
    <2>2. ASSUME NEW S \in SUBSET I, up \in S, Closed(S) PROVE t \in S
      <3>1. Closed(S \cup {i}) /\ S \cup {i} \in SUBSET I
        BY <2>2
      <3>2. t \in S \cup {i}
        BY <1>1, <1>2, <3>1
      <3> QED BY <1>2, <3>2
    <2> QED BY <1>1, <2>1, <2>2
  <1>3. t = i => t \in Ancestors(T, w, i)
    BY <1>1
  <1>4. ASSUME up \in I, t \in Ancestors(T, w, up) PROVE t \in Ancestors(T, w, i)
    <2>1. ASSUME NEW S \in SUBSET I, i \in S, Closed(S) PROVE t \in S
      BY <1>1, <1>4, <2>1
    <2> QED BY <1>1, <2>1
  <1> QED BY <1>2, <1>3, <1>4

\* The walk from i: empty exactly when the target is no ancestor, else a path.
LEMMA WalkFindsPath ==
  ASSUME NEW T, NEW w, NEW t, ParentsFirst(T), t \in ItemsOf(T, w)
  PROVE  \A i \in ItemsOf(T, w) :
            /\ PathUp(T, w, t)[i] \in Seq(Nat)
            /\ PathUp(T, w, t)[i] = <<>> <=> t \notin Ancestors(T, w, i)
            /\ PathUp(T, w, t)[i] # <<>> => IsPath(T, i, t, PathUp(T, w, t)[i])
  <1> DEFINE up == PathUp(T, w, t)
             Good(i) == /\ up[i] \in Seq(Nat)
                        /\ up[i] = <<>> <=> t \notin Ancestors(T, w, i)
                        /\ up[i] # <<>> => IsPath(T, i, t, up[i])
             Bad == {i \in ItemsOf(T, w) : ~Good(i)}
  <1>1. Len(T) \in Nat /\ Bad \in SUBSET Nat /\ ItemsOf(T, w) \subseteq 1..Len(T)
    BY DEF ParentsFirst, ItemsOf
  <1> SUFFICES ASSUME Bad # {} PROVE FALSE
    OBVIOUS
  <1>2. PICK i \in Bad : \A k \in Bad : i <= k
    <2> HIDE DEF Bad
    <2> QED BY <1>1, LeastOf
  <1>3. i \in ItemsOf(T, w) /\ i \in 1..Len(T) /\ i \in 0..Len(T) /\ ~Good(i)
    BY <1>1, <1>2
  <1> DEFINE p == T[i].parent
  <1>4. p \in Nat /\ p < i /\ p \in 0..Len(T)
    BY <1>3 DEF ParentsFirst
  <1>5. \A k \in 0..Len(T) : up[k] = Round(T, w, t, up, k)
    BY PathUpRounds
  <1>6. p \in ItemsOf(T, w) => Good(p)
    <2>1. ~(i <= p)
      BY <1>3, <1>4
    <2> QED BY <1>2, <2>1
  <1>7. CASE i = t
    <2>1. up[i] = <<i>>
      BY <1>3, <1>5, <1>7 DEF Round
    <2>2. t \in Ancestors(T, w, i)
      BY <1>3, <1>7, AncestorsClimb
    <2>3. IsPath(T, i, t, <<i>>)
      BY <1>7 DEF IsPath
    <2>4. <<i>> \in Seq(Nat) /\ <<i>> # <<>>
      BY <1>3
    <2> HIDE DEF up
    <2> QED BY <1>3, <2>1, <2>2, <2>3, <2>4
  <1>8. CASE i # t
    <2>1. up[i] = IF up[p] = <<>> THEN <<>> ELSE <<i>> \o up[p]
      BY <1>3, <1>5, <1>8 DEF Round
    <2>2. t \in Ancestors(T, w, i) <=> p \in ItemsOf(T, w) /\ t \in Ancestors(T, w, p)
      BY <1>3, <1>8, AncestorsClimb
    <2>3. CASE p \notin ItemsOf(T, w)
      <3>1. up[p] = <<>>
        BY <1>4, <1>5, <2>3 DEF Round
      <3> HIDE DEF up
      <3> QED BY <1>3, <2>1, <2>2, <2>3, <3>1
    <2>4. CASE p \in ItemsOf(T, w)
      <3>1. up[p] \in Seq(Nat) /\ (up[p] = <<>> <=> t \notin Ancestors(T, w, p))
            /\ (up[p] # <<>> => IsPath(T, p, t, up[p]))
        BY <1>6, <2>4
      <3> HIDE DEF up
      <3>2. CASE up[p] = <<>>
        BY <1>3, <2>1, <2>2, <2>4, <3>1, <3>2
      <3>3. CASE up[p] # <<>>
        <4>1. up[i] = <<i>> \o up[p] /\ IsPath(T, p, t, up[p])
          BY <2>1, <3>1, <3>3
        <4>2. /\ up[i] \in Seq(Nat) /\ Len(up[i]) = Len(up[p]) + 1
              /\ up[i][1] = i /\ \A k \in 1..Len(up[p]) : up[i][k + 1] = up[p][k]
              /\ Len(up[p]) \in Nat /\ Len(up[p]) > 0
          BY <1>3, <3>1, <3>3, <4>1
        <4>3. up[i][Len(up[i])] = t
          BY <4>1, <4>2 DEF IsPath
        <4>4. ASSUME NEW k \in 1..(Len(up[i]) - 1) PROVE up[i][k + 1] = T[up[i][k]].parent
          <5>1. CASE k = 1
            BY <4>1, <4>2, <5>1 DEF IsPath
          <5>2. CASE k # 1
            <6> DEFINE n == Len(up[p])
            <6>1. k - 1 \in 1..(n - 1) /\ k - 1 \in 1..n /\ k \in 1..n
              <7>1. n \in Nat /\ k \in 1..((n + 1) - 1)
                BY <4>2
              <7> HIDE DEF n
              <7> QED BY <5>2, <7>1
            <6>2. up[i][k + 1] = up[p][k] /\ up[i][(k - 1) + 1] = up[p][k - 1]
              BY <4>2, <6>1
            <6>3. up[p][(k - 1) + 1] = T[up[p][k - 1]].parent
              BY <4>1, <6>1 DEF IsPath
            <6>4. (k - 1) + 1 = k
              OBVIOUS
            <6> QED BY <6>2, <6>3, <6>4
          <5> QED BY <5>1, <5>2
        <4>5. up[i] # <<>>
          BY <4>2
        <4>6. IsPath(T, i, t, up[i])
          BY <4>2, <4>3, <4>4, <4>5 DEF IsPath
        <4> QED BY <1>3, <2>2, <2>4, <3>1, <3>3, <4>2, <4>5, <4>6
      <3> QED BY <3>2, <3>3
    <2> QED BY <2>3, <2>4
  <1> QED BY <1>7, <1>8

\* Parents come first in every table the store can have.
LEMMA TablesHaveParentsFirst == TablesOK => ParentsFirst(items)
  <1> SUFFICES ASSUME TablesOK PROVE ParentsFirst(items)
    OBVIOUS
  <1>1. Len(items) \in Nat /\ \A i \in 1..Len(items) : items[i].parent < i
    BY DEF TablesOK
  <1>2. \A i \in 1..Len(items) : items[i] \in ItemRow
    BY DEF TablesOK
  <1>3. \A i \in 1..Len(items) : items[i].parent \in Nat
    BY <1>2 DEF ItemRow, Ids
  <1> QED BY <1>1, <1>3 DEF ParentsFirst

\* In every table of the store, however deep, FindPaths answers with the path
\* from an item to each of its ancestors in the workspace and to nothing else.
THEOREM PathsClimb == Spec => []PathsAreAncestors
  <1>1. ASSUME TypeOK PROVE PathsAreAncestors
    <2> SUFFICES ASSUME NEW w \in workspaces, NEW s \in ItemsOf(items, w),
                        NEW t \in ItemsOf(items, w)
                 PROVE  /\ FindPaths(items, w, s, t) = {} <=> t \notin Ancestors(items, w, s)
                        /\ \A p \in FindPaths(items, w, s, t) : IsPath(items, s, t, p)
      BY DEF PathsAreAncestors
    <2> DEFINE p == PathUp(items, w, t)[s]
    <2>1. ParentsFirst(items)
      BY <1>1, TablesHaveParentsFirst DEF TypeOK
    <2>2. /\ p = <<>> <=> t \notin Ancestors(items, w, s)
          /\ p # <<>> => IsPath(items, s, t, p)
      BY <2>1, WalkFindsPath
    <2>3. FindPaths(items, w, s, t) = IF p # <<>> THEN {p} ELSE {}
      BY DEF FindPaths
    <2> HIDE DEF p
    <2> QED BY <2>2, <2>3
  <1> QED BY <1>1, TypeCorrect, PTL

----------------------------------------------------------------------------
(* Termination, as far as it is a matter of safety. *)

\* The statements a call has before it, if the root query answers from now on.
StatementsLeft(c) ==
    CASE calls[c].pc = "readRoot" -> IF Roots(items, calls[c].ws) = {} THEN 4 ELSE 1
      [] calls[c].pc \in {"readWorkspace", "readContext"}   -> 3
      [] calls[c].pc \in {"insertRoot", "count", "update"}  -> 2
      [] calls[c].pc \in {"append", "commit"}               -> 1
      [] OTHER                                              -> 0

\* A step leaves a call where it is or brings it closer to its end, but for a root
\* query that fails, which may cost the call another round.
ClosingIn ==
    \A c \in Clients : ~At(c, "idle") =>
        \/ calls'[c] = calls[c] /\ StatementsLeft(c)' <= StatementsLeft(c)
        \/ StatementsLeft(c)' < StatementsLeft(c)
        \/ RootQueryFails(c)

\* The next statement of the call client c is in waits for no row.
Ready(c) == ~At(c, "idle") /\ (At(c, "update") => ~RowLocked(calls[c].item))

\* If any call has begun, the next statement of one of them can run.
SomebodyProceeds == (\E c \in Clients : ~At(c, "idle")) => \E c \in Clients : Ready(c)

\* Items stay: no step deletes one, moves it, or changes who made it.
LEMMA RowsKeepPlace ==
  ASSUME TablesOK, [Next]_vars, NEW i \in 1..Len(items)
  PROVE  /\ Len(items) \in Nat /\ Len(items') \in Nat /\ Len(items) <= Len(items')
         /\ items'[i].ws = items[i].ws /\ items'[i].parent = items[i].parent
         /\ items'[i].by = items[i].by
  <1>1. Len(items) \in Nat
    BY DEF TablesOK
  <1> DEFINE Goal == /\ Len(items') \in Nat /\ Len(items) <= Len(items')
                     /\ items'[i].ws = items[i].ws /\ items'[i].parent = items[i].parent
                     /\ items'[i].by = items[i].by
  <1>2. CASE UNCHANGED items
    BY <1>1, <1>2
  <1>3. ASSUME NEW c \in Clients, Call(c) \/ Step(c) \/ Fail(c), ~CommitUpdate(c) PROVE Goal
    BY <1>1, <1>3, RowsGrow
  <1>4. ASSUME NEW c \in Clients, CommitUpdate(c) PROVE Goal
    <2>1. /\ Len(items') = Len(items) /\ items \in Seq(ItemRow)
          /\ items' = [items EXCEPT ![calls[c].item] = Revised(c)]
          /\ Revised(c).ws = items[calls[c].item].ws
          /\ Revised(c).parent = items[calls[c].item].parent
          /\ Revised(c).by = items[calls[c].item].by
      BY <1>4, CommitFacts, RewriteKeepsTable DEF TablesOK
    <2> QED BY <1>1, <2>1
  <1>5. ASSUME NEW k \in 1..Len(items), NEW g \in EditorStates, Curate(k, g) PROVE Goal
    <2>1. /\ Len(items') = Len(items) /\ items \in Seq(ItemRow)
          /\ items' = [items EXCEPT ![k] = Curated(k, g)]
          /\ Curated(k, g).ws = items[k].ws /\ Curated(k, g).parent = items[k].parent
          /\ Curated(k, g).by = items[k].by
      BY <1>5, CurateFacts, RewriteKeepsTable DEF TablesOK
    <2> QED BY <1>1, <2>1
  <1>6. CASE Setup
    <2>1. PICK row : Insert(row)
      BY <1>6 DEF Setup, CreateWorkspace, CreateItem
    <2> QED BY <1>1, <2>1, InsertLeavesRows
  <1> QED BY <1>1, <1>2, <1>3, <1>4, <1>5, <1>6 DEF Next, vars

\* Once a workspace has a root, it has one for ever.
LEMMA RootsRemain ==
  ASSUME TablesOK, [Next]_vars, NEW w
  PROVE  Roots(items, w) # {} => Roots(items', w) # {}
  <1> SUFFICES ASSUME NEW i \in Roots(items, w) PROVE i \in Roots(items', w)
    OBVIOUS
  <1>1. i \in 1..Len(items)
    BY DEF Roots
  <1> QED BY <1>1, RowsKeepPlace DEF Roots

\* Every statement of a call, and giving up, brings it closer to its end.
LEMMA StepsCloseIn == ASSUME TablesOK, [Next]_vars PROVE [ClosingIn]_vars
  <1> SUFFICES ASSUME NEW c \in Clients, ~At(c, "idle")
               PROVE  \/ calls'[c] = calls[c] /\ StatementsLeft(c)' <= StatementsLeft(c)
                      \/ StatementsLeft(c)' < StatementsLeft(c)
                      \/ RootQueryFails(c)
    BY DEF ClosingIn
  <1>1. /\ calls \in [Clients -> CallRecord] /\ calls[c] \in CallRecord
        /\ calls[c].pc \in Steps \ {"idle"}
    BY DEF TablesOK, CallRecord, At
  <1>2. StatementsLeft(c) \in 1..4
    BY <1>1 DEF StatementsLeft, Steps
  <1>3. CASE calls'[c] = calls[c]
    <2>1. Roots(items, calls[c].ws) # {} => Roots(items', calls[c].ws) # {}
      BY RootsRemain
    <2> QED BY <1>1, <1>3, <2>1 DEF StatementsLeft, Steps
  <1>4. CASE Return(c)
    <2>1. StatementsLeft(c)' = 0
      BY <1>1, <1>4 DEF Return, StatementsLeft, Idle
    <2> QED BY <1>2, <2>1
  <1>5. ASSUME NEW pc \in Steps, calls'[c].pc = pc, calls'[c].ws = calls[c].ws,
               \/ calls[c].pc = "readRoot" /\ Roots(items, calls[c].ws) = {}
                    /\ pc = "readWorkspace"
               \/ <<calls[c].pc, pc>> \in
                    {<<"readWorkspace", "insertRoot">>, <<"count", "append">>,
                     <<"readContext", "update">>, <<"update", "commit">>}
        PROVE  StatementsLeft(c)' < StatementsLeft(c)
    BY <1>5 DEF StatementsLeft
  <1>6. CASE InsertRoot(c)
    <2>1. PICK row : /\ Insert(row) /\ row.ws = calls[c].ws /\ row.parent = NoParent
      BY <1>6 DEF InsertRoot, PlainItem
    <2>2. Len(items) + 1 \in Roots(items', calls[c].ws)
      BY <2>1, InsertLeavesRows DEF Roots
    <2>3. calls'[c].pc = "readRoot" /\ calls'[c].ws = calls[c].ws /\ calls[c].pc = "insertRoot"
      BY <1>1, <1>6 DEF InsertRoot, Goto, At, CallRecord
    <2>4. StatementsLeft(c)' = 1 /\ StatementsLeft(c) = 2
      BY <2>2, <2>3 DEF StatementsLeft
    <2> QED BY <2>4
  <1>7. CASE Step(c) /\ ~InsertRoot(c)
    <2>1. CASE RootFound(c) \/ BudgetExhausted(c) \/ AppendItem(c) \/ ContextRefuses(c)
                 \/ CommitUpdate(c)
      BY <1>4, <2>1 DEF RootFound, BudgetExhausted, AppendItem, ContextRefuses, CommitUpdate
    <2>2. CASE RootMissing(c)
      BY <1>1, <1>5, <2>2 DEF RootMissing, Goto, At, CallRecord, Steps
    <2>3. CASE WorkspaceFound(c) \/ WithinBudget(c) \/ CountFails(c) \/ UpdateItem(c)
      BY <1>1, <1>5, <2>3 DEF WorkspaceFound, WithinBudget, CountFails, UpdateItem, Goto, At,
         CallRecord, Steps
    <2>4. CASE ContextAllows(c)
      BY <1>1, <1>5, <2>4 DEF ContextAllows, At, CallRecord, Steps
    <2> QED BY <1>7, <2>1, <2>2, <2>3, <2>4 DEF Step
  <1>8. CASE Fail(c)
    BY <1>4, <1>8 DEF Fail
  <1>9. ~Call(c)
    BY DEF Call, GetOrCreateTree, CreateStructuredItem, UpdateItemSummary
  <1>10. ASSUME NEW d \in Clients, d # c, Call(d) \/ Step(d) \/ Fail(d)
         PROVE  calls'[c] = calls[c]
    BY <1>1, <1>10 DEF Call, GetOrCreateTree, CreateStructuredItem, UpdateItemSummary, Step,
       RootFound, RootMissing, RootQueryFails, WorkspaceFound, InsertRoot, WithinBudget,
       CountFails, BudgetExhausted, AppendItem, ContextAllows, ContextRefuses, UpdateItem,
       CommitUpdate, Fail, Goto, Return
  <1>11. CASE Setup \/ (\E i \in 1..Len(items), g \in EditorStates : Curate(i, g))
              \/ UNCHANGED vars
    BY <1>3, <1>11 DEF Setup, CreateWorkspace, CreateItem, Curate, vars
  <1> QED BY <1>3, <1>6, <1>7, <1>8, <1>9, <1>10, <1>11 DEF Next

(***************************************************************************)
(* GetOrCreateTree calls itself again after it has inserted a root.  The   *)
(* second time the root is there, whatever others did meanwhile, so only a *)
(* root query that fails can make a call go round once more; every other   *)
(* statement of any call brings it closer to its end.                      *)
(***************************************************************************)
THEOREM TreeCallsCloseIn == Spec => [][ClosingIn]_vars
  <1>1. TypeOK /\ [Next]_vars => [ClosingIn]_vars
    BY StepsCloseIn DEF TypeOK
  <1> QED BY <1>1, TypeCorrect, PTL DEF Spec

(***************************************************************************)
(* Whoever waits for the row of an item waits for a transaction that is    *)
(* about to commit and waits for nobody: some call can always go on.       *)
(***************************************************************************)
LEMMA SomeTreeCallProceeds == SomebodyProceeds
  <1> SUFFICES ASSUME NEW b \in Clients, ~At(b, "idle") PROVE \E c \in Clients : Ready(c)
    BY DEF SomebodyProceeds
  <1>1. CASE Ready(b)
    BY <1>1
  <1>2. CASE ~Ready(b)
    <2>1. PICK d \in Clients : At(d, "commit")
      BY <1>2 DEF Ready, RowLocked
    <2> QED BY <2>1 DEF Ready, At
  <1> QED BY <1>1, <1>2

----------------------------------------------------------------------------
(* The capability: a job's workspace and its operations. *)

Needed(kind) == IF kind = "append" THEN "create_item" ELSE "update_item"

RowHome(row) == row.job # None => row.ws = Home[row.job]

EntryHome(T, e) == T[e.item].ws = Home[e.job] /\ Needed(e.kind) \in Operations[e.job]

\* A call under way holds what was checked when it began, or what it has read.
CallHome(T, call) ==
    /\ call.pc \in {"count", "append"} =>
           call.ws = Home[call.job] /\ "create_item" \in Operations[call.job]
    /\ call.pc \in {"readContext", "update", "commit"} =>
           call.ws = Home[call.job] /\ "update_item" \in Operations[call.job]
    /\ call.pc \in {"update", "commit"} => T[call.item].ws = call.ws

\* Whatever a job has created, revised or logged is in its capability's workspace,
\* and of a kind its capability names.
JobsStayHome ==
    /\ \A i \in 1..Len(items) : RowHome(items[i])
    /\ \A k \in 1..Len(log) : EntryHome(items, log[k])

HomeInv == JobsStayHome /\ \A c \in Clients : CallHome(items, calls[c])

\* An item has a workspace for good: what holds of calls and audit rows remains so.
LEMMA HomeRemains ==
  ASSUME TablesOK, HomeInv, [Next]_vars
  PROVE  /\ \A k \in 1..Len(log) : EntryHome(items', log[k])
         /\ \A c \in Clients : CallHome(items', calls[c])
  <1>1. \A i \in 1..Len(items) : items'[i].ws = items[i].ws
    BY RowsKeepPlace
  <1>2. ASSUME NEW k \in 1..Len(log) PROVE EntryHome(items', log[k])
    <2>1. log[k].item \in 1..Len(items)
      BY DEF TablesOK
    <2> QED BY <1>1, <2>1 DEF HomeInv, JobsStayHome, EntryHome
  <1>3. ASSUME NEW c \in Clients PROVE CallHome(items', calls[c])
    <2>1. calls[c].pc \in {"update", "commit"} => calls[c].item \in 1..Len(items)
      BY DEF TablesOK, CallShape
    <2> QED BY <1>1, <2>1 DEF HomeInv, CallHome
  <1> QED BY <1>2, <1>3

\* A step of client c that begins no transaction's last statement.
LEMMA CallStepsStayHome ==
  ASSUME TablesOK, HomeInv, [Next]_vars, NEW c \in Clients, Call(c) \/ Step(c) \/ Fail(c)
  PROVE  \A d \in Clients : CallHome(items', calls'[d])
  <1>1. calls \in [Clients -> CallRecord] /\ calls[c] \in CallRecord
    BY DEF TablesOK
  <1>2. CallHome(items', calls[c]) /\ CallHome(items, calls[c])
    BY HomeRemains DEF HomeInv
  <1>3. ASSUME NEW d \in Clients, d # c PROVE calls'[d] = calls[d]
    BY <1>1, <1>3 DEF Call, GetOrCreateTree, CreateStructuredItem, UpdateItemSummary, Step,
       RootFound, RootMissing, RootQueryFails, WorkspaceFound, InsertRoot, WithinBudget,
       CountFails, BudgetExhausted, AppendItem, ContextAllows, ContextRefuses, UpdateItem,
       CommitUpdate, Fail, Goto, Return
  <1>4. CallHome(items', calls'[c])
    <2>1. CASE Return(c)
      BY <1>1, <2>1 DEF Return, Idle, CallHome
    <2>2. CASE Call(c)
      <3>1. ASSUME NEW w, GetOrCreateTree(c, w) PROVE CallHome(items', calls'[c])
        <4>1. calls'[c].pc = "readRoot"
          BY <1>1, <3>1 DEF GetOrCreateTree, Idle
        <4> QED BY <4>1 DEF CallHome
      <3>2. ASSUME NEW j, NEW p, NEW x, CreateStructuredItem(c, j, p, x)
            PROVE  CallHome(items', calls'[c])
        <4>1. /\ calls'[c].pc \in {"count", "append"} /\ calls'[c].ws = Home[j]
              /\ calls'[c].job = j /\ "create_item" \in Operations[j]
          BY <1>1, <3>2 DEF CreateStructuredItem, Idle
        <4> QED BY <4>1 DEF CallHome
      <3>3. ASSUME NEW j, NEW i, NEW x, UpdateItemSummary(c, j, i, x)
            PROVE  CallHome(items', calls'[c])
        <4>1. /\ calls'[c].pc = "readContext" /\ calls'[c].ws = Home[j]
              /\ calls'[c].job = j /\ "update_item" \in Operations[j]
          BY <1>1, <3>3 DEF UpdateItemSummary, Idle
        <4> QED BY <4>1 DEF CallHome
      <3> QED BY <2>2, <3>1, <3>2, <3>3 DEF Call
    <2>3. CASE RootMissing(c) \/ RootQueryFails(c) \/ WorkspaceFound(c) \/ InsertRoot(c)
      BY <1>1, <2>3 DEF RootMissing, RootQueryFails, WorkspaceFound, InsertRoot, Goto,
         CallHome, CallRecord
    <2>4. CASE WithinBudget(c) \/ CountFails(c) \/ UpdateItem(c)
      BY <1>1, <1>2, <2>4 DEF WithinBudget, CountFails, UpdateItem, Goto, At, CallHome,
         CallRecord
    <2>5. CASE ContextAllows(c)
      <3>1. items' = items /\ items[calls[c].item].ws = calls[c].ws
        BY <2>5 DEF ContextAllows, MayRevise
      <3>2. calls'[c] = [calls[c] EXCEPT !.pc = "update",
                                         !.before = items[calls[c].item].content]
        BY <1>1, <2>5 DEF ContextAllows
      <3>3. /\ calls'[c].pc = "update" /\ calls'[c].ws = calls[c].ws
            /\ calls'[c].job = calls[c].job /\ calls'[c].item = calls[c].item
        BY <1>1, <3>2 DEF CallRecord
      <3>4. calls[c].ws = Home[calls[c].job] /\ "update_item" \in Operations[calls[c].job]
        BY <1>2, <2>5 DEF ContextAllows, At, CallHome
      <3> QED BY <3>1, <3>3, <3>4 DEF CallHome
    <2> QED
      BY <2>1, <2>2, <2>3, <2>4, <2>5 DEF Step, Fail, RootFound, BudgetExhausted, AppendItem,
         ContextRefuses, CommitUpdate
  <1> QED BY <1>3, <1>4, HomeRemains

\* Every step keeps jobs at home.
LEMMA NextKeepsHome == TablesOK /\ HomeInv /\ [Next]_vars => HomeInv'
  <1> SUFFICES ASSUME TablesOK, HomeInv, [Next]_vars PROVE HomeInv'
    OBVIOUS
  <1>0. Len(items) \in Nat /\ \A i \in 1..Len(items) : RowHome(items[i])
    BY DEF TablesOK, HomeInv, JobsStayHome
  <1>1. ASSUME NEW row, Insert(row), RowHome(row)
        PROVE  \A i \in 1..Len(items') : RowHome(items'[i])
    BY <1>0, <1>1, InsertLeavesRows
  <1>2. ASSUME NEW entry, log' = Append(log, entry), EntryHome(items', entry)
        PROVE  \A k \in 1..Len(log') : EntryHome(items', log'[k])
    <2>1. /\ Len(log') = Len(log) + 1 /\ log'[Len(log) + 1] = entry /\ Len(log) \in Nat
          /\ \A k \in 1..Len(log) : log'[k] = log[k]
      BY <1>2 DEF TablesOK
    <2> QED BY <1>2, <2>1, HomeRemains
  <1>3. CASE Setup
    <2>1. /\ log' = log /\ calls' = calls
          /\ \E row : Insert(row) /\ row.job = None
      <3>1. ASSUME NEW w, NEW p, NEW by, Insert(PlainItem(w, p, by, None))
            PROVE  \E row : Insert(row) /\ row.job = None
        <4>1. PlainItem(w, p, by, None).job = None
          BY DEF PlainItem
        <4> QED BY <3>1, <4>1
      <3> QED BY <1>3, <3>1 DEF Setup, CreateWorkspace, CreateItem
    <2>2. \A i \in 1..Len(items') : RowHome(items'[i])
      BY <1>1, <2>1 DEF RowHome
    <2> QED BY <2>1, <2>2, HomeRemains DEF HomeInv, JobsStayHome
  <1>4. ASSUME NEW c \in Clients, Call(c) \/ Step(c) \/ Fail(c) PROVE HomeInv'
    <2>1. \A d \in Clients : CallHome(items', calls'[d])
      BY <1>4, CallStepsStayHome
    <2>2. CASE AppendItem(c)
      <3> DEFINE row == StructuredItem(calls[c].ws, calls[c].parent, calls[c].content,
                                       calls[c].job)
                 entry == LogEntry(c, Len(items) + 1, "append")
      <3>1. /\ calls[c].ws = Home[calls[c].job]
            /\ "create_item" \in Operations[calls[c].job]
        BY <2>2 DEF HomeInv, CallHome, AppendItem, At
      <3>2. /\ Insert(row) /\ row.ws = calls[c].ws /\ row.job = calls[c].job
            /\ log' = Append(log, entry) /\ entry.item = Len(items) + 1
            /\ entry.job = calls[c].job /\ entry.kind = "append"
        BY <2>2 DEF AppendItem, Logged, StructuredItem, LogEntry
      <3> HIDE DEF row, entry
      <3>3. \A i \in 1..Len(items') : RowHome(items'[i])
        BY <1>1, <3>1, <3>2 DEF RowHome
      <3>4. items'[entry.item].ws = Home[entry.job]
        BY <3>1, <3>2, InsertLeavesRows
      <3>5. EntryHome(items', entry)
        BY <3>1, <3>2, <3>4 DEF EntryHome, Needed
      <3>6. \A k \in 1..Len(log') : EntryHome(items', log'[k])
        BY <1>2, <3>2, <3>5
      <3> QED BY <2>1, <3>3, <3>6 DEF HomeInv, JobsStayHome
    <2>3. CASE CommitUpdate(c)
      <3> DEFINE i == calls[c].item
                 entry == LogEntry(c, i, "revise")
      <3>1. /\ calls[c].ws = Home[calls[c].job] /\ items[i].ws = calls[c].ws
            /\ "update_item" \in Operations[calls[c].job]
        BY <2>3 DEF HomeInv, CallHome, CommitUpdate, At
      <3>2. /\ i \in 1..Len(items) /\ items' = [items EXCEPT ![i] = Revised(c)]
            /\ Len(items') = Len(items) /\ items \in Seq(ItemRow)
            /\ Revised(c).ws = items[i].ws /\ Revised(c).job = calls[c].job
            /\ log' = Append(log, entry)
        BY <2>3, CommitFacts, RewriteKeepsTable DEF TablesOK
      <3>3. entry.item = i /\ entry.job = calls[c].job /\ entry.kind = "revise"
        BY DEF LogEntry
      <3> HIDE DEF i, entry
      <3>4. \A k \in 1..Len(items') : RowHome(items'[k])
        BY <1>0, <3>1, <3>2 DEF RowHome
      <3>5. EntryHome(items', entry)
        BY <3>1, <3>2, <3>3 DEF EntryHome, Needed
      <3>6. \A k \in 1..Len(log') : EntryHome(items', log'[k])
        BY <1>2, <3>2, <3>5
      <3> QED BY <2>1, <3>4, <3>6 DEF HomeInv, JobsStayHome
    <2>4. CASE InsertRoot(c)
      <3>1. log' = log /\ \E row : Insert(row) /\ row.job = None
        BY <2>4 DEF InsertRoot, PlainItem
      <3>2. \A i \in 1..Len(items') : RowHome(items'[i])
        BY <1>1, <3>1 DEF RowHome
      <3> QED BY <2>1, <3>1, <3>2, HomeRemains DEF HomeInv, JobsStayHome
    <2>5. CASE UNCHANGED <<items, log>>
      BY <1>0, <2>1, <2>5, HomeRemains DEF HomeInv, JobsStayHome
    <2> QED
      BY <1>4, <2>2, <2>3, <2>4, <2>5 DEF Call, GetOrCreateTree, CreateStructuredItem,
         UpdateItemSummary, Step, RootFound, RootMissing, RootQueryFails, WorkspaceFound,
         WithinBudget, CountFails, BudgetExhausted, ContextAllows, ContextRefuses, UpdateItem,
         Fail
  <1>5. ASSUME NEW i \in 1..Len(items), NEW g \in EditorStates, Curate(i, g) PROVE HomeInv'
    <2>1. /\ items' = [items EXCEPT ![i] = Curated(i, g)] /\ Len(items') = Len(items)
          /\ items \in Seq(ItemRow) /\ Curated(i, g).ws = items[i].ws
          /\ Curated(i, g).job = items[i].job /\ log' = log /\ calls' = calls
      BY <1>5, CurateFacts, RewriteKeepsTable DEF TablesOK
    <2>2. \A k \in 1..Len(items') : RowHome(items'[k])
      BY <1>0, <2>1 DEF RowHome
    <2> QED BY <2>1, <2>2, HomeRemains DEF HomeInv, JobsStayHome
  <1>6. CASE UNCHANGED vars
    BY <1>6 DEF vars, HomeInv, JobsStayHome
  <1> QED BY <1>3, <1>4, <1>5, <1>6 DEF Next

(***************************************************************************)
(* A job creates and revises items, and leaves audit rows, only in the     *)
(* workspace of its capability and only by operations the capability       *)
(* names, though a revision is checked in one statement and written in a   *)
(* later transaction.                                                      *)
(***************************************************************************)
THEOREM CapabilityConfines == Spec => []JobsStayHome
  <1>1. Init => HomeInv
    BY DEF Init, HomeInv, JobsStayHome, CallHome, Idle
  <1>2. TypeOK => TablesOK
    BY DEF TypeOK
  <1>3. HomeInv => JobsStayHome
    BY DEF HomeInv
  <1> QED BY <1>1, <1>2, <1>3, NextKeepsHome, TypeCorrect, PTL DEF Spec
=============================================================================

---------------------------- MODULE JobLogPaging ----------------------------
(***************************************************************************)
(* A reader pages through the log of jobs (repository/postgres/joblog.go)  *)
(* while workers go on writing it.  Log pages are cut at a key, (timestamp,*)
(* id), pages of related jobs at an offset.  Every page is one query.      *)
(*                                                                         *)
(* A row's timestamp is taken by its writer before the row commits, by     *)
(* that machine's clock, and audit rows of the tree keep whole seconds: so *)
(* a row that commits now may have any timestamp.  Ids are random.         *)
(***************************************************************************)
EXTENDS Integers, FiniteSets

CONSTANTS
    Jobs,        \* job ids
    Workspaces,  \* workspace ids
    None,        \* no id
    Ids,         \* ids of log rows, in their order as texts; bounds the rows
    Times,       \* timestamps; bounds the related jobs
    Asked,       \* page sizes a caller asks for
    Max,         \* per query, the largest page size it grants
    Default      \* per query, the page size for one it does not grant

Queries == {"list", "search", "related"}

ASSUME NoneAssumption == None \notin Jobs \cup Workspaces
ASSUME KeysAssumption == Ids \in SUBSET Nat /\ IsFiniteSet(Ids) /\ Times \in SUBSET (Nat \ {0})
ASSUME JobsAssumption == IsFiniteSet(Jobs)
ASSUME AskedAssumption == Asked \in SUBSET Int
ASSUME SizesAssumption ==
    /\ Max \in [Queries -> Nat] /\ Default \in [Queries -> Nat]
    /\ \A q \in Queries : 0 < Default[q] /\ Default[q] <= Max[q]

VARIABLES
    created,   \* created_at of each job, 0 for a job that is not there
    logs,      \* committed rows of job_logs ("system") and job_mutation_logs ("tool")
    walk,      \* the reader's walk through the pages
    known,     \* history: what the walk could have seen when it began
    shown,     \* history: what its pages have shown
    repeats    \* history: how often they showed something again

vars == <<created, logs, walk, known, shown, repeats>>

Created == {j \in Jobs : created[j] # 0}

Key(r) == [ts |-> r.ts, id |-> r.id]

\* ORDER BY timestamp DESC, source_id DESC
Newer(a, b) == a.ts > b.ts \/ (a.ts = b.ts /\ a.id > b.id)

NoToken == [ts |-> 0, id |-> 0]

Scope == [job : Jobs \cup {None}, ws : Workspaces \cup {None}]

Everything == [job |-> None, ws |-> None]

Idle == [query |-> "list", scope |-> Everything, size |-> 1, cursor |-> NoToken,
         offset |-> 0, done |-> TRUE]

----------------------------------------------------------------------------
\* Slip: a page size is taken as it is asked for.
SizeAsAsked(q, n) == n

Size(q, n) == IF n <= 0 \/ n > Max[q] THEN Default[q] ELSE n

\* unifiedJobLogsSourceSQL: an audit row is joined with its job; then the conditions.
\* Those on level, event, text and time are more of the same.
Matches(scope) ==
    {r \in logs : /\ r.table = "tool" => r.job \in Created
                  /\ scope.job # None => r.job = scope.job
                  /\ scope.ws # None => r.ws = scope.ws}

\* Slip: rows with the timestamp of the last one count as read.
AfterTokenByTime(r, token) == token = NoToken \/ r.ts < token.ts

\* Slip: the row the token names is read again.
AfterTokenOrAt(r, token) == token = NoToken \/ ~Newer(Key(r), token)

\* (timestamp, source_id) < (token)
AfterToken(r, token) == token = NoToken \/ Newer(token, Key(r))

Rest(w) == {r \in Matches(w.scope) : AfterToken(r, w.cursor)}

\* LIMIT n of the order above.
Newest(S, n) == {r \in S : Cardinality({q \in S : Newer(q, r)}) < n}

\* relatedJobsSQL: how many jobs come before j.
Rank(j) == Cardinality({i \in Created : created[i] > created[j]})

Related(w) == {j \in Created : w.offset <= Rank(j) /\ Rank(j) < w.offset + w.size}

\* Slip: the token of a page is counted from the first page.
OffsetForgotten(offset, size) == size

\* Slip: the job after the page is taken for shown.
OffsetPastNext(offset, size) == offset + size + 1

NextOffset(offset, size) == offset + size

----------------------------------------------------------------------------
Init ==
    /\ created = [j \in Jobs |-> 0]
    /\ logs = {}
    /\ walk = Idle
    /\ known = {} /\ shown = {} /\ repeats = 0

\* CreateProcessingJob of a job of the document or workspace asked for; no two
\* have the same created_at, which is kept to the microsecond.
CreateProcessingJob(j, t) ==
    /\ created[j] = 0
    /\ \A i \in Jobs : created[i] # t
    /\ created' = [created EXCEPT ![j] = t]
    /\ UNCHANGED <<logs, walk, known, shown, repeats>>

Commit(row) ==
    /\ \A r \in logs : r.id # row.id
    /\ logs' = logs \cup {row}
    /\ UNCHANGED <<created, walk, known, shown, repeats>>

LogJobEvent(i, t, j, w) ==
    Commit([id |-> i, ts |-> t, job |-> j, ws |-> w, table |-> "system"])

\* LogToolCall leaves the workspace empty, the audit rows of the tree give it.
LogMutation(i, t, j, w) ==
    Commit([id |-> i, ts |-> t, job |-> j, ws |-> w, table |-> "tool"])

----------------------------------------------------------------------------
Begin(q, scope, n, there) ==
    /\ walk.done
    /\ walk' = [query |-> q, scope |-> scope, size |-> Size(q, n), cursor |-> NoToken,
                offset |-> 0, done |-> FALSE]
    /\ known' = there /\ shown' = {} /\ repeats' = 0
    /\ UNCHANGED <<created, logs>>

ListJobLogs(j, n) == Begin("list", [Everything EXCEPT !.job = j], n,
                           Matches([Everything EXCEPT !.job = j]))

\* At least one search scope is required.
SearchJobLogs(scope, n) ==
    /\ scope # Everything
    /\ Begin("search", scope, n, Matches(scope))

ListRelatedJobLogs(n) == Begin("related", Everything, n, Created)

Show(page) ==
    /\ shown' = shown \cup page
    /\ repeats' = repeats + Cardinality(page \cap shown)
    /\ UNCHANGED <<created, logs, known>>

Reading == ~walk.done /\ walk.query \in {"list", "search"}

\* The query asks for one row more than the page holds: there is a next page.
NextPage ==
    /\ Reading
    /\ Cardinality(Rest(walk)) > walk.size
    /\ LET page == Newest(Rest(walk), walk.size)
       IN  /\ Show(page)
           /\ \E oldest \in page :
                 /\ \A r \in page : r = oldest \/ Newer(r, oldest)
                 /\ walk' = [walk EXCEPT !.cursor = Key(oldest)]

LastPage ==
    /\ Reading
    /\ Cardinality(Rest(walk)) <= walk.size
    /\ Show(Newest(Rest(walk), walk.size))
    /\ walk' = [walk EXCEPT !.done = TRUE]

ReadingRelated == ~walk.done /\ walk.query = "related"

\* A full page has a next one, which may turn out empty.
NextRelated ==
    /\ ReadingRelated
    /\ Cardinality(Related(walk)) = walk.size
    /\ Show(Related(walk))
    /\ walk' = [walk EXCEPT !.offset = NextOffset(walk.offset, walk.size)]

LastRelated ==
    /\ ReadingRelated
    /\ Cardinality(Related(walk)) # walk.size
    /\ Show(Related(walk))
    /\ walk' = [walk EXCEPT !.done = TRUE]

----------------------------------------------------------------------------
Write ==
    \/ \E j \in Jobs, t \in Times : CreateProcessingJob(j, t)
    \/ \E i \in Ids, t \in Times, j \in Jobs, w \in Workspaces : LogJobEvent(i, t, j, w)
    \/ \E i \in Ids, t \in Times, j \in Jobs, w \in Workspaces \cup {None} :
          LogMutation(i, t, j, w)

Read ==
    \/ \E j \in Jobs, n \in Asked : ListJobLogs(j, n)
    \/ \E scope \in Scope, n \in Asked : SearchJobLogs(scope, n)
    \/ \E n \in Asked : ListRelatedJobLogs(n)
    \/ NextPage \/ LastPage \/ NextRelated \/ LastRelated

Next == Write \/ Read

Spec == Init /\ [][Next]_vars

----------------------------------------------------------------------------
(* Properties *)

Row == [id : Ids, ts : Times, job : Jobs, ws : Workspaces \cup {None},
        table : {"system", "tool"}]

Walk == [query : Queries, scope : Scope, size : Nat \ {0}, cursor : [ts : Nat, id : Nat],
         offset : Nat, done : BOOLEAN]

\* Types of the tables and of the walk: no two rows have one id, and a page size
\* is positive and never above what the query grants.
TypeOK ==
    /\ created \in [Jobs -> Times \cup {0}]
    /\ logs \subseteq Row
    /\ \A r, s \in logs : r.id = s.id => r = s
    /\ walk \in Walk /\ walk.size <= Max[walk.query]
    /\ repeats \in Nat
    /\ walk.query # "related" => known \subseteq logs /\ shown \subseteq logs
    /\ walk.query = "related" => known \subseteq Created /\ shown \subseteq Created

(***************************************************************************)
(* Log pages.  Rows never move, so the key of the last row shown divides   *)
(* the log for good: whatever is written between two pages, wherever in    *)
(* the order it lands, no row is shown twice, and at the end every row     *)
(* that was there at the beginning has been shown.                         *)
(***************************************************************************)
EachOnce == walk.query # "related" => repeats = 0

NothingMissed == walk.query # "related" /\ walk.done => known \subseteq shown

(***************************************************************************)
(* Pages of related jobs.  A job created between two pages moves the older *)
(* ones down and across the cut: none is missed, but for every job created *)
(* meanwhile, at most one is shown again.                                  *)
(***************************************************************************)
NoJobMissed == walk.query = "related" /\ walk.done => known \subseteq shown

RepeatsBound == walk.query = "related" => repeats <= Cardinality(Created \ known)
=============================================================================

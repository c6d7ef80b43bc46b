------------------------- MODULE JobLogPagingProofs -------------------------
(***************************************************************************)
(* Pages of the log while it is written: every row that was there at the   *)
(* beginning is shown, and no row twice, for every number of rows and every*)
(* page size, and every page but the last is full; of related jobs none is *)
(* missed and few are shown twice.                                         *)
(***************************************************************************)
EXTENDS JobLogPaging, FiniteSetTheorems, FunctionTheorems, WellFoundedInduction, TLAPS

USE KeysAssumption, JobsAssumption, SizesAssumption, NoneAssumption

(* The order of rows and what a page takes of it *)

\* The order is strict,
LEMMA NewerStrict ==
  ASSUME NEW a, NEW b, NEW c, a.ts \in Nat, a.id \in Nat, b.ts \in Nat, b.id \in Nat,
         c.ts \in Nat, c.id \in Nat
  PROVE  /\ ~Newer(a, a)
         /\ Newer(a, b) => ~Newer(b, a)
         /\ Newer(a, b) /\ Newer(b, c) => Newer(a, c)
  BY DEF Newer

\* and of two rows with different ids one is the newer.
LEMMA NewerTotal ==
  ASSUME NEW a, NEW b, a.ts \in Nat, a.id \in Nat, b.ts \in Nat, b.id \in Nat, a.id # b.id
  PROVE  Newer(a, b) \/ Newer(b, a)
  BY DEF Newer

\* Rows have natural numbers for timestamp and id, and the timestamp is never 0.
LEMMA RowKeys ==
  ASSUME NEW r \in Row
  PROVE  r.ts \in Nat /\ r.ts # 0 /\ r.id \in Nat /\ Key(r) \in [ts : Nat, id : Nat]
         /\ Key(r).ts = r.ts /\ Key(r).id = r.id /\ Key(r) # NoToken
  <1>1. r.ts \in Times /\ r.id \in Ids
    BY DEF Row
  <1>2. r.ts \in Nat /\ r.ts # 0 /\ r.id \in Nat
    BY <1>1
  <1> QED BY <1>2 DEF Key, NoToken

\* A page that holds as many rows as there are leaves none out.
LEMMA NewestAll ==
  ASSUME NEW S \in SUBSET Row, IsFiniteSet(S), NEW n \in Nat, Cardinality(S) <= n
  PROVE  Newest(S, n) = S
  <1>1. ASSUME NEW r \in S
        PROVE  Cardinality({q \in S : Newer(q, r)}) < n
    <2>1. r.ts \in Nat /\ r.id \in Nat
      BY RowKeys
    <2>2. {q \in S : Newer(q, r)} \in SUBSET (S \ {r})
      BY <2>1 DEF Newer
    <2>3. IsFiniteSet(S \ {r}) /\ Cardinality(S \ {r}) = Cardinality(S) - 1
      BY FS_RemoveElement
    <2>4. Cardinality({q \in S : Newer(q, r)}) <= Cardinality(S \ {r})
      BY <2>2, <2>3, FS_Subset
    <2>5. /\ Cardinality(S) \in Nat /\ Cardinality({q \in S : Newer(q, r)}) \in Nat
      BY <2>2, <2>3, FS_Subset, FS_CardinalityType
    <2> QED BY <2>3, <2>4, <2>5
  <1> QED BY <1>1 DEF Newest

\* The rows a page leaves out are older than all it holds.
LEMMA NewestCut ==
  ASSUME NEW S \in SUBSET Row, IsFiniteSet(S), NEW n \in Nat,
         \A r, s \in S : r.id = s.id => r = s,
         NEW p \in Newest(S, n), NEW r \in S, r \notin Newest(S, n)
  PROVE  Newer(p, r)
  <1> DEFINE before(x) == {q \in S : Newer(q, x)}
  <1>1. p \in S /\ Cardinality(before(p)) < n /\ ~(Cardinality(before(r)) < n)
    BY DEF Newest
  <1>2. p.id # r.id
    BY <1>1
  <1>3. p.ts \in Nat /\ p.id \in Nat /\ r.ts \in Nat /\ r.id \in Nat
    BY <1>1, RowKeys
  <1>4. CASE Newer(r, p)
    <2>1. before(r) \in SUBSET before(p)
      <3>1. ASSUME NEW q \in S, Newer(q, r)
            PROVE  Newer(q, p)
        <4>1. q.ts \in Nat /\ q.id \in Nat
          BY RowKeys
        <4> QED BY <1>3, <1>4, <3>1, <4>1, NewerStrict
      <3> QED BY <3>1
    <2>2. IsFiniteSet(before(p)) /\ Cardinality(before(p)) \in Nat
      <3>1. before(p) \in SUBSET S
        OBVIOUS
      <3>2. IsFiniteSet(before(p))
        BY <3>1, FS_Subset
      <3> QED BY <3>2, FS_CardinalityType
    <2>3. IsFiniteSet(before(r)) /\ Cardinality(before(r)) <= Cardinality(before(p))
      BY <2>1, <2>2, FS_Subset
    <2>4. Cardinality(before(r)) \in Nat
      BY <2>3, FS_CardinalityType
    <2> HIDE DEF before
    <2> QED BY <1>1, <2>2, <2>3, <2>4
  <1> QED BY <1>2, <1>3, <1>4, NewerTotal

----------------------------------------------------------------------------
(* The invariant *)

\* What a walk through the log owes: nothing shown comes after the token, and
\* all that was there at the beginning has been shown or comes after it.
Divided ==
    walk.query # "related" =>
        /\ repeats = 0
        /\ \A r \in known : r \in Matches(walk.scope)
        /\ ~walk.done => \A r \in shown : ~AfterToken(r, walk.cursor)
        /\ \A r \in known : r \in shown \/ (~walk.done /\ AfterToken(r, walk.cursor))

IInv == TypeOK /\ IsFiniteSet(logs) /\ Divided

\* Page sizes are positive and within what is granted.
LEMMA SizeGranted ==
  ASSUME NEW q \in Queries, NEW n \in Int
  PROVE  Size(q, n) \in Nat \ {0} /\ Size(q, n) <= Max[q]
  BY DEF Size

\* The invariant holds of empty tables.
LEMMA InitIInv == Init => IInv
  <1> SUFFICES ASSUME Init PROVE IInv
    OBVIOUS
  <1>1. Idle \in Walk /\ Idle.query = "list" /\ Idle.size = 1 /\ Idle.done
    BY DEF Idle, Walk, Queries, Scope, Everything, NoToken
  <1>2. 1 <= Max["list"]
    BY DEF Queries
  <1>3. TypeOK
    BY <1>1, <1>2 DEF Init, TypeOK, Created
  <1> QED BY <1>1, <1>3, FS_EmptySet DEF Init, IInv, Divided

\* Rows never leave: what a scope finds is found as long as rows and jobs only come.
LEMMA MatchesGrow ==
  ASSUME logs \subseteq logs', Created \subseteq Created', NEW scope
  PROVE  \A r \in Matches(scope) : r \in Matches(scope)'
  BY DEF Matches

\* A step of a writer keeps the invariant.
LEMMA WriteKeepsIInv ==
  ASSUME IInv, created' \in [Jobs -> Times \cup {0}], logs' \subseteq Row, IsFiniteSet(logs'),
         \A r, s \in logs' : r.id = s.id => r = s,
         logs \subseteq logs', Created \subseteq Created',
         UNCHANGED <<walk, known, shown, repeats>>
  PROVE  IInv'
  <1>1. TypeOK'
    BY DEF IInv, TypeOK
  <1>2. PICK scope : scope = walk.scope
    OBVIOUS
  <1>3. \A r \in Matches(scope) : r \in Matches(scope)'
    BY MatchesGrow
  <1>4. Divided'
    BY <1>2, <1>3 DEF IInv, Divided
  <1> QED BY <1>1, <1>4 DEF IInv

\* A row that commits keeps the invariant.
LEMMA CommitKeepsIInv ==
  ASSUME IInv, NEW row \in Row, Commit(row)
  PROVE  IInv'
  <1>1. logs' = logs \cup {row} /\ UNCHANGED <<created, walk, known, shown, repeats>>
        /\ \A r \in logs : r.id # row.id
    BY DEF Commit
  <1>2. IsFiniteSet(logs')
    BY <1>1, FS_AddElement DEF IInv
  <1>3. /\ created' \in [Jobs -> Times \cup {0}] /\ logs' \subseteq Row
        /\ \A r, s \in logs' : r.id = s.id => r = s
    BY <1>1 DEF IInv, TypeOK
  <1>4. Created' = Created
    BY <1>1 DEF Created
  <1> QED BY <1>1, <1>2, <1>3, <1>4, WriteKeepsIInv

\* A walk that begins owes everything that is there.
LEMMA BeginKeepsIInv ==
  ASSUME IInv, NEW q \in Queries, NEW scope \in Scope, NEW n \in Int, NEW there,
         Begin(q, scope, n, there),
         q # "related" => there = Matches(scope),
         q = "related" => there = Created
  PROVE  IInv'
  <1>1. PICK size : size = Size(q, n)
    OBVIOUS
  <1>2. size \in Nat \ {0} /\ size <= Max[q]
    BY <1>1, SizeGranted
  <1>3. /\ walk' = [query |-> q, scope |-> scope, size |-> size, cursor |-> NoToken,
                    offset |-> 0, done |-> FALSE]
        /\ known' = there /\ shown' = {} /\ repeats' = 0 /\ UNCHANGED <<created, logs>>
    BY <1>1 DEF Begin
  <1>4. walk' \in Walk /\ walk'.size <= Max[walk'.query] /\ walk'.query = q
        /\ walk'.scope = scope /\ walk'.cursor = NoToken /\ walk'.done = FALSE
    BY <1>2, <1>3 DEF Walk, NoToken
  <1>5. Created' = Created /\ Matches(scope)' = Matches(scope) /\ Matches(scope) \subseteq logs
    BY <1>3 DEF Created, Matches
  <1>6. TypeOK'
    BY <1>3, <1>4, <1>5 DEF IInv, TypeOK
  <1>7. \A r : AfterToken(r, NoToken)
    BY DEF AfterToken
  <1>8. q # "related" => \A r \in there : r \in Matches(scope)'
    BY <1>5
  <1>9. Divided'
    BY <1>3, <1>4, <1>7, <1>8 DEF Divided
  <1> QED BY <1>3, <1>6, <1>9 DEF IInv

\* The rows still to be read are finitely many rows of the log.
LEMMA RestFinite ==
  ASSUME IInv
  PROVE  /\ Rest(walk) \in SUBSET Row /\ Rest(walk) \subseteq logs /\ IsFiniteSet(Rest(walk))
         /\ \A r, s \in Rest(walk) : r.id = s.id => r = s
         /\ \A r \in Matches(walk.scope) : AfterToken(r, walk.cursor) => r \in Rest(walk)
         /\ \A r \in Rest(walk) : AfterToken(r, walk.cursor)
  <1>1. Rest(walk) \in SUBSET logs
    BY DEF Rest, Matches
  <1> QED BY <1>1, FS_Subset DEF IInv, TypeOK, Rest

\* A page of rows still to be read shows nothing again.
LEMMA PageIsNew ==
  ASSUME IInv, Reading, NEW page \in SUBSET Rest(walk), Show(page)
  PROVE  /\ repeats' = 0 /\ shown' = shown \cup page
         /\ UNCHANGED <<created, logs, known>>
         /\ shown' \subseteq logs' /\ repeats' \in Nat
  <1>1. page \cap shown = {}
    BY RestFinite DEF IInv, Reading, Divided
  <1>2. Cardinality(page \cap shown) = 0
    BY <1>1, FS_EmptySet
  <1>3. repeats = 0 /\ shown \subseteq logs
    BY DEF IInv, Divided, Reading, TypeOK
  <1> QED BY <1>2, <1>3, RestFinite DEF Show

\* The token after a page divides what has been shown from what has not.
LEMMA NextPageKeepsIInv ==
  ASSUME IInv, NextPage
  PROVE  IInv'
  <1>1. PICK page : page = Newest(Rest(walk), walk.size)
    OBVIOUS
  <1>2. Reading /\ Show(page) /\ walk \in Walk /\ walk.size \in Nat
        /\ walk.size <= Max[walk.query]
    BY <1>1 DEF NextPage, IInv, TypeOK, Walk
  <1>3. PICK oldest \in page : /\ \A r \in page : r = oldest \/ Newer(r, oldest)
                               /\ walk' = [walk EXCEPT !.cursor = Key(oldest)]
    BY <1>1 DEF NextPage
  <1>4. page \in SUBSET Rest(walk)
    BY <1>1 DEF Newest
  <1>5. oldest \in Row /\ Key(oldest) \in [ts : Nat, id : Nat] /\ Key(oldest) # NoToken
        /\ AfterToken(oldest, walk.cursor)
    BY <1>4, RestFinite, RowKeys
  <1>6. /\ walk' \in Walk /\ walk'.query = walk.query /\ walk'.scope = walk.scope
        /\ walk'.size = walk.size /\ walk'.done = walk.done /\ walk'.cursor = Key(oldest)
        /\ walk.cursor \in [ts : Nat, id : Nat]
    BY <1>2, <1>3, <1>5 DEF Walk
  <1>7. /\ repeats' = 0 /\ shown' = shown \cup page /\ UNCHANGED <<created, logs, known>>
        /\ shown' \subseteq logs' /\ repeats' \in Nat
    BY <1>2, <1>4, PageIsNew
  <1>8. TypeOK'
    <2>1. walk'.query # "related" /\ walk'.size <= Max[walk'.query]
      BY <1>2, <1>6 DEF Reading
    <2> QED BY <1>6, <1>7, <2>1 DEF IInv, TypeOK
  <1>9. \A r \in shown' : ~AfterToken(r, Key(oldest))
    <2>1. ASSUME NEW r \in page PROVE ~AfterToken(r, Key(oldest))
      <3>1. r \in Row
        BY <1>4, RestFinite
      <3>2. ~Newer(oldest, r)
        <4>1. r.ts \in Nat /\ r.id \in Nat /\ oldest.ts \in Nat /\ oldest.id \in Nat
          BY <1>5, <3>1, RowKeys
        <4> QED BY <1>3, <4>1, NewerStrict
      <3>3. ~Newer(Key(oldest), Key(r))
        BY <3>2 DEF Newer, Key
      <3> QED BY <1>5, <3>3 DEF AfterToken
    <2>2. ASSUME NEW r \in shown PROVE ~AfterToken(r, Key(oldest))
      <3>1. ~AfterToken(r, walk.cursor) /\ r \in Row
        BY <1>2 DEF IInv, Divided, Reading, TypeOK
      <3>2. walk.cursor # NoToken /\ ~Newer(walk.cursor, Key(r))
            /\ Newer(walk.cursor, Key(oldest))
        BY <1>5, <3>1 DEF AfterToken
      <3>3. /\ Key(r).ts \in Nat /\ Key(r).id \in Nat
            /\ Key(oldest).ts \in Nat /\ Key(oldest).id \in Nat
            /\ walk.cursor.ts \in Nat /\ walk.cursor.id \in Nat
        BY <1>5, <1>6, <3>1, RowKeys
      <3>4. ~Newer(Key(oldest), Key(r))
        BY <3>2, <3>3, NewerStrict
      <3> QED BY <1>5, <3>4 DEF AfterToken
    <2> QED BY <1>7, <2>1, <2>2
  <1>10. \A r \in known : r \in shown' \/ AfterToken(r, Key(oldest))
    <2> SUFFICES ASSUME NEW r \in known, r \notin shown, r \notin page
                 PROVE  AfterToken(r, Key(oldest))
      BY <1>7
    <2>1. r \in Rest(walk)
      BY <1>2, RestFinite DEF IInv, Divided, Reading
    <2>2. Newer(oldest, r)
      BY <1>1, <1>2, <1>3, <2>1, RestFinite, NewestCut
    <2>3. Newer(Key(oldest), Key(r))
      BY <2>2 DEF Newer, Key
    <2> QED BY <2>3 DEF AfterToken
  <1>11. Divided'
    <2>1. \A r \in known : r \in Matches(walk.scope)
      BY <1>2 DEF IInv, Divided, Reading
    <2>2. \A r \in known' : r \in Matches(walk.scope)'
      BY <1>6, <1>7, <2>1 DEF Matches, Created
    <2> QED BY <1>2, <1>6, <1>7, <1>9, <1>10, <2>2 DEF Divided, Reading
  <1> QED BY <1>7, <1>8, <1>11 DEF IInv

\* The last page shows all there is left to show.
LEMMA LastPageKeepsIInv ==
  ASSUME IInv, LastPage
  PROVE  IInv'
  <1>1. PICK page : page = Newest(Rest(walk), walk.size)
    OBVIOUS
  <1>2. Reading /\ Show(page) /\ walk \in Walk /\ walk.size \in Nat
        /\ walk.size <= Max[walk.query] /\ Cardinality(Rest(walk)) <= walk.size
        /\ walk' = [walk EXCEPT !.done = TRUE]
    BY <1>1 DEF LastPage, IInv, TypeOK, Walk
  <1>3. page = Rest(walk)
    BY <1>1, <1>2, RestFinite, NewestAll
  <1>4. /\ walk' \in Walk /\ walk'.query = walk.query /\ walk'.scope = walk.scope
        /\ walk'.size = walk.size /\ walk'.done = TRUE
    BY <1>2 DEF Walk
  <1>5. /\ repeats' = 0 /\ shown' = shown \cup page /\ UNCHANGED <<created, logs, known>>
        /\ shown' \subseteq logs' /\ repeats' \in Nat
    BY <1>2, <1>3, PageIsNew
  <1>6. TypeOK'
    <2>1. walk'.query # "related" /\ walk'.size <= Max[walk'.query]
      BY <1>2, <1>4 DEF Reading
    <2> QED BY <1>4, <1>5, <2>1 DEF IInv, TypeOK
  <1>7. \A r \in known : r \in shown'
    BY <1>2, <1>3, <1>5, RestFinite DEF IInv, Divided, Reading
  <1>8. Divided'
    <2>1. \A r \in known : r \in Matches(walk.scope)
      BY <1>2 DEF IInv, Divided, Reading
    <2>2. \A r \in known' : r \in Matches(walk.scope)'
      BY <1>4, <1>5, <2>1 DEF Matches, Created
    <2> QED BY <1>4, <1>5, <1>7, <2>2 DEF Divided
  <1> QED BY <1>5, <1>6, <1>8 DEF IInv

\* Pages of related jobs show jobs that are there.
LEMMA RelatedKeepsIInv ==
  ASSUME IInv, NextRelated \/ LastRelated
  PROVE  IInv'
  <1>1. PICK page : page = Related(walk)
    OBVIOUS
  <1>2. /\ walk \in Walk /\ walk.query = "related" /\ Show(page)
        /\ walk.offset \in Nat /\ walk.size \in Nat
    BY <1>1 DEF NextRelated, LastRelated, ReadingRelated, IInv, TypeOK, Walk
  <1>3. page \in SUBSET Created
    BY <1>1 DEF Related
  <1>4. page \cap shown \in SUBSET Jobs
    BY <1>3 DEF Created
  <1>5. Cardinality(page \cap shown) \in Nat
    BY <1>4, FS_Subset, FS_CardinalityType
  <1>6. /\ shown' = shown \cup page /\ repeats' \in Nat /\ UNCHANGED <<created, logs, known>>
    BY <1>2, <1>5 DEF Show, IInv, TypeOK
  <1>7. walk' \in Walk /\ walk'.query = "related" /\ walk'.size = walk.size
    <2>1. CASE NextRelated
      <3>1. PICK offset \in Nat : offset = walk.offset + walk.size
        BY <1>2
      <3>2. walk' = [walk EXCEPT !.offset = offset]
        BY <2>1, <3>1 DEF NextRelated, NextOffset
      <3> QED BY <1>2, <3>2 DEF Walk
    <2>2. CASE LastRelated
      BY <1>2, <2>2 DEF LastRelated, Walk
    <2> QED BY <2>1, <2>2
  <1>8. TypeOK'
    <2>1. Created' = Created /\ shown' \subseteq Created' /\ known' \subseteq Created'
      BY <1>2, <1>3, <1>6 DEF IInv, TypeOK, Created
    <2>2. walk'.size <= Max[walk'.query]
      BY <1>2, <1>7 DEF IInv, TypeOK
    <2> QED BY <1>6, <1>7, <2>1, <2>2 DEF IInv, TypeOK
  <1> QED BY <1>6, <1>7, <1>8 DEF IInv, Divided

----------------------------------------------------------------------------
(* Theorems *)

\* Every step keeps the invariant.
LEMMA NextKeepsIInv == IInv /\ [Next]_vars => IInv'
  <1> SUFFICES ASSUME IInv, [Next]_vars PROVE IInv'
    OBVIOUS
  <1>1. ASSUME NEW j \in Jobs, NEW t \in Times, CreateProcessingJob(j, t) PROVE IInv'
    <2>1. /\ created \in [Jobs -> Times \cup {0}] /\ created[j] = 0
          /\ created' = [created EXCEPT ![j] = t]
          /\ UNCHANGED <<logs, walk, known, shown, repeats>>
      BY <1>1 DEF CreateProcessingJob, IInv, TypeOK
    <2>2. created' \in [Jobs -> Times \cup {0}] /\ Created \subseteq Created'
      BY <2>1 DEF Created
    <2> QED BY <2>1, <2>2, WriteKeepsIInv DEF IInv, TypeOK
  <1>2. ASSUME NEW i \in Ids, NEW t \in Times, NEW j \in Jobs, NEW w \in Workspaces \cup {None},
               LogJobEvent(i, t, j, w) \/ LogMutation(i, t, j, w)
        PROVE  IInv'
    <2>1. PICK table \in {"system", "tool"} :
             Commit([id |-> i, ts |-> t, job |-> j, ws |-> w, table |-> table])
      BY <1>2 DEF LogJobEvent, LogMutation
    <2>2. [id |-> i, ts |-> t, job |-> j, ws |-> w, table |-> table] \in Row
      BY DEF Row
    <2> QED BY <2>1, <2>2, CommitKeepsIInv
  <1>3. ASSUME NEW n \in Asked, NEW j \in Jobs, ListJobLogs(j, n) PROVE IInv'
    <2>1. PICK scope \in Scope : scope = [Everything EXCEPT !.job = j]
      BY DEF Scope, Everything
    <2>2. Begin("list", scope, n, Matches(scope))
      BY <1>3, <2>1 DEF ListJobLogs
    <2> QED BY <2>2, BeginKeepsIInv, AskedAssumption DEF Queries
  <1>4. ASSUME NEW n \in Asked, NEW scope \in Scope, SearchJobLogs(scope, n) PROVE IInv'
    BY <1>4, BeginKeepsIInv, AskedAssumption DEF SearchJobLogs, Queries
  <1>5. ASSUME NEW n \in Asked, ListRelatedJobLogs(n) PROVE IInv'
    <2>1. Everything \in Scope
      BY DEF Everything, Scope
    <2> QED BY <1>5, <2>1, BeginKeepsIInv, AskedAssumption DEF ListRelatedJobLogs, Queries
  <1>6. CASE UNCHANGED vars
    <2>1. Created' = Created
      BY <1>6 DEF vars, Created
    <2> QED BY <1>6, <2>1, WriteKeepsIInv DEF vars, IInv, TypeOK
  <1> QED BY <1>1, <1>2, <1>3, <1>4, <1>5, <1>6, NextPageKeepsIInv, LastPageKeepsIInv,
             RelatedKeepsIInv DEF Next, Write, Read

\* The invariant of the walk holds always.
LEMMA Always == Spec => []IInv
  BY InitIInv, NextKeepsIInv, PTL DEF Spec

\* Rows and pages are well typed: ids are unique and no page is larger than granted.
THEOREM PagingTypeOK == Spec => []TypeOK
  <1>1. IInv => TypeOK
    BY DEF IInv
  <1> QED BY <1>1, Always, PTL

\* No row of the log is shown twice in one walk, whatever commits meanwhile.
THEOREM PagesShowOnce == Spec => []EachOnce
  <1>1. IInv => EachOnce
    BY DEF IInv, Divided, EachOnce
  <1> QED BY <1>1, Always, PTL

\* A walk through the log that has ended has shown every row that was there when it began.
THEOREM PagesShowAll == Spec => []NothingMissed
  <1>1. IInv => NothingMissed
    BY DEF IInv, Divided, NothingMissed
  <1> QED BY <1>1, Always, PTL

----------------------------------------------------------------------------
(* Pages that have a next one are full *)

\* Of the members of a nonempty finite set of rows, one has the fewest newer ones.
LEMMA FewestBefore ==
  ASSUME NEW S \in SUBSET Row, IsFiniteSet(S), NEW T \in SUBSET S, T # {}
  PROVE  \E m \in T : \A r \in T : Cardinality({q \in S : Newer(q, m)})
                                     <= Cardinality({q \in S : Newer(q, r)})
  <1> DEFINE rank(x) == Cardinality({q \in S : Newer(q, x)})
             ranks == {rank(x) : x \in T}
             R == {ss \in Nat \X Nat : ss[1] < ss[2]}
  <1>1. \A x \in T : rank(x) \in Nat
    <2> TAKE x \in T
    <2>1. {q \in S : Newer(q, x)} \in SUBSET S
      OBVIOUS
    <2>2. IsFiniteSet({q \in S : Newer(q, x)})
      BY <2>1, FS_Subset
    <2> QED BY <2>2, FS_CardinalityType
  <1> HIDE DEF rank
  <1>2. ranks \in SUBSET Nat /\ ranks # {}
    BY <1>1
  <1>3. IsWellFoundedOn(R, Nat)
    BY NatLessThanWellFounded DEF OpToRel
  <1>4. PICK k \in ranks : \A l \in ranks : <<l, k>> \notin R
    <2> HIDE DEF R, ranks
    <2> QED BY <1>2, <1>3, WFMin
  <1>5. PICK m \in T : k = rank(m)
    OBVIOUS
  <1>6. ASSUME NEW r \in T PROVE rank(m) <= rank(r)
    <2>1. rank(m) \in Nat /\ rank(r) \in Nat /\ rank(r) \in ranks
      BY <1>1
    <2>2. ~(rank(r) < rank(m))
      BY <1>4, <1>5, <2>1
    <2> QED BY <2>1, <2>2
  <1> QED BY <1>6 DEF rank

\* A page one row longer holds one row more, as long as there is one.
LEMMA NewestGrows ==
  ASSUME NEW S \in SUBSET Row, IsFiniteSet(S), NEW n \in Nat,
         \A r, s \in S : r.id = s.id => r = s,
         Cardinality(Newest(S, n)) = n, n < Cardinality(S)
  PROVE  Cardinality(Newest(S, n + 1)) = n + 1
  <1> DEFINE N == Newest(S, n)
             before(x) == {q \in S : Newer(q, x)}
  <1>1. N \in SUBSET S /\ IsFiniteSet(N)
    <2>1. N \in SUBSET S
      BY DEF Newest
    <2> QED BY <2>1, FS_Subset
  <1>2. \A x \in S : before(x) \in SUBSET S /\ IsFiniteSet(before(x))
                     /\ Cardinality(before(x)) \in Nat
    <2> TAKE x \in S
    <2>1. before(x) \in SUBSET S
      OBVIOUS
    <2> HIDE DEF before
    <2>2. IsFiniteSet(before(x))
      BY <2>1, FS_Subset
    <2> QED BY <2>1, <2>2, FS_CardinalityType
  <1>3. \A x \in S : x.ts \in Nat /\ x.id \in Nat
    BY RowKeys
  <1>4. S \ N # {}
    <2>1. ASSUME S \ N = {} PROVE FALSE
      <3>1. N = S
        BY <1>1, <2>1
      <3> QED BY <3>1
    <2> QED BY <2>1
  <1>5. PICK m \in S \ N : \A r \in S \ N : Cardinality(before(m)) <= Cardinality(before(r))
    <2>1. S \ N \in SUBSET S
      OBVIOUS
    <2> HIDE DEF N
    <2> QED BY <1>4, <2>1, FewestBefore
  <1>6. ASSUME NEW y \in S \ N PROVE N \subseteq before(y)
    BY <1>1, NewestCut
  <1>7. before(m) \subseteq N
    <2> SUFFICES ASSUME NEW q \in S, Newer(q, m), q \notin N PROVE FALSE
      OBVIOUS
    <2>1. before(q) \in SUBSET (before(m) \ {q})
      BY <1>3, NewerStrict
    <2>2. q \in before(m)
      OBVIOUS
    <2> HIDE DEF before, N
    <2>3. IsFiniteSet(before(m) \ {q}) /\ Cardinality(before(m) \ {q}) = Cardinality(before(m)) - 1
      BY <1>2, <2>2, FS_RemoveElement
    <2>4. Cardinality(before(q)) <= Cardinality(before(m) \ {q})
      BY <2>1, <2>3, FS_Subset
    <2> QED BY <1>2, <1>5, <2>3, <2>4
  <1>8. before(m) = N
    BY <1>6, <1>7
  <1>9. Newest(S, n + 1) = N \cup {m}
    <2>1. ASSUME NEW y \in N PROVE y \in Newest(S, n + 1)
      <3>1. y \in S /\ Cardinality(before(y)) < n
        BY DEF Newest
      <3>2. Cardinality(before(y)) \in Nat
        BY <1>2, <3>1
      <3> HIDE DEF before
      <3>3. Cardinality(before(y)) < n + 1
        BY <3>1, <3>2
      <3> QED BY <3>1, <3>3 DEF Newest, before
    <2>2. m \in Newest(S, n + 1)
      <3>1. Cardinality(before(m)) < n + 1
        <4> HIDE DEF before
        <4> QED BY <1>8
      <3> QED BY <3>1 DEF Newest
    <2>3. ASSUME NEW y \in Newest(S, n + 1), y \notin N, y # m PROVE FALSE
      <3>1. y \in S /\ Cardinality(before(y)) < n + 1
        BY DEF Newest
      <3>2. N \subseteq before(y)
        BY <1>6, <2>3, <3>1
      <3>3. CASE Newer(m, y)
        <4>1. N \cup {m} \in SUBSET before(y)
          BY <3>2, <3>3
        <4>2. Cardinality(N \cup {m}) = n + 1
          <5> HIDE DEF N
          <5>1. m \notin N
            BY <1>5
          <5> QED BY <1>1, <5>1, FS_AddElement DEF N
        <4> HIDE DEF before, N
        <4>3. Cardinality(N \cup {m}) <= Cardinality(before(y))
          BY <1>2, <3>1, <4>1, FS_Subset
        <4> QED BY <1>2, <3>1, <4>2, <4>3
      <3>4. CASE Newer(y, m)
        <4>1. y \in before(m)
          BY <3>1, <3>4
        <4> QED BY <1>8, <2>3, <4>1
      <3>5. y.id # m.id
        BY <2>3, <3>1
      <3> QED BY <1>3, <3>1, <3>3, <3>4, <3>5, NewerTotal
    <2>4. \A y \in Newest(S, n + 1) : y \in N \cup {m}
      BY <2>3
    <2> QED BY <2>1, <2>2, <2>4
  <1>10. m \notin N
    OBVIOUS
  <1> QED BY <1>1, <1>9, <1>10, FS_AddElement

\* A page holds as many rows as it may, if there are as many.
LEMMA NewestCount ==
  ASSUME NEW S \in SUBSET Row, IsFiniteSet(S), NEW n \in Nat,
         \A r, s \in S : r.id = s.id => r = s, n <= Cardinality(S)
  PROVE  Cardinality(Newest(S, n)) = n
  <1> DEFINE fits(k) == k <= Cardinality(S) => Cardinality(Newest(S, k)) = k
  <1>1. Cardinality(S) \in Nat
    BY FS_CardinalityType
  <1>2. fits(0)
    <2>1. \A r \in S : ~(Cardinality({q \in S : Newer(q, r)}) < 0)
      <3> TAKE r \in S
      <3>1. {q \in S : Newer(q, r)} \in SUBSET S
        OBVIOUS
      <3>2. Cardinality({q \in S : Newer(q, r)}) \in Nat
        BY <3>1, FS_Subset, FS_CardinalityType
      <3> QED BY <3>2
    <2>2. Newest(S, 0) = {}
      BY <2>1 DEF Newest
    <2> QED BY <2>2, FS_EmptySet
  <1>3. \A k \in Nat : fits(k) => fits(k + 1)
    <2> SUFFICES ASSUME NEW k \in Nat, fits(k), k + 1 <= Cardinality(S)
                 PROVE  Cardinality(Newest(S, k + 1)) = k + 1
      OBVIOUS
    <2>1. k < Cardinality(S) /\ Cardinality(Newest(S, k)) = k
      BY <1>1
    <2> QED BY <2>1, NewestGrows
  <1> DEFINE fails == {k \in Nat : ~fits(k)}
             R == {ss \in Nat \X Nat : ss[1] < ss[2]}
  <1>4. fails = {}
    <2> HIDE DEF fits
    <2> SUFFICES ASSUME fails # {} PROVE FALSE
      OBVIOUS
    <2>1. IsWellFoundedOn(R, Nat)
      BY NatLessThanWellFounded DEF OpToRel
    <2>2. fails \in SUBSET Nat
      OBVIOUS
    <2>3. PICK k \in fails : \A l \in fails : <<l, k>> \notin R
      <3> HIDE DEF R, fails
      <3> QED BY <2>1, <2>2, WFMin
    <2>4. k \in Nat /\ ~fits(k) /\ k # 0
      BY <1>2
    <2>5. k - 1 \in Nat /\ <<k - 1, k>> \in R
      BY <2>4
    <2>6. fits(k - 1)
      BY <2>3, <2>5
    <2>7. k = (k - 1) + 1
      BY <2>4
    <2>8. fits(k)
      BY <1>3, <2>5, <2>6, <2>7
    <2> QED BY <2>4, <2>8
  <1> QED BY <1>4

\* A page with a next one shows as many rows as asked for, none of them shown before.
FullPages == [][NextPage => Cardinality(shown') = Cardinality(shown) + walk.size]_vars

\* Every page of the log but the last is full of rows not shown before, whatever commits
\* meanwhile: so the pages before the last are at most as many as there are rows.
THEOREM PagesAreFull == Spec => FullPages
  <1>1. IInv /\ [Next]_vars
        => [NextPage => Cardinality(shown') = Cardinality(shown) + walk.size]_vars
    <2> SUFFICES ASSUME IInv, NextPage
                 PROVE  Cardinality(shown') = Cardinality(shown) + walk.size
      OBVIOUS
    <2> DEFINE page == Newest(Rest(walk), walk.size)
    <2>1. Reading /\ Show(page) /\ Cardinality(Rest(walk)) > walk.size
      BY DEF NextPage
    <2>2. page \in SUBSET Rest(walk)
      BY DEF Newest
    <2>3. shown' = shown \cup page
      BY <2>1 DEF Show
    <2>4. walk.size \in Nat /\ walk.query # "related"
      BY <2>1 DEF IInv, TypeOK, Walk, Reading
    <2>5. page \cap shown = {}
      BY <2>1, <2>2, RestFinite DEF IInv, Reading, Divided
    <2>6. IsFiniteSet(shown) /\ IsFiniteSet(page) /\ IsFiniteSet(Rest(walk))
      <3>1. shown \in SUBSET logs /\ page \in SUBSET Rest(walk)
        BY <2>2, <2>4 DEF IInv, TypeOK
      <3> QED BY <3>1, RestFinite, FS_Subset DEF IInv
    <2>7. Cardinality(page) = walk.size
      <3>1. walk.size <= Cardinality(Rest(walk))
        BY <2>1, <2>4, <2>6, FS_CardinalityType
      <3> QED BY <2>4, <3>1, RestFinite, NewestCount
    <2> HIDE DEF page
    <2>8. Cardinality(shown \cup page) = Cardinality(shown) + Cardinality(page)
                                          - Cardinality(shown \cap page)
      BY <2>6, FS_Union
    <2>9. Cardinality(shown \cap page) = 0
      BY <2>5, FS_EmptySet
    <2>10. Cardinality(shown) \in Nat
      BY <2>6, FS_CardinalityType
    <2> QED BY <2>3, <2>4, <2>7, <2>8, <2>9, <2>10
  <1> QED BY <1>1, Always, PTL DEF Spec, FullPages

----------------------------------------------------------------------------
(* Ranks of related jobs, for creation times f *)

There(f) == {j \in Jobs : f[j] # 0}
Ahead(f, j) == {i \in Jobs : f[i] > f[j]}
Place(f, j) == Cardinality(Ahead(f, j))
Distinct(f) == \A i, j \in There(f) : f[i] = f[j] => i = j
Behind(f, S, o) == {j \in S : Place(f, j) >= o}

\* A place in the order is a natural number.
LEMMA PlaceType ==
  ASSUME NEW f \in [Jobs -> Nat], NEW j \in Jobs
  PROVE  IsFiniteSet(Ahead(f, j)) /\ Place(f, j) \in Nat
  <1>1. Ahead(f, j) \in SUBSET Jobs
    BY DEF Ahead
  <1>2. IsFiniteSet(Ahead(f, j))
    BY <1>1, FS_Subset
  <1> QED BY <1>2, FS_CardinalityType DEF Place

\* Jobs that are there can be counted.
LEMMA FiniteThere ==
  ASSUME NEW f, NEW S \in SUBSET There(f)
  PROVE  IsFiniteSet(S) /\ Cardinality(S) \in Nat
  <1>1. S \in SUBSET Jobs
    BY DEF There
  <1>2. IsFiniteSet(S)
    BY <1>1, FS_Subset
  <1> QED BY <1>2, FS_CardinalityType

\* A newer job comes strictly before an older one,
LEMMA NewerIsAhead ==
  ASSUME NEW f \in [Jobs -> Nat], NEW i \in Jobs, NEW j \in Jobs, f[i] > f[j]
  PROVE  Place(f, i) < Place(f, j)
  <1>1. i \in Ahead(f, j) /\ Ahead(f, i) \in SUBSET (Ahead(f, j) \ {i})
    BY DEF Ahead
  <1>2. /\ IsFiniteSet(Ahead(f, j) \ {i})
        /\ Cardinality(Ahead(f, j) \ {i}) = Place(f, j) - 1
    BY <1>1, PlaceType, FS_RemoveElement DEF Place
  <1>3. Place(f, i) <= Cardinality(Ahead(f, j) \ {i})
    BY <1>1, <1>2, FS_Subset DEF Place
  <1> QED BY <1>2, <1>3, PlaceType

\* so no two jobs have one place.
LEMMA PlacesDiffer ==
  ASSUME NEW f \in [Jobs -> Nat], Distinct(f),
         NEW i \in There(f), NEW j \in There(f), Place(f, i) = Place(f, j)
  PROVE  i = j
  <1>1. i \in Jobs /\ j \in Jobs /\ f[i] \in Nat /\ f[j] \in Nat
    BY DEF There
  <1>2. ~(f[i] > f[j]) /\ ~(f[j] > f[i])
    BY <1>1, NewerIsAhead, PlaceType
  <1> QED BY <1>1, <1>2 DEF Distinct

\* Every place below the number of jobs is taken.
LEMMA PlacesTaken ==
  ASSUME NEW f \in [Jobs -> Nat], Distinct(f), NEW j \in There(f),
         NEW k \in Nat, k <= Place(f, j)
  PROVE  \E i \in There(f) : Place(f, i) = k
  <1> DEFINE n == Cardinality(There(f))
             T == 0..(n - 1)
             g == [i \in There(f) |-> Place(f, i)]
  <1>1. There(f) \in SUBSET Jobs /\ IsFiniteSet(There(f)) /\ n \in Nat
    <2>1. There(f) \in SUBSET Jobs
      BY DEF There
    <2> QED BY <2>1, FS_Subset, FS_CardinalityType
  <1>2. \A i \in There(f) : Place(f, i) \in T
    <2> TAKE i \in There(f)
    <2>1. Ahead(f, i) \in SUBSET (There(f) \ {i})
      BY <1>1 DEF Ahead, There
    <2>2. IsFiniteSet(There(f) \ {i}) /\ Cardinality(There(f) \ {i}) = n - 1
      BY <1>1, FS_RemoveElement
    <2>3. Place(f, i) <= n - 1
      BY <2>1, <2>2, FS_Subset DEF Place
    <2> QED BY <1>1, <2>3, PlaceType
  <1>3. IsFiniteSet(T) /\ Cardinality(T) = n
    <2>1. 0 \in Int /\ n - 1 \in Int /\ (0 > n - 1 => n = 0) /\ (n - 1) - 0 + 1 = n
      BY <1>1
    <2> HIDE DEF n
    <2> QED BY <2>1, FS_Interval
  <1>4. g \in Injection(There(f), T)
    <2>1. g \in [There(f) -> T]
      BY <1>2
    <2>2. \A x, y \in There(f) : g[x] = g[y] => x = y
      BY PlacesDiffer
    <2> QED BY <2>1, <2>2 DEF Injection, IsInjective
  <1>5. g \in Surjection(There(f), T)
    BY <1>3, <1>4, FS_Injection
  <1>6. k \in T
    BY <1>1, <1>2
  <1>7. \E i \in There(f) : g[i] = k
    BY <1>5, <1>6 DEF Surjection
  <1> QED BY <1>7

\* A page with jobs behind it is full.
LEMMA PageIsFull ==
  ASSUME NEW f \in [Jobs -> Nat], Distinct(f), NEW o \in Nat, NEW n \in Nat \ {0},
         NEW j \in There(f), Place(f, j) >= o + n
  PROVE  Cardinality({i \in There(f) : o <= Place(f, i) /\ Place(f, i) < o + n}) = n
  <1> DEFINE P == {i \in There(f) : o <= Place(f, i) /\ Place(f, i) < o + n}
             T == o..(o + n - 1)
             g == [i \in P |-> Place(f, i)]
  <1>1. IsFiniteSet(T) /\ Cardinality(T) = n
    BY FS_Interval
  <1>2. \A i \in There(f) : Place(f, i) \in Nat
    BY PlaceType DEF There
  <1>3. g \in [P -> T]
    BY <1>2
  <1>4. g \in Injection(P, T)
    <2>1. \A x, y \in P : g[x] = g[y] => x = y
      BY PlacesDiffer
    <2> QED BY <1>3, <2>1 DEF Injection, IsInjective
  <1>5. \A k \in T : \E i \in P : g[i] = k
    <2> TAKE k \in T
    <2>1. k \in Nat /\ k <= Place(f, j) /\ o <= k /\ k < o + n
      BY <1>2
    <2>2. PICK i \in There(f) : Place(f, i) = k
      BY <2>1, PlacesTaken
    <2> QED BY <2>1, <2>2
  <1>6. g \in Surjection(P, T)
    BY <1>3, <1>5 DEF Surjection
  <1> QED BY <1>1, <1>4, <1>6, FS_Injection

\* A new job moves each older one back by one place at most,
LEMMA PlacesMove ==
  ASSUME NEW f \in [Jobs -> Nat], NEW x \in Jobs, f[x] = 0, NEW t \in Nat, t # 0,
         NEW g, g = [f EXCEPT ![x] = t]
  PROVE  \A j \in There(f) :
            /\ Place(f, j) \in Nat /\ Place(g, j) \in Nat
            /\ Place(g, j) >= Place(f, j) /\ Place(g, j) <= Place(f, j) + 1
  <1> TAKE j \in There(f)
  <1>1. j \in Jobs /\ j # x /\ g \in [Jobs -> Nat]
    BY DEF There
  <1>2. x \notin Ahead(f, j)
    BY <1>1 DEF Ahead
  <1>3. Ahead(g, j) = Ahead(f, j) \/ Ahead(g, j) = Ahead(f, j) \cup {x}
    BY <1>1 DEF Ahead
  <1>4. Place(f, j) \in Nat /\ IsFiniteSet(Ahead(f, j))
    BY <1>1, PlaceType
  <1>5. Place(g, j) = Place(f, j) \/ Place(g, j) = Place(f, j) + 1
    <2>1. CASE Ahead(g, j) = Ahead(f, j)
      BY <2>1, Zenon DEF Place
    <2>2. CASE Ahead(g, j) = Ahead(f, j) \cup {x}
      <3>1. Cardinality(Ahead(f, j) \cup {x}) = Cardinality(Ahead(f, j)) + 1
        BY <1>2, <1>4, FS_AddElement
      <3> QED BY <2>2, <3>1, Zenon DEF Place
    <2> QED BY <1>3, <2>1, <2>2
  <1> QED BY <1>4, <1>5

\* so that at most one more of any jobs is at or behind a cut.
LEMMA OneMoreBehind ==
  ASSUME NEW f \in [Jobs -> Nat], NEW g, Distinct(f), NEW S \in SUBSET There(f), NEW o \in Nat,
         \A j \in There(f) :
            /\ Place(f, j) \in Nat /\ Place(g, j) \in Nat
            /\ Place(g, j) >= Place(f, j) /\ Place(g, j) <= Place(f, j) + 1
  PROVE  /\ IsFiniteSet(Behind(f, S, o)) /\ Cardinality(Behind(f, S, o)) \in Nat
         /\ IsFiniteSet(Behind(g, S, o)) /\ Cardinality(Behind(g, S, o)) \in Nat
         /\ Cardinality(Behind(g, S, o)) <= Cardinality(Behind(f, S, o)) + 1
  <1>1. /\ IsFiniteSet(Behind(f, S, o)) /\ Cardinality(Behind(f, S, o)) \in Nat
        /\ IsFiniteSet(Behind(g, S, o)) /\ Cardinality(Behind(g, S, o)) \in Nat
    <2>1. Behind(f, S, o) \in SUBSET There(f) /\ Behind(g, S, o) \in SUBSET There(f)
      BY DEF Behind
    <2> QED BY <2>1, FiniteThere
  <1>2. CASE Behind(g, S, o) \subseteq Behind(f, S, o)
    <2>1. Cardinality(Behind(g, S, o)) <= Cardinality(Behind(f, S, o))
      BY <1>1, <1>2, FS_Subset
    <2> QED BY <1>1, <2>1
  <1>3. CASE ~(Behind(g, S, o) \subseteq Behind(f, S, o))
    <2>1. PICK y \in Behind(g, S, o) : y \notin Behind(f, S, o)
      BY <1>3
    <2>2. ASSUME NEW z \in Behind(g, S, o), z \notin Behind(f, S, o)
          PROVE  z \in There(f) /\ Place(f, z) = o - 1
      <3>1. z \in There(f) /\ Place(g, z) >= o /\ ~(Place(f, z) >= o)
        BY <2>2 DEF Behind
      <3> QED BY <3>1
    <2>3. \A z \in Behind(g, S, o) : z \in Behind(f, S, o) \/ z = y
      <3> SUFFICES ASSUME NEW z \in Behind(g, S, o), z \notin Behind(f, S, o) PROVE z = y
        OBVIOUS
      <3>1. z \in There(f) /\ y \in There(f) /\ Place(f, z) = Place(f, y)
        BY <2>1, <2>2
      <3> QED BY <3>1, PlacesDiffer
    <2>4. Behind(g, S, o) \in SUBSET (Behind(f, S, o) \cup {y})
      BY <2>3
    <2>5. /\ IsFiniteSet(Behind(f, S, o) \cup {y})
          /\ Cardinality(Behind(f, S, o) \cup {y}) = Cardinality(Behind(f, S, o)) + 1
      BY <1>1, <2>1, FS_AddElement
    <2>6. Cardinality(Behind(g, S, o)) <= Cardinality(Behind(f, S, o) \cup {y})
      BY <2>4, <2>5, FS_Subset
    <2> QED BY <1>1, <2>5, <2>6
  <1> QED BY <1>2, <1>3, <1>1

----------------------------------------------------------------------------
(* The walk through related jobs *)

(***************************************************************************)
(* A job that was there is shown or still to come; and of those created    *)
(* meanwhile, each has moved at most one shown job behind the cut, where   *)
(* it waits to be shown again.                                             *)
(***************************************************************************)
RelatedInv ==
    /\ Distinct(created)
    /\ walk.query = "related" =>
          /\ repeats <= Cardinality(There(created) \ known)
          /\ ~walk.done => repeats + Cardinality(Behind(created, shown, walk.offset))
                              <= Cardinality(There(created) \ known)
          /\ \A j \in known : \/ j \in shown
                              \/ ~walk.done /\ Place(created, j) >= walk.offset

\* The model's creation times are such a function.
LEMMA CreatedTimes == ASSUME TypeOK PROVE created \in [Jobs -> Nat] /\ Created = There(created)
  <1>1. created \in [Jobs -> Times \cup {0}] /\ \A t \in Times : t \in Nat
    BY DEF TypeOK
  <1>2. ASSUME NEW j \in Jobs PROVE created[j] \in Nat
    <2>1. CASE created[j] \in Times
      BY <1>1, <2>1
    <2>2. CASE created[j] = 0
      BY <2>2
    <2> QED BY <1>1, <2>1, <2>2
  <1>3. created \in [Jobs -> Nat]
    BY <1>1, <1>2
  <1> QED BY <1>3 DEF Created, There

\* A job created meanwhile pays for the one it may have moved behind the cut.
LEMMA CreateKeepsRelated ==
  ASSUME IInv, RelatedInv, NEW x \in Jobs, NEW t \in Times, CreateProcessingJob(x, t)
  PROVE  RelatedInv'
  <1> DEFINE f == created
             g == created'
             fresh == There(f) \ known
             o == walk.offset
  <1>1. TypeOK /\ walk \in Walk /\ o \in Nat
    BY DEF IInv, TypeOK, Walk
  <1>2. /\ f \in [Jobs -> Nat] /\ f[x] = 0 /\ t \in Nat \ {0} /\ \A i \in Jobs : f[i] # t
        /\ g = [f EXCEPT ![x] = t] /\ UNCHANGED <<logs, walk, known, shown, repeats>>
    BY <1>1, CreatedTimes DEF CreateProcessingJob
  <1>3. There(g) = There(f) \cup {x} /\ x \notin There(f)
    BY <1>2 DEF There
  <1>4. Distinct(g)
    BY <1>2, <1>3 DEF RelatedInv, Distinct, There
  <1>5. CASE walk.query = "related"
    <2>1. known \subseteq There(f) /\ shown \subseteq There(f) /\ repeats \in Nat
      BY <1>1, <1>5, CreatedTimes DEF TypeOK
    <2>2. /\ There(g) \ known = fresh \cup {x} /\ x \notin fresh
          /\ IsFiniteSet(fresh) /\ Cardinality(fresh) \in Nat
          /\ Cardinality(There(g) \ known) = Cardinality(fresh) + 1
      <3>1. There(g) \ known = fresh \cup {x} /\ x \notin fresh
        BY <1>3, <2>1
      <3>2. IsFiniteSet(fresh) /\ Cardinality(fresh) \in Nat
        BY FiniteThere
      <3> HIDE DEF fresh
      <3> QED BY <3>1, <3>2, FS_AddElement
    <2>3. \A j \in There(f) : /\ Place(f, j) \in Nat /\ Place(g, j) \in Nat
                              /\ Place(g, j) >= Place(f, j) /\ Place(g, j) <= Place(f, j) + 1
      BY <1>2, PlacesMove
    <2>4. /\ IsFiniteSet(Behind(f, shown, o)) /\ Cardinality(Behind(f, shown, o)) \in Nat
          /\ IsFiniteSet(Behind(g, shown, o)) /\ Cardinality(Behind(g, shown, o)) \in Nat
          /\ Cardinality(Behind(g, shown, o)) <= Cardinality(Behind(f, shown, o)) + 1
      BY <1>1, <1>2, <2>1, <2>3, OneMoreBehind DEF RelatedInv
    <2>6. /\ repeats <= Cardinality(There(g) \ known)
          /\ ~walk.done => repeats + Cardinality(Behind(g, shown, o))
                              <= Cardinality(There(g) \ known)
      <3>1. /\ repeats <= Cardinality(fresh)
            /\ ~walk.done => repeats + Cardinality(Behind(f, shown, o)) <= Cardinality(fresh)
        BY <1>5 DEF RelatedInv
      <3> HIDE DEF fresh, f, g, o
      <3> QED BY <2>1, <2>2, <2>4, <3>1
    <2>7. \A j \in known : j \in shown \/ (~walk.done /\ Place(g, j) >= o)
      <3>1. \A j \in known : j \in shown \/ (~walk.done /\ Place(f, j) >= o)
        BY <1>5 DEF RelatedInv
      <3> HIDE DEF f, g, o
      <3> QED BY <1>1, <2>1, <2>3, <3>1
    <2> QED BY <1>2, <1>4, <2>6, <2>7 DEF RelatedInv
  <1>6. CASE walk.query # "related"
    BY <1>2, <1>4, <1>6 DEF RelatedInv
  <1> QED BY <1>5, <1>6

\* A page takes from behind the cut what it shows again, and what it had to show.
LEMMA PageKeepsRelated ==
  ASSUME IInv, RelatedInv, NextRelated \/ LastRelated
  PROVE  RelatedInv'
  <1> DEFINE f == created
             fresh == There(f) \ known
             o == walk.offset
             n == walk.size
             page == Related(walk)
  <1>1. TypeOK /\ walk \in Walk /\ o \in Nat /\ n \in Nat \ {0}
        /\ walk.query = "related" /\ ~walk.done
    BY DEF IInv, TypeOK, Walk, NextRelated, LastRelated, ReadingRelated
  <1>2. /\ created' = created /\ known' = known /\ shown' = shown \cup page
        /\ repeats' = repeats + Cardinality(page \cap shown)
    BY DEF NextRelated, LastRelated, Show
  <1>3. /\ f \in [Jobs -> Nat] /\ Created = There(f) /\ repeats \in Nat
        /\ known \subseteq There(f) /\ shown \subseteq There(f) /\ Distinct(f)
    BY <1>1, CreatedTimes DEF TypeOK, RelatedInv
  <1>4. \A j \in There(f) : j \in Jobs /\ Place(f, j) \in Nat
    BY <1>3, PlaceType DEF There
  <1>5. page = {j \in There(f) : o <= Place(f, j) /\ Place(f, j) < o + n}
    <2>1. ASSUME NEW j \in There(f)
          PROVE  {i \in Created : created[i] > created[j]} = Ahead(f, j)
      BY <1>3, <1>4 DEF Ahead, There
    <2>2. \A j \in There(f) : Rank(j) = Place(f, j)
      BY <2>1 DEF Rank, Place
    <2> QED BY <1>3, <2>2 DEF Related
  <1>6. /\ repeats + Cardinality(Behind(f, shown, o)) <= Cardinality(fresh)
        /\ Cardinality(fresh) \in Nat
        /\ \A j \in known : j \in shown \/ Place(f, j) >= o
    BY <1>1, FiniteThere DEF RelatedInv
  <1>7. /\ Behind(f, shown, o) = (page \cap shown) \cup Behind(f, shown, o + n)
        /\ (page \cap shown) \cap Behind(f, shown, o + n) = {}
        /\ Behind(f, shown', o + n) = Behind(f, shown, o + n)
    <2> HIDE DEF f, o, n, page
    <2>1. \A j \in shown : Place(f, j) \in Nat /\ j \in There(f)
      BY <1>3, <1>4
    <2>2. \A j \in page : Place(f, j) \in Nat /\ ~(Place(f, j) >= o + n)
      BY <1>1, <1>4, <1>5
    <2>3. Behind(f, shown, o) = (page \cap shown) \cup Behind(f, shown, o + n)
      BY <1>1, <1>5, <2>1 DEF Behind
    <2>4. (page \cap shown) \cap Behind(f, shown, o + n) = {}
      BY <2>2 DEF Behind
    <2>5. Behind(f, shown', o + n) = Behind(f, shown, o + n)
      BY <1>2, <2>2 DEF Behind
    <2> QED BY <2>3, <2>4, <2>5
  <1>8. /\ Cardinality(page \cap shown) \in Nat /\ Cardinality(Behind(f, shown, o + n)) \in Nat
        /\ Cardinality(Behind(f, shown, o)) =
              Cardinality(page \cap shown) + Cardinality(Behind(f, shown, o + n))
    <2>1. page \cap shown \in SUBSET There(f) /\ Behind(f, shown, o + n) \in SUBSET There(f)
      BY <1>3 DEF Behind
    <2>2. /\ IsFiniteSet(page \cap shown) /\ IsFiniteSet(Behind(f, shown, o + n))
          /\ Cardinality(page \cap shown) \in Nat
          /\ Cardinality(Behind(f, shown, o + n)) \in Nat
      BY <2>1, FiniteThere
    <2>3. Cardinality((page \cap shown) \cap Behind(f, shown, o + n)) = 0
      BY <1>7, FS_EmptySet
    <2> HIDE DEF f, o, n, page
    <2>4. Cardinality((page \cap shown) \cup Behind(f, shown, o + n)) =
              Cardinality(page \cap shown) + Cardinality(Behind(f, shown, o + n)) - 0
      BY <2>2, <2>3, FS_Union
    <2> QED BY <1>7, <2>2, <2>4
  <1>9. /\ repeats' + Cardinality(Behind(f, shown', o + n)) <= Cardinality(fresh)
        /\ repeats' <= Cardinality(fresh)
    <2> HIDE DEF f, o, n, page, fresh
    <2> QED BY <1>2, <1>3, <1>6, <1>7, <1>8
  <1>10. \A j \in known : j \in shown' \/ Place(f, j) >= o + n
    <2> HIDE DEF f, o, n, page
    <2> QED BY <1>1, <1>2, <1>3, <1>4, <1>5, <1>6
  <1>11. CASE NextRelated
    <2>1. walk'.offset = o + n /\ walk'.query = "related" /\ walk'.done = FALSE
      <3>1. PICK p \in Nat : p = o + n
        BY <1>1
      <3>2. walk' = [walk EXCEPT !.offset = p]
        BY <1>11, <3>1 DEF NextRelated, NextOffset
      <3> QED BY <1>1, <3>1, <3>2 DEF Walk
    <2> QED BY <1>2, <1>3, <1>9, <1>10, <2>1 DEF RelatedInv
  <1>12. CASE LastRelated
    <2>1. walk'.query = "related" /\ walk'.done = TRUE
      BY <1>1, <1>12 DEF LastRelated, Walk
    <2>2. \A j \in There(f) : ~(Place(f, j) >= o + n)
      <3>1. Cardinality(page) # n
        BY <1>12 DEF LastRelated
      <3> HIDE DEF f, o, n, page
      <3> QED BY <1>1, <1>3, <1>5, <3>1, PageIsFull
    <2>3. \A j \in known : j \in shown'
      BY <1>3, <1>10, <2>2
    <2> QED BY <1>2, <1>3, <1>9, <2>1, <2>3 DEF RelatedInv
  <1> QED BY <1>11, <1>12

\* A walk through related jobs begins with all of them behind the cut.
LEMMA BeginKeepsRelated ==
  ASSUME IInv, RelatedInv, NEW q, NEW scope, NEW n, NEW there, Begin(q, scope, n, there),
         q = "related" => there = Created
  PROVE  RelatedInv'
  <1>1. PICK size : size = Size(q, n)
    OBVIOUS
  <1>2. /\ walk' = [query |-> q, scope |-> scope, size |-> size, cursor |-> NoToken,
                    offset |-> 0, done |-> FALSE]
        /\ known' = there /\ shown' = {} /\ repeats' = 0 /\ created' = created
    BY <1>1 DEF Begin
  <1>3. walk'.query = q /\ walk'.offset = 0 /\ walk'.done = FALSE
    BY <1>2
  <1>4. CASE q = "related"
    <2>1. There(created) \ known' = {} /\ Behind(created, shown', 0) = {}
      BY <1>2, <1>4, CreatedTimes DEF IInv, Behind
    <2>2. \A j \in known' : Place(created, j) >= 0
      <3>1. \A j \in known' : Place(created, j) \in Nat
        BY <1>2, <1>4, CreatedTimes, PlaceType DEF IInv, There
      <3> QED BY <3>1
    <2>3. Cardinality({}) = 0
      BY FS_EmptySet
    <2>4. /\ repeats' <= Cardinality(There(created') \ known')
          /\ repeats' + Cardinality(Behind(created', shown', walk'.offset))
                <= Cardinality(There(created') \ known')
          /\ \A j \in known' : ~walk'.done /\ Place(created', j) >= walk'.offset
      <3>1. There(created') \ known' = {} /\ Behind(created', shown', walk'.offset) = {}
        BY <1>2, <1>3, <2>1
      <3>2. \A j \in known' : ~walk'.done /\ Place(created', j) >= walk'.offset
        BY <1>2, <1>3, <2>2
      <3>3. repeats' = 0
        BY <1>2
      <3>4. /\ Cardinality(There(created') \ known') = 0
            /\ Cardinality(Behind(created', shown', walk'.offset)) = 0
        BY <2>3, <3>1, Zenon
      <3> QED BY <3>2, <3>3, <3>4
    <2>5. Distinct(created')
      BY <1>2 DEF RelatedInv
    <2> QED BY <2>4, <2>5 DEF RelatedInv
  <1>5. CASE q # "related"
    BY <1>2, <1>3, <1>5 DEF RelatedInv
  <1> QED BY <1>4, <1>5

\* Every step keeps what a walk through related jobs owes.
LEMMA NextKeepsRelated == IInv /\ RelatedInv /\ [Next]_vars => RelatedInv'
  <1> SUFFICES ASSUME IInv, RelatedInv, [Next]_vars PROVE RelatedInv'
    OBVIOUS
  <1>1. CASE UNCHANGED <<created, walk, known, shown, repeats>>
    BY <1>1 DEF RelatedInv
  <1>2. ASSUME NEW i \in Ids, NEW t \in Times, NEW j \in Jobs, NEW w \in Workspaces \cup {None},
               LogJobEvent(i, t, j, w) \/ LogMutation(i, t, j, w)
        PROVE  RelatedInv'
    BY <1>1, <1>2 DEF LogJobEvent, LogMutation, Commit
  <1>3. ASSUME NEW n \in Asked, NEW j \in Jobs, ListJobLogs(j, n) PROVE RelatedInv'
    BY <1>3, BeginKeepsRelated DEF ListJobLogs
  <1>4. ASSUME NEW n \in Asked, NEW scope \in Scope, SearchJobLogs(scope, n) PROVE RelatedInv'
    BY <1>4, BeginKeepsRelated DEF SearchJobLogs
  <1>5. ASSUME NEW n \in Asked, ListRelatedJobLogs(n) PROVE RelatedInv'
    BY <1>5, BeginKeepsRelated DEF ListRelatedJobLogs
  <1>6. CASE NextPage \/ LastPage
    <2>1. walk'.query # "related" /\ created' = created
      BY <1>6 DEF NextPage, LastPage, Reading, Show, IInv, TypeOK, Walk
    <2> QED BY <2>1 DEF RelatedInv
  <1>7. CASE UNCHANGED vars
    BY <1>1, <1>7 DEF vars
  <1> QED BY <1>2, <1>3, <1>4, <1>5, <1>6, <1>7, CreateKeepsRelated, PageKeepsRelated
          DEF Next, Write, Read

\* Both invariants hold always.
LEMMA RelatedAlways == Spec => [](IInv /\ RelatedInv)
  <1>1. Init => IInv /\ RelatedInv
    <2>1. Init => RelatedInv
      BY DEF Init, RelatedInv, Idle, Distinct, There
    <2> QED BY <2>1, InitIInv
  <1>2. IInv /\ RelatedInv /\ [Next]_vars => (IInv /\ RelatedInv)'
    BY NextKeepsIInv, NextKeepsRelated
  <1> QED BY <1>1, <1>2, PTL DEF Spec

\* A walk through related jobs that has ended has shown every job that was
\* there when it began, however many were created meanwhile.
THEOREM OffsetsMissNoJob == Spec => []NoJobMissed
  <1>1. RelatedInv => NoJobMissed
    BY DEF RelatedInv, NoJobMissed
  <1> QED BY <1>1, RelatedAlways, PTL

\* Its pages show at most one job again for each job created meanwhile.
THEOREM OffsetsRepeatFew == Spec => []RepeatsBound
  <1>1. IInv /\ RelatedInv => RepeatsBound
    BY CreatedTimes DEF IInv, RelatedInv, RepeatsBound
  <1> QED BY <1>1, RelatedAlways, PTL
=============================================================================

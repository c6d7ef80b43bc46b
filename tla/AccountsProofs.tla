--------------------------- MODULE AccountsProofs ---------------------------
(***************************************************************************)
(* How many accounts a user can get, and who reaches what is under them,   *)
(* for any number of users, overlapping calls and failures.                *)
(***************************************************************************)
EXTENDS Accounts, FiniteSetTheorems, TLAPS

USE NoneAssumption, ClientsAssumption, MaxMisledAssumption

\* Empty tables are well typed, and no call is under way.
LEMMA InitTypeOK == Init => TypeOK
BY DEF Init, TypeOK, Idle

\* Each statement keeps tables and calls well typed.
LEMMA StepTypeOK == TypeOK /\ [Next]_vars => TypeOK'
<1> SUFFICES ASSUME TypeOK, [Next]_vars PROVE TypeOK'
  OBVIOUS
<1> USE DEF TypeOK, Call, Idle, Membership
<1>1. ASSUME NEW c \in Clients, NEW u \in Users, GetOrCreateAccount(c, u) PROVE TypeOK'
  BY <1>1 DEF GetOrCreateAccount
<1>2. ASSUME NEW c \in Clients, AccountFound(c) PROVE TypeOK'
  BY <1>2 DEF AccountFound, Returns, AccountsOf
<1>3. ASSUME NEW c \in Clients, AccountMissing(c) \/ LookupFails(c) PROVE TypeOK'
  BY <1>3 DEF AccountMissing, NoneFound, LookupFails
<1>4. ASSUME NEW c \in Clients, NEW a \in AccountIds, InsertAccount(c, a) PROVE TypeOK'
  BY <1>4 DEF InsertAccount
<1>5. ASSUME NEW c \in Clients, CreateAccountUser(c) \/ CreateAccountUserFails(c) PROVE TypeOK'
  BY <1>5 DEF CreateAccountUser, CreateAccountUserFails, Returns
<1>6. ASSUME NEW c \in Clients, Fail(c) PROVE TypeOK'
  BY <1>6 DEF Fail
<1>7. ASSUME NEW g \in given, CreateWorkspace(g) PROVE TypeOK'
  BY <1>7 DEF CreateWorkspace
<1>8. CASE UNCHANGED vars
  BY <1>8 DEF vars
<1> QED BY <1>1, <1>2, <1>3, <1>4, <1>5, <1>6, <1>7, <1>8 DEF Next, Step

\* Tables and calls are well typed; membership rows and calls are of accounts
\* that are there.
THEOREM AccountsTypeOK == Spec => []TypeOK
BY InitTypeOK, StepTypeOK, PTL DEF Spec

(***************************************************************************)
(* Who reaches what.  An account being joined is nobody's yet.             *)
(***************************************************************************)
Untouched(a) ==
    /\ a \notin unjoined
    /\ \A m \in members : m.account # a
    /\ \A g \in given : g.account # a

AccessInv ==
    /\ unjoined \subseteq accounts /\ \A g \in given : g.account \in accounts
    /\ \A c \in Clients : calls[c].pc = "join" => Untouched(calls[c].account)
    /\ \A c, d \in Clients : calls[c].pc = "join" /\ calls[d].pc = "join" /\ c # d =>
                                calls[c].account # calls[d].account
    /\ \A m, n \in members : m.account = n.account => m = n
    /\ \A m \in members : m.account \notin unjoined
    /\ \A g \in given : g.account \notin unjoined => g \in members
    /\ \A ws \in workspaces : [account |-> ws.account, user |-> ws.by] \in given

\* No statement gives an account a second member or a joined one away.
LEMMA StepAccess == TypeOK /\ AccessInv /\ [Next]_vars => AccessInv'
<1> SUFFICES ASSUME TypeOK, AccessInv, [Next]_vars PROVE AccessInv'
  OBVIOUS
<1>1. ASSUME NEW c \in Clients, ~(calls'[c].pc = "join"),
             \A d \in Clients : d # c => calls'[d] = calls[d],
             UNCHANGED <<accounts, members, workspaces, given, unjoined>>
      PROVE  AccessInv'
  BY <1>1 DEF AccessInv, Untouched
<1>2. ASSUME NEW c \in Clients, NEW u \in Users, GetOrCreateAccount(c, u) PROVE AccessInv'
  BY <1>1, <1>2 DEF GetOrCreateAccount, TypeOK
<1>3. ASSUME NEW c \in Clients, AccountMissing(c) \/ LookupFails(c) \/ Fail(c) PROVE AccessInv'
  <2>1. /\ ~(calls'[c].pc = "join") /\ \A d \in Clients : d # c => calls'[d] = calls[d]
        /\ UNCHANGED <<accounts, members, workspaces, given, unjoined>>
    BY <1>3 DEF AccountMissing, NoneFound, LookupFails, Fail, TypeOK, Call, Idle
  <2> QED BY <1>1, <2>1
<1>4. ASSUME NEW c \in Clients, AccountFound(c) PROVE AccessInv'
  <2>1. PICK m \in members : m.user = calls[c].user /\ Returns(c, m.account)
    BY <1>4 DEF AccountFound, AccountsOf
  <2>2. given' = given \cup {m}
    BY <2>1 DEF Returns, TypeOK, Membership
  <2>3. /\ \A d \in Clients : calls'[d].pc = "join" => calls'[d] = calls[d]
        /\ UNCHANGED <<accounts, members, workspaces, unjoined>>
    BY <1>4, <2>1 DEF AccountFound, Returns, TypeOK, Idle
  <2> QED BY <2>2, <2>3 DEF AccessInv, Untouched, TypeOK
<1>5. ASSUME NEW c \in Clients, NEW a \in AccountIds, InsertAccount(c, a) PROVE AccessInv'
  <2>1. /\ calls'[c].account = a /\ \A d \in Clients : d # c => calls'[d] = calls[d]
        /\ a \notin accounts /\ accounts' = accounts \cup {a}
        /\ UNCHANGED <<members, workspaces, given, unjoined>>
    BY <1>5 DEF InsertAccount, FreshAccounts, TypeOK, Call, Idle
  <2>2. Untouched(a)
    BY <2>1 DEF AccessInv, TypeOK, Untouched
  <2> QED BY <2>1, <2>2 DEF AccessInv, TypeOK, Untouched
<1>6. ASSUME NEW c \in Clients, CreateAccountUser(c) \/ CreateAccountUserFails(c)
      PROVE  AccessInv'
  <2> DEFINE g == [account |-> calls[c].account, user |-> calls[c].user]
  <2>1. /\ calls[c].pc = "join" /\ given' = given \cup {g}
        /\ calls'[c].pc = "idle" /\ \A d \in Clients : d # c => calls'[d] = calls[d]
        /\ UNCHANGED <<accounts, workspaces>>
    BY <1>6 DEF CreateAccountUser, CreateAccountUserFails, Returns, TypeOK, Idle
  <2>2. Untouched(g.account) /\ g.account \in accounts
    BY <2>1 DEF AccessInv, TypeOK
  <2>3. \A d \in Clients : calls'[d].pc = "join" =>
           d # c /\ calls[d].pc = "join" /\ calls[d].account # g.account
    BY <2>1 DEF AccessInv
  <2>4. CASE members' = members \cup {g} /\ unjoined' = unjoined
    BY <2>1, <2>2, <2>3, <2>4 DEF AccessInv, Untouched
  <2>5. CASE members' = members /\ unjoined' = unjoined \cup {g.account}
    BY <2>1, <2>2, <2>3, <2>5 DEF AccessInv, Untouched
  <2> QED BY <1>6, <2>4, <2>5 DEF CreateAccountUser, CreateAccountUserFails
<1>7. ASSUME NEW g \in given, CreateWorkspace(g) PROVE AccessInv'
  <2>1. g = [account |-> g.account, user |-> g.user]
    BY DEF TypeOK, Membership
  <2> QED BY <1>7, <2>1 DEF CreateWorkspace, AccessInv, Untouched
<1>8. CASE UNCHANGED vars
  BY <1>8 DEF vars, AccessInv, Untouched
<1> QED BY <1>2, <1>3, <1>4, <1>5, <1>6, <1>7, <1>8 DEF Next, Step

\* The invariant of the accesses holds always.
LEMMA AccessAlways == Spec => [](TypeOK /\ AccessInv)
<1>1. Init => AccessInv
  BY DEF Init, AccessInv, Idle
<1> QED BY <1>1, InitTypeOK, StepTypeOK, StepAccess, PTL DEF Spec

\* A user reaches what was put under the accounts the user was given, unless
\* the membership row was refused: then nobody does.
THEOREM OwnReachable == Spec => []Reachable
<1>1. TypeOK /\ AccessInv => Reachable
  BY DEF TypeOK, AccessInv, Reachable, IsWorkspaceAccessible, IsAccountAccessible
<1> QED BY <1>1, AccessAlways, PTL

\* No user reaches a workspace of another.
THEOREM NobodyElseReaches == Spec => []NobodyElse
<1>1. TypeOK /\ AccessInv => NobodyElse
  <2> SUFFICES ASSUME TypeOK, AccessInv, NEW ws \in workspaces, NEW u \in Users,
                      [account |-> ws.account, user |-> u] \in members
               PROVE  u = ws.by
    BY DEF NobodyElse, IsWorkspaceAccessible, IsAccountAccessible
  <2>1. [account |-> ws.account, user |-> ws.by] \in members
    BY DEF AccessInv
  <2> QED BY <2>1 DEF AccessInv
<1> QED BY <1>1, AccessAlways, PTL

(***************************************************************************)
(* The bound counts the calls that have found no account as well: each may *)
(* yet become one.                                                         *)
(***************************************************************************)
Past(u) == {c \in Clients : calls[c].pc \in {"insert", "join"} /\ calls[c].user = u}

BoundInv ==
    /\ IsFiniteSet(members)
    /\ \A u \in Users :
          Cardinality(AccountsOf(u)) + Cardinality(Past(u)) <= Cardinality(Clients) + misled[u]

\* The sets that are counted are finite.
LEMMA Sizes ==
  ASSUME IsFiniteSet(members), NEW u \in Users
  PROVE  /\ IsFiniteSet(AccountsOf(u)) /\ Cardinality(AccountsOf(u)) \in Nat
         /\ IsFiniteSet(Past(u)) /\ Cardinality(Past(u)) \in Nat
         /\ Cardinality(Clients) \in Nat /\ Cardinality(Past(u)) <= Cardinality(Clients)
  <1>1. AccountsOf(u) \subseteq members /\ Past(u) \subseteq Clients
    BY DEF AccountsOf, Past
  <1> QED BY <1>1, FS_Subset, FS_CardinalityType

\* A call that begins, ends or stays where it was adds to neither side.
LEMMA NotPast ==
  ASSUME TypeOK, BoundInv, NEW c \in Clients, UNCHANGED <<members, misled>>,
         \A d \in Clients : d # c => calls'[d] = calls[d],
         calls'[c].pc \in {"insert", "join"} =>
            calls[c].pc \in {"insert", "join"} /\ calls'[c].user = calls[c].user
  PROVE  BoundInv'
  <1> SUFFICES ASSUME NEW u \in Users
               PROVE  Cardinality(AccountsOf(u)) + Cardinality(Past(u)')
                        <= Cardinality(Clients) + misled[u]
    BY DEF BoundInv, AccountsOf
  <1>1. Past(u)' \subseteq Past(u)
    BY DEF Past
  <1>2. /\ IsFiniteSet(Past(u)) /\ Cardinality(Past(u)) \in Nat
        /\ Cardinality(AccountsOf(u)) \in Nat /\ Cardinality(Clients) \in Nat
    BY Sizes DEF BoundInv
  <1>3. Cardinality(Past(u)') <= Cardinality(Past(u)) /\ Cardinality(Past(u)') \in Nat
    BY <1>1, <1>2, FS_Subset, FS_CardinalityType
  <1>4. misled[u] \in Nat
    BY DEF TypeOK
  <1> QED BY <1>2, <1>3, <1>4 DEF BoundInv

\* A user without an account has at most one call past the lookup per client.
LEMMA MissingBound ==
  ASSUME TypeOK, BoundInv, NEW c \in Clients, AccountMissing(c) PROVE BoundInv'
  <1>1. UNCHANGED <<members, misled>> /\ AccountsOf(calls[c].user) = {}
    BY DEF AccountMissing, NoneFound
  <1>2. \A d \in Clients : calls'[d].user = calls[d].user /\ (d # c => calls'[d] = calls[d])
    BY DEF AccountMissing, TypeOK, Call, Idle
  <1> SUFFICES ASSUME NEW u \in Users
               PROVE  Cardinality(AccountsOf(u)) + Cardinality(Past(u)')
                        <= Cardinality(Clients) + misled[u]
    BY <1>1 DEF BoundInv, AccountsOf
  <1>3. misled[u] \in Nat /\ Cardinality(Clients) \in Nat
    BY Sizes DEF TypeOK, BoundInv
  <1>4. CASE u = calls[c].user
    <2>1. Cardinality(AccountsOf(u)) = 0
      BY <1>1, <1>4, FS_EmptySet
    <2>2. Past(u)' \subseteq Clients
      BY DEF Past
    <2>3. Cardinality(Past(u)') <= Cardinality(Clients) /\ Cardinality(Past(u)') \in Nat
      BY <2>2, FS_Subset, FS_CardinalityType
    <2> QED BY <2>1, <2>3, <1>3
  <1>5. CASE u # calls[c].user
    <2>1. Past(u)' = Past(u)
      BY <1>2, <1>5 DEF Past
    <2> QED BY <2>1 DEF BoundInv
  <1> QED BY <1>4, <1>5

\* A failed lookup adds one call, and is counted.
LEMMA MisledBound ==
  ASSUME TypeOK, BoundInv, NEW c \in Clients, LookupFails(c) PROVE BoundInv'
  <1> DEFINE v == calls[c].user
  <1>1. /\ members' = members /\ calls[c].pc = "lookup" /\ v \in Users
        /\ misled' = [misled EXCEPT ![v] = @ + 1]
    BY DEF LookupFails, TypeOK, Call, Idle
  <1>2. \A d \in Clients : calls'[d].user = calls[d].user /\ (d # c => calls'[d] = calls[d])
    BY DEF LookupFails, TypeOK, Call, Idle
  <1>3. calls'[c].pc = "insert"
    BY DEF LookupFails, TypeOK
  <1> SUFFICES ASSUME NEW u \in Users
               PROVE  Cardinality(AccountsOf(u)) + Cardinality(Past(u)')
                        <= Cardinality(Clients) + misled'[u]
    BY <1>1 DEF BoundInv, AccountsOf
  <1>4. /\ misled[u] \in Nat /\ Cardinality(Clients) \in Nat /\ IsFiniteSet(Past(u))
        /\ Cardinality(AccountsOf(u)) \in Nat /\ Cardinality(Past(u)) \in Nat
        /\ Cardinality(AccountsOf(u)) + Cardinality(Past(u)) <= Cardinality(Clients) + misled[u]
    BY Sizes DEF TypeOK, BoundInv
  <1>5. CASE u = v
    <2>1. Past(u)' = Past(u) \cup {c} /\ c \notin Past(u)
      BY <1>1, <1>2, <1>3, <1>5 DEF Past
    <2>2. Cardinality(Past(u)') = Cardinality(Past(u)) + 1
      BY <2>1, <1>4, FS_AddElement
    <2>3. misled'[u] = misled[u] + 1
      BY <1>1, <1>5 DEF TypeOK
    <2> QED BY <2>2, <2>3, <1>4
  <1>6. CASE u # v
    <2>1. Past(u)' = Past(u)
      BY <1>2, <1>6 DEF Past
    <2>2. misled'[u] = misled[u]
      BY <1>1, <1>6 DEF TypeOK
    <2> QED BY <2>1, <2>2, <1>4
  <1> QED BY <1>5, <1>6

\* A membership row takes the place of the call that wrote it.
LEMMA JoinBound ==
  ASSUME TypeOK, BoundInv, NEW c \in Clients, CreateAccountUser(c) PROVE BoundInv'
  <1> DEFINE v == calls[c].user
             g == [account |-> calls[c].account, user |-> v]
  <1>1. /\ misled' = misled /\ calls[c].pc = "join" /\ members' = members \cup {g}
        /\ calls'[c].pc = "idle" /\ \A d \in Clients : d # c => calls'[d] = calls[d]
    BY DEF CreateAccountUser, Returns, TypeOK, Idle
  <1>2. IsFiniteSet(members')
    BY <1>1, FS_AddElement DEF BoundInv
  <1> SUFFICES ASSUME NEW u \in Users
               PROVE  Cardinality(AccountsOf(u)') + Cardinality(Past(u)')
                        <= Cardinality(Clients) + misled[u]
    BY <1>1, <1>2 DEF BoundInv
  <1>4. /\ misled[u] \in Nat /\ Cardinality(Clients) \in Nat
        /\ IsFiniteSet(Past(u)) /\ IsFiniteSet(AccountsOf(u))
        /\ Cardinality(AccountsOf(u)) \in Nat /\ Cardinality(Past(u)) \in Nat
        /\ Cardinality(AccountsOf(u)) + Cardinality(Past(u)) <= Cardinality(Clients) + misled[u]
    BY Sizes DEF TypeOK, BoundInv
  <1>5. CASE u = v
    <2>1. Past(u)' = Past(u) \ {c} /\ c \in Past(u)
      BY <1>1, <1>5 DEF Past
    <2>2. Cardinality(Past(u)') = Cardinality(Past(u)) - 1
      BY <2>1, <1>4, FS_RemoveElement
    <2>3. AccountsOf(u)' = AccountsOf(u) \cup {g}
      BY <1>1, <1>5 DEF AccountsOf
    <2>4. /\ Cardinality(AccountsOf(u)') \in {Cardinality(AccountsOf(u)),
                                              Cardinality(AccountsOf(u)) + 1}
      BY <2>3, <1>4, FS_AddElement
    <2> QED BY <2>2, <2>4, <1>4
  <1>6. CASE u # v
    <2>1. Past(u)' = Past(u)
      BY <1>1, <1>6 DEF Past
    <2>2. AccountsOf(u)' = AccountsOf(u)
      BY <1>1, <1>6 DEF AccountsOf
    <2> QED BY <2>1, <2>2, <1>4
  <1> QED BY <1>5, <1>6

\* A new account is paid for by the call that found none or by a failed lookup.
LEMMA StepBound == TypeOK /\ BoundInv /\ [Next]_vars => BoundInv'
<1> SUFFICES ASSUME TypeOK, BoundInv, [Next]_vars PROVE BoundInv'
  OBVIOUS
<1>1. ASSUME NEW c \in Clients, NEW u \in Users, GetOrCreateAccount(c, u) PROVE BoundInv'
  BY <1>1, NotPast DEF GetOrCreateAccount, TypeOK
<1>2. ASSUME NEW c \in Clients, AccountFound(c) PROVE BoundInv'
  BY <1>2, NotPast DEF AccountFound, Returns, TypeOK, Idle
<1>3. ASSUME NEW c \in Clients, NEW a \in AccountIds, InsertAccount(c, a) PROVE BoundInv'
  <2>1. /\ UNCHANGED <<members, misled>> /\ \A d \in Clients : d # c => calls'[d] = calls[d]
        /\ calls[c].pc = "insert" /\ calls'[c].user = calls[c].user
    BY <1>3 DEF InsertAccount, TypeOK, Call, Idle
  <2> QED BY <2>1, NotPast
<1>4. ASSUME NEW c \in Clients, CreateAccountUserFails(c) \/ Fail(c) PROVE BoundInv'
  <2>1. /\ UNCHANGED <<members, misled>> /\ \A d \in Clients : d # c => calls'[d] = calls[d]
        /\ calls'[c].pc = "idle"
    BY <1>4 DEF CreateAccountUserFails, Fail, Returns, TypeOK, Idle
  <2> QED BY <2>1, NotPast
<1>5. ASSUME NEW g \in given, CreateWorkspace(g) PROVE BoundInv'
  BY <1>5 DEF CreateWorkspace, BoundInv, AccountsOf, Past
<1>6. CASE UNCHANGED vars
  BY <1>6 DEF vars, BoundInv, AccountsOf, Past
<1> QED BY <1>1, <1>2, <1>3, <1>4, <1>5, <1>6, MissingBound, MisledBound, JoinBound
        DEF Next, Step

\* The count holds always.
LEMMA BoundAlways == Spec => [](TypeOK /\ BoundInv)
<1>1. Init => BoundInv
  <2> SUFFICES ASSUME Init PROVE BoundInv
    OBVIOUS
  <2>1. IsFiniteSet(members) /\ Cardinality({}) = 0
    BY FS_EmptySet DEF Init
  <2>2. \A u \in Users : AccountsOf(u) = {} /\ Past(u) = {} /\ misled[u] = 0
    BY DEF Init, AccountsOf, Past, Idle
  <2>3. Cardinality(Clients) \in Nat
    BY FS_CardinalityType
  <2>4. ASSUME NEW u \in Users
        PROVE  Cardinality(AccountsOf(u)) + Cardinality(Past(u))
                 <= Cardinality(Clients) + misled[u]
    <3>1. Cardinality(AccountsOf(u)) = 0 /\ Cardinality(Past(u)) = 0 /\ misled[u] = 0
      BY <2>1, <2>2
    <3> QED BY <3>1, <2>3
  <2> QED BY <2>1, <2>4 DEF BoundInv
<1> QED BY <1>1, InitTypeOK, StepTypeOK, StepBound, PTL DEF Spec

\* A user has at most one account for each client that may overlap, and one
\* for each failed lookup.
THEOREM AccountsBounded == Spec => []AccountsBound
<1>1. TypeOK /\ BoundInv => AccountsBound
  <2> SUFFICES ASSUME TypeOK, BoundInv, NEW u \in Users
               PROVE  Cardinality(AccountsOf(u)) <= Cardinality(Clients) + misled[u]
    BY DEF AccountsBound
  <2>1. misled[u] \in Nat
    BY DEF TypeOK
  <2> QED BY <2>1, Sizes DEF BoundInv
<1> QED BY <1>1, BoundAlways, PTL

(***************************************************************************)
(* One call at a time.  A user none of whose lookups failed is given the   *)
(* same account by every call, apart from accounts whose membership row    *)
(* was refused.                                                            *)
(***************************************************************************)
SameAccount ==
    \A g, h \in given :
        g.user = h.user /\ misled[g.user] = 0 /\ {g.account, h.account} \cap unjoined = {} =>
            g = h

\* A set of at most one element has no two.
LEMMA AtMostOne ==
  ASSUME NEW S, IsFiniteSet(S), Cardinality(S) <= 1, NEW x \in S, NEW y \in S
  PROVE  x = y
<1>1. Cardinality({x}) = 1 /\ {x} \in SUBSET S
  BY FS_Singleton
<1>2. Cardinality({x}) <= Cardinality(S) /\ Cardinality(S) \in Nat
  BY <1>1, FS_Subset, FS_CardinalityType
<1>3. Cardinality(S) = Cardinality({x})
  BY <1>1, <1>2
<1> QED BY <1>1, <1>3, FS_Subset

\* With one client at a time GetOrCreateAccount finds what it has created before,
\* although it creates it in three statements and any of them may fail.
THEOREM OneCallerOneAccount ==
  ASSUME Cardinality(Clients) = 1 PROVE Spec => []SameAccount
<1>1. TypeOK /\ AccessInv /\ AccountsBound /\ BoundInv => SameAccount
  <2> SUFFICES ASSUME TypeOK, AccessInv, AccountsBound, BoundInv,
                      NEW g \in given, NEW h \in given, g.user = h.user, misled[g.user] = 0,
                      g.account \notin unjoined, h.account \notin unjoined
               PROVE  g = h
    BY DEF SameAccount
  <2>1. g \in members /\ h \in members /\ g.user \in Users
    BY DEF AccessInv, TypeOK, Membership
  <2>2. AccountsOf(g.user) \in SUBSET members /\ g \in AccountsOf(g.user)
        /\ h \in AccountsOf(g.user)
    BY <2>1 DEF AccountsOf
  <2>3. IsFiniteSet(AccountsOf(g.user)) /\ Cardinality(AccountsOf(g.user)) <= 1
    BY <2>1, <2>2, FS_Subset DEF AccountsBound, BoundInv
  <2> QED BY <2>2, <2>3, AtMostOne
<1> QED BY <1>1, AccessAlways, AccountsBounded, BoundAlways, PTL
=============================================================================

------------------------------ MODULE Accounts ------------------------------
(***************************************************************************)
(* The account of a user and the workspaces under it                       *)
(* (repository/postgres/workspace.go).  GetOrCreateAccount looks for an    *)
(* account, inserts one and joins the user to it in three statements       *)
(* without a transaction.                                                  *)
(***************************************************************************)
EXTENDS Naturals, FiniteSets

CONSTANTS
    Users,       \* user ids
    Clients,     \* callers of GetOrCreateAccount, one call at a time
    AccountIds,  \* fresh ids, bounds the accounts
    None,        \* no id
    MaxMisled    \* bounds the failed lookups of one user

ASSUME NoneAssumption == None \notin Users \cup AccountIds
ASSUME ClientsAssumption == IsFiniteSet(Clients)
ASSUME MaxMisledAssumption == MaxMisled \in Nat

VARIABLES
    accounts,    \* ids in the table accounts
    members,     \* rows of account_users
    workspaces,  \* account of each workspace, and who had it created
    calls,       \* calls of GetOrCreateAccount
    given,       \* history: the accounts that calls have returned
    unjoined,    \* history: accounts whose membership row was refused
    misled       \* history: per user, lookups that failed

vars == <<accounts, members, workspaces, calls, given, unjoined, misled>>

Membership == [account : AccountIds, user : Users]

Idle == [pc |-> "idle", user |-> None, account |-> None]

AccountsOf(u) == {m \in members : m.user = u}

IsAccountAccessible(a, u) == [account |-> a, user |-> u] \in members

IsWorkspaceAccessible(ws, u) == IsAccountAccessible(ws.account, u)

----------------------------------------------------------------------------
Init ==
    /\ accounts = {} /\ members = {} /\ workspaces = {}
    /\ calls = [c \in Clients |-> Idle]
    /\ given = {} /\ unjoined = {}
    /\ misled = [u \in Users |-> 0]

Returns(c, a) ==
    /\ calls' = [calls EXCEPT ![c] = Idle]
    /\ given' = given \cup {[account |-> a, user |-> calls[c].user]}

GetOrCreateAccount(c, u) ==
    /\ calls[c].pc = "idle"
    /\ calls' = [calls EXCEPT ![c] = [pc |-> "lookup", user |-> u, account |-> None]]
    /\ UNCHANGED <<accounts, members, workspaces, given, unjoined, misled>>

\* Any of the user's accounts: LIMIT 1 without an order.
AccountFound(c) ==
    /\ calls[c].pc = "lookup"
    /\ \E m \in AccountsOf(calls[c].user) : Returns(c, m.account)
    /\ UNCHANGED <<accounts, members, workspaces, unjoined, misled>>

\* Slip: the account of a user is not asked for.
NotAsked(c) == calls[c].pc = "lookup"

NoneFound(c) == calls[c].pc = "lookup" /\ AccountsOf(calls[c].user) = {}

AccountMissing(c) ==
    /\ NoneFound(c)
    /\ calls' = [calls EXCEPT ![c].pc = "insert"]
    /\ UNCHANGED <<accounts, members, workspaces, given, unjoined, misled>>

\* Any error of the lookup is taken for a missing account.
LookupFails(c) ==
    /\ calls[c].pc = "lookup"
    /\ misled[calls[c].user] < MaxMisled
    /\ calls' = [calls EXCEPT ![c].pc = "insert"]
    /\ misled' = [misled EXCEPT ![calls[c].user] = @ + 1]
    /\ UNCHANGED <<accounts, members, workspaces, given, unjoined>>

\* Slip: an account of somebody else has the id, and ON CONFLICT returns it.
AnyAccount == AccountIds

FreshAccounts == AccountIds \ accounts

\* Slip: the error of the insert is dropped too.
InsertErrorDropped(c, a) ==
    /\ calls[c].pc = "insert"
    /\ a \in FreshAccounts
    /\ calls' = [calls EXCEPT ![c].pc = "join", ![c].account = a]
    /\ UNCHANGED <<accounts, members, workspaces, given, unjoined, misled>>

InsertAccount(c, a) ==
    /\ calls[c].pc = "insert"
    /\ a \in FreshAccounts
    /\ accounts' = accounts \cup {a}
    /\ calls' = [calls EXCEPT ![c].pc = "join", ![c].account = a]
    /\ UNCHANGED <<members, workspaces, given, unjoined, misled>>

\* Slip: the account is returned before its membership row is written.
ReturnUnjoined(c) ==
    /\ calls[c].pc = "join"
    /\ Returns(c, calls[c].account)
    /\ UNCHANGED <<accounts, members, workspaces, unjoined, misled>>

CreateAccountUser(c) ==
    /\ calls[c].pc = "join"
    /\ members' = members \cup {[account |-> calls[c].account, user |-> calls[c].user]}
    /\ Returns(c, calls[c].account)
    /\ UNCHANGED <<accounts, workspaces, unjoined, misled>>

\* The error is dropped and the account returned.
CreateAccountUserFails(c) ==
    /\ calls[c].pc = "join"
    /\ unjoined' = unjoined \cup {calls[c].account}
    /\ Returns(c, calls[c].account)
    /\ UNCHANGED <<accounts, members, workspaces, misled>>

\* The insert of the account reports an error, or the process dies anywhere.
Fail(c) ==
    /\ calls[c].pc # "idle"
    /\ calls' = [calls EXCEPT ![c] = Idle]
    /\ UNCHANGED <<accounts, members, workspaces, given, unjoined, misled>>

\* A user creates workspaces under an account returned to that user.
CreateWorkspace(g) ==
    /\ g \in given
    /\ workspaces' = workspaces \cup {[account |-> g.account, by |-> g.user]}
    /\ UNCHANGED <<accounts, members, calls, given, unjoined, misled>>

Step(c) ==
    \/ AccountFound(c) \/ AccountMissing(c) \/ LookupFails(c)
    \/ \E a \in AccountIds : InsertAccount(c, a)
    \/ CreateAccountUser(c) \/ CreateAccountUserFails(c) \/ Fail(c)

Next ==
    \/ \E c \in Clients : Step(c) \/ \E u \in Users : GetOrCreateAccount(c, u)
    \/ \E g \in given : CreateWorkspace(g)

Spec == Init /\ [][Next]_vars

----------------------------------------------------------------------------
(* Properties *)

Call ==
    [pc : {"lookup", "insert"}, user : Users, account : {None}]
        \cup [pc : {"join"}, user : Users, account : AccountIds]

\* Types; membership rows and calls are of accounts that are there.
TypeOK ==
    /\ accounts \subseteq AccountIds
    /\ members \subseteq Membership /\ \A m \in members : m.account \in accounts
    /\ workspaces \subseteq [account : AccountIds, by : Users]
    /\ calls \in [Clients -> Call \cup {Idle}]
    /\ \A c \in Clients : calls[c].pc = "join" => calls[c].account \in accounts
    /\ given \subseteq Membership
    /\ unjoined \subseteq AccountIds
    /\ misled \in [Users -> Nat]

(***************************************************************************)
(* First calls that overlap may create an account each, and so may a call  *)
(* whose lookup failed; no other call creates one, so a user never has     *)
(* more accounts than that.                                                *)
(***************************************************************************)
AccountsBound ==
    \A u \in Users : Cardinality(AccountsOf(u)) <= Cardinality(Clients) + misled[u]

(***************************************************************************)
(* Whatever account a call returned, of however many: what its user puts   *)
(* under it is accessible to that user, and stays so when later calls      *)
(* return another account.  The exception is an account whose membership   *)
(* row was refused: nobody reaches what is under it.                       *)
(***************************************************************************)
Reachable ==
    \A ws \in workspaces :
        IF ws.account \in unjoined THEN \A u \in Users : ~IsWorkspaceAccessible(ws, u)
        ELSE IsWorkspaceAccessible(ws, ws.by)

\* Nobody else ever reaches it, whichever calls of different users overlap.
NobodyElse ==
    \A ws \in workspaces, u \in Users : IsWorkspaceAccessible(ws, u) => u = ws.by
=============================================================================

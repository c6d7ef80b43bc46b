----------------------------- MODULE ChunkLists -----------------------------
(***************************************************************************)
(* What saving the chunks of a document promises: a save that ends well    *)
(* puts its whole list in the place of all that was there when it began;   *)
(* one that fails changes nothing.  Lists that were saved in between stay  *)
(* beside it: only saves that do not overlap leave one list, as the        *)
(* in-memory store, which holds a lock, always does.                       *)
(***************************************************************************)
EXTENDS Integers, Sequences

CONSTANTS Calls   \* calls of SaveDocumentChunks for one document

VARIABLES
    chunks,  \* the list to be saved
    rows,    \* what is saved: chunk n of a call's list is <<call, n>>
    open,    \* the calls under way
    begun,   \* the calls that have begun
    since    \* per call under way, what is there that was not when it began

vars == <<chunks, rows, open, begun, since>>

List(c) == {<<c, n>> : n \in 1..Len(chunks)}

Init ==
    /\ chunks = <<>>
    /\ rows = {} /\ open = {} /\ begun = {}
    /\ since = [c \in Calls |-> {}]

\* The list is made up before the first call.
Prepare ==
    /\ begun = {}
    /\ UNCHANGED <<rows, open, begun, since>>

Begin(c) ==
    /\ c \notin begun
    /\ begun' = begun \cup {c}
    /\ open' = open \cup {c}
    /\ UNCHANGED <<chunks, rows, since>>

Save(c) ==
    /\ c \in open
    /\ rows' = since[c] \cup List(c)
    /\ open' = open \ {c}
    /\ since' = [d \in Calls |-> IF d \in open \ {c} THEN (since[d] \cap since[c]) \cup List(c)
                                 ELSE {}]
    /\ UNCHANGED <<chunks, begun>>

Fail(c) ==
    /\ c \in open
    /\ open' = open \ {c}
    /\ since' = [since EXCEPT ![c] = {}]
    /\ UNCHANGED <<chunks, rows, begun>>

Next == Prepare \/ \E c \in Calls : Begin(c) \/ Save(c) \/ Fail(c)

Spec == Init /\ [][Next]_vars
=============================================================================

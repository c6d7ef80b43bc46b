--------------------------- MODULE DocumentChunks ---------------------------
(***************************************************************************)
(* The chunks of one document: BuildChunks makes them up, and calls of     *)
(* SaveDocumentChunks, a first one, retries, those of another job for the  *)
(* same document, put them in the place of what is in document_chunks.     *)
(*                                                                         *)
(* A call is one READ COMMITTED transaction.  Its DELETE sees the rows     *)
(* that are committed when it starts and waits for a transaction that has  *)
(* deleted one of them; each chunk is an INSERT under a new id.            *)
(***************************************************************************)
EXTENDS Chunking

CONSTANTS Calls   \* calls of SaveDocumentChunks

VARIABLES
    rows,   \* committed rows of document_chunks: chunk n of a call is <<call, n>>
    saves   \* per call: where it is, the rows its DELETE saw, its INSERTs so far

saving == <<rows, saves>>
vars == <<text, step, read, start, heading, sections, chunks, rows, saves>>

Init ==
    /\ ChunkingInit
    /\ rows = {}
    /\ saves = [c \in Calls |-> [pc |-> "idle", seen |-> {}, put |-> 0]]

Build == ChunkingNext /\ UNCHANGED saving

\* Whether a transaction has deleted rows and not yet ended.
Holds(d) == saves[d].pc = "insert"

BeginSave(c) ==
    /\ step = "returned"
    /\ saves[c].pc = "idle"
    /\ saves' = [saves EXCEPT ![c].pc = "delete", ![c].seen = rows]
    /\ UNCHANGED <<rows, chunking>>

\* Slip: the DELETE is run outside the transaction and commits by itself.
DeleteAtOnce(c) ==
    /\ saves[c].pc = "delete"
    /\ saves' = [saves EXCEPT ![c].pc = "insert"]
    /\ rows' = rows \ saves[c].seen
    /\ UNCHANGED chunking

DeleteDocumentChunks(c) ==
    /\ saves[c].pc = "delete"
    /\ \A d \in Calls : Holds(d) => saves[d].seen \cap saves[c].seen \cap rows = {}
    /\ saves' = [saves EXCEPT ![c].pc = "insert"]
    /\ UNCHANGED <<rows, chunking>>

\* Slip: the loop runs once too often.
CreateOneMore(c) ==
    /\ Holds(c)
    /\ saves[c].put <= Len(chunks)
    /\ saves' = [saves EXCEPT ![c].put = @ + 1]
    /\ UNCHANGED <<rows, chunking>>

CreateDocumentChunk(c) ==
    /\ Holds(c)
    /\ saves[c].put < Len(chunks)
    /\ saves' = [saves EXCEPT ![c].put = @ + 1]
    /\ UNCHANGED <<rows, chunking>>

CommitSave(c) ==
    /\ Holds(c)
    /\ saves[c].put = Len(chunks)
    /\ rows' = (rows \ saves[c].seen) \cup {<<c, n>> : n \in 1..saves[c].put}
    /\ saves' = [saves EXCEPT ![c] = [pc |-> "over", seen |-> {}, put |-> 0]]
    /\ UNCHANGED chunking

\* A statement or the commit reports an error, the context is cancelled, the process dies.
RollbackSave(c) ==
    /\ saves[c].pc \in {"delete", "insert"}
    /\ saves' = [saves EXCEPT ![c] = [pc |-> "over", seen |-> {}, put |-> 0]]
    /\ UNCHANGED <<rows, chunking>>

SaveDocumentChunks(c) ==
    \/ BeginSave(c) \/ DeleteDocumentChunks(c) \/ CreateDocumentChunk(c)
    \/ CommitSave(c) \/ RollbackSave(c)

Next == Build \/ \E c \in Calls : SaveDocumentChunks(c)

Spec == Init /\ [][Next]_vars

----------------------------------------------------------------------------
(* Properties *)

Rows == Calls \X Nat

SaveRecord == [pc : {"idle", "delete", "insert", "over"}, seen : SUBSET Rows, put : Nat]

\* Texts, chunks, rows and calls are well typed; no call inserts more than the list,
\* rows are of calls that have ended, and nobody saves before BuildChunks returns.
TypeOK ==
    /\ ChunkingTypeOK
    /\ rows \subseteq Rows
    /\ \A row \in rows : saves[row[1]].pc = "over"
    /\ saves \in [Calls -> SaveRecord]
    /\ \A c \in Calls :
           /\ saves[c].put <= Len(chunks)
           /\ \A row \in saves[c].seen : saves[row[1]].pc = "over"
           /\ saves[c].pc # "idle" => step = "returned"
           /\ saves[c].pc \in {"idle", "over"} => saves[c].seen = {} /\ saves[c].put = 0

\* Calls under way, calls begun, and what each finds new since its DELETE started.
Open == {c \in Calls : saves[c].pc \in {"delete", "insert"}}
Begun == {c \in Calls : saves[c].pc # "idle"}
New == [c \in Calls |-> IF c \in Open THEN rows \ saves[c].seen ELSE {}]

(***************************************************************************)
(* The transactions implement the promise: a commit is a Save, the start   *)
(* of the DELETE is what counts as the beginning, and every other          *)
(* statement changes nothing anybody sees.                                 *)
(***************************************************************************)
Lists == INSTANCE ChunkLists
    WITH chunks <- chunks, rows <- rows, open <- Open, begun <- Begun, since <- New

RefinesChunkLists == Lists!Spec
=============================================================================

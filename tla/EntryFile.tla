----------------------------- MODULE EntryFile -----------------------------
(***************************************************************************)
(* One JSON file on the mount: a cache entry or the checkpoint of a stage  *)
(* (storage/filesystem.go).  WriteCache and WriteCheckpoint are the same   *)
(* four steps: open the temporary file, write it, close it, rename it to   *)
(* its final name.  The temporary name depends on the final one only, so   *)
(* calls that overlap share the file.  ReadCache and ReadCheckpoint open   *)
(* the final name and decode what they find behind it.                     *)
(*                                                                         *)
(* Names are links to files; a file is known by the call that made it, an  *)
(* envelope by the call that writes it.  Encode hands the whole text to    *)
(* one write, and the decoder stops after one value: a file decodes to     *)
(* what was last written from its beginning to its end.                    *)
(***************************************************************************)

CONSTANTS
    Writes,    \* calls of WriteCheckpoint or WriteCache for this file
    Readers,   \* callers of ReadCheckpoint or ReadCache, one call at a time
    None,      \* no file, no envelope
    Torn       \* a text that is not one whole envelope: empty, cut off, mixed

ASSUME NoneAssumption == None \notin Writes
ASSUME TornAssumption == Torn \notin Writes

VARIABLES
    tmp,       \* the file of the temporary name
    final,     \* the file of the final name
    text,      \* what each file decodes to
    pc,        \* what each writing call has done
    file,      \* the file it has opened
    reads,     \* what each reader has open; expect is history: last at that time
    last,      \* history: the last call that succeeded
    marks      \* history: what befell each file

vars == <<tmp, final, text, pc, file, reads, last, marks>>

Active(w) == pc[w] \in {"created", "written", "closed"}

Users(f) == {w \in Writes : Active(w) /\ file[w] = f}

Closed == [file |-> None, expect |-> None]

(***************************************************************************)
(* "shared": two calls under way used the file; "cut": a call ended before *)
(* it had written all of it; "lost": Close lost what was written.          *)
(***************************************************************************)
Marks == {"shared", "cut", "lost"}

Mark(f, m) == [marks EXCEPT ![f] = @ \cup {m}]

----------------------------------------------------------------------------
Init ==
    /\ tmp = None /\ final = None /\ last = None
    /\ text = [f \in Writes |-> Torn]
    /\ pc = [w \in Writes |-> "new"]
    /\ file = [w \in Writes |-> None]
    /\ reads = [r \in Readers |-> Closed]
    /\ marks = [f \in Writes |-> {}]

\* Slip: the final name is opened, and written in place.
TargetInPlace == final

Target == tmp

(***************************************************************************)
(* os.Create opens the file and empties it, or makes a new one.  What      *)
(* befell the file is past, unless another call is using it.               *)
(***************************************************************************)
Create(w) ==
    /\ pc[w] = "new"
    /\ LET f == IF Target = None THEN w ELSE Target
       IN  /\ file' = [file EXCEPT ![w] = f]
           /\ text' = [text EXCEPT ![f] = Torn]
           /\ marks' = IF Users(f) = {} THEN [marks EXCEPT ![f] = {}] ELSE Mark(f, "shared")
    /\ pc' = [pc EXCEPT ![w] = "created"]
    /\ tmp' = IF Target = None THEN w ELSE tmp
    /\ UNCHANGED <<final, reads, last>>

\* Encode, all of it.
Write(w) ==
    /\ pc[w] = "created"
    /\ text' = [text EXCEPT ![file[w]] = w]
    /\ pc' = [pc EXCEPT ![w] = "written"]
    /\ UNCHANGED <<tmp, final, file, reads, last, marks>>

\* Slip: the error of Encode is not returned.
WriteErrorDropped(w) ==
    /\ pc[w] = "created"
    /\ pc' = [pc EXCEPT ![w] = "written"]
    /\ UNCHANGED <<tmp, final, text, file, reads, last, marks>>

\* The write fails, having written nothing or a part; the temporary file stays.
WriteFails(w) ==
    /\ pc[w] = "created"
    /\ \E t \in {text[file[w]], Torn} : text' = [text EXCEPT ![file[w]] = t]
    /\ pc' = [pc EXCEPT ![w] = "ended"]
    /\ marks' = Mark(file[w], "cut")
    /\ UNCHANGED <<tmp, final, file, reads, last>>

Close(w) ==
    /\ pc[w] = "written"
    /\ pc' = [pc EXCEPT ![w] = "closed"]
    /\ UNCHANGED <<tmp, final, text, file, reads, last, marks>>

\* What was written does not reach the mount; the error of Close is ignored.
CloseLoses(w) ==
    /\ pc[w] = "written"
    /\ pc' = [pc EXCEPT ![w] = "closed"]
    /\ text' = [text EXCEPT ![file[w]] = Torn]
    /\ marks' = Mark(file[w], "lost")
    /\ UNCHANGED <<tmp, final, file, reads, last>>

\* Slip: the rename does not wait for the write.
ReadyTooEarly(w) == pc[w] \in {"created", "closed"}

Ready(w) == pc[w] = "closed"

\* Slip: the file is linked to its final name and keeps the temporary one.
TempStays == tmp

TempAfter == None

\* The rename takes whatever file the temporary name links to by now.
Rename(w) ==
    /\ Ready(w)
    /\ tmp # None
    /\ final' = tmp /\ tmp' = TempAfter
    /\ last' = w
    /\ pc' = [pc EXCEPT ![w] = "ended"]
    /\ marks' = IF tmp = file[w] THEN marks ELSE Mark(tmp, "shared")
    /\ UNCHANGED <<text, file, reads>>

\* Another call has renamed the file: the call returns an error.
RenameMissing(w) ==
    /\ Ready(w)
    /\ tmp = None
    /\ pc' = [pc EXCEPT ![w] = "ended"]
    /\ UNCHANGED <<tmp, final, text, file, reads, last, marks>>

\* Slip: a call that fails removes the temporary file.
StopAndRemove(w) ==
    /\ Active(w)
    /\ tmp' = None
    /\ pc' = [pc EXCEPT ![w] = "ended"]
    /\ marks' = IF pc[w] = "created" THEN Mark(file[w], "cut") ELSE marks
    /\ UNCHANGED <<final, text, file, reads, last>>

\* The process dies, or the rename fails: the temporary file stays.
Stop(w) ==
    /\ Active(w)
    /\ pc' = [pc EXCEPT ![w] = "ended"]
    /\ marks' = IF pc[w] = "created" THEN Mark(file[w], "cut") ELSE marks
    /\ UNCHANGED <<tmp, final, text, file, reads, last>>

\* A missing file is no error: the call returns at once and has found nothing.
Open(r) ==
    /\ reads[r] = Closed
    /\ reads' = IF final = None THEN reads
                ELSE [reads EXCEPT ![r] = [file |-> final, expect |-> last]]
    /\ UNCHANGED <<tmp, final, text, pc, file, last, marks>>

\* Returns the text of the file, an error when it is torn.
Decode(r) ==
    /\ reads[r] # Closed
    /\ reads' = [reads EXCEPT ![r] = Closed]
    /\ UNCHANGED <<tmp, final, text, pc, file, last, marks>>

WriteStep(w) ==
    \/ Create(w) \/ Write(w) \/ WriteFails(w) \/ Close(w) \/ CloseLoses(w)
    \/ Rename(w) \/ RenameMissing(w) \/ Stop(w)

Next ==
    \/ \E w \in Writes : WriteStep(w)
    \/ \E r \in Readers : Open(r) \/ Decode(r)

Spec == Init /\ [][Next]_vars

----------------------------------------------------------------------------
(* Properties *)

\* Types, and no file has both names.
TypeOK ==
    /\ tmp \in Writes \cup {None} /\ final \in Writes \cup {None}
    /\ tmp # None => tmp # final
    /\ last \in Writes \cup {None} /\ (final = None <=> last = None)
    /\ text \in [Writes -> Writes \cup {Torn}]
    /\ pc \in [Writes -> {"new", "created", "written", "closed", "ended"}]
    /\ file \in [Writes -> Writes \cup {None}]
    /\ \A w \in Writes : pc[w] = "new" <=> file[w] = None
    /\ reads \in [Readers -> [file : Writes, expect : Writes] \cup {Closed}]
    /\ marks \in [Writes -> SUBSET Marks]

Unspoilt(f) == marks[f] \cap {"shared", "lost"} = {}

(***************************************************************************)
(* A file that no two calls shared and whose close worked holds, under its *)
(* final name, the envelope of the last call that succeeded, whatever      *)
(* calls fail or die at whatever step.  It is enough that the last writer  *)
(* was alone with its file: earlier damage is gone.                        *)
(***************************************************************************)
LastWritten == final # None /\ Unspoilt(final) => text[final] = last

(***************************************************************************)
(* A reader decodes the envelope of the last call that had succeeded when  *)
(* it opened the file, even while others write and rename a new one.       *)
(***************************************************************************)
ReadsLast ==
    \A r \in Readers :
        reads[r] # Closed /\ Unspoilt(reads[r].file) => text[reads[r].file] = reads[r].expect

(***************************************************************************)
(* Calls that overlap may rename a file another is still writing, and for  *)
(* a while readers find it torn.  It is whole again when that call has     *)
(* written, unless it fails, dies or loses it at the close.                *)
(***************************************************************************)
WholeOrPending ==
    final # None /\ text[final] = Torn =>
        \/ \E w \in Users(final) : pc[w] = "created"
        \/ marks[final] \cap {"cut", "lost"} # {}

(***************************************************************************)
(* A call that shares its file with no other finds it under the temporary  *)
(* name until it renames it: it fails for no missing file, and renames no  *)
(* other.                                                                  *)
(***************************************************************************)
OwnTemp == \A w \in Writes : Active(w) /\ "shared" \notin marks[file[w]] => tmp = file[w]
=============================================================================

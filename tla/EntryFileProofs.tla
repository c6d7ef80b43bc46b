-------------------------- MODULE EntryFileProofs --------------------------
(***************************************************************************)
(* The promises of EntryFile for any number of overlapping calls.          *)
(***************************************************************************)
EXTENDS EntryFile, TLAPS

\* A call that has not begun has made no file yet.
Unmade ==
    \A w \in Writes : pc[w] = "new" =>
        /\ w # tmp /\ w # final
        /\ \A v \in Writes : file[v] # w
        /\ \A r \in Readers : reads[r].file # w

\* Calls under way with the same file have been noticed.
Exclusive ==
    \A v, w \in Writes :
        Active(v) /\ Active(w) /\ v # w /\ file[v] = file[w] => "shared" \in marks[file[v]]

\* Who has written a file alone finds it as written.
Complete ==
    \A w \in Writes : pc[w] \in {"written", "closed"} /\ Unspoilt(file[w]) => text[file[w]] = w

\* Files that are read have left the temporary name for good.
ReadApart == \A r \in Readers : reads[r] # Closed => reads[r].file # tmp

Whole(f) ==
    text[f] = Torn => \/ \E w \in Users(f) : pc[w] = "created"
                      \/ marks[f] \cap {"cut", "lost"} # {}

BothWhole == (tmp # None => Whole(tmp)) /\ (final # None => Whole(final))

IInv ==
    /\ TypeOK /\ Unmade /\ OwnTemp /\ Exclusive /\ Complete
    /\ ReadApart /\ LastWritten /\ ReadsLast /\ BothWhole

USE NoneAssumption, TornAssumption

\* No file and no call at the beginning.
LEMMA InitIInv == Init => IInv
BY DEF Init, IInv, TypeOK, Unmade, OwnTemp, Exclusive, Complete, ReadApart, LastWritten,
   ReadsLast, BothWhole, Active, Closed

\* Opening the temporary name truncates a file and marks it as shared by its users.
LEMMA CreateKeeps == ASSUME IInv, NEW w \in Writes, Create(w) PROVE IInv'
<1> DEFINE f == IF tmp = None THEN w ELSE tmp
<1>0. IInv BY DEF IInv
<1>1. /\ pc[w] = "new" /\ f \in Writes /\ f # final
      /\ file' = [file EXCEPT ![w] = f] /\ text' = [text EXCEPT ![f] = Torn]
      /\ pc' = [pc EXCEPT ![w] = "created"] /\ tmp' = f
      /\ UNCHANGED <<final, reads, last>>
      /\ marks' = IF Users(f) = {} THEN [marks EXCEPT ![f] = {}] ELSE Mark(f, "shared")
  BY DEF Create, Target, IInv, TypeOK, Unmade
<1>2. marks' \in [Writes -> SUBSET Marks]
  BY <1>1 DEF IInv, TypeOK, Mark, Marks
<1>3. /\ \A g \in Writes : g # f => marks'[g] = marks[g] /\ text'[g] = text[g]
      /\ Users(f) # {} => "shared" \in marks'[f]
      /\ text'[f] = Torn
  BY <1>1 DEF IInv, TypeOK, Mark
<1>4. /\ file'[w] = f /\ pc'[w] = "created" /\ Active(w)' /\ ~Active(w)
      /\ \A v \in Writes : v # w => file'[v] = file[v] /\ pc'[v] = pc[v] /\ Active(v)' = Active(v)
  BY <1>1 DEF IInv, TypeOK, Active
<1>5. \A v \in Writes : Active(v) /\ file[v] = f => "shared" \in marks'[f]
  BY <1>3 DEF Users
<1>6. TypeOK'
  BY <1>1, <1>2 DEF IInv, TypeOK
<1>7. Unmade'
  BY <1>1, <1>4 DEF IInv, TypeOK, Unmade
<1>8. OwnTemp'
  <2> SUFFICES ASSUME NEW v \in Writes, Active(v)', "shared" \notin marks'[file'[v]]
               PROVE  tmp' = file'[v]
    BY DEF OwnTemp
  <2>1. CASE v = w BY <2>1, <1>1, <1>4
  <2>2. CASE v # w
    <3>1. Active(v) /\ file'[v] = file[v] /\ file[v] \in Writes
      BY <2>2, <1>4 DEF IInv, TypeOK, Active
    <3>2. CASE file[v] = f BY <3>1, <3>2, <1>1
    <3>3. CASE file[v] # f
      BY <3>1, <3>3, <1>3 DEF IInv, OwnTemp
    <3> QED BY <3>2, <3>3
  <2> QED BY <2>1, <2>2
<1>9. Exclusive'
  <2> SUFFICES ASSUME NEW u \in Writes, NEW v \in Writes, Active(u)', Active(v)', u # v,
                      file'[u] = file'[v]
               PROVE  "shared" \in marks'[file'[u]]
    BY DEF Exclusive
  <2>1. CASE u = w BY <2>1, <1>4, <1>5
  <2>2. CASE v = w BY <2>2, <1>4, <1>5
  <2>3. CASE u # w /\ v # w
    <3>1. Active(u) /\ Active(v) /\ file[u] = file[v] /\ file[u] \in Writes /\ file'[u] = file[u]
      BY <2>3, <1>4 DEF IInv, TypeOK, Active
    <3>2. "shared" \in marks[file[u]]
      BY <3>1 DEF IInv, Exclusive
    <3> QED BY <3>1, <3>2, <1>3, <1>5
  <2> QED BY <2>1, <2>2, <2>3
<1>10. Complete'
  <2> SUFFICES ASSUME NEW v \in Writes, pc'[v] \in {"written", "closed"}, Unspoilt(file[v])',
                      v # w
               PROVE  text'[file'[v]] = v
    BY <1>4 DEF Complete
  <2>1. Active(v) /\ file'[v] = file[v] /\ file[v] \in Writes /\ pc[v] \in {"written", "closed"}
    BY <1>4 DEF IInv, TypeOK, Active
  <2>2. "shared" \notin marks'[file[v]]
    BY <2>1 DEF Unspoilt
  <2>3. file[v] # f
    BY <2>1, <2>2, <1>5
  <2> QED BY <2>1, <2>3, <1>3 DEF IInv, Complete, Unspoilt
<1>11. ReadApart'
  BY <1>1 DEF IInv, TypeOK, Unmade, ReadApart
<1>12. LastWritten'
  BY <1>1, <1>3 DEF IInv, TypeOK, LastWritten, Unspoilt
<1>13. ReadsLast'
  <2> SUFFICES ASSUME NEW r \in Readers, reads[r] # Closed, Unspoilt(reads[r].file)'
               PROVE  text'[reads[r].file] = reads[r].expect
    BY <1>1 DEF ReadsLast, Unspoilt
  <2>1. reads[r].file \in Writes /\ reads[r].file # f
    BY <1>1 DEF IInv, TypeOK, Unmade, ReadApart
  <2> QED BY <2>1, <1>1, <1>3 DEF IInv, ReadsLast, Unspoilt
<1>14. BothWhole'
  <2>2. Whole(tmp)'
    BY <1>1, <1>4 DEF Whole, Users
  <2>3. final # None => Whole(final)'
    BY <1>1, <1>3, <1>4 DEF IInv, TypeOK, BothWhole, Whole, Users
  <2> QED BY <2>2, <2>3, <1>1 DEF BothWhole
<1> QED BY <1>6, <1>7, <1>8, <1>9, <1>10, <1>11, <1>12, <1>13, <1>14 DEF IInv

\* A call under way has a file.
LEMMA ActiveFile == ASSUME TypeOK, NEW w \in Writes, Active(w) PROVE file[w] \in Writes
BY DEF TypeOK, Active

(***************************************************************************)
(* A step of a call under way that touches its own file only.  The file    *)
(* may be the final one, or in use by others; then it is shared.           *)
(***************************************************************************)
OwnFile(w, p, t, m) ==
    /\ Active(w)
    /\ UNCHANGED <<tmp, final, file, reads, last>>
    /\ p \in {"written", "closed", "ended"} /\ pc' = [pc EXCEPT ![w] = p]
    /\ t \in Writes \cup {Torn} /\ text' = [text EXCEPT ![file[w]] = t]
    /\ m \in SUBSET Marks /\ marks' = [marks EXCEPT ![file[w]] = @ \cup m]
    /\ p # "ended" /\ Unspoilt(file[w])' => t = w
    /\ Whole(file[w]) => Whole(file[w])'

\* A step that changes at most the text of the call's own file.
LEMMA OwnFileStep ==
  ASSUME IInv, NEW w \in Writes, NEW p, NEW t, NEW m, OwnFile(w, p, t, m)
  PROVE  IInv'
<1> USE DEF OwnFile
<1>1. file[w] \in Writes /\ pc[w] # "new"
  BY ActiveFile DEF IInv, Active
<1>2. \A v \in Writes : /\ Active(v)' => Active(v)
                        /\ v # w => pc'[v] = pc[v] /\ Active(v)' = Active(v)
  BY DEF IInv, TypeOK, Active
<1>3. /\ text'[file[w]] = t /\ pc'[w] = p
      /\ \A g \in Writes : g # file[w] => text'[g] = text[g] /\ marks'[g] = marks[g]
      /\ \A g \in Writes : marks[g] \subseteq marks'[g]
  BY <1>1 DEF IInv, TypeOK
<1>4. TypeOK'
  <2>1. marks' \in [Writes -> SUBSET Marks]
    BY <1>1 DEF IInv, TypeOK
  <2> QED BY <1>1, <2>1 DEF IInv, TypeOK
<1>5. Unmade'
  BY <1>1, <1>2, <1>3 DEF IInv, Unmade
<1>6. OwnTemp' /\ Exclusive'
  BY <1>2, <1>3, ActiveFile DEF IInv, OwnTemp, Exclusive
<1>7. Complete'
  <2> SUFFICES ASSUME NEW v \in Writes, v # w, pc[v] \in {"written", "closed"},
                      Unspoilt(file[v])'
               PROVE  text'[file[v]] = v
    BY <1>2, <1>3 DEF Complete, Unspoilt
  <2>1. Active(v) /\ file[v] \in Writes
    BY ActiveFile DEF IInv, Active
  <2>2. Unspoilt(file[v])
    BY <2>1, <1>3 DEF Unspoilt
  <2>3. file[v] # file[w]
    BY <2>1, <2>2 DEF IInv, Exclusive, Unspoilt
  <2> QED BY <1>3, <2>1, <2>2, <2>3 DEF IInv, Complete
<1>8. ReadApart'
  BY DEF IInv, ReadApart
<1>9. LastWritten'
  BY <1>1, <1>3 DEF IInv, TypeOK, OwnTemp, LastWritten, Unspoilt
<1>10. ReadsLast'
  BY <1>1, <1>3 DEF IInv, TypeOK, OwnTemp, ReadApart, ReadsLast, Unspoilt
<1>11. BothWhole'
  <2>1. ASSUME NEW g \in Writes, Whole(g)
        PROVE  Whole(g)'
    <3>1. CASE g = file[w] BY <2>1, <3>1
    <3>2. CASE g # file[w] BY <2>1, <3>2, <1>2, <1>3 DEF Whole, Users
    <3> QED BY <3>1, <3>2
  <2> QED BY <2>1 DEF IInv, TypeOK, BothWhole, Whole, Users
<1> QED BY <1>4, <1>5, <1>6, <1>7, <1>8, <1>9, <1>10, <1>11 DEF IInv

\* The steps that are of this kind.
LEMMA OwnFileSteps ==
  ASSUME IInv, NEW w \in Writes,
         Write(w) \/ WriteFails(w) \/ Close(w) \/ CloseLoses(w) \/ RenameMissing(w) \/ Stop(w)
  PROVE  IInv'
<1> USE DEF Marks
<1>1. CASE Write(w)
  <2>1. Active(w) /\ marks' = [marks EXCEPT ![file[w]] = @ \cup {}]
    BY <1>1 DEF Write, Active, IInv, TypeOK
  <2>2. Whole(file[w])'
    BY <1>1, <2>1, ActiveFile DEF Write, Whole, IInv, TypeOK
  <2>3. OwnFile(w, "written", w, {})
    BY <1>1, <2>1, <2>2 DEF Write, OwnFile
  <2> QED BY <2>3, OwnFileStep
<1>2. CASE WriteFails(w)
  <2>1. PICK t \in {text[file[w]], Torn} : text' = [text EXCEPT ![file[w]] = t]
    BY <1>2 DEF WriteFails
  <2>2. Active(w) /\ t \in Writes \cup {Torn}
    BY <1>2, <2>1, ActiveFile DEF WriteFails, Active, IInv, TypeOK
  <2>3. Whole(file[w])'
    BY <1>2, <2>2, ActiveFile DEF WriteFails, Mark, Whole, IInv, TypeOK
  <2>4. OwnFile(w, "ended", t, {"cut"})
    BY <1>2, <2>1, <2>2, <2>3 DEF WriteFails, Mark, OwnFile
  <2> QED BY <2>4, OwnFileStep
<1>3. ASSUME Active(w), UNCHANGED <<tmp, final, text, file, reads, last, marks>>,
             NEW p \in {"closed", "ended"}, pc' = [pc EXCEPT ![w] = p],
             pc[w] \in {"written", "closed"}
      PROVE  IInv'
  <2>1. /\ text' = [text EXCEPT ![file[w]] = text[file[w]]] /\ text[file[w]] \in Writes \cup {Torn}
        /\ marks' = [marks EXCEPT ![file[w]] = @ \cup {}]
    BY <1>3, ActiveFile DEF IInv, TypeOK
  <2>2. Unspoilt(file[w])' => text[file[w]] = w
    BY <1>3 DEF IInv, Complete, Unspoilt
  <2>3. Whole(file[w]) => Whole(file[w])'
    BY <1>3 DEF Whole, Users, Active, IInv, TypeOK
  <2>4. OwnFile(w, p, text[file[w]], {})
    BY <1>3, <2>1, <2>2, <2>3 DEF OwnFile
  <2> QED BY <2>4, OwnFileStep
<1>4. CASE Close(w) \/ RenameMissing(w)
  BY <1>3, <1>4 DEF Close, RenameMissing, Ready, Active
<1>5. CASE CloseLoses(w)
  <2>1. Active(w)
    BY <1>5 DEF CloseLoses, Active
  <2>2. "lost" \in marks'[file[w]]
    BY <1>5, <2>1, ActiveFile DEF CloseLoses, Mark, IInv, TypeOK
  <2>3. Whole(file[w])' /\ ~Unspoilt(file[w])'
    BY <1>5, <2>2 DEF CloseLoses, Whole, Unspoilt
  <2>4. OwnFile(w, "closed", Torn, {"lost"})
    BY <1>5, <2>1, <2>3 DEF CloseLoses, Mark, OwnFile
  <2> QED BY <2>4, OwnFileStep
<1>6. CASE Stop(w)
  <2>1. Active(w)
    BY <1>6 DEF Stop
  <2>2. CASE pc[w] = "created"
    <3>1. text' = [text EXCEPT ![file[w]] = text[file[w]]] /\ text[file[w]] \in Writes \cup {Torn}
      BY <1>6, <2>1, ActiveFile DEF Stop, IInv, TypeOK
    <3>2. Whole(file[w])'
      BY <1>6, <2>1, <2>2, ActiveFile DEF Stop, Mark, Whole, IInv, TypeOK
    <3>3. OwnFile(w, "ended", text[file[w]], {"cut"})
      BY <1>6, <2>1, <2>2, <3>1, <3>2 DEF Stop, Mark, OwnFile
    <3> QED BY <3>3, OwnFileStep
  <2>3. CASE pc[w] # "created"
    BY <1>3, <1>6, <2>1, <2>3 DEF Stop, Active
  <2> QED BY <2>2, <2>3
<1> QED BY <1>1, <1>2, <1>4, <1>5, <1>6

(***************************************************************************)
(* A rename of the call's own file, or of another's that becomes shared.   *)
(***************************************************************************)
LEMMA RenameKeeps == ASSUME IInv, NEW w \in Writes, Rename(w) PROVE IInv'
<1>1. /\ pc[w] = "closed" /\ tmp \in Writes /\ final' = tmp /\ tmp' = None /\ last' = w
      /\ pc' = [pc EXCEPT ![w] = "ended"]
      /\ marks' = IF tmp = file[w] THEN marks ELSE Mark(tmp, "shared")
      /\ UNCHANGED <<text, file, reads>>
  BY DEF Rename, Ready, TempAfter, IInv, TypeOK
<1>2. Active(w) /\ file[w] \in Writes
  BY <1>1, ActiveFile DEF IInv, Active
<1>3. /\ \A v \in Writes : v # w => pc'[v] = pc[v] /\ Active(v)' = Active(v)
      /\ pc'[w] = "ended" /\ ~Active(w)'
  BY <1>1 DEF IInv, TypeOK, Active
<1>4. /\ \A g \in Writes : marks[g] \subseteq marks'[g]
      /\ \A g \in Writes : g # tmp => marks'[g] = marks[g]
      /\ tmp # file[w] => "shared" \in marks'[tmp]
      /\ marks' \in [Writes -> SUBSET Marks]
  BY <1>1 DEF IInv, TypeOK, Mark, Marks
<1>5. TypeOK'
  BY <1>1, <1>4 DEF IInv, TypeOK
<1>6. Unmade'
  BY <1>1, <1>3 DEF IInv, Unmade
<1>7. OwnTemp'
  <2> SUFFICES ASSUME NEW v \in Writes, Active(v), v # w, "shared" \notin marks'[file[v]]
               PROVE  FALSE
    BY <1>1, <1>3 DEF OwnTemp
  <2>1. file[v] \in Writes /\ "shared" \notin marks[file[v]]
    BY <1>4, ActiveFile DEF IInv
  <2>2. tmp = file[v] /\ tmp # file[w]
    BY <1>2, <2>1 DEF IInv, OwnTemp, Exclusive
  <2> QED BY <1>4, <2>2
<1>8. Exclusive'
  BY <1>1, <1>3, <1>4, ActiveFile DEF IInv, Exclusive
<1>9. Complete'
  BY <1>1, <1>3, <1>4, ActiveFile DEF IInv, Complete, Unspoilt, Active
<1>10. ReadApart'
  BY <1>1 DEF IInv, TypeOK, ReadApart
<1>11. LastWritten'
  BY <1>1, <1>4 DEF IInv, Complete, LastWritten, Unspoilt
<1>12. ReadsLast'
  BY <1>1, <1>4 DEF IInv, TypeOK, ReadApart, ReadsLast, Unspoilt
<1>13. BothWhole'
  BY <1>1, <1>3, <1>4 DEF IInv, BothWhole, Whole, Users
<1> QED BY <1>5, <1>6, <1>7, <1>8, <1>9, <1>10, <1>11, <1>12, <1>13 DEF IInv

\* Reading changes nothing but what the readers have open.
LEMMA ReadKeeps == ASSUME IInv, NEW r \in Readers, Open(r) \/ Decode(r) PROVE IInv'
<1>1. UNCHANGED <<tmp, final, text, pc, file, last, marks>>
  BY DEF Open, Decode
<1>2. \A q \in Readers : \/ reads'[q] = reads[q]
                         \/ reads'[q] = Closed
                         \/ final # None /\ reads'[q] = [file |-> final, expect |-> last]
  BY DEF Open, Decode, IInv, TypeOK
<1>3. TypeOK'
  BY <1>1 DEF Open, Decode, IInv, TypeOK
<1>4. Unmade'
  BY <1>1, <1>2 DEF IInv, Unmade, Closed
<1>5. ReadApart' /\ ReadsLast'
  BY <1>1, <1>2 DEF IInv, TypeOK, ReadApart, ReadsLast, LastWritten, Unspoilt
<1> QED BY <1>1, <1>3, <1>4, <1>5
        DEF IInv, OwnTemp, Exclusive, Complete, LastWritten, BothWhole, Whole, Users, Active,
            Unspoilt

\* A step that changes nothing keeps the invariant.
LEMMA StutterKeeps == IInv /\ UNCHANGED vars => IInv'
BY DEF vars, IInv, TypeOK, Unmade, OwnTemp, Exclusive, Complete, ReadApart, LastWritten,
   ReadsLast, BothWhole, Whole, Users, Active, Unspoilt

\* The invariant holds for any number of calls and readers.
THEOREM IInvHolds == Spec => []IInv
<1>1. IInv /\ [Next]_vars => IInv'
  BY CreateKeeps, OwnFileSteps, RenameKeeps, ReadKeeps, StutterKeeps DEF Next, WriteStep
<1> QED BY InitIInv, <1>1, PTL DEF Spec

(* Results *)

\* Names, files and calls are well typed, and no file has both names.
THEOREM EntryTypeOK == Spec => []TypeOK
BY IInvHolds, PTL DEF IInv

\* The final name holds what the last call that succeeded wrote, if that call
\* was alone with its file: whatever fails or dies, and however often.
THEOREM EntryLastWritten == Spec => []LastWritten
BY IInvHolds, PTL DEF IInv

\* What a reader has open stays as it was when the reader opened it.
THEOREM EntryReadsLast == Spec => []ReadsLast
BY IInvHolds, PTL DEF IInv

\* Overlapping calls leave a torn file only for as long as they run, or when
\* one of them fails.
THEOREM EntryWholeOrPending == Spec => []WholeOrPending
<1>1. IInv => WholeOrPending
  BY DEF IInv, BothWhole, Whole, WholeOrPending
<1> QED BY IInvHolds, <1>1, PTL

\* A call alone with its file finds it until it renames it.
THEOREM EntryOwnTemp == Spec => []OwnTemp
BY IInvHolds, PTL DEF IInv

(***************************************************************************)
(* Writers that do not overlap.  What readers find under the final name,   *)
(* and when it changes, as long as no two calls share a file and no close  *)
(* loses what was written; calls may still fail and die at any step.       *)
(***************************************************************************)
Entry == IF final = None THEN None ELSE text[final]

InTurn == \A f \in Writes : Unspoilt(f)

\* The entry goes from one whole envelope to another, in the step of a rename.
ChangesAtRename == [][Entry' # Entry => \E w \in Writes : Rename(w) /\ Entry' = w]_vars

\* Then the four steps of a write are one step to whoever reads: a call that
\* fails or dies changes nothing, one that succeeds puts its whole envelope there.
THEOREM EntryChangesAtRename == Spec /\ []InTurn => ChangesAtRename
<1>1. IInv /\ IInv' /\ InTurn /\ InTurn' /\ [Next]_vars
      => [Entry' # Entry => \E w \in Writes : Rename(w) /\ Entry' = w]_vars
  <2> SUFFICES ASSUME IInv, IInv', InTurn, InTurn', Next, Entry' # Entry
               PROVE  \E w \in Writes : Rename(w) /\ Entry' = w
    BY DEF vars, Entry
  <2>1. Entry = last /\ Entry' = last'
    BY DEF IInv, TypeOK, LastWritten, InTurn, Entry
  <2>2. PICK w \in Writes : WriteStep(w)
    BY <2>1 DEF Next, Open, Decode
  <2>3. Rename(w)
    BY <2>1, <2>2 DEF WriteStep, Create, Write, WriteFails, Close, CloseLoses, RenameMissing, Stop
  <2>4. last' = w
    BY <2>3 DEF Rename
  <2> QED BY <2>1, <2>3, <2>4
<1> QED BY <1>1, IInvHolds, PTL DEF Spec, ChangesAtRename
=============================================================================

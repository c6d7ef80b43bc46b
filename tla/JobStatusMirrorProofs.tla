----------------------- MODULE JobStatusMirrorProofs -----------------------
(***************************************************************************)
(* The two stores of a job's status, for every number of callers.          *)
(***************************************************************************)
EXTENDS JobStatusMirror, TLAPS

USE StagesApart, PercentsSane, NoneIsNoStatus

Calls == [pc: {"idle", "update", "notify"}, op: Ops \cup {None}]

\* A call past its statement has an operation; Idle is the only record that is idle.
CallsOpen ==
    \A c \in Callers : /\ call[c].pc = "idle" => call[c] = Idle
                       /\ call[c].pc # "idle" => call[c].op \in Ops

\* Nobody notifies success before the row has said so.
NotifiesCompleted ==
    \A c \in Callers : call[c].pc = "notify" /\ call[c].op = "complete" => completed

\* The status a call writes into the row.
Word(op) == CASE op = "run" -> "running" [] op = "fail" -> "failed"
              [] op = "complete" -> "succeeded"

\* While a call runs alone nobody else is in one, and its statement stands.
SoloAlone ==
    solo # None =>
        /\ call[solo] # Idle
        /\ \A d \in Callers \ {solo} : call[d] = Idle
        /\ call[solo].pc = "notify" => row.status = Word(call[solo].op)

IInv ==
    /\ TypeOK /\ CallsOpen /\ NotifiesCompleted /\ SoloAlone
    /\ SuccessIsRecorded /\ FinishedDocument /\ SoloCallSyncs

Claims == SuccessIsRecorded /\ FinishedDocument /\ SoloCallSyncs

\* The records of the two stores, as TypeOK has them.
RowType == [status: Texts, stage: Stages \cup {None}, error: BOOLEAN,
            evaluation: Evaluations \cup {"passed", "failed", None}]
Progress == 0..100 \cup {None}
DocType == [status: {None, "queued", "running", "succeeded", "failed"},
            stage: Stages \cup {None}, progress: Progress, error: BOOLEAN]

\* TypeOK from the types of its variables,
LEMMA TypeParts ==
    TypeOK <=> /\ row \in RowType /\ doc \in DocType /\ call \in [Callers -> Calls]
               /\ completed \in BOOLEAN /\ solo \in Callers \cup {None} /\ synced \in BOOLEAN
  BY DEF TypeOK, RowType, DocType, Progress, Calls

\* and the same after a step.
LEMMA TypePartsNext ==
    TypeOK' <=> /\ row' \in RowType /\ doc' \in DocType /\ call' \in [Callers -> Calls]
                /\ completed' \in BOOLEAN /\ solo' \in Callers \cup {None}
                /\ synced' \in BOOLEAN
  BY DEF TypeOK, RowType, DocType, Progress, Calls

\* The invariant holds of a new row and no document.
LEMMA InitIInv == Init => IInv
  <1> SUFFICES ASSUME Init PROVE IInv
    OBVIOUS
  <1>1. row \in RowType
    BY DEF Init, NewRow, RowType, Texts
  <1>2. doc \in DocType
    BY DEF Init, NoDoc, DocType, Progress
  <1>3. call \in [Callers -> Calls]
    BY DEF Init, Idle, Calls
  <1>4. TypeOK
    BY <1>1, <1>2, <1>3, TypeParts DEF Init
  <1>5. CallsOpen /\ NotifiesCompleted /\ SoloAlone
    BY DEF Init, CallsOpen, NotifiesCompleted, SoloAlone, Idle
  <1>6. Claims
    BY DEF Init, Claims, SuccessIsRecorded, FinishedDocument, SoloCallSyncs, NoDoc,
       Texts
  <1> QED
    BY <1>4, <1>5, <1>6 DEF IInv, Claims

\* A call that begins runs alone only if every other caller is idle.
LEMMA BeginPreserves ==
  ASSUME IInv, NEW c \in Callers, NEW op \in Ops, Begin(c, op) PROVE IInv'
  <1> USE DEF IInv, Begin
  <1>1. call'[c] = [pc |-> "update", op |-> op] /\ \A d \in Callers \ {c} : call'[d] = call[d]
    BY DEF TypeOK
  <1>2. TypeOK'
    BY DEF TypeOK, Ops
  <1>3. CallsOpen' /\ NotifiesCompleted'
    BY <1>1 DEF CallsOpen, NotifiesCompleted
  <1>4. SoloAlone'
    BY <1>1 DEF SoloAlone, Idle
  <1>5. Claims'
    BY DEF Claims, SuccessIsRecorded, FinishedDocument, SoloCallSyncs
  <1> QED
    BY <1>2, <1>3, <1>4, <1>5 DEF Claims

\* The row an operation writes, and the status in it.
LEMMA WrittenRow ==
  ASSUME TypeOK, NEW op \in Ops
  PROVE  /\ Written(op) \in [status: Texts, stage: Stages \cup {None}, error: BOOLEAN,
                             evaluation: Evaluations \cup {"passed", "failed", None}]
         /\ Written(op).status = Word(op)
  <1>1. row \in RowType
    BY TypeParts
  <1>2. CASE op = "run"
    BY <1>1, <1>2 DEF RowType, Written, Word, RunningRow, Texts
  <1>3. CASE op = "fail"
    BY <1>1, <1>3 DEF RowType, Written, Word, FailedRow, Texts
  <1>4. CASE op = "complete"
    BY <1>1, <1>4 DEF RowType, Written, Word, CompletedRow, Texts
  <1> QED
    BY <1>2, <1>3, <1>4 DEF Ops

\* The statement takes effect.
LEMMA UpdatePreserves == ASSUME IInv, NEW c \in Callers, Update(c) PROVE IInv'
  <1> USE DEF IInv, Update
  <1>1. /\ call[c].op \in Ops
        /\ call'[c] = [pc |-> "notify", op |-> call[c].op]
        /\ \A d \in Callers \ {c} : call'[d] = call[d]
    BY DEF TypeOK, CallsOpen
  <1>2. TypeOK'
    <2>1. row' \in RowType
      BY <1>1, WrittenRow DEF RowType
    <2>2. call' \in [Callers -> Calls]
      BY <1>1, TypeParts DEF Calls
    <2>3. completed' \in BOOLEAN /\ synced' \in BOOLEAN
      OBVIOUS
    <2>4. solo' \in Callers \cup {None}
      OBVIOUS
    <2> QED
      BY <2>1, <2>2, <2>3, <2>4, TypeParts, TypePartsNext
  <1>3. CallsOpen' /\ NotifiesCompleted'
    <2>1. completed => completed'
      OBVIOUS
    <2>2. call[c].op = "complete" => completed'
      OBVIOUS
    <2>3. NotifiesCompleted'
      <3> SUFFICES ASSUME NEW d \in Callers,
                          call'[d].pc = "notify", call'[d].op = "complete"
                   PROVE  completed'
        BY DEF NotifiesCompleted
      <3>1. CASE d = c
        BY <1>1, <2>2, <3>1
      <3>2. CASE d # c
        BY <1>1, <2>1, <3>2 DEF NotifiesCompleted
      <3> QED
        BY <3>1, <3>2
    <2> QED
      BY <1>1, <2>3 DEF CallsOpen
  <1>4. SoloAlone'
    BY <1>1, WrittenRow DEF SoloAlone, Idle, TypeOK
  <1>5. Claims'
    BY DEF Claims, SuccessIsRecorded, FinishedDocument, SoloCallSyncs, TypeOK
  <1> QED
    BY <1>2, <1>3, <1>4, <1>5 DEF Claims

\* The statement reports an error, with or without effect: only TryFail goes on.
LEMMA UpdateErrorPreserves == ASSUME IInv, NEW c \in Callers, UpdateError(c) PROVE IInv'
  <1> USE DEF IInv, UpdateError
  <1>1. /\ call[c].op \in Ops
        /\ \/ call'[c] = Idle
           \/ call'[c] = [pc |-> "notify", op |-> "fail"]
        /\ \A d \in Callers \ {c} : call'[d] = call[d]
    BY DEF TypeOK, CallsOpen, AfterError
  <1>2. TypeOK'
    <2>1. row' \in RowType
      BY <1>1, WrittenRow, TypeParts DEF RowType
    <2>2. call' \in [Callers -> Calls]
      BY <1>1, TypeParts DEF Calls, Idle, Ops
    <2>3. completed' \in BOOLEAN
      BY TypeParts
    <2> QED
      BY <2>1, <2>2, <2>3, TypeParts, TypePartsNext
  <1>3. CallsOpen' /\ NotifiesCompleted'
    BY <1>1 DEF CallsOpen, NotifiesCompleted, TypeOK, Idle, Ops
  <1>4. SoloAlone'
    BY DEF SoloAlone
  <1>5. Claims'
    BY DEF Claims, SuccessIsRecorded, FinishedDocument, SoloCallSyncs, TypeOK
  <1> QED
    BY <1>2, <1>3, <1>4, <1>5 DEF Claims

\* The document is written; a call that ran alone leaves both stores in step.
LEMMA NotifyPreserves == ASSUME IInv, NEW c \in Callers, Notify(c) PROVE IInv'
  <1> USE DEF IInv, Notify
  <1> DEFINE op == call[c].op
  <1>1. /\ op \in Ops
        /\ call'[c] = Idle
        /\ \A d \in Callers \ {c} : call'[d] = call[d]
    BY DEF TypeOK, CallsOpen
  <1>2. doc' \in DocType /\ doc'.status = Word(op)
    <2>1. doc \in DocType
      BY TypeParts
    <2>2. CASE op = "run"
      <3>1. doc' = RunningDoc(doc)
        BY <2>2 DEF Notified
      <3>2. 5 \in Progress
        BY DEF Progress
      <3> QED
        BY <2>1, <2>2, <3>1, <3>2 DEF DocType, Word, RunningDoc
    <2>3. CASE op = "fail"
      <3>1. doc' = FailedDoc(doc)
        BY <2>3 DEF Notified
      <3> QED
        BY <2>1, <2>3, <3>1 DEF DocType, Word, FailedDoc
    <2>4. CASE op = "complete"
      <3>1. doc' = CompletedDoc(doc)
        BY <2>4 DEF Notified
      <3>2. 100 \in Progress
        BY DEF Progress
      <3>3. CompletedDoc(doc) \in DocType
        BY <3>2 DEF DocType, CompletedDoc
      <3>4. CompletedDoc(doc).status = "succeeded" /\ Word(op) = "succeeded"
        BY <2>4 DEF Word, CompletedDoc
      <3> QED
        BY <3>1, <3>3, <3>4
    <2> QED
      BY <1>1, <2>2, <2>3, <2>4 DEF Ops
  <1>3. TypeOK'
    <2>1. call' \in [Callers -> Calls]
      BY <1>1, TypeParts DEF Calls, Idle
    <2>2. solo' \in Callers \cup {None} /\ synced' \in BOOLEAN
      OBVIOUS
    <2> QED
      BY <1>2, <2>1, <2>2, TypeParts, TypePartsNext
  <1>4. CallsOpen' /\ NotifiesCompleted' /\ SoloAlone'
    BY <1>1 DEF CallsOpen, NotifiesCompleted, SoloAlone, Idle
  <1>5. SuccessIsRecorded'
    BY <1>1, <1>2 DEF SuccessIsRecorded, NotifiesCompleted, Word, Ops
  <1>6. FinishedDocument'
    BY <1>1 DEF FinishedDocument, TypeOK, Ops, Notified, RunningDoc, FailedDoc, CompletedDoc
  <1>7. SoloCallSyncs'
    <2> SUFFICES ASSUME solo = c PROVE doc'.status = Shown(row.status)
      BY DEF SoloCallSyncs
    <2>1. row.status = Word(op)
      BY DEF SoloAlone
    <2> QED
      BY <1>1, <1>2, <2>1 DEF Shown, Word, Ops, Queued
  <1> QED
    BY <1>3, <1>4, <1>5, <1>6, <1>7

\* A lost notification and a caller that dies.
LEMMA LostPreserves ==
  ASSUME IInv, NEW c \in Callers, NotifyLost(c) \/ Dies(c) PROVE IInv'
  <1> USE DEF IInv, NotifyLost, Dies
  <1>1. call'[c] = Idle /\ \A d \in Callers \ {c} : call'[d] = call[d]
    BY DEF TypeOK
  <1>2. TypeOK'
    <2>1. call' \in [Callers -> Calls]
      BY TypeParts DEF Calls, Idle
    <2> QED
      BY <2>1, TypeParts, TypePartsNext
  <1>3. CallsOpen' /\ NotifiesCompleted' /\ SoloAlone'
    BY <1>1 DEF CallsOpen, NotifiesCompleted, SoloAlone, Idle
  <1>4. Claims'
    BY DEF Claims, SuccessIsRecorded, FinishedDocument, SoloCallSyncs
  <1> QED
    BY <1>2, <1>3, <1>4 DEF Claims

\* The single writes: NotifyQueued, StageProgress and the two row updates.
LEMMA SingleWritePreserves ==
  ASSUME IInv,
         \/ NotifyQueued
         \/ \E s \in Stages, p \in Percents \cup {NotGiven} : StageProgress(s, p)
         \/ \E s \in Stages : UpdateProcessingJobStage(s)
         \/ \E e \in Evaluations : UpsertJobEvaluation(e)
  PROVE  IInv'
  <1> USE DEF IInv
  <1>1. CASE NotifyQueued
    <2>1. doc' \in DocType
      BY <1>1 DEF NotifyQueued, QueuedDoc, DocType, Progress
    <2>2. synced' \in BOOLEAN
      BY <1>1 DEF NotifyQueued
    <2>3. TypeOK'
      BY <1>1, <2>1, <2>2, TypeParts, TypePartsNext DEF NotifyQueued
    <2>4. CallsOpen' /\ NotifiesCompleted' /\ SoloAlone'
      BY <1>1 DEF NotifyQueued, CallsOpen, NotifiesCompleted, SoloAlone
    <2>5. Claims'
      BY <1>1 DEF NotifyQueued, QueuedDoc, Claims, SuccessIsRecorded, FinishedDocument,
         SoloCallSyncs, Shown
    <2> QED
      BY <2>3, <2>4, <2>5 DEF Claims
  <1>2. ASSUME NEW s \in Stages, NEW p \in Percents \cup {NotGiven}, StageProgress(s, p)
        PROVE  IInv'
    <2>1. TypeOK'
      <3>1. p \in Int /\ (p >= 0 => p \in 0..100)
        BY DEF NotGiven
      <3>2. doc' \in DocType
        <4>1. doc \in DocType
          BY TypeParts
        <4>2. (IF p >= 0 THEN p ELSE doc.progress) \in Progress
          BY <3>1, <4>1 DEF DocType, Progress
        <4>3. doc' = [doc EXCEPT !.status = "running", !.stage = s,
                                 !.progress = IF p >= 0 THEN p ELSE doc.progress]
          BY <1>2, <4>1 DEF StageProgress, StageDoc, DocType
        <4> QED
          BY <4>1, <4>2, <4>3 DEF DocType
      <3>3. synced' \in BOOLEAN
        BY <1>2 DEF StageProgress
      <3> QED
        BY <1>2, <3>2, <3>3, TypeParts, TypePartsNext DEF StageProgress
    <2>2. doc'.status = "running"
      BY <1>2 DEF StageProgress, TypeOK, StageDoc
    <2>3. CallsOpen' /\ NotifiesCompleted' /\ SoloAlone'
      BY <1>2 DEF StageProgress, CallsOpen, NotifiesCompleted, SoloAlone
    <2>4. Claims'
      BY <1>2, <2>2 DEF StageProgress, Claims, SuccessIsRecorded, FinishedDocument,
         SoloCallSyncs, Shown, Queued
    <2> QED
      BY <2>1, <2>3, <2>4 DEF Claims
  <1>3. ASSUME NEW s \in Stages, UpdateProcessingJobStage(s) PROVE IInv'
    BY <1>3 DEF UpdateProcessingJobStage, TypeOK, CallsOpen, NotifiesCompleted, SoloAlone,
       SuccessIsRecorded, FinishedDocument, SoloCallSyncs
  <1>4. ASSUME NEW e \in Evaluations, UpsertJobEvaluation(e) PROVE IInv'
    BY <1>4 DEF UpsertJobEvaluation, TypeOK, CallsOpen, NotifiesCompleted, SoloAlone,
       SuccessIsRecorded, FinishedDocument, SoloCallSyncs
  <1> QED
    BY <1>1, <1>2, <1>3, <1>4

\* Every step preserves the invariant.
LEMMA NextPreserves == IInv /\ [Next]_vars => IInv'
  <1> SUFFICES ASSUME IInv, [Next]_vars PROVE IInv'
    OBVIOUS
  <1>1. CASE UNCHANGED vars
    BY <1>1 DEF vars, IInv, TypeOK, CallsOpen, NotifiesCompleted, SoloAlone,
       SuccessIsRecorded, FinishedDocument, SoloCallSyncs
  <1>2. CASE Next
    BY <1>2, BeginPreserves, UpdatePreserves, UpdateErrorPreserves, NotifyPreserves,
       LostPreserves, SingleWritePreserves DEF Next
  <1> QED
    BY <1>1, <1>2

\* The inductive invariant holds in every reachable state of the mirror.
THEOREM MirrorInvariant == Spec => []IInv
  BY InitIInv, NextPreserves, PTL DEF Spec

(* Row, document and calls are well typed; the progress shown is a percentage. *)
THEOREM MirrorTypeOK == Spec => []TypeOK
  <1>1. IInv => TypeOK
    BY DEF IInv
  <1> QED
    BY <1>1, MirrorInvariant, PTL

(* The browser never sees success that the database has not recorded. *)
THEOREM MirrorSuccessIsRecorded == Spec => []SuccessIsRecorded
  <1>1. IInv => SuccessIsRecorded
    BY DEF IInv
  <1> QED
    BY <1>1, MirrorInvariant, PTL

(* A finished document carries nothing over from the writes it was merged with. *)
THEOREM MirrorFinishedDocument == Spec => []FinishedDocument
  <1>1. IInv => FinishedDocument
    BY DEF IInv
  <1> QED
    BY <1>1, MirrorInvariant, PTL

(***************************************************************************)
(* A call that ran alone and without error leaves both stores with the     *)
(* same status, however far apart they were before.                        *)
(***************************************************************************)
THEOREM MirrorSoloCallSyncs == Spec => []SoloCallSyncs
  <1>1. IInv => SoloCallSyncs
    BY DEF IInv
  <1> QED
    BY <1>1, MirrorInvariant, PTL
=============================================================================

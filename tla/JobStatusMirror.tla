-------------------------- MODULE JobStatusMirror --------------------------
(***************************************************************************)
(* One job's lifecycle in two stores: the row in Postgres and the document *)
(* Firestore shows to the browser.  job/lifecycle.Service writes the row,  *)
(* then the document; any number of workers may be inside its calls.  The  *)
(* document is merged field by field, so what one write leaves out stays.  *)
(* Timestamps and messages are left out.                                   *)
(***************************************************************************)
EXTENDS Integers

CONSTANTS
    Callers,       \* processes that call Service on this job
    Stages,        \* stage names the workers report
    Percents,      \* progress values they report
    Evaluations,   \* results passed to UpsertJobEvaluation
    None           \* empty string, absent field, nobody

ASSUME StagesApart  == None \notin Stages \cup Callers
ASSUME PercentsSane == Percents \subseteq 0..100

VARIABLES
    row,    \* document_processing_jobs
    doc,    \* workspaces/{w}/jobs/{j}
    call,   \* where each caller is
    (* history, to say what the properties mean *)
    completed,  \* a CompleteProcessingJob has taken effect
    solo,       \* the caller whose call has run alone, and without error, since it began
    synced      \* such a call has written both stores, and nothing but stages of a
                \* running job was reported since

stores == <<row, doc>>
history == <<completed, solo, synced>>
vars == <<row, doc, call, completed, solo, synced>>

----------------------------------------------------------------------------
(* The row: status is a text column.  CreateProcessingJob writes the       *)
(* enum's number into it, the later statements write words.                *)

Queued == "1"   \* strconv.Itoa(JOB_LIFECYCLE_STATE_QUEUED)
Texts  == {Queued, "running", "succeeded", "failed"}

ASSUME NoneIsNoStatus == None \notin Texts \cup {"queued", "run", "fail", "complete"}

NewRow == [status |-> Queued, stage |-> None, error |-> FALSE, evaluation |-> None]

\* markProcessingJobRunning
RunningRow(r) == [r EXCEPT !.status = "running", !.error = FALSE]
\* failProcessingJob: the stage it failed in stays on record.
FailedRow(r) == [r EXCEPT !.status = "failed", !.error = TRUE, !.evaluation = "failed"]
\* completeProcessingJob: the error of an earlier attempt stays.
CompletedRow(r) == [r EXCEPT !.status = "succeeded", !.stage = None, !.evaluation = "passed"]

Written(op) == CASE op = "run"      -> RunningRow(row)
                 [] op = "fail"     -> FailedRow(row)
                 [] op = "complete" -> CompletedRow(row)

\* toJob: strconv.Atoi of a word fails and leaves 0, the unspecified state.
ToJobStatus(r) == IF r.status = Queued THEN "QUEUED" ELSE "UNSPECIFIED"

----------------------------------------------------------------------------
(* The document. *)

NoDoc == [status |-> None, stage |-> None, progress |-> None, error |-> FALSE]

QueuedDoc(d) == [status |-> "queued", stage |-> None, progress |-> 0, error |-> FALSE]
RunningDoc(d) == [d EXCEPT !.status = "running", !.progress = 5, !.error = FALSE]
FailedDoc(d) == [d EXCEPT !.status = "failed", !.stage = None, !.error = TRUE]

\* Slip: only the fields that look new are sent, the merge keeps the error.
CompletedDocKeepsError(d) ==
    [d EXCEPT !.status = "succeeded", !.stage = None, !.progress = 100]

CompletedDoc(d) == [status |-> "succeeded", stage |-> None, progress |-> 100, error |-> FALSE]

\* Slip: the "not given" of Stage is written as a percentage.
StageDocWritesAny(d, s, p) ==
    [d EXCEPT !.status = "running", !.stage = s, !.progress = p]

\* Stage passes this progress to StageProgress.
NotGiven == -1

\* A stage report says "running" whatever was there; progress only if given.
StageDoc(d, s, p) ==
    [d EXCEPT !.status = "running", !.stage = s, !.progress = IF p >= 0 THEN p ELSE @]

\* Slip: the failure is never sent.
NotifiedButFailure(op) == CASE op = "run"      -> RunningDoc(doc)
                            [] op = "fail"     -> doc
                            [] op = "complete" -> CompletedDoc(doc)

Notified(op) == CASE op = "run"      -> RunningDoc(doc)
                  [] op = "fail"     -> FailedDoc(doc)
                  [] op = "complete" -> CompletedDoc(doc)

\* The word the document uses for a row's status.
Shown(text) == IF text = Queued THEN "queued" ELSE text

----------------------------------------------------------------------------
Idle == [pc |-> "idle", op |-> None]

Init ==
    /\ row = NewRow
    /\ doc = NoDoc
    /\ call = [c \in Callers |-> Idle]
    /\ completed = FALSE
    /\ solo = None
    /\ synced = FALSE

\* MarkRunning, TryFail and Complete begin.
Begin(c, op) ==
    /\ call[c] = Idle
    /\ call' = [call EXCEPT ![c] = [pc |-> "update", op |-> op]]
    /\ solo' = IF \A d \in Callers : call[d] = Idle THEN c ELSE None
    /\ UNCHANGED <<row, doc, completed, synced>>

\* The statement takes effect and says so.
Update(c) ==
    /\ call[c].pc = "update"
    /\ row' = Written(call[c].op)
    /\ call' = [call EXCEPT ![c].pc = "notify"]
    /\ completed' = (completed \/ call[c].op = "complete")
    /\ solo' = IF solo = c THEN c ELSE None
    /\ synced' = FALSE
    /\ UNCHANGED doc

\* Slip: Complete goes on to notify after an error, like TryFail.
AfterErrorGoesOn(op) == "notify"

\* MarkRunning and Complete return the error, TryFail logs it and goes on.
AfterError(op) == IF op = "fail" THEN "notify" ELSE "idle"

\* The statement fails, or takes effect and the reply is lost.
UpdateError(c) ==
    /\ call[c].pc = "update"
    /\ LET op == call[c].op IN
       /\ \/ UNCHANGED <<row, completed>>
          \/ row' = Written(op) /\ completed' = (completed \/ op = "complete")
       /\ call' = [call EXCEPT ![c] =
                      IF AfterError(op) = "idle" THEN Idle ELSE [pc |-> "notify", op |-> op]]
    /\ solo' = None
    /\ synced' = FALSE
    /\ UNCHANGED doc

Notify(c) ==
    /\ call[c].pc = "notify"
    /\ doc' = Notified(call[c].op)
    /\ call' = [call EXCEPT ![c] = Idle]
    /\ synced' = (solo = c)
    /\ solo' = None
    /\ UNCHANGED <<row, completed>>

\* The write is lost, or the caller dies before it: an error is only logged.
NotifyLost(c) ==
    /\ call[c].pc = "notify"
    /\ call' = [call EXCEPT ![c] = Idle]
    /\ synced' = FALSE
    /\ solo' = None
    /\ UNCHANGED <<row, doc, completed>>

\* The caller dies before its statement.
Dies(c) ==
    /\ call[c].pc = "update"
    /\ call' = [call EXCEPT ![c] = Idle]
    /\ solo' = None
    /\ UNCHANGED <<row, doc, completed, synced>>

----------------------------------------------------------------------------
(* Calls of one write, by anybody at any time. *)

NotifyQueued ==
    /\ doc' = QueuedDoc(doc)
    /\ synced' = (row.status = Queued)
    /\ solo' = None
    /\ UNCHANGED <<row, call, completed>>

\* Notifier.Stage and StageProgress
StageProgress(s, p) ==
    /\ doc' = StageDoc(doc, s, p)
    /\ synced' = (synced /\ row.status = "running")
    /\ solo' = None
    /\ UNCHANGED <<row, call, completed>>

UpdateProcessingJobStage(s) ==
    /\ row' = [row EXCEPT !.stage = s]
    /\ UNCHANGED <<doc, call, completed, solo, synced>>

UpsertJobEvaluation(e) ==
    /\ row' = [row EXCEPT !.evaluation = e]
    /\ UNCHANGED <<doc, call, completed, solo, synced>>

----------------------------------------------------------------------------
Ops == {"run", "fail", "complete"}

Next ==
    \/ \E c \in Callers : \/ \E op \in Ops : Begin(c, op)
                          \/ Update(c) \/ UpdateError(c)
                          \/ Notify(c) \/ NotifyLost(c) \/ Dies(c)
    \/ NotifyQueued
    \/ \E s \in Stages, p \in Percents \cup {NotGiven} : StageProgress(s, p)
    \/ \E s \in Stages : UpdateProcessingJobStage(s)
    \/ \E e \in Evaluations : UpsertJobEvaluation(e)

Spec == Init /\ [][Next]_vars

----------------------------------------------------------------------------
\* Both stores hold values of their columns and fields; progress is a percentage.
TypeOK ==
    /\ row \in [status: Texts, stage: Stages \cup {None}, error: BOOLEAN,
               evaluation: Evaluations \cup {"passed", "failed", None}]
    /\ doc \in [status: {None, "queued", "running", "succeeded", "failed"},
               stage: Stages \cup {None}, progress: 0..100 \cup {None}, error: BOOLEAN]
    /\ call \in [Callers -> [pc: {"idle", "update", "notify"}, op: Ops \cup {None}]]
    /\ completed \in BOOLEAN
    /\ solo \in Callers \cup {None}
    /\ synced \in BOOLEAN

(***************************************************************************)
(* The browser never sees success the database has not recorded: Complete  *)
(* writes the row first and does not notify when that write reports an     *)
(* error, whatever other callers and lost writes do in between.            *)
(***************************************************************************)
SuccessIsRecorded == doc.status = "succeeded" => completed

(***************************************************************************)
(* A finished document is consistent in itself although writes are merged: *)
(* success shows 100 percent, no stage and no error of an earlier attempt, *)
(* failure shows its error and no stage.                                   *)
(***************************************************************************)
FinishedDocument ==
    /\ doc.status = "succeeded" => doc.progress = 100 /\ doc.stage = None /\ ~doc.error
    /\ doc.status = "failed" => doc.stage = None /\ doc.error

(***************************************************************************)
(* Divergence of the two stores needs a lost write, an error, two calls at *)
(* once or a stage reported out of turn: a call that ran alone and got     *)
(* both writes through leaves document and row with the same status, also  *)
(* after anything that went wrong before it.                               *)
(***************************************************************************)
SoloCallSyncs == synced => doc.status = Shown(row.status)

(***************************************************************************)
(* A job whose row says it is running is read back as RUNNING, a state the *)
(* enum has for it (gen/synthify/tree/v1/job.pb.go:130) and the one that   *)
(* the in-memory store's "realistic mock jobs" (mock/store.go:405) give a  *)
(* running job (:418).                                                     *)
(***************************************************************************)
RunningReadsRunning == row.status = "running" => ToJobStatus(row) = "RUNNING"
=============================================================================

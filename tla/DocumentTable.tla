---------------------------- MODULE DocumentTable ----------------------------
(***************************************************************************)
(* The "documents" row of the database as the processing code reads and    *)
(* writes it: the columns status, processing_phase, processing_progress,   *)
(* processing_error and processing_attempts (document_model.Document).     *)
(*                                                                         *)
(* Every operator maps the row one session has loaded to the row its       *)
(* assignments describe.  What reaches the table is Flush: the sessions    *)
(* are built with expire_on_commit=False and never populate_existing, so a *)
(* repeated SELECT hands back the object loaded first, and an UPDATE names *)
(* only the columns whose assigned value differs from the loaded one.      *)
(***************************************************************************)
EXTENDS Naturals

\* The statuses list_pending, get_for_processing and claim_for_processing
\* accept, and the two others a row can be in; "absent" stands for no row.
RunnableStatuses == {"pending", "failed", "processing"}
Statuses == RunnableStatuses \cup {"processed", "absent"}
Phases == {"none", "queued", "extracting", "indexing", "completed", "failed"}
Progresses == {0, 10, 60, 100}

\* processing_error: no message, "source file is missing", or the message of
\* an extraction or limit error.  Two messages are told apart because an
\* UPDATE skips a column that is assigned the value it was loaded with.
Errors == {"none", "missing", "content"}

Rows == [status : Statuses, phase : Phases, progress : Progresses,
         error : Errors, attempts : Nat]

Absent == [status |-> "absent", phase |-> "none", progress |-> 0,
           error |-> "none", attempts |-> 0]

\* create_pending_document, and the values retry_document assigns.
NewRow == [status |-> "pending", phase |-> "queued", progress |-> 0,
           error |-> "none", attempts |-> 0]

Present(r) == r.status # "absent"
Runnable(r) == r.status \in RunnableStatuses

-----------------------------------------------------------------------------
(* The unit of work's UPDATE.                                              *)

Column(stored, loaded, assigned) ==
    IF assigned = loaded THEN stored ELSE assigned

Flush(stored, loaded, assigned) ==
    [status   |-> Column(stored.status, loaded.status, assigned.status),
     phase    |-> Column(stored.phase, loaded.phase, assigned.phase),
     progress |-> Column(stored.progress, loaded.progress, assigned.progress),
     error    |-> Column(stored.error, loaded.error, assigned.error),
     attempts |-> Column(stored.attempts, loaded.attempts, assigned.attempts)]

-----------------------------------------------------------------------------
(* What each operation assigns to the loaded row.                          *)

Claimed(r) ==
    [status |-> "processing", phase |-> r.phase, progress |-> r.progress,
     error |-> "none", attempts |-> r.attempts + 1]

Progressed(r, phase, progress) == [r EXCEPT !.phase = phase,
                                            !.progress = progress]

Completed(r) ==
    [status |-> "processed", phase |-> "completed", progress |-> 100,
     error |-> "none", attempts |-> r.attempts]

\* Mutated form: the failure forgets the message.
FailedWithoutMessage(r, error) == [r EXCEPT !.status = "failed",
                                            !.phase = "failed"]

Failed(r, error) == [r EXCEPT !.status = "failed",
                              !.phase = "failed",
                              !.error = error]

\* Mutated form: a starting worker requeues nothing.
NotRequeued(r) == r

\* requeue_processing_documents is one UPDATE statement: it reads and writes
\* the stored row, and leaves the attempts alone.
Requeued(r) ==
    IF r.status = "processing"
    THEN [NewRow EXCEPT !.attempts = r.attempts]
    ELSE r
=============================================================================

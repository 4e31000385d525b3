-------------------------- MODULE DocumentProcessing --------------------------
(***************************************************************************)
(* The life of a document: uploaded, listed, claimed, extracted, indexed,  *)
(* failed, retried, requeued and deleted, by every process that touches    *)
(* it: the worker loop (document_worker.run_worker), the one-shot          *)
(* "studygraph --process-pending" (cli.py), and the API's request handlers *)
(* with the background jobs they start (api.py).                           *)
(*                                                                         *)
(* A job (process_document_job) is one session, so view[p] is the row the  *)
(* session last loaded or refreshed; one action is one transaction.        *)
(***************************************************************************)
EXTENDS DocumentTable, FiniteSets

CONSTANTS
    NumDocs,        \* documents that may be uploaded, in the order of their ids
    Workers,        \* long-running worker processes
    Clis,           \* terminals from which --process-pending may be run
    Handlers,       \* API requests that may be in flight at once
    MaxAttempts,    \* STUDYGRAPH_MAX_PROCESSING_ATTEMPTS
    BatchSize,      \* the worker's list_pending limit (10)
    CliBatchSize,   \* the command line's list_pending limit (20)
    ProcessInApi,   \* STUDYGRAPH_PROCESS_UPLOADS_IN_API
    UserOps,        \* which of "retry" and "delete" the users send
    Outcomes,       \* how reading a PDF may end: "text", "bad", "raises"
    MaxFaults       \* bound on crashes and database errors

Docs == 1..NumDocs
NoDoc == 0
Procs == Workers \cup Clis \cup Handlers

\* The kinds of process are disjoint, and the limits are the positive numbers
\* config.py and the two callers of list_pending use.
ASSUME ConstantsAssumption ==
    /\ NumDocs \in Nat /\ MaxFaults \in Nat
    /\ MaxAttempts \in Nat \ {0}
    /\ BatchSize \in Nat \ {0} /\ CliBatchSize \in Nat \ {0}
    /\ Workers \cap Clis = {} /\ Workers \cap Handlers = {} /\ Clis \cap Handlers = {}
    /\ ProcessInApi \in BOOLEAN
    /\ UserOps \subseteq {"retry", "delete"}
    /\ Outcomes \subseteq {"text", "bad", "raises"}

VARIABLES
    created,    \* how many documents have been uploaded; ids are never reused
    row,        \* the documents table
    chunked,    \* documents that have rows in document_chunks (are searchable)
    files,      \* documents whose stored PDF exists
    pc,         \* where each process is
    job,        \* the document it works on, NoDoc if none
    view,       \* the row its session has loaded, Absent if none
    queue,      \* documents it has still to run, lowest id first
    seen,       \* rows a worker's listing session loaded and has not checked yet
    dropped,    \* history: documents whose last job a logged error has ended
    faults      \* faults so far

vars == <<created, row, chunked, files, pc, job, view, queue, seen, dropped, faults>>

-----------------------------------------------------------------------------
(* States.                                                                 *)

Running == {"start", "extract", "index", "store", "fail"}
Checking == {"checking", "rereading"}
PCs == {"idle", "polling", "dispatch", "claim", "retry", "unlink"}
           \cup Checking \cup Running

\* p is past the claim of d: it reads the PDF of d and will write d's row.
Processes(p, d) == job[p] = d /\ pc[p] \in Running

NothingSeen == [d \in Docs |-> Absent]
Unchecked(w) == {d \in Docs : Present(seen[w][d])}
IsFirst(d, S) == d \in S /\ \A e \in S : d <= e

Init ==
    /\ created = 0
    /\ row = [d \in Docs |-> Absent]
    /\ chunked = {} /\ files = {}
    /\ pc = [p \in Procs |-> "idle"]
    /\ job = [p \in Procs |-> NoDoc]
    /\ view = [p \in Procs |-> Absent]
    /\ queue = [p \in Procs |-> {}]
    /\ seen = [w \in Workers |-> NothingSeen]
    /\ dropped = {}
    /\ faults = 0

-----------------------------------------------------------------------------
(* Shared pieces of the actions.                                           *)

\* update(document): the session's dirty columns are written and the object
\* is refreshed from the stored row.
Save(p, d, assigned) ==
    LET stored == Flush(row[d], view[p], assigned)
    IN  /\ row' = [row EXCEPT ![d] = stored]
        /\ view' = [view EXCEPT ![p] = stored]

Goto(p, label) == pc' = [pc EXCEPT ![p] = label]

\* The session of p closes.
DropSession(p) ==
    /\ job' = [job EXCEPT ![p] = NoDoc]
    /\ view' = [view EXCEPT ![p] = Absent]

\* Mutated form: the document's chunks stay.
ChunksKept(d) == chunked

\* The rows of d in document_chunks are deleted: the chunk list is emptied, or
\* the row goes and the foreign key takes them along.
ChunksWithout(d) == chunked \ {d}

\* Mutated form: the job goes on after its early return.
GoOnWithoutSession(p) == DropSession(p) /\ UNCHANGED <<pc, queue, dropped>>

\* process_document_job returns.
EndJob(p) == Goto(p, "dispatch") /\ DropSession(p) /\ UNCHANGED <<queue, dropped>>

\* process_document_job logs a DocumentProcessingStateError and returns.
EndOnError(p) ==
    /\ Goto(p, "dispatch") /\ DropSession(p)
    /\ dropped' = dropped \cup {job[p]}
    /\ UNCHANGED queue

\* An exception leaves process_document_job: it ends run_worker or the CLI;
\* for a background job of the API it only ends the job.
Raise(p) ==
    /\ Goto(p, "idle") /\ DropSession(p)
    /\ queue' = [queue EXCEPT ![p] = {}]
    /\ UNCHANGED dropped

Fault == faults < MaxFaults /\ faults' = faults + 1

\* One of the job's database operations fails although the row is there.  What
\* it wrote is rolled back, or stored if it is the refresh after the commit
\* that fails.
DatabaseFails(p) == Fault /\ EndOnError(p)

\* Mutated form: one document less than the limit allows.
ListedTooFew(limit) ==
    LET runnable == {d \in Docs : Runnable(row[d])}
    IN  {d \in runnable : Cardinality({e \in runnable : e < d}) < limit - 1}

\* list_pending(limit): the first documents with a runnable status by id.
Listed(limit) ==
    LET runnable == {d \in Docs : Runnable(row[d])}
    IN  {d \in runnable : Cardinality({e \in runnable : e < d}) < limit}

-----------------------------------------------------------------------------
(* process_document_job and process_pending_document, for any process.     *)

\* Mutated form of the limit test: one attempt too many.
RetryLimitExceeded(r) == r.attempts > MaxAttempts

RetryLimitReached(r) == r.attempts >= MaxAttempts

\* The next document of the batch is loaded in a session of its own; one that
\* is gone, already processed or out of attempts is skipped.
LoadJob(p) ==
    /\ pc[p] = "dispatch"
    /\ \E d \in Docs :
        /\ IsFirst(d, queue[p])
        /\ queue' = [queue EXCEPT ![p] = @ \ {d}]
        /\ \/ /\ ~Runnable(row[d]) \/ RetryLimitReached(row[d])
              /\ UNCHANGED <<pc, job, view>>
           \/ /\ Runnable(row[d]) /\ ~RetryLimitReached(row[d])
              /\ Goto(p, "claim")
              /\ job' = [job EXCEPT ![p] = d]
              /\ view' = [view EXCEPT ![p] = row[d]]
    /\ UNCHANGED <<created, row, chunked, files, seen, dropped, faults>>

FinishBatch(p) ==
    /\ pc[p] = "dispatch" /\ queue[p] = {}
    /\ Goto(p, IF p \in Workers THEN "polling" ELSE "idle")
    /\ UNCHANGED <<created, row, chunked, files, job, view, queue, seen, dropped, faults>>

\* Mutated form: the SELECT ... FOR UPDATE without its status condition.
ClaimableInAnyStatus(r) == Present(r)

\* The WHERE clause of claim_for_processing, evaluated on the stored row ...
Claimable(r) == Runnable(r)

\* ... while the test for "processing" reads the object loaded by LoadJob.
\* A document whose row is no longer claimable, but was loaded as pending or
\* failed, is processed without a claim.  A claim that is stored, and not
\* refreshed, is nobody's.
Claim(p) ==
    LET d == job[p]
    IN  /\ pc[p] = "claim"
        /\ \/ /\ ~Present(row[d])
              /\ Raise(p) \/ EndOnError(p)
              /\ UNCHANGED <<row, faults>>
           \/ /\ Present(row[d]) /\ view[p].status = "processing"
              /\ EndJob(p) /\ UNCHANGED <<row, faults>>
           \/ /\ Claimable(row[d]) /\ view[p].status # "processing"
              /\ Save(p, d, Claimed(view[p]))
              /\ dropped' = dropped \ {d}
              /\ Goto(p, "start") /\ UNCHANGED <<job, queue, faults>>
           \/ /\ Present(row[d]) /\ ~Claimable(row[d])
              /\ view[p].status # "processing"
              /\ Goto(p, "start")
              /\ UNCHANGED <<row, job, view, queue, dropped, faults>>
           \/ /\ Present(row[d]) /\ DatabaseFails(p)
              /\ \/ UNCHANGED row
                 \/ /\ Claimable(row[d]) /\ view[p].status # "processing"
                    /\ row' = [row EXCEPT ![d] = Flush(@, view[p], Claimed(view[p]))]
        /\ UNCHANGED <<created, chunked, files, seen>>

\* update_processing_progress.  When the row is gone the job either finds no
\* document (DocumentNotFoundError, which nobody catches) or, if it goes
\* between the SELECT and the UPDATE, a storage error that is logged.
Report(p, label, phase, progress) ==
    LET d == job[p]
        reported == Progressed(view[p], phase, progress)
    IN  \/ /\ Present(row[d])
           /\ Save(p, d, reported)
           /\ Goto(p, label) /\ UNCHANGED <<job, queue, dropped, faults>>
        \/ /\ Present(row[d]) /\ DatabaseFails(p)
           /\ \/ UNCHANGED row
              \/ row' = [row EXCEPT ![d] = Flush(@, view[p], reported)]
        \/ /\ ~Present(row[d])
           /\ Raise(p) \/ EndOnError(p)
           /\ UNCHANGED <<row, faults>>

ReportExtracting(p) ==
    /\ pc[p] = "start" /\ Report(p, "extract", "extracting", 10)
    /\ UNCHANGED <<created, chunked, files, seen>>

ReportIndexing(p) ==
    /\ pc[p] = "index" /\ Report(p, "store", "indexing", 60)
    /\ UNCHANGED <<created, chunked, files, seen>>

\* extract_pdf_document: text, a PdfTextExtractionError ("bad"), or an
\* exception the job does not expect ("raises").
Extract(p) ==
    /\ pc[p] = "extract"
    /\ \/ /\ job[p] \notin files \/ "bad" \in Outcomes
          /\ Goto(p, "fail") /\ UNCHANGED <<job, view, queue, dropped>>
       \/ /\ job[p] \in files /\ "text" \in Outcomes
          /\ Goto(p, "index") /\ UNCHANGED <<job, view, queue, dropped>>
       \/ /\ job[p] \in files /\ "raises" \in Outcomes
          /\ Raise(p)
    /\ UNCHANGED <<created, row, chunked, files, seen, faults>>

\* process_document, once the text is there: too long ("bad"), an embedding
\* provider that raises, chunks that collide with an existing set (the unique
\* key of document_chunks; the INSERTs run before the DELETEs), or stored.
Store(p) ==
    LET d == job[p]
    IN  /\ pc[p] = "store"
        /\ \/ /\ ~Present(row[d]) \/ "raises" \in Outcomes
              /\ Raise(p) /\ UNCHANGED <<row, chunked, faults>>
           \/ /\ ~Present(row[d]) \/ d \in chunked
              /\ EndOnError(p) /\ UNCHANGED <<row, chunked, faults>>
           \/ /\ Present(row[d]) /\ "bad" \in Outcomes
              /\ Goto(p, "fail")
              /\ UNCHANGED <<row, chunked, job, view, queue, dropped, faults>>
           \/ /\ Present(row[d]) /\ d \notin chunked
              /\ row' = [row EXCEPT ![d] = Flush(@, view[p], Completed(view[p]))]
              /\ chunked' = chunked \cup {d}
              /\ (EndJob(p) /\ UNCHANGED faults) \/ DatabaseFails(p)
           \/ /\ Present(row[d]) /\ DatabaseFails(p)
              /\ UNCHANGED <<row, chunked>>
        /\ UNCHANGED <<created, files, seen>>

\* mark_document_failed.
Fail(p) ==
    LET d == job[p]
    IN  /\ pc[p] = "fail"
        /\ \/ /\ ~Present(row[d])
              /\ Raise(p) \/ EndOnError(p)
              /\ UNCHANGED <<row, chunked, faults>>
           \/ /\ Present(row[d])
              /\ row' = [row EXCEPT ![d] =
                            Flush(@, view[p], Failed(view[p], "content"))]
              /\ chunked' = ChunksWithout(d)
              /\ (EndJob(p) /\ UNCHANGED faults) \/ DatabaseFails(p)
           \/ /\ Present(row[d]) /\ DatabaseFails(p)
              /\ UNCHANGED <<row, chunked>>
        /\ UNCHANGED <<created, files, seen>>

JobStep(p) ==
    \/ LoadJob(p) \/ FinishBatch(p) \/ Claim(p) \/ ReportExtracting(p)
    \/ Extract(p) \/ ReportIndexing(p) \/ Store(p) \/ Fail(p)

-----------------------------------------------------------------------------
(* The worker loop and the command line.                                   *)

\* run_worker starts and requeues every document left in "processing".
WorkerStart(w) ==
    /\ pc[w] = "idle"
    /\ row' = [d \in Docs |-> Requeued(row[d])]
    /\ dropped' = {}
    /\ Goto(w, "polling")
    /\ UNCHANGED <<created, chunked, files, job, view, queue, seen, faults>>

\* _process_pending_batch lists a batch in a session of its own; an empty one
\* leaves the worker polling.
ListPending(w) ==
    /\ pc[w] = "polling"
    /\ seen' = [seen EXCEPT ![w] =
                    [d \in Docs |-> IF d \in Listed(BatchSize) THEN row[d] ELSE Absent]]
    /\ Goto(w, IF Listed(BatchSize) = {} THEN "polling" ELSE "checking")
    /\ UNCHANGED <<created, row, chunked, files, job, view, queue, dropped, faults>>

\* A listed document whose PDF exists is queued; one whose PDF is missing is
\* marked failed (_mark_source_failed) from the row the listing loaded.  A
\* database error is logged there: whether or not the failure is stored, the
\* rollback expires the rows that are left, and each of them is read again
\* when the worker comes to it.  A row that is gone by now ends the worker.
CheckSource(w) ==
    /\ pc[w] \in Checking
    /\ \E d \in Docs :
        LET loaded == IF pc[w] = "rereading" THEN row[d] ELSE seen[w][d]
            Record == /\ row' = [row EXCEPT ![d] =
                                    Flush(@, loaded, Failed(loaded, "missing"))]
                      /\ chunked' = ChunksWithout(d)
        IN  /\ IsFirst(d, Unchecked(w))
            /\ \/ /\ d \in files /\ Present(loaded)
                  /\ queue' = [queue EXCEPT ![w] = @ \cup {d}]
                  /\ seen' = [seen EXCEPT ![w] = [@ EXCEPT ![d] = Absent]]
                  /\ UNCHANGED <<row, chunked, pc, job, view, dropped, faults>>
               \/ /\ d \notin files /\ Present(row[d])
                  /\ \/ Record /\ UNCHANGED <<pc, faults>>
                     \/ /\ Record \/ UNCHANGED <<row, chunked>>
                        /\ Fault /\ Goto(w, "rereading")
                  /\ seen' = [seen EXCEPT ![w] = [@ EXCEPT ![d] = Absent]]
                  /\ UNCHANGED <<job, view, queue, dropped>>
               \/ /\ ~Present(row[d]) /\ (d \notin files \/ ~Present(loaded))
                  /\ Raise(w)
                  /\ seen' = [seen EXCEPT ![w] = NothingSeen]
                  /\ UNCHANGED <<row, chunked, faults>>
    /\ UNCHANGED <<created, files>>

RunBatch(w) ==
    /\ pc[w] \in Checking /\ Unchecked(w) = {}
    /\ Goto(w, "dispatch")
    /\ UNCHANGED <<created, row, chunked, files, job, view, queue, seen, dropped, faults>>

WorkerStep(w) ==
    WorkerStart(w) \/ ListPending(w) \/ CheckSource(w) \/ RunBatch(w) \/ JobStep(w)

\* "studygraph --process-pending": one batch, with no requeue and no check of
\* the stored files.
CliRun(c) ==
    /\ pc[c] = "idle"
    /\ queue' = [queue EXCEPT ![c] = Listed(CliBatchSize)]
    /\ Goto(c, IF Listed(CliBatchSize) = {} THEN "idle" ELSE "dispatch")
    /\ UNCHANGED <<created, row, chunked, files, job, view, seen, dropped, faults>>

-----------------------------------------------------------------------------
(* The API's handlers.                                                     *)

\* After its response a handler runs the background job it has added, if any.
StartBackgroundJob(h, d) ==
    IF ProcessInApi
    THEN /\ queue' = [queue EXCEPT ![h] = {d}]
         /\ Goto(h, "dispatch")
    ELSE /\ Goto(h, "idle") /\ UNCHANGED queue

\* create_document, here as one step: the PDF is stored and the row inserted.
Upload(h) ==
    LET d == created + 1
    IN  /\ pc[h] = "idle" /\ created < NumDocs
        /\ created' = d
        /\ row' = [row EXCEPT ![d] = NewRow]
        /\ files' = files \cup {d}
        /\ StartBackgroundJob(h, d)
        /\ UNCHANGED <<chunked, job, view, seen, dropped, faults>>

\* The INSERT is committed but the refresh after it fails: the handler answers
\* 500 and removes the stored PDF of a row that exists.
UploadUnconfirmed(h) ==
    /\ pc[h] = "idle" /\ created < NumDocs /\ Fault
    /\ created' = created + 1
    /\ row' = [row EXCEPT ![created + 1] = NewRow]
    /\ UNCHANGED <<chunked, files, pc, job, view, queue, seen, dropped>>

\* retry_document loads the row, whatever its status ...
RetryLoad(h, d) ==
    /\ "retry" \in UserOps /\ pc[h] = "idle" /\ Present(row[d])
    /\ Goto(h, "retry")
    /\ job' = [job EXCEPT ![h] = d]
    /\ view' = [view EXCEPT ![h] = row[d]]
    /\ UNCHANGED <<created, row, chunked, files, queue, seen, dropped, faults>>

\* ... and later writes the columns that differ from it and deletes the chunks.
\* Where the refresh after the commit fails, no background job follows.
RetryWrite(h) ==
    LET d == job[h]
    IN  /\ pc[h] = "retry"
        /\ DropSession(h)
        /\ \/ /\ Present(row[d])
              /\ row' = [row EXCEPT ![d] = Flush(@, view[h], NewRow)]
              /\ chunked' = ChunksWithout(d)
              /\ \/ StartBackgroundJob(h, d) /\ UNCHANGED faults
                 \/ Goto(h, "idle") /\ Fault /\ UNCHANGED queue
           \/ /\ ~Present(row[d])
              /\ Goto(h, "idle") /\ UNCHANGED <<row, chunked, queue, faults>>
        /\ UNCHANGED <<created, files, seen, dropped>>

\* delete_document: the row goes first, its chunks with it ...
DeleteRow(h, d) ==
    /\ "delete" \in UserOps /\ pc[h] = "idle" /\ Present(row[d])
    /\ row' = [row EXCEPT ![d] = Absent]
    /\ chunked' = ChunksWithout(d)
    /\ job' = [job EXCEPT ![h] = d]
    /\ Goto(h, "unlink")
    /\ UNCHANGED <<created, files, view, queue, seen, dropped, faults>>

\* ... and then the stored PDF.
UnlinkFile(h) ==
    /\ pc[h] = "unlink"
    /\ files' = files \ {job[h]}
    /\ job' = [job EXCEPT ![h] = NoDoc]
    /\ Goto(h, "idle")
    /\ UNCHANGED <<created, row, chunked, view, queue, seen, dropped, faults>>

HandlerStep(h) == RetryWrite(h) \/ UnlinkFile(h) \/ JobStep(h)

UserStep(h) ==
    \/ Upload(h) \/ UploadUnconfirmed(h)
    \/ \E d \in Docs : RetryLoad(h, d) \/ DeleteRow(h, d)

-----------------------------------------------------------------------------
(* Faults, and the specification.                                          *)

\* A process is killed, or ends what it is doing on an error that nobody
\* catches: a worker or a command line on a database error outside the job's
\* own writes, a request with the answer 500.  Between two batches, a worker
\* obeys SIGTERM.
Crash(p) ==
    /\ pc[p] # "idle" /\ Fault
    /\ Raise(p)
    /\ seen' = IF p \in Workers THEN [seen EXCEPT ![p] = NothingSeen] ELSE seen
    /\ UNCHANGED <<created, row, chunked, files>>

\* The API process dies with the requests and background jobs it was running.
ApiCrash ==
    /\ Fault
    /\ \E h \in Handlers : pc[h] # "idle"
    /\ pc' = [p \in Procs |-> IF p \in Handlers THEN "idle" ELSE pc[p]]
    /\ job' = [p \in Procs |-> IF p \in Handlers THEN NoDoc ELSE job[p]]
    /\ view' = [p \in Procs |-> IF p \in Handlers THEN Absent ELSE view[p]]
    /\ queue' = [p \in Procs |-> IF p \in Handlers THEN {} ELSE queue[p]]
    /\ UNCHANGED <<created, row, chunked, files, seen, dropped>>

Next ==
    \/ \E w \in Workers : WorkerStep(w)
    \/ \E c \in Clis : CliRun(c) \/ JobStep(c)
    \/ \E h \in Handlers : UserStep(h) \/ HandlerStep(h)
    \/ \E p \in Procs : Crash(p)
    \/ ApiCrash

Spec == Init /\ [][Next]_vars

\* Every process that has begun something goes on with it, and a worker that
\* has ended is started again (restart: unless-stopped in docker-compose.yml).
\* What users and operators do is not fair.
Fairness ==
    /\ \A w \in Workers : WF_vars(WorkerStep(w))
    /\ \A c \in Clis : WF_vars(JobStep(c))
    /\ \A h \in Handlers : WF_vars(HandlerStep(h))

FairSpec == Spec /\ Fairness

-----------------------------------------------------------------------------
(* Properties.                                                             *)

\* Every variable has its type, and a process that is past LoadJob, or in the
\* middle of a retry or of a deletion, works on a document.
TypeOK ==
    /\ created \in 0..NumDocs
    /\ row \in [Docs -> Rows]
    /\ chunked \subseteq Docs /\ files \subseteq Docs
    /\ pc \in [Procs -> PCs]
    /\ job \in [Procs -> Docs \cup {NoDoc}]
    /\ view \in [Procs -> Rows]
    /\ queue \in [Procs -> SUBSET Docs]
    /\ seen \in [Workers -> [Docs -> Rows]]
    /\ dropped \subseteq Docs
    /\ faults \in 0..MaxFaults
    /\ \A p \in Procs : pc[p] \in {"claim", "retry", "unlink"} \cup Running
                            => job[p] \in Docs

-----------------------------------------------------------------------------
(* What holds in every deployment.                                         *)

\* The attempts a row stores never pass STUDYGRAPH_MAX_PROCESSING_ATTEMPTS,
\* although the limit is tested on a row loaded a transaction earlier and
\* retries, requeues and other claims may come in between.  It is no bound on
\* the claims: jobs that loaded the same row each store one attempt more than
\* they loaded, so that several claims may count as one.
AttemptsWithinLimit == \A d \in Docs : row[d].attempts <= MaxAttempts

\* No step turns "processed" into "processing": the claim's WHERE clause is
\* what keeps the jobs out that loaded the document before it was processed.
\* Such a job goes on all the same without a claim, and may turn the document
\* into a failed one, which can be claimed.
FinishedNotReclaimed ==
    [][\A d \in Docs : row[d].status = "processed" => row'[d].status # "processing"]_vars

-----------------------------------------------------------------------------
(* What holds where one worker does all the processing                     *)
(* (docker-compose.secure.yml).                                            *)

\* The searches read document_chunks without looking at the status, so a
\* document that has chunks must be processed: a retry, a failure or a claim
\* never leaves chunks behind in another status.
SearchableIsProcessed == \A d \in chunked : row[d].status = "processed"

\* The documents as their users see them.
LifecycleStatus ==
    [d \in Docs |-> IF Present(row[d]) THEN row[d].status
                    ELSE IF d <= created THEN "deleted" ELSE "none"]

Lifecycle ==
    INSTANCE DocumentLifecycle
        WITH status <- LifecycleStatus, searchable <- chunked,
             working <- {job[w] : w \in {v \in Workers : pc[v] \in Running}}

\* Claims, stale sessions, column-wise updates, crashes and requeues are steps
\* of the simple life DocumentLifecycle describes: a worker's transaction that
\* comes after a retry or a deletion still ends as one of them.
FollowsLifecycle == Lifecycle!Spec

\* A document that says "processing" though a logged database error has ended
\* its job.  It stays so until a worker starts or a retry is sent: the worker
\* goes on listing it, and takes it for claimed.
Stranded(d) == d \in dropped /\ row[d].status = "processing"

\* A document that says "processing" is being processed, or a worker is down
\* and will requeue it when it starts, or a database error has stranded it:
\* no crash, retry, deletion or missing file leaves a claim to nobody.
ClaimHasOwner ==
    \A d \in Docs : row[d].status = "processing" =>
        \/ \E p \in Procs : Processes(p, d)
        \/ \E w \in Workers : pc[w] = "idle"
        \/ Stranded(d)

\* With no retries sent, the columns of a row agree with its status and with
\* its chunks: processed means complete, without error and searchable; failed
\* carries a message; pending carries none.  It is what the API answers while
\* a client polls, and every column of it is written by a different step.
RowAgreesWithStatus ==
    \A d \in Docs :
        LET r == row[d]
        IN  /\ r.status = "processed" =>
                   /\ r.phase = "completed" /\ r.progress = 100
                   /\ r.error = "none" /\ d \in chunked
            /\ r.status = "failed" => r.phase = "failed" /\ r.error # "none"
            /\ r.status = "pending" => r.phase = "queued" /\ r.error = "none"

\* The worker lists d again and again and never claims it.
GivenUp(d) == Runnable(row[d]) /\ (RetryLimitReached(row[d]) \/ Stranded(d))

\* A document that takes a place in every batch and is never processed: given
\* up, or without its PDF.
Stuck(d) == GivenUp(d) \/ (Runnable(row[d]) /\ d \notin files)

\* A document that has just been queued is eventually processed, failed or
\* deleted, through crashes and restarts of the worker ("processing then runs
\* in the worker", README.md:322), unless the worker gives it up: it is out of
\* attempts or stranded.  It waits for nothing else but a whole batch of stuck
\* documents before it, which keep it off every listing.
QueuedIsSettled ==
    \A d \in Docs :
        row[d] = NewRow ~>
            \/ row[d].status \in {"processed", "failed", "absent"}
            \/ GivenUp(d)
            \/ Cardinality({e \in Docs : e < d /\ Stuck(e)}) >= BatchSize

-----------------------------------------------------------------------------
(* What the documentation says and the code does not do.                   *)

\* "Database locking to prevent duplicate processing" (README.md:26).
NoDuplicateProcessing ==
    \A d \in Docs : \A p, q \in Procs : Processes(p, d) /\ Processes(q, d) => p = q
=============================================================================

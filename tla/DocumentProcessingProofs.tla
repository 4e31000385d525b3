------------------------ MODULE DocumentProcessingProofs ------------------------
(***************************************************************************)
(* Proofs about DocumentProcessing, for any number of documents, workers,  *)
(* command lines and handlers, any limits and any user operations.         *)
(* First what holds in every deployment; then, where one worker does all   *)
(* the processing, that it implements DocumentLifecycle, that claims have  *)
(* owners, and, without retries, that the columns of a row agree.          *)
(***************************************************************************)
EXTENDS DocumentProcessing, TLAPS

-----------------------------------------------------------------------------
(* The table's operators stay within Rows.                                 *)

\* A flush of well-formed rows is well-formed, and each of its columns is the
\* stored or the assigned one.
LEMMA FlushType ==
    ASSUME NEW s \in Rows, NEW l \in Rows, NEW a \in Rows
    PROVE  /\ Flush(s, l, a) \in Rows
           /\ Flush(s, l, a).status = Column(s.status, l.status, a.status)
           /\ Flush(s, l, a).attempts = Column(s.attempts, l.attempts, a.attempts)
  BY DEF Flush, Column, Rows

\* What the operations assign is well-formed.
LEMMA RowTypes ==
    /\ Absent \in Rows /\ NewRow \in Rows
    /\ \A r \in Rows :
           /\ Claimed(r) \in Rows /\ Completed(r) \in Rows
           /\ Failed(r, "content") \in Rows /\ Failed(r, "missing") \in Rows
           /\ Progressed(r, "extracting", 10) \in Rows
           /\ Progressed(r, "indexing", 60) \in Rows
           /\ Requeued(r) \in Rows
  <1> USE DEF Rows, Statuses, RunnableStatuses, Phases, Progresses, Errors
  <1>1. Absent \in Rows /\ NewRow \in Rows
    BY DEF Absent, NewRow
  <1>2. ASSUME NEW r \in Rows PROVE Claimed(r) \in Rows
    BY DEF Claimed
  <1>3. ASSUME NEW r \in Rows PROVE Completed(r) \in Rows
    BY DEF Completed
  <1>4. ASSUME NEW r \in Rows, NEW error \in {"content", "missing"}
        PROVE  Failed(r, error) \in Rows
    BY DEF Failed
  <1>5. ASSUME NEW r \in Rows, NEW phase \in {"extracting", "indexing"},
               NEW progress \in {10, 60}
        PROVE  Progressed(r, phase, progress) \in Rows
    BY DEF Progressed
  <1>6. ASSUME NEW r \in Rows PROVE Requeued(r) \in Rows
    BY DEF Requeued, NewRow
  <1>7. QED BY <1>1, <1>2, <1>3, <1>4, <1>5, <1>6

-----------------------------------------------------------------------------
(* Type correctness.                                                       *)

\* Initially every process is idle and the table is empty.
LEMMA InitType == Init => TypeOK
  BY ConstantsAssumption, RowTypes
  DEF Init, TypeOK, Docs, PCs, Checking, Running, NothingSeen, NoDoc

\* A saved row and the refreshed view are well-formed.
LEMMA SaveType ==
    ASSUME TypeOK, NEW p \in Procs, NEW d \in Docs, NEW a \in Rows, Save(p, d, a)
    PROVE  row' \in [Docs -> Rows] /\ view' \in [Procs -> Rows]
  BY FlushType DEF TypeOK, Save

\* A process that drops its session and goes to a place where it has no job
\* leaves the process variables well-formed.
LEMMA DropSessionType ==
    ASSUME TypeOK, NEW p \in Procs, NEW label \in {"idle", "dispatch"},
           DropSession(p), Goto(p, label)
    PROVE  /\ pc' \in [Procs -> PCs]
           /\ job' \in [Procs -> Docs \cup {NoDoc}]
           /\ view' \in [Procs -> Rows]
           /\ \A q \in Procs : pc'[q] \in {"claim", "retry", "unlink"} \cup Running
                                    => job'[q] \in Docs
  BY RowTypes DEF TypeOK, DropSession, Goto, PCs, Checking, Running

\* A job ends: it returns, logs an error and returns, or raises.
JobEnds(p) == EndJob(p) \/ EndOnError(p) \/ Raise(p)

\* So does the end of a job.
LEMMA EndOfJobType ==
    ASSUME TypeOK, NEW p \in Procs, JobEnds(p), job[p] \in Docs \/ Raise(p)
    PROVE  /\ dropped' \subseteq Docs
           /\ pc' \in [Procs -> PCs]
           /\ job' \in [Procs -> Docs \cup {NoDoc}]
           /\ view' \in [Procs -> Rows]
           /\ queue' \in [Procs -> SUBSET Docs]
           /\ \A q \in Procs : pc'[q] \in {"claim", "retry", "unlink"} \cup Running
                                    => job'[q] \in Docs
  <1>1. CASE EndJob(p)
    BY <1>1, DropSessionType DEF EndJob, TypeOK
  <1>2. CASE Raise(p)
    <2>1. queue' \in [Procs -> SUBSET Docs] /\ dropped' \subseteq Docs
      BY <1>2 DEF Raise, TypeOK
    <2>2. QED BY <1>2, <2>1, DropSessionType DEF Raise
  <1>3. CASE EndOnError(p) /\ job[p] \in Docs
    BY <1>3, DropSessionType DEF EndOnError, TypeOK
  <1>4. QED BY <1>1, <1>2, <1>3 DEF JobEnds

\* The faults stay within their bound.
LEMMA FaultsType ==
    ASSUME TypeOK, UNCHANGED faults \/ Fault
    PROVE  faults' \in 0..MaxFaults
  BY ConstantsAssumption DEF TypeOK, Fault

\* The steps of a job keep the types.
LEMMA JobStepType ==
    ASSUME TypeOK, NEW p \in Procs, JobStep(p)
    PROVE  TypeOK'
  <1> USE DEF TypeOK, PCs, Checking, Running
  <1>1. CASE LoadJob(p)
    BY <1>1 DEF LoadJob, Goto
  <1>2. CASE FinishBatch(p)
    BY <1>2 DEF FinishBatch, Goto
  <1>3. ASSUME JobEnds(p), job[p] \in Docs, UNCHANGED faults \/ Fault,
               row' \in [Docs -> Rows], chunked' \subseteq Docs,
               UNCHANGED <<created, files, seen>>
        PROVE  TypeOK'
    BY <1>3, EndOfJobType, FaultsType
  <1>4. ASSUME NEW label \in {"start", "extract", "store"}, NEW a \in Rows, job[p] \in Docs,
               Save(p, job[p], a), Goto(p, label), dropped' \subseteq Docs,
               UNCHANGED <<created, chunked, files, job, queue, seen, faults>>
        PROVE  TypeOK'
    BY <1>4, SaveType DEF Goto
  <1>5. ASSUME NEW a \in Rows, job[p] \in Docs,
               UNCHANGED row \/ row' = [row EXCEPT ![job[p]] = Flush(@, view[p], a)]
        PROVE  row' \in [Docs -> Rows]
    <2>1. Flush(row[job[p]], view[p], a) \in Rows BY <1>5, FlushType
    <2>2. QED BY <1>5, <2>1
  <1>6. CASE Claim(p)
    <2>1. job[p] \in Docs /\ Claimed(view[p]) \in Rows BY <1>6, RowTypes DEF Claim
    <2>2. CASE /\ Save(p, job[p], Claimed(view[p])) /\ dropped' = dropped \ {job[p]}
               /\ Goto(p, "start") /\ UNCHANGED <<job, queue, faults>>
      BY <1>4, <1>6, <2>1, <2>2 DEF Claim
    <2>3. CASE /\ JobEnds(p) /\ (UNCHANGED faults \/ Fault)
               /\ \/ UNCHANGED row
                  \/ row' = [row EXCEPT ![job[p]] = Flush(@, view[p], Claimed(view[p]))]
      BY <1>3, <1>5, <1>6, <2>1, <2>3 DEF Claim
    <2>4. CASE Goto(p, "start") /\ UNCHANGED <<row, job, view, queue, dropped, faults>>
      BY <1>6, <2>1, <2>4 DEF Claim, Goto
    <2>5. QED BY <1>6, <2>2, <2>3, <2>4 DEF Claim, JobEnds, DatabaseFails
  <1>7. CASE ReportExtracting(p) \/ ReportIndexing(p)
    <2>1. job[p] \in Docs BY <1>7 DEF ReportExtracting, ReportIndexing
    <2>2. PICK label \in {"extract", "store"},
               a \in {Progressed(view[p], "extracting", 10),
                      Progressed(view[p], "indexing", 60)} :
            \/ /\ Save(p, job[p], a) /\ Goto(p, label)
               /\ UNCHANGED <<job, queue, dropped, faults>>
            \/ /\ JobEnds(p) /\ (UNCHANGED faults \/ Fault)
               /\ \/ UNCHANGED row
                  \/ row' = [row EXCEPT ![job[p]] = Flush(@, view[p], a)]
      BY <1>7 DEF ReportExtracting, ReportIndexing, Report, JobEnds, DatabaseFails
    <2>3. a \in Rows /\ UNCHANGED <<created, chunked, files, seen>>
      BY <1>7, RowTypes DEF ReportExtracting, ReportIndexing
    <2>4. QED BY <1>3, <1>4, <1>5, <2>1, <2>2, <2>3
  <1>8. CASE Extract(p)
    BY <1>8, EndOfJobType DEF Extract, Goto, JobEnds
  <1>9. CASE Store(p)
    <2>1. job[p] \in Docs /\ Completed(view[p]) \in Rows BY <1>9, RowTypes DEF Store
    <2>2. CASE /\ JobEnds(p) /\ (UNCHANGED faults \/ Fault)
               /\ \/ UNCHANGED row
                  \/ row' = [row EXCEPT ![job[p]] = Flush(@, view[p], Completed(view[p]))]
               /\ chunked' \in {chunked, chunked \cup {job[p]}}
      BY <1>3, <1>5, <1>9, <2>1, <2>2 DEF Store
    <2>3. CASE /\ Goto(p, "fail")
               /\ UNCHANGED <<row, chunked, job, view, queue, dropped, faults>>
      BY <1>9, <2>1, <2>3 DEF Store, Goto
    <2>4. QED BY <1>9, <2>2, <2>3 DEF Store, JobEnds, DatabaseFails
  <1>10. CASE Fail(p)
    <2>1. job[p] \in Docs /\ Failed(view[p], "content") \in Rows BY <1>10, RowTypes DEF Fail
    <2>2. /\ JobEnds(p) /\ (UNCHANGED faults \/ Fault)
          /\ \/ UNCHANGED row
             \/ row' = [row EXCEPT ![job[p]] =
                           Flush(@, view[p], Failed(view[p], "content"))]
          /\ chunked' \in {chunked, chunked \ {job[p]}}
          /\ UNCHANGED <<created, files, seen>>
      BY <1>10 DEF Fail, JobEnds, DatabaseFails, ChunksWithout
    <2>3. QED BY <1>3, <1>5, <2>1, <2>2
  <1>11. QED BY <1>1, <1>2, <1>6, <1>7, <1>8, <1>9, <1>10 DEF JobStep

\* What CheckSource does with the first document it has not checked: it is
\* queued, its failure is recorded from the listed or the stored row, or a
\* database error is logged, or the worker ends because the row is gone.
SourceChecked(w, d, l) ==
    \/ /\ queue' = [queue EXCEPT ![w] = @ \cup {d}]
       /\ seen' = [seen EXCEPT ![w] = [@ EXCEPT ![d] = Absent]]
       /\ UNCHANGED <<row, chunked, pc, job, view, dropped, faults>>
    \/ /\ Present(row[d])
       /\ \/ UNCHANGED <<row, chunked>>
          \/ /\ row' = [row EXCEPT ![d] = Flush(@, l, Failed(l, "missing"))]
             /\ chunked' = chunked \ {d}
       /\ \/ UNCHANGED <<pc, faults>>
          \/ Fault /\ Goto(w, "rereading")
       /\ seen' = [seen EXCEPT ![w] = [@ EXCEPT ![d] = Absent]]
       /\ UNCHANGED <<job, view, queue, dropped>>
    \/ /\ Raise(w)
       /\ seen' = [seen EXCEPT ![w] = NothingSeen]
       /\ UNCHANGED <<row, chunked, faults>>

LEMMA CheckSourceCases ==
    ASSUME TypeOK, NEW w \in Workers, CheckSource(w)
    PROVE  /\ pc[w] \in Checking /\ UNCHANGED <<created, files>>
           /\ \E d \in Docs, l \in Rows :
                  /\ d \in Unchecked(w)
                  /\ (l = seen[w][d] /\ pc[w] = "checking") \/ l = row[d]
                  /\ SourceChecked(w, d, l)
  <1>1. PICK d \in Docs, l \in Rows :
            /\ l = IF pc[w] = "rereading" THEN row[d] ELSE seen[w][d]
            /\ IsFirst(d, Unchecked(w))
            /\ \/ /\ queue' = [queue EXCEPT ![w] = @ \cup {d}]
                  /\ seen' = [seen EXCEPT ![w] = [@ EXCEPT ![d] = Absent]]
                  /\ UNCHANGED <<row, chunked, pc, job, view, dropped, faults>>
               \/ /\ Present(row[d])
                  /\ \/ /\ row' = [row EXCEPT ![d] = Flush(@, l, Failed(l, "missing"))]
                        /\ chunked' = ChunksWithout(d)
                        /\ UNCHANGED <<pc, faults>>
                     \/ /\ \/ /\ row' = [row EXCEPT ![d] =
                                            Flush(@, l, Failed(l, "missing"))]
                              /\ chunked' = ChunksWithout(d)
                           \/ UNCHANGED <<row, chunked>>
                        /\ Fault /\ Goto(w, "rereading")
                  /\ seen' = [seen EXCEPT ![w] = [@ EXCEPT ![d] = Absent]]
                  /\ UNCHANGED <<job, view, queue, dropped>>
               \/ /\ Raise(w)
                  /\ seen' = [seen EXCEPT ![w] = NothingSeen]
                  /\ UNCHANGED <<row, chunked, faults>>
    BY DEF CheckSource, TypeOK
  <1>2. SourceChecked(w, d, l)
    BY <1>1 DEF SourceChecked, ChunksWithout
  <1>3. pc[w] \in Checking /\ UNCHANGED <<created, files>>
    BY DEF CheckSource
  <1>4. QED BY <1>1, <1>2, <1>3 DEF Checking, IsFirst

\* Column by column, a worker's own steps keep the types ...
LEMMA WorkerStepType ==
    ASSUME TypeOK, NEW w \in Workers, WorkerStep(w)
    PROVE  TypeOK'
  <1> w \in Procs BY DEF Procs
  <1> USE DEF TypeOK, PCs, Checking, Running
  <1>1. CASE WorkerStart(w)
    <2>1. row' \in [Docs -> Rows] BY <1>1, RowTypes DEF WorkerStart
    <2>2. QED BY <1>1, <2>1 DEF WorkerStart, Goto
  <1>2. CASE ListPending(w)
    <2>1. seen' \in [Workers -> [Docs -> Rows]] BY <1>2, RowTypes DEF ListPending
    <2>2. QED BY <1>2, <2>1 DEF ListPending, Goto
  <1>3. CASE CheckSource(w)
    <2>1. PICK d \in Docs, l \in Rows : SourceChecked(w, d, l)
      BY <1>3, CheckSourceCases
    <2>2. seen' \in [Workers -> [Docs -> Rows]]
      <3>1. [seen[w] EXCEPT ![d] = Absent] \in [Docs -> Rows]
        BY RowTypes
      <3>2. NothingSeen \in [Docs -> Rows]
        BY RowTypes DEF NothingSeen
      <3>3. seen' = [seen EXCEPT ![w] = [seen[w] EXCEPT ![d] = Absent]]
            \/ seen' = [seen EXCEPT ![w] = NothingSeen]
        BY <2>1 DEF SourceChecked
      <3>4. QED BY <3>1, <3>2, <3>3
    <2>3. Flush(row[d], l, Failed(l, "missing")) \in Rows
      BY FlushType, RowTypes
    <2>4. row' \in [Docs -> Rows] /\ chunked' \subseteq Docs
      BY <2>1, <2>3 DEF SourceChecked
    <2>5. /\ pc' \in [Procs -> PCs] /\ job' \in [Procs -> Docs \cup {NoDoc}]
          /\ view' \in [Procs -> Rows] /\ queue' \in [Procs -> SUBSET Docs]
          /\ dropped' \subseteq Docs
          /\ \A q \in Procs : pc'[q] \in {"claim", "retry", "unlink"} \cup Running
                                => job'[q] \in Docs
      <3>1. CASE Raise(w)
        BY <3>1, EndOfJobType DEF JobEnds
      <3>2. CASE /\ UNCHANGED <<pc, job, view, dropped>>
                 /\ UNCHANGED queue \/ queue' = [queue EXCEPT ![w] = @ \cup {d}]
        BY <3>2
      <3>3. CASE Goto(w, "rereading") /\ UNCHANGED <<job, view, queue, dropped>>
        BY <3>3 DEF Goto
      <3>4. QED BY <2>1, <3>1, <3>2, <3>3 DEF SourceChecked
    <2>6. faults' \in 0..MaxFaults
      BY <2>1, FaultsType DEF SourceChecked
    <2>7. QED BY <1>3, <2>2, <2>4, <2>5, <2>6, CheckSourceCases
  <1>4. CASE RunBatch(w)
    BY <1>4 DEF RunBatch, Goto
  <1>5. QED BY <1>1, <1>2, <1>3, <1>4, JobStepType DEF WorkerStep

\* ... and so do the handlers' ...
LEMMA HandlerStepType ==
    ASSUME TypeOK, NEW h \in Handlers, HandlerStep(h) \/ UserStep(h)
    PROVE  TypeOK'
  <1> h \in Procs BY DEF Procs
  <1> USE DEF TypeOK, PCs, Checking, Running
  <1>1. CASE Upload(h)
    <2>1. created + 1 \in Docs BY <1>1, ConstantsAssumption DEF Upload, Docs
    <2>2. QED BY <1>1, <2>1, RowTypes, ConstantsAssumption
          DEF Upload, StartBackgroundJob, Goto
  <1>2. CASE UploadUnconfirmed(h)
    <2>1. created + 1 \in Docs
      BY <1>2, ConstantsAssumption DEF UploadUnconfirmed, Docs
    <2>2. QED BY <1>2, <2>1, RowTypes, FaultsType, ConstantsAssumption
          DEF UploadUnconfirmed
  <1>3. ASSUME NEW d \in Docs, RetryLoad(h, d) PROVE TypeOK'
    BY <1>3 DEF RetryLoad, Goto
  <1>4. ASSUME NEW d \in Docs, DeleteRow(h, d) PROVE TypeOK'
    BY <1>4, RowTypes DEF DeleteRow, Goto, ChunksWithout
  <1>5. CASE RetryWrite(h)
    <2>1. job[h] \in Docs BY <1>5 DEF RetryWrite
    <2>2. Flush(row[job[h]], view[h], NewRow) \in Rows
      BY <2>1, FlushType, RowTypes
    <2>3. row' \in [Docs -> Rows] /\ chunked' \subseteq Docs
      BY <1>5, <2>1, <2>2 DEF RetryWrite, ChunksWithout
    <2>4. queue' \in [Procs -> SUBSET Docs]
      BY <1>5, <2>1 DEF RetryWrite, StartBackgroundJob
    <2>5. PICK label \in {"idle", "dispatch"} : Goto(h, label)
      BY <1>5 DEF RetryWrite, StartBackgroundJob
    <2>6. faults' \in 0..MaxFaults
      BY <1>5, FaultsType DEF RetryWrite
    <2>7. QED BY <1>5, <2>3, <2>4, <2>5, <2>6, DropSessionType DEF RetryWrite
  <1>6. CASE UnlinkFile(h)
    BY <1>6 DEF UnlinkFile, Goto
  <1>7. QED BY <1>1, <1>2, <1>3, <1>4, <1>5, <1>6, JobStepType
        DEF HandlerStep, UserStep

\* ... and the faults.
LEMMA FaultType ==
    ASSUME TypeOK, (\E p \in Procs : Crash(p)) \/ ApiCrash
    PROVE  TypeOK'
  <1> USE DEF TypeOK
  <1>1. ASSUME NEW p \in Procs, Crash(p) PROVE TypeOK'
    <2>1. seen' \in [Workers -> [Docs -> Rows]]
      BY <1>1, RowTypes DEF Crash, NothingSeen
    <2>2. QED BY <1>1, <2>1, EndOfJobType, FaultsType DEF Crash, JobEnds
  <1>2. CASE ApiCrash
    BY <1>2, RowTypes, FaultsType DEF ApiCrash, PCs, Checking, Running
  <1>3. QED BY <1>1, <1>2

\* A run of the command line starts with a well-formed queue.
LEMMA CliRunType ==
    ASSUME TypeOK, NEW c \in Clis, CliRun(c)
    PROVE  TypeOK'
  BY DEF TypeOK, CliRun, Goto, Listed, Procs, PCs, Checking, Running

\* The state stays well-typed, whatever the deployment.
THEOREM TypeCorrect == Spec => []TypeOK
  <1>1. TypeOK /\ [Next]_vars => TypeOK'
    <2> SUFFICES ASSUME TypeOK, [Next]_vars PROVE TypeOK'
      OBVIOUS
    <2>1. CASE UNCHANGED vars
      BY <2>1 DEF TypeOK, vars
    <2>2. ASSUME NEW c \in Clis, JobStep(c) PROVE TypeOK'
      BY <2>2, JobStepType DEF Procs
    <2>3. QED
      BY <2>1, <2>2, WorkerStepType, HandlerStepType, FaultType, CliRunType DEF Next
  <1>2. QED BY <1>1, InitType, PTL DEF Spec

-----------------------------------------------------------------------------
(* The retry limit.                                                        *)

\* Every copy of a row, stored or loaded, is within the limit, and a job that
\* has passed the limit test still holds the row it tested.  The second half is
\* what makes the claim safe: it increments the loaded attempts, not the stored
\* ones, so what happened to the stored row in between cannot matter.
AttemptsInv ==
    /\ \A d \in Docs : row[d].attempts <= MaxAttempts
    /\ \A p \in Procs : view[p].attempts <= MaxAttempts
    /\ \A w \in Workers, d \in Docs : seen[w][d].attempts <= MaxAttempts
    /\ \A p \in Procs : pc[p] = "claim" => view[p].attempts < MaxAttempts

\* No operation but a claim assigns more attempts than were loaded.
LEMMA AttemptsAssigned ==
    /\ Absent.attempts = 0 /\ NewRow.attempts = 0
    /\ \A r \in Rows :
           /\ Claimed(r).attempts = r.attempts + 1
           /\ Completed(r).attempts = r.attempts
           /\ Failed(r, "content").attempts = r.attempts
           /\ Failed(r, "missing").attempts = r.attempts
           /\ Progressed(r, "extracting", 10).attempts = r.attempts
           /\ Progressed(r, "indexing", 60).attempts = r.attempts
           /\ Requeued(r).attempts = r.attempts
  BY DEF Absent, NewRow, Claimed, Completed, Failed, Progressed, Requeued, Rows

\* A flush of rows within the limit is within the limit.
LEMMA FlushAttempts ==
    ASSUME NEW s \in Rows, NEW l \in Rows, NEW a \in Rows,
           s.attempts <= MaxAttempts, a.attempts <= MaxAttempts
    PROVE  Flush(s, l, a).attempts <= MaxAttempts
  BY FlushType DEF Column

\* The steps of a job.  Each one either leaves the loaded rows alone, drops
\* one, or saves and reloads one.
LEMMA JobStepAttempts ==
    ASSUME TypeOK, AttemptsInv, NEW p \in Procs, JobStep(p)
    PROVE  AttemptsInv'
  <1> USE DEF TypeOK, AttemptsInv
  <1>0. 0 <= MaxAttempts BY ConstantsAssumption
  <1>1. ASSUME NEW label \in {"idle", "dispatch"}, DropSession(p), Goto(p, label),
               UNCHANGED seen, \A d \in Docs : row'[d].attempts <= MaxAttempts
        PROVE  AttemptsInv'
    BY <1>0, <1>1, AttemptsAssigned DEF DropSession, Goto
  <1>2. ASSUME NEW label \in PCs \ {"claim"}, Goto(p, label), NEW a \in Rows,
               job[p] \in Docs, a.attempts <= MaxAttempts,
               Save(p, job[p], a), UNCHANGED seen
        PROVE  AttemptsInv'
    <2>1. Flush(row[job[p]], view[p], a).attempts <= MaxAttempts
      BY <1>2, FlushAttempts
    <2>2. QED BY <1>2, <2>1 DEF Save, Goto
  <1>3. ASSUME NEW label \in PCs \ {"claim"}, Goto(p, label), UNCHANGED <<row, view, seen>>
        PROVE  AttemptsInv'
    BY <1>3 DEF Goto
  <1>4. CASE LoadJob(p)
    <2>1. CASE UNCHANGED <<pc, job, view>>
      BY <1>4, <2>1 DEF LoadJob
    <2>2. CASE \E d \in Docs : /\ ~RetryLimitReached(row[d]) /\ Goto(p, "claim")
                               /\ view' = [view EXCEPT ![p] = row[d]]
      <3>1. PICK d \in Docs : /\ ~RetryLimitReached(row[d]) /\ Goto(p, "claim")
                              /\ view' = [view EXCEPT ![p] = row[d]]
        BY <2>2
      <3>2. row[d].attempts \in Nat /\ row[d].attempts < MaxAttempts
        BY <3>1, ConstantsAssumption DEF RetryLimitReached, Rows
      <3>3. UNCHANGED <<row, seen>> BY <1>4 DEF LoadJob
      <3>4. QED BY <3>1, <3>2, <3>3 DEF Goto
    <2>3. QED BY <1>4, <2>1, <2>2 DEF LoadJob
  <1>5. CASE FinishBatch(p)
    <2>1. PICK label \in {"polling", "idle"} : Goto(p, label)
      BY <1>5 DEF FinishBatch
    <2>2. QED BY <1>3, <1>5, <2>1 DEF FinishBatch, PCs
  <1>6. ASSUME NEW a \in Rows, a.attempts <= MaxAttempts, job[p] \in Docs,
               UNCHANGED row \/ row' = [row EXCEPT ![job[p]] = Flush(@, view[p], a)],
               JobEnds(p), UNCHANGED seen
        PROVE  AttemptsInv'
    <2>1. Flush(row[job[p]], view[p], a).attempts <= MaxAttempts
      BY <1>6, FlushAttempts
    <2>2. \A d \in Docs : row'[d].attempts <= MaxAttempts
      BY <1>6, <2>1
    <2>3. QED BY <1>1, <1>6, <2>2 DEF JobEnds, EndJob, EndOnError, Raise
  <1>7. CASE Claim(p)
    <2>1. job[p] \in Docs /\ UNCHANGED seen BY <1>7 DEF Claim
    <2>2. Claimed(view[p]) \in Rows /\ Claimed(view[p]).attempts <= MaxAttempts
      <3>1. view[p].attempts \in Nat /\ view[p].attempts < MaxAttempts
        BY <1>7 DEF Claim, Rows
      <3>2. view[p] \in Rows OBVIOUS
      <3>3. Claimed(view[p]) \in Rows BY <3>2, RowTypes
      <3>4. Claimed(view[p]).attempts = view[p].attempts + 1
        BY <3>2, AttemptsAssigned
      <3>5. QED BY <3>1, <3>3, <3>4, ConstantsAssumption
    <2>3. CASE Save(p, job[p], Claimed(view[p])) /\ Goto(p, "start")
      BY <1>2, <2>1, <2>2, <2>3 DEF PCs, Running
    <2>4. CASE /\ JobEnds(p)
               /\ \/ UNCHANGED row
                  \/ row' = [row EXCEPT ![job[p]] = Flush(@, view[p], Claimed(view[p]))]
      BY <1>6, <2>1, <2>2, <2>4
    <2>5. CASE Goto(p, "start") /\ UNCHANGED <<row, view>>
      BY <1>3, <2>1, <2>5 DEF PCs, Running
    <2>6. QED BY <1>7, <2>3, <2>4, <2>5 DEF Claim, JobEnds, DatabaseFails
  <1>8. CASE ReportExtracting(p) \/ ReportIndexing(p)
    <2>1. job[p] \in Docs /\ UNCHANGED seen
      BY <1>8 DEF ReportExtracting, ReportIndexing, Running
    <2>2. PICK label \in {"extract", "store"},
               a \in {Progressed(view[p], "extracting", 10),
                      Progressed(view[p], "indexing", 60)} :
            \/ Save(p, job[p], a) /\ Goto(p, label)
            \/ /\ JobEnds(p)
               /\ UNCHANGED row \/ row' = [row EXCEPT ![job[p]] = Flush(@, view[p], a)]
      BY <1>8 DEF ReportExtracting, ReportIndexing, Report, JobEnds, DatabaseFails
    <2>3. a \in Rows /\ a.attempts <= MaxAttempts
      <3>1. view[p] \in Rows OBVIOUS
      <3>2. a \in Rows BY <3>1, RowTypes
      <3>3. a.attempts = view[p].attempts BY <3>1, AttemptsAssigned
      <3>4. QED BY <3>2, <3>3
    <2>4. CASE Save(p, job[p], a) /\ Goto(p, label)
      BY <1>2, <2>1, <2>3, <2>4 DEF PCs, Running
    <2>5. QED BY <1>6, <2>1, <2>2, <2>3, <2>4
  <1>9. CASE Extract(p)
    BY <1>1, <1>3, <1>9 DEF Extract, Raise, PCs, Running
  <1>10. CASE Store(p)
    <2>1. job[p] \in Docs /\ UNCHANGED seen BY <1>10 DEF Store, Running
    <2>2. Completed(view[p]) \in Rows /\ Completed(view[p]).attempts <= MaxAttempts
      <3>1. view[p] \in Rows OBVIOUS
      <3>2. Completed(view[p]) \in Rows BY <3>1, RowTypes
      <3>3. Completed(view[p]).attempts = view[p].attempts
        BY <3>1, AttemptsAssigned
      <3>4. QED BY <3>2, <3>3
    <2>3. CASE /\ JobEnds(p)
               /\ \/ UNCHANGED row
                  \/ row' = [row EXCEPT ![job[p]] = Flush(@, view[p], Completed(view[p]))]
      BY <1>6, <2>1, <2>2, <2>3
    <2>4. CASE Goto(p, "fail") /\ UNCHANGED <<row, view>>
      BY <1>3, <2>1, <2>4 DEF PCs, Running
    <2>5. QED BY <1>10, <2>3, <2>4 DEF Store, JobEnds, DatabaseFails
  <1>11. CASE Fail(p)
    <2>1. job[p] \in Docs /\ UNCHANGED seen BY <1>11 DEF Fail, Running
    <2>2. /\ Failed(view[p], "content") \in Rows
          /\ Failed(view[p], "content").attempts <= MaxAttempts
      <3>1. view[p] \in Rows OBVIOUS
      <3>2. Failed(view[p], "content") \in Rows BY <3>1, RowTypes
      <3>3. Failed(view[p], "content").attempts = view[p].attempts
        BY <3>1, AttemptsAssigned
      <3>4. QED BY <3>2, <3>3
    <2>3. /\ JobEnds(p)
          /\ \/ UNCHANGED row
             \/ row' = [row EXCEPT ![job[p]] =
                           Flush(@, view[p], Failed(view[p], "content"))]
      BY <1>11 DEF Fail, JobEnds, DatabaseFails
    <2>4. QED BY <1>6, <2>1, <2>2, <2>3
  <1>12. QED BY <1>4, <1>5, <1>7, <1>8, <1>9, <1>10, <1>11 DEF JobStep

\* The worker's own steps: a requeue keeps the attempts, a listing copies them.
LEMMA WorkerStepAttempts ==
    ASSUME TypeOK, AttemptsInv, NEW w \in Workers, WorkerStep(w)
    PROVE  AttemptsInv'
  <1> USE DEF TypeOK, AttemptsInv
  <1>0. w \in Procs /\ 0 <= MaxAttempts BY ConstantsAssumption DEF Procs
  <1>1. CASE WorkerStart(w)
    <2>1. \A d \in Docs : row'[d].attempts <= MaxAttempts
      BY <1>1, AttemptsAssigned DEF WorkerStart
    <2>2. QED BY <1>0, <1>1, <2>1 DEF WorkerStart, Goto
  <1>2. CASE ListPending(w)
    <2>1. \A v \in Workers, d \in Docs : seen'[v][d].attempts <= MaxAttempts
      BY <1>0, <1>2, AttemptsAssigned DEF ListPending
    <2>2. QED BY <1>0, <1>2, <2>1 DEF ListPending, Goto
  <1>3. CASE CheckSource(w)
    <2>1. PICK d \in Docs, l \in Rows :
            /\ l = seen[w][d] \/ l = row[d]
            /\ SourceChecked(w, d, l)
      BY <1>3, CheckSourceCases
    <2>2. \A v \in Workers, e \in Docs : seen'[v][e].attempts <= MaxAttempts
      <3>1. CASE seen' = [seen EXCEPT ![w] = [@ EXCEPT ![d] = Absent]]
        BY <1>0, <3>1, AttemptsAssigned
      <3>2. CASE seen' = [seen EXCEPT ![w] = NothingSeen]
        BY <1>0, <3>2, AttemptsAssigned DEF NothingSeen
      <3>3. QED BY <2>1, <3>1, <3>2 DEF SourceChecked
    <2>3. Flush(row[d], l, Failed(l, "missing")).attempts <= MaxAttempts
      <3>1. row[d] \in Rows /\ l.attempts <= MaxAttempts BY <2>1
      <3>2. Failed(l, "missing") \in Rows BY RowTypes
      <3>3. Failed(l, "missing").attempts = l.attempts
        BY AttemptsAssigned
      <3>4. QED BY <3>1, <3>2, <3>3, FlushAttempts
    <2>4. \A e \in Docs : row'[e].attempts <= MaxAttempts
      BY <2>1, <2>3 DEF SourceChecked
    <2>5. /\ \A q \in Procs : view'[q].attempts <= MaxAttempts
          /\ \A q \in Procs : pc'[q] = "claim" => view'[q].attempts < MaxAttempts
      BY <1>0, <2>1, AttemptsAssigned DEF SourceChecked, Raise, DropSession, Goto
    <2>6. QED BY <2>2, <2>4, <2>5
  <1>4. CASE RunBatch(w)
    BY <1>0, <1>4 DEF RunBatch, Goto
  <1>5. QED BY <1>0, <1>1, <1>2, <1>3, <1>4, JobStepAttempts DEF WorkerStep

\* The handlers' steps: a new or a retried document starts from zero.
LEMMA HandlerStepAttempts ==
    ASSUME TypeOK, AttemptsInv, NEW h \in Handlers, HandlerStep(h) \/ UserStep(h)
    PROVE  AttemptsInv'
  <1> USE DEF TypeOK, AttemptsInv
  <1>0. h \in Procs /\ 0 <= MaxAttempts BY ConstantsAssumption DEF Procs
  <1>1. CASE Upload(h)
    <2>1. \A d \in Docs : row'[d].attempts <= MaxAttempts
      BY <1>0, <1>1, AttemptsAssigned DEF Upload
    <2>2. QED BY <1>0, <1>1, <2>1 DEF Upload, StartBackgroundJob, Goto
  <1>2. CASE UploadUnconfirmed(h)
    BY <1>0, <1>2, AttemptsAssigned DEF UploadUnconfirmed
  <1>3. ASSUME NEW d \in Docs, RetryLoad(h, d) PROVE AttemptsInv'
    BY <1>0, <1>3 DEF RetryLoad, Goto
  <1>4. ASSUME NEW d \in Docs, DeleteRow(h, d) PROVE AttemptsInv'
    BY <1>0, <1>4, AttemptsAssigned DEF DeleteRow, Goto
  <1>5. CASE RetryWrite(h)
    <2>1. job[h] \in Docs BY <1>0, <1>5 DEF RetryWrite
    <2>2. NewRow \in Rows BY RowTypes
    <2>3. Flush(row[job[h]], view[h], NewRow).attempts <= MaxAttempts
      <3>1. NewRow.attempts <= MaxAttempts
        BY <1>0, ConstantsAssumption, AttemptsAssigned
      <3>2. QED BY <1>0, <2>1, <2>2, <3>1, FlushAttempts
    <2>4. \A d \in Docs : row'[d].attempts <= MaxAttempts
      BY <1>5, <2>1, <2>3 DEF RetryWrite
    <2>5. QED BY <1>0, <1>5, <2>4, AttemptsAssigned
          DEF RetryWrite, DropSession, StartBackgroundJob, Goto
  <1>6. CASE UnlinkFile(h)
    BY <1>0, <1>6 DEF UnlinkFile, Goto
  <1>7. QED BY <1>0, <1>1, <1>2, <1>3, <1>4, <1>5, <1>6, JobStepAttempts
        DEF HandlerStep, UserStep

\* Crashes forget sessions and write nothing.
LEMMA FaultAttempts ==
    ASSUME TypeOK, AttemptsInv, (\E p \in Procs : Crash(p)) \/ ApiCrash
    PROVE  AttemptsInv'
  <1> USE DEF TypeOK, AttemptsInv
  <1>0. 0 <= MaxAttempts BY ConstantsAssumption
  <1>1. ASSUME NEW p \in Procs, Crash(p) PROVE AttemptsInv'
    <2>1. \A w \in Workers, d \in Docs : seen'[w][d].attempts <= MaxAttempts
      BY <1>0, <1>1, AttemptsAssigned DEF Crash, NothingSeen
    <2>2. QED BY <1>0, <1>1, <2>1, AttemptsAssigned
          DEF Crash, Raise, DropSession, Goto
  <1>2. CASE ApiCrash
    BY <1>0, <1>2, AttemptsAssigned DEF ApiCrash
  <1>3. QED BY <1>1, <1>2

\* The attempts a row stores never pass the configured limit, in any
\* deployment and whatever users and faults do.
THEOREM RetryLimitRespected == Spec => []AttemptsWithinLimit
  <1>1. Init => AttemptsInv
    BY ConstantsAssumption, AttemptsAssigned DEF Init, AttemptsInv, NothingSeen
  <1>2. TypeOK /\ AttemptsInv /\ [Next]_vars => AttemptsInv'
    <2> SUFFICES ASSUME TypeOK, AttemptsInv, [Next]_vars PROVE AttemptsInv'
      OBVIOUS
    <2>1. CASE UNCHANGED vars
      BY <2>1 DEF AttemptsInv, vars
    <2>2. ASSUME NEW c \in Clis, JobStep(c) PROVE AttemptsInv'
      BY <2>2, JobStepAttempts DEF Procs
    <2>3. ASSUME NEW c \in Clis, CliRun(c) PROVE AttemptsInv'
      BY <2>3 DEF AttemptsInv, TypeOK, CliRun, Goto, Procs
    <2>4. QED
      BY <2>1, <2>2, <2>3, WorkerStepAttempts, HandlerStepAttempts, FaultAttempts DEF Next
  <1>3. AttemptsInv => AttemptsWithinLimit
    BY DEF AttemptsInv, AttemptsWithinLimit
  <1>4. QED BY <1>1, <1>2, <1>3, TypeCorrect, PTL DEF Spec

-----------------------------------------------------------------------------
(* A processed document stays out of the queue.                            *)

\* A flush turns a processed row into a claimed one only if the session
\* assigned a status it had not loaded.
LEMMA FlushKeepsProcessed ==
    ASSUME NEW s \in Rows, NEW l \in Rows, NEW a \in Rows,
           s.status = "processed", a.status # "processing" \/ a.status = l.status
    PROVE  Flush(s, l, a).status # "processing"
  BY FlushType DEF Column

\* Only a claim assigns "processing", and only a stored result "processed".
LEMMA StatusAssigned ==
    /\ Absent.status = "absent" /\ NewRow.status = "pending"
    /\ \A r \in Rows :
           /\ Claimed(r).status = "processing" /\ Completed(r).status = "processed"
           /\ Failed(r, "content").status = "failed"
           /\ Failed(r, "missing").status = "failed"
           /\ Progressed(r, "extracting", 10).status = r.status
           /\ Progressed(r, "indexing", 60).status = r.status
           /\ Requeued(r).status # "processing"
           /\ Requeued(r).status = "processed" => r.status = "processed"
  BY DEF Absent, NewRow, Claimed, Completed, Failed, Progressed, Requeued, Rows

\* The action property, step by step: the claim is the one step that assigns
\* "processing", and its WHERE clause reads the stored row.  So no job that
\* loaded the document earlier, no UPDATE of a stale session and no requeue
\* makes a processed row say "processing".
THEOREM NoSilentReclaim == Spec => FinishedNotReclaimed
  <1>1. TypeOK /\ [Next]_vars =>
          \A d \in Docs : row[d].status = "processed" => row'[d].status # "processing"
    <2> SUFFICES ASSUME TypeOK, [Next]_vars, NEW d \in Docs, row[d].status = "processed"
                 PROVE  row'[d].status # "processing"
      OBVIOUS
    <2> USE DEF TypeOK
    <2>1. CASE UNCHANGED row
      BY <2>1
    <2>2. ASSUME NEW e \in Docs, NEW r \in Rows, r.status # "processing",
                 row' = [row EXCEPT ![e] = r]
          PROVE  row'[d].status # "processing"
      BY <2>2
    <2>3. ASSUME NEW e \in Docs, NEW l \in Rows, NEW a \in Rows,
                 a.status # "processing" \/ a.status = l.status,
                 row' = [row EXCEPT ![e] = Flush(@, l, a)]
          PROVE  row'[d].status # "processing"
      BY <2>3, FlushKeepsProcessed
    <2>4. ASSUME NEW p \in Procs, JobStep(p) PROVE row'[d].status # "processing"
      <3>0. view[p] \in Rows OBVIOUS
      <3>1. CASE LoadJob(p) \/ FinishBatch(p) \/ Extract(p)
        BY <2>1, <3>1 DEF LoadJob, FinishBatch, Extract
      <3>2. CASE Claim(p)
        <4>1. CASE ~Claimable(row[job[p]])
          BY <2>1, <3>2, <4>1, <2>4 DEF Claim, Claimable, Runnable, RunnableStatuses, Present
        <4>2. CASE Claimable(row[job[p]])
          BY <3>2, <4>2 DEF Claim, Claimable, Runnable, RunnableStatuses, Save
        <4>3. QED BY <4>1, <4>2
      <3>3. CASE ReportExtracting(p) \/ ReportIndexing(p)
        <4>1. job[p] \in Docs BY <3>3 DEF ReportExtracting, ReportIndexing, Running
        <4>2. PICK a \in {Progressed(view[p], "extracting", 10),
                          Progressed(view[p], "indexing", 60)} :
                \/ UNCHANGED row
                \/ row' = [row EXCEPT ![job[p]] = Flush(@, view[p], a)]
          BY <3>3 DEF ReportExtracting, ReportIndexing, Report, Save
        <4>3. a \in Rows BY <3>0, RowTypes
        <4>4. a.status = view[p].status BY <3>0, StatusAssigned
        <4>5. QED BY <2>1, <2>3, <3>0, <4>1, <4>2, <4>3, <4>4
      <3>4. CASE Store(p)
        <4>1. job[p] \in Docs BY <3>4 DEF Store, Running
        <4>2. Completed(view[p]) \in Rows BY <3>0, RowTypes
        <4>3. Completed(view[p]).status # "processing" BY <3>0, StatusAssigned
        <4>4. QED BY <2>1, <2>3, <3>0, <3>4, <4>1, <4>2, <4>3 DEF Store
      <3>5. CASE Fail(p)
        <4>1. job[p] \in Docs BY <3>5 DEF Fail, Running
        <4>2. Failed(view[p], "content") \in Rows BY <3>0, RowTypes
        <4>3. Failed(view[p], "content").status # "processing" BY <3>0, StatusAssigned
        <4>4. QED BY <2>1, <2>3, <3>0, <3>5, <4>1, <4>2, <4>3 DEF Fail
      <3>6. QED BY <2>4, <3>1, <3>2, <3>3, <3>4, <3>5 DEF JobStep
    <2>5. ASSUME NEW w \in Workers, WorkerStep(w) PROVE row'[d].status # "processing"
      <3>1. CASE WorkerStart(w)
        BY <3>1, StatusAssigned DEF WorkerStart
      <3>2. CASE ListPending(w) \/ RunBatch(w)
        BY <2>1, <3>2 DEF ListPending, RunBatch
      <3>3. CASE CheckSource(w)
        <4>1. PICK e \in Docs, l \in Rows :
                \/ UNCHANGED row
                \/ row' = [row EXCEPT ![e] = Flush(@, l, Failed(l, "missing"))]
          BY <3>3, CheckSourceCases DEF SourceChecked
        <4>2. Failed(l, "missing") \in Rows BY RowTypes
        <4>3. Failed(l, "missing").status # "processing" BY StatusAssigned
        <4>4. QED BY <2>1, <2>3, <4>1, <4>2, <4>3
      <3>4. QED BY <2>4, <2>5, <3>1, <3>2, <3>3 DEF WorkerStep, Procs
    <2>6. ASSUME NEW h \in Handlers, HandlerStep(h) \/ UserStep(h)
          PROVE  row'[d].status # "processing"
      <3>0. h \in Procs BY DEF Procs
      <3>1. CASE Upload(h) \/ UploadUnconfirmed(h)
        <4>1. created + 1 \in Docs
          BY <3>1, ConstantsAssumption DEF Upload, UploadUnconfirmed, Docs
        <4>2. row' = [row EXCEPT ![created + 1] = NewRow]
          BY <3>1 DEF Upload, UploadUnconfirmed
        <4>3. QED BY <2>2, <4>1, <4>2, RowTypes, StatusAssigned
      <3>2. ASSUME NEW e \in Docs, RetryLoad(h, e) \/ DeleteRow(h, e)
            PROVE  row'[d].status # "processing"
        <4>1. Absent.status # "processing" BY StatusAssigned
        <4>2. QED BY <2>1, <2>2, <3>2, <4>1, RowTypes DEF RetryLoad, DeleteRow
      <3>3. CASE RetryWrite(h)
        <4>1. job[h] \in Docs /\ view[h] \in Rows BY <3>0, <3>3 DEF RetryWrite
        <4>2. NewRow \in Rows BY RowTypes
        <4>3. NewRow.status # "processing" BY StatusAssigned
        <4>4. \/ UNCHANGED row
              \/ row' = [row EXCEPT ![job[h]] = Flush(@, view[h], NewRow)]
          BY <3>3 DEF RetryWrite
        <4>5. QED BY <2>1, <2>3, <4>1, <4>2, <4>3, <4>4
      <3>4. CASE UnlinkFile(h)
        BY <2>1, <3>4 DEF UnlinkFile
      <3>5. QED BY <2>4, <2>6, <3>0, <3>1, <3>2, <3>3, <3>4 DEF HandlerStep, UserStep
    <2>7. CASE \/ \E c \in Clis : CliRun(c)
               \/ \E p \in Procs : Crash(p)
               \/ ApiCrash
               \/ UNCHANGED vars
      BY <2>1, <2>7 DEF CliRun, Crash, ApiCrash, vars
    <2>8. QED BY <2>4, <2>5, <2>6, <2>7 DEF Next, Procs
  <1>2. QED BY <1>1, TypeCorrect, PTL DEF Spec, FinishedNotReclaimed

-----------------------------------------------------------------------------
(* One worker does all the processing.                                     *)

\* docker-compose.secure.yml: STUDYGRAPH_PROCESS_UPLOADS_IN_API is false, there
\* is one worker and nobody runs --process-pending.
DedicatedWorker ==
    /\ \A v, w \in Workers : v = w
    /\ Clis = {} /\ ProcessInApi = FALSE

\* The strengthening of SearchableIsProcessed.  Store writes "processed" only
\* if its session did not load "processed"; with one worker nobody else can
\* finish the document of a running job, so neither its row nor the session's
\* view of it says so.
DedicatedInv ==
    /\ SearchableIsProcessed
    /\ \A d \in Docs : d > created => row[d] = Absent
    /\ \A h \in Handlers : pc[h] \in {"idle", "retry", "unlink"}
    /\ \A w \in Workers : pc[w] \in {"claim"} \cup Running =>
           view[w].status # "processed" /\ row[job[w]].status # "processed"

\* What the operations do to the status.
LEMMA FlushStatus ==
    \A s, l \in Rows :
        /\ Flush(s, l, NewRow).status \in {s.status, "pending"}
        /\ Flush(s, l, Failed(l, "content")).status \in {s.status, "failed"}
        /\ Flush(s, l, Failed(l, "missing")).status \in {s.status, "failed"}
        /\ Flush(s, l, Progressed(l, "extracting", 10)).status = s.status
        /\ Flush(s, l, Progressed(l, "indexing", 60)).status = s.status
        /\ l.status # "processing" =>
               Flush(s, l, Claimed(l)).status = "processing"
        /\ l.status # "processed" =>
               Flush(s, l, Completed(l)).status = "processed"
  BY DEF Flush, Column, NewRow, Failed, Progressed, Claimed, Completed, Rows

\* A step of the worker's job.
LEMMA DedicatedJobStep ==
    ASSUME DedicatedWorker, TypeOK, DedicatedInv, NEW w \in Workers, JobStep(w)
    PROVE  DedicatedInv'
  <1> USE DEF TypeOK, DedicatedInv
  <1>0. /\ w \in Procs /\ w \notin Handlers
        /\ \A v \in Workers : v = w
        /\ \A h \in Handlers : h \in Procs /\ h # w
    BY ConstantsAssumption DEF DedicatedWorker, Procs
  <1>1. \A h \in Handlers : pc'[h] \in {"idle", "retry", "unlink"}
    <2>1. \E label \in PCs : Goto(w, label) \/ UNCHANGED pc
      BY DEF JobStep, LoadJob, FinishBatch, Claim, ReportExtracting, ReportIndexing, Report,
             Extract, Store, Fail, EndJob, EndOnError, Raise, DatabaseFails, Goto, PCs, Running
    <2>2. QED BY <1>0, <2>1 DEF Goto
  <1>2. ASSUME UNCHANGED <<created, row, chunked>>,
               pc'[w] \in {"claim"} \cup Running =>
                   view'[w].status # "processed" /\ row[job'[w]].status # "processed"
        PROVE  DedicatedInv'
    BY <1>0, <1>1, <1>2 DEF SearchableIsProcessed
  <1>a. ASSUME JobEnds(w) PROVE pc'[w] \notin {"claim"} \cup Running
    BY <1>0, <1>a DEF JobEnds, EndJob, EndOnError, Raise, Goto, Running
  <1>3. ASSUME UNCHANGED <<created, row, chunked>>, JobEnds(w)
        PROVE  DedicatedInv'
    BY <1>2, <1>3, <1>a
  <1>4. ASSUME NEW d \in Docs, NEW r \in Rows, Present(row[d]), row' = [row EXCEPT ![d] = r],
               chunked' \subseteq chunked \cup {d},
               d \in chunked' => r.status = "processed", UNCHANGED created,
               pc'[w] \in {"claim"} \cup Running =>
                   view'[w].status # "processed" /\ row'[job'[w]].status # "processed"
        PROVE  DedicatedInv'
    <2>1. SearchableIsProcessed'
      BY <1>4 DEF SearchableIsProcessed
    <2>2. \A e \in Docs : e > created' => row'[e] = Absent
      BY <1>4 DEF Present, Absent
    <2>3. QED BY <1>0, <1>1, <1>4, <2>1, <2>2
  <1>5. CASE LoadJob(w)
    BY <1>0, <1>2, <1>5 DEF LoadJob, Goto, Runnable, RunnableStatuses, Running
  <1>6. CASE FinishBatch(w)
    BY <1>0, <1>2, <1>6 DEF FinishBatch, Goto, Running
  <1>7. CASE Claim(w)
    <2>1. /\ job[w] \in Docs /\ view[w] \in Rows /\ row[job[w]] \in Rows
          /\ row[job[w]].status # "processed" /\ view[w].status # "processed"
      BY <1>0, <1>7 DEF Claim
    <2> DEFINE r == Flush(row[job[w]], view[w], Claimed(view[w]))
    <2>2. CASE JobEnds(w) /\ UNCHANGED row
      BY <1>3, <1>7, <2>2 DEF Claim
    <2>3. ASSUME Claimable(row[job[w]]), view[w].status # "processing",
                 row' = [row EXCEPT ![job[w]] = r],
                 (view'[w] = r /\ UNCHANGED job) \/ JobEnds(w)
          PROVE  DedicatedInv'
      <3>1. r \in Rows BY <2>1, FlushType, RowTypes
      <3>2. r.status = "processing" BY <2>1, <2>3, FlushStatus
      <3>3. Present(row[job[w]]) /\ job[w] \notin chunked
        BY <2>1, <2>3 DEF Claimable, Runnable, RunnableStatuses, Present, SearchableIsProcessed
      <3>4. UNCHANGED <<created, chunked>> BY <1>7 DEF Claim
      <3>5. row'[job[w]] = r BY <2>1, <2>3
      <3> HIDE DEF r
      <3>6. pc'[w] \in {"claim"} \cup Running =>
                view'[w].status # "processed" /\ row'[job'[w]].status # "processed"
        BY <1>a, <2>3, <3>2, <3>5
      <3>7. QED BY <1>4, <2>1, <2>3, <3>1, <3>2, <3>3, <3>4, <3>6
    <2>4. CASE Goto(w, "start") /\ UNCHANGED <<row, job, view>>
      BY <1>0, <1>2, <1>7, <2>1, <2>4 DEF Claim
    <2>5. CASE /\ Claimable(row[job[w]]) /\ view[w].status # "processing"
               /\ Save(w, job[w], Claimed(view[w])) /\ UNCHANGED job
      BY <1>0, <2>3, <2>5 DEF Save
    <2>6. QED BY <1>7, <2>2, <2>3, <2>4, <2>5 DEF Claim, JobEnds, DatabaseFails
  <1>8. CASE ReportExtracting(w) \/ ReportIndexing(w)
    <2>1. /\ job[w] \in Docs /\ view[w] \in Rows /\ row[job[w]] \in Rows
          /\ row[job[w]].status # "processed" /\ view[w].status # "processed"
          /\ UNCHANGED <<created, chunked>>
      BY <1>0, <1>8 DEF ReportExtracting, ReportIndexing, Running
    <2>2. CASE JobEnds(w) /\ UNCHANGED row
      BY <1>3, <2>1, <2>2
    <2>3. ASSUME NEW a \in {Progressed(view[w], "extracting", 10),
                            Progressed(view[w], "indexing", 60)},
                 Present(row[job[w]]),
                 row' = [row EXCEPT ![job[w]] = Flush(@, view[w], a)],
                 \/ view'[w] = Flush(row[job[w]], view[w], a) /\ UNCHANGED job
                 \/ JobEnds(w)
          PROVE  DedicatedInv'
      <3> DEFINE r == Flush(row[job[w]], view[w], a)
      <3>1. a \in Rows BY <2>1, RowTypes
      <3>2. r \in Rows BY <2>1, <3>1, FlushType
      <3>3. r.status = row[job[w]].status BY <2>1, FlushStatus
      <3>4. row' = [row EXCEPT ![job[w]] = r] /\ row'[job[w]] = r
        BY <2>1, <2>3
      <3>5. (view'[w] = r /\ UNCHANGED job) \/ JobEnds(w) BY <2>3
      <3>6. job[w] \notin chunked BY <2>1 DEF SearchableIsProcessed
      <3> HIDE DEF r
      <3>7. pc'[w] \in {"claim"} \cup Running =>
                view'[w].status # "processed" /\ row'[job'[w]].status # "processed"
        BY <1>a, <2>1, <3>3, <3>4, <3>5
      <3>8. QED BY <1>4, <2>1, <2>3, <3>2, <3>4, <3>6, <3>7
    <2>4. PICK a \in {Progressed(view[w], "extracting", 10),
                      Progressed(view[w], "indexing", 60)} :
            \/ JobEnds(w) /\ UNCHANGED row
            \/ /\ Present(row[job[w]])
               /\ \/ Save(w, job[w], a) /\ UNCHANGED job
                  \/ /\ row' = [row EXCEPT ![job[w]] = Flush(@, view[w], a)]
                     /\ JobEnds(w)
      BY <1>8 DEF ReportExtracting, ReportIndexing, Report, JobEnds, DatabaseFails
    <2>5. CASE Present(row[job[w]]) /\ Save(w, job[w], a) /\ UNCHANGED job
      BY <1>0, <2>3, <2>5 DEF Save
    <2>6. QED BY <2>2, <2>3, <2>4, <2>5
  <1>9. CASE Extract(w)
    <2>1. row[job[w]].status # "processed" /\ view[w].status # "processed"
      BY <1>0, <1>9 DEF Extract, Running
    <2>2. CASE Raise(w)
      BY <1>3, <1>9, <2>2 DEF Extract, JobEnds
    <2>3. CASE UNCHANGED <<job, view, queue>>
      BY <1>0, <1>2, <1>9, <2>1, <2>3 DEF Extract
    <2>4. QED BY <1>9, <2>2, <2>3 DEF Extract
  <1>10. CASE Store(w)
    <2>1. /\ job[w] \in Docs /\ view[w] \in Rows /\ row[job[w]] \in Rows
          /\ row[job[w]].status # "processed" /\ view[w].status # "processed"
          /\ UNCHANGED created
      BY <1>0, <1>10 DEF Store, Running
    <2>2. CASE JobEnds(w) /\ UNCHANGED <<row, chunked>>
      BY <1>3, <2>1, <2>2
    <2>3. CASE Goto(w, "fail") /\ UNCHANGED <<row, chunked, job, view>>
      BY <1>0, <1>2, <2>1, <2>3
    <2>4. CASE /\ Present(row[job[w]])
               /\ row' = [row EXCEPT ![job[w]] = Flush(@, view[w], Completed(view[w]))]
               /\ chunked' = chunked \cup {job[w]}
               /\ JobEnds(w)
      <3> DEFINE r == Flush(row[job[w]], view[w], Completed(view[w]))
      <3>1. r \in Rows BY <2>1, FlushType, RowTypes
      <3>2. r.status = "processed" BY <2>1, FlushStatus
      <3>3. row' = [row EXCEPT ![job[w]] = r] BY <2>4
      <3> HIDE DEF r
      <3>4. QED BY <1>4, <1>a, <2>1, <2>4, <3>1, <3>2, <3>3
    <2>5. QED BY <1>10, <2>2, <2>3, <2>4 DEF Store, JobEnds, DatabaseFails
  <1>11. CASE Fail(w)
    <2>1. /\ job[w] \in Docs /\ view[w] \in Rows /\ row[job[w]] \in Rows
          /\ UNCHANGED created
      BY <1>0, <1>11 DEF Fail, Running
    <2>2. CASE JobEnds(w) /\ UNCHANGED <<row, chunked>>
      BY <1>3, <2>1, <2>2
    <2>3. CASE /\ Present(row[job[w]])
               /\ row' = [row EXCEPT ![job[w]] =
                             Flush(@, view[w], Failed(view[w], "content"))]
               /\ chunked' = chunked \ {job[w]}
               /\ JobEnds(w)
      <3> DEFINE r == Flush(row[job[w]], view[w], Failed(view[w], "content"))
      <3>1. Failed(view[w], "content") \in Rows BY <2>1, RowTypes
      <3>2. r \in Rows BY <2>1, <3>1, FlushType
      <3>3. row' = [row EXCEPT ![job[w]] = r] BY <2>3
      <3> HIDE DEF r
      <3>4. QED BY <1>4, <1>a, <2>1, <2>3, <3>2, <3>3
    <2>4. QED BY <1>11, <2>2, <2>3 DEF Fail, ChunksWithout, JobEnds, DatabaseFails
  <1>12. QED BY <1>5, <1>6, <1>7, <1>8, <1>9, <1>10, <1>11 DEF JobStep

\* The worker's other steps.
LEMMA DedicatedWorkerStep ==
    ASSUME DedicatedWorker, TypeOK, DedicatedInv, NEW w \in Workers, WorkerStep(w)
    PROVE  DedicatedInv'
  <1> USE DEF TypeOK, DedicatedInv
  <1>0. /\ w \in Procs /\ w \notin Handlers
        /\ \A v \in Workers : v = w
        /\ \A h \in Handlers : h \in Procs /\ h # w
    BY ConstantsAssumption DEF DedicatedWorker, Procs
  <1>1. ASSUME NEW label \in PCs \ ({"claim"} \cup Running), Goto(w, label),
               UNCHANGED created,
               \A d \in chunked' : row'[d].status = "processed",
               \A d \in Docs : row[d] = Absent => row'[d] = Absent
        PROVE  DedicatedInv'
    BY <1>0, <1>1 DEF Goto, SearchableIsProcessed
  <1>2. CASE WorkerStart(w)
    <2>1. \A d \in chunked : row'[d].status = "processed"
      BY <1>2 DEF WorkerStart, Requeued, SearchableIsProcessed
    <2>2. \A d \in Docs : row[d] = Absent => row'[d] = Absent
      BY <1>2 DEF WorkerStart, Requeued, Absent
    <2>3. QED BY <1>1, <1>2, <2>1, <2>2 DEF WorkerStart, PCs, Checking, Running
  <1>3. CASE ListPending(w)
    <2>1. PICK label \in {"polling", "checking"} : Goto(w, label)
      BY <1>3 DEF ListPending
    <2>2. QED BY <1>1, <1>3, <2>1 DEF ListPending, PCs, Checking, Running, SearchableIsProcessed
  <1>4. CASE CheckSource(w)
    <2>1. PICK d \in Docs, l \in Rows : SourceChecked(w, d, l)
      BY <1>4, CheckSourceCases
    <2>2. PICK label \in Checking \cup {"idle"} : Goto(w, label)
      <3>1. pc[w] \in Checking BY <1>4, CheckSourceCases
      <3>2. CASE UNCHANGED pc BY <1>0, <3>1, <3>2 DEF Goto
      <3>3. QED BY <2>1, <3>2 DEF SourceChecked, Raise, Checking
    <2>3. \A e \in chunked' : row'[e].status = "processed"
      BY <2>1 DEF SourceChecked, SearchableIsProcessed
    <2>4. \A e \in Docs : row[e] = Absent => row'[e] = Absent
      BY <2>1 DEF SourceChecked, Present, Absent
    <2>5. QED BY <1>1, <1>4, <2>2, <2>3, <2>4, CheckSourceCases DEF PCs, Checking, Running
  <1>5. CASE RunBatch(w)
    BY <1>1, <1>5 DEF RunBatch, PCs, Checking, Running, SearchableIsProcessed
  <1>6. QED BY <1>2, <1>3, <1>4, <1>5, DedicatedJobStep DEF WorkerStep

\* The handlers' steps; they start no background job here.
LEMMA DedicatedHandlerStep ==
    ASSUME DedicatedWorker, TypeOK, DedicatedInv,
           NEW h \in Handlers, HandlerStep(h) \/ UserStep(h)
    PROVE  DedicatedInv'
  <1> USE DEF TypeOK, DedicatedInv
  <1>0. /\ h \in Procs /\ h \notin Workers /\ ~ProcessInApi
        /\ \A w \in Workers : w \in Procs /\ w # h
        /\ \A g \in Handlers : g \in Procs
    BY ConstantsAssumption DEF DedicatedWorker, Procs
  <1>1. ASSUME NEW label \in {"idle", "retry", "unlink"},
               Goto(h, label) \/ UNCHANGED pc,
               \A w \in Workers : job'[w] = job[w] /\ view'[w] = view[w],
               \A d \in chunked' : row'[d].status = "processed",
               \A d \in Docs : d > created' => row'[d] = Absent,
               \A d \in Docs : row[d].status # "processed" => row'[d].status # "processed"
        PROVE  DedicatedInv'
    BY <1>0, <1>1 DEF Goto, SearchableIsProcessed, Running
  <1>2. CASE Upload(h) \/ UploadUnconfirmed(h)
    <2>1. /\ created + 1 \in Docs /\ created' = created + 1 /\ created \in Nat
          /\ row' = [row EXCEPT ![created + 1] = NewRow]
          /\ UNCHANGED <<chunked, job, view>>
      BY <1>2, ConstantsAssumption DEF Upload, UploadUnconfirmed, Docs
    <2>2. created + 1 \notin chunked
      <3>1. row[created + 1] = Absent BY <2>1 DEF Docs
      <3>2. QED BY <3>1 DEF SearchableIsProcessed, Absent
    <2>3. \A d \in chunked' : row'[d].status = "processed"
      BY <2>1, <2>2 DEF SearchableIsProcessed
    <2>4. \A d \in Docs : d > created' => row'[d] = Absent
      BY <2>1 DEF Docs
    <2>5. \A d \in Docs : row[d].status # "processed" => row'[d].status # "processed"
      BY <2>1 DEF NewRow
    <2>6. Goto(h, "idle") \/ UNCHANGED pc
      BY <1>0, <1>2 DEF Upload, UploadUnconfirmed, StartBackgroundJob
    <2>7. QED BY <1>1, <2>1, <2>3, <2>4, <2>5, <2>6
  <1>3. ASSUME NEW d \in Docs, RetryLoad(h, d) PROVE DedicatedInv'
    BY <1>0, <1>1, <1>3 DEF RetryLoad, SearchableIsProcessed
  <1>4. ASSUME NEW d \in Docs, DeleteRow(h, d) PROVE DedicatedInv'
    <2>1. /\ row' = [row EXCEPT ![d] = Absent] /\ chunked' = chunked \ {d}
          /\ UNCHANGED <<created, view>> /\ Goto(h, "unlink")
          /\ job' = [job EXCEPT ![h] = d]
      BY <1>4 DEF DeleteRow, ChunksWithout
    <2>2. \A e \in Docs : row[e].status # "processed" => row'[e].status # "processed"
      BY <2>1 DEF Absent
    <2>3. QED BY <1>0, <1>1, <2>1, <2>2 DEF SearchableIsProcessed
  <1>5. CASE RetryWrite(h)
    <2>0. job[h] \in Docs /\ view[h] \in Rows BY <1>0, <1>5 DEF RetryWrite
    <2>1. row[job[h]] \in Rows BY <2>0
    <2>2. /\ UNCHANGED created
          /\ \A w \in Workers : job'[w] = job[w] /\ view'[w] = view[w]
          /\ Goto(h, "idle")
      BY <1>0, <1>5 DEF RetryWrite, DropSession, StartBackgroundJob
    <2>3. CASE UNCHANGED <<row, chunked>>
      BY <1>1, <2>2, <2>3 DEF SearchableIsProcessed
    <2>4. CASE /\ Present(row[job[h]])
               /\ row' = [row EXCEPT ![job[h]] = Flush(@, view[h], NewRow)]
               /\ chunked' = chunked \ {job[h]}
      <3> DEFINE r == Flush(row[job[h]], view[h], NewRow)
      <3>1. r.status \in {row[job[h]].status, "pending"}
        BY <2>0, <2>1, FlushStatus
      <3>2. row' = [row EXCEPT ![job[h]] = r] BY <2>4
      <3> HIDE DEF r
      <3>3. \A d \in chunked' : row'[d].status = "processed"
        BY <2>4, <3>2 DEF SearchableIsProcessed
      <3>4. \A d \in Docs : d > created' => row'[d] = Absent
        BY <2>2, <2>4, <3>2 DEF Present, Absent
      <3>5. \A d \in Docs : row[d].status # "processed" => row'[d].status # "processed"
        BY <2>0, <3>1, <3>2
      <3>6. QED BY <1>1, <2>2, <3>3, <3>4, <3>5
    <2>5. QED BY <1>5, <2>3, <2>4 DEF RetryWrite, ChunksWithout
  <1>6. CASE UnlinkFile(h)
    BY <1>0, <1>1, <1>6 DEF UnlinkFile, SearchableIsProcessed
  <1>7. CASE JobStep(h)
    BY <1>0, <1>7 DEF JobStep, LoadJob, FinishBatch, Claim, ReportExtracting,
       ReportIndexing, Extract, Store, Fail
  <1>8. QED BY <1>2, <1>3, <1>4, <1>5, <1>6, <1>7 DEF HandlerStep, UserStep

\* The strengthening is an invariant.
THEOREM DedicatedInvariant ==
    ASSUME DedicatedWorker
    PROVE  Spec => []DedicatedInv
  <1>1. Init => DedicatedInv
    BY ConstantsAssumption
    DEF Init, DedicatedInv, SearchableIsProcessed, Running, Procs
  <1>2. TypeOK /\ DedicatedInv /\ [Next]_vars => DedicatedInv'
    <2> SUFFICES ASSUME TypeOK, DedicatedInv, [Next]_vars PROVE DedicatedInv'
      OBVIOUS
    <2> USE DEF TypeOK, DedicatedInv
    <2>1. CASE UNCHANGED vars
      BY <2>1 DEF vars, SearchableIsProcessed
    <2>2. ASSUME NEW p \in Procs, Crash(p) PROVE DedicatedInv'
      BY <2>2 DEF Crash, Raise, Goto, DropSession, SearchableIsProcessed, Running, Procs
    <2>3. CASE ApiCrash
      BY <2>3, ConstantsAssumption DEF ApiCrash, SearchableIsProcessed, Procs, Running
    <2>4. QED BY <2>1, <2>2, <2>3, DedicatedWorkerStep, DedicatedHandlerStep
          DEF Next, DedicatedWorker
  <1>3. QED BY <1>1, <1>2, TypeCorrect, PTL DEF Spec

\* Where one worker does all the processing, whatever can be found by a search
\* belongs to a processed document: for any number of documents and requests,
\* any crashes, and retries and deletions at any moment.
THEOREM DedicatedSearchable ==
    ASSUME DedicatedWorker
    PROVE  Spec => []SearchableIsProcessed
  <1>1. DedicatedInv => SearchableIsProcessed
    BY DEF DedicatedInv
  <1>2. QED BY <1>1, DedicatedInvariant, PTL

-----------------------------------------------------------------------------
(* The dedicated worker implements DocumentLifecycle.                      *)

Working == {job[w] : w \in {v \in Workers : pc[v] \in Running}}

\* What ties the rows a worker has loaded to the stored ones: a document that
\* became claimed or processed after it was loaded would be taken or failed
\* out of order.
LoadedInv ==
    \A w \in Workers :
        /\ pc[w] = "claim" /\ row[job[w]].status = "processing"
               => view[w].status = "processing"
        /\ pc[w] \in Checking =>
               \A d \in Docs : Present(seen[w][d]) => row[d].status # "processed"

-----------------------------------------------------------------------------
(* The mapped variables.                                                   *)

\* A row that is written shows its new status, the others stay.
LEMMA StatusWritten ==
    ASSUME TypeOK, NEW d \in Docs, NEW r \in Rows, row' = [row EXCEPT ![d] = r],
           r.status # "absent", d <= created',
           \A e \in Docs : e # d => (e <= created <=> e <= created')
    PROVE  LifecycleStatus' = [LifecycleStatus EXCEPT ![d] = r.status]
  BY DEF LifecycleStatus, TypeOK, Present

\* Where rows stay, statuses do.
LEMMA StatusKept ==
    ASSUME UNCHANGED <<row, created>>
    PROVE  LifecycleStatus' = LifecycleStatus
  BY DEF LifecycleStatus

\* The one worker works on its job.
LEMMA WorkingIs ==
    ASSUME DedicatedWorker, NEW w \in Workers
    PROVE  /\ pc[w] \in Running => Working = {job[w]}
           /\ pc[w] \notin Running => Working = {}
           /\ pc'[w] \in Running => Working' = {job'[w]}
           /\ pc'[w] \notin Running => Working' = {}
  BY DEF DedicatedWorker, Working

-----------------------------------------------------------------------------
(* The steps of the worker.                                                *)

\* Every step of a job is a step of the abstract worker or none.
LEMMA JobStepMaps ==
    ASSUME DedicatedWorker, TypeOK, DedicatedInv, LoadedInv,
           NEW w \in Workers, JobStep(w)
    PROVE  [Lifecycle!Next]_(Lifecycle!vars)
  <1> USE DEF TypeOK, DedicatedInv
  <1>0. w \in Procs /\ UNCHANGED created
    BY DEF Procs, JobStep, LoadJob, FinishBatch, Claim, ReportExtracting, Extract,
           ReportIndexing, Store, Fail
  <1>1. ASSUME pc[w] \in {"claim"} \cup Running
        PROVE  /\ job[w] \in Docs /\ view[w] \in Rows /\ row[job[w]] \in Rows
               /\ row[job[w]].status # "processed" /\ view[w].status # "processed"
               /\ job[w] \notin chunked
               /\ job[w] <= created \/ ~Present(row[job[w]])
               /\ Present(row[job[w]]) =>
                      /\ LifecycleStatus[job[w]] = row[job[w]].status
                      /\ row[job[w]].status \in {"pending", "processing", "failed"}
    <2>1. job[w] \in Docs /\ row[job[w]] \in Rows /\ job[w] \notin chunked
      BY <1>0, <1>1 DEF SearchableIsProcessed
    <2>2. job[w] <= created \/ ~Present(row[job[w]])
      BY <2>1 DEF Docs, Present, Absent
    <2>3. QED BY <1>0, <1>1, <2>1, <2>2
          DEF LifecycleStatus, Present, Rows, Statuses, RunnableStatuses
  <1>2. ASSUME UNCHANGED <<LifecycleStatus, chunked>>, pc'[w] \notin Running
        PROVE  [Lifecycle!Next]_(Lifecycle!vars)
    <2>1. Working' = {}
      BY <1>2, WorkingIs
    <2>2. Lifecycle!Abandon
      BY <1>2, <2>1 DEF Lifecycle!Abandon, Working
    <2>3. QED BY <2>2 DEF Lifecycle!Next
  <1>3. ASSUME UNCHANGED <<LifecycleStatus, chunked>>, pc[w] \in Running,
               pc'[w] \in Running, job'[w] = job[w]
        PROVE  [Lifecycle!Next]_(Lifecycle!vars)
    <2>1. Working' = Working
      BY <1>3, WorkingIs
    <2>2. QED BY <1>3, <2>1 DEF Lifecycle!vars, Working
  <1>a. ASSUME JobEnds(w) PROVE pc'[w] \notin Running
    BY <1>0, <1>a DEF JobEnds, EndJob, EndOnError, Raise, Goto, Running
  <1>4. ASSUME JobEnds(w), UNCHANGED <<row, chunked>>
        PROVE  [Lifecycle!Next]_(Lifecycle!vars)
    BY <1>0, <1>2, <1>4, <1>a, StatusKept
  <1>5. CASE LoadJob(w)
    BY <1>0, <1>2, <1>5, StatusKept DEF LoadJob, Goto, Running
  <1>6. CASE FinishBatch(w)
    BY <1>0, <1>2, <1>6, StatusKept DEF FinishBatch, Goto, Running
  <1>7. CASE Claim(w)
    <2>0. pc[w] = "claim" /\ UNCHANGED chunked
      BY <1>7 DEF Claim
    <2>1. CASE JobEnds(w) /\ UNCHANGED row
      BY <1>4, <2>0, <2>1
    <2>2. ASSUME Claimable(row[job[w]]), view[w].status # "processing",
                 row' = [row EXCEPT ![job[w]] = Flush(@, view[w], Claimed(view[w]))],
                 (Goto(w, "start") /\ UNCHANGED job) \/ JobEnds(w)
          PROVE  [Lifecycle!Next]_(Lifecycle!vars)
      <3>1. Flush(row[job[w]], view[w], Claimed(view[w])) \in Rows
        BY <1>1, <2>0, FlushType, RowTypes
      <3>2. PICK d \in Docs, r \in Rows :
                d = job[w] /\ r = Flush(row[job[w]], view[w], Claimed(view[w]))
        BY <1>1, <2>0, <3>1
      <3>3. r.status = "processing"
        BY <1>1, <2>0, <2>2, <3>2, FlushStatus
      <3>4. row[d].status \in {"pending", "failed"} /\ Present(row[d])
        BY <1>1, <2>0, <2>2, <3>2 DEF LoadedInv, Claimable, Runnable, RunnableStatuses, Present
      <3>5. row' = [row EXCEPT ![d] = r]
        BY <2>2, <3>2
      <3>6. LifecycleStatus' = [LifecycleStatus EXCEPT ![d] = r.status]
        BY <1>0, <1>1, <2>0, <3>2, <3>3, <3>4, <3>5, StatusWritten
      <3>7. Working = {} /\ Working' \in {{d}, {}}
        <4>1. pc[w] \notin Running BY <2>0 DEF Running
        <4>2. CASE Goto(w, "start") /\ UNCHANGED job
          BY <1>0, <3>2, <4>1, <4>2, WorkingIs DEF Goto, Running
        <4>3. QED BY <1>a, <2>2, <4>1, <4>2, WorkingIs
      <3>8. LifecycleStatus[d] \in {"pending", "failed"}
        BY <1>1, <2>0, <3>2, <3>4
      <3>9. Lifecycle!Take(d)
        BY <2>0, <3>3, <3>6, <3>7, <3>8 DEF Lifecycle!Take, Working
      <3>10. QED BY <3>9 DEF Lifecycle!Next
    <2>3. CASE Present(row[job[w]]) /\ ~Claimable(row[job[w]])
      BY <1>1, <2>0, <2>3 DEF Claimable, Runnable, RunnableStatuses
    <2>4. QED BY <1>7, <2>1, <2>2, <2>3 DEF Claim, Save, JobEnds, DatabaseFails
  <1>8. CASE ReportExtracting(w) \/ ReportIndexing(w)
    <2>0. pc[w] \in Running /\ UNCHANGED chunked
      BY <1>8 DEF ReportExtracting, ReportIndexing, Running
    <2>1. CASE JobEnds(w) /\ UNCHANGED row
      BY <1>4, <2>0, <2>1
    <2>2. ASSUME NEW label \in Running, NEW a \in Rows, Present(row[job[w]]),
                 row' = [row EXCEPT ![job[w]] = Flush(@, view[w], a)],
                 (Goto(w, label) /\ UNCHANGED job) \/ JobEnds(w),
                 Flush(row[job[w]], view[w], a).status = row[job[w]].status
          PROVE  [Lifecycle!Next]_(Lifecycle!vars)
      <3>1. Flush(row[job[w]], view[w], a) \in Rows
        BY <1>1, <2>0, FlushType
      <3>2. PICK d \in Docs, r \in Rows :
                d = job[w] /\ r = Flush(row[job[w]], view[w], a)
        BY <1>1, <2>0, <3>1
      <3>3. row' = [row EXCEPT ![d] = r] /\ r.status = row[d].status
        BY <2>2, <3>2
      <3>4. LifecycleStatus' = [LifecycleStatus EXCEPT ![d] = r.status]
        BY <1>0, <1>1, <2>0, <2>2, <3>2, <3>3, StatusWritten DEF Present
      <3>5. LifecycleStatus' = LifecycleStatus
        BY <1>1, <2>0, <2>2, <3>2, <3>3, <3>4 DEF LifecycleStatus
      <3>6. CASE Goto(w, label) /\ UNCHANGED job
        BY <1>0, <1>3, <2>0, <3>5, <3>6 DEF Goto
      <3>7. CASE JobEnds(w)
        BY <1>2, <1>a, <2>0, <3>5, <3>7
      <3>8. QED BY <2>2, <3>6, <3>7
    <2>3. /\ Progressed(view[w], "extracting", 10) \in Rows
          /\ Progressed(view[w], "indexing", 60) \in Rows
          /\ Flush(row[job[w]], view[w], Progressed(view[w], "extracting", 10)).status
                = row[job[w]].status
          /\ Flush(row[job[w]], view[w], Progressed(view[w], "indexing", 60)).status
                = row[job[w]].status
      <3>1. PICK s \in Rows, l \in Rows : s = row[job[w]] /\ l = view[w]
        BY <1>1, <2>0
      <3>2. /\ Progressed(l, "extracting", 10) \in Rows
            /\ Progressed(l, "indexing", 60) \in Rows
        BY RowTypes
      <3>3. /\ Flush(s, l, Progressed(l, "extracting", 10)).status = s.status
            /\ Flush(s, l, Progressed(l, "indexing", 60)).status = s.status
        BY FlushStatus
      <3>4. QED BY <3>1, <3>2, <3>3
    <2>4. QED BY <1>8, <2>1, <2>2, <2>3
          DEF ReportExtracting, ReportIndexing, Report, Save, JobEnds, DatabaseFails, Running
  <1>9. CASE Extract(w)
    <2>1. CASE Raise(w)
      BY <1>4, <1>9, <2>1 DEF Extract, JobEnds
    <2>2. CASE (Goto(w, "fail") \/ Goto(w, "index")) /\ UNCHANGED <<job, view, queue>>
      BY <1>0, <1>3, <1>9, <2>2, StatusKept DEF Extract, Goto, Running
    <2>3. QED BY <1>9, <2>1, <2>2 DEF Extract
  <1>10. CASE Store(w)
    <2>0. pc[w] \in Running
      BY <1>10 DEF Store, Running
    <2>1. CASE JobEnds(w) /\ UNCHANGED <<row, chunked>>
      BY <1>4, <2>1
    <2>2. CASE Goto(w, "fail") /\ UNCHANGED <<row, chunked, job, view, queue>>
      BY <1>0, <1>3, <2>0, <2>2, StatusKept DEF Goto, Running
    <2>3. CASE /\ Present(row[job[w]])
               /\ row' = [row EXCEPT ![job[w]] = Flush(@, view[w], Completed(view[w]))]
               /\ chunked' = chunked \cup {job[w]}
               /\ JobEnds(w)
      <3>1. Flush(row[job[w]], view[w], Completed(view[w])) \in Rows
        BY <1>1, <2>0, FlushType, RowTypes
      <3>2. PICK d \in Docs, r \in Rows :
                d = job[w] /\ r = Flush(row[job[w]], view[w], Completed(view[w]))
        BY <1>1, <2>0, <3>1
      <3>3. r.status = "processed"
        BY <1>1, <2>0, <3>2, FlushStatus
      <3>4. row' = [row EXCEPT ![d] = r] /\ chunked' = chunked \cup {d}
        BY <2>3, <3>2
      <3>5. LifecycleStatus' = [LifecycleStatus EXCEPT ![d] = r.status]
        BY <1>0, <1>1, <2>0, <2>3, <3>2, <3>3, <3>4, StatusWritten
      <3>6. Working = {d} /\ Working' = {}
        BY <1>a, <2>0, <2>3, <3>2, WorkingIs
      <3>7. LifecycleStatus[d] \in {"pending", "processing", "failed"}
        BY <1>1, <2>0, <2>3, <3>2
      <3>8. Lifecycle!Finish(d)
        BY <3>3, <3>4, <3>5, <3>6, <3>7 DEF Lifecycle!Finish, Working
      <3>9. QED BY <3>8 DEF Lifecycle!Next
    <2>4. QED BY <1>10, <2>1, <2>2, <2>3 DEF Store, JobEnds, DatabaseFails
  <1>11. CASE Fail(w)
    <2>0. pc[w] \in Running
      BY <1>11 DEF Fail, Running
    <2>1. CASE JobEnds(w) /\ UNCHANGED <<row, chunked>>
      BY <1>4, <2>1
    <2>2. CASE /\ Present(row[job[w]])
               /\ row' = [row EXCEPT ![job[w]] =
                             Flush(@, view[w], Failed(view[w], "content"))]
               /\ chunked' = chunked \ {job[w]}
               /\ JobEnds(w)
      <3>1. Flush(row[job[w]], view[w], Failed(view[w], "content")) \in Rows
        BY <1>1, <2>0, FlushType, RowTypes
      <3>2. PICK d \in Docs, r \in Rows :
                d = job[w] /\ r = Flush(row[job[w]], view[w], Failed(view[w], "content"))
        BY <1>1, <2>0, <3>1
      <3>3. r.status \in {row[d].status, "failed"}
        BY <1>1, <2>0, <3>2, FlushStatus
      <3>4. row' = [row EXCEPT ![d] = r] BY <2>2, <3>2
      <3>5. LifecycleStatus' = [LifecycleStatus EXCEPT ![d] = r.status]
        BY <1>0, <1>1, <2>0, <2>2, <3>2, <3>3, <3>4, StatusWritten DEF Present
      <3>6. Working = {d} /\ Working' = {} /\ chunked' = chunked
        BY <1>1, <1>a, <2>0, <2>2, <3>2, WorkingIs
      <3>7. LifecycleStatus[d] \in {"pending", "processing", "failed"}
        BY <1>1, <2>0, <2>2, <3>2
      <3>8. CASE r.status = "failed"
        <4>1. Lifecycle!GiveUp(d)
          BY <3>5, <3>6, <3>7, <3>8 DEF Lifecycle!GiveUp, Working
        <4>2. QED BY <4>1 DEF Lifecycle!Next
      <3>9. CASE r.status = row[d].status
        <4>1. LifecycleStatus' = LifecycleStatus
          BY <1>1, <2>0, <2>2, <3>2, <3>5, <3>9 DEF LifecycleStatus
        <4>2. Lifecycle!Abandon
          BY <3>6, <4>1 DEF Lifecycle!Abandon, Working
        <4>3. QED BY <4>2 DEF Lifecycle!Next
      <3>10. QED BY <3>3, <3>8, <3>9
    <2>3. QED BY <1>11, <2>1, <2>2 DEF Fail, ChunksWithout, JobEnds, DatabaseFails
  <1>12. QED BY <1>5, <1>6, <1>7, <1>8, <1>9, <1>10, <1>11 DEF JobStep

\* The worker's other steps: it requeues when it starts, and gives up documents
\* without a file before it runs any.
LEMMA WorkerStepMaps ==
    ASSUME DedicatedWorker, TypeOK, DedicatedInv, LoadedInv,
           NEW w \in Workers, WorkerStep(w)
    PROVE  [Lifecycle!Next]_(Lifecycle!vars)
  <1> USE DEF TypeOK, DedicatedInv
  <1>0. w \in Procs BY DEF Procs
  <1>1. ASSUME UNCHANGED <<row, created, chunked>>, pc[w] \notin Running, pc'[w] \notin Running
        PROVE  [Lifecycle!Next]_(Lifecycle!vars)
    <2>1. UNCHANGED <<LifecycleStatus, chunked, Working>>
      BY <1>1, StatusKept, WorkingIs
    <2>2. QED BY <2>1 DEF Lifecycle!vars, Working
  <1>2. CASE WorkerStart(w)
    <2>1. Working = {} /\ Working' = {} /\ UNCHANGED <<chunked, created>>
      BY <1>0, <1>2, WorkingIs DEF WorkerStart, Goto, Running
    <2>2. LifecycleStatus' = [d \in Docs |-> IF LifecycleStatus[d] = "processing"
                                             THEN "pending" ELSE LifecycleStatus[d]]
      <3>1. ASSUME NEW d \in Docs
            PROVE  LifecycleStatus'[d] = IF LifecycleStatus[d] = "processing"
                                         THEN "pending" ELSE LifecycleStatus[d]
        <4>1. row'[d] = Requeued(row[d]) BY <1>2 DEF WorkerStart
        <4>2. QED BY <2>1, <4>1 DEF LifecycleStatus, Requeued, NewRow, Present
      <3>2. QED BY <3>1 DEF LifecycleStatus
    <2>3. Lifecycle!Requeue
      BY <2>1, <2>2 DEF Lifecycle!Requeue, Working
    <2>4. QED BY <2>3 DEF Lifecycle!Next
  <1>3. CASE ListPending(w)
    BY <1>0, <1>1, <1>3 DEF ListPending, Goto, Running
  <1>4. CASE CheckSource(w)
    <2>1. PICK d \in Docs, l \in Rows : SourceChecked(w, d, l) /\ d \in Unchecked(w)
      BY <1>4, CheckSourceCases
    <2>2. pc[w] \in Checking /\ UNCHANGED created
      BY <1>4, CheckSourceCases
    <2>3. pc[w] \notin Running /\ pc'[w] \notin Running
      BY <1>0, <2>1, <2>2 DEF SourceChecked, Raise, Goto, Checking, Running
    <2>4. CASE UNCHANGED <<row, chunked>>
      BY <1>1, <2>2, <2>3, <2>4
    <2>5. CASE /\ Present(row[d])
               /\ row' = [row EXCEPT ![d] = Flush(@, l, Failed(l, "missing"))]
               /\ chunked' = chunked \ {d}
      <3>1. row[d] \in Rows OBVIOUS
      <3>2. Failed(l, "missing") \in Rows BY RowTypes
      <3>3. PICK r \in Rows : r = Flush(row[d], l, Failed(l, "missing"))
        BY <3>1, <3>2, FlushType
      <3>4. r.status \in {row[d].status, "failed"}
        BY <3>1, <3>3, FlushStatus
      <3>5. row' = [row EXCEPT ![d] = r] BY <2>5, <3>3
      <3>6. row[d].status # "processed"
        BY <2>1, <2>2 DEF LoadedInv, Unchecked
      <3>7. row[d].status \in {"pending", "processing", "failed"}
        BY <2>5, <3>1, <3>6 DEF Present, Rows, Statuses, RunnableStatuses
      <3>8. d <= created
        BY <2>5 DEF Present, Absent, Docs
      <3>9. LifecycleStatus' = [LifecycleStatus EXCEPT ![d] = r.status]
        BY <2>2, <3>4, <3>5, <3>7, <3>8, StatusWritten
      <3>10. LifecycleStatus[d] = row[d].status
        BY <2>5 DEF LifecycleStatus
      <3>11. Working = {} /\ Working' = {} /\ chunked' = chunked
        BY <2>3, <2>5, <3>6, WorkingIs DEF SearchableIsProcessed
      <3>12. CASE r.status = "failed"
        <4>1. Lifecycle!GiveUp(d)
          BY <3>7, <3>9, <3>10, <3>11, <3>12 DEF Lifecycle!GiveUp, Working
        <4>2. QED BY <4>1 DEF Lifecycle!Next
      <3>13. CASE r.status = row[d].status
        <4>1. LifecycleStatus = [e \in Docs |-> LifecycleStatus[e]]
          BY DEF LifecycleStatus
        <4>2. LifecycleStatus' = LifecycleStatus
          BY <3>9, <3>10, <3>13, <4>1
        <4>3. QED BY <3>11, <4>2 DEF Lifecycle!vars, Working
      <3>14. QED BY <3>4, <3>12, <3>13
    <2>6. QED BY <2>1, <2>4, <2>5 DEF SourceChecked
  <1>5. CASE RunBatch(w)
    BY <1>0, <1>1, <1>5 DEF RunBatch, Goto, Checking, Running
  <1>6. QED BY <1>2, <1>3, <1>4, <1>5, JobStepMaps DEF WorkerStep

-----------------------------------------------------------------------------
(* The steps of the handlers, and crashes.                                 *)

\* Uploads, retries and deletions are those of the abstract users.
LEMMA HandlerStepMaps ==
    ASSUME DedicatedWorker, TypeOK, DedicatedInv,
           NEW h \in Handlers, HandlerStep(h) \/ UserStep(h)
    PROVE  [Lifecycle!Next]_(Lifecycle!vars)
  <1> USE DEF TypeOK, DedicatedInv
  <1>0. /\ h \in Procs /\ ~ProcessInApi
        /\ \A w \in Workers : w \in Procs /\ w # h
    BY ConstantsAssumption DEF Procs, DedicatedWorker
  <1>1. ASSUME NEW label, Goto(h, label) \/ UNCHANGED pc,
               \A w \in Workers : job'[w] = job[w]
        PROVE  Working' = Working
    <2>1. \A w \in Workers : pc'[w] = pc[w] BY <1>0, <1>1 DEF Goto
    <2>2. QED BY <1>1, <2>1 DEF Working
  <1>2. ASSUME UNCHANGED <<row, created, chunked>>, Working' = Working
        PROVE  [Lifecycle!Next]_(Lifecycle!vars)
    BY <1>2, StatusKept DEF Lifecycle!vars, Working
  <1>3. CASE Upload(h) \/ UploadUnconfirmed(h)
    <2>1. PICK d \in Docs : d = created + 1
      BY <1>3, ConstantsAssumption DEF Upload, UploadUnconfirmed, Docs
    <2>2. /\ row' = [row EXCEPT ![d] = NewRow] /\ created' = d
          /\ UNCHANGED <<chunked, job>>
          /\ Goto(h, "idle") \/ UNCHANGED pc
      BY <1>0, <1>3, <2>1 DEF Upload, UploadUnconfirmed, StartBackgroundJob
    <2>3. row[d] = Absent /\ created \in Nat /\ d > created
      BY <2>1 DEF Docs
    <2>4. /\ d <= created'
          /\ \A e \in Docs : e # d => (e <= created <=> e <= created')
      BY <2>1, <2>2, <2>3 DEF Docs
    <2>5. LifecycleStatus' = [LifecycleStatus EXCEPT ![d] = "pending"]
      BY <2>2, <2>4, RowTypes, StatusWritten DEF NewRow
    <2>6. LifecycleStatus[d] = "none"
      BY <2>1, <2>3 DEF LifecycleStatus, Present, Absent
    <2>7. Working' = Working BY <1>1, <2>2
    <2>8. Lifecycle!Submit(d)
      BY <2>2, <2>5, <2>6, <2>7 DEF Lifecycle!Submit, Working
    <2>9. QED BY <2>8 DEF Lifecycle!Next
  <1>4. ASSUME NEW d \in Docs, RetryLoad(h, d) PROVE [Lifecycle!Next]_(Lifecycle!vars)
    BY <1>0, <1>1, <1>2, <1>4 DEF RetryLoad
  <1>5. ASSUME NEW d \in Docs, DeleteRow(h, d) PROVE [Lifecycle!Next]_(Lifecycle!vars)
    <2>1. /\ row' = [row EXCEPT ![d] = Absent] /\ chunked' = chunked \ {d}
          /\ UNCHANGED created /\ Goto(h, "unlink")
          /\ job' = [job EXCEPT ![h] = d] /\ Present(row[d])
      BY <1>5 DEF DeleteRow, ChunksWithout
    <2>2. Working' = Working BY <1>0, <1>1, <2>1
    <2>3. d <= created BY <2>1 DEF Present, Absent, Docs
    <2>4. LifecycleStatus' = [LifecycleStatus EXCEPT ![d] = "deleted"]
      BY <2>1, <2>3 DEF LifecycleStatus, Present, Absent
    <2>5. LifecycleStatus[d] \notin {"none", "deleted"}
      BY <2>1 DEF LifecycleStatus, Rows, Statuses, RunnableStatuses
    <2>6. Lifecycle!Delete(d)
      BY <2>1, <2>2, <2>4, <2>5 DEF Lifecycle!Delete, Lifecycle!Stored, Working
    <2>7. QED BY <2>6 DEF Lifecycle!Next
  <1>6. CASE RetryWrite(h)
    <2>0. job[h] \in Docs /\ view[h] \in Rows BY <1>0, <1>6 DEF RetryWrite
    <2>1. PICK d \in Docs : d = job[h] BY <2>0
    <2>2. /\ UNCHANGED created /\ Goto(h, "idle")
          /\ \A w \in Workers : job'[w] = job[w]
      BY <1>0, <1>6 DEF RetryWrite, DropSession, StartBackgroundJob
    <2>3. Working' = Working BY <1>1, <2>2
    <2>4. CASE UNCHANGED <<row, chunked>>
      BY <1>2, <2>2, <2>3, <2>4
    <2>5. CASE /\ Present(row[d])
               /\ row' = [row EXCEPT ![d] = Flush(@, view[h], NewRow)]
               /\ chunked' = chunked \ {d}
      <3>1. row[d] \in Rows /\ NewRow \in Rows BY RowTypes
      <3>2. PICK r \in Rows : r = Flush(row[d], view[h], NewRow)
        BY <2>0, <3>1, FlushType
      <3>3. r.status \in {row[d].status, "pending"}
        BY <2>0, <3>1, <3>2, FlushStatus
      <3>4. row' = [row EXCEPT ![d] = r] BY <2>5, <3>2
      <3>5. d <= created BY <2>5 DEF Present, Absent, Docs
      <3>6. r.status # "absent" BY <2>5, <3>3 DEF Present
      <3>7. LifecycleStatus' = [LifecycleStatus EXCEPT ![d] = r.status]
        BY <2>2, <3>4, <3>5, <3>6, StatusWritten
      <3>8. LifecycleStatus[d] = row[d].status /\ row[d].status \notin {"none", "deleted"}
        BY <2>5, <3>1 DEF LifecycleStatus, Rows, Statuses, RunnableStatuses
      <3>9. Lifecycle!Retry(d)
        BY <2>3, <2>5, <3>3, <3>7, <3>8 DEF Lifecycle!Retry, Lifecycle!Stored, Working
      <3>10. QED BY <3>9 DEF Lifecycle!Next
    <2>6. QED BY <1>6, <2>1, <2>4, <2>5 DEF RetryWrite, ChunksWithout
  <1>7. CASE UnlinkFile(h)
    BY <1>0, <1>1, <1>2, <1>7 DEF UnlinkFile
  <1>8. CASE JobStep(h)
    BY <1>0, <1>8 DEF JobStep, LoadJob, FinishBatch, Claim, ReportExtracting,
       ReportIndexing, Extract, Store, Fail
  <1>9. QED BY <1>3, <1>4, <1>5, <1>6, <1>7, <1>8 DEF HandlerStep, UserStep

-----------------------------------------------------------------------------
(* LoadedInv is an invariant.                                              *)

\* A step of the worker: what it loads it loads from the table.
LEMMA LoadedWorkerStep ==
    ASSUME DedicatedWorker, TypeOK, DedicatedInv, LoadedInv,
           NEW w \in Workers, WorkerStep(w)
    PROVE  LoadedInv'
  <1> USE DEF TypeOK, DedicatedInv, LoadedInv
  <1>0. w \in Procs /\ \A v \in Workers : v = w
    BY DEF Procs, DedicatedWorker
  <1>1. ASSUME pc'[w] \notin {"claim"} \cup Checking PROVE LoadedInv'
    BY <1>0, <1>1
  <1>2. CASE WorkerStart(w) \/ RunBatch(w)
    BY <1>0, <1>1, <1>2 DEF WorkerStart, RunBatch, Goto, Checking
  <1>3. CASE ListPending(w)
    <2>1. \A d \in Docs : Present(seen'[w][d]) => row'[d].status # "processed"
      BY <1>3 DEF ListPending, Listed, Runnable, RunnableStatuses, Present, Absent
    <2>2. pc'[w] # "claim"
      BY <1>0, <1>3 DEF ListPending, Goto
    <2>3. QED BY <1>0, <2>1, <2>2
  <1>4. CASE CheckSource(w)
    <2>1. PICK d \in Docs, l \in Rows : SourceChecked(w, d, l)
      BY <1>4, CheckSourceCases
    <2>2. CASE Raise(w)
      BY <1>0, <1>1, <2>2 DEF Raise, Goto, Checking
    <2>3. CASE /\ UNCHANGED pc \/ Goto(w, "rereading")
               /\ seen' = [seen EXCEPT ![w] = [@ EXCEPT ![d] = Absent]]
               /\ \A e \in Docs : e # d => row'[e] = row[e]
      <3>1. pc[w] \in Checking /\ pc'[w] # "claim"
        BY <1>0, <1>4, <2>3, CheckSourceCases DEF Goto, Checking
      <3>2. QED BY <1>0, <2>3, <3>1 DEF Present, Absent
    <2>4. QED BY <2>1, <2>2, <2>3 DEF SourceChecked
  <1>5. CASE LoadJob(w)
    BY <1>0, <1>5 DEF LoadJob, Goto, Checking
  <1>6. CASE FinishBatch(w)
    BY <1>0, <1>1, <1>6 DEF FinishBatch, Goto, Checking
  <1>7. CASE \/ Claim(w) \/ ReportExtracting(w) \/ Extract(w) \/ ReportIndexing(w)
             \/ Store(w) \/ Fail(w)
    <2>1. PICK label \in {"idle", "dispatch", "start", "extract", "index", "store", "fail"} :
                Goto(w, label)
      BY <1>7 DEF Claim, ReportExtracting, Report, Extract, ReportIndexing, Store, Fail,
                  EndJob, EndOnError, Raise, DatabaseFails
    <2>2. QED BY <1>0, <1>1, <2>1 DEF Goto, Checking
  <1>8. QED BY <1>2, <1>3, <1>4, <1>5, <1>6, <1>7 DEF WorkerStep, JobStep

\* A handler's step: no handler makes a document processing or processed.
LEMMA LoadedHandlerStep ==
    ASSUME DedicatedWorker, TypeOK, DedicatedInv, LoadedInv,
           NEW h \in Handlers, HandlerStep(h) \/ UserStep(h)
    PROVE  LoadedInv'
  <1> USE DEF TypeOK, DedicatedInv, LoadedInv
  <1>0. /\ h \in Procs /\ ~ProcessInApi
        /\ \A w \in Workers : w \in Procs /\ w # h
    BY ConstantsAssumption DEF Procs, DedicatedWorker
  <1>1. ASSUME NEW label, Goto(h, label) \/ UNCHANGED pc, UNCHANGED seen,
               \A w \in Workers : job'[w] = job[w] /\ view'[w] = view[w],
               \A d \in Docs : row'[d].status \in {row[d].status, "pending", "absent"}
        PROVE  LoadedInv'
    <2>1. \A w \in Workers : pc'[w] = pc[w] BY <1>0, <1>1 DEF Goto
    <2>2. QED BY <1>0, <1>1, <2>1
  <1>2. CASE Upload(h) \/ UploadUnconfirmed(h)
    <2>1. \A d \in Docs : row'[d].status \in {row[d].status, "pending"}
      <3>1. row' = [row EXCEPT ![created + 1] = NewRow]
        BY <1>2 DEF Upload, UploadUnconfirmed
      <3>2. NewRow.status = "pending" BY DEF NewRow
      <3>3. QED BY <3>1, <3>2
    <2>2. /\ Goto(h, "idle") \/ UNCHANGED pc
          /\ UNCHANGED <<seen, job, view>>
      BY <1>0, <1>2 DEF Upload, UploadUnconfirmed, StartBackgroundJob
    <2>3. QED BY <1>1, <2>1, <2>2
  <1>3. ASSUME NEW d \in Docs, RetryLoad(h, d) PROVE LoadedInv'
    BY <1>0, <1>1, <1>3 DEF RetryLoad
  <1>4. ASSUME NEW d \in Docs, DeleteRow(h, d) PROVE LoadedInv'
    BY <1>0, <1>1, <1>4 DEF DeleteRow, Absent
  <1>5. CASE RetryWrite(h)
    <2>0. job[h] \in Docs /\ view[h] \in Rows BY <1>0, <1>5 DEF RetryWrite
    <2>1. \A d \in Docs : row'[d].status \in {row[d].status, "pending", "absent"}
      <3>1. row[job[h]] \in Rows BY <2>0
      <3>2. Flush(row[job[h]], view[h], NewRow).status \in {row[job[h]].status, "pending"}
        BY <2>0, <3>1, FlushStatus
      <3>3. QED BY <1>5, <3>2 DEF RetryWrite
    <2>2. /\ Goto(h, "idle") /\ UNCHANGED seen
          /\ \A w \in Workers : job'[w] = job[w] /\ view'[w] = view[w]
      BY <1>0, <1>5 DEF RetryWrite, DropSession, StartBackgroundJob
    <2>3. QED BY <1>1, <2>1, <2>2
  <1>6. CASE UnlinkFile(h)
    BY <1>0, <1>1, <1>6 DEF UnlinkFile
  <1>7. CASE JobStep(h)
    BY <1>0, <1>7 DEF JobStep, LoadJob, FinishBatch, Claim, ReportExtracting,
       ReportIndexing, Extract, Store, Fail
  <1>8. QED BY <1>2, <1>3, <1>4, <1>5, <1>6, <1>7 DEF HandlerStep, UserStep

-----------------------------------------------------------------------------
(* The refinement.                                                         *)

\* Crashes of the worker end what it was doing, those of handlers and of the
\* API change nothing that is mapped.
LEMMA FaultMaps ==
    ASSUME DedicatedWorker, TypeOK, DedicatedInv, LoadedInv,
           (\E p \in Procs : Crash(p)) \/ ApiCrash
    PROVE  [Lifecycle!Next]_(Lifecycle!vars) /\ LoadedInv'
  <1> USE DEF TypeOK, LoadedInv
  <1>1. UNCHANGED <<LifecycleStatus, chunked>>
    BY StatusKept DEF Crash, ApiCrash
  <1>2. ASSUME ApiCrash \/ \E h \in Handlers : Crash(h)
        PROVE  [Lifecycle!Next]_(Lifecycle!vars) /\ LoadedInv'
    <2>1. \A w \in Workers : w \in Procs /\ w \notin Handlers
      BY ConstantsAssumption DEF Procs
    <2>2. \A w \in Workers : pc'[w] = pc[w] /\ job'[w] = job[w] /\ view'[w] = view[w]
      BY <1>2, <2>1 DEF ApiCrash, Crash, Raise, Goto, DropSession
    <2>3. Working' = Working BY <2>2 DEF Working
    <2>4. UNCHANGED <<row, seen>>
      BY <1>2, ConstantsAssumption DEF ApiCrash, Crash
    <2>5. LoadedInv' BY <2>2, <2>4
    <2>6. QED BY <1>1, <2>3, <2>5 DEF Lifecycle!vars, Working
  <1>3. ASSUME NEW w \in Workers, Crash(w)
        PROVE  [Lifecycle!Next]_(Lifecycle!vars) /\ LoadedInv'
    <2>1. w \in Procs /\ pc'[w] = "idle" /\ \A v \in Workers : v = w
      BY <1>3 DEF Crash, Raise, Goto, Procs, DedicatedWorker
    <2>2. Working' = {} BY <2>1, WorkingIs DEF Running
    <2>3. Lifecycle!Abandon BY <1>1, <2>2 DEF Lifecycle!Abandon, Working
    <2>4. LoadedInv' BY <2>1 DEF Checking
    <2>5. QED BY <2>3, <2>4 DEF Lifecycle!Next
  <1>4. QED BY <1>2, <1>3 DEF DedicatedWorker, Procs

\* Where one worker does all the processing, every behaviour of the database,
\* the sessions and the processes is one of the document lifecycle.
THEOREM DedicatedFollowsLifecycle ==
    ASSUME DedicatedWorker
    PROVE  Spec => FollowsLifecycle
  <1>1. Init => LoadedInv
    BY ConstantsAssumption DEF Init, LoadedInv, Procs, Checking
  <1>2. Init => Lifecycle!Init
    <2> SUFFICES ASSUME Init PROVE Lifecycle!Init
      OBVIOUS
    <2>1. LifecycleStatus = [d \in Docs |-> "none"]
      BY DEF Init, LifecycleStatus, Present, Absent, Docs
    <2>2. Working = {}
      BY DEF Init, Working, Procs, Running
    <2>3. QED BY <2>1, <2>2 DEF Init, Lifecycle!Init, Working
  <1>3. TypeOK /\ DedicatedInv /\ LoadedInv /\ [Next]_vars
            => LoadedInv' /\ [Lifecycle!Next]_(Lifecycle!vars)
    <2> SUFFICES ASSUME TypeOK, DedicatedInv, LoadedInv, [Next]_vars
                 PROVE  LoadedInv' /\ [Lifecycle!Next]_(Lifecycle!vars)
      OBVIOUS
    <2>1. CASE UNCHANGED vars
      <3>1. LoadedInv' BY <2>1 DEF vars, LoadedInv
      <3>2. UNCHANGED <<LifecycleStatus, chunked>> BY <2>1, StatusKept DEF vars
      <3>3. Working' = Working BY <2>1 DEF vars, Working
      <3>4. QED BY <3>1, <3>2, <3>3 DEF Lifecycle!vars, Working
    <2>2. ASSUME NEW w \in Workers, WorkerStep(w)
          PROVE  LoadedInv' /\ [Lifecycle!Next]_(Lifecycle!vars)
      BY <2>2, WorkerStepMaps, LoadedWorkerStep
    <2>3. ASSUME NEW h \in Handlers, UserStep(h) \/ HandlerStep(h)
          PROVE  LoadedInv' /\ [Lifecycle!Next]_(Lifecycle!vars)
      BY <2>3, HandlerStepMaps, LoadedHandlerStep
    <2>4. CASE (\E p \in Procs : Crash(p)) \/ ApiCrash
      BY <2>4, FaultMaps
    <2>5. QED BY <2>1, <2>2, <2>3, <2>4 DEF Next, DedicatedWorker
  <1>4. QED BY <1>1, <1>2, <1>3, TypeCorrect, DedicatedInvariant, PTL
        DEF Spec, FollowsLifecycle, Lifecycle!Spec

-----------------------------------------------------------------------------
(* No claim is left without an owner.                                      *)

\* The strengthening of ClaimHasOwner: while the worker runs a document nobody
\* else marks it failed, so that its own failure is written.
OwnerInv ==
    /\ ClaimHasOwner
    /\ \A w \in Workers : pc[w] \in Running =>
           view[w].status # "failed" /\ row[job[w]].status # "failed"

\* A worker's step keeps it.
LEMMA OwnerWorkerStep ==
    ASSUME DedicatedWorker, TypeOK, DedicatedInv, OwnerInv,
           NEW w \in Workers, WorkerStep(w)
    PROVE  OwnerInv'
  <1> USE DEF TypeOK, DedicatedInv, OwnerInv
  <1>0. w \in Procs /\ \A v \in Workers : v = w
    BY DEF Procs, DedicatedWorker
  <1>1. ASSUME NEW d \in Docs, row[d].status = "processing"
        PROVE  pc[w] = "idle" \/ (pc[w] \in Running /\ job[w] = d) \/ d \in dropped
    <2>1. \A h \in Handlers : pc[h] \notin Running BY DEF Running
    <2>2. QED BY <1>0, <1>1, <2>1
          DEF ClaimHasOwner, Processes, Procs, DedicatedWorker, Stranded
  <1>2. ASSUME \A d \in Docs : row'[d].status = "processing" => d \in dropped',
               pc'[w] \notin Running
        PROVE  OwnerInv'
    BY <1>0, <1>2 DEF ClaimHasOwner, Stranded
  <1>3. ASSUME Raise(w) PROVE OwnerInv'
    BY <1>0, <1>3 DEF ClaimHasOwner, Raise, Goto, Running
  <1>4. ASSUME NEW d \in Docs, pc'[w] \in Running, job'[w] = d,
               \A e \in Docs : e # d /\ row'[e].status = "processing" => e \in dropped',
               view'[w].status # "failed", row'[d].status # "failed"
        PROVE  OwnerInv'
    <2>1. Processes(w, d)' BY <1>4 DEF Processes
    <2>2. ClaimHasOwner' BY <1>0, <1>4, <2>1 DEF ClaimHasOwner, Stranded
    <2>3. QED BY <1>0, <1>4, <2>2
  <1>5. ASSUME pc[w] \in {"claim"} \cup Running
        PROVE  /\ job[w] \in Docs /\ view[w] \in Rows /\ row[job[w]] \in Rows
               /\ row[job[w]].status # "processed" /\ view[w].status # "processed"
               /\ \A e \in Docs : e # job[w] /\ row[e].status = "processing"
                                  => e \in dropped
    BY <1>0, <1>1, <1>5 DEF Running
  <1>6. ASSUME pc[w] \in {"claim"} \cup Running, EndJob(w) \/ EndOnError(w),
               \A e \in Docs : e # job[w] => row'[e] = row[e],
               row'[job[w]].status = "processing" => job[w] \in dropped'
        PROVE  OwnerInv'
    <2>1. pc'[w] = "dispatch" /\ dropped \subseteq dropped'
      BY <1>0, <1>6 DEF EndJob, EndOnError, Goto
    <2>2. QED BY <1>2, <1>5, <1>6, <2>1 DEF Running
  <1>7. ASSUME pc[w] \in {"claim"} \cup Running, EndOnError(w),
               \A e \in Docs : e # job[w] => row'[e] = row[e]
        PROVE  OwnerInv'
    BY <1>6, <1>7 DEF EndOnError
  <1>8. CASE WorkerStart(w)
    BY <1>0, <1>2, <1>8 DEF WorkerStart, Requeued, NewRow, Goto, Running
  <1>9. CASE ListPending(w) \/ RunBatch(w) \/ FinishBatch(w)
    <2>1. /\ UNCHANGED <<row, dropped>> /\ pc[w] \notin Running /\ pc[w] # "idle"
          /\ pc'[w] \notin Running
      BY <1>0, <1>9 DEF ListPending, RunBatch, FinishBatch, Goto, Running, Checking
    <2>2. QED BY <1>1, <1>2, <2>1
  <1>10. CASE CheckSource(w)
    <2>1. PICK d \in Docs, l \in Rows : SourceChecked(w, d, l)
      BY <1>10, CheckSourceCases
    <2>2. pc[w] \notin Running /\ pc[w] # "idle"
      BY <1>10, CheckSourceCases DEF Checking, Running
    <2>3. CASE Raise(w)
      BY <1>3, <2>3
    <2>4. CASE /\ UNCHANGED dropped /\ (UNCHANGED pc \/ Goto(w, "rereading"))
               /\ \/ UNCHANGED row
                  \/ row' = [row EXCEPT ![d] = Flush(@, l, Failed(l, "missing"))]
      <3>1. row[d] \in Rows OBVIOUS
      <3>2. Flush(row[d], l, Failed(l, "missing")).status \in {row[d].status, "failed"}
        BY <3>1, FlushStatus
      <3>3. \A e \in Docs : row'[e].status = "processing" => row[e].status = "processing"
        BY <2>4, <3>2
      <3>4. pc'[w] \notin Running BY <1>0, <2>2, <2>4 DEF Goto, Running
      <3>5. QED BY <1>1, <1>2, <2>2, <2>4, <3>3, <3>4
    <2>5. QED BY <2>1, <2>3, <2>4 DEF SourceChecked
  <1>11. CASE LoadJob(w)
    <2>1. pc[w] = "dispatch" /\ UNCHANGED <<row, dropped>> BY <1>11 DEF LoadJob
    <2>2. pc'[w] \in {"dispatch", "claim"} BY <1>0, <1>11, <2>1 DEF LoadJob, Goto
    <2>3. QED BY <1>1, <1>2, <2>1, <2>2 DEF Running
  <1>12. CASE Claim(w)
    <2>0. pc[w] = "claim" BY <1>12 DEF Claim
    <2>1. CASE Raise(w)
      BY <1>3, <2>1
    <2>2. CASE EndOnError(w) /\ \A e \in Docs : e # job[w] => row'[e] = row[e]
      BY <1>7, <2>0, <2>2
    <2>3. CASE /\ view[w].status = "processing" /\ Present(row[job[w]])
               /\ EndJob(w) /\ UNCHANGED row
      <3>1. row[job[w]].status = "processing" => job[w] \in dropped
        BY <1>1, <1>5, <2>0 DEF Running
      <3>2. QED BY <1>6, <2>0, <2>3, <3>1 DEF EndJob
    <2>4. CASE /\ Save(w, job[w], Claimed(view[w])) /\ view[w].status # "processing"
               /\ dropped' = dropped \ {job[w]}
               /\ Goto(w, "start") /\ UNCHANGED job
      <3>1. PICK d \in Docs : d = job[w] BY <1>5, <2>0
      <3>2. Flush(row[d], view[w], Claimed(view[w])).status = "processing"
        BY <1>5, <2>0, <2>4, <3>1, FlushStatus
      <3>3. /\ row'[d].status = "processing" /\ view'[w].status = "processing"
            /\ \A e \in Docs : e # d => row'[e] = row[e]
        BY <1>0, <2>4, <3>1, <3>2 DEF Save
      <3>4. QED BY <1>0, <1>4, <1>5, <2>0, <2>4, <3>1, <3>3 DEF Goto, Running
    <2>5. CASE Present(row[job[w]]) /\ ~Claimable(row[job[w]])
      BY <1>5, <2>0, <2>5
         DEF Claimable, Runnable, RunnableStatuses, Present, Rows, Statuses
    <2>6. QED BY <1>12, <2>1, <2>2, <2>3, <2>4, <2>5 DEF Claim, DatabaseFails
  <1>13. CASE ReportExtracting(w) \/ ReportIndexing(w)
    <2>0. pc[w] \in Running
      BY <1>13 DEF ReportExtracting, ReportIndexing, Running
    <2>1. PICK d \in Docs : d = job[w] BY <1>5, <2>0
    <2>2. CASE Raise(w)
      BY <1>3, <2>2
    <2>3. CASE EndOnError(w) /\ \A e \in Docs : e # job[w] => row'[e] = row[e]
      BY <1>7, <2>0, <2>3
    <2>4. ASSUME NEW label \in {"extract", "store"},
                 NEW a \in {Progressed(view[w], "extracting", 10),
                            Progressed(view[w], "indexing", 60)},
                 Save(w, d, a), Goto(w, label), UNCHANGED <<job, dropped>>
          PROVE  OwnerInv'
      <3>1. Flush(row[d], view[w], a).status = row[d].status
        BY <1>5, <2>0, <2>1, <2>4, FlushStatus
      <3>2. /\ row'[d].status = row[d].status /\ view'[w].status = row[d].status
            /\ \A e \in Docs : e # d => row'[e] = row[e]
        BY <1>0, <2>4, <3>1 DEF Save
      <3>3. QED BY <1>0, <1>4, <1>5, <2>0, <2>1, <2>4, <3>2 DEF Goto, Running
    <2>5. QED BY <1>13, <2>1, <2>2, <2>3, <2>4
          DEF ReportExtracting, ReportIndexing, Report, DatabaseFails
  <1>14. CASE Extract(w)
    <2>0. pc[w] \in Running /\ UNCHANGED row BY <1>14 DEF Extract, Running
    <2>1. CASE Raise(w)
      BY <1>3, <2>1
    <2>2. CASE (Goto(w, "fail") \/ Goto(w, "index")) /\ UNCHANGED <<job, view, dropped>>
      BY <1>0, <1>4, <1>5, <2>0, <2>2 DEF Goto, Running
    <2>3. QED BY <1>14, <2>1, <2>2 DEF Extract
  <1>15. CASE Store(w)
    <2>0. pc[w] \in Running BY <1>15 DEF Store, Running
    <2>1. CASE Raise(w)
      BY <1>3, <2>1
    <2>2. CASE Goto(w, "fail") /\ UNCHANGED <<row, job, view, dropped>>
      BY <1>0, <1>4, <1>5, <2>0, <2>2 DEF Goto, Running
    <2>3. CASE EndOnError(w) /\ \A e \in Docs : e # job[w] => row'[e] = row[e]
      BY <1>7, <2>0, <2>3
    <2>4. CASE /\ row' = [row EXCEPT ![job[w]] = Flush(@, view[w], Completed(view[w]))]
               /\ EndJob(w)
      <3>1. Flush(row[job[w]], view[w], Completed(view[w])).status = "processed"
        BY <1>5, <2>0, FlushStatus
      <3>2. row'[job[w]].status # "processing" BY <1>5, <2>0, <2>4, <3>1
      <3>3. QED BY <1>6, <2>0, <2>4, <3>2
    <2>5. QED BY <1>15, <2>1, <2>2, <2>3, <2>4 DEF Store, DatabaseFails
  <1>16. CASE Fail(w)
    <2>0. pc[w] \in Running BY <1>16 DEF Fail, Running
    <2>1. CASE Raise(w)
      BY <1>3, <2>1
    <2>2. CASE EndOnError(w) /\ \A e \in Docs : e # job[w] => row'[e] = row[e]
      BY <1>7, <2>0, <2>2
    <2>3. CASE /\ row' = [row EXCEPT ![job[w]] =
                             Flush(@, view[w], Failed(view[w], "content"))]
               /\ EndJob(w)
      <3>1. Flush(row[job[w]], view[w], Failed(view[w], "content")).status = "failed"
        BY <1>5, <2>0 DEF Flush, Column, Failed, Rows
      <3>2. row'[job[w]].status # "processing" BY <1>5, <2>0, <2>3, <3>1
      <3>3. QED BY <1>6, <2>0, <2>3, <3>2
    <2>4. QED BY <1>16, <2>1, <2>2, <2>3 DEF Fail, DatabaseFails
  <1>17. QED BY <1>8, <1>9, <1>10, <1>11, <1>12, <1>13, <1>14, <1>15, <1>16
         DEF WorkerStep, JobStep

\* A handler's step keeps it: no handler claims or fails a document.
LEMMA OwnerHandlerStep ==
    ASSUME DedicatedWorker, TypeOK, DedicatedInv, OwnerInv,
           NEW h \in Handlers, HandlerStep(h) \/ UserStep(h)
    PROVE  OwnerInv'
  <1> USE DEF TypeOK, DedicatedInv, OwnerInv
  <1>0. /\ h \in Procs /\ ~ProcessInApi /\ Procs = Workers \cup Handlers
        /\ \A w \in Workers : w \in Procs /\ w # h
        /\ \A g \in Handlers : pc[g] \notin Running
    BY ConstantsAssumption DEF Procs, DedicatedWorker, Running
  <1>1. ASSUME NEW label, Goto(h, label) \/ UNCHANGED pc, UNCHANGED dropped,
               \A w \in Workers : job'[w] = job[w] /\ view'[w] = view[w],
               \A d \in Docs : row'[d].status \in {row[d].status, "pending", "absent"}
        PROVE  OwnerInv'
    <2>1. \A w \in Workers : pc'[w] = pc[w] BY <1>0, <1>1 DEF Goto
    <2>2. ASSUME NEW d \in Docs, row'[d].status = "processing"
          PROVE  \/ \E w \in Workers :
                        pc'[w] = "idle" \/ (pc'[w] \in Running /\ job'[w] = d)
                 \/ d \in dropped'
      <3>1. row[d].status = "processing" BY <1>1, <2>2
      <3>2. \/ \E w \in Workers : pc[w] = "idle" \/ (pc[w] \in Running /\ job[w] = d)
            \/ d \in dropped
        BY <1>0, <3>1 DEF ClaimHasOwner, Processes, Stranded
      <3>3. QED BY <1>1, <2>1, <3>2
    <2>3. ClaimHasOwner'
      BY <1>0, <2>2 DEF ClaimHasOwner, Processes, Stranded
    <2>4. ASSUME NEW w \in Workers, pc[w] \in Running
          PROVE  row'[job[w]].status \in {row[job[w]].status, "pending", "absent"}
      BY <1>0, <1>1, <2>4
    <2>5. QED BY <1>1, <2>1, <2>3, <2>4 DEF Running
  <1>2. CASE Upload(h) \/ UploadUnconfirmed(h)
    <2>1. \A d \in Docs : row'[d].status \in {row[d].status, "pending"}
      <3>1. row' = [row EXCEPT ![created + 1] = NewRow]
        BY <1>2 DEF Upload, UploadUnconfirmed
      <3>2. NewRow.status = "pending" BY DEF NewRow
      <3>3. QED BY <3>1, <3>2
    <2>2. /\ Goto(h, "idle") \/ UNCHANGED pc
          /\ UNCHANGED <<job, view, dropped>>
      BY <1>0, <1>2 DEF Upload, UploadUnconfirmed, StartBackgroundJob
    <2>3. QED BY <1>1, <2>1, <2>2
  <1>3. ASSUME NEW d \in Docs, RetryLoad(h, d) PROVE OwnerInv'
    BY <1>0, <1>1, <1>3 DEF RetryLoad
  <1>4. ASSUME NEW d \in Docs, DeleteRow(h, d) PROVE OwnerInv'
    BY <1>0, <1>1, <1>4 DEF DeleteRow, Absent
  <1>5. CASE RetryWrite(h)
    <2>0. job[h] \in Docs /\ view[h] \in Rows BY <1>0, <1>5 DEF RetryWrite
    <2>1. \A d \in Docs : row'[d].status \in {row[d].status, "pending", "absent"}
      <3>1. row[job[h]] \in Rows BY <2>0
      <3>2. Flush(row[job[h]], view[h], NewRow).status \in {row[job[h]].status, "pending"}
        BY <2>0, <3>1, FlushStatus
      <3>3. QED BY <1>5, <3>2 DEF RetryWrite
    <2>2. /\ Goto(h, "idle") /\ UNCHANGED dropped
          /\ \A w \in Workers : job'[w] = job[w] /\ view'[w] = view[w]
      BY <1>0, <1>5 DEF RetryWrite, DropSession, StartBackgroundJob
    <2>3. QED BY <1>1, <2>1, <2>2
  <1>6. CASE UnlinkFile(h)
    BY <1>0, <1>1, <1>6 DEF UnlinkFile
  <1>7. CASE JobStep(h)
    BY <1>0, <1>7 DEF JobStep, LoadJob, FinishBatch, Claim, ReportExtracting,
       ReportIndexing, Extract, Store, Fail
  <1>8. QED BY <1>2, <1>3, <1>4, <1>5, <1>6, <1>7 DEF HandlerStep, UserStep

\* Where one worker does all the processing, a document that says "processing"
\* is the one it works on, or the worker is down and will requeue it, or its
\* last job has ended with a database error that the worker logged.
THEOREM DedicatedClaimHasOwner ==
    ASSUME DedicatedWorker
    PROVE  Spec => []ClaimHasOwner
  <1>1. Init => OwnerInv
    BY ConstantsAssumption DEF Init, OwnerInv, ClaimHasOwner, Absent, Procs, Running
  <1>2. TypeOK /\ DedicatedInv /\ OwnerInv /\ [Next]_vars => OwnerInv'
    <2> SUFFICES ASSUME TypeOK, DedicatedInv, OwnerInv, [Next]_vars PROVE OwnerInv'
      OBVIOUS
    <2>1. CASE UNCHANGED vars
      BY <2>1 DEF vars, OwnerInv, ClaimHasOwner, Processes, Stranded
    <2>2. ASSUME NEW w \in Workers, Crash(w) PROVE OwnerInv'
      <3>1. w \in Procs /\ pc'[w] = "idle" /\ \A v \in Workers : v = w
        BY <2>2 DEF Crash, Raise, Goto, Procs, DedicatedWorker, TypeOK
      <3>2. QED BY <3>1 DEF OwnerInv, ClaimHasOwner, Running
    <2>3. ASSUME ApiCrash \/ \E h \in Handlers : Crash(h) PROVE OwnerInv'
      <3>1. \A w \in Workers : w \in Procs /\ w \notin Handlers
        BY ConstantsAssumption DEF Procs
      <3>2. \A w \in Workers : pc'[w] = pc[w] /\ job'[w] = job[w] /\ view'[w] = view[w]
        BY <2>3, <3>1 DEF ApiCrash, Crash, Raise, Goto, DropSession, TypeOK
      <3>3. \A g \in Handlers : pc[g] \notin Running
        BY DEF DedicatedInv, Running
      <3>4. UNCHANGED <<row, dropped>> BY <2>3 DEF ApiCrash, Crash, Raise
      <3>5. ClaimHasOwner'
        BY <3>1, <3>2, <3>3, <3>4
        DEF OwnerInv, ClaimHasOwner, Processes, Procs, DedicatedWorker, Stranded
      <3>6. QED BY <3>2, <3>4, <3>5 DEF OwnerInv
    <2>4. QED BY <2>1, <2>2, <2>3, OwnerWorkerStep, OwnerHandlerStep
          DEF Next, DedicatedWorker, Procs
  <1>3. OwnerInv => ClaimHasOwner BY DEF OwnerInv
  <1>4. QED BY <1>1, <1>2, <1>3, TypeCorrect, DedicatedInvariant, PTL DEF Spec

-----------------------------------------------------------------------------
(* The columns of a row.                                                   *)

\* The deployment in which users send no retry either.
NoRetries == DedicatedWorker /\ "retry" \notin UserOps

\* What RowAgreesWithStatus says of a row by itself.
Agrees(r) ==
    /\ r.status = "processed" =>
           r.phase = "completed" /\ r.progress = 100 /\ r.error = "none"
    /\ r.status = "failed" => r.phase = "failed" /\ r.error # "none"
    /\ r.status = "pending" => r.phase = "queued" /\ r.error = "none"

\* The strengthening of RowAgreesWithStatus.  The one worker holds copies of
\* rows, of its job and of what it has listed; unless the document has gone, a
\* copy is the stored row, so that an UPDATE of the columns that differ from
\* the copy leaves exactly the row the job means to write.  After an error in
\* the listing session it reads the stored rows, and needs no copies.
CopiesInv ==
    /\ RowAgreesWithStatus
    /\ \A h \in Handlers : pc[h] # "retry"
    /\ \A w \in Workers :
        /\ pc[w] \in {"claim"} \cup Running =>
               /\ job[w] <= created
               /\ Present(row[job[w]]) => row[job[w]] = view[w]
        /\ pc[w] = "claim" => Runnable(view[w])
        /\ pc[w] \in Running => view[w].status = "processing"
        /\ pc[w] = "checking" =>
               \A d \in Docs : Present(seen[w][d]) =>
                   /\ d <= created
                   /\ Present(row[d]) => row[d] = seen[w][d]

\* An UPDATE from a copy that is up to date writes what was assigned.
LEMMA FlushCurrent ==
    ASSUME NEW s \in Rows, NEW a \in Rows
    PROVE  Flush(s, s, a) = a
  BY DEF Flush, Column, Rows

\* Every operation assigns columns that agree, given a row whose columns do.
LEMMA AgreesAssigned ==
    ASSUME NEW r \in Rows
    PROVE  /\ Agrees(Absent) /\ Agrees(NewRow)
           /\ Agrees(Claimed(r)) /\ Agrees(Completed(r))
           /\ Agrees(Failed(r, "content")) /\ Agrees(Failed(r, "missing"))
           /\ Agrees(r) => Agrees(Requeued(r))
           /\ r.status = "processing" =>
                  /\ Agrees(Progressed(r, "extracting", 10))
                  /\ Agrees(Progressed(r, "indexing", 60))
  BY DEF Agrees, Absent, NewRow, Claimed, Completed, Failed, Requeued, Progressed, Rows

\* A row is written, and no other document's chunks change.
LEMMA RowWritten ==
    ASSUME TypeOK, RowAgreesWithStatus, NEW d \in Docs, NEW r \in Rows,
           row' = [row EXCEPT ![d] = r],
           \A e \in Docs : e # d => (e \in chunked' <=> e \in chunked),
           Agrees(r), r.status = "processed" => d \in chunked'
    PROVE  RowAgreesWithStatus'
  BY DEF TypeOK, RowAgreesWithStatus, Agrees

\* The steps of the worker's job.
LEMMA CopiesJobStep ==
    ASSUME NoRetries, TypeOK, DedicatedInv, CopiesInv, NEW w \in Workers, JobStep(w)
    PROVE  CopiesInv'
  <1> USE DEF TypeOK
  <1>0. /\ w \in Procs /\ \A v \in Workers : v = w
        /\ \A h \in Handlers : h \in Procs /\ h # w
        /\ UNCHANGED <<created, seen>>
    BY ConstantsAssumption
    DEF NoRetries, DedicatedWorker, Procs, JobStep, LoadJob, FinishBatch, Claim,
        ReportExtracting, Extract, ReportIndexing, Store, Fail
  <1>1. \A h \in Handlers : pc'[h] # "retry"
    <2>1. \E label \in PCs : Goto(w, label) \/ UNCHANGED pc
      BY DEF JobStep, LoadJob, FinishBatch, Claim, ReportExtracting, ReportIndexing, Report,
             Extract, Store, Fail, EndJob, EndOnError, Raise, DatabaseFails, Goto, PCs, Running
    <2>2. QED BY <1>0, <2>1 DEF Goto, CopiesInv
  <1>2. ASSUME RowAgreesWithStatus', pc'[w] \notin {"claim", "checking"} \cup Running
        PROVE  CopiesInv'
    BY <1>0, <1>1, <1>2 DEF CopiesInv
  <1>3. ASSUME UNCHANGED <<row, chunked>> PROVE RowAgreesWithStatus'
    BY <1>3 DEF CopiesInv, RowAgreesWithStatus
  <1>4. ASSUME JobEnds(w), RowAgreesWithStatus' PROVE CopiesInv'
    BY <1>0, <1>2, <1>4 DEF JobEnds, EndJob, EndOnError, Raise, Goto, Running
  <1>5. ASSUME UNCHANGED <<row, chunked, job, view>>, NEW label \in Running,
               Goto(w, label), pc[w] \in Running
        PROVE  CopiesInv'
    BY <1>0, <1>1, <1>3, <1>5 DEF CopiesInv, Goto, Running
  <1>6. ASSUME pc[w] \in {"claim"} \cup Running, Present(row[job[w]])
        PROVE  /\ job[w] \in Docs /\ view[w] \in Rows /\ row[job[w]] = view[w]
               /\ job[w] <= created
               /\ pc[w] \in Running => view[w].status = "processing"
               /\ pc[w] = "claim" => Runnable(view[w])
    BY <1>0, <1>6 DEF CopiesInv
  <1>7. ASSUME NEW label \in Running, NEW a \in Rows, pc[w] \in {"claim"} \cup Running,
               Present(row[job[w]]), Save(w, job[w], a), a.status = "processing",
               Goto(w, label), UNCHANGED <<job, chunked>>,
               Agrees(a)
        PROVE  CopiesInv'
    <2>1. PICK d \in Docs : d = job[w] /\ d <= created
      BY <1>6, <1>7
    <2>2. Flush(row[d], view[w], a) = a
      BY <1>6, <1>7, <2>1, FlushCurrent
    <2>3. row' = [row EXCEPT ![d] = a] /\ view'[w] = a
      BY <1>0, <1>7, <2>1, <2>2 DEF Save
    <2>4. RowAgreesWithStatus'
      BY <1>7, <2>3, RowWritten DEF CopiesInv
    <2>5. row'[d] = a /\ job'[w] = d /\ pc'[w] \in Running
      BY <1>0, <1>7, <2>1, <2>3 DEF Goto
    <2>6. pc'[w] \in Running \ {"claim", "checking"}
      BY <2>5 DEF Running
    <2>7. QED BY <1>0, <1>1, <1>7, <2>1, <2>3, <2>4, <2>5, <2>6 DEF CopiesInv
  <1>8. ASSUME NEW a \in Rows, pc[w] \in {"claim"} \cup Running, Present(row[job[w]]),
               row' = [row EXCEPT ![job[w]] = Flush(row[job[w]], view[w], a)],
               \A e \in Docs : e # job[w] => (e \in chunked' <=> e \in chunked),
               Agrees(a), a.status = "processed" => job[w] \in chunked', JobEnds(w)
        PROVE  CopiesInv'
    <2>1. PICK d \in Docs : d = job[w]
      BY <1>6, <1>8
    <2>2. row' = [row EXCEPT ![d] = a]
      BY <1>6, <1>8, <2>1, FlushCurrent
    <2>3. RowAgreesWithStatus'
      BY <1>8, <2>1, <2>2, RowWritten DEF CopiesInv
    <2>4. QED BY <1>4, <1>8, <2>3
  <1>9. CASE LoadJob(w)
    <2>1. UNCHANGED <<row, chunked>> /\ pc[w] = "dispatch" BY <1>9 DEF LoadJob
    <2>2. CASE UNCHANGED <<pc, job, view>>
      BY <1>2, <1>3, <2>1, <2>2 DEF Running
    <2>3. ASSUME NEW d \in Docs, Runnable(row[d]), Goto(w, "claim"),
                 job' = [job EXCEPT ![w] = d], view' = [view EXCEPT ![w] = row[d]]
          PROVE  CopiesInv'
      <3>1. d <= created
        BY <2>3, ConstantsAssumption
           DEF DedicatedInv, Runnable, RunnableStatuses, Absent, Docs
      <3>2. /\ pc'[w] = "claim" /\ job'[w] = d /\ view'[w] = row[d] /\ row'[d] = row[d]
        BY <1>0, <2>1, <2>3 DEF Goto
      <3>3. QED BY <1>0, <1>1, <1>3, <2>1, <2>3, <3>1, <3>2 DEF CopiesInv, Running
    <2>4. QED BY <1>9, <2>2, <2>3 DEF LoadJob
  <1>10. CASE FinishBatch(w)
    BY <1>0, <1>2, <1>3, <1>10 DEF FinishBatch, Goto, Running
  <1>11. CASE Claim(w)
    <2>1. pc[w] = "claim" /\ UNCHANGED chunked BY <1>11 DEF Claim
    <2>2. CASE JobEnds(w) /\ UNCHANGED row
      BY <1>3, <1>4, <2>1, <2>2
    <2>3. CASE /\ Claimable(row[job[w]])
               /\ \/ /\ Save(w, job[w], Claimed(view[w]))
                     /\ Goto(w, "start") /\ UNCHANGED job
                  \/ /\ row' = [row EXCEPT ![job[w]] = Flush(@, view[w], Claimed(view[w]))]
                     /\ JobEnds(w)
      <3>1. Present(row[job[w]])
        BY <2>3 DEF Claimable, Runnable, RunnableStatuses, Present
      <3>2. PICK l \in Rows : l = view[w] BY <1>6, <2>1, <3>1
      <3>3. /\ Claimed(l) \in Rows /\ Claimed(l).status = "processing"
            /\ Agrees(Claimed(l))
        BY RowTypes, StatusAssigned, AgreesAssigned
      <3>4. CASE JobEnds(w) /\ row' = [row EXCEPT ![job[w]] = Flush(@, view[w], Claimed(l))]
        BY <1>6, <1>8, <2>1, <3>1, <3>2, <3>3, <3>4
      <3>5. CASE Save(w, job[w], Claimed(l)) /\ Goto(w, "start") /\ UNCHANGED job
        BY <1>7, <2>1, <3>1, <3>3, <3>5 DEF Running
      <3>6. QED BY <2>3, <3>2, <3>4, <3>5
    <2>4. CASE Present(row[job[w]]) /\ ~Claimable(row[job[w]])
      BY <1>6, <2>1, <2>4 DEF Claimable
    <2>5. QED BY <1>11, <2>2, <2>3, <2>4 DEF Claim, JobEnds, DatabaseFails
  <1>12. CASE ReportExtracting(w) \/ ReportIndexing(w)
    <2>1. pc[w] \in Running /\ UNCHANGED chunked
      BY <1>12 DEF ReportExtracting, ReportIndexing, Running
    <2>2. CASE JobEnds(w) /\ UNCHANGED row
      BY <1>3, <1>4, <2>1, <2>2
    <2>3. ASSUME NEW label \in {"extract", "store"}, Present(row[job[w]]),
                 NEW a \in {Progressed(view[w], "extracting", 10),
                            Progressed(view[w], "indexing", 60)},
                 \/ Save(w, job[w], a) /\ Goto(w, label) /\ UNCHANGED job
                 \/ row' = [row EXCEPT ![job[w]] = Flush(@, view[w], a)] /\ JobEnds(w)
          PROVE  CopiesInv'
      <3>1. PICK l \in Rows : l = view[w] /\ l.status = "processing"
        BY <1>6, <2>1, <2>3
      <3>2. /\ a \in Rows /\ a.status = "processing"
            /\ Agrees(a)
        <4>1. a \in {Progressed(l, "extracting", 10), Progressed(l, "indexing", 60)}
          BY <2>3, <3>1
        <4>2. a \in Rows BY <4>1, RowTypes
        <4>3. a.status = l.status BY <4>1, StatusAssigned
        <4>4. Agrees(a) BY <3>1, <4>1, AgreesAssigned
        <4>5. QED BY <3>1, <4>2, <4>3, <4>4
      <3>3. CASE Save(w, job[w], a) /\ Goto(w, label) /\ UNCHANGED job
        BY <1>7, <2>1, <2>3, <3>2, <3>3 DEF Running
      <3>4. CASE row' = [row EXCEPT ![job[w]] = Flush(@, view[w], a)] /\ JobEnds(w)
        BY <1>6, <1>8, <2>1, <2>3, <3>2, <3>4
      <3>5. QED BY <2>3, <3>3, <3>4
    <2>4. QED BY <1>12, <2>2, <2>3
          DEF ReportExtracting, ReportIndexing, Report, JobEnds, DatabaseFails
  <1>13. CASE Extract(w)
    <2>1. pc[w] \in Running /\ UNCHANGED <<row, chunked>> BY <1>13 DEF Extract, Running
    <2>2. CASE Raise(w)
      BY <1>3, <1>4, <2>1, <2>2 DEF JobEnds
    <2>3. CASE (Goto(w, "fail") \/ Goto(w, "index")) /\ UNCHANGED <<job, view>>
      BY <1>5, <2>1, <2>3 DEF Running
    <2>4. QED BY <1>13, <2>2, <2>3 DEF Extract
  <1>14. CASE Store(w)
    <2>1. pc[w] \in Running BY <1>14 DEF Store, Running
    <2>2. CASE JobEnds(w) /\ UNCHANGED <<row, chunked>>
      BY <1>3, <1>4, <2>2
    <2>3. CASE Goto(w, "fail") /\ UNCHANGED <<row, chunked, job, view>>
      BY <1>5, <2>1, <2>3 DEF Running
    <2>4. CASE /\ Present(row[job[w]])
               /\ row' = [row EXCEPT ![job[w]] = Flush(@, view[w], Completed(view[w]))]
               /\ chunked' = chunked \cup {job[w]} /\ JobEnds(w)
      <3>1. PICK l \in Rows : l = view[w] BY <1>6, <2>1, <2>4
      <3>2. Completed(l) \in Rows /\ Agrees(Completed(l))
        BY RowTypes, AgreesAssigned
      <3>3. job[w] \in chunked' BY <2>4
      <3>4. QED BY <1>8, <2>1, <2>4, <3>1, <3>2, <3>3
    <2>5. QED BY <1>14, <2>2, <2>3, <2>4 DEF Store, JobEnds, DatabaseFails
  <1>15. CASE Fail(w)
    <2>1. pc[w] \in Running BY <1>15 DEF Fail, Running
    <2>2. CASE JobEnds(w) /\ UNCHANGED <<row, chunked>>
      BY <1>3, <1>4, <2>2
    <2>3. CASE /\ Present(row[job[w]])
               /\ row' = [row EXCEPT ![job[w]] =
                             Flush(@, view[w], Failed(view[w], "content"))]
               /\ chunked' = chunked \ {job[w]} /\ JobEnds(w)
      <3>1. PICK l \in Rows : l = view[w] BY <1>6, <2>1, <2>3
      <3>2. Failed(l, "content") \in Rows /\ Agrees(Failed(l, "content"))
        BY RowTypes, AgreesAssigned
      <3>3. Failed(l, "content").status # "processed" BY StatusAssigned
      <3>4. QED BY <1>8, <2>1, <2>3, <3>1, <3>2, <3>3
    <2>4. QED BY <1>15, <2>2, <2>3 DEF Fail, ChunksWithout, JobEnds, DatabaseFails
  <1>16. QED BY <1>9, <1>10, <1>11, <1>12, <1>13, <1>14, <1>15 DEF JobStep

\* The worker's other steps.  The listing reads committed rows, and a missing
\* source is recorded on the row that was listed or has been read again.
LEMMA CopiesWorkerStep ==
    ASSUME NoRetries, TypeOK, DedicatedInv, CopiesInv, NEW w \in Workers, WorkerStep(w)
    PROVE  CopiesInv'
  <1> USE DEF TypeOK
  <1>0. /\ w \in Procs /\ \A v \in Workers : v = w
        /\ \A h \in Handlers : h \in Procs /\ h # w
    BY ConstantsAssumption DEF NoRetries, DedicatedWorker, Procs
  <1>1. ASSUME NEW label \in PCs \ ({"claim", "checking"} \cup Running), Goto(w, label),
               RowAgreesWithStatus', UNCHANGED created
        PROVE  CopiesInv'
    BY <1>0, <1>1 DEF CopiesInv, Goto
  <1>2. ASSUME UNCHANGED <<row, chunked>> PROVE RowAgreesWithStatus'
    BY <1>2 DEF CopiesInv, RowAgreesWithStatus
  <1>3. CASE WorkerStart(w)
    <2>1. ASSUME NEW d \in Docs
          PROVE  Agrees(row'[d]) /\ (row'[d].status = "processed" => d \in chunked')
      <3>1. PICK r \in Rows : r = row[d] OBVIOUS
      <3>2. Agrees(r) /\ (r.status = "processed" => d \in chunked)
        BY <3>1 DEF CopiesInv, RowAgreesWithStatus, Agrees
      <3>3. Agrees(Requeued(r)) /\ (Requeued(r).status = "processed" => d \in chunked)
        BY <3>2, AgreesAssigned, StatusAssigned
      <3>4. QED BY <1>3, <3>1, <3>3 DEF WorkerStart
    <2>2. RowAgreesWithStatus'
      BY <2>1 DEF RowAgreesWithStatus, Agrees
    <2>3. QED BY <1>1, <1>3, <2>2 DEF WorkerStart, PCs, Checking, Running
  <1>4. CASE ListPending(w)
    <2>1. RowAgreesWithStatus' BY <1>2, <1>4 DEF ListPending
    <2>2. CASE Goto(w, "polling")
      BY <1>1, <1>4, <2>1, <2>2 DEF ListPending, PCs, Checking, Running
    <2>3. CASE Goto(w, "checking")
      <3>1. ASSUME NEW d \in Docs, Present(seen'[w][d])
            PROVE  d <= created' /\ row'[d] = seen'[w][d]
        <4>1. seen'[w][d] = row[d] /\ row'[d] = row[d] /\ created' = created
          BY <1>4, <3>1 DEF ListPending, Present, Absent
        <4>2. d <= created
          BY <3>1, <4>1, ConstantsAssumption DEF DedicatedInv, Present, Absent, Docs
        <4>3. QED BY <4>1, <4>2
      <3>2. QED BY <1>0, <2>1, <2>3, <3>1 DEF CopiesInv, Goto, Running
    <2>4. QED BY <1>4, <2>2, <2>3 DEF ListPending
  <1>5. CASE CheckSource(w)
    <2>1. PICK d \in Docs, l \in Rows :
            /\ Present(seen[w][d])
            /\ (l = seen[w][d] /\ pc[w] = "checking") \/ l = row[d]
            /\ SourceChecked(w, d, l)
      BY <1>5, CheckSourceCases DEF Unchecked
    <2>2. pc[w] \in Checking /\ UNCHANGED created BY <1>5, CheckSourceCases
    <2>3. RowAgreesWithStatus'
      <3>1. CASE UNCHANGED <<row, chunked>>
        BY <1>2, <3>1
      <3>2. CASE /\ Present(row[d])
                 /\ row' = [row EXCEPT ![d] = Flush(@, l, Failed(l, "missing"))]
                 /\ chunked' = chunked \ {d}
        <4>1. l = row[d] BY <2>1, <3>2 DEF CopiesInv
        <4>2. Failed(l, "missing") \in Rows /\ Agrees(Failed(l, "missing"))
          BY RowTypes, AgreesAssigned
        <4>3. row' = [row EXCEPT ![d] = Failed(l, "missing")]
          BY <3>2, <4>1, <4>2, FlushCurrent
        <4>4. Failed(l, "missing").status # "processed" BY StatusAssigned
        <4>5. QED BY <3>2, <4>2, <4>3, <4>4, RowWritten DEF CopiesInv
      <3>3. QED BY <2>1, <3>1, <3>2 DEF SourceChecked
    <2>4. CASE Raise(w)
      BY <1>1, <2>2, <2>3, <2>4 DEF Raise, PCs, Checking, Running
    <2>5. CASE Goto(w, "rereading")
      BY <1>1, <2>2, <2>3, <2>5 DEF PCs, Checking, Running
    <2>6. CASE /\ UNCHANGED pc
               /\ seen' = [seen EXCEPT ![w] = [@ EXCEPT ![d] = Absent]]
               /\ \A e \in Docs : e # d => row'[e] = row[e]
      <3>1. \A e \in Docs : seen'[w][e] = IF e = d THEN Absent ELSE seen[w][e]
        BY <2>6
      <3>2. ~Present(Absent) BY DEF Present, Absent
      <3>3. pc[w] = "checking" => \A e \in Docs : Present(seen'[w][e]) =>
                e <= created /\ (Present(row'[e]) => row'[e] = seen'[w][e])
        BY <2>6, <3>1, <3>2 DEF CopiesInv
      <3>4. QED BY <1>0, <2>2, <2>3, <2>6, <3>3 DEF CopiesInv, Checking, Running
    <2>7. QED BY <2>1, <2>4, <2>5, <2>6 DEF SourceChecked
  <1>6. CASE RunBatch(w)
    BY <1>1, <1>2, <1>6 DEF RunBatch, PCs, Checking, Running
  <1>7. QED BY <1>3, <1>4, <1>5, <1>6, CopiesJobStep DEF WorkerStep

\* The handlers only insert and delete rows, and never an id again.
LEMMA CopiesHandlerStep ==
    ASSUME NoRetries, TypeOK, DedicatedInv, CopiesInv,
           NEW h \in Handlers, HandlerStep(h) \/ UserStep(h)
    PROVE  CopiesInv'
  <1> USE DEF TypeOK
  <1>0. /\ h \in Procs /\ ~ProcessInApi /\ "retry" \notin UserOps
        /\ \A w \in Workers : w \in Procs /\ w # h
        /\ \A g \in Handlers : g \in Procs
    BY ConstantsAssumption DEF NoRetries, DedicatedWorker, Procs
  <1>1. ASSUME NEW label \in {"idle", "unlink"}, Goto(h, label) \/ UNCHANGED pc,
               \A w \in Workers : job'[w] = job[w] /\ view'[w] = view[w],
               UNCHANGED seen, RowAgreesWithStatus', created <= created', created' \in Nat,
               \A d \in Docs : d <= created =>
                   row'[d] = row[d] \/ ~Present(row'[d])
        PROVE  CopiesInv'
    <2>1. /\ \A w \in Workers : pc'[w] = pc[w]
          /\ \A g \in Handlers : pc'[g] # "retry"
      BY <1>0, <1>1 DEF Goto, CopiesInv
    <2>2. ASSUME NEW w \in Workers, pc[w] \in {"claim"} \cup Running
          PROVE  /\ job[w] <= created'
                 /\ Present(row'[job[w]]) => row'[job[w]] = view[w]
      <3>1. job[w] \in Docs /\ job[w] <= created
        BY <1>0, <2>2 DEF CopiesInv
      <3>2. created \in Nat /\ job[w] \in Nat BY <3>1, ConstantsAssumption DEF Docs
      <3>3. QED BY <1>1, <2>2, <3>1, <3>2 DEF CopiesInv
    <2>3. ASSUME NEW w \in Workers, pc[w] = "checking", NEW d \in Docs, Present(seen[w][d])
          PROVE  d <= created' /\ (Present(row'[d]) => row'[d] = seen[w][d])
      <3>1. d <= created /\ d \in Nat /\ created \in Nat
        BY <2>3, ConstantsAssumption DEF CopiesInv, Docs
      <3>2. QED BY <1>1, <2>3, <3>1 DEF CopiesInv
    <2>4. QED BY <1>1, <2>1, <2>2, <2>3 DEF CopiesInv
  <1>2. CASE Upload(h) \/ UploadUnconfirmed(h)
    <2>1. /\ created + 1 \in Docs /\ created' = created + 1 /\ created \in Nat
          /\ row' = [row EXCEPT ![created + 1] = NewRow]
          /\ UNCHANGED <<chunked, job, view, seen>>
      BY <1>2, ConstantsAssumption DEF Upload, UploadUnconfirmed, Docs
    <2>2. RowAgreesWithStatus'
      <3>1. PICK d \in Docs : d = created + 1 BY <2>1
      <3>2. NewRow \in Rows /\ Agrees(NewRow) /\ NewRow.status # "processed"
        BY RowTypes, AgreesAssigned, StatusAssigned
      <3>3. QED BY <2>1, <3>1, <3>2, RowWritten DEF CopiesInv
    <2>3. \A d \in Docs : d <= created => row'[d] = row[d]
      BY <2>1 DEF Docs
    <2>4. Goto(h, "idle") \/ UNCHANGED pc
      BY <1>0, <1>2 DEF Upload, UploadUnconfirmed, StartBackgroundJob
    <2>5. QED BY <1>1, <2>1, <2>2, <2>3, <2>4
  <1>3. ASSUME NEW d \in Docs, RetryLoad(h, d) PROVE FALSE
    BY <1>0, <1>3 DEF RetryLoad
  <1>4. ASSUME NEW d \in Docs, DeleteRow(h, d) PROVE CopiesInv'
    <2>1. /\ row' = [row EXCEPT ![d] = Absent] /\ chunked' = chunked \ {d}
          /\ UNCHANGED <<created, view, seen>> /\ Goto(h, "unlink")
          /\ job' = [job EXCEPT ![h] = d] /\ created \in Nat
      BY <1>4, ConstantsAssumption DEF DeleteRow, ChunksWithout
    <2>2. ~Present(Absent) BY DEF Present, Absent
    <2>3. RowAgreesWithStatus'
      <3>1. Absent \in Rows /\ Agrees(Absent) /\ Absent.status # "processed"
        BY RowTypes, AgreesAssigned, StatusAssigned
      <3>2. QED BY <2>1, <3>1, RowWritten DEF CopiesInv
    <2>4. QED BY <1>0, <1>1, <2>1, <2>2, <2>3
  <1>5. CASE RetryWrite(h)
    BY <1>5 DEF RetryWrite, CopiesInv
  <1>6. CASE UnlinkFile(h)
    <2>1. RowAgreesWithStatus'
      BY <1>6 DEF UnlinkFile, CopiesInv, RowAgreesWithStatus
    <2>2. QED BY <1>0, <1>1, <1>6, <2>1, ConstantsAssumption DEF UnlinkFile
  <1>7. CASE JobStep(h)
    BY <1>0, <1>7 DEF JobStep, LoadJob, FinishBatch, Claim, ReportExtracting,
       ReportIndexing, Extract, Store, Fail, DedicatedInv
  <1>8. QED BY <1>2, <1>3, <1>4, <1>5, <1>6, <1>7 DEF HandlerStep, UserStep

\* Where one worker does all the processing and nobody retries, what the API
\* answers about a document is of one piece: every column agrees with the
\* status and with the chunks, whatever crashes, requeues, lost files and
\* deletions come in between.
THEOREM DedicatedRowAgrees ==
    ASSUME NoRetries
    PROVE  Spec => []RowAgreesWithStatus
  <1>0. DedicatedWorker BY DEF NoRetries
  <1>1. Init => CopiesInv
    BY ConstantsAssumption
    DEF Init, CopiesInv, RowAgreesWithStatus, Absent, Procs, Running
  <1>2. TypeOK /\ DedicatedInv /\ CopiesInv /\ [Next]_vars => CopiesInv'
    <2> SUFFICES ASSUME TypeOK, DedicatedInv, CopiesInv, [Next]_vars PROVE CopiesInv'
      OBVIOUS
    <2>1. CASE UNCHANGED vars
      BY <2>1 DEF vars, CopiesInv, RowAgreesWithStatus
    <2>2. ASSUME NEW w \in Workers, Crash(w) PROVE CopiesInv'
      <3>1. /\ w \in Procs /\ pc'[w] = "idle" /\ \A v \in Workers : v = w
            /\ \A g \in Handlers : g \in Procs /\ g # w /\ pc'[g] = pc[g]
        BY <1>0, <2>2, ConstantsAssumption
        DEF Crash, Raise, Goto, Procs, DedicatedWorker, TypeOK
      <3>2. RowAgreesWithStatus'
        BY <2>2 DEF Crash, CopiesInv, RowAgreesWithStatus
      <3>3. QED BY <3>1, <3>2 DEF CopiesInv, Running
    <2>3. ASSUME ApiCrash \/ \E h \in Handlers : Crash(h) PROVE CopiesInv'
      <3>1. /\ \A w \in Workers : w \in Procs /\ w \notin Handlers
            /\ \A g \in Handlers : g \in Procs
        BY ConstantsAssumption DEF Procs
      <3>2. /\ \A w \in Workers : pc'[w] = pc[w] /\ job'[w] = job[w] /\ view'[w] = view[w]
            /\ \A g \in Handlers : pc'[g] \in {"idle", pc[g]}
            /\ UNCHANGED <<created, row, chunked, seen>>
        BY <2>3, <3>1 DEF ApiCrash, Crash, Raise, Goto, DropSession, TypeOK
      <3>3. RowAgreesWithStatus'
        BY <3>2 DEF CopiesInv, RowAgreesWithStatus
      <3>4. QED BY <3>2, <3>3 DEF CopiesInv
    <2>4. QED BY <1>0, <2>1, <2>2, <2>3, CopiesWorkerStep, CopiesHandlerStep
          DEF Next, DedicatedWorker, Procs
  <1>3. CopiesInv => RowAgreesWithStatus BY DEF CopiesInv
  <1>4. QED BY <1>0, <1>1, <1>2, <1>3, TypeCorrect, DedicatedInvariant, PTL DEF Spec
=============================================================================

------------------------- MODULE UploadStorageProofs -------------------------
(***************************************************************************)
(* Proofs about UploadStorage, for any set of uploads and contents and any *)
(* number of faults.                                                       *)
(***************************************************************************)
EXTENDS UploadStorage, TLAPS

USE DEF InFlight, Running, PathOf

\* The uploads whose INSERT is over: only they have rows or are deleted.
Finished(r) == pc[r] \in {"accept", "undo", "accepted", "refused", "cut"}

\* Why a row has its file: the file is there before the row, a deletion takes
\* the row before the file, and a row is never inserted twice.
FileInv ==
    /\ pc \in [Uploads -> PCs]
    /\ rows \subseteq Uploads /\ deleting \subseteq Uploads
    /\ \A r \in Uploads : pc[r] = "insert" => r \in stored
    /\ \A r \in rows \cup deleting : Finished(r)
    /\ \A r \in rows : r \notin deleting
    /\ \A r \in rows : pc[r] \in {"accept", "accepted"} => r \in stored

\* What each upload may have on disk unless a fault keeps it from cleaning up.
LeakInv ==
    \A r \in Uploads \ abandoned :
           /\ r \in temp => pc[r] \in InFlight
           /\ r \in partial => pc[r] = "rename"
           /\ r \in stored => \/ pc[r] \in {"insert", "undo"}
                              \/ r \in rows \cup deleting

LEMMA FileInitially == Init => FileInv
  BY DEF Init, FileInv, PCs

\* The steps of one upload keep FileInv.
LEMMA FileUpload ==
  ASSUME FileInv, NEW r \in Uploads, Receive(r) \/ UploadStep(r)
  PROVE  FileInv'
  <1>1. CASE Receive(r)
    BY <1>1 DEF FileInv, Finished, PCs, Receive, Goto
  <1>2. CASE RejectBody(r)
    BY <1>2 DEF FileInv, Finished, PCs, RejectBody, Goto
  <1>3. CASE Received(r)
    BY <1>3 DEF FileInv, Finished, PCs, Received, Goto
  <1>4. CASE Validate(r)
    BY <1>4 DEF FileInv, Finished, PCs, Validate, Goto
  <1>5. CASE Copy(r)
    BY <1>5 DEF FileInv, Finished, PCs, Copy, Goto
  <1>6. CASE Rename(r)
    BY <1>6 DEF FileInv, Finished, PCs, Rename, Goto
  <1>7. CASE Insert(r)
    BY <1>7 DEF FileInv, Finished, PCs, Insert, Goto
  <1>8. CASE Answer(r)
    BY <1>8 DEF FileInv, Finished, PCs, Answer, Undone, Goto
  <1>9. QED
    BY <1>1, <1>2, <1>3, <1>4, <1>5, <1>6, <1>7, <1>8 DEF UploadStep

LEMMA FileStep == FileInv /\ [Next]_vars => FileInv'
  <1> SUFFICES ASSUME FileInv, [Next]_vars PROVE FileInv'
    OBVIOUS
  <1>1. ASSUME NEW r \in Uploads, Receive(r) \/ UploadStep(r) PROVE FileInv'
    BY <1>1, FileUpload
  <1>2. ASSUME NEW d \in Uploads, DeleteRow(d) PROVE FileInv'
    BY <1>2 DEF FileInv, Finished, DeleteRow
  <1>3. ASSUME NEW d \in Uploads, UnlinkFile(d) PROVE FileInv'
    BY <1>3 DEF FileInv, Finished, UnlinkFile
  <1>4. ASSUME NEW r \in Uploads, UnlinkFails(r) PROVE FileInv'
    BY <1>4 DEF FileInv, Finished, PCs, UnlinkFails, Goto
  <1>5. CASE Crash
    BY <1>5 DEF FileInv, Finished, Crash, PCs
  <1>6. CASE UNCHANGED vars
    BY <1>6 DEF FileInv, Finished, vars
  <1>7. QED BY <1>1, <1>2, <1>3, <1>4, <1>5, <1>6 DEF Next

\* An accepted document keeps its PDF until it is deleted: create_document
\* and delete_document order their writes so that no crash, no failed INSERT
\* and no other upload can separate a row from its file.
THEOREM AcceptedKeepsFile == Spec => []AcceptedHasFile
  <1>1. FileInv => AcceptedHasFile
    BY DEF FileInv, AcceptedHasFile
  <1>2. QED BY FileInitially, FileStep, <1>1, PTL DEF Spec

LEMMA LeakInitially == Init => LeakInv
  BY DEF Init, LeakInv

LEMMA LeakUpload ==
  ASSUME FileInv, LeakInv, NEW r \in Uploads, Receive(r) \/ UploadStep(r)
  PROVE  LeakInv'
  <1>1. CASE Receive(r)
    BY <1>1 DEF FileInv, LeakInv, Finished, PCs, Receive, faulty, Goto
  <1>2. CASE RejectBody(r)
    BY <1>2 DEF FileInv, LeakInv, Finished, PCs, RejectBody, faulty, Goto
  <1>3. CASE Received(r)
    BY <1>3 DEF FileInv, LeakInv, Finished, PCs, Received, faulty, Goto
  <1>4. CASE Validate(r)
    BY <1>4 DEF FileInv, LeakInv, Finished, PCs, Validate, faulty, Goto
  <1>5. CASE Copy(r)
    BY <1>5 DEF FileInv, LeakInv, Finished, PCs, Copy, faulty, Goto
  <1>6. CASE Rename(r)
    BY <1>6 DEF FileInv, LeakInv, Finished, PCs, Rename, faulty, PartialRemoved, Goto
  <1>7. CASE Insert(r)
    BY <1>7 DEF FileInv, LeakInv, Finished, PCs, Insert, faulty, Goto
  <1>8. CASE Answer(r)
    BY <1>8 DEF FileInv, LeakInv, Finished, PCs, Answer, faulty, Undone, Goto
  <1>9. QED
    BY <1>1, <1>2, <1>3, <1>4, <1>5, <1>6, <1>7, <1>8 DEF UploadStep

LEMMA LeakStep == FileInv /\ LeakInv /\ [Next]_vars => LeakInv'
  <1> SUFFICES ASSUME FileInv, LeakInv, [Next]_vars PROVE LeakInv'
    OBVIOUS
  <1>1. ASSUME NEW r \in Uploads, Receive(r) \/ UploadStep(r)
        PROVE  LeakInv'
    BY <1>1, LeakUpload
  <1>2. ASSUME NEW d \in Uploads, DeleteRow(d) PROVE LeakInv'
    BY <1>2 DEF FileInv, LeakInv, Finished, DeleteRow, faulty
  <1>3. ASSUME NEW d \in Uploads, UnlinkFile(d) PROVE LeakInv'
    BY <1>3 DEF FileInv, LeakInv, Finished, UnlinkFile, faulty
  <1>4. ASSUME NEW r \in Uploads, UnlinkFails(r) PROVE LeakInv'
    BY <1>4 DEF FileInv, LeakInv, UnlinkFails, Fault, Goto
  <1>5. CASE Crash
    BY <1>5 DEF FileInv, LeakInv, Crash, Fault
  <1>6. CASE UNCHANGED vars
    BY <1>6 DEF LeakInv, vars, faulty
  <1>7. QED BY <1>1, <1>2, <1>3, <1>4, <1>5, <1>6 DEF Next

\* No error path of an upload and no deletion leaves a file that belongs to
\* nothing, unless a crash or a failing unlink met it; what meets one leaves the
\* files of the others alone.
THEOREM NoLeakOfOthers == Spec => []NothingLeaks
  <1>1. FileInv /\ LeakInv => NothingLeaks
    BY DEF FileInv, LeakInv, Finished, NothingLeaks
  <1>2. QED
    BY FileInitially, FileStep, LeakInitially, LeakStep, <1>1, PTL DEF Spec

LEMMA TypeInitially == Init => TypeOK
  BY UploadAssumption DEF Init, TypeOK, PCs

\* A step into the stretch without an await needs the loop, so that at most
\* one upload is in it.
LEMMA TypeUpload ==
  ASSUME TypeOK, NEW r \in Uploads, Receive(r) \/ UploadStep(r)
  PROVE  TypeOK'
  <1> USE DEF TypeOK, PCs, Goto, LoopFree, faulty
  <1>1. CASE Receive(r)
    BY <1>1 DEF Receive
  <1>2. CASE RejectBody(r)
    BY <1>2 DEF RejectBody
  <1>3. CASE Received(r)
    BY <1>3 DEF Received
  <1>4. CASE Validate(r)
    BY <1>4 DEF Validate
  <1>5. CASE Copy(r)
    BY <1>5 DEF Copy
  <1>6. CASE Rename(r)
    BY <1>6 DEF Rename, PartialRemoved
  <1>7. CASE Insert(r)
    BY <1>7 DEF Insert
  <1>8. CASE Answer(r)
    BY <1>8 DEF Answer, Undone
  <1>9. QED
    BY <1>1, <1>2, <1>3, <1>4, <1>5, <1>6, <1>7, <1>8 DEF UploadStep

LEMMA TypeStep == TypeOK /\ [Next]_vars => TypeOK'
  <1> SUFFICES ASSUME TypeOK, [Next]_vars PROVE TypeOK'
    OBVIOUS
  <1>1. ASSUME NEW r \in Uploads, Receive(r) \/ UploadStep(r) PROVE TypeOK'
    BY <1>1, TypeUpload
  <1>2. ASSUME NEW d \in Uploads, DeleteRow(d) PROVE TypeOK'
    BY <1>2 DEF TypeOK, DeleteRow, faulty
  <1>3. ASSUME NEW d \in Uploads, UnlinkFile(d) PROVE TypeOK'
    BY <1>3 DEF TypeOK, UnlinkFile, faulty
  <1>4. ASSUME NEW r \in Uploads, UnlinkFails(r) PROVE TypeOK'
    BY <1>4, UploadAssumption DEF TypeOK, PCs, UnlinkFails, Fault, Goto, LoopFree
  <1>5. CASE Crash
    BY <1>5, UploadAssumption DEF TypeOK, PCs, Crash, Fault
  <1>6. CASE UNCHANGED vars
    BY <1>6 DEF TypeOK, vars, faulty
  <1>7. QED BY <1>1, <1>2, <1>3, <1>4, <1>5, <1>6 DEF Next

\* The variables keep their types, and of all uploads at most one is between
\* two awaits: the event loop makes the check for a duplicate and the INSERT
\* one stretch.
THEOREM TypeCorrect == Spec => []TypeOK
  BY TypeInitially, TypeStep, PTL DEF Spec
=============================================================================

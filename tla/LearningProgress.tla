--------------------------- MODULE LearningProgress ---------------------------
(***************************************************************************)
(* The learning_progress row of one document and one owner: the handlers   *)
(* review_document and update_document_progress (api.py), each a thread    *)
(* with a session of its own, and delete_document, whose cascade takes the *)
(* row along.  PostgreSQL runs them at READ COMMITTED.                     *)
(***************************************************************************)
EXTENDS Naturals, FiniteSets

CONSTANTS
    Requests,       \* requests that are sent, at any time and at once
    NoOne           \* the row is locked by nobody

ASSUME RequestsAssumption == NoOne \notin Requests /\ IsFiniteSet(Requests)

VARIABLES
    document,   \* whether the document's row exists
    progress,   \* the stored row
    lock,       \* who holds the row's lock
    pc,         \* where each request is
    op,         \* what it asks for
    loaded      \* the row its session has loaded

vars == <<document, progress, lock, pc, op, loaded>>

Ops == {"none", "review", "master", "unmaster"}
PCs == {"new", "load", "write", "refresh", "ok", "failed"}

\* The columns review_count and mastered; "absent" stands for no row.
Marks == {"absent", "unmastered", "mastered"}
Progress == [count : Nat, mark : Marks]
NoProgress == [count |-> 0, mark |-> "absent"]
Present(p) == p.mark # "absent"

Init ==
    /\ document = TRUE /\ progress = NoProgress /\ lock = NoOne
    /\ pc = [r \in Requests |-> "new"]
    /\ op = [r \in Requests |-> "none"]
    /\ loaded = [r \in Requests |-> NoProgress]

Goto(r, label) == pc' = [pc EXCEPT ![r] = label]

\* get_document finds the document (otherwise 404) before anything else.
Open(r) ==
    /\ pc[r] = "new"
    /\ \E o \in Ops \ {"none"} : op' = [op EXCEPT ![r] = o]
    /\ Goto(r, IF document THEN "load" ELSE "failed")
    /\ UNCHANGED <<document, progress, lock, loaded>>

\* Mutated form: a plain SELECT.
LockedByNobody(r) == lock' = lock

\* SELECT ... FOR UPDATE waits for the lock and takes it; a row that does not
\* exist cannot be locked.
LockedForUpdate(r) ==
    IF Present(progress) THEN lock = NoOne /\ lock' = r ELSE lock' = lock

\* mark_learning_reviewed locks the row, set_learning_mastered does not.
Load(r) ==
    /\ pc[r] = "load" /\ Goto(r, "write")
    /\ IF op[r] = "review" THEN LockedForUpdate(r) ELSE lock' = lock
    /\ loaded' = [loaded EXCEPT ![r] = progress]
    /\ UNCHANGED <<document, progress, op>>

\* What a request assigns to the row it has loaded or made.
Assigned(o, p) ==
    [count |-> IF o = "review" THEN p.count + 1 ELSE p.count,
     mark  |-> CASE o = "master" -> "mastered"
                 [] o = "review" /\ Present(p) -> p.mark
                 [] OTHER -> "unmastered"]

\* Mutated form: the UPDATE names every column.
AllColumns(old, new) == new

\* The UPDATE names the columns whose value changed.
ChangedColumns(old, new) ==
    [count |-> IF new.count = old.count THEN progress.count ELSE new.count,
     mark  |-> IF new.mark = old.mark THEN progress.mark ELSE new.mark]

\* Mutated form: the transaction stays open.
LockKept(r) == lock

LockReleased(r) == IF lock = r THEN NoOne ELSE lock

\* Commit: an INSERT needs the document and is refused by the unique key if
\* the row exists by now; an UPDATE waits for the lock and needs the row.
Write(r) ==
    LET new == Assigned(op[r], loaded[r])
    IN  /\ pc[r] = "write"
        /\ \/ /\ ~Present(loaded[r]) /\ document /\ ~Present(progress)
              /\ progress' = new
              /\ Goto(r, "refresh")
           \/ /\ Present(loaded[r]) /\ Present(progress)
              /\ lock \in {NoOne, r} \/ new = loaded[r]
              /\ progress' = ChangedColumns(loaded[r], new)
              /\ Goto(r, "refresh")
           \/ /\ IF Present(loaded[r]) THEN ~Present(progress)
                                      ELSE ~document \/ Present(progress)
              /\ Goto(r, "failed")
              /\ UNCHANGED progress
        /\ lock' = LockReleased(r)
        /\ UNCHANGED <<document, op, loaded>>

\* The refresh after the commit answers with the row as it is then, or with
\* 500 when it is gone.
Refresh(r) ==
    /\ pc[r] = "refresh"
    /\ Goto(r, IF Present(progress) THEN "ok" ELSE "failed")
    /\ UNCHANGED <<document, progress, lock, op, loaded>>

\* delete_document: the cascade waits for the row's lock.
Delete ==
    /\ document /\ lock = NoOne
    /\ document' = FALSE /\ progress' = NoProgress
    /\ UNCHANGED <<lock, pc, op, loaded>>

\* The API dies: open transactions are rolled back, answers are lost.
Crash ==
    /\ \E r \in Requests : pc[r] \in {"load", "write", "refresh"}
    /\ pc' = [r \in Requests |->
                 IF pc[r] \in {"load", "write", "refresh"} THEN "failed" ELSE pc[r]]
    /\ lock' = NoOne
    /\ UNCHANGED <<document, progress, op, loaded>>

Next ==
    \/ \E r \in Requests : Open(r) \/ Load(r) \/ Write(r) \/ Refresh(r)
    \/ Delete \/ Crash

Spec == Init /\ [][Next]_vars

-----------------------------------------------------------------------------
(* Properties.                                                             *)

\* Every variable has its type; only a review between its SELECT and its
\* commit holds the lock.
TypeOK ==
    /\ document \in BOOLEAN
    /\ progress \in Progress
    /\ lock \in Requests \cup {NoOne}
    /\ pc \in [Requests -> PCs]
    /\ op \in [Requests -> Ops]
    /\ loaded \in [Requests -> Progress]
    /\ lock # NoOne => pc[lock] = "write" /\ op[lock] = "review"

Reviews(labels) == {r \in Requests : op[r] = "review" /\ pc[r] \in labels}

\* "Count a review session" (README.md:307): while the document exists, every
\* review that was answered with success is counted, and none twice, although
\* the count is read, incremented in Python and written back while other
\* reviews and PUTs of the same row run.
ReviewsCounted ==
    document =>
        /\ Cardinality(Reviews({"ok"})) <= progress.count
        /\ progress.count <= Cardinality(Reviews(PCs))

\* A PUT of the value its session has loaded dirties no column: it took effect,
\* which was none, when the value was read.
SetBefore(r) ==
    /\ pc[r] = "write" /\ Present(loaded[r])
    /\ Assigned(op[r], loaded[r]) = loaded[r]

StateOf(r) ==
    CASE pc[r] = "new" -> "new"
      [] pc[r] = "refresh" \/ SetBefore(r) -> "effective"
      [] pc[r] = "ok" -> "acknowledged"
      [] pc[r] = "failed" -> "unanswered"
      [] OTHER -> "arrived"

Atomic == INSTANCE AtomicProgress
    WITH asked <- op, state <- [r \in Requests |-> StateOf(r)]

\* Reviews and PUTs are atomic, although each is a SELECT and a later UPDATE of
\* some columns: every acknowledged one took effect once, at one instant while
\* it ran, and what it left of the other column is what others have put there.
RequestsAreAtomic == Atomic!Spec
=============================================================================

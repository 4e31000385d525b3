-------------------------- MODULE DocumentLifecycle --------------------------
(***************************************************************************)
(* What document processing promises where one worker does all of it: a    *)
(* document goes from queued to processed or failed and back, one document *)
(* is being worked on at a time, and a search finds a document exactly     *)
(* from the step that processes it to one that retries or deletes it.      *)
(* Rows, sessions, columns, phases, attempts, queues and files are not     *)
(* mentioned.                                                              *)
(***************************************************************************)
CONSTANT Docs       \* documents that may be uploaded

VARIABLES
    status,         \* what the API says of each document, "none" before its
                    \* upload and "deleted" after its deletion
    searchable,     \* the documents a search can find
    working         \* the document the worker has claimed, none or one

vars == <<status, searchable, working>>

Init ==
    /\ status = [d \in Docs |-> "none"]
    /\ searchable = {}
    /\ working = {}

Stored(d) == status[d] \notin {"none", "deleted"}

\* Someone uploads a document.
Submit(d) ==
    /\ status[d] = "none"
    /\ status' = [status EXCEPT ![d] = "pending"]
    /\ UNCHANGED <<searchable, working>>

\* A document that waits or has failed is claimed, never one that is processed
\* or that counts as claimed already.  A claim the worker is not told of leaves
\* it working on nothing.
Take(d) ==
    /\ working = {} /\ status[d] \in {"pending", "failed"}
    /\ status' = [status EXCEPT ![d] = "processing"]
    /\ working' \in {{d}, {}}
    /\ UNCHANGED searchable

\* Its chunks and its new status appear together.  A retry may have made it
\* pending again meanwhile.
Finish(d) ==
    /\ working = {d} /\ status[d] \in {"pending", "processing", "failed"}
    /\ status' = [status EXCEPT ![d] = "processed"]
    /\ searchable' = searchable \cup {d}
    /\ working' = {}

\* The document being worked on fails, or one whose file is missing.
GiveUp(d) ==
    /\ working \in {{}, {d}} /\ status[d] \in {"pending", "processing", "failed"}
    /\ status' = [status EXCEPT ![d] = "failed"]
    /\ working' = {}
    /\ UNCHANGED searchable

\* The worker stops working on a document, whose status stays.
Abandon ==
    /\ working' = {}
    /\ UNCHANGED <<status, searchable>>

\* A starting worker puts what counts as claimed back into the queue.
Requeue ==
    /\ working = {}
    /\ status' = [d \in Docs |-> IF status[d] = "processing" THEN "pending" ELSE status[d]]
    /\ UNCHANGED <<searchable, working>>

\* A retry takes a document out of the search and queues it, unless it had
\* read the status "pending" and the worker was faster.
Retry(d) ==
    /\ Stored(d)
    /\ \E s \in {status[d], "pending"} : status' = [status EXCEPT ![d] = s]
    /\ searchable' = searchable \ {d}
    /\ UNCHANGED working

\* A deletion is final.
Delete(d) ==
    /\ Stored(d)
    /\ status' = [status EXCEPT ![d] = "deleted"]
    /\ searchable' = searchable \ {d}
    /\ UNCHANGED working

Next ==
    \/ \E d \in Docs : \/ Submit(d) \/ Take(d) \/ Finish(d) \/ GiveUp(d)
                       \/ Retry(d) \/ Delete(d)
    \/ Abandon \/ Requeue

Spec == Init /\ [][Next]_vars
=============================================================================

---------------------------- MODULE UploadStorage ----------------------------
(***************************************************************************)
(* Uploading and deleting a PDF: the two temporary files and the stored    *)
(* file an upload leaves on disk against the row it leaves in "documents"  *)
(* (api.create_document and delete_document, DocumentRepository.add).      *)
(*                                                                         *)
(* A document is named by the upload that made it.  One owner is enough:   *)
(* content hashes are compared within an owner.  create_document is a      *)
(* coroutine, so between two awaits no other upload of the (single) API    *)
(* process moves; delete_document runs in a thread and interleaves.        *)
(***************************************************************************)
EXTENDS Naturals, FiniteSets

CONSTANTS
    Uploads,        \* requests to POST /documents
    Pdfs,           \* contents that begin with the PDF header
    Others,         \* contents that do not
    NoContent,      \* what a request that has not been sent holds
    MaxFaults,      \* bound on crashes of the API process and failing unlinks
    AcksMayBeLost   \* whether add's refresh may fail after its commit

ASSUME UploadAssumption ==
    /\ Pdfs \cap Others = {} /\ NoContent \notin Pdfs \cup Others
    /\ MaxFaults \in Nat /\ AcksMayBeLost \in BOOLEAN

VARIABLES
    pc,         \* where each upload is
    content,    \* what it sends, known by its hash
    temp,       \* uploads whose temporary PDF exists
    partial,    \* uploads whose ".tmp" file exists in the storage directory
    stored,     \* paths of the PDFs in the storage directory
    rows,       \* the documents table
    deleting,   \* documents whose row is deleted and whose PDF is to be unlinked
    abandoned,  \* history: uploads and deletions a fault kept from cleaning up
    faults      \* faults so far

faulty == <<abandoned, faults>>
vars == <<pc, content, temp, partial, stored, rows, deleting, faulty>>

\* "receiving" awaits the request's body; "validate" to "insert" run without
\* an await; "refuse", "undo" and "accept" are the finally block with neither,
\* with persistent_path only, and with the document; "cut" is lost in a crash.
Running == {"validate", "copy", "rename", "insert"}
InFlight == {"receiving", "refuse", "undo", "accept"} \cup Running
PCs == {"new", "accepted", "refused", "cut"} \cup InFlight

\* Mutated form: files named by content, as a store without uuid4 might.
PathByContent(r) == CHOOSE q \in Uploads : content[q] = content[r]

\* upload-<uuid4>.pdf: a path of its own for every upload.
PathOf(r) == r

Init ==
    /\ pc = [r \in Uploads |-> "new"]
    /\ content = [r \in Uploads |-> NoContent]
    /\ temp = {} /\ partial = {} /\ stored = {}
    /\ rows = {} /\ deleting = {}
    /\ abandoned = {} /\ faults = 0

-----------------------------------------------------------------------------
(* create_document.                                                        *)

\* Mutated form: a handler that runs in a thread.
LoopNotNeeded(r) == TRUE

\* The event loop may run r: no other upload is between two awaits.
LoopFree(r) == \A q \in Uploads \ {r} : pc[q] \notin Running

Goto(r, label) == LoopFree(r) /\ pc' = [pc EXCEPT ![r] = label]

\* has_content_hash, and what the unique key of (owner, hash) refuses.
Duplicate(r) == \E q \in rows : content[q] = content[r]

\* A request with a PDF name and type begins to be read into a temporary file.
Receive(r) ==
    /\ pc[r] = "new" /\ Goto(r, "receiving")
    /\ \E c \in Pdfs \cup Others : content' = [content EXCEPT ![r] = c]
    /\ temp' = temp \cup {r}
    /\ UNCHANGED <<partial, stored, rows, deleting, faulty>>

\* The body is too large, or reading or writing it fails: 413 or 500, and the
\* temporary file goes at once.
RejectBody(r) ==
    /\ pc[r] = "receiving" /\ Goto(r, "refuse")
    /\ temp' = temp \ {r}
    /\ UNCHANGED <<content, partial, stored, rows, deleting, faulty>>

Received(r) ==
    /\ pc[r] = "receiving" /\ Goto(r, "validate")
    /\ UNCHANGED <<content, temp, partial, stored, rows, deleting, faulty>>

\* The header and the hash are looked at: 400, 409, or on with the upload; the
\* database may fail (500) whatever they are.
Validate(r) ==
    /\ pc[r] = "validate"
    /\ \/ Goto(r, "refuse")
       \/ content[r] \in Pdfs /\ ~Duplicate(r) /\ Goto(r, "copy")
    /\ UNCHANGED <<content, temp, partial, stored, rows, deleting, faulty>>

\* _persist_upload copies to a hidden file of the storage directory ...
Copy(r) ==
    /\ pc[r] = "copy" /\ Goto(r, "rename")
    /\ partial' = partial \cup {r}
    /\ UNCHANGED <<content, temp, stored, rows, deleting, faulty>>

\* Mutated form: the hidden file is left behind when the copy fails.
PartialKept(r) == partial

PartialRemoved(r) == partial \ {r}

\* ... and renames it, unless the copy or the rename fails.  The temporary file
\* goes at once.
Rename(r) ==
    /\ pc[r] = "rename"
    /\ \/ /\ Goto(r, "insert")
          /\ partial' = partial \ {r}
          /\ stored' = stored \cup {PathOf(r)}
          /\ temp' = temp \ {r}
       \/ /\ Goto(r, "refuse")
          /\ partial' = PartialRemoved(r)
          /\ UNCHANGED <<temp, stored>>
    /\ UNCHANGED <<content, rows, deleting, faulty>>

\* DocumentRepository.add: inserted, refused by the unique key, failed, or
\* committed without the caller learning of it.
Insert(r) ==
    /\ pc[r] = "insert"
    /\ \/ /\ ~Duplicate(r) /\ Goto(r, "accept")
          /\ rows' = rows \cup {r}
       \/ /\ Goto(r, "undo")
          /\ UNCHANGED rows
       \/ /\ ~Duplicate(r) /\ AcksMayBeLost /\ Goto(r, "undo")
          /\ rows' = rows \cup {r}
    /\ UNCHANGED <<content, temp, partial, stored, deleting, faulty>>

\* persistent_path, when no document was made.
Undone(r) == IF pc[r] = "undo" THEN {PathOf(r)} ELSE {}

\* The finally block, after "await file.close()", and the answer.
Answer(r) ==
    /\ pc[r] \in {"refuse", "undo", "accept"}
    /\ Goto(r, IF pc[r] = "accept" THEN "accepted" ELSE "refused")
    /\ temp' = temp \ {r}
    /\ stored' = stored \ Undone(r)
    /\ UNCHANGED <<content, partial, rows, deleting, faulty>>

UploadStep(r) ==
    \/ RejectBody(r) \/ Received(r) \/ Validate(r) \/ Copy(r)
    \/ Rename(r) \/ Insert(r) \/ Answer(r)

-----------------------------------------------------------------------------
(* delete_document.                                                        *)

DeleteRow(d) ==
    /\ d \in rows
    /\ rows' = rows \ {d}
    /\ deleting' = deleting \cup {d}
    /\ UNCHANGED <<pc, content, temp, partial, stored, faulty>>

UnlinkFile(d) ==
    /\ d \in deleting
    /\ stored' = stored \ {PathOf(d)}
    /\ deleting' = deleting \ {d}
    /\ UNCHANGED <<pc, content, temp, partial, rows, faulty>>

-----------------------------------------------------------------------------
(* Faults.                                                                 *)

Fault(left) ==
    /\ faults < MaxFaults /\ faults' = faults + 1
    /\ abandoned' = abandoned \cup left

\* An unlink fails, an OSError that nobody catches: of the temporary file when
\* the body is rejected, of the hidden file when it is not renamed, of the
\* temporary file when it is (persistent_path is not assigned then), of what
\* the finally block removes, or of a deleted document's PDF.
UnlinkFails(r) ==
    /\ Fault({r})
    /\ \/ /\ pc[r] = "rename" /\ Goto(r, "refuse")
          /\ \/ UNCHANGED <<partial, stored>>
             \/ /\ partial' = partial \ {r}
                /\ stored' = stored \cup {PathOf(r)}
          /\ UNCHANGED deleting
       \/ /\ pc[r] \in {"receiving", "refuse", "undo"} /\ Goto(r, "refused")
          /\ UNCHANGED <<partial, stored, deleting>>
       \/ /\ r \in deleting /\ deleting' = deleting \ {r}
          /\ UNCHANGED <<pc, partial, stored>>
    /\ UNCHANGED <<content, temp, rows>>

\* The API process dies.  Nothing it left on disk is looked for when it starts
\* again.
Crash ==
    LET inFlight == {r \in Uploads : pc[r] \in InFlight}
    IN  /\ deleting \cup inFlight # {}
        /\ Fault(deleting \cup inFlight)
        /\ pc' = [r \in Uploads |-> IF r \in inFlight THEN "cut" ELSE pc[r]]
        /\ deleting' = {}
        /\ UNCHANGED <<content, temp, partial, stored, rows>>

Next ==
    \/ \E r \in Uploads : Receive(r) \/ UploadStep(r)
    \/ \E d \in Uploads : DeleteRow(d) \/ UnlinkFile(d)
    \/ \E r \in Uploads : UnlinkFails(r)
    \/ Crash

Spec == Init /\ [][Next]_vars

-----------------------------------------------------------------------------
(* Properties.                                                             *)

\* Every variable has its type, and at most one upload is between two awaits.
TypeOK ==
    /\ pc \in [Uploads -> PCs]
    /\ content \in [Uploads -> Pdfs \cup Others \cup {NoContent}]
    /\ temp \subseteq Uploads /\ partial \subseteq Uploads
    /\ stored \subseteq Uploads
    /\ rows \subseteq Uploads /\ deleting \subseteq Uploads
    /\ abandoned \subseteq Uploads /\ faults \in 0..MaxFaults
    /\ \A r, q \in Uploads : pc[r] \in Running /\ pc[q] \in Running => r = q

\* "Persistent PDF storage" (README.md:23): a document whose upload was
\* answered 202 keeps its PDF until it is deleted, whatever other uploads of
\* the same PDF, failed inserts, deletions and crashes do.
AcceptedHasFile == \A d \in rows : pc[d] = "accepted" => PathOf(d) \in stored

\* No request leaves a file nobody owns: every file on disk belongs to an
\* upload that is running, a row of the table or a deletion that is running, on
\* every error path of create_document.  What a crash or a failing unlink
\* leaves is its own files: the uploads and deletions it did not meet, before
\* it and after it, clean up.
NothingLeaks ==
    \A r \in Uploads :
        r \in temp \cup partial \cup stored =>
            \/ pc[r] \in InFlight
            \/ r \in deleting
            \/ r \in rows /\ r \notin temp \cup partial
            \/ r \in abandoned
=============================================================================

----------------------------- MODULE Collections -----------------------------
(***************************************************************************)
(* Collections of documents: create_collection, list_collections,          *)
(* add_document_to_collection and remove_document_from_collection (api.py) *)
(* with delete_document, each request a thread with a session of its own   *)
(* that keeps the objects it has loaded (expire_on_commit=False), over the *)
(* tables collections, documents and collection_documents of one owner.    *)
(***************************************************************************)
EXTENDS FiniteSets

CONSTANTS
    Requests,       \* requests that are sent, at any time and at once
    Collection,     \* the names collections can have
    Documents,      \* the documents there are at first
    None            \* no collection, no document

ASSUME CollectionAssumption == None \notin Collection \cup Documents

VARIABLES
    created,    \* the rows of collections
    documents,  \* the rows of documents
    members,    \* the rows of collection_documents
    pc,         \* where each request is
    op,         \* what it asks for
    about,      \* the collection and the document it names
    loaded,     \* the documents (delete: collections) its session has loaded
    answer,     \* the documents its answer lists
    after       \* history: what had ended when a request for a list was sent

vars == <<created, documents, members, pc, op, about, loaded, answer, after>>
tables == <<created, documents, members>>
request == <<op, about, after>>

Ops == {"none", "create", "list", "add", "remove", "delete"}
Working == {"load", "find", "commit", "refresh"}
Reading == {"list", "add", "remove"}
Ended == {"ok", "failed"}     \* failed: 404, 409, 500 or no answer

Init ==
    /\ created \in SUBSET Collection /\ documents = Documents /\ members = {}
    /\ pc = [r \in Requests |-> "new"]
    /\ op = [r \in Requests |-> "none"]
    /\ about = [r \in Requests |-> <<None, None>>]
    /\ loaded = [r \in Requests |-> {}]
    /\ answer = [r \in Requests |-> {}]
    /\ after = [r \in Requests |-> {}]

\* The session and what it has loaded end with the request.
Goto(r, label) ==
    /\ pc' = [pc EXCEPT ![r] = label]
    /\ loaded' = IF label \in Ended THEN [loaded EXCEPT ![r] = {}] ELSE loaded

\* The session loads a set of objects before it goes on, or ends.
GotoWith(r, label, objects) ==
    /\ pc' = [pc EXCEPT ![r] = label]
    /\ loaded' = [loaded EXCEPT ![r] = IF label \in Ended THEN {} ELSE objects]

CollectionOf(r) == about[r][1]
DocumentOf(r) == about[r][2]
Members(c) == {d \in Documents : <<c, d>> \in members}

Send(r, o, c, d, label) ==
    /\ pc[r] = "new" /\ Goto(r, label)
    /\ op' = [op EXCEPT ![r] = o]
    /\ about' = [about EXCEPT ![r] = <<c, d>>]
    /\ after' = [after EXCEPT ![r] =
                    IF o \in Reading THEN {q \in Requests : pc[q] \in Ended} ELSE {}]
    /\ UNCHANGED <<tables, answer>>

Open(r) ==
    \/ \E c \in Collection : \/ Send(r, "create", c, None, "commit")
                             \/ Send(r, "list", c, None, "load")
    \/ \E c \in Collection, d \in Documents, o \in {"add", "remove"} :
        Send(r, o, c, d, "load")
    \/ \E d \in Documents : Send(r, "delete", None, d, "load")

\* CollectionRepository.get and list: the collection with its documents; an
\* addition or removal without its collection is answered 404.
Load(r) ==
    LET c == CollectionOf(r)
    IN  /\ pc[r] = "load" /\ op[r] \in Reading
        /\ GotoWith(r, IF op[r] = "list" THEN "ok"
                       ELSE IF c \notin created THEN "failed"
                       ELSE IF op[r] = "add" THEN "find" ELSE "commit", Members(c))
        /\ answer' = [answer EXCEPT ![r] = IF op[r] = "list" THEN Members(c) ELSE {}]
        /\ UNCHANGED <<tables, request>>

\* delete_document loads the document (otherwise 404) and, in the flush, its
\* collections.
LoadDocument(r) ==
    LET d == DocumentOf(r)
    IN  /\ pc[r] = "load" /\ op[r] = "delete"
        /\ GotoWith(r, IF d \in documents THEN "commit" ELSE "failed",
                       {c \in Collection : <<c, d>> \in members})
        /\ UNCHANGED <<tables, answer, request>>

\* add_document selects the document (otherwise 404).
Find(r) ==
    /\ pc[r] = "find"
    /\ Goto(r, IF DocumentOf(r) \in documents THEN "commit" ELSE "failed")
    /\ UNCHANGED <<tables, answer, request>>

-----------------------------------------------------------------------------
(* Commits.                                                                *)

\* The INSERT is refused by the unique key on owner and name (409).
CommitCreate(r) ==
    LET c == CollectionOf(r)
    IN  /\ pc[r] = "commit" /\ op[r] = "create"
        /\ Goto(r, IF c \in created THEN "failed" ELSE "refresh")
        /\ created' = created \cup {c}
        /\ UNCHANGED <<documents, members, answer, request>>

\* A document that was loaded as a member is not added again; the INSERT of
\* another is refused when the row exists by now or the document is gone.
CommitAdd(r) ==
    LET pair == about[r]
    IN  /\ pc[r] = "commit" /\ op[r] = "add"
        /\ \/ /\ DocumentOf(r) \in loaded[r]
              /\ Goto(r, "refresh") /\ UNCHANGED members
           \/ /\ DocumentOf(r) \notin loaded[r]
              /\ DocumentOf(r) \in documents /\ pair \notin members
              /\ Goto(r, "refresh") /\ members' = members \cup {pair}
           \/ /\ DocumentOf(r) \notin loaded[r]
              /\ DocumentOf(r) \notin documents \/ pair \in members
              /\ Goto(r, "failed") /\ UNCHANGED members
        /\ UNCHANGED <<created, documents, answer, request>>

\* Mutated form: the answer is the list the session has loaded.
AnswerLoaded(r) == loaded[r]

AnswerFresh(r) == Members(CollectionOf(r))

\* After its commit a request reads the collection again.  For an addition the
\* collection has been expired and gets its documents anew; for a removal it has
\* not, and get returns the object of the session with the list assigned to it.
Refresh(r) ==
    /\ pc[r] = "refresh" /\ Goto(r, "ok")
    /\ answer' = [answer EXCEPT ![r] = IF op[r] = "add" THEN AnswerFresh(r) ELSE loaded[r]]
    /\ UNCHANGED <<tables, request>>

\* Mutated form: the stored list becomes the assigned one.
WholeList(r) ==
    {m \in members : m[1] # CollectionOf(r)}
        \cup {<<CollectionOf(r), d>> : d \in (loaded[r] \ {DocumentOf(r)}) \cap documents}

\* The flush deletes the rows by which the assigned list differs from the
\* loaded one.
WithoutRemoved(r) == IF DocumentOf(r) \in loaded[r] THEN members \ {about[r]} ELSE members

\* Whether a DELETE that finds a row gone is an error depends on the driver
\* reporting counts.
CommitRemove(r) ==
    /\ pc[r] = "commit" /\ op[r] = "remove"
    /\ \/ /\ GotoWith(r, "refresh", loaded[r] \ {DocumentOf(r)})
          /\ members' = WithoutRemoved(r)
       \/ /\ DocumentOf(r) \in loaded[r] /\ about[r] \notin members
          /\ Goto(r, "failed") /\ UNCHANGED members
    /\ UNCHANGED <<created, documents, answer, request>>

\* Mutated form: the database does not cascade.
OnlyLoadedDeleted(r) == {m \in members : m[2] # DocumentOf(r) \/ m[1] \notin loaded[r]}

\* The flush deletes the memberships it has loaded, the cascade the others.
WithoutDocument(r) == {m \in members : m[2] # DocumentOf(r)}

CommitDelete(r) ==
    LET d == DocumentOf(r)
    IN  /\ pc[r] = "commit" /\ op[r] = "delete"
        /\ \/ /\ Goto(r, "ok")
              /\ documents' = documents \ {d}
              /\ members' = WithoutDocument(r)
           \/ /\ \E c \in loaded[r] : <<c, d>> \notin members
              /\ Goto(r, "failed")
              /\ UNCHANGED <<documents, members>>
        /\ UNCHANGED <<created, answer, request>>

\* The database fails, or the API dies, with the request under way: committed
\* already, if it is at "refresh".
Fail(r) ==
    /\ pc[r] \in Working /\ Goto(r, "failed")
    /\ UNCHANGED <<tables, answer, request>>

Next ==
    \E r \in Requests :
        \/ Open(r) \/ Load(r) \/ LoadDocument(r) \/ Find(r) \/ Refresh(r)
        \/ CommitCreate(r) \/ CommitAdd(r) \/ CommitRemove(r) \/ CommitDelete(r)
        \/ Fail(r)

Spec == Init /\ [][Next]_vars

-----------------------------------------------------------------------------
(* Properties.                                                             *)

\* Every variable has its type, and a membership joins rows that exist.
TypeOK ==
    /\ created \subseteq Collection /\ documents \subseteq Documents
    /\ members \subseteq created \X documents
    /\ pc \in [Requests -> Working \cup Ended \cup {"new"}]
    /\ op \in [Requests -> Ops]
    /\ about \in [Requests -> (Collection \cup {None}) \X (Documents \cup {None})]
    /\ loaded \in [Requests -> SUBSET (Collection \cup Documents)]
    /\ answer \in [Requests -> SUBSET Documents]
    /\ after \in [Requests -> SUBSET Requests]

\* No other request about the membership of d in r's collection ran while r
\* did, or has run since.
Alone(r, d) ==
    \A q \in Requests \ {r} :
        (\/ op[q] \in {"add", "remove"} /\ about[q] = <<CollectionOf(r), d>>
         \/ op[q] = "delete" /\ DocumentOf(q) = d)
            => q \in after[r]

\* An addition that was answered 200 has added its document and a removal has
\* removed it, as long as nothing else concerns that membership: requests for
\* other documents of the same collection, each with its own copy of the list,
\* neither undo it nor are undone by it.
LastOneCounts ==
    \A r \in Requests :
        op[r] \in {"add", "remove"} /\ pc[r] = "ok" /\ Alone(r, DocumentOf(r))
            => (about[r] \in members <=> op[r] = "add")

\* The list a request is answered with is right about every document that no
\* other request concerned meanwhile: it misses no earlier addition and shows
\* no document removed or deleted before it was sent.
AnswersAreRecent ==
    \A r \in Requests, d \in Documents :
        op[r] \in Reading /\ pc[r] = "ok" /\ Alone(r, d)
            => (d \in answer[r] <=> <<CollectionOf(r), d>> \in members)

\* A request to add what is listed, or to remove what is not, flushes nothing: it
\* took effect, which was none, when its session loaded the list.
SetBefore(r) ==
    \/ pc[r] \in {"find", "commit"} /\ op[r] = "add" /\ DocumentOf(r) \in loaded[r]
    \/ pc[r] = "commit" /\ op[r] = "remove" /\ DocumentOf(r) \notin loaded[r]

StateOf(r) ==
    CASE pc[r] = "new" -> "new"
      [] pc[r] = "refresh" \/ SetBefore(r) -> "effective"
      [] pc[r] = "ok" -> "acknowledged"
      [] pc[r] = "failed" -> "unanswered"
      [] OTHER -> "arrived"

Atomic == INSTANCE AtomicMembership
    WITH asked <- op, state <- [r \in Requests |-> StateOf(r)]

\* Requests about collections are atomic, although each works on a list its
\* session has loaded some time before: every acknowledged one took effect once,
\* at one instant while it ran, on the memberships as they were at that instant.
RequestsAreAtomic == Atomic!Spec
=============================================================================

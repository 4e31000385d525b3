------------------------------ MODULE WebClient ------------------------------
(***************************************************************************)
(* The document list of the browser client (web/app.js): what it keeps in  *)
(* state.documents and state.selectedDocumentId while its async functions  *)
(* wait for answers, which arrive in any order, and while a worker and     *)
(* other clients change the documents.  Every async function that is under *)
(* way is a task, waiting at the request it has sent last.                 *)
(***************************************************************************)
EXTENDS Integers, FiniteSets

CONSTANTS
    UserTasks,      \* functions the user can have under way at once
    TimerTasks,     \* refreshes the timer can have under way at once
    MaxDocuments,   \* bound: documents that are ever uploaded
    PageLimit,      \* the 100 documents refreshDocuments asks for
    MaxPolls,       \* the 20 attempts of waitForDocumentProcessing
    MaxFaults       \* bound: requests that fail though they could be answered,
                    \* and documents that become pending again

ASSUME ClientAssumption ==
    /\ UserTasks \cap TimerTasks = {}
    /\ {MaxDocuments, PageLimit} \subseteq Nat \ {0}
    /\ {MaxPolls, MaxFaults} \subseteq Nat

VARIABLES
    created,    \* how many documents were ever stored, numbered in this order
    status,     \* the stored documents
    documents,  \* state.documents, by document
    selected,   \* state.selectedDocumentId, 0 for null
    deletable,  \* whether the delete button is enabled
    at,         \* the request a task waits for
    doc,        \* the document the task is about
    polls,      \* how often waitForDocumentProcessing has asked
    reply,      \* the answer a task has not handled yet
    faults      \* how many of them there were so far

server == <<created, status>>
page == <<documents, selected, deletable>>
task == <<at, doc, polls>>
vars == <<server, page, task, reply, faults>>

Tasks == UserTasks \cup TimerTasks
Ids == 1 .. MaxDocuments
\* Taken: processing, processed or failed.  app.js shows which of them, and the
\* badge after an upload; what it does next depends on "pending" alone (416).
Statuses == {"absent", "pending", "taken"}
Lists == [Ids -> Statuses]
NoDocuments == [d \in Ids |-> "absent"]

ListRequests == {"refresh", "deleteRefresh", "uploadRefresh", "doneRefresh", "failRefresh"}
Uploading == {"post", "uploadRefresh", "poll", "pause", "doneRefresh", "failRefresh"}
Places == ListRequests \cup Uploading \cup {"idle", "delete"}

\* An answer: nothing yet, a failure, or success with a list or a status.
Reply(kind, list, value) == [kind |-> kind, list |-> list, value |-> value]
NoReply == Reply("none", NoDocuments, "absent")
Failure == Reply("error", NoDocuments, "absent")
Answered(list, value) == Reply("ok", list, value)

Init ==
    /\ created \in 0 .. 1
    /\ status = [d \in Ids |-> IF d <= created THEN "taken" ELSE "absent"]
    /\ documents = NoDocuments /\ selected = 0 /\ deletable = FALSE
    /\ at = [t \in Tasks |-> "idle"]
    /\ doc = [t \in Tasks |-> 0]
    /\ polls = [t \in Tasks |-> 0]
    /\ reply = [t \in Tasks |-> NoReply]
    /\ faults = 0

-----------------------------------------------------------------------------
(* The server and the network.                                             *)

\* GET /documents?limit=100: the newest documents.
Listed ==
    [d \in Ids |->
        IF Cardinality({e \in Ids : e > d /\ status[e] # "absent"}) < PageLimit
        THEN status[d] ELSE "absent"]

Waiting(t) == at[t] \notin {"idle", "pause"} /\ reply[t] = NoReply

ServeRead(t) ==
    /\ Waiting(t) /\ at[t] \notin {"post", "delete"}
    /\ reply' = [reply EXCEPT ![t] =
                    IF at[t] \in ListRequests THEN Answered(Listed, "absent")
                    ELSE IF status[doc[t]] = "absent" THEN Failure
                    ELSE Answered(NoDocuments, status[doc[t]])]
    /\ UNCHANGED <<server, page, task, faults>>

StoreDocument ==
    /\ created < MaxDocuments
    /\ created' = created + 1
    /\ status' = [status EXCEPT ![created'] = "pending"]

\* POST /documents stores the document or refuses the file.
ServePost(t) ==
    /\ Waiting(t) /\ at[t] = "post"
    /\ \/ /\ StoreDocument
          /\ doc' = [doc EXCEPT ![t] = created']
          /\ reply' = [reply EXCEPT ![t] = Answered(NoDocuments, "pending")]
       \/ /\ reply' = [reply EXCEPT ![t] = Failure]
          /\ UNCHANGED <<server, doc>>
    /\ UNCHANGED <<page, at, polls, faults>>

ServeDelete(t) ==
    /\ Waiting(t) /\ at[t] = "delete"
    /\ status' = [status EXCEPT ![doc[t]] = "absent"]
    /\ reply' = [reply EXCEPT ![t] =
                    IF status[doc[t]] = "absent" THEN Failure
                    ELSE Answered(NoDocuments, "absent")]
    /\ UNCHANGED <<created, page, task, faults>>

Serve(t) == ServeRead(t) \/ ServePost(t) \/ ServeDelete(t)

\* A request or its answer is lost on the way, or the server fails.
Lose(t) ==
    /\ at[t] \notin {"idle", "pause"} /\ reply[t].kind # "error"
    /\ faults < MaxFaults /\ faults' = faults + 1
    /\ reply' = [reply EXCEPT ![t] = Failure]
    /\ UNCHANGED <<server, page, task>>

\* The worker and other clients: a document is stored, taken up, deleted, or
\* made pending again by a retry or by the requeue at a worker's start.
Elsewhere ==
    /\ \/ StoreDocument /\ UNCHANGED faults
       \/ /\ UNCHANGED created
          /\ \E d \in Ids :
                \/ /\ status[d] = "pending"
                   /\ status' = [status EXCEPT ![d] = "taken"]
                   /\ UNCHANGED faults
                \/ /\ status[d] # "absent"
                   /\ status' = [status EXCEPT ![d] = "absent"]
                   /\ UNCHANGED faults
                \/ /\ status[d] = "taken" /\ faults < MaxFaults
                   /\ status' = [status EXCEPT ![d] = "pending"]
                   /\ faults' = faults + 1
    /\ UNCHANGED <<page, task, reply>>

-----------------------------------------------------------------------------
(* The functions of app.js, from one request to the next.                  *)

\* A task goes on to its next request, about document d.
Request(t, place, d) ==
    /\ at' = [at EXCEPT ![t] = place]
    /\ doc' = [doc EXCEPT ![t] = IF place = "idle" THEN 0 ELSE d]
    /\ reply' = [reply EXCEPT ![t] = NoReply]
    /\ polls' = [polls EXCEPT ![t] = IF place = "pause" /\ polls[t] < MaxPolls
                                     THEN polls[t] + 1
                                     ELSE IF place \in {"poll", "pause"} THEN polls[t] ELSE 0]
    /\ UNCHANGED <<server, faults>>

Succeeded(t, places) == at[t] \in places /\ reply[t].kind = "ok"
Failed(t, places) == at[t] \in places /\ reply[t].kind = "error"

\* Mutated form: the selection is kept.
KeepSelection(list) == UNCHANGED <<selected, deletable>>

\* clearSelection, if the selected document is not in the list.
ClearIfGone(list) ==
    IF selected # 0 /\ list[selected] = "absent"
    THEN selected' = 0 /\ deletable' = FALSE
    ELSE UNCHANGED <<selected, deletable>>

\* Mutated form: a list that arrives while an upload runs is dropped.
ShowUnlessUploading(list) ==
    documents' = IF \E t \in Tasks : at[t] \in Uploading THEN documents ELSE list

Show(list) == documents' = list

\* refreshDocuments takes its list over, however old it is.
Refreshed(t) ==
    /\ Succeeded(t, ListRequests \ {"doneRefresh"})
    /\ Show(reply[t].list) /\ ClearIfGone(reply[t].list)
    /\ Request(t, IF at[t] = "uploadRefresh" THEN "poll" ELSE "idle", doc[t])

\* At the end of an upload its document is selected, gone or not.
RefreshedAfterUpload(t) ==
    /\ Succeeded(t, {"doneRefresh"})
    /\ Show(reply[t].list) /\ selected' = doc[t] /\ deletable' = TRUE
    /\ Request(t, "idle", 0)

\* A refresh that fails leaves state.documents alone.
RefreshFailed(t) ==
    /\ Failed(t, {"refresh", "deleteRefresh", "failRefresh"})
    /\ deletable' = (deletable \/ at[t] = "deleteRefresh")
    /\ UNCHANGED <<documents, selected>>
    /\ Request(t, "idle", 0)

Posted(t) ==
    /\ Succeeded(t, {"post"})
    /\ selected' = doc[t] /\ UNCHANGED <<documents, deletable>>
    /\ Request(t, "uploadRefresh", doc[t])

\* Mutated form: the client polls until a worker takes the document up.
KeepsPolling(t) == reply[t].value = "pending"

\* waitForDocumentProcessing waits while the document is pending, and gives up
\* waiting after so many polls.
PollsAgain(t) == reply[t].value = "pending" /\ polls[t] < MaxPolls

Polled(t) ==
    /\ Succeeded(t, {"poll"})
    /\ UNCHANGED page
    /\ Request(t, IF PollsAgain(t) THEN "pause" ELSE "doneRefresh", doc[t])

PauseEnds(t) == at[t] = "pause" /\ UNCHANGED page /\ Request(t, "poll", doc[t])

\* handleUpload's catch.
UploadFailed(t) ==
    /\ Failed(t, {"post", "uploadRefresh", "poll", "doneRefresh"})
    /\ UNCHANGED page
    /\ Request(t, "failRefresh", doc[t])

\* handleDelete clears whatever is selected when the answer arrives.
Deleted(t) ==
    \/ /\ Succeeded(t, {"delete"})
       /\ selected' = 0 /\ deletable' = FALSE /\ UNCHANGED documents
       /\ Request(t, "deleteRefresh", 0)
    \/ /\ Failed(t, {"delete"})
       /\ deletable' = TRUE /\ UNCHANGED <<documents, selected>>
       /\ Request(t, "idle", 0)

Handle(t) ==
    \/ Refreshed(t) \/ RefreshedAfterUpload(t) \/ RefreshFailed(t)
    \/ Posted(t) \/ Polled(t) \/ PauseEnds(t) \/ UploadFailed(t) \/ Deleted(t)

-----------------------------------------------------------------------------
(* The user and the timer.                                                 *)

\* selectDocument, for a document of the list or of the search results, which
\* may be outdated; what it loads then changes neither list nor selection.
Click(d) ==
    /\ d <= created
    /\ selected' = d /\ deletable' = TRUE
    /\ UNCHANGED <<documents, server, task, reply, faults>>

\* The upload button is disabled while an upload runs.
Upload(t) ==
    /\ at[t] = "idle" /\ \A u \in Tasks : at[u] \notin Uploading
    /\ UNCHANGED page
    /\ Request(t, "post", 0)

\* Mutated form: handleDelete trusts the button.
NeverEarly == FALSE

\* handleDelete's early return: a refresh that fails after a deletion enables
\* the button though nothing is selected.
NothingSelected == selected = 0

Delete(t) ==
    /\ at[t] = "idle" /\ deletable /\ ~NothingSelected
    /\ deletable' = FALSE /\ UNCHANGED <<documents, selected>>
    /\ Request(t, "delete", selected)

Refresh(t) == at[t] = "idle" /\ UNCHANGED page /\ Request(t, "refresh", 0)

User(t) == Upload(t) \/ Delete(t) \/ Refresh(t)

Next ==
    \/ \E t \in Tasks : Serve(t) \/ Lose(t) \/ Handle(t)
    \/ \E t \in UserTasks : User(t)
    \/ \E t \in TimerTasks : Refresh(t)
    \/ \E d \in Ids : Click(d)
    \/ Elsewhere

\* Requests are answered or fail, answers and timeouts are handled, and the
\* timer fires; the user, the worker and other clients may do nothing.
Fairness ==
    /\ \A t \in Tasks : WF_vars(Serve(t)) /\ WF_vars(Handle(t))
    /\ \A t \in TimerTasks : WF_vars(Refresh(t))

Spec == Init /\ [][Next]_vars /\ Fairness

-----------------------------------------------------------------------------
(* Properties.                                                             *)

\* Every variable has its type; at most one upload is under way, and what is
\* about one document names one.
TypeOK ==
    /\ created \in 0 .. MaxDocuments /\ status \in Lists /\ documents \in Lists
    /\ selected \in 0 .. created /\ deletable \in BOOLEAN
    /\ at \in [Tasks -> Places] /\ doc \in [Tasks -> 0 .. created]
    /\ polls \in [Tasks -> 0 .. MaxPolls] /\ faults \in 0 .. MaxFaults
    /\ \A t \in Tasks : reply[t].kind \in {"none", "ok", "error"}
    /\ \A t \in Tasks : at[t] \in {"delete", "poll"} => doc[t] # 0
    /\ \A t, u \in Tasks : at[t] \in Uploading /\ at[u] \in Uploading => t = u

\* "The web interface refreshes the document statuses automatically while the
\* worker processes uploads" (README.md:275): whatever order answers arrive in,
\* once the stored documents no longer change the list shows them for good.
ListCatchesUp == <>[](documents = Listed)

\* An upload comes to an end and the button is enabled again (handleUpload's
\* finally), even if no worker ever takes the document up.
UploadEnds == \A t \in UserTasks : at[t] \in Uploading ~> at[t] \notin Uploading

\* A selected document that is deleted, here or elsewhere, does not stay
\* selected: some refresh notices, although others bring older lists.
GoneIsDeselected ==
    \A d \in Ids : (selected = d /\ status[d] = "absent") ~> selected # d
=============================================================================

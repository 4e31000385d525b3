# StudyGraph in TLA+

StudyGraph stores university PDFs, turns them into searchable chunks in the
background, and builds summaries, quizzes and answers on them. Almost
everything that can go wrong in it goes wrong between actors: the API's request
threads, one or more workers, the command line and the pages open in browsers
share PostgreSQL tables and a directory of PDFs. Each reads in one transaction
and writes in another, answers arrive in any order, and any of them may die in
between. The modules here model those parts of `src/`, TLC checks them on small
instances, and TLAPS proves the central invariants for all of them.

Line references are to `src/src/studygraph/` unless they begin with another
path.

## 1. Inventory

| Part | State | Operations | Talks to |
| --- | --- | --- | --- |
| **Documents table** (`document_model.py`, `document_repository.py`, `database.py`) | rows of `documents` (status, phase, progress, error, attempts, hash, path) and `document_chunks` | `add`, `update`, `delete`, `list_pending`, `get_for_processing`, `claim_for_processing`, `requeue_processing_documents` | every part below, through SQLAlchemy sessions with `expire_on_commit=False` |
| **Processing** (`document_worker.py`, `document_processing.py`, `cli.py`, parts of `document_service.py`) | the worker's loop, a session per job, the loaded row | requeue at start, list a batch, check the stored file, load, claim, report progress, extract, store chunks, fail | documents table, PDF directory |
| **PDF extraction** (`pdf_text_extractor.py`) | none | text, OCR fallback, or an error | called by a job |
| **Upload and storage** (`api.py` 829-1057, 1820-1860, `document_storage.py`) | `upload-*.pdf` in the temporary directory, `.<name>.tmp` and `<uuid4>.pdf` in the storage directory | receive, validate, copy, rename, insert, undo, delete row, unlink | documents table; the worker reads the files |
| **Learning progress** (`document_repository.py` 73-143) | one row per document and owner: `review_count`, `mastered` | review (`SELECT ... FOR UPDATE`), set mastered (no lock), cascade from a deleted document | documents table |
| **Text chunking** (`text_chunker.py`) | none (a loop) | `chunk_text` | called when a document is stored |
| **Authentication** (`auth*.py`, `user_repository.py`) | users, `auth_sessions`, in-memory attempt limiter | register, login (purges inactive sessions), logout (revokes), check a token | its own tables |
| **Collections** (`collection_*.py`) | collections and memberships | create, list, add and remove documents | documents table, by foreign key |
| **Search and retrieval** (`document_service.py` 488-624, `retrieval_service.py`, `embedding_service.py`) | none | full-text, semantic and hybrid search, paging, context building | reads `document_chunks` |
| **Answers and learning tools** (`rag_service.py`, `learning_service.py`, `topic_service.py`) | a request limiter | answer, summary, quiz, flashcards, topics | search; optionally a remote provider |
| **Browser client** (`web/app.js`) | lists on the page, the selected document, a timer | polling, selection, search | the API |
| **Metrics, logging, configuration**; **migrations, deployment** | counters; none | | |

What is hard here, and what makes each part correct:

- *Processing* has up to three kinds of actors on one row. Claims test a status
  loaded a transaction earlier, updates name only dirty columns, workers die
  with rows in `processing`, retries and deletions arrive at any time. Correct
  means: attempts stay within their limit, no step turns a processed document
  into a claimed one, chunks (which searches read without looking at the status)
  exist only for processed documents, no claim is left to nobody except where a
  logged database error strands it, and what is queued is settled in the end or
  given up for one of a few named causes.
- *Upload and storage* is a two-resource transaction without a coordinator: the
  file must exist before the row, and every error path must undo what was done.
- *Learning progress* is a read-modify-write under concurrent requests, with a
  first write that has no row to lock.
- *Text chunking* is arithmetic at the boundaries of words, chunk and overlap;
  it must lose nothing, tear no phrase the overlap is meant to save, and return.
- *Authentication*: every login deletes the inactive sessions of all users while
  others log out, and two registrations of a name race for one row. A logout must
  be final, and nothing else may end a session. The limiter's check and its record
  are separate critical sections, over a window that slides and a bounded dict.
- *Collections*: every session changes the list of documents it has loaded; two of
  them must not undo each other, and an answer must not show a stale list.
- *Hybrid search* cuts every page out of a ranking computed anew, from more
  candidates the further the page is, while documents come and go.
- The *browser client* keeps a list and a selection across awaits; answers to its
  overlapping requests must not leave it wrong, or an upload waiting for ever.

`PROJECT.json` lists every component and the hazards with their lines.

## 2. Modules

| Module | Models | Proofs in |
| --- | --- | --- |
| `DocumentTable` | the row, what each operation assigns, and the dirty-column UPDATE | (used by the next) |
| `DocumentProcessing` | worker, command line, API background jobs, retries, deletions, crashes | `DocumentProcessingProofs` |
| `UploadStorage` | `create_document`, `delete_document`, the files on disk | `UploadStorageProofs` |
| `DocumentLifecycle` | the abstract document `DocumentProcessing` implements | `DocumentProcessingProofs` |
| `LearningProgress` | reviews and PUTs of one progress row | `LearningProgressProofs` |
| `AtomicProgress` | the atomic record `LearningProgress` implements | `LearningProgressProofs` |
| `TextChunker` | the loop of `chunk_text` | `TextChunkerProofs` |
| `AuthSessions` | register, login, logout, the check of a token | `AuthSessionsProofs` |
| `AtomicSessions` | the atomic accounts and sessions `AuthSessions` implements | `AuthSessionsProofs` |
| `RateLimiter` | `LoginRateLimiter` and the handlers around it | `RateLimiterProofs` |
| `Collections` | membership of documents in collections | `CollectionsProofs` |
| `AtomicMembership` | the atomic tables `Collections` implements | `CollectionsProofs` |
| `HybridSearch` | the fusion of two result lists and its pages | `HybridSearchProofs` |
| `WebClient` | the document list of `web/app.js` | |

Each `MC...` module instantiates its namesake for TLC and adds the symmetry sets;
`HybridSearch` and `WebClient` need none and are checked as they are.
Operators preceded by the comment "Mutated form" are plausible bugs; no action
uses them. They are there to show that the checked properties notice the bug
(`PROJECT.json`, "mutants").

### DocumentTable and DocumentProcessing

`row[d]` is the stored row, `chunked` the documents with rows in
`document_chunks`, `files` those whose PDF exists. A process `p` is a worker, a
command line or an API handler (which runs its background job after the answer).
`view[p]` is the object its session has loaded. This matters because the code
never refreshes it on a SELECT: with `expire_on_commit=False` and no
`populate_existing`, `SELECT ... FOR UPDATE` in `claim_for_processing` evaluates
its WHERE clause on the current row and hands back the object loaded before.
`Claim` therefore has five disjuncts: row gone; the *loaded* status says
`processing` (the job returns); claimed; row no longer claimable but loaded as
`pending` or `failed` (the job goes on without a claim,
`document_processing.py:57`); and the database operation fails. `Flush` writes
only the columns whose assigned value differs from the loaded one.

A database operation that fails while the row exists is `DatabaseFails`: a failing
statement leaves the row as it was, a failing refresh comes after a commit, and
either way the worker logs the error, drops the job and lives on
(`document_worker.py:91`, `EndOnError`). So a row may say `processing` while
nobody works on it and the worker, which goes on listing it, takes it for claimed.
`dropped` is a history variable that remembers such documents until they are
claimed again or a worker starts. Any other exception ends the process (`Raise`).
Every failure and every crash is a `Fault`, of which there are at most
`MaxFaults`.

| Action | Code |
| --- | --- |
| `WorkerStart`, `ListPending`, `CheckSource`, `RunBatch`, `FinishBatch` | `run_worker`, `_process_pending_batch`, `_mark_source_failed` |
| `CliRun` | `cli.process_pending_documents` |
| `LoadJob` | `process_document_job` up to `process_pending_document` |
| `Claim`, `ReportExtracting`, `Extract`, `ReportIndexing`, `Store`, `Fail` | `process_pending_document` and the service methods it calls, one transaction each |
| `Upload`, `UploadUnconfirmed`, `RetryLoad`/`RetryWrite`, `DeleteRow`/`UnlinkFile` | the handlers of `api.py` |
| `Crash` | a process is killed, or ends what it does on an error nobody catches |
| `ApiCrash` | the API process dies with all its requests and background jobs |

Abstractions. A commit and the refresh after it are one step; that the refresh
fails after the commit is another outcome of the step, for claims, progress
reports, results, failures, missing sources, retries and uploads
(`UploadUnconfirmed`). The write of a row and the replacement of its chunks are one
step: one transaction. Ids stand for creation
order, by which `list_pending` sorts. How extraction ends is chosen anew on every
attempt among `Outcomes`; a document that is too long is among "bad". A retry
that dirties no column takes no row lock; this adds no interleaving.
SIGTERM between two batches is an instance of `Crash`. A stored path outside the
storage directory behaves as a missing file. After a database error in
`_mark_source_failed` the rollback expires what the listing has loaded, so that
the worker reads each row that is left again (`"rereading"`). Two corners of that
function are left out: a row that vanishes between its SELECT and its refresh; and
a SELECT that fails without a rollback, after which the missing sources that are
left in the batch may fail one by one, which here are as many faults.

### DocumentLifecycle

What is left of a document when rows, sessions, columns, phases, attempts, queues
and files are forgotten: its status, whether a search finds it, and which one
document the worker has claimed. `DocumentProcessing` implements it in the
dedicated deployment under the mapping `Lifecycle` at the end of that module
(`LifecycleStatus`, `chunked`, the job of a worker past its claim);
`FollowsLifecycle` is the implementation as a property. Some of its actions are wider
than one would like, because the code is: `Finish` and `GiveUp` take a document that
a retry has made pending again; `Retry` may leave the status as it is, when the
handler had loaded "pending" and so has no dirty status to write; and after `Take`
the worker may have claimed nothing, when the claim is stored and its refresh fails.

### UploadStorage

An upload is a coroutine on the single event loop: between `await file.read`
and the finally block's `await file.close()` no other upload runs (`LoopFree`);
a deletion runs in a thread and interleaves everywhere. `temp`, `partial` and
`stored` are the three kinds of file. The finally block's three variables appear
as the labels `refuse`, `undo` and `accept`. Every step may fail where the code
catches a failure. Where it does not, the request ends on the error: `UnlinkFails` is
any unlink that fails, the one of the temporary file after `os.replace`
(`api.py:920`) included, when `persistent_path` is not assigned yet and the finally
block does not know of the stored PDF. `abandoned` is a history variable, the uploads
and deletions that a crash or a failing unlink has kept from cleaning up.
Abstractions: one owner (hashes are compared within one), content known by its hash,
`os.replace` and the unlink of the temporary file one step when both succeed, a
second concurrent DELETE of the same document omitted (its unlink is `missing_ok`).

### LearningProgress

One document, one owner, any number of requests at once. `Load` is the SELECT,
for a review with `FOR UPDATE`; `Write` the commit, which for an INSERT meets the
unique key and the foreign key and for an UPDATE waits for the row lock;
`Refresh` the reload that builds the answer. `Delete` is the cascade.

### TextChunker

A text is its length and the set of positions of its spaces: nothing else about
it is looked at. `Init` ranges over every normalized text up to `MaxLength`;
`Chunk` is one turn of the loop.

### AuthSessions

Each request is a thread: `pc[r]` is the transaction it does next, `row[r]` the
row of the session a login `r` opens ("absent", "live", "revoked"), `rest[r]` the
time until its `expires_at`, `claim[r]` the time until the `exp` of the token.
`users[n]` is the registration whose password is stored. `Insert`,
`Authenticate`, `Purge`, `Create`, `Refresh`, `Check`, `Select`, `Revoke` are one
transaction each; `Reply` is the answer; `Unavailable` a failed statement,
`Crash` the end of the API process. Abstractions: a password is the registration
that chose it (hashing is taken as one to one); token signatures are taken as
unforgeable; the mode in which an `X-Owner-ID` header replaces the sign-in has no
state and is left out. That `Refresh` can lose its row to another login's purge
needs a lifetime that runs out between two transactions.

### RateLimiter

`failures[c]` is the list kept for a client, its entries named by their request;
`tracked` the order of insertion of the dict's keys, by which it evicts. `Check`,
`Record` and `Reset` are the three methods, each under the lock as a whole,
including the pruning each does first; `Attempt` is the password check between them,
which may also end in an error that is neither recorded nor reset ("broken"). The
limiter of answers is the instance in which every attempt goes to `Record`.
`forgotten` is a history variable: the failures a reset or an eviction dropped.

### Collections

`pc[r]` walks through a request's statements: `Load` (the collection with its
documents), `Find` (the document, for an addition), the commits, and `Refresh`, the
reading that follows every commit that is answered with a collection. It may fail,
which answers 500 for what is committed. After an addition it reads the expired list
again; after a removal the answer is the list the session holds. What a
session has loaded is `loaded[r]`; SQLAlchemy's flush turns the difference
between that list and the assigned one into INSERTs and DELETEs of single rows,
which is why two sessions with stale lists do not overwrite each other.
`CommitRemove` and `CommitDelete` allow both outcomes for a DELETE that finds its
row gone, since it depends on the driver. Abstractions: one owner; a collection is
its name (nothing deletes or renames one).

### AtomicProgress, AtomicSessions, AtomicMembership

Three components answer concurrent requests, each request being several statements
on rows that others change in between. What they promise is the same: a request
takes effect at one instant between its arrival and its answer, on the state as it
is at that instant, and at most once; one that is answered with success has taken
effect; of one that is refused or never answered, nobody knows. The three modules
say this of their tables with the actions `Arrive`, `TakeEffect`, `Acknowledge` and
`Forsake`, whatever ends on its own (`Delete`, `Tick`), and an operator `Effect`
that is the request as a user thinks of it. `LearningProgress`, `AuthSessions` and
`Collections` implement them under the mapping at the end of each, in which
`StateOf` reads a request's state off its program counter. `RequestsAreAtomic` is the
implementation as a property; in other words, the requests are linearizable.

Where the instant lies is the point of the mappings. For most requests it is their
commit. A PUT of the mark its session has loaded, an addition of a listed document
and a removal of one that is not listed dirty nothing, so their commit writes
nothing, whatever the row says by then: they took effect, which was none, at their
SELECT (`SetBefore`). A logout takes effect when it finds its row revoked or gone, or
else when it revokes it; a login when its row is committed; a call when its token is
checked. The first requests to create a row settle their race at the unique key: the
loser is refused and has no effect. What the answers *say* is not part of these
specifications: a review is answered with the row after its refresh, which may count
a later review, and a removal with the list its session holds.

### HybridSearch

A list of chunks is the function that gives each of its chunks its rank, the
number `enumerate(..., start=1)` counts; `Sorted` is an ORDER BY or `sorted()` over
given comparisons, `At` a LIMIT or a slice. `pages` keeps each answer by its offset.
`textOrder` and `distanceOrder` are the orders in which the two queries rank what
they find; PostgreSQL and the embedding provider determine them and they do not
change while a client pages. `FullText` and `Semantic` read the rows there are at
that moment, `Answer` fuses and slices, `NextPage` is a client that goes on while
the total promises more. `Store` and `Delete` change the data in between.
Scores are compared as exact fractions; the code adds floats, whose rounding
could only reorder chunks with equal scores. One query of one owner, without the
collection and document filters (they restrict both lists alike).

### WebClient

A task is an async function under way; `at[t]` is the request it waits for and
`reply[t]` the answer it has not handled. `documents`, `selected` and `deletable`
are `state.documents`, `state.selectedDocumentId` and the delete button. A
document is absent, pending or taken; "taken" stands for processing, processed and
failed, which the page tells apart only in what it displays (the badges, `web/app.js`
203-207, and the words about a finished upload, 740), while its requests depend on
"pending" alone. A document may become pending again through another client's retry
or a worker's requeue, which `MaxFaults` bounds together with the lost requests.
Answers are handled in any order (`Refreshed` takes over whatever arrives).
Abstractions: what `selectDocument` loads into the detail panel and the badge of
the selected document are left out, so that an upload's task ends when its last
list has arrived and not with the requests of the `selectDocument` at 744; so are
the collection filter, search, answers and sign-in.

## 3. Runs that pass

| Run | Constants | Shows |
| --- | --- | --- |
| `DedicatedWorker` | one document, one worker, one attempt between retries, two handlers, retries, deletions, all outcomes, one crash or database error | `SearchableIsProcessed`, `ClaimHasOwner`, `FollowsLifecycle`, types |
| `DedicatedNoRetry` | three documents, one worker, a batch of two, two attempts, deletions, all outcomes, two crashes or database errors, no retries, fair | `RowAgreesWithStatus`, `QueuedIsSettled`, `FollowsLifecycle` |
| `SharedProcessing` | one document processed by API, worker and command line, at most two of them with a session on it at a time, retries, text or a failure, no faults | `AttemptsWithinLimit`, `FinishedNotReclaimed` |
| `UploadCrashes` | three uploads of two PDFs and one other file, two crashes or failing unlinks, lost acknowledgements | `AcceptedHasFile`, `NothingLeaks`, types |
| `ConcurrentReviews` | four requests, each a review or a PUT, deletion, any number of crashes | `ReviewsCounted`, `RequestsAreAtomic`, types |
| `ChunkAnyText` | every text of up to 13 characters, chunks of 5, overlap 2, fair | `PhrasesKept`, `ShortWordsAdvance`, `ShortWordsTerminate`, types |
| `SessionsAtOnce` | five requests of any kind, one name, a lifetime of two ticks, any number of failures and crashes | `LoggedOutStaysOut`, `SessionKept`, `OneRegistration`, `RequestsAreAtomic`, types |
| `LoginLimits` | five requests of three clients, two attempts, two threads, two tracked keys, a window of two ticks | `OvershootBounded`, `RefusedForCause`, `TableBounded`, types |
| `SharedCollection` | four requests of any kind, one collection, two documents | `LastOneCounts`, `AnswersAreRecent`, `RequestsAreAtomic`, types |
| `HybridPages` | every pair of rankings of four chunks, pages of two out of at most three candidates per list, one change of the data | `PagesPartition`, `AgreementKept`, `NothingDeletedShown`, types |
| `ClientRefresh` | two functions of the user's and one refresh of the timer's under way, one document, one poll, one lost request or one document made pending again, fair | `ListCatchesUp`, `UploadEnds`, `GoneIsDeselected`, types |

Why the bounds are enough. Processes meet in one row, so one document suffices for
the safety of a row; three are used where documents interact, so that two stuck ones
fill the batch before the third, and one of them does not. Two attempts let a first
one fail and a second be the last; two faults can use up both, or strand a document
and crash the worker that would free it. `DedicatedWorker` needs only one attempt,
since its retries give as many as one likes. Two handlers allow a retry to overtake
a deletion or another retry. One fault gives every crash point and every database
error, two one while recovering from another. `SharedProcessing` has two sessions on
the document at a time (`TwoSessions`), out of three processes, in any sequence: one
stale copy against one that writes. Three uploads allow two of one PDF and a third
to overtake them. Four requests contain two first reviews (one loses to the unique
key), a review on the existing row and a PUT between. Texts of 13 characters with
chunks of 5 go through several turns of the loop with every position of the boundary
against the overlap. Five requests make a registration, two logins (one purges while
the other is under way) and a logout with a request that carries the same token; two
ticks tell a session that expires from one that does not. Three clients against two
keys force an eviction, and two threads two checks before either record. Four
requests about one collection give two writers, a reader and a deletion. Four chunks
against a limit of two and a cap of three give a second page, lists that fit and
lists that do not. Two functions of the user's let an upload overlap the deletion of
its document and an older answer overtake a newer one, with the timer's refresh
between them; one poll is the difference between asking again and giving up. Two
documents against a list of one, which a list cuts off, were checked with one
function of the user's. The invariants named in section 6 do not depend on these
bounds at all.

`CHECK_DEADLOCK FALSE` is set where the modelled system does come to an end: all
requests have been sent and answered (`UploadCrashes`, `ConcurrentReviews`,
`SessionsAtOnce`, `LoginLimits`, `SharedCollection`), the function has returned
(`ChunkAnyText`), or the client has read its last page (`HybridPages`).
`DocumentProcessing` and `WebClient` are checked for deadlock: a worker polls for
ever, and so does the page.

`DedicatedWorker` and `DedicatedNoRetry` are the deployment of
`docker-compose.secure.yml`, which sets `STUDYGRAPH_PROCESS_UPLOADS_IN_API`
to false. `SharedProcessing` is `docker-compose.yml`: the API processes uploads
itself (the default is true) *and* a worker runs.

## 4. Where the code does something else

`DuplicateProcessing` is the one run that ends in a counterexample. The README
promises "Database locking to prevent duplicate processing" (`src/README.md:26`).
In the counterexample nothing fails and nobody retries: after an upload the API's
background job and the worker both load the row as `pending`; the first claim stores
`processing`; the WHERE clause of the second claim admits `processing`
(`document_repository.py:228`), and the test that should end it (235) reads the
object its session loaded before, which still says `pending`. Both jobs hold the
claim and process the document.

Met along the way, and described here rather than checked by a run:

- the command line lists `processing` rows, and the claim refuses them, so that
  "Process pending, failed, or interrupted documents" (`src/README.md:333`) leaves
  the interrupted ones to the next start of a worker;
- a job whose claim finds nothing, since another job has processed the document
  meanwhile, goes on without one (`document_processing.py:57`), and may mark the
  processed document failed and take its chunks away;
- jobs that loaded the same row each count one attempt more than they loaded, so
  several claims may count as one; `AttemptsWithinLimit` bounds the stored number;
- a database error while a document is claimed, reported on, stored or failed is
  logged (`document_worker.py:91`) and leaves it `processing`: the worker goes on
  listing it and taking it for claimed, until a worker starts or a user retries;
- an exception that is no error of the PDF or of the database, such as one of an
  embedding provider, ends the worker and counts as an attempt; after the last one
  the document stays `pending` for ever, without a message (`GivenUp`);
- documents out of attempts, stranded or without their PDF keep their place at the
  head of every batch; a batch full of them is all a worker ever sees, and
  `QueuedIsSettled` excepts the documents behind it;
- an unlink of the temporary file that fails after the rename (`api.py:920`) leaves a
  stored PDF that no row names;
- deleting a document while it is processed raises an exception nobody catches,
  and the worker ends (`document_worker.py:104` promises to run "until a
  termination signal arrives"); it is restarted;
- a retry between a job's load and its claim has its reset of the attempts
  overwritten; after a crash the document can stay pending for ever;
- a worker's requeue at start also hits documents the API is processing; in the
  shared deployment `SearchableIsProcessed` and `ClaimHasOwner` fail once a requeue
  or a retry meets a running job, so they are stated for the dedicated one;
- with retries the columns of a row need not agree, because two sessions write
  different dirty columns; so `RowAgreesWithStatus` is stated without retries;
- a crash between the two halves of a deletion leaves the PDF for good; a lost
  commit acknowledgement leaves a row without a file, which the worker later marks
  failed;
- `chunk_text` repeats one chunk for ever on a short word before one longer than
  `max_characters`; `ShortWordsTerminate` names the texts on which it returns;
- a hybrid search whose lists do not fit into the first page's candidates may show
  a chunk on two pages or on none; `PagesPartition` is stated where they fit;
- after an upload the page's badge says "Failed" for a document a worker is just
  processing, and for one still pending after the last poll (`web/app.js` 416, 739);
  a late 401 for an old token clears a new one (65); `requestNoContent` does not
  treat a 401 as the end of the session, which `src/README.md:230` describes; a list
  of 100 deselects an older document (278); two overlapping selections show the
  answer that arrives last (499).

## 5. Fairness

`DocumentProcessing.Fairness` is weak fairness of each process's own steps. For
handlers and a running command line that is the scheduler. For a worker it
includes `WorkerStart`: `restart: unless-stopped` in `docker-compose.yml` starts
a worker that ended. Nothing is assumed of users, of operators starting
`--process-pending`, or of crashes and errors; `MaxFaults` bounds those.
`QueuedIsSettled` holds with as many of them as attempts, because it names what they
may lead to: a document out of attempts, a stranded one, a batch full of such
documents. `TextChunker.FairSpec` only says that a function that runs goes on
running. `WebClient.Fairness` says that a request is answered or fails, that the
event loop handles an answer or a timeout that is there, and that the timer fires;
nothing is assumed of the user, the worker or other clients. A list can only catch
up with documents that stop changing; `MaxDocuments` and `MaxFaults` see to that,
since each document changes a few times at most.

## 6. What is proved

All proofs are for every value of the constants that satisfies the named
assumptions (`ConstantsAssumption`, `UploadAssumption`, `RequestsAssumption`,
`ChunkerAssumption`, `SessionAssumption`, `LimiterAssumption`,
`CollectionAssumption`, `SearchAssumption`); none bounds their size beyond that
the sets are finite where the code counts them.

- `TypeCorrect` (`DocumentProcessingProofs`): `Spec => []TypeOK`.
- `RetryLimitRespected`: `Spec => []AttemptsWithinLimit`, in every deployment. The
  bound alone is not inductive, because a claim writes *loaded attempts + 1*: the
  invariant adds that every loaded row (`view`, `seen`) is within the limit and
  strictly below it at "claim". Claims, retries and requeues may still overwrite
  one another; no stored number exceeds the limit. It does not bound the claims.
- `NoSilentReclaim`: `Spec => FinishedNotReclaimed`. The stored row is runnable
  when a claim commits, refreshed or not, and an UPDATE that does not assign
  `processing` leaves the status column alone or sets another. A processed document
  can be processed again only after a retry or a stale job's failure has given it
  another status.
- `DedicatedSearchable`: with one worker, no command line and no processing in the
  API, `Spec => []SearchableIsProcessed`. `DedicatedInv` adds that handlers never
  process, that an id not given out yet has no row, and that while the worker is
  at or past a claim neither the loaded nor the stored row says `processed`: so
  no dirty-column write can move a document with chunks to another status
  without removing them.
- `DedicatedFollowsLifecycle`: there, `Spec => FollowsLifecycle`. `LoadedInv` adds
  to `DedicatedInv` what ties loaded rows to stored ones: where a document is stored
  as claimed, a worker about to claim it has loaded it as claimed, and what a
  listing has loaded and not checked yet is not processed by now, whether it is
  checked from its copy or read again. Each action then maps to one of
  `DocumentLifecycle` or to a stutter.
- `DedicatedClaimHasOwner`: there, `Spec => []ClaimHasOwner`, database errors
  included: a document that says `processing` is being processed, or no worker runs,
  or the last job on it was ended by a logged error (`Stranded`) and neither a worker's
  start nor a claim has come since. `OwnerInv` adds that while the worker runs a
  document neither the loaded nor the stored row says `failed`, so that the worker's
  own failure is a dirty column and is written.
- `DedicatedRowAgrees`: there, and where nobody retries, `Spec =>
  []RowAgreesWithStatus`. The columns of a row are written by five different
  operations, each writing only those that differ from the copy its session loaded,
  so agreement is not inductive by itself. `CopiesInv` says that every copy the worker
  holds (of its job, and of what it has listed and checks from its copy) is the stored
  row unless the document has gone. Then a flush writes exactly the assigned row
  (`FlushCurrent`), and what every operation assigns agrees (`AgreesAssigned`). A
  retry breaks this invariant, and the property with it (section 4).
- `TypeCorrect` (`UploadStorageProofs`, `LearningProgressProofs`,
  `TextChunkerProofs`): their type invariants.
- `AcceptedKeepsFile`, `NoLeakOfOthers` (`UploadStorageProofs`): the PDF of a
  row exists once its upload has been answered, and each file has an owner or is one
  that a crash or a failing unlink kept from being removed (`abandoned`), whatever
  number of such faults. The invariants record which file exists at each label.
- `NoReviewLost` (`LearningProgressProofs`): `Spec => []ReviewsCounted`. The count
  is bounded below by the committed reviews and above by the sent ones, and the
  session that holds the lock has loaded the stored count; counting is by
  cardinality of a finite set of requests.
- `ProgressIsAtomic` (`LearningProgressProofs`): `Spec => RequestsAreAtomic`, step by
  step from the invariant of `NoReviewLost`. `WriteTakesEffect` is the heart: a commit
  leaves the effect of the request on the row *as it was just before*, although the
  values come from a copy loaded earlier: for a review because its lock keeps the
  count it has loaded current, for a PUT because the UPDATE names only the mark, or
  because nothing was dirty and the effect lies at the SELECT.
- `NoPhraseTorn` (`TextChunkerProofs`): `PhrasesKept` for every text, chunk size
  and overlap; the invariant is inductive with the types and rests on the lemma
  `PhraseInChunk` about one turn of the loop.
- `ShortWordsProgress`: `Spec => ShortWordsAdvance`. On short words there is a space
  more than the overlap after the beginning of every chunk that does not end the
  text (`CutPastOverlap`), so the next chunk begins after it. As `start` stays in
  the text (`TypeOK`), the number of turns is bounded by its length; the step from
  there to `ShortWordsTerminate` is an induction and fairness, and stays with TLC.
- `LogoutIsFinal`, `SessionsLast`, `NamesRegisteredOnce`, `SessionTypes`
  (`AuthSessionsProofs`), from one invariant. `Kinds` adds which labels a kind of
  request can be at and that only an answered login is the target of a logout or
  call: so what is inactive never becomes active again, since a login creates its
  row once. `SessionKeptFromCreate` extends `SessionKept` from the answer back to the
  commit of the row: a purge takes only what is inactive.
- `SessionsAreAtomic`: `Spec => RequestsAreAtomic`, from the same invariant. The time a
  session has left is its row's `rest` while the row is live, and 0 once it is revoked
  or gone; so a purge, an UPDATE that finds no row and a crash change nothing that
  can be seen, and a login that loses its row to a purge had a session that ended by
  its time.
- `OvershootIsBounded`, `RefusalsHaveCause` (`RateLimiterProofs`): `Accounted` says that
  the active failures kept for a client are exactly its rejections that count.
  `OvershootBounded` is not inductive: the invariant bounds `Charged`, the rejections
  together with the requests that have passed the check and not yet recorded. A
  check lets one more through only below `MaxAttempts` rejections, with at most
  `Threads` requests under way.
- `TableStaysBounded`, `LimiterTypeCorrect`: `Spec => []TableBounded` and
  `[]TypeOK`. `TableInv` keeps the order of the dict's keys a list without
  repetition of the clients with failures; `PopKey` and `AddKey` say what taking a
  key out of such a list and adding one at its end do, `PrunedTable` what pruning
  one client does to both. An eviction makes room for the one key a record adds.
- `LastOneStays`, `AnswersStayRecent`, `CollectionTypes` (`CollectionsProofs`). The
  properties speak of answered requests; the invariant `Recent` extends them to
  running ones, whose last reading may fail after their commit: what a session has
  loaded about a membership that no other request concerns is still true. Steps of
  others cannot touch that membership (`KnownByOthers`), and a request's own commit
  changes just the row it names (`KnownByItself`).
- `MembershipIsAtomic`: `Spec => RequestsAreAtomic`. Where the three properties above
  speak of memberships that one request concerns, this holds for all of them at once:
  additions, removals and deletions of the same document included. It needs that a
  collection once found stays (`Sent`), and that the flush changes one row whatever
  else the loaded list says; a removal that wrote its whole list back would undo
  another's addition and be no step of `AtomicMembership`.
- `HybridTypeCorrect` (`HybridSearchProofs`): `Spec => []TypeOK`. `SortedRanks` shows
  once that counting what comes before an element in a strict total order gives
  ranks from 1 without repetition; the database's lists and the fused one are
  instances. That `(-score, id)` is such an order is `GreaterOrder`, on fractions by
  their cross products.
- `PagesArePartition`: `Spec => []PagesPartition`. The invariant says, while nothing
  has changed, that what has been read is the whole list (`ListsWhole`), that every
  page shows its ranks of the one fused list (`PagesShowRanks`), and that the pages
  lie side by side from the first rank on (`PagesAdjoin`).
- `AgreedOrderKept`: `Spec => []AgreementKept`, for lists of any length, cut off
  anywhere and read at different moments. A list gives more to what it has ahead
  (`ShareAhead`), and a sum grows with its parts (`PlusGrows`).
- `DeletedNotShown`: `Spec => []NothingDeletedShown`, since both queries read after
  the request was sent (`DeletedInv`).

## 7. What is only model-checked

Liveness under fairness (`QueuedIsSettled`, `ShortWordsTerminate`, `ListCatchesUp`,
`UploadEnds`, `GoneIsDeselected`), which is beyond the prover; for
`ShortWordsTerminate` the step it rests on is proved. The type invariant of
`WebClient`, which has no proof yet: what matters about the page is that its lists
put right later what they show wrong now, and that is liveness. And section 4, which
is a counterexample. Every other invariant and action property of a run in section 3
is a theorem of section 6.

## 8. Plan

Done: processing with its abstract lifecycle, storage, progress, chunking, sign-in
and its limiter, collections, the atomic objects behind progress, sign-in and
collections, hybrid search, the document list of the page. What would come next, in
this order:

1. the detail panel of the page (`web/app.js` 488-530): overlapping selections and
   what they show, once the code says which answer is meant to win;
2. the composition of `UploadStorage` with `DocumentProcessing`, so that the undo of
   an upload and the worker's check of the file meet in one model.

The number of runs stays small: properties of one instance are checked together.

## 9. Not modelled, and why

The ranking of PostgreSQL's full-text search and of pgvector; pypdf, PyMuPDF
and OCR (their outcomes are modelled); answers, summaries, quizzes, flashcards and
topics, which are functions of text without a state, and the remote providers
behind some of them; the sign-in, search, answers, collections and detail panel of
the page; the mode that takes the owner from a header; metrics, logging and
configuration parsing; Alembic migrations, which run once and in order; HTTP
validation, headers and page rendering.

To repeat a check, from this directory: `tlc -config DedicatedWorker.cfg
MCDocumentProcessing.tla`; to repeat a proof: `tlapm
DocumentProcessingProofs.tla`.

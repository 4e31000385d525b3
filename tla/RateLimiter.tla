----------------------------- MODULE RateLimiter -----------------------------
(***************************************************************************)
(* LoginRateLimiter (auth.py), a sliding window of failures per client in  *)
(* the memory of one API process, and the two handlers that use it, each   *)
(* request a thread: login_user and, with an instance of its own,          *)
(* answer_document_question, which records every request it lets through.  *)
(* Each method of the limiter runs under its lock; between is_blocked and  *)
(* record_failure the lock is free.                                        *)
(***************************************************************************)
EXTENDS Naturals, FiniteSets, SequencesExt

CONSTANTS
    Requests,       \* requests that are sent, at any time
    Clients,        \* client hosts, the limiter's keys
    NoClient,       \* the request is not sent yet
    Threads,        \* handlers that run at once
    MaxAttempts,    \* get_auth_max_login_attempts
    Window,         \* get_auth_rate_window_seconds, in ticks of the clock
    MaxTracked      \* MAX_TRACKED_LOGIN_KEYS

ASSUME LimiterAssumption ==
    /\ IsFiniteSet(Requests) /\ NoClient \notin Clients
    /\ {Threads, MaxAttempts, Window, MaxTracked} \subseteq Nat \ {0}

VARIABLES
    failures,   \* the failures kept for a client, each by its request
    tracked,    \* the keys of the dict _failures, oldest insertion first
    forgotten,  \* history: failures that a reset or an eviction dropped
    age,        \* how long ago a request's failure was recorded
    pc,         \* where each request is
    client      \* where it comes from

vars == <<failures, tracked, forgotten, age, pc, client>>

Running == {"check", "attempt", "record", "reset"}
PCs == Running \cup {"new", "refused", "rejected", "admitted", "broken"}

Init ==
    /\ failures = [c \in Clients |-> {}]
    /\ tracked = <<>>
    /\ forgotten = {}
    /\ age = [r \in Requests |-> 0]
    /\ pc = [r \in Requests |-> "new"]
    /\ client = [r \in Requests |-> NoClient]

Goto(r, label) == pc' = [pc EXCEPT ![r] = label]

\* A request arrives when a thread is free.
Arrive(r) ==
    /\ pc[r] = "new" /\ Goto(r, "check")
    /\ Cardinality({q \in Requests : pc[q] \in Running}) < Threads
    /\ \E c \in Clients : client' = [client EXCEPT ![r] = c]
    /\ UNCHANGED <<failures, tracked, forgotten, age>>

\* Mutated form: the cutoff itself still counts.
RecentOrCutoff(r) == age[r] <= Window

Recent(r) == age[r] < Window

\* Mutated form: the cutoff is never applied.
AllFailures(c) == failures[c]

\* The timestamps past the cutoff are dropped.
ActiveFailures(c) == {r \in failures[c] : Recent(r)}

\* The dict's keys without one whose list is empty.
KeysAfterPrune(c) == IF ActiveFailures(c) = {} THEN RemoveFirst(tracked, c) ELSE tracked

\* is_blocked: it prunes the client's list and counts what is left.
Check(r) ==
    LET c == client[r]
    IN  /\ pc[r] = "check"
        /\ failures' = [failures EXCEPT ![c] = ActiveFailures(c)]
        /\ tracked' = KeysAfterPrune(c)
        /\ Goto(r, IF Cardinality(ActiveFailures(c)) >= MaxAttempts
                   THEN "refused" ELSE "attempt")
        /\ UNCHANGED <<forgotten, age, client>>

\* The password is right or wrong, or the handler ends without an answer to
\* that: the name is no user name (400), or the database fails (500).
Attempt(r) ==
    /\ pc[r] = "attempt"
    /\ \E label \in {"record", "reset", "broken"} : Goto(r, label)
    /\ UNCHANGED <<failures, tracked, forgotten, age, client>>

\* Mutated form: nothing is evicted.
NeverFull(keys, c) == FALSE

TableFull(keys, c) == ~Contains(keys, c) /\ Len(keys) >= MaxTracked

\* Mutated form: the list is replaced instead of extended.
OnlyThis(c, r) == {r}

WithFailure(c, r) == ActiveFailures(c) \cup {r}

\* record_failure: a full dict loses its oldest key before a new one is added.
Record(r) ==
    LET c == client[r]
        keys == KeysAfterPrune(c)
        evicted == {k \in Clients \ {c} : TableFull(keys, c) /\ k = Head(keys)}
        kept == IF TableFull(keys, c) THEN Tail(keys) ELSE keys
    IN  /\ pc[r] = "record" /\ Goto(r, "rejected")
        /\ failures' = [k \in Clients |->
                           IF k = c THEN WithFailure(c, r)
                           ELSE IF k \in evicted THEN {} ELSE failures[k]]
        /\ tracked' = IF Contains(keys, c) THEN keys ELSE Append(kept, c)
        /\ age' = [age EXCEPT ![r] = 0]
        /\ forgotten' = forgotten \cup UNION {failures[k] : k \in evicted}
        /\ UNCHANGED client

\* reset, after a login that succeeded.
Reset(r) ==
    LET c == client[r]
    IN  /\ pc[r] = "reset" /\ Goto(r, "admitted")
        /\ failures' = [failures EXCEPT ![c] = {}]
        /\ tracked' = RemoveFirst(tracked, c)
        /\ forgotten' = forgotten \cup failures[c]
        /\ UNCHANGED <<age, client>>

Tick ==
    /\ \E r \in Requests : pc[r] = "rejected" /\ Recent(r)
    /\ age' = [r \in Requests |->
                  IF pc[r] = "rejected" /\ Recent(r) THEN age[r] + 1 ELSE age[r]]
    /\ UNCHANGED <<failures, tracked, forgotten, pc, client>>

Next ==
    \/ \E r \in Requests : Arrive(r) \/ Check(r) \/ Attempt(r) \/ Record(r) \/ Reset(r)
    \/ Tick

Spec == Init /\ [][Next]_vars

-----------------------------------------------------------------------------
(* Properties.                                                             *)

\* Every variable has its type.
TypeOK ==
    /\ failures \in [Clients -> SUBSET Requests]
    /\ tracked \in Seq(Clients)
    /\ age \in [Requests -> 0 .. Window]
    /\ forgotten \subseteq Requests
    /\ pc \in [Requests -> PCs]
    /\ client \in [Requests -> Clients \cup {NoClient}]

\* The rejections of a client that still count against it.
Rejections(c) ==
    {r \in Requests : /\ pc[r] = "rejected" /\ client[r] = c
                      /\ Recent(r) /\ r \notin forgotten}

\* is_blocked and record_failure are two critical sections, so requests that
\* were checked together all get through: however they interleave, a client
\* has at most MaxAttempts - 1 + Threads rejections within a window that no
\* reset or eviction took away.
OvershootBounded ==
    \A c \in Clients : Cardinality(Rejections(c)) < MaxAttempts + Threads

\* A request is answered 429 only if its client has MaxAttempts rejections in
\* the window: what others did, what a reset took away and what is older than
\* the window never refuses it.
RefusedForCause ==
    [][\A r \in Requests :
          pc[r] # "refused" /\ pc'[r] = "refused"
              => Cardinality(Rejections(client[r])) >= MaxAttempts]_vars

\* The dict holds at most MAX_TRACKED_LOGIN_KEYS keys, each once, and a key
\* exactly while it has failures.
TableBounded ==
    /\ Len(tracked) <= MaxTracked
    /\ \A i, j \in 1 .. Len(tracked) : tracked[i] = tracked[j] => i = j
    /\ \A c \in Clients : Contains(tracked, c) <=> failures[c] # {}
=============================================================================

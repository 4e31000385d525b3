----------------------------- MODULE AuthSessions -----------------------------
(***************************************************************************)
(* Users and their login sessions: the handlers register_user, login_user, *)
(* logout_user and every other handler's get_current_user (api.py), each   *)
(* request a thread, over the tables users and auth_sessions.  A request   *)
(* is sent once; it names the session it opens and, when it registers, the *)
(* password it chooses.  The rate limit before a login is RateLimiter.     *)
(***************************************************************************)
EXTENDS Naturals

CONSTANTS
    Requests,   \* requests that are sent, at any time and at once
    Names,      \* user names
    Nobody,     \* no request
    Lifetime    \* get_token_lifetime_seconds, in ticks of the clock

ASSUME SessionAssumption ==
    /\ Nobody \notin Requests /\ Nobody \notin Names
    /\ Lifetime \in Nat \ {0}

VARIABLES
    users,      \* who chose the password in the row of a name
    row,        \* the row of the session a login opens
    rest,       \* how long until that row's expires_at
    claim,      \* how long until the exp claim of the token it answers
    pc,         \* where each request is
    op,         \* what it asks for
    name,       \* the name a registration asks for
    target      \* login: the registration whose name and password it gives;
                \* logout, call: the login whose token it carries

vars == <<users, row, rest, claim, pc, op, name, target>>
tables == <<users, row, rest>>
request == <<op, name, target>>

Ops == {"none", "register", "login", "logout", "call"}
InDatabase == {"insert", "authenticate", "purge", "create", "refresh",
               "check", "select", "revoke"}
Working == InDatabase \cup {"reply"}
PCs == Working \cup {"new", "ok", "denied", "stale", "failed"}

Init ==
    /\ users = [n \in Names |-> Nobody]
    /\ row = [r \in Requests |-> "absent"]
    /\ rest = [r \in Requests |-> 0]
    /\ claim = [r \in Requests |-> 0]
    /\ pc = [r \in Requests |-> "new"]
    /\ op = [r \in Requests |-> "none"]
    /\ name = [r \in Requests |-> Nobody]
    /\ target = [r \in Requests |-> Nobody]

Goto(r, label) == pc' = [pc EXCEPT ![r] = label]

\* A request arrives; only a token that was answered can be carried.
Send(r, o, n, t, label) ==
    /\ pc[r] = "new" /\ Goto(r, label)
    /\ op' = [op EXCEPT ![r] = o]
    /\ name' = [name EXCEPT ![r] = n]
    /\ target' = [target EXCEPT ![r] = t]
    /\ UNCHANGED <<tables, claim>>

Open(r) ==
    \/ \E n \in Names : Send(r, "register", n, Nobody, "insert")
    \/ \E t \in Requests :
        /\ op[t] = "register"
        /\ Send(r, "login", Nobody, t, "authenticate")
    \/ \E t \in Requests, o \in {"logout", "call"} :
        /\ op[t] = "login" /\ pc[t] = "ok"
        /\ Send(r, o, Nobody, t, "check")

-----------------------------------------------------------------------------
(* Registration.                                                           *)

\* Mutated form: the row of a name that is taken is overwritten.
NameTaken(n) == FALSE

UniqueViolation(n) == users[n] # Nobody

\* UserRepository.add: the INSERT is refused by the unique key (409).
Insert(r) ==
    /\ pc[r] = "insert"
    /\ IF UniqueViolation(name[r])
       THEN Goto(r, "denied") /\ UNCHANGED users
       ELSE Goto(r, "reply") /\ users' = [users EXCEPT ![name[r]] = r]
    /\ UNCHANGED <<row, rest, claim, request>>

-----------------------------------------------------------------------------
(* Login.                                                                  *)

\* AuthService.authenticate: the name's row holds the password that is given.
Authenticate(r) ==
    LET registration == target[r]
    IN  /\ pc[r] = "authenticate"
        /\ Goto(r, IF users[name[registration]] = registration
                   THEN "purge" ELSE "denied")
        /\ UNCHANGED <<tables, claim, request>>

Active(t) == row[t] = "live" /\ rest[t] > 0

\* Mutated form: the last tick of a session counts as expired.
ExpiresSoon(t) == row[t] # "absent" /\ (row[t] = "revoked" \/ rest[t] <= 1)

Inactive(t) == row[t] # "absent" /\ (row[t] = "revoked" \/ rest[t] = 0)

\* purge_inactive: one DELETE over the sessions of all users, committed.
Purge(r) ==
    /\ pc[r] = "purge" /\ Goto(r, "create")
    /\ row' = [t \in Requests |-> IF Inactive(t) THEN "absent" ELSE row[t]]
    /\ UNCHANGED <<users, rest, claim, request>>

Create(r) ==
    /\ pc[r] = "create" /\ Goto(r, "refresh")
    /\ row' = [row EXCEPT ![r] = "live"]
    /\ rest' = [rest EXCEPT ![r] = Lifetime]
    /\ UNCHANGED <<users, claim, request>>

\* The refresh finds the row unless another login's purge has taken it; the
\* token's exp is counted from the moment the token is made.
Refresh(r) ==
    /\ pc[r] = "refresh"
    /\ IF row[r] = "absent"
       THEN Goto(r, "stale") /\ UNCHANGED claim
       ELSE Goto(r, "reply") /\ claim' = [claim EXCEPT ![r] = Lifetime]
    /\ UNCHANGED <<tables, request>>

-----------------------------------------------------------------------------
(* Requests with a token, logout among them.                               *)

\* get_current_user: the token's exp, then the session's row (otherwise 401).
Check(r) ==
    /\ pc[r] = "check"
    /\ Goto(r, IF claim[target[r]] = 0 \/ ~Active(target[r]) THEN "denied"
               ELSE IF op[r] = "logout" THEN "select" ELSE "reply")
    /\ UNCHANGED <<tables, claim, request>>

\* revoke, in a session of its own: a row that is gone or revoked by now
\* leaves nothing to do.
Select(r) ==
    /\ pc[r] = "select"
    /\ Goto(r, IF row[target[r]] = "live" THEN "revoke" ELSE "reply")
    /\ UNCHANGED <<tables, claim, request>>

\* Mutated form: the transaction is never committed.
RolledBack(t) == row

Revoked(t) == [row EXCEPT ![t] = "revoked"]

\* The UPDATE of revoked_at needs the row it has loaded (otherwise 503).
Revoke(r) ==
    /\ pc[r] = "revoke"
    /\ IF row[target[r]] = "absent"
       THEN Goto(r, "stale") /\ UNCHANGED row
       ELSE Goto(r, "reply") /\ row' = Revoked(target[r])
    /\ UNCHANGED <<users, rest, claim, request>>

Reply(r) ==
    /\ pc[r] = "reply" /\ Goto(r, "ok")
    /\ UNCHANGED <<tables, claim, request>>

-----------------------------------------------------------------------------
(* Time and failures.                                                      *)

\* Mutated form: the time left is not cut off at zero.
BelowZero(n) == n - 1

Less(n) == IF n > 0 THEN n - 1 ELSE 0

Tick ==
    /\ \E t \in Requests : rest[t] > 0 \/ claim[t] > 0
    /\ rest' = [t \in Requests |-> Less(rest[t])]
    /\ claim' = [t \in Requests |-> Less(claim[t])]
    /\ UNCHANGED <<users, row, pc, request>>

\* The database fails one statement: its transaction is rolled back.
Unavailable(r) ==
    /\ pc[r] \in InDatabase /\ Goto(r, "failed")
    /\ UNCHANGED <<tables, claim, request>>

\* The API dies: what is committed stays, the answers are lost.
Crash ==
    /\ \E r \in Requests : pc[r] \in Working
    /\ pc' = [r \in Requests |-> IF pc[r] \in Working THEN "failed" ELSE pc[r]]
    /\ UNCHANGED <<tables, claim, request>>

Serve(r) ==
    \/ Insert(r) \/ Authenticate(r) \/ Purge(r) \/ Create(r) \/ Refresh(r)
    \/ Check(r) \/ Select(r) \/ Revoke(r) \/ Reply(r)

Next ==
    \/ \E r \in Requests : Open(r) \/ Serve(r) \/ Unavailable(r)
    \/ Tick \/ Crash

Spec == Init /\ [][Next]_vars

-----------------------------------------------------------------------------
(* Properties.                                                             *)

\* Every variable has its type, and a request has the target its kind needs.
TypeOK ==
    /\ users \in [Names -> Requests \cup {Nobody}]
    /\ row \in [Requests -> {"absent", "live", "revoked"}]
    /\ rest \in [Requests -> 0 .. Lifetime]
    /\ claim \in [Requests -> 0 .. Lifetime]
    /\ pc \in [Requests -> PCs]
    /\ op \in [Requests -> Ops]
    /\ name \in [Requests -> Names \cup {Nobody}]
    /\ target \in [Requests -> Requests \cup {Nobody}]

\* A logout that ran to its end, whether it was answered 204 or 503 because
\* its session's row was purged under it (revoke), leaves a session no later
\* request is admitted with, whatever logins and purges ran meanwhile.
LoggedOutStaysOut ==
    \A r \in Requests :
        op[r] = "logout" /\ pc[r] \in {"reply", "ok", "stale"}
            => ~Active(target[r])

\* A token that was answered, has not expired and was never carried by a
\* logout is accepted: purges of other logins, failures and crashes of other
\* requests do not end its session.
SessionKept ==
    \A r \in Requests :
        /\ op[r] = "login" /\ pc[r] = "ok" /\ rest[r] > 0
        /\ ~\E q \in Requests : op[q] = "logout" /\ target[q] = r
        => Active(r)

\* Of the registrations of one name at most one is answered 201, and every
\* token of that name was given for the password chosen there.
OneRegistration ==
    \A r \in Requests :
        /\ op[r] = "register" /\ pc[r] \in {"reply", "ok"} => users[name[r]] = r
        /\ op[r] = "login" /\ pc[r] \in {"purge", "create", "refresh", "reply", "ok"}
            => users[name[target[r]]] = target[r]

StateOf(r) ==
    CASE pc[r] = "new" -> "new"
      [] pc[r] \in {"refresh", "reply"} -> "effective"
      [] pc[r] = "ok" -> "acknowledged"
      [] pc[r] \in {"denied", "stale", "failed"} -> "unanswered"
      [] OTHER -> "arrived"

Atomic == INSTANCE AtomicSessions
    WITH asked <- op,
         session <- [r \in Requests |-> IF row[r] = "live" THEN rest[r] ELSE 0],
         state <- [r \in Requests |-> StateOf(r)]

\* Registrations, logins, logouts and the checks of tokens are atomic, although
\* each is several transactions on rows that every login purges: an acknowledged
\* one took effect once, at one instant while it ran, and nothing else opens or
\* ends a session but its time.
RequestsAreAtomic == Atomic!Spec
=============================================================================

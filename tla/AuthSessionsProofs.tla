-------------------------- MODULE AuthSessionsProofs --------------------------
(***************************************************************************)
(* Proofs about AuthSessions: for any number of requests and names and any *)
(* lifetime, a logout is final, a session nobody logs out lasts until it   *)
(* expires, and a name is registered once.                                 *)
(***************************************************************************)
EXTENDS AuthSessions, TLAPS

\* What a request at a label is, and what its target must be: the login it
\* names has been answered, and a finished request takes no more steps.
Kinds ==
    \A r \in Requests :
        /\ op[r] = "none" <=> pc[r] = "new"
        /\ pc[r] = "insert" => op[r] = "register"
        /\ pc[r] \in {"authenticate", "purge", "create", "refresh"}
            => op[r] = "login"
        /\ pc[r] = "check" => op[r] \in {"logout", "call"}
        /\ pc[r] \in {"select", "revoke"} => op[r] = "logout"
        /\ op[r] = "register" => name[r] \in Names
        /\ op[r] = "login" => target[r] \in Requests /\ op[target[r]] = "register"
        /\ op[r] \in {"logout", "call"} =>
            /\ target[r] \in Requests
            /\ op[target[r]] = "login" /\ pc[target[r]] = "ok"

\* SessionKept from the moment the row is committed.
SessionKeptFromCreate ==
    \A r \in Requests :
        /\ op[r] = "login" /\ pc[r] \in {"refresh", "reply", "ok"}
        /\ rest[r] > 0
        /\ ~\E q \in Requests : op[q] = "logout" /\ target[q] = r
        => row[r] = "live"

SessionInv ==
    /\ TypeOK
    /\ Kinds
    /\ LoggedOutStaysOut
    /\ SessionKeptFromCreate
    /\ OneRegistration

LEMMA SessionInit == Init => SessionInv
BY SessionAssumption DEF Init, SessionInv, TypeOK, Kinds, LoggedOutStaysOut,
    SessionKeptFromCreate, OneRegistration, PCs, Ops

\* A step that moves one request along and leaves the tables alone.
LEMMA SessionTypeStep == TypeOK /\ Kinds /\ [Next]_vars => TypeOK'
<1> USE SessionAssumption DEF PCs, Working, InDatabase, Ops, Goto, tables, request
<1> SUFFICES ASSUME TypeOK, Kinds, [Next]_vars PROVE TypeOK'
  OBVIOUS
<1>1. ASSUME NEW r \in Requests, Open(r) PROVE TypeOK'
  BY <1>1 DEF Open, Send, TypeOK
<1>2. ASSUME NEW r \in Requests, Insert(r) PROVE TypeOK'
  BY <1>2 DEF Insert, TypeOK
<1>3. ASSUME NEW r \in Requests, Authenticate(r) PROVE TypeOK'
  BY <1>3 DEF Authenticate, TypeOK
<1>4. ASSUME NEW r \in Requests, Purge(r) PROVE TypeOK'
  BY <1>4 DEF Purge, TypeOK
<1>5. ASSUME NEW r \in Requests, Create(r) PROVE TypeOK'
  BY <1>5 DEF Create, TypeOK
<1>6. ASSUME NEW r \in Requests, Refresh(r) PROVE TypeOK'
  BY <1>6 DEF Refresh, TypeOK
<1>7. ASSUME NEW r \in Requests, Check(r) \/ Select(r) \/ Reply(r) \/ Unavailable(r)
      PROVE TypeOK'
  BY <1>7 DEF Check, Select, Reply, Unavailable, TypeOK
<1>8. ASSUME NEW r \in Requests, Revoke(r) PROVE TypeOK'
  BY <1>8 DEF Revoke, Revoked, TypeOK
<1>9. CASE Tick
  BY <1>9 DEF Tick, Less, TypeOK
<1>10. CASE Crash
  BY <1>10 DEF Crash, TypeOK
<1>11. CASE UNCHANGED vars
  BY <1>11 DEF vars, TypeOK
<1>12. QED
  BY <1>1, <1>2, <1>3, <1>4, <1>5, <1>6, <1>7, <1>8, <1>9, <1>10, <1>11 DEF Next, Serve

LEMMA SessionKindsStep == TypeOK /\ Kinds /\ [Next]_vars => Kinds'
<1> USE SessionAssumption DEF Working, InDatabase, Goto, tables, request
<1> SUFFICES ASSUME TypeOK, Kinds, [Next]_vars PROVE Kinds'
  OBVIOUS
<1>1. ASSUME NEW r \in Requests, Open(r) PROVE Kinds'
  <2>1. CASE \E n \in Names : Send(r, "register", n, Nobody, "insert")
    BY <2>1 DEF Send, TypeOK, Kinds
  <2>2. CASE \E t \in Requests :
                op[t] = "register" /\ Send(r, "login", Nobody, t, "authenticate")
    BY <2>2 DEF Send, TypeOK, Kinds
  <2>3. CASE \E t \in Requests, o \in {"logout", "call"} :
                op[t] = "login" /\ pc[t] = "ok" /\ Send(r, o, Nobody, t, "check")
    BY <2>3 DEF Send, TypeOK, Kinds
  <2>4. QED
    BY <1>1, <2>1, <2>2, <2>3 DEF Open
<1>2. ASSUME NEW r \in Requests, Serve(r) \/ Unavailable(r) PROVE Kinds'
  <2>1. PICK label : pc' = [pc EXCEPT ![r] = label] /\ UNCHANGED request
    BY <1>2 DEF Serve, Insert, Authenticate, Purge, Create, Refresh, Check,
        Select, Revoke, Reply, Unavailable
  <2>2. pc[r] \in Working /\ pc'[r] # "new" /\ pc'[r] \notin {"insert", "authenticate", "check"}
    BY <1>2 DEF Serve, Insert, Authenticate, Purge, Create, Refresh, Check,
        Select, Revoke, Reply, Unavailable, TypeOK
  <2>3. /\ pc'[r] \in {"purge", "create", "refresh"} => op[r] = "login"
        /\ pc'[r] \in {"select", "revoke"} => op[r] = "logout"
    BY <1>2 DEF Serve, Insert, Authenticate, Purge, Create, Refresh, Check,
        Select, Revoke, Reply, Unavailable, TypeOK, Kinds
  <2>4. QED
    BY <2>1, <2>2, <2>3 DEF TypeOK, Kinds
<1>3. CASE Tick
  BY <1>3 DEF Tick, Kinds
<1>4. CASE Crash
  BY <1>4 DEF Crash, TypeOK, Kinds
<1>5. CASE UNCHANGED vars
  BY <1>5 DEF vars, Kinds
<1>6. QED
  BY <1>1, <1>2, <1>3, <1>4, <1>5 DEF Next

\* A row turns live only when the login that owns it creates it, and that
\* login is answered afterwards: no logout can carry its token yet.
LEMMA LogoutStep ==
    TypeOK /\ Kinds /\ LoggedOutStaysOut /\ [Next]_vars => LoggedOutStaysOut'
<1> USE SessionAssumption DEF Working, InDatabase, Goto, tables, request, Active
<1> SUFFICES ASSUME TypeOK, Kinds, LoggedOutStaysOut, [Next]_vars
             PROVE  LoggedOutStaysOut'
  OBVIOUS
<1>1. ASSUME NEW r \in Requests, Open(r) PROVE LoggedOutStaysOut'
  BY <1>1 DEF Open, Send, TypeOK, Kinds, LoggedOutStaysOut
<1>2. ASSUME NEW r \in Requests,
             Insert(r) \/ Authenticate(r) \/ Refresh(r) \/ Reply(r) \/ Unavailable(r)
      PROVE LoggedOutStaysOut'
  BY <1>2 DEF Insert, Authenticate, Refresh, Reply, Unavailable, TypeOK, Kinds,
      LoggedOutStaysOut
<1>3. ASSUME NEW r \in Requests, Purge(r) PROVE LoggedOutStaysOut'
  BY <1>3 DEF Purge, Inactive, TypeOK, Kinds, LoggedOutStaysOut
<1>4. ASSUME NEW r \in Requests, Create(r) PROVE LoggedOutStaysOut'
  BY <1>4 DEF Create, TypeOK, Kinds, LoggedOutStaysOut
<1>5. ASSUME NEW r \in Requests, Check(r) PROVE LoggedOutStaysOut'
  BY <1>5 DEF Check, TypeOK, Kinds, LoggedOutStaysOut
<1>6. ASSUME NEW r \in Requests, Select(r) PROVE LoggedOutStaysOut'
  BY <1>6 DEF Select, TypeOK, Kinds, LoggedOutStaysOut
<1>7. ASSUME NEW r \in Requests, Revoke(r) PROVE LoggedOutStaysOut'
  BY <1>7 DEF Revoke, Revoked, TypeOK, Kinds, LoggedOutStaysOut
<1>8. CASE Tick
  BY <1>8 DEF Tick, Less, TypeOK, Kinds, LoggedOutStaysOut
<1>9. CASE Crash
  BY <1>9 DEF Crash, TypeOK, Kinds, LoggedOutStaysOut
<1>10. CASE UNCHANGED vars
  BY <1>10 DEF vars, LoggedOutStaysOut
<1>11. QED
  BY <1>1, <1>2, <1>3, <1>4, <1>5, <1>6, <1>7, <1>8, <1>9, <1>10 DEF Next, Serve

\* A purge takes a row only when it is revoked or its time is over.
LEMMA KeptStep ==
    TypeOK /\ Kinds /\ SessionKeptFromCreate /\ [Next]_vars => SessionKeptFromCreate'
<1> USE SessionAssumption DEF Working, InDatabase, Goto, tables, request
<1> SUFFICES ASSUME TypeOK, Kinds, SessionKeptFromCreate, [Next]_vars
             PROVE  SessionKeptFromCreate'
  OBVIOUS
<1>1. ASSUME NEW r \in Requests, Open(r) PROVE SessionKeptFromCreate'
  BY <1>1 DEF Open, Send, TypeOK, Kinds, SessionKeptFromCreate
<1>2. ASSUME NEW r \in Requests,
             Insert(r) \/ Authenticate(r) \/ Refresh(r) \/ Reply(r) \/ Unavailable(r)
             \/ Check(r) \/ Select(r)
      PROVE SessionKeptFromCreate'
  BY <1>2 DEF Insert, Authenticate, Refresh, Reply, Unavailable, Check, Select,
      TypeOK, Kinds, SessionKeptFromCreate
<1>3. ASSUME NEW r \in Requests, Purge(r) PROVE SessionKeptFromCreate'
  BY <1>3 DEF Purge, Inactive, TypeOK, Kinds, SessionKeptFromCreate
<1>4. ASSUME NEW r \in Requests, Create(r) PROVE SessionKeptFromCreate'
  BY <1>4 DEF Create, TypeOK, Kinds, SessionKeptFromCreate
<1>5. ASSUME NEW r \in Requests, Revoke(r) PROVE SessionKeptFromCreate'
  BY <1>5 DEF Revoke, Revoked, TypeOK, Kinds, SessionKeptFromCreate
<1>6. CASE Tick
  BY <1>6 DEF Tick, Less, TypeOK, SessionKeptFromCreate
<1>7. CASE Crash
  BY <1>7 DEF Crash, TypeOK, SessionKeptFromCreate
<1>8. CASE UNCHANGED vars
  BY <1>8 DEF vars, SessionKeptFromCreate
<1>9. QED
  BY <1>1, <1>2, <1>3, <1>4, <1>5, <1>6, <1>7, <1>8 DEF Next, Serve

\* A row of users is written once, while its name is free.
LEMMA RegistrationStep ==
    TypeOK /\ Kinds /\ OneRegistration /\ [Next]_vars => OneRegistration'
<1> USE SessionAssumption DEF Working, InDatabase, Goto, tables, request
<1> SUFFICES ASSUME TypeOK, Kinds, OneRegistration, [Next]_vars
             PROVE  OneRegistration'
  OBVIOUS
<1>1. ASSUME NEW r \in Requests, Open(r) PROVE OneRegistration'
  BY <1>1 DEF Open, Send, TypeOK, Kinds, OneRegistration
<1>2. ASSUME NEW r \in Requests, Insert(r) PROVE OneRegistration'
  BY <1>2 DEF Insert, UniqueViolation, TypeOK, Kinds, OneRegistration
<1>3. ASSUME NEW r \in Requests, Serve(r) \/ Unavailable(r), ~Insert(r)
      PROVE OneRegistration'
  <2>1. PICK label : pc' = [pc EXCEPT ![r] = label] /\ UNCHANGED <<users, request>>
    BY <1>3 DEF Serve, Authenticate, Purge, Create, Refresh, Check, Select,
        Revoke, Reply, Unavailable
  <2>2. /\ op[r] = "register" /\ pc'[r] \in {"reply", "ok"} => pc[r] = "reply"
        /\ op[r] = "login" /\ pc'[r] \in {"purge", "create", "refresh", "reply", "ok"}
            => \/ users[name[target[r]]] = target[r]
               \/ pc[r] \in {"purge", "create", "refresh", "reply"}
    BY <1>3 DEF Serve, Authenticate, Purge, Create, Refresh, Check, Select,
        Revoke, Reply, Unavailable, TypeOK, Kinds
  <2>3. QED
    BY <2>1, <2>2 DEF TypeOK, OneRegistration
<1>4. CASE Tick
  BY <1>4 DEF Tick, OneRegistration
<1>5. CASE Crash
  BY <1>5 DEF Crash, TypeOK, OneRegistration
<1>6. CASE UNCHANGED vars
  BY <1>6 DEF vars, OneRegistration
<1>7. QED
  BY <1>1, <1>2, <1>3, <1>4, <1>5, <1>6 DEF Next

\* Every step keeps the invariant.
LEMMA SessionStep == SessionInv /\ [Next]_vars => SessionInv'
BY SessionTypeStep, SessionKindsStep, LogoutStep, KeptStep, RegistrationStep
   DEF SessionInv

\* The conjunction is inductive.
THEOREM SessionInvariant == Spec => []SessionInv
BY SessionInit, SessionStep, PTL DEF Spec

\* Every variable keeps its type, for any constants.
THEOREM SessionTypes == Spec => []TypeOK
<1>1. SessionInv => TypeOK
  BY DEF SessionInv
<1>2. QED
  BY <1>1, SessionInvariant, PTL

\* A logout that ran to its end is final (logout_user, api.py), although
\* revoke and other logins' purge_inactive interleave on the row.
THEOREM LogoutIsFinal == Spec => []LoggedOutStaysOut
<1>1. SessionInv => LoggedOutStaysOut
  BY DEF SessionInv
<1>2. QED
  BY <1>1, SessionInvariant, PTL

\* Nothing but a logout and its own expiry ends a session whose token was
\* answered (login_user, api.py).
THEOREM SessionsLast == Spec => []SessionKept
<1>1. SessionInv => SessionKept
  BY DEF SessionInv, SessionKeptFromCreate, SessionKept, Active
<1>2. QED
  BY <1>1, SessionInvariant, PTL

\* The unique key on the name (UserRepository.add) settles racing
\* registrations, and every token belongs to the one that won.
THEOREM NamesRegisteredOnce == Spec => []OneRegistration
<1>1. SessionInv => OneRegistration
  BY DEF SessionInv
<1>2. QED
  BY <1>1, SessionInvariant, PTL

-----------------------------------------------------------------------------
(* Requests are atomic.                                                    *)

States == [r \in Requests |-> StateOf(r)]
Left(r) == IF row[r] = "live" THEN rest[r] ELSE 0
Sessions == [r \in Requests |-> Left(r)]

\* The states of a request, label by label.
LEMMA StateByLabel ==
    ASSUME NEW r \in Requests
    PROVE  /\ pc[r] = "new" => StateOf(r) = "new"
           /\ pc[r] \in {"insert", "authenticate", "purge", "create", "check",
                         "select", "revoke"} => StateOf(r) = "arrived"
           /\ pc[r] \in {"refresh", "reply"} => StateOf(r) = "effective"
           /\ StateOf(r) = "acknowledged" <=> pc[r] = "ok"
           /\ pc[r] \in {"denied", "stale", "failed"} => StateOf(r) = "unanswered"
BY DEF StateOf

\* A step of one request moves it on, and nobody else.
LEMMA OneMoves ==
    ASSUME TypeOK, NEW r \in Requests, NEW label, Goto(r, label)
    PROVE  /\ States' = [States EXCEPT ![r] = StateOf(r)']
           /\ label \in {"insert", "authenticate", "purge", "create", "check",
                         "select", "revoke"} => StateOf(r)' = "arrived"
           /\ label \in {"refresh", "reply"} => StateOf(r)' = "effective"
           /\ label = "ok" => StateOf(r)' = "acknowledged"
           /\ label \in {"denied", "stale", "failed"} => StateOf(r)' = "unanswered"
<1>1. pc' = [pc EXCEPT ![r] = label] /\ pc'[r] = label
  BY DEF Goto, TypeOK
<1>2. \A q \in Requests \ {r} : StateOf(q)' = StateOf(q)
  BY <1>1 DEF StateOf
<1>3. QED
  BY <1>1, <1>2 DEF States, StateOf

\* A step within the same state that leaves users and sessions alone is hidden.
LEMMA Hidden ==
    ASSUME NEW r \in Requests, States' = [States EXCEPT ![r] = StateOf(r)],
           Sessions' = Sessions, UNCHANGED <<users, request>>
    PROVE  UNCHANGED Atomic!vars
BY DEF Atomic!vars, States, Sessions, Left, request

\* Refused, failed or not answered.
LEMMA Forsaken ==
    ASSUME TypeOK, NEW r \in Requests, pc[r] \in Working,
           NEW label \in {"denied", "stale", "failed"}, Goto(r, label),
           Sessions' = Sessions, UNCHANGED <<users, request>>
    PROVE  Atomic!Forsake
<1>1. States' = [States EXCEPT ![r] = "unanswered"]
  BY OneMoves
<1>2. StateOf(r) \in {"arrived", "effective"}
  BY StateByLabel DEF Working, InDatabase
<1>3. States' = [q \in Requests |-> IF q \in {r} THEN "unanswered" ELSE States[q]]
  BY <1>1 DEF States
<1>4. {r} \in SUBSET {q \in Requests : States[q] \in {"arrived", "effective"}}
  BY <1>2 DEF States
<1>5. QED
  BY <1>3, <1>4 DEF Atomic!Forsake, Atomic!request, request, States, Sessions, Left

\* A step that changes a session's row changes at most how long it stays open.
LEMMA OneSession ==
    ASSUME TypeOK, NEW t \in Requests,
           \A q \in Requests \ {t} : row'[q] = row[q] /\ rest'[q] = rest[q]
    PROVE  Sessions' = [Sessions EXCEPT ![t] = Left(t)']
<1>1. \A q \in Requests \ {t} : Left(q)' = Left(q)
  BY DEF Left
<1>2. QED
  BY <1>1 DEF Sessions

\* What leaves the rows alone leaves the sessions alone.
LEMMA SameSessions ==
    ASSUME UNCHANGED <<row, rest>>
    PROVE  Sessions' = Sessions
BY DEF Sessions, Left

\* A request that takes effect.
LEMMA Effective ==
    ASSUME TypeOK, NEW r \in Requests, StateOf(r) = "arrived",
           NEW label \in {"refresh", "reply"}, Goto(r, label),
           Atomic!Effect(r), UNCHANGED request
    PROVE  Atomic!TakeEffect(r)
<1>1. States' = [States EXCEPT ![r] = "effective"]
  BY OneMoves
<1>2. QED
  BY <1>1 DEF Atomic!TakeEffect, Atomic!Enter, Atomic!request, request, States

\* Every step of a request is one of the atomic object's or is hidden.
LEMMA AtomicStep ==
    ASSUME SessionInv, NEW r \in Requests, Open(r) \/ Serve(r) \/ Unavailable(r)
    PROVE  [Atomic!Next]_(Atomic!vars)
<1>0. TypeOK /\ Kinds /\ OneRegistration
  BY DEF SessionInv
<1>1. SUFFICES \/ Atomic!Arrive(r) \/ Atomic!TakeEffect(r) \/ Atomic!Acknowledge(r)
               \/ Atomic!Forsake \/ UNCHANGED Atomic!vars
  BY DEF Atomic!Next
<1>2. CASE Open(r)
  <2>1. PICK o \in Ops, n \in Names \cup {Nobody}, t \in Requests \cup {Nobody},
             label \in {"insert", "authenticate", "check"} :
            /\ Send(r, o, n, t, label)
            /\ \/ o = "register" /\ n \in Names /\ t = Nobody
               \/ o = "login" /\ n = Nobody /\ t \in Requests /\ op[t] = "register"
               \/ /\ o \in {"logout", "call"} /\ n = Nobody /\ t \in Requests
                  /\ op[t] = "login" /\ pc[t] = "ok"
    BY <1>2 DEF Open, Ops
  <2>2. States' = [States EXCEPT ![r] = "arrived"] /\ States[r] = "new"
    BY <1>0, <2>1, OneMoves, StateByLabel DEF Send, States
  <2>3. Sessions' = Sessions /\ users' = users
    BY <2>1, SameSessions DEF Send, tables
  <2>4. Atomic!Ask(r, o, n, t)
    BY <2>1 DEF Send, Atomic!Ask
  <2>5. o \in {"logout", "call"} => States[t] = "acknowledged"
    BY <2>1, StateByLabel DEF States
  <2>6. Atomic!Arrive(r)
    BY <2>1, <2>2, <2>3, <2>4, <2>5 DEF Atomic!Arrive, Atomic!Enter, States, Sessions, Left
  <2>7. QED
    BY <2>6
<1>3. CASE Insert(r)
  <2>1. /\ pc[r] = "insert" /\ op[r] = "register" /\ StateOf(r) = "arrived"
        /\ Sessions' = Sessions /\ UNCHANGED request
    BY <1>0, <1>3, StateByLabel, SameSessions DEF Insert, Kinds
  <2>2. CASE UniqueViolation(name[r])
    BY <1>0, <1>3, <2>1, <2>2, Forsaken DEF Insert, Working, InDatabase
  <2>3. CASE ~UniqueViolation(name[r])
    <3>1. Goto(r, "reply") /\ users' = [users EXCEPT ![name[r]] = r] /\ users[name[r]] = Nobody
      BY <1>3, <2>3 DEF Insert, UniqueViolation
    <3>2. Atomic!Effect(r)
      BY <2>1, <3>1 DEF Atomic!Effect, Sessions, Left
    <3>3. QED
      BY <1>0, <2>1, <3>1, <3>2, Effective
  <2>4. QED
    BY <2>2, <2>3
<1>4. CASE Authenticate(r)
  <2>1. /\ pc[r] = "authenticate" /\ StateOf(r) = "arrived"
        /\ Sessions' = Sessions /\ UNCHANGED <<users, request>>
    BY <1>4, StateByLabel, SameSessions DEF Authenticate, tables
  <2>2. CASE Goto(r, "purge")
    BY <1>0, <2>1, <2>2, OneMoves, Hidden
  <2>3. CASE Goto(r, "denied")
    BY <1>0, <2>1, <2>3, Forsaken DEF Working, InDatabase
  <2>4. QED
    BY <1>4, <2>2, <2>3 DEF Authenticate
<1>5. CASE Purge(r)
  <2>1. /\ pc[r] = "purge" /\ Goto(r, "create") /\ StateOf(r) = "arrived"
        /\ UNCHANGED <<users, rest, request>>
    BY <1>5, StateByLabel DEF Purge
  <2>2. \A q \in Requests : Left(q)' = Left(q)
    BY <1>0, <1>5 DEF Purge, Inactive, Left, TypeOK
  <2>3. Sessions' = Sessions
    BY <2>2 DEF Sessions
  <2>4. QED
    BY <1>0, <2>1, <2>3, OneMoves, Hidden
<1>6. CASE Create(r)
  <2>1. /\ pc[r] = "create" /\ op[r] = "login" /\ StateOf(r) = "arrived"
        /\ Goto(r, "refresh") /\ UNCHANGED <<users, request>>
        /\ users[name[target[r]]] = target[r]
    BY <1>0, <1>6, StateByLabel DEF Create, Kinds, OneRegistration
  <2>2. Sessions' = [Sessions EXCEPT ![r] = Lifetime]
    <3>1. \A q \in Requests \ {r} : row'[q] = row[q] /\ rest'[q] = rest[q]
      BY <1>0, <1>6 DEF Create, TypeOK
    <3>2. Left(r)' = Lifetime
      BY <1>0, <1>6 DEF Create, TypeOK, Left
    <3>3. QED
      BY <1>0, <3>1, <3>2, OneSession
  <2>3. Atomic!Effect(r)
    BY <2>1, <2>2 DEF Atomic!Effect, Sessions, Left
  <2>4. QED
    BY <1>0, <2>1, <2>3, Effective
<1>7. CASE Refresh(r)
  <2>1. /\ pc[r] = "refresh" /\ StateOf(r) = "effective"
        /\ Sessions' = Sessions /\ UNCHANGED <<users, request>>
    BY <1>7, StateByLabel, SameSessions DEF Refresh, tables
  <2>2. CASE Goto(r, "stale")
    BY <1>0, <2>1, <2>2, Forsaken DEF Working, InDatabase
  <2>3. CASE Goto(r, "reply")
    BY <1>0, <2>1, <2>3, OneMoves, Hidden
  <2>4. QED
    BY <1>7, <2>2, <2>3 DEF Refresh
<1>8. CASE Check(r)
  <2>1. /\ pc[r] = "check" /\ op[r] \in {"logout", "call"} /\ StateOf(r) = "arrived"
        /\ Sessions' = Sessions /\ UNCHANGED <<users, request>>
    BY <1>0, <1>8, StateByLabel, SameSessions DEF Check, tables, Kinds
  <2>2. CASE Goto(r, "denied")
    BY <1>0, <2>1, <2>2, Forsaken DEF Working, InDatabase
  <2>3. CASE Goto(r, "select")
    BY <1>0, <2>1, <2>3, OneMoves, Hidden
  <2>4. CASE Goto(r, "reply") /\ op[r] = "call" /\ Active(target[r])
    <3>1. target[r] \in Requests
      BY <1>0, <2>1 DEF Kinds
    <3>2. Sessions[target[r]] > 0
      BY <2>4, <3>1 DEF Active, Sessions, Left
    <3>3. Atomic!Effect(r)
      BY <2>1, <2>4, <3>2 DEF Atomic!Effect, Sessions, Left
    <3>4. QED
      BY <1>0, <2>1, <2>4, <3>3, Effective
  <2>5. QED
    BY <1>8, <2>1, <2>2, <2>3, <2>4 DEF Check
<1>9. CASE Select(r)
  <2>1. /\ pc[r] = "select" /\ op[r] = "logout" /\ StateOf(r) = "arrived"
        /\ Sessions' = Sessions /\ UNCHANGED <<users, request>> /\ target[r] \in Requests
    BY <1>0, <1>9, StateByLabel, SameSessions DEF Select, tables, Kinds
  <2>2. CASE Goto(r, "revoke")
    BY <1>0, <2>1, <2>2, OneMoves, Hidden
  <2>3. CASE Goto(r, "reply") /\ row[target[r]] # "live"
    <3>1. Sessions' = [Sessions EXCEPT ![target[r]] = 0]
      BY <2>1, <2>3 DEF Sessions, Left
    <3>2. Atomic!Effect(r)
      BY <2>1, <3>1 DEF Atomic!Effect, Sessions, Left
    <3>3. QED
      BY <1>0, <2>1, <2>3, <3>2, Effective
  <2>4. QED
    BY <1>9, <2>2, <2>3 DEF Select
<1>10. CASE Revoke(r)
  <2>1. /\ pc[r] = "revoke" /\ op[r] = "logout" /\ StateOf(r) = "arrived"
        /\ UNCHANGED <<users, rest, request>> /\ target[r] \in Requests
    BY <1>0, <1>10, StateByLabel DEF Revoke, Kinds
  <2>2. CASE Goto(r, "stale") /\ UNCHANGED row
    BY <1>0, <2>1, <2>2, SameSessions, Forsaken DEF Working, InDatabase
  <2>3. CASE Goto(r, "reply") /\ row' = Revoked(target[r])
    <3>1. PICK t \in Requests : t = target[r]
      BY <2>1
    <3>2. row' = [row EXCEPT ![t] = "revoked"]
      BY <2>3, <3>1 DEF Revoked
    <3>3. /\ \A q \in Requests \ {t} : row'[q] = row[q] /\ rest'[q] = rest[q]
          /\ Left(t)' = 0
      BY <1>0, <2>1, <3>2 DEF TypeOK, Left
    <3>4. Sessions' = [Sessions EXCEPT ![t] = 0]
      BY <1>0, <3>3, OneSession
    <3>5. Atomic!Effect(r)
      BY <2>1, <3>1, <3>4 DEF Atomic!Effect, Sessions, Left
    <3>6. QED
      BY <1>0, <2>1, <2>3, <3>5, Effective
  <2>4. QED
    BY <1>10, <2>2, <2>3 DEF Revoke
<1>11. CASE Reply(r)
  <2>1. /\ Goto(r, "ok") /\ StateOf(r) = "effective"
        /\ Sessions' = Sessions /\ UNCHANGED <<users, request>>
    BY <1>11, StateByLabel, SameSessions DEF Reply, tables
  <2>2. States' = [States EXCEPT ![r] = "acknowledged"]
    BY <1>0, <2>1, OneMoves
  <2>3. QED
    BY <2>1, <2>2 DEF Atomic!Acknowledge, Atomic!Enter, Atomic!request, request,
       States, Sessions, Left
<1>12. CASE Unavailable(r)
  BY <1>0, <1>12, SameSessions, Forsaken DEF Unavailable, Working, tables
<1>13. QED
  BY <1>2, <1>3, <1>4, <1>5, <1>6, <1>7, <1>8, <1>9, <1>10, <1>11, <1>12 DEF Serve

\* A tick of the clock shortens every open session.
LEMMA AtomicTick ==
    ASSUME TypeOK, Tick
    PROVE  Atomic!Tick
<1>1. \A q \in Requests : Left(q)' = IF Left(q) > 0 THEN Left(q) - 1 ELSE 0
  BY DEF Tick, Less, Left, TypeOK
<1>2. \A q \in Requests : StateOf(q)' = StateOf(q)
  BY DEF Tick, StateOf
<1>3. QED
  BY <1>1, <1>2 DEF Tick, Atomic!Tick, Atomic!request, request, Left

\* A crash ends requests and no session: what they have committed stays.
LEMMA AtomicCrash ==
    ASSUME TypeOK, Crash
    PROVE  Atomic!Forsake
<1> DEFINE rs == {r \in Requests : pc[r] \in Working}
<1>1. \A r \in rs : StateOf(r) \in {"arrived", "effective"} /\ StateOf(r)' = "unanswered"
  BY StateByLabel DEF Crash, Working, InDatabase, StateOf
<1>2. \A r \in Requests \ rs : StateOf(r)' = StateOf(r)
  BY DEF Crash, StateOf
<1>3. States' = [r \in Requests |-> IF r \in rs THEN "unanswered" ELSE States[r]]
  BY <1>1, <1>2 DEF States
<1>4. rs \in SUBSET {r \in Requests : States[r] \in {"arrived", "effective"}}
  BY <1>1 DEF States
<1>5. QED
  BY <1>3, <1>4 DEF Crash, tables, Atomic!Forsake, Atomic!request, request, States

\* Registrations, logins, logouts and token checks are atomic, and so
\* linearizable: AuthSessions implements AtomicSessions, in which each takes
\* effect at one instant, although purges and failures come between their
\* transactions.
THEOREM SessionsAreAtomic == Spec => RequestsAreAtomic
<1>1. Init => Atomic!Init
  BY DEF Init, Atomic!Init, StateOf
<1>2. SessionInv /\ [Next]_vars => [Atomic!Next]_(Atomic!vars)
  <2> SUFFICES ASSUME SessionInv, [Next]_vars PROVE [Atomic!Next]_(Atomic!vars)
    OBVIOUS
  <2>1. CASE \E r \in Requests : Open(r) \/ Serve(r) \/ Unavailable(r)
    BY <2>1, AtomicStep
  <2>2. CASE Tick
    BY <2>2, AtomicTick DEF SessionInv, Atomic!Next
  <2>3. CASE Crash
    BY <2>3, AtomicCrash DEF SessionInv, Atomic!Next
  <2>4. CASE UNCHANGED vars
    BY <2>4 DEF vars, Atomic!vars, StateOf
  <2>5. QED
    BY <2>1, <2>2, <2>3, <2>4 DEF Next
<1>3. QED
  BY <1>1, <1>2, SessionInvariant, PTL DEF Spec, RequestsAreAtomic, Atomic!Spec
=============================================================================

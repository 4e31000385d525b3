---------------------------- MODULE AtomicSessions ----------------------------
(***************************************************************************)
(* What signing up, in and out promise: each request takes effect at one   *)
(* instant between its arrival and its answer, and at most once; one that  *)
(* is answered with success has taken effect.  A name is registered once,  *)
(* a login that knows its password opens a session, and a session ends by  *)
(* a logout of its own or when its time is over, and for no other reason.  *)
(* Rows, transactions, purges, tokens and crashes are not mentioned.       *)
(***************************************************************************)
EXTENDS Naturals

CONSTANTS
    Requests,   \* requests that are sent, at any time and at once
    Names,      \* user names
    Nobody,     \* no request
    Lifetime    \* how long a session lasts

VARIABLES
    users,      \* who has registered a name
    session,    \* how long the session of a login stays open; 0: it is not
    asked,      \* what a request asks for
    name,       \* the name a registration asks for
    target,     \* the registration a login knows, the login a logout or call is for
    state       \* how far it has come

vars == <<users, session, asked, name, target, state>>
request == <<asked, name, target>>

Init ==
    /\ users = [n \in Names |-> Nobody]
    /\ session = [r \in Requests |-> 0]
    /\ asked = [r \in Requests |-> "none"]
    /\ name = [r \in Requests |-> Nobody]
    /\ target = [r \in Requests |-> Nobody]
    /\ state = [r \in Requests |-> "new"]

Enter(r, s) == state' = [state EXCEPT ![r] = s]

Ask(r, kind, n, t) ==
    /\ asked' = [asked EXCEPT ![r] = kind]
    /\ name' = [name EXCEPT ![r] = n]
    /\ target' = [target EXCEPT ![r] = t]

\* Only a login that was answered can be logged out or called for.
Arrive(r) ==
    /\ state[r] = "new" /\ Enter(r, "arrived")
    /\ \/ \E n \in Names : Ask(r, "register", n, Nobody)
       \/ \E t \in Requests : asked[t] = "register" /\ Ask(r, "login", Nobody, t)
       \/ \E t \in Requests, kind \in {"logout", "call"} :
            /\ asked[t] = "login" /\ state[t] = "acknowledged"
            /\ Ask(r, kind, Nobody, t)
    /\ UNCHANGED <<users, session>>

Effect(r) ==
    \/ /\ asked[r] = "register" /\ users[name[r]] = Nobody
       /\ users' = [users EXCEPT ![name[r]] = r] /\ UNCHANGED session
    \/ /\ asked[r] = "login" /\ users[name[target[r]]] = target[r]
       /\ session' = [session EXCEPT ![r] = Lifetime] /\ UNCHANGED users
    \/ /\ asked[r] = "logout"
       /\ session' = [session EXCEPT ![target[r]] = 0] /\ UNCHANGED users
    \/ /\ asked[r] = "call" /\ session[target[r]] > 0
       /\ UNCHANGED <<users, session>>

TakeEffect(r) ==
    /\ state[r] = "arrived" /\ Effect(r) /\ Enter(r, "effective")
    /\ UNCHANGED request

Acknowledge(r) ==
    /\ state[r] = "effective" /\ Enter(r, "acknowledged")
    /\ UNCHANGED <<users, session, request>>

\* Refusals and lost answers: what has not taken effect never will.
Forsake ==
    /\ \E rs \in SUBSET {r \in Requests : state[r] \in {"arrived", "effective"}} :
        state' = [r \in Requests |-> IF r \in rs THEN "unanswered" ELSE state[r]]
    /\ UNCHANGED <<users, session, request>>

Tick ==
    /\ session' = [r \in Requests |-> IF session[r] > 0 THEN session[r] - 1 ELSE 0]
    /\ UNCHANGED <<users, state, request>>

Next ==
    \/ \E r \in Requests : Arrive(r) \/ TakeEffect(r) \/ Acknowledge(r)
    \/ Forsake \/ Tick

Spec == Init /\ [][Next]_vars
=============================================================================

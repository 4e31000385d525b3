--------------------------- MODULE AtomicMembership ---------------------------
(***************************************************************************)
(* What requests about collections promise: each takes effect at one       *)
(* instant between its arrival and its answer, on the tables as they are   *)
(* at that instant, and at most once.  One that is answered with success   *)
(* has taken effect; of one that is not, nobody knows.  Sessions and the   *)
(* lists they have loaded are not mentioned, nor what answers say.         *)
(***************************************************************************)
CONSTANTS
    Requests,       \* requests that are sent, at any time and at once
    Collection,     \* the names collections can have
    Documents,      \* the documents there are at first
    None            \* no collection, no document

VARIABLES
    created,        \* the collections there are
    documents,      \* the documents there are
    members,        \* which collection has which document
    asked,          \* what a request asks for
    about,          \* the collection and the document it names
    state           \* how far it has come

tables == <<created, documents, members>>
vars == <<tables, asked, about, state>>

Kinds == {"create", "list", "add", "remove", "delete"}

Init ==
    /\ created \in SUBSET Collection /\ documents = Documents /\ members = {}
    /\ asked = [r \in Requests |-> "none"]
    /\ about = [r \in Requests |-> <<None, None>>]
    /\ state = [r \in Requests |-> "new"]

Enter(r, s) == state' = [state EXCEPT ![r] = s]

Arrive(r) ==
    /\ state[r] = "new" /\ Enter(r, "arrived")
    /\ \E kind \in Kinds : asked' = [asked EXCEPT ![r] = kind]
    /\ \E c \in Collection \cup {None}, d \in Documents \cup {None} :
        about' = [about EXCEPT ![r] = <<c, d>>]
    /\ UNCHANGED tables

\* A collection is created once; a membership is added to a collection there is
\* and for a document there is, and goes with its document.
Effect(kind, c, d) ==
    \/ /\ kind = "create" /\ c \notin created
       /\ created' = created \cup {c} /\ UNCHANGED <<documents, members>>
    \/ /\ kind = "list" /\ UNCHANGED tables
    \/ /\ kind = "add" /\ c \in created /\ d \in documents
       /\ members' = members \cup {<<c, d>>} /\ UNCHANGED <<created, documents>>
    \/ /\ kind = "remove" /\ c \in created
       /\ members' = members \ {<<c, d>>} /\ UNCHANGED <<created, documents>>
    \/ /\ kind = "delete"
       /\ documents' = documents \ {d} /\ members' = {m \in members : m[2] # d}
       /\ UNCHANGED created

\* The answer may be given at once.
TakeEffect(r) ==
    /\ state[r] = "arrived" /\ Effect(asked[r], about[r][1], about[r][2])
    /\ \E s \in {"effective", "acknowledged"} : Enter(r, s)
    /\ UNCHANGED <<asked, about>>

Acknowledge(r) ==
    /\ state[r] = "effective" /\ Enter(r, "acknowledged")
    /\ UNCHANGED <<tables, asked, about>>

\* A refusal or no answer: a request that has not taken effect never will.
Forsake(r) ==
    /\ state[r] \in {"arrived", "effective"} /\ Enter(r, "unanswered")
    /\ UNCHANGED <<tables, asked, about>>

Next == \E r \in Requests : Arrive(r) \/ TakeEffect(r) \/ Acknowledge(r) \/ Forsake(r)

Spec == Init /\ [][Next]_vars
=============================================================================

---------------------------- MODULE AtomicProgress ----------------------------
(***************************************************************************)
(* What reviews and PUTs of one document's learning progress promise: each *)
(* takes effect at one instant between its arrival and its answer, on the  *)
(* record as it is at that instant, and at most once.  One that is         *)
(* answered with success has taken effect; of one that is not, nobody      *)
(* knows.  Sessions, locks, columns and crashes are not mentioned.         *)
(***************************************************************************)
EXTENDS Naturals

CONSTANT Requests   \* requests that are sent, at any time and at once

VARIABLES
    document,       \* whether there is the document
    progress,       \* how often it was reviewed, and whether it is mastered
    asked,          \* what a request asks for
    state           \* how far it has come

vars == <<document, progress, asked, state>>

Kinds == {"review", "master", "unmaster"}
Unseen == [count |-> 0, mark |-> "absent"]

Init ==
    /\ document = TRUE /\ progress = Unseen
    /\ asked = [r \in Requests |-> "none"]
    /\ state = [r \in Requests |-> "new"]

Enter(r, s) == state' = [state EXCEPT ![r] = s]

\* A request for a document that has gone is refused.
Arrive(r) ==
    /\ state[r] = "new"
    /\ \E kind \in Kinds : asked' = [asked EXCEPT ![r] = kind]
    /\ Enter(r, IF document THEN "arrived" ELSE "unanswered")
    /\ UNCHANGED <<document, progress>>

\* A review counts one more and leaves the mark, a PUT sets the mark and leaves
\* the count; either makes the record if there is none.
Effect(kind, p) ==
    [count |-> IF kind = "review" THEN p.count + 1 ELSE p.count,
     mark  |-> IF kind = "master" THEN "mastered"
               ELSE IF kind = "review" /\ p.mark = "mastered" THEN "mastered"
               ELSE "unmastered"]

TakeEffect(r) ==
    /\ state[r] = "arrived" /\ document
    /\ progress' = Effect(asked[r], progress)
    /\ Enter(r, "effective")
    /\ UNCHANGED <<document, asked>>

Acknowledge(r) ==
    /\ state[r] = "effective" /\ Enter(r, "acknowledged")
    /\ UNCHANGED <<document, progress, asked>>

\* Requests whose end their senders never learn; those that have not taken
\* effect never will.
Forsake(rs) ==
    /\ \A r \in rs : state[r] \in {"arrived", "effective"}
    /\ state' = [r \in Requests |-> IF r \in rs THEN "unanswered" ELSE state[r]]
    /\ UNCHANGED <<document, progress, asked>>

\* The document takes its progress along.
Delete ==
    /\ document /\ document' = FALSE /\ progress' = Unseen
    /\ UNCHANGED <<asked, state>>

Next ==
    \/ \E r \in Requests : Arrive(r) \/ TakeEffect(r) \/ Acknowledge(r)
    \/ \E rs \in SUBSET Requests : Forsake(rs)
    \/ Delete

Spec == Init /\ [][Next]_vars
=============================================================================

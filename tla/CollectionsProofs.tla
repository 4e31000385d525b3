--------------------------- MODULE CollectionsProofs ---------------------------
(***************************************************************************)
(* Proofs about Collections: for any requests, collections and documents,  *)
(* what requests do through the stale lists of their sessions stays apart  *)
(* as long as they concern different memberships.                          *)
(***************************************************************************)
EXTENDS Collections, TLAPS

Step(r) ==
    \/ Open(r) \/ Load(r) \/ LoadDocument(r) \/ Find(r) \/ Refresh(r)
    \/ CommitCreate(r) \/ CommitAdd(r) \/ CommitRemove(r) \/ CommitDelete(r)
    \/ Fail(r)

\* What is known of a request from where it is: what it names, that a
\* collection it has found stays, and that what it came after stays ended.
Sent ==
    \A r \in Requests :
        /\ pc[r] = "new" <=> op[r] = "none"
        /\ op[r] \in Reading \cup {"create"} => CollectionOf(r) \in Collection
        /\ op[r] \in {"add", "remove", "delete"} => DocumentOf(r) \in Documents
        /\ pc[r] = "find" => op[r] = "add"
        /\ pc[r] = "refresh" => op[r] \in {"create", "add", "remove"}
        /\ op[r] \in {"add", "remove"} /\ pc[r] \in {"find", "commit", "refresh"}
               => CollectionOf(r) \in created
        /\ pc[r] = "new" => loaded[r] = {}
        /\ op[r] = "list" => DocumentOf(r) = None /\ pc[r] # "commit"
        /\ op[r] \in Reading \cup {"create"} => loaded[r] \subseteq Documents
        /\ \A q \in after[r] : pc[q] \in Ended

\* Whether the collection of r has the document d, now.
Has(r, d) == <<CollectionOf(r), d>> \in members

\* What r knows of a membership that concerns nobody else is still true.
Known(r, d) ==
    /\ pc[r] \in {"find", "commit"} \/ (pc[r] = "refresh" /\ op[r] = "remove")
           => (d \in loaded[r] <=> Has(r, d))
    /\ pc[r] = "refresh" /\ d = DocumentOf(r) => (Has(r, d) <=> op[r] = "add")
    /\ pc[r] = "ok" => (d \in answer[r] <=> Has(r, d))
    /\ pc[r] = "ok" /\ d = DocumentOf(r) => (Has(r, d) <=> op[r] = "add")

Recent ==
    \A r \in Requests, d \in Documents :
        op[r] \in Reading /\ Alone(r, d) => Known(r, d)

CollectionInv == TypeOK /\ Sent /\ Recent

LEMMA NextIsStep == Next <=> \E r \in Requests : Step(r)
BY DEF Next, Step

LEMMA CollectionInit == Init => CollectionInv
<1> SUFFICES ASSUME Init PROVE CollectionInv
  OBVIOUS
<1> USE DEF Init, Ops, Working, Reading, Ended
<1>1. TypeOK
  BY DEF TypeOK
<1>2. Sent
  BY DEF Sent
<1>3. Recent
  BY DEF Recent
<1>4. QED
  BY <1>1, <1>2, <1>3 DEF CollectionInv

\* Where a request goes, its session goes with it.
LEMMA GotoFacts ==
    ASSUME TypeOK, NEW r \in Requests, NEW label \in Working \cup Ended,
           NEW objects \in SUBSET (Collection \cup Documents),
           \/ Goto(r, label) /\ objects = loaded[r]
           \/ GotoWith(r, label, objects)
    PROVE  /\ pc' = [pc EXCEPT ![r] = label]
           /\ loaded' \in [Requests -> SUBSET (Collection \cup Documents)]
           /\ \A q \in Requests \ {r} : loaded'[q] = loaded[q]
           /\ loaded'[r] \subseteq objects
           /\ label \notin Ended => loaded'[r] = objects
BY DEF TypeOK, Goto, GotoWith

\* What a request is sent with.
LEMMA OpenFacts ==
    ASSUME NEW r \in Requests, Open(r)
    PROVE  \E o \in Ops \ {"none"}, c \in Collection \cup {None},
              d \in Documents \cup {None}, label \in {"load", "commit"} :
            /\ Send(r, o, c, d, label)
            /\ o \in Reading \cup {"create"} => c \in Collection
            /\ o \in {"add", "remove", "delete"} => d \in Documents
            /\ o \in Reading => label = "load"
            /\ o = "list" => d = None
BY DEF Open, Ops, Reading

\* A request that was sent goes on without forgetting what it was sent for.
LEMMA SentKept ==
    ASSUME TypeOK, Sent, NEW r \in Requests, NEW label \in Working \cup Ended,
           pc[r] \in Working, pc' = [pc EXCEPT ![r] = label],
           UNCHANGED request, created \subseteq created',
           \A q \in Requests \ {r} : loaded'[q] = loaded[q],
           op[r] \in Reading \cup {"create"} => loaded'[r] \subseteq Documents,
           label = "find" => op[r] = "add",
           label = "refresh" => op[r] \in {"create", "add", "remove"},
           op[r] = "list" => label # "commit",
           op[r] \in {"add", "remove"} /\ label \in {"find", "commit", "refresh"}
               => CollectionOf(r) \in created'
    PROVE  Sent'
<1>1. op' = op /\ about' = about /\ after' = after
  BY DEF request
<1>2. \A q \in Requests \ {r} : pc'[q] = pc[q]
  BY DEF TypeOK
<1>3. pc'[r] = label /\ label # "new" /\ pc[r] \notin Ended \cup {"new"}
  BY DEF TypeOK, Working, Ended
<1>4. \A q \in Requests : after[q] \subseteq Requests
  BY DEF TypeOK
<1>5. QED
  <2>1. \A q \in Requests :
            CollectionOf(q)' = CollectionOf(q) /\ DocumentOf(q)' = DocumentOf(q)
    BY <1>1 DEF CollectionOf, DocumentOf
  <2>2. \A q \in Requests : \A p \in after'[q] : pc'[p] \in Ended
    <3>1. \A q \in Requests : \A p \in after[q] : p # r /\ pc[p] \in Ended
      BY <1>3 DEF Sent
    <3>2. QED
      BY <1>1, <1>2, <1>4, <3>1
  <2>3. op[r] # "none"
    BY <1>3 DEF Sent
  <2>4. QED
    BY <1>1, <1>2, <1>3, <2>1, <2>2, <2>3 DEF Sent

\* Every step keeps the types and what a request's place says about it.
LEMMA SentStep ==
    ASSUME TypeOK, Sent, NEW r \in Requests, Step(r)
    PROVE  TypeOK' /\ Sent'
<1> USE CollectionAssumption
<1>1. CASE Open(r)
  <2>1. PICK o \in Ops \ {"none"}, c \in Collection \cup {None},
             d \in Documents \cup {None}, label \in {"load", "commit"} :
            /\ Send(r, o, c, d, label)
            /\ o \in Reading \cup {"create"} => c \in Collection
            /\ o \in {"add", "remove", "delete"} => d \in Documents
            /\ o \in Reading => label = "load"
            /\ o = "list" => d = None
    BY <1>1, OpenFacts
  <2>2. /\ pc[r] = "new" /\ pc' = [pc EXCEPT ![r] = label] /\ loaded' = loaded
        /\ op' = [op EXCEPT ![r] = o] /\ about' = [about EXCEPT ![r] = <<c, d>>]
        /\ \A q \in Requests \ {r} : after'[q] = after[q]
        /\ \A q \in after'[r] : q \in Requests /\ pc[q] \in Ended
        /\ after' \in [Requests -> SUBSET Requests]
        /\ UNCHANGED <<created, documents, members, answer>>
    BY <2>1 DEF Send, Goto, Ended, TypeOK, tables
  <2>3. TypeOK'
    BY <2>2 DEF TypeOK, Working
  <2>4. op[r] = "none" /\ loaded[r] = {}
    BY <2>2 DEF Sent
  <2>5. \A q \in Requests \ {r} : pc'[q] = pc[q] /\ op'[q] = op[q] /\ about'[q] = about[q]
    BY <2>2 DEF TypeOK
  <2>6. pc'[r] = label /\ op'[r] = o /\ about'[r] = <<c, d>>
    BY <2>2 DEF TypeOK
  <2>7. \A q \in Requests : after'[q] \subseteq Requests \ {r}
                           /\ \A p \in after'[q] : pc'[p] \in Ended
    <3>1. \A p \in Requests : pc[p] \in Ended => p # r /\ pc'[p] \in Ended
      BY <2>2, <2>5 DEF Ended
    <3>2. \A q \in Requests \ {r} : \A p \in after[q] : p \in Requests /\ pc[p] \in Ended
      BY DEF Sent, TypeOK
    <3>3. QED
      BY <2>2, <3>1, <3>2
  <2>8. Sent'
    <3>1. \A q \in Requests \ {r} :
              /\ CollectionOf(q)' = CollectionOf(q) /\ DocumentOf(q)' = DocumentOf(q)
              /\ loaded'[q] = loaded[q] /\ created' = created
      BY <2>2, <2>5 DEF CollectionOf, DocumentOf
    <3>2. CollectionOf(r)' = c /\ DocumentOf(r)' = d /\ loaded'[r] = {}
      BY <2>2, <2>4, <2>6 DEF CollectionOf, DocumentOf
    <3>3. o # "none" /\ label \notin {"new", "find", "refresh"}
      OBVIOUS
    <3>4. o \in {"list", "add", "remove"} => o \in Reading
      BY DEF Reading
    <3>5. \A q \in Requests \ {r} : Sent!(q)'
      BY <2>5, <2>7, <3>1 DEF Sent
    <3>6. Sent!(r)'
      BY <2>1, <2>6, <2>7, <3>2, <3>3, <3>4
    <3>7. QED
      BY <3>5, <3>6 DEF Sent
  <2>9. QED
    BY <2>3, <2>8
<1>2. CASE Load(r)
  <2>1. /\ pc[r] = "load" /\ op[r] \in Reading /\ UNCHANGED <<tables, request>>
        /\ Members(CollectionOf(r)) \subseteq Documents
        /\ answer' \in [Requests -> SUBSET Documents]
    BY <1>2 DEF Load, Members, TypeOK
  <2>2. PICK label \in {"ok", "failed", "find", "commit"} :
            /\ GotoWith(r, label, Members(CollectionOf(r)))
            /\ label \in {"find", "commit"} => CollectionOf(r) \in created
            /\ label = "find" => op[r] = "add"
            /\ op[r] = "list" => label = "ok"
    BY <1>2 DEF Load
  <2>3. /\ label \in Working \cup Ended
        /\ Members(CollectionOf(r)) \in SUBSET (Collection \cup Documents)
    BY <2>1 DEF Working, Ended
  <2>4. /\ pc' = [pc EXCEPT ![r] = label]
        /\ loaded' \in [Requests -> SUBSET (Collection \cup Documents)]
        /\ \A q \in Requests \ {r} : loaded'[q] = loaded[q]
        /\ loaded'[r] \subseteq Members(CollectionOf(r))
    <3>1. PICK objects \in SUBSET (Collection \cup Documents) :
              objects = Members(CollectionOf(r))
      BY <2>3
    <3>2. QED
      BY <2>2, <2>3, <3>1, GotoFacts
  <2>5. TypeOK'
    BY <2>1, <2>3, <2>4 DEF TypeOK, tables, request
  <2>6. Sent'
    BY <2>1, <2>2, <2>3, <2>4, SentKept DEF tables, Working
  <2>7. QED
    BY <2>5, <2>6
<1>3. CASE LoadDocument(r)
  <2>1. PICK label \in {"failed", "commit"} :
            GotoWith(r, label, {c \in Collection : <<c, DocumentOf(r)>> \in members})
    BY <1>3 DEF LoadDocument
  <2>2. PICK objects \in SUBSET (Collection \cup Documents) :
            objects = {c \in Collection : <<c, DocumentOf(r)>> \in members}
    OBVIOUS
  <2>3. /\ pc[r] = "load" /\ op[r] = "delete" /\ UNCHANGED <<tables, answer, request>>
        /\ label \in Working \cup Ended
    BY <1>3 DEF LoadDocument, Working, Ended
  <2>4. /\ pc' = [pc EXCEPT ![r] = label]
        /\ loaded' \in [Requests -> SUBSET (Collection \cup Documents)]
        /\ \A q \in Requests \ {r} : loaded'[q] = loaded[q]
    BY <2>1, <2>2, <2>3, GotoFacts
  <2>5. TypeOK'
    BY <2>3, <2>4 DEF TypeOK, tables, request
  <2>6. Sent'
    BY <2>3, <2>4, SentKept DEF tables, Working, Reading
  <2>7. QED
    BY <2>5, <2>6
\* The other steps change the tables by one row and keep or drop the session.
<1>4. ASSUME NEW label \in Working \cup Ended, Goto(r, label), pc[r] \in Working,
             UNCHANGED request, created \subseteq created', created' \subseteq Collection,
             documents' \subseteq Documents, members' \subseteq created' \X documents',
             answer' \in [Requests -> SUBSET Documents],
             label = "find" => op[r] = "add",
             label = "refresh" => op[r] \in {"create", "add", "remove"},
             op[r] = "list" => label # "commit",
             op[r] \in {"add", "remove"} /\ label \in {"find", "commit", "refresh"}
                 => pc[r] \in {"find", "commit", "refresh"}
      PROVE  TypeOK' /\ Sent'
  <2>1. loaded[r] \in SUBSET (Collection \cup Documents)
    BY DEF TypeOK
  <2>2. /\ pc' = [pc EXCEPT ![r] = label]
        /\ loaded' \in [Requests -> SUBSET (Collection \cup Documents)]
        /\ \A q \in Requests \ {r} : loaded'[q] = loaded[q]
        /\ loaded'[r] \subseteq loaded[r]
    BY <1>4, <2>1, GotoFacts
  <2>3. TypeOK'
    BY <1>4, <2>2 DEF TypeOK, request
  <2>4. /\ op[r] \in Reading \cup {"create"} => loaded'[r] \subseteq Documents
        /\ op[r] \in {"add", "remove"} /\ label \in {"find", "commit", "refresh"}
               => CollectionOf(r) \in created'
    BY <1>4, <2>2 DEF Sent
  <2>5. Sent'
    BY <1>4, <2>2, <2>4, SentKept
  <2>6. QED
    BY <2>3, <2>5
<1> USE DEF Working, Ended
<1>5. CASE Find(r)
  <2>1. \E label \in {"commit", "failed"} : Goto(r, label)
    BY <1>5 DEF Find
  <2>2. pc[r] = "find" /\ op[r] = "add" /\ UNCHANGED <<tables, answer, request>>
    BY <1>5 DEF Find, Sent
  <2>3. QED
    BY <1>4, <2>1, <2>2 DEF tables, TypeOK
<1>6. CASE Refresh(r)
  <2>1. answer' \in [Requests -> SUBSET Documents]
    <3>1. op[r] \in {"create", "add", "remove"} /\ (op[r] # "add" => loaded[r] \subseteq Documents)
      BY <1>6 DEF Refresh, Sent, Reading
    <3>2. AnswerFresh(r) \subseteq Documents
      BY DEF AnswerFresh, Members
    <3>3. QED
      BY <1>6, <3>1, <3>2 DEF Refresh, TypeOK
  <2>2. QED
    BY <1>4, <1>6, <2>1 DEF Refresh, tables, TypeOK
<1>7. CASE CommitCreate(r)
  <2>1. \E label \in {"failed", "refresh"} : Goto(r, label)
    BY <1>7 DEF CommitCreate
  <2>2. /\ created' = created \cup {CollectionOf(r)} /\ CollectionOf(r) \in Collection
        /\ UNCHANGED <<documents, members, answer, request>>
        /\ pc[r] = "commit" /\ op[r] = "create"
    BY <1>7 DEF CommitCreate, Sent
  <2>3. QED
    BY <1>4, <2>1, <2>2 DEF TypeOK
<1>8. CASE CommitAdd(r)
  <2>1. \E label \in {"refresh", "failed"} : Goto(r, label)
    BY <1>8 DEF CommitAdd
  <2>2. /\ pc[r] = "commit" /\ op[r] = "add" /\ CollectionOf(r) \in created
        /\ UNCHANGED <<created, documents, answer, request>>
    BY <1>8 DEF CommitAdd, Sent
  <2>3. about[r] = <<CollectionOf(r), DocumentOf(r)>>
    BY DEF TypeOK, CollectionOf, DocumentOf
  <2>4. \/ members' = members
        \/ DocumentOf(r) \in documents /\ members' = members \cup {about[r]}
    BY <1>8 DEF CommitAdd
  <2>5. members' \subseteq created' \X documents'
    BY <2>2, <2>3, <2>4 DEF TypeOK
  <2>6. QED
    BY <1>4, <2>1, <2>2, <2>5 DEF TypeOK
<1>9. CASE CommitRemove(r)
  <2>1. /\ members' \subseteq members /\ UNCHANGED <<created, documents, answer, request>>
        /\ pc[r] = "commit" /\ op[r] = "remove" /\ CollectionOf(r) \in created
    BY <1>9 DEF CommitRemove, WithoutRemoved, Sent
  <2>2. CASE Goto(r, "failed")
    BY <1>4, <2>1, <2>2 DEF TypeOK
  <2>3. CASE GotoWith(r, "refresh", loaded[r] \ {DocumentOf(r)})
    <3>1. PICK objects \in SUBSET (Collection \cup Documents) :
              objects = loaded[r] \ {DocumentOf(r)}
      BY DEF TypeOK
    <3>2. /\ pc' = [pc EXCEPT ![r] = "refresh"]
          /\ loaded' \in [Requests -> SUBSET (Collection \cup Documents)]
          /\ \A q \in Requests \ {r} : loaded'[q] = loaded[q]
          /\ loaded'[r] \subseteq objects
      BY <2>3, <3>1, GotoFacts
    <3>3. TypeOK'
      BY <2>1, <3>2 DEF TypeOK, request
    <3>4. loaded'[r] \subseteq Documents
      BY <2>1, <3>1, <3>2 DEF Sent, Reading
    <3>5. Sent'
      BY <2>1, <3>2, <3>4, SentKept
    <3>6. QED
      BY <3>3, <3>5
  <2>4. QED
    BY <1>9, <2>2, <2>3 DEF CommitRemove
<1>10. CASE CommitDelete(r)
  <2>1. \E label \in {"ok", "failed"} : Goto(r, label)
    BY <1>10 DEF CommitDelete
  <2>2. /\ UNCHANGED <<created, answer, request>>
        /\ pc[r] = "commit" /\ op[r] = "delete"
    BY <1>10 DEF CommitDelete
  <2>3. \/ /\ documents' = documents \ {DocumentOf(r)}
           /\ members' = {m \in members : m[2] # DocumentOf(r)}
        \/ UNCHANGED <<documents, members>>
    BY <1>10 DEF CommitDelete, WithoutDocument
  <2>4. documents' \subseteq Documents /\ members' \subseteq created' \X documents'
    BY <2>2, <2>3 DEF TypeOK
  <2>5. QED
    BY <1>4, <2>1, <2>2, <2>4 DEF TypeOK
<1>11. CASE Fail(r)
  BY <1>4, <1>11 DEF Fail, tables, TypeOK
<1>12. QED
  BY <1>1, <1>2, <1>3, <1>5, <1>6, <1>7, <1>8, <1>9, <1>10, <1>11 DEF Step

-----------------------------------------------------------------------------
(* Knowledge.                                                              *)

\* Once sent, a request stays about the same membership, and it can lose its
\* solitude but never regain it.
LEMMA AloneBefore ==
    ASSUME TypeOK, Sent, NEW q \in Requests, Step(q),
           NEW r \in Requests, pc[r] # "new", NEW d \in Documents, Alone(r, d)'
    PROVE  /\ Alone(r, d) /\ op'[r] = op[r] /\ about'[r] = about[r]
           /\ after'[r] = after[r]
<1> USE DEF TypeOK, Alone, CollectionOf, DocumentOf
<1>1. CASE UNCHANGED request
  BY <1>1 DEF request
<1>2. CASE Open(q)
  <2>1. pc[q] = "new" /\ op[q] = "none" /\ q # r
    BY <1>2 DEF Open, Send, Sent
  <2>2. \A p \in Requests \ {q} :
            op'[p] = op[p] /\ about'[p] = about[p] /\ after'[p] = after[p]
    BY <1>2 DEF Open, Send
  <2>3. QED
    BY <2>1, <2>2
<1>3. QED
  BY <1>1, <1>2 DEF Step, Load, LoadDocument, Find, Refresh, CommitCreate, CommitAdd,
      CommitRemove, CommitDelete, Fail

\* A step of a request that is not about a membership leaves it alone.
LEMMA OthersUntouched ==
    ASSUME TypeOK, Sent, NEW q \in Requests, Step(q), NEW c, NEW d,
           ~(op[q] \in {"add", "remove"} /\ about[q] = <<c, d>>),
           ~(op[q] = "delete" /\ DocumentOf(q) = d)
    PROVE  <<c, d>> \in members' <=> <<c, d>> \in members
<1>1. CASE UNCHANGED members
  BY <1>1
<1>2. CASE CommitAdd(q)
  BY <1>2 DEF CommitAdd
<1>3. CASE CommitRemove(q)
  BY <1>3 DEF CommitRemove, WithoutRemoved
<1>4. CASE CommitDelete(q)
  <2>1. WithoutDocument(q) = {m \in members : m[2] # DocumentOf(q)} /\ DocumentOf(q) # d
    BY <1>4 DEF CommitDelete, WithoutDocument
  <2>2. <<c, d>> \in WithoutDocument(q) <=> <<c, d>> \in members
    BY <2>1
  <2>3. QED
    BY <1>4, <2>2 DEF CommitDelete
<1>5. QED
  BY <1>1, <1>2, <1>3, <1>4 DEF Step, Open, Send, Load, LoadDocument, Find, Refresh,
      CommitCreate, Fail, tables

\* No step of another request disturbs what r knows.
LEMMA KnownByOthers ==
    ASSUME TypeOK, Sent, NEW q \in Requests, Step(q),
           NEW r \in Requests \ {q}, op[r] \in Reading, NEW d \in Documents,
           Alone(r, d)', Alone(r, d) => Known(r, d)
    PROVE  Known(r, d)'
<1>1. pc[r] # "new"
  BY DEF Sent, Reading
<1>2. /\ Alone(r, d) /\ op'[r] = op[r] /\ about'[r] = about[r]
  BY <1>1, AloneBefore
<1>3. pc[q] \notin Ended
  BY DEF Step, Open, Send, Load, LoadDocument, Find, Refresh, CommitCreate, CommitAdd,
     CommitRemove, CommitDelete, Fail, Working, Ended
<1>4. /\ ~(op[q] \in {"add", "remove"} /\ about[q] = <<CollectionOf(r), d>>)
      /\ ~(op[q] = "delete" /\ DocumentOf(q) = d)
  BY <1>2, <1>3 DEF Alone, Sent
<1>5. PICK c : c = CollectionOf(r)
  OBVIOUS
<1>6. <<c, d>> \in members' <=> <<c, d>> \in members
  BY <1>4, <1>5, OthersUntouched
<1>7. pc'[r] = pc[r] /\ loaded'[r] = loaded[r] /\ answer'[r] = answer[r]
  BY DEF TypeOK, Step, Open, Send, Load, LoadDocument, Find, Refresh, CommitCreate,
     CommitAdd, CommitRemove, CommitDelete, Fail, Goto, GotoWith, tables
<1>8. CollectionOf(r)' = CollectionOf(r) /\ DocumentOf(r)' = DocumentOf(r)
  BY <1>2 DEF CollectionOf, DocumentOf
<1>9. QED
  BY <1>2, <1>5, <1>6, <1>7, <1>8 DEF Known, Has

\* Its own steps read the list, or change it in the one place it names.
LEMMA KnownByItself ==
    ASSUME TypeOK, Sent, NEW r \in Requests, Step(r), op'[r] \in Reading,
           NEW d \in Documents, Alone(r, d)', Alone(r, d) /\ op[r] \in Reading => Known(r, d)
    PROVE  Known(r, d)'
<1> USE DEF TypeOK, Known, Has
<1>1. CASE Open(r)
  <2>1. PICK o \in Ops \ {"none"}, c \in Collection \cup {None},
             e \in Documents \cup {None}, label \in {"load", "commit"} :
            /\ Send(r, o, c, e, label)
            /\ o \in Reading => label = "load"
    BY <1>1, OpenFacts
  <2>2. pc'[r] = label /\ op'[r] = o
    BY <2>1 DEF Send, Goto
  <2>3. QED
    BY <2>1, <2>2
<1>2. CASE ~Open(r)
  <2>1. pc[r] # "new"
    BY <1>2 DEF Step, Load, LoadDocument, Find, Refresh, CommitCreate, CommitAdd,
       CommitRemove, CommitDelete, Fail, Working
  <2>2. Alone(r, d) /\ op'[r] = op[r] /\ about'[r] = about[r]
    BY <2>1, AloneBefore
  <2>3. /\ CollectionOf(r)' = CollectionOf(r) /\ DocumentOf(r)' = DocumentOf(r)
        /\ Known(r, d) /\ op[r] \in Reading
    BY <2>2 DEF CollectionOf, DocumentOf
  <2>4. about[r] = <<CollectionOf(r), DocumentOf(r)>>
    BY DEF CollectionOf, DocumentOf
  <2> USE DEF Goto, GotoWith
  <2>5. CASE Load(r)
    <3>1. d \in Members(CollectionOf(r)) <=> Has(r, d)
      BY DEF Members
    <3>2. /\ members' = members
          /\ pc'[r] \in {"find", "commit"} => loaded'[r] = Members(CollectionOf(r))
          /\ pc'[r] = "ok" => answer'[r] = Members(CollectionOf(r)) /\ op[r] = "list"
          /\ pc'[r] # "refresh"
      BY <2>3, <2>5 DEF Load, tables, Ended
    <3>3. op[r] = "list" => DocumentOf(r) = None
      BY DEF Sent
    <3>4. QED
      BY <2>2, <2>3, <3>1, <3>2, <3>3, CollectionAssumption
  <2>6. CASE Find(r)
    BY <2>2, <2>3, <2>6 DEF Find, tables, Ended
  <2>7. CASE Refresh(r)
    <3>1. /\ pc[r] = "refresh" /\ pc'[r] = "ok" /\ members' = members
          /\ op[r] = "add" => answer'[r] = Members(CollectionOf(r))
          /\ op[r] # "add" => answer'[r] = loaded[r]
      BY <2>7 DEF Refresh, AnswerFresh, tables
    <3>2. op[r] \in {"add", "remove"}
      BY <2>3, <3>1 DEF Sent, Reading
    <3>3. d \in Members(CollectionOf(r)) <=> Has(r, d)
      BY DEF Members
    <3>4. d \in answer'[r] <=> Has(r, d)
      BY <2>3, <3>1, <3>2, <3>3
    <3>5. d = DocumentOf(r) => (Has(r, d) <=> op[r] = "add")
      BY <2>3, <3>1
    <3>6. Has(r, d)' <=> Has(r, d)
      BY <2>3, <3>1
    <3>7. QED
      BY <2>2, <2>3, <3>1, <3>4, <3>5, <3>6
  <2>8. CASE CommitAdd(r)
    <3>1. /\ pc[r] = "commit" /\ op[r] = "add" /\ pc'[r] \in {"refresh", "failed"}
          /\ d \in loaded[r] <=> Has(r, d)
      BY <2>3, <2>8 DEF CommitAdd
    <3>2. pc'[r] = "refresh" /\ d = DocumentOf(r) => Has(r, d)'
      <4>1. CASE DocumentOf(r) \in loaded[r]
        BY <2>3, <2>8, <3>1, <4>1 DEF CommitAdd
      <4>2. CASE DocumentOf(r) \notin loaded[r]
        BY <2>3, <2>4, <2>8, <3>1, <4>2 DEF CommitAdd
      <4>3. QED
        BY <4>1, <4>2
    <3>3. QED
      BY <2>2, <2>3, <3>1, <3>2
  <2>9. CASE CommitRemove(r)
    <3>1. /\ pc[r] = "commit" /\ op[r] = "remove" /\ pc'[r] \in {"refresh", "failed"}
          /\ d \in loaded[r] <=> Has(r, d)
      BY <2>3, <2>9 DEF CommitRemove
    <3>2. CASE pc'[r] = "refresh"
      <4>1. loaded'[r] = loaded[r] \ {DocumentOf(r)} /\ members' = WithoutRemoved(r)
        BY <2>9, <3>2 DEF CommitRemove, Ended
      <4>2. Has(r, d)' <=> Has(r, d) /\ d # DocumentOf(r)
        <5>1. CASE DocumentOf(r) \in loaded[r]
          <6>1. members' = members \ {about[r]}
            BY <4>1, <5>1 DEF WithoutRemoved
          <6>2. QED
            BY <2>3, <2>4, <3>1, <5>1, <6>1
        <5>2. CASE DocumentOf(r) \notin loaded[r]
          <6>1. members' = members
            BY <4>1, <5>2 DEF WithoutRemoved
          <6>2. QED
            BY <2>3, <3>1, <5>2, <6>1
        <5>3. QED
          BY <5>1, <5>2
      <4>3. QED
        BY <2>2, <2>3, <3>1, <3>2, <4>1, <4>2
    <3>3. CASE pc'[r] = "failed"
      BY <3>3
    <3>4. QED
      BY <3>1, <3>2, <3>3
  <2>10. CASE Fail(r)
    BY <2>10 DEF Fail
  <2>11. QED
    BY <1>2, <2>3, <2>5, <2>6, <2>7, <2>8, <2>9, <2>10 DEF Step, LoadDocument, CommitCreate,
       CommitDelete, Reading
<1>3. QED
  BY <1>1, <1>2

\* Every step keeps what the requests know of what concerns nobody else.
LEMMA RecentStep ==
    ASSUME TypeOK, Sent, Recent, NEW q \in Requests, Step(q)
    PROVE  Recent'
<1> SUFFICES ASSUME NEW r \in Requests, NEW d \in Documents,
                    op'[r] \in Reading, Alone(r, d)'
             PROVE  Known(r, d)'
  BY DEF Recent
<1>1. Alone(r, d) /\ op[r] \in Reading => Known(r, d)
  BY DEF Recent
<1>2. CASE r = q
  BY <1>1, <1>2, KnownByItself
<1>3. CASE r # q
  <2>1. op'[r] = op[r]
    BY <1>3 DEF TypeOK, Step, Open, Send, Load, LoadDocument, Find, Refresh, CommitCreate,
       CommitAdd, CommitRemove, CommitDelete, Fail, request
  <2>2. r \in Requests \ {q} /\ op[r] \in Reading
    BY <1>3, <2>1
  <2>3. QED
    BY <1>1, <2>2, KnownByOthers
<1>4. QED
  BY <1>2, <1>3

LEMMA CollectionStep == CollectionInv /\ [Next]_vars => CollectionInv'
<1> SUFFICES ASSUME CollectionInv, [Next]_vars PROVE CollectionInv'
  OBVIOUS
<1>1. CASE Next
  <2>1. PICK q \in Requests : Step(q)
    BY <1>1, NextIsStep
  <2>2. TypeOK' /\ Sent'
    BY <2>1, SentStep DEF CollectionInv
  <2>3. Recent'
    BY <2>1, RecentStep DEF CollectionInv
  <2>4. QED
    BY <2>2, <2>3 DEF CollectionInv
<1>2. CASE UNCHANGED vars
  BY <1>2 DEF vars, CollectionInv, TypeOK, Sent, Recent, Known, Has, Alone, CollectionOf, DocumentOf
<1>3. QED
  BY <1>1, <1>2

LEMMA CollectionInvariant == Spec => []CollectionInv
BY CollectionInit, CollectionStep, PTL DEF Spec

-----------------------------------------------------------------------------
(* What follows.                                                           *)

\* Whatever the requests do at once and wherever they fail, a membership joins
\* a collection and a document that exist, and every variable has its type.
THEOREM CollectionTypes == Spec => []TypeOK
BY CollectionInvariant, PTL DEF CollectionInv

\* An addition or removal that was answered, and that nothing else concerned,
\* is in the table: no request for another document of the collection has
\* written its own older list over it.
THEOREM LastOneStays == Spec => []LastOneCounts
<1>1. CollectionInv => LastOneCounts
  <2> SUFFICES ASSUME CollectionInv, NEW r \in Requests, op[r] \in {"add", "remove"},
                      pc[r] = "ok", Alone(r, DocumentOf(r))
               PROVE  about[r] \in members <=> op[r] = "add"
    BY DEF LastOneCounts
  <2>1. PICK d \in Documents : d = DocumentOf(r)
    BY DEF CollectionInv, Sent
  <2>2. Known(r, d)
    BY <2>1 DEF CollectionInv, Recent, Reading
  <2>3. about[r] = <<CollectionOf(r), DocumentOf(r)>>
    BY DEF CollectionInv, TypeOK, CollectionOf, DocumentOf
  <2>4. QED
    BY <2>1, <2>2, <2>3 DEF Known, Has
<1>2. QED
  BY <1>1, CollectionInvariant, PTL

\* The list a request is answered with is right about every document whose
\* membership nothing else concerned since before it was sent.
THEOREM AnswersStayRecent == Spec => []AnswersAreRecent
<1>1. CollectionInv => AnswersAreRecent
  BY DEF CollectionInv, Recent, Known, Has, AnswersAreRecent
<1>2. QED
  BY <1>1, CollectionInvariant, PTL

-----------------------------------------------------------------------------
(* Requests are atomic.                                                    *)

States == [r \in Requests |-> StateOf(r)]

\* The states of a request, label by label.
LEMMA StateByLabel ==
    ASSUME NEW r \in Requests
    PROVE  /\ pc[r] = "new" => StateOf(r) = "new"
           /\ pc[r] \in {"load", "find", "commit"} =>
                  StateOf(r) = IF SetBefore(r) THEN "effective" ELSE "arrived"
           /\ pc[r] = "refresh" => StateOf(r) = "effective"
           /\ pc[r] = "ok" => StateOf(r) = "acknowledged"
           /\ pc[r] = "failed" => StateOf(r) = "unanswered"
BY DEF StateOf, SetBefore

\* The same after a step.
LEMMA StateByNextLabel ==
    ASSUME NEW r \in Requests
    PROVE  /\ pc'[r] = "new" => StateOf(r)' = "new"
           /\ pc'[r] \in {"load", "find", "commit"} =>
                  StateOf(r)' = IF SetBefore(r)' THEN "effective" ELSE "arrived"
           /\ pc'[r] = "refresh" => StateOf(r)' = "effective"
           /\ pc'[r] = "ok" => StateOf(r)' = "acknowledged"
           /\ pc'[r] = "failed" => StateOf(r)' = "unanswered"
BY DEF StateOf, SetBefore

\* A step of one request moves it on and leaves the others where they are.
LEMMA OneMoves ==
    ASSUME TypeOK, NEW r \in Requests, NEW label, pc' = [pc EXCEPT ![r] = label],
           \A q \in Requests \ {r} :
               op'[q] = op[q] /\ about'[q] = about[q] /\ loaded'[q] = loaded[q]
    PROVE  States' = [States EXCEPT ![r] = StateOf(r)'] /\ pc'[r] = label
<1>1. \A q \in Requests \ {r} : StateOf(q)' = StateOf(q)
  BY DEF TypeOK, StateOf, SetBefore, DocumentOf
<1>2. QED
  BY <1>1 DEF States, TypeOK

\* A request that was sent goes on with what it was sent for.
LEMMA GoesOn ==
    ASSUME TypeOK, NEW r \in Requests, NEW label \in Working \cup Ended,
           UNCHANGED request, Goto(r, label) \/ \E objects : GotoWith(r, label, objects)
    PROVE  /\ States' = [States EXCEPT ![r] = StateOf(r)'] /\ pc'[r] = label
           /\ op' = op /\ about' = about /\ DocumentOf(r)' = DocumentOf(r)
<1>1. op' = op /\ about' = about
  BY DEF request
<1>2. pc' = [pc EXCEPT ![r] = label] /\ \A q \in Requests \ {r} : loaded'[q] = loaded[q]
  BY DEF Goto, GotoWith, TypeOK
<1>3. QED
  BY <1>1, <1>2, OneMoves DEF DocumentOf

\* Refused or not answered.
LEMMA Forsaken ==
    ASSUME TypeOK, NEW r \in Requests, pc[r] \in Working, UNCHANGED <<tables, request>>,
           Goto(r, "failed") \/ \E objects : GotoWith(r, "failed", objects)
    PROVE  Atomic!Forsake(r)
<1>1. States' = [States EXCEPT ![r] = "unanswered"] /\ op' = op /\ about' = about
  BY GoesOn, StateByNextLabel DEF Ended
<1>2. StateOf(r) \in {"arrived", "effective"}
  BY StateByLabel DEF Working
<1>3. QED
  BY <1>1, <1>2 DEF Atomic!Forsake, Atomic!Enter, Atomic!tables, tables, States

\* What a request names.
LEMMA Names ==
    ASSUME TypeOK, NEW r \in Requests
    PROVE  /\ about[r] = <<CollectionOf(r), DocumentOf(r)>>
           /\ about[r][1] = CollectionOf(r) /\ about[r][2] = DocumentOf(r)
BY DEF TypeOK, CollectionOf, DocumentOf

\* Every step is one of the atomic object's or is hidden.
LEMMA AtomicStep ==
    ASSUME TypeOK, Sent, NEW r \in Requests, Step(r)
    PROVE  [Atomic!Next]_(Atomic!vars)
<1>1. SUFFICES \/ Atomic!Arrive(r) \/ Atomic!TakeEffect(r)
               \/ Atomic!Acknowledge(r) \/ Atomic!Forsake(r)
               \/ UNCHANGED <<tables, op, about>> /\ States' = States
  BY DEF Atomic!Next, Atomic!vars, Atomic!tables, tables, States
<1>2. CASE Open(r)
  <2>1. PICK o \in Ops \ {"none"}, c \in Collection \cup {None},
             d \in Documents \cup {None}, label \in {"load", "commit"} :
            /\ Send(r, o, c, d, label)
            /\ o \in {"add", "remove", "delete"} => d \in Documents
            /\ o \in Reading => label = "load"
    BY <1>2, OpenFacts
  <2>2. /\ pc[r] = "new" /\ pc' = [pc EXCEPT ![r] = label] /\ loaded' = loaded
        /\ op' = [op EXCEPT ![r] = o] /\ about' = [about EXCEPT ![r] = <<c, d>>]
        /\ UNCHANGED tables
    BY <2>1 DEF Send, Goto, Ended
  <2>3. States' = [States EXCEPT ![r] = StateOf(r)'] /\ pc'[r] = label /\ op'[r] = o
    BY <2>2, OneMoves DEF TypeOK
  <2>4. StateOf(r) = "new" /\ StateOf(r)' = "arrived"
    BY <2>1, <2>2, <2>3, StateByLabel, StateByNextLabel DEF SetBefore, Reading
  <2>5. Atomic!Arrive(r)
    BY <2>2, <2>3, <2>4 DEF Atomic!Arrive, Atomic!Enter, Atomic!Kinds, Atomic!tables,
       Ops, tables, States
  <2>6. QED
    BY <2>5
<1>3. CASE Load(r)
  <2>1. /\ pc[r] = "load" /\ op[r] \in Reading /\ UNCHANGED <<tables, request>>
        /\ StateOf(r) = "arrived"
    BY <1>3, StateByLabel DEF Load, SetBefore
  <2>2. CASE op[r] = "list"
    <3>1. GotoWith(r, "ok", Members(CollectionOf(r)))
      BY <1>3, <2>2 DEF Load
    <3>2. States' = [States EXCEPT ![r] = "acknowledged"] /\ op' = op /\ about' = about
      BY <2>1, <3>1, GoesOn, StateByNextLabel DEF Ended
    <3>3. QED
      BY <2>1, <2>2, <3>2 DEF Atomic!TakeEffect, Atomic!Effect, Atomic!Enter,
         Atomic!tables, tables, States
  <2>3. CASE op[r] # "list" /\ CollectionOf(r) \notin created
    <3>1. GotoWith(r, "failed", Members(CollectionOf(r)))
      BY <1>3, <2>3 DEF Load
    <3>2. QED
      BY <2>1, <3>1, Forsaken DEF Working
  <2>4. CASE op[r] # "list" /\ CollectionOf(r) \in created
    <3>1. PICK label \in {"find", "commit"} :
              /\ GotoWith(r, label, Members(CollectionOf(r)))
              /\ label = (IF op[r] = "add" THEN "find" ELSE "commit")
      BY <1>3, <2>4 DEF Load
    <3>2. /\ States' = [States EXCEPT ![r] = StateOf(r)'] /\ op' = op /\ about' = about
          /\ pc'[r] = label /\ DocumentOf(r)' = DocumentOf(r)
      BY <2>1, <3>1, GoesOn DEF Working
    <3>3. loaded'[r] = Members(CollectionOf(r)) /\ op[r] \in {"add", "remove"}
      BY <2>1, <2>4, <3>1 DEF GotoWith, TypeOK, Ended, Reading
    <3>4. StateOf(r)' = IF SetBefore(r)' THEN "effective" ELSE "arrived"
      BY <3>2, StateByNextLabel
    <3>5. CASE SetBefore(r)'
      <4>1. op[r] = "add" <=> about[r] \in members
        BY <3>2, <3>3, <3>5, Names DEF SetBefore, Members, Sent
      <4>2. op[r] = "add" => DocumentOf(r) \in documents
        BY <4>1, Names DEF TypeOK
      <4>3. Atomic!Effect(op[r], about[r][1], about[r][2])
        <5>1. /\ op[r] = "add" => members \cup {about[r]} = members
              /\ op[r] = "remove" => members \ {about[r]} = members
          BY <4>1
        <5>2. QED
          BY <2>1, <2>4, <3>3, <4>2, <5>1, Names DEF Atomic!Effect, tables
      <4>4. QED
        BY <2>1, <3>2, <3>4, <3>5, <4>3 DEF Atomic!TakeEffect, Atomic!Enter, States
    <3>6. CASE ~SetBefore(r)'
      <4>1. States' = States
        BY <2>1, <3>2, <3>4, <3>6 DEF States
      <4>2. QED
        BY <2>1, <3>2, <4>1
    <3>7. QED
      BY <3>5, <3>6
  <2>5. QED
    BY <2>2, <2>3, <2>4
<1>4. CASE LoadDocument(r)
  <2>1. /\ pc[r] = "load" /\ op[r] = "delete" /\ UNCHANGED <<tables, request>>
        /\ StateOf(r) = "arrived"
    BY <1>4, StateByLabel DEF LoadDocument, SetBefore
  <2>2. PICK label \in {"commit", "failed"} : \E objects : GotoWith(r, label, objects)
    BY <1>4 DEF LoadDocument
  <2>3. CASE label = "commit"
    <3>1. /\ States' = [States EXCEPT ![r] = StateOf(r)'] /\ op' = op /\ about' = about
          /\ pc'[r] = "commit"
      BY <2>1, <2>2, <2>3, GoesOn DEF Working
    <3>2. StateOf(r)' = "arrived"
      BY <2>1, <3>1, StateByNextLabel DEF SetBefore
    <3>3. QED
      BY <2>1, <3>1, <3>2 DEF States
  <2>4. CASE label = "failed"
    BY <2>1, <2>2, <2>4, Forsaken DEF Working
  <2>5. QED
    BY <2>3, <2>4
<1>5. CASE Find(r)
  <2>1. /\ pc[r] = "find" /\ op[r] = "add" /\ UNCHANGED <<tables, request>>
        /\ StateOf(r) = IF SetBefore(r) THEN "effective" ELSE "arrived"
    BY <1>5, StateByLabel DEF Find, Sent
  <2>2. CASE Goto(r, "commit")
    <3>1. /\ States' = [States EXCEPT ![r] = StateOf(r)'] /\ op' = op /\ about' = about
          /\ pc'[r] = "commit" /\ DocumentOf(r)' = DocumentOf(r)
      BY <2>1, <2>2, GoesOn DEF Working
    <3>2. SetBefore(r)' <=> SetBefore(r)
      BY <2>1, <2>2, <3>1 DEF SetBefore, Goto, Ended
    <3>3. States' = States
      BY <2>1, <3>1, <3>2, StateByNextLabel DEF States
    <3>4. QED
      BY <2>1, <3>1, <3>3
  <2>3. CASE Goto(r, "failed")
    BY <2>1, <2>3, Forsaken DEF Working
  <2>4. QED
    BY <1>5, <2>2, <2>3 DEF Find
<1>6. CASE Refresh(r)
  <2>1. /\ pc[r] = "refresh" /\ Goto(r, "ok") /\ UNCHANGED <<tables, request>>
        /\ StateOf(r) = "effective"
    BY <1>6, StateByLabel DEF Refresh
  <2>2. States' = [States EXCEPT ![r] = "acknowledged"] /\ op' = op /\ about' = about
    BY <2>1, GoesOn, StateByNextLabel DEF Ended
  <2>3. QED
    BY <2>1, <2>2 DEF Atomic!Acknowledge, Atomic!Enter, Atomic!tables, tables, States
<1>7. CASE CommitCreate(r)
  <2>1. /\ pc[r] = "commit" /\ op[r] = "create" /\ StateOf(r) = "arrived"
        /\ UNCHANGED <<documents, members, request>>
    BY <1>7, StateByLabel DEF CommitCreate, SetBefore
  <2>2. CASE CollectionOf(r) \in created
    <3>1. Goto(r, "failed") /\ created' = created
      BY <1>7, <2>2 DEF CommitCreate
    <3>2. QED
      BY <2>1, <3>1, Forsaken DEF Working, tables
  <2>3. CASE CollectionOf(r) \notin created
    <3>1. Goto(r, "refresh") /\ created' = created \cup {CollectionOf(r)}
      BY <1>7, <2>3 DEF CommitCreate
    <3>2. States' = [States EXCEPT ![r] = "effective"] /\ op' = op /\ about' = about
      BY <2>1, <3>1, GoesOn, StateByNextLabel DEF Working
    <3>3. Atomic!Effect(op[r], about[r][1], about[r][2])
      BY <2>1, <2>3, <3>1, Names DEF Atomic!Effect
    <3>4. QED
      BY <2>1, <3>2, <3>3 DEF Atomic!TakeEffect, Atomic!Enter, States
  <2>4. QED
    BY <2>2, <2>3
<1>8. CASE CommitAdd(r)
  <2>1. /\ pc[r] = "commit" /\ op[r] = "add" /\ CollectionOf(r) \in created
        /\ UNCHANGED <<created, documents, request>>
        /\ StateOf(r) = IF SetBefore(r) THEN "effective" ELSE "arrived"
        /\ SetBefore(r) <=> DocumentOf(r) \in loaded[r]
    BY <1>8, StateByLabel DEF CommitAdd, Sent, SetBefore
  <2>2. CASE Goto(r, "refresh")
    <3>1. States' = [States EXCEPT ![r] = "effective"] /\ op' = op /\ about' = about
      BY <2>1, <2>2, GoesOn, StateByNextLabel DEF Working
    <3>2. CASE SetBefore(r)
      <4>1. members' = members
        BY <1>8, <2>1, <3>2 DEF CommitAdd
      <4>2. States' = States
        BY <2>1, <3>1, <3>2 DEF States
      <4>3. QED
        BY <2>1, <3>1, <4>1, <4>2 DEF tables
    <3>3. CASE ~SetBefore(r)
      <4>1. DocumentOf(r) \in documents /\ members' = members \cup {about[r]}
        BY <1>8, <2>1, <2>2, <3>3 DEF CommitAdd, Goto, TypeOK
      <4>2. Atomic!Effect(op[r], about[r][1], about[r][2])
        BY <2>1, <4>1, Names DEF Atomic!Effect
      <4>3. QED
        BY <2>1, <3>1, <3>3, <4>2 DEF Atomic!TakeEffect, Atomic!Enter, States
    <3>4. QED
      BY <3>2, <3>3
  <2>3. CASE Goto(r, "failed") /\ UNCHANGED members
    BY <2>1, <2>3, Forsaken DEF Working, tables
  <2>4. QED
    BY <1>8, <2>2, <2>3 DEF CommitAdd
<1>9. CASE CommitRemove(r)
  <2>1. /\ pc[r] = "commit" /\ op[r] = "remove" /\ CollectionOf(r) \in created
        /\ UNCHANGED <<created, documents, request>>
        /\ StateOf(r) = IF SetBefore(r) THEN "effective" ELSE "arrived"
        /\ SetBefore(r) <=> DocumentOf(r) \notin loaded[r]
    BY <1>9, StateByLabel DEF CommitRemove, Sent, SetBefore
  <2>2. CASE /\ GotoWith(r, "refresh", loaded[r] \ {DocumentOf(r)})
             /\ members' = WithoutRemoved(r)
    <3>1. States' = [States EXCEPT ![r] = "effective"] /\ op' = op /\ about' = about
      <4>1. \E objects : GotoWith(r, "refresh", objects)
        BY <2>2
      <4>2. QED
        BY <2>1, <4>1, GoesOn, StateByNextLabel DEF Working
    <3>2. CASE SetBefore(r)
      <4>1. members' = members
        BY <2>1, <2>2, <3>2 DEF WithoutRemoved
      <4>2. States' = States
        BY <2>1, <3>1, <3>2 DEF States
      <4>3. QED
        BY <2>1, <3>1, <4>1, <4>2 DEF tables
    <3>3. CASE ~SetBefore(r)
      <4>1. members' = members \ {about[r]}
        BY <2>1, <2>2, <3>3 DEF WithoutRemoved
      <4>2. Atomic!Effect(op[r], about[r][1], about[r][2])
        BY <2>1, <4>1, Names DEF Atomic!Effect
      <4>3. QED
        BY <2>1, <3>1, <3>3, <4>2 DEF Atomic!TakeEffect, Atomic!Enter, States
    <3>4. QED
      BY <3>2, <3>3
  <2>3. CASE Goto(r, "failed") /\ UNCHANGED members
    BY <2>1, <2>3, Forsaken DEF Working, tables
  <2>4. QED
    BY <1>9, <2>2, <2>3 DEF CommitRemove
<1>10. CASE CommitDelete(r)
  <2>1. /\ pc[r] = "commit" /\ op[r] = "delete" /\ StateOf(r) = "arrived"
        /\ UNCHANGED <<created, request>>
    BY <1>10, StateByLabel DEF CommitDelete, SetBefore
  <2>2. CASE /\ Goto(r, "ok") /\ documents' = documents \ {DocumentOf(r)}
             /\ members' = {m \in members : m[2] # DocumentOf(r)}
    <3>1. States' = [States EXCEPT ![r] = "acknowledged"] /\ op' = op /\ about' = about
      BY <2>1, <2>2, GoesOn, StateByNextLabel DEF Ended
    <3>2. Atomic!Effect(op[r], about[r][1], about[r][2])
      BY <2>1, <2>2, Names DEF Atomic!Effect
    <3>3. QED
      BY <2>1, <3>1, <3>2 DEF Atomic!TakeEffect, Atomic!Enter, States
  <2>3. CASE Goto(r, "failed") /\ UNCHANGED <<documents, members>>
    BY <2>1, <2>3, Forsaken DEF Working, tables
  <2>4. QED
    BY <1>10, <2>2, <2>3 DEF CommitDelete, WithoutDocument
<1>11. CASE Fail(r)
  BY <1>11, Forsaken DEF Fail
<1>12. QED
  BY <1>2, <1>3, <1>4, <1>5, <1>6, <1>7, <1>8, <1>9, <1>10, <1>11 DEF Step

\* Requests about collections are atomic, and so linearizable: Collections
\* implements AtomicMembership, in which each takes effect at one instant on the
\* memberships as they are then, and an acknowledged one exactly once, although
\* every session works on a list it has loaded before.
THEOREM MembershipIsAtomic == Spec => RequestsAreAtomic
<1>1. Init => Atomic!Init
  <2> SUFFICES ASSUME Init PROVE Atomic!Init
    OBVIOUS
  <2>1. \A r \in Requests : StateOf(r) = "new"
    BY DEF Init, StateOf, SetBefore
  <2>2. QED
    BY <2>1 DEF Init, Atomic!Init
<1>2. CollectionInv /\ [Next]_vars => [Atomic!Next]_(Atomic!vars)
  <2> SUFFICES ASSUME CollectionInv, [Next]_vars PROVE [Atomic!Next]_(Atomic!vars)
    OBVIOUS
  <2>1. CASE Next
    <3>1. PICK r \in Requests : Step(r)
      BY <2>1, NextIsStep
    <3>2. QED
      BY <3>1, AtomicStep DEF CollectionInv
  <2>2. CASE UNCHANGED vars
    BY <2>2 DEF vars, tables, Atomic!vars, Atomic!tables, StateOf, SetBefore, DocumentOf
  <2>3. QED
    BY <2>1, <2>2
<1>3. QED
  BY <1>1, <1>2, CollectionInvariant, PTL DEF Spec, RequestsAreAtomic, Atomic!Spec
=============================================================================

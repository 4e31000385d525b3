------------------------ MODULE LearningProgressProofs ------------------------
(***************************************************************************)
(* Proofs about LearningProgress, for any finite set of requests.          *)
(***************************************************************************)
EXTENDS LearningProgress, FiniteSetTheorems, TLAPS

\* Reviews whose commit succeeded and was not cut off, and reviews that have
\* come to their commit at all.
Committed == Reviews({"refresh", "ok"})
Ended == Reviews({"refresh", "ok", "failed"})

\* The strengthening: committed reviews bound the count from below, ended
\* ones from above, and whoever holds the lock has loaded the row as it is.
Bounds ==
    document => /\ Cardinality(Committed) <= progress.count
                /\ progress.count <= Cardinality(Ended)

Sessions ==
    /\ lock # NoOne => Present(progress) /\ loaded[lock].count = progress.count
    /\ Present(progress) => document
    /\ ~Present(progress) => progress.count = 0
    /\ \A r \in Requests :
          /\ pc[r] = "write" /\ ~Present(loaded[r]) => loaded[r].count = 0
          /\ pc[r] = "write" /\ Present(loaded[r]) /\ op[r] = "review" => lock = r
          /\ pc[r] \in {"load", "write", "refresh"} => op[r] # "none"

CountInv == TypeOK /\ Bounds /\ Sessions

LEMMA Finite == \A labels : IsFiniteSet(Reviews(labels))
  BY RequestsAssumption, FS_Subset DEF Reviews

LEMMA Sizes ==
  /\ Cardinality(Committed) \in Nat /\ Cardinality(Ended) \in Nat
  /\ \A labels : Cardinality(Reviews(labels)) \in Nat
  BY Finite, FS_CardinalityType DEF Committed, Ended

LEMMA CountInitially == Init => CountInv
  <1> SUFFICES ASSUME Init PROVE CountInv
    OBVIOUS
  <1>1. TypeOK
    BY RequestsAssumption DEF Init, TypeOK, PCs, Ops, Marks, Progress, NoProgress
  <1>2. Committed = {} /\ Ended = {}
    BY DEF Init, Committed, Ended, Reviews
  <1>3. QED
    BY <1>1, <1>2, FS_EmptySet DEF Init, CountInv, Bounds, Sessions, NoProgress, Present

\* Every step keeps the types.
LEMMA TypeStep == TypeOK /\ Sessions /\ [Next]_vars => TypeOK'
  <1> SUFFICES ASSUME TypeOK, Sessions, [Next]_vars PROVE TypeOK'
    OBVIOUS
  <1> USE RequestsAssumption DEF TypeOK, PCs, Ops, Marks, Progress, NoProgress, Goto
  <1>1. ASSUME NEW r \in Requests, Open(r) PROVE TypeOK'
    <2>1. op' \in [Requests -> Ops] /\ pc' \in [Requests -> PCs]
      BY <1>1 DEF Open
    <2>2. lock' = lock /\ (lock # NoOne => lock # r)
      BY <1>1 DEF Open
    <2>3. QED BY <1>1, <2>1, <2>2 DEF Open
  <1>2. ASSUME NEW r \in Requests, Load(r) PROVE TypeOK'
    <2>0. /\ pc[r] = "load" /\ pc' = [pc EXCEPT ![r] = "write"]
          /\ loaded' = [loaded EXCEPT ![r] = progress]
          /\ UNCHANGED <<document, progress, op>>
      BY <1>2 DEF Load
    <2>1. pc' \in [Requests -> PCs] /\ loaded' \in [Requests -> Progress]
      BY <2>0
    <2>2. lock' = lock \/ (lock' = r /\ op[r] = "review")
      <3>1. CASE op[r] = "review" /\ LockedForUpdate(r)
        BY <3>1 DEF LockedForUpdate
      <3>2. CASE op[r] # "review" /\ lock' = lock
        BY <3>2
      <3>3. QED BY <1>2, <3>1, <3>2 DEF Load
    <2>3. lock' # NoOne => pc'[lock'] = "write" /\ op'[lock'] = "review"
      BY <2>0, <2>2
    <2>4. lock' \in Requests \cup {NoOne}
      BY <2>2
    <2>5. QED BY <2>0, <2>1, <2>3, <2>4
  <1>3. ASSUME NEW r \in Requests, Write(r) PROVE TypeOK'
    <2>1. Assigned(op[r], loaded[r]) \in Progress
      BY DEF Assigned, Present
    <2>2. progress' \in Progress
      BY <1>3, <2>1 DEF Write, ChangedColumns
    <2>3. QED BY <1>3, <2>2 DEF Write, LockReleased
  <1>4. ASSUME NEW r \in Requests, Refresh(r) PROVE TypeOK'
    BY <1>4 DEF Refresh
  <1>5. CASE Delete
    BY <1>5 DEF Delete
  <1>6. CASE Crash
    BY <1>6 DEF Crash
  <1>7. CASE UNCHANGED vars
    BY <1>7 DEF vars
  <1>8. QED BY <1>1, <1>2, <1>3, <1>4, <1>5, <1>6, <1>7 DEF Next

\* What a successful commit stores, by the kind of request.
LEMMA WriteStores ==
  ASSUME TypeOK, Sessions, NEW r \in Requests, Write(r), pc'[r] = "refresh"
  PROVE  /\ Present(progress') /\ document
         /\ progress'.count = IF op[r] = "review" THEN progress.count + 1
                                                 ELSE progress.count
         /\ lock \notin {NoOne, r} => op[r] # "review"
  <1> USE DEF TypeOK, Marks, Progress, Present
  <1>1. loaded[r] \in Progress /\ progress \in Progress
    OBVIOUS
  <1>2. CASE /\ ~Present(loaded[r]) /\ document /\ ~Present(progress)
             /\ progress' = Assigned(op[r], loaded[r])
    <2>1. loaded[r].count = 0 /\ progress.count = 0
      BY <1>2 DEF Sessions, Write
    <2>2. op[r] = "review" => ~(lock # NoOne)
      BY <1>2 DEF Sessions
    <2>3. QED BY <1>1, <1>2, <2>1, <2>2 DEF Assigned
  <1>3. CASE /\ Present(loaded[r]) /\ Present(progress)
             /\ progress' = ChangedColumns(loaded[r], Assigned(op[r], loaded[r]))
    <2>1. document
      BY <1>3 DEF Sessions
    <2>2. CASE op[r] = "review"
      <3>1. lock = r
        BY <1>3, <2>2 DEF Sessions, Write
      <3>2. loaded[r].count = progress.count
        BY <3>1, RequestsAssumption DEF Sessions
      <3>3. loaded[r].count + 1 # loaded[r].count
        BY <1>1
      <3>4. QED BY <1>1, <1>3, <2>1, <2>2, <3>1, <3>2, <3>3 DEF Assigned, ChangedColumns
    <2>3. CASE op[r] # "review"
      BY <1>1, <1>3, <2>1, <2>3 DEF Assigned, ChangedColumns
    <2>4. QED BY <2>2, <2>3
  <1>4. QED BY <1>2, <1>3 DEF Write, Goto

\* A successful review is one more committed and one more ended review.
LEMMA CommittedGrow ==
  ASSUME NEW r \in Requests, pc \in [Requests -> PCs], pc[r] = "write",
         pc' = [pc EXCEPT ![r] = "refresh"], op' = op
  PROVE  /\ op[r] = "review" =>
                /\ Cardinality(Committed)' = Cardinality(Committed) + 1
                /\ Cardinality(Ended)' = Cardinality(Ended) + 1
         /\ op[r] # "review" => Committed' = Committed /\ Ended' = Ended
  <1> USE DEF Committed, Ended, Reviews
  <1>1. CASE op[r] = "review"
    <2>1. Committed' = Committed \cup {r} /\ r \notin Committed
      BY <1>1
    <2>2. Ended' = Ended \cup {r} /\ r \notin Ended
      BY <1>1
    <2>3. IsFiniteSet(Committed) /\ IsFiniteSet(Ended)
      BY Finite
    <2> HIDE DEF Committed, Ended
    <2>4. QED BY <1>1, <2>1, <2>2, <2>3, FS_AddElement
  <1>2. CASE op[r] # "review"
    BY <1>2
  <1>3. QED BY <1>1, <1>2

\* Where the count stays, reviews may only leave the committed and join the
\* ended ones.
LEMMA BoundsStay ==
  ASSUME TypeOK, Bounds, Committed' \subseteq Committed, Ended \subseteq Ended',
         document' => document, progress'.count = progress.count,
         IsFiniteSet(Ended')
  PROVE  Bounds'
  <1>1. IsFiniteSet(Committed) /\ IsFiniteSet(Ended)
    BY Finite DEF Committed, Ended
  <1>2. Cardinality(Committed') <= Cardinality(Committed)
    BY <1>1, FS_Subset
  <1>3. Cardinality(Ended) <= Cardinality(Ended')
    BY FS_Subset
  <1>4. /\ Cardinality(Committed) \in Nat /\ Cardinality(Ended) \in Nat
        /\ Cardinality(Committed') \in Nat /\ Cardinality(Ended') \in Nat
    BY <1>1, FS_CardinalityType, FS_Subset
  <1>5. progress.count \in Nat
    BY DEF TypeOK, Progress
  <1>6. QED BY <1>2, <1>3, <1>4, <1>5 DEF Bounds

LEMMA BoundsStep == CountInv /\ [Next]_vars => Bounds'
  <1> SUFFICES ASSUME CountInv, [Next]_vars PROVE Bounds'
    OBVIOUS
  <1>0. TypeOK /\ Bounds /\ Sessions /\ TypeOK'
    BY TypeStep DEF CountInv
  <1>1. IsFiniteSet(Ended')
    <2>1. Ended' \subseteq Requests
      BY DEF Ended, Reviews
    <2>2. QED BY <2>1, RequestsAssumption, FS_Subset
  <1>2. ASSUME NEW r \in Requests, Open(r) PROVE Bounds'
    <2>1. CASE ~document
      BY <1>2, <2>1 DEF Bounds, Open
    <2>2. CASE document
      <3>1. Committed' = Committed /\ Ended' = Ended
        BY <1>0, <1>2, <2>2 DEF Open, Goto, Committed, Ended, Reviews, TypeOK
      <3>2. QED BY <1>0, <1>1, <1>2, <3>1, BoundsStay DEF Open
    <2>3. QED BY <2>1, <2>2
  <1>3. ASSUME NEW r \in Requests, Load(r) PROVE Bounds'
    <2>1. Committed' = Committed /\ Ended' = Ended
      BY <1>0, <1>3 DEF Load, Goto, Committed, Ended, Reviews, TypeOK
    <2>2. QED BY <1>0, <1>1, <1>3, <2>1, BoundsStay DEF Load
  <1>4. ASSUME NEW r \in Requests, Write(r) PROVE Bounds'
    <2>1. pc[r] = "write" /\ op' = op /\ document' = document
      BY <1>4 DEF Write
    <2>2. CASE Goto(r, "failed") /\ UNCHANGED progress
      <3>1. Committed' = Committed /\ Ended \subseteq Ended'
        BY <1>0, <2>1, <2>2 DEF Goto, Committed, Ended, Reviews, TypeOK
      <3>2. QED BY <1>0, <1>1, <2>1, <2>2, <3>1, BoundsStay
    <2>3. CASE Goto(r, "refresh")
      <3>1. pc' = [pc EXCEPT ![r] = "refresh"] /\ pc'[r] = "refresh"
        BY <1>0, <2>3 DEF Goto, TypeOK
      <3>2. progress'.count = IF op[r] = "review" THEN progress.count + 1
                                                  ELSE progress.count
        BY <1>0, <1>4, <3>1, WriteStores
      <3>3. CASE op[r] = "review"
        <4>1. /\ Cardinality(Committed)' = Cardinality(Committed) + 1
              /\ Cardinality(Ended)' = Cardinality(Ended) + 1
          BY <1>0, <2>1, <3>1, <3>3, CommittedGrow DEF TypeOK
        <4>2. progress.count \in Nat
          BY <1>0 DEF TypeOK, Progress
        <4>3. QED BY <1>0, <2>1, <3>2, <3>3, <4>1, <4>2, Sizes DEF Bounds
      <3>4. CASE op[r] # "review"
        <4>1. Committed' = Committed /\ Ended' = Ended
          BY <1>0, <2>1, <3>1, <3>4, CommittedGrow DEF TypeOK
        <4>2. QED BY <1>0, <1>1, <2>1, <3>2, <3>4, <4>1, BoundsStay
      <3>5. QED BY <3>3, <3>4
    <2>4. QED BY <1>4, <2>2, <2>3 DEF Write
  <1>5. ASSUME NEW r \in Requests, Refresh(r) PROVE Bounds'
    <2>1. Committed' \subseteq Committed /\ Ended' = Ended
      BY <1>0, <1>5 DEF Refresh, Goto, Committed, Ended, Reviews, TypeOK
    <2>2. QED BY <1>0, <1>1, <1>5, <2>1, BoundsStay DEF Refresh
  <1>6. CASE Delete
    BY <1>6 DEF Delete, Bounds
  <1>7. CASE Crash
    <2>1. Committed' \subseteq Committed /\ Ended \subseteq Ended'
      BY <1>0, <1>7 DEF Crash, Committed, Ended, Reviews, TypeOK
    <2>2. QED BY <1>0, <1>1, <1>7, <2>1, BoundsStay DEF Crash
  <1>8. CASE UNCHANGED vars
    BY <1>0, <1>8 DEF vars, Bounds, Committed, Ended, Reviews
  <1>9. QED BY <1>2, <1>3, <1>4, <1>5, <1>6, <1>7, <1>8 DEF Next

\* A write under another request's lock changes nothing.
LEMMA WriteRespectsLock ==
  ASSUME TypeOK, Sessions, NEW r \in Requests, Write(r), lock \notin {NoOne, r}
  PROVE  progress' = progress
  <1> USE DEF TypeOK, Progress
  <1>1. Present(progress)
    BY DEF Sessions
  <1>2. CASE Assigned(op[r], loaded[r]) = loaded[r]
    <2>1. ChangedColumns(loaded[r], loaded[r]) = progress
      BY DEF ChangedColumns
    <2>2. QED BY <1>1, <1>2, <2>1 DEF Write
  <1>3. CASE Assigned(op[r], loaded[r]) # loaded[r]
    BY <1>1, <1>3 DEF Write
  <1>4. QED BY <1>2, <1>3

LEMMA SessionsStep == TypeOK /\ Sessions /\ [Next]_vars => Sessions'
  <1> SUFFICES ASSUME TypeOK, Sessions, [Next]_vars PROVE Sessions'
    OBVIOUS
  <1>0. TypeOK'
    BY TypeStep
  <1>1. ASSUME NEW r \in Requests, Open(r) PROVE Sessions'
    <2>1. /\ pc[r] = "new" /\ pc'[r] \in {"load", "failed"} /\ op'[r] # "none"
          /\ \A q \in Requests \ {r} : pc'[q] = pc[q] /\ op'[q] = op[q]
          /\ UNCHANGED <<document, progress, lock, loaded>>
      BY <1>1 DEF Open, Goto, TypeOK
    <2>2. QED BY <2>1 DEF Sessions
  <1>2. ASSUME NEW r \in Requests, Load(r) PROVE Sessions'
    <2>1. /\ pc[r] = "load" /\ pc' = [pc EXCEPT ![r] = "write"]
          /\ loaded' = [loaded EXCEPT ![r] = progress]
          /\ UNCHANGED <<document, progress, op>>
      BY <1>2 DEF Load, Goto
    <2>2. CASE op[r] = "review" /\ Present(progress) /\ lock = NoOne /\ lock' = r
      <3>1. \A q \in Requests : ~(/\ pc[q] = "write" /\ Present(loaded[q])
                                  /\ op[q] = "review")
        BY <2>2, RequestsAssumption DEF Sessions
      <3>2. QED BY <2>1, <2>2, <3>1 DEF Sessions, TypeOK
    <2>3. CASE lock' = lock /\ (op[r] # "review" \/ ~Present(progress))
      <3>1. lock # r
        BY <2>1, RequestsAssumption DEF TypeOK
      <3>2. QED BY <2>1, <2>3, <3>1 DEF Sessions, TypeOK
    <2>4. QED BY <1>2, <2>2, <2>3 DEF Load, LockedForUpdate
  <1>3. ASSUME NEW r \in Requests, Write(r) PROVE Sessions'
    <2>1. /\ pc[r] = "write" /\ op' = op /\ document' = document
          /\ loaded' = loaded /\ lock' = LockReleased(r)
      BY <1>3 DEF Write
    <2>2. /\ pc'[r] \in {"refresh", "failed"}
          /\ \A q \in Requests \ {r} : pc'[q] = pc[q]
      BY <1>3 DEF Write, Goto, TypeOK
    <2>3. op[r] # "none"
      BY <2>1 DEF Sessions
    <2>4. CASE lock \in {NoOne, r}
      <3>1. lock' = NoOne
        BY <2>1, <2>4 DEF LockReleased
      <3>2. \A q \in Requests \ {r} : ~(/\ pc[q] = "write" /\ Present(loaded[q])
                                        /\ op[q] = "review")
        BY <2>4, RequestsAssumption DEF Sessions
      <3>3. /\ Present(progress') => document
            /\ ~Present(progress') => progress'.count = 0
        <4>1. CASE Goto(r, "failed") /\ UNCHANGED progress
          BY <4>1 DEF Sessions
        <4>2. CASE Goto(r, "refresh")
          BY <1>3, <4>2, WriteStores DEF Goto, TypeOK
        <4>3. QED BY <1>3, <4>1, <4>2 DEF Write
      <3>4. QED BY <2>1, <2>2, <2>3, <3>1, <3>2, <3>3 DEF Sessions
    <2>5. CASE lock \notin {NoOne, r}
      <3>1. progress' = progress
        BY <1>3, <2>5, WriteRespectsLock
      <3>2. lock' = lock
        BY <2>1, <2>5 DEF LockReleased
      <3>3. QED BY <2>1, <2>2, <2>3, <3>1, <3>2 DEF Sessions
    <2>6. QED BY <2>4, <2>5
  <1>4. ASSUME NEW r \in Requests, Refresh(r) PROVE Sessions'
    <2>1. /\ pc[r] = "refresh" /\ pc'[r] \in {"ok", "failed"}
          /\ \A q \in Requests \ {r} : pc'[q] = pc[q]
          /\ UNCHANGED <<document, progress, lock, op, loaded>>
      BY <1>4 DEF Refresh, Goto, TypeOK
    <2>2. QED BY <2>1 DEF Sessions
  <1>5. CASE Delete
    <2>1. \A q \in Requests : ~(/\ pc[q] = "write" /\ Present(loaded[q])
                                /\ op[q] = "review")
      BY <1>5, RequestsAssumption DEF Sessions, Delete
    <2>2. QED BY <1>5, <2>1 DEF Sessions, Delete, NoProgress, Present
  <1>6. CASE Crash
    <2>1. \A q \in Requests : pc'[q] \notin {"load", "write", "refresh"}
      BY <1>6 DEF Crash, TypeOK, PCs
    <2>2. QED BY <1>6, <2>1 DEF Crash, Sessions
  <1>7. CASE UNCHANGED vars
    BY <1>7 DEF vars, Sessions
  <1>8. QED BY <1>1, <1>2, <1>3, <1>4, <1>5, <1>6, <1>7 DEF Next

LEMMA CountStep == CountInv /\ [Next]_vars => CountInv'
  BY TypeStep, BoundsStep, SessionsStep DEF CountInv

\* The variables keep their types, and only a review between its SELECT and
\* its commit holds the lock.
THEOREM TypeCorrect == Spec => []TypeOK
  <1>1. CountInv => TypeOK
    BY DEF CountInv
  <1>2. QED BY CountInitially, CountStep, <1>1, PTL DEF Spec

\* No acknowledged review is lost and none is counted twice, however reviews,
\* PUTs, the deletion and crashes interleave: SELECT ... FOR UPDATE keeps the
\* count a review has read equal to the stored one until it writes.
THEOREM NoReviewLost == Spec => []ReviewsCounted
  <1>1. CountInv => ReviewsCounted
    <2> SUFFICES ASSUME CountInv, document PROVE ReviewsCounted
      BY DEF ReviewsCounted
    <2>1. Cardinality(Reviews({"ok"})) <= Cardinality(Committed)
      <3>1. Reviews({"ok"}) \subseteq Committed
        BY DEF Reviews, Committed
      <3>2. QED BY <3>1, Finite, FS_Subset DEF Committed
    <2>2. Cardinality(Ended) <= Cardinality(Reviews(PCs))
      <3>1. Ended \subseteq Reviews(PCs)
        BY DEF Reviews, Ended, PCs
      <3>2. QED BY <3>1, Finite, FS_Subset
    <2>3. progress.count \in Nat
      BY DEF CountInv, TypeOK, Progress
    <2>4. QED BY <2>1, <2>2, <2>3, Sizes DEF CountInv, Bounds, ReviewsCounted
  <1>2. QED BY CountInitially, CountStep, <1>1, PTL DEF Spec

-----------------------------------------------------------------------------
(* Requests are atomic.                                                    *)

States == [r \in Requests |-> StateOf(r)]

\* A step that moves one request on, and keeps what the others have loaded.
LEMMA OneMoves ==
  ASSUME NEW r \in Requests, pc \in [Requests -> PCs], NEW label, pc' = [pc EXCEPT ![r] = label],
         \A q \in Requests \ {r} : op'[q] = op[q] /\ loaded'[q] = loaded[q]
  PROVE  States' = [States EXCEPT ![r] = StateOf(r)']
  <1>1. \A q \in Requests \ {r} : StateOf(q)' = StateOf(q)
    BY DEF StateOf, SetBefore
  <1>2. QED BY <1>1 DEF States

\* The states of a request, label by label.
LEMMA StateByLabel ==
  ASSUME TypeOK, NEW r \in Requests
  PROVE  /\ pc[r] = "new" => StateOf(r) = "new"
         /\ pc[r] = "load" => StateOf(r) = "arrived"
         /\ pc[r] = "write" => StateOf(r) = IF SetBefore(r) THEN "effective" ELSE "arrived"
         /\ pc[r] = "refresh" => StateOf(r) = "effective"
         /\ pc[r] = "ok" => StateOf(r) = "acknowledged"
         /\ pc[r] = "failed" => StateOf(r) = "unanswered"
  BY DEF StateOf, SetBefore, TypeOK, PCs

\* The same after a step.
LEMMA StateByNextLabel ==
  ASSUME TypeOK', NEW r \in Requests
  PROVE  /\ pc'[r] = "new" => StateOf(r)' = "new"
         /\ pc'[r] = "load" => StateOf(r)' = "arrived"
         /\ pc'[r] = "write" => StateOf(r)' = IF SetBefore(r)' THEN "effective" ELSE "arrived"
         /\ pc'[r] = "refresh" => StateOf(r)' = "effective"
         /\ pc'[r] = "ok" => StateOf(r)' = "acknowledged"
         /\ pc'[r] = "failed" => StateOf(r)' = "unanswered"
  BY DEF StateOf, SetBefore, TypeOK, PCs

\* What a request assigns to a row as it is now is its effect.
LEMMA AssignedIsEffect ==
  ASSUME NEW o \in Ops \ {"none"}, NEW p \in Progress
  PROVE  Assigned(o, p) = Atomic!Effect(o, p)
  BY DEF Assigned, Atomic!Effect, Ops, Progress, Marks, Present

\* A commit that goes through leaves the effect of the request on the row as it
\* was just before, or nothing new if the request took effect when it read.
LEMMA WriteTakesEffect ==
  ASSUME TypeOK, Sessions, NEW r \in Requests, Write(r), Goto(r, "refresh")
  PROVE  /\ document
         /\ SetBefore(r) => progress' = progress
         /\ ~SetBefore(r) => progress' = Atomic!Effect(op[r], progress)
  <1> USE DEF TypeOK, Progress, Marks
  <1>0. /\ pc[r] = "write" /\ op[r] \in Ops \ {"none"}
        /\ loaded[r] \in Progress /\ progress \in Progress
    BY DEF Write, Sessions
  <1>1. document
    BY WriteStores DEF Goto
  <1>2. CASE /\ ~Present(loaded[r]) /\ ~Present(progress)
             /\ progress' = Assigned(op[r], loaded[r])
    <2>1. loaded[r].count = 0 /\ progress.count = 0
      BY <1>0, <1>2 DEF Sessions
    <2>2. loaded[r] = progress
      BY <1>0, <1>2, <2>1 DEF Present
    <2>3. ~SetBefore(r)
      BY <1>2 DEF SetBefore
    <2>4. QED BY <1>0, <1>1, <1>2, <2>2, <2>3, AssignedIsEffect
  <1>3. CASE /\ Present(loaded[r]) /\ Present(progress)
             /\ progress' = ChangedColumns(loaded[r], Assigned(op[r], loaded[r]))
    <2>1. CASE SetBefore(r)
      BY <1>0, <1>1, <1>3, <2>1 DEF SetBefore, ChangedColumns
    <2>2. CASE ~SetBefore(r) /\ op[r] = "review"
      <3>1. lock = r /\ loaded[r].count = progress.count
        BY <1>0, <1>3, <2>2, RequestsAssumption DEF Sessions
      <3>2. Assigned(op[r], loaded[r]) = [count |-> progress.count + 1, mark |-> loaded[r].mark]
        BY <1>0, <1>3, <2>2, <3>1 DEF Assigned
      <3>3. progress' = [count |-> progress.count + 1, mark |-> progress.mark]
        BY <1>0, <1>3, <3>1, <3>2 DEF ChangedColumns
      <3>4. QED BY <1>0, <1>1, <1>3, <2>2, <3>3 DEF Atomic!Effect, Present
    <2>3. CASE ~SetBefore(r) /\ op[r] # "review"
      <3>1. Assigned(op[r], loaded[r]) =
              [count |-> loaded[r].count, mark |-> Atomic!Effect(op[r], progress).mark]
        BY <1>0, <2>3 DEF Assigned, Atomic!Effect, Ops
      <3>2. Assigned(op[r], loaded[r]).mark # loaded[r].mark
        BY <1>0, <1>3, <2>3, <3>1 DEF SetBefore
      <3>3. progress' = [count |-> progress.count, mark |-> Atomic!Effect(op[r], progress).mark]
        BY <1>3, <3>1, <3>2 DEF ChangedColumns
      <3>4. QED BY <1>0, <1>1, <2>3, <3>3 DEF Atomic!Effect
    <2>4. QED BY <2>1, <2>2, <2>3
  <1>4. QED BY <1>2, <1>3 DEF Write, Goto

\* Every step is one of the atomic record's or is hidden.
LEMMA AtomicStep == CountInv /\ [Next]_vars => [Atomic!Next]_(Atomic!vars)
  <1> SUFFICES ASSUME CountInv, [Next]_vars PROVE [Atomic!Next]_(Atomic!vars)
    OBVIOUS
  <1>0. TypeOK /\ Sessions /\ TypeOK' /\ pc \in [Requests -> PCs]
    BY TypeStep DEF CountInv, TypeOK
  <1>1. ASSUME NEW r \in Requests, Open(r) PROVE Atomic!Arrive(r)
    <2>1. States' = [States EXCEPT ![r] = StateOf(r)']
      BY <1>0, <1>1, OneMoves DEF Open, Goto, TypeOK
    <2>2. /\ StateOf(r) = "new"
          /\ StateOf(r)' = IF document THEN "arrived" ELSE "unanswered"
      BY <1>0, <1>1, StateByLabel, StateByNextLabel DEF Open, Goto, TypeOK
    <2>3. QED BY <1>1, <2>1, <2>2
          DEF Open, Atomic!Arrive, Atomic!Enter, Atomic!Kinds, Ops, States
  <1>2. ASSUME NEW r \in Requests, Load(r)
        PROVE  Atomic!TakeEffect(r) \/ UNCHANGED Atomic!vars
    <2>0. /\ pc[r] = "load" /\ pc' = [pc EXCEPT ![r] = "write"]
          /\ loaded' = [loaded EXCEPT ![r] = progress]
          /\ UNCHANGED <<document, progress, op>>
      BY <1>2 DEF Load, Goto
    <2>1. States' = [States EXCEPT ![r] = StateOf(r)']
      BY <1>0, <2>0, OneMoves DEF TypeOK
    <2>2. /\ StateOf(r) = "arrived"
          /\ StateOf(r)' = IF SetBefore(r)' THEN "effective" ELSE "arrived"
      BY <1>0, <2>0, StateByLabel, StateByNextLabel DEF TypeOK
    <2>3. CASE SetBefore(r)'
      <3>1. Present(progress) /\ Assigned(op[r], progress) = progress
        BY <1>0, <2>0, <2>3 DEF SetBefore, TypeOK
      <3>2. document /\ op[r] \in Ops \ {"none"} /\ progress \in Progress
        BY <1>0, <2>0, <3>1 DEF Sessions, TypeOK
      <3>3. progress' = Atomic!Effect(op[r], progress)
        BY <2>0, <3>1, <3>2, AssignedIsEffect
      <3>4. QED BY <2>0, <2>1, <2>2, <2>3, <3>2, <3>3
            DEF Atomic!TakeEffect, Atomic!Enter, States
    <2>4. CASE ~SetBefore(r)'
      <3>1. States' = States
        BY <2>1, <2>2, <2>4 DEF States
      <3>2. QED BY <2>0, <3>1 DEF Atomic!vars, States
    <2>5. QED BY <2>3, <2>4
  <1>3. ASSUME NEW r \in Requests, Write(r)
        PROVE  \/ Atomic!TakeEffect(r) \/ Atomic!Forsake({r}) \/ UNCHANGED Atomic!vars
    <2>0. pc[r] = "write" /\ UNCHANGED <<document, op, loaded>>
      BY <1>3 DEF Write
    <2>1. StateOf(r) = IF SetBefore(r) THEN "effective" ELSE "arrived"
      BY <1>0, <2>0, StateByLabel
    <2>2. CASE Goto(r, "refresh")
      <3>1. pc' = [pc EXCEPT ![r] = "refresh"] /\ pc'[r] = "refresh"
        BY <1>0, <2>2 DEF Goto
      <3>2. States' = [States EXCEPT ![r] = StateOf(r)'] /\ StateOf(r)' = "effective"
        BY <1>0, <2>0, <3>1, OneMoves, StateByNextLabel
      <3>3. CASE SetBefore(r)
        <4>1. progress' = progress
          BY <1>0, <1>3, <2>2, <3>3, WriteTakesEffect
        <4>2. States' = States
          BY <2>1, <3>2, <3>3 DEF States
        <4>3. QED BY <2>0, <4>1, <4>2 DEF Atomic!vars, States
      <3>4. CASE ~SetBefore(r)
        <4>1. document /\ progress' = Atomic!Effect(op[r], progress)
          BY <1>0, <1>3, <2>2, <3>4, WriteTakesEffect
        <4>2. QED BY <2>0, <2>1, <3>2, <3>4, <4>1
              DEF Atomic!TakeEffect, Atomic!Enter, States
      <3>5. QED BY <3>3, <3>4
    <2>3. CASE Goto(r, "failed") /\ UNCHANGED progress
      <3>1. pc' = [pc EXCEPT ![r] = "failed"] /\ pc'[r] = "failed"
        BY <1>0, <2>3 DEF Goto
      <3>2. States' = [States EXCEPT ![r] = "unanswered"]
        BY <1>0, <2>0, <3>1, OneMoves, StateByNextLabel
      <3>3. QED BY <2>0, <2>1, <2>3, <3>2 DEF Atomic!Forsake, States
    <2>4. QED BY <1>3, <2>2, <2>3 DEF Write
  <1>4. ASSUME NEW r \in Requests, Refresh(r)
        PROVE  Atomic!Acknowledge(r) \/ Atomic!Forsake({r})
    <2>0. pc[r] = "refresh" /\ UNCHANGED <<document, progress, op, loaded>>
      BY <1>4 DEF Refresh
    <2>1. StateOf(r) = "effective"
      BY <1>0, <2>0, StateByLabel
    <2>2. CASE Goto(r, "ok")
      <3>1. pc' = [pc EXCEPT ![r] = "ok"] /\ pc'[r] = "ok"
        BY <1>0, <2>2 DEF Goto
      <3>2. States' = [States EXCEPT ![r] = "acknowledged"]
        BY <1>0, <2>0, <3>1, OneMoves, StateByNextLabel
      <3>3. QED BY <2>0, <2>1, <3>2 DEF Atomic!Acknowledge, Atomic!Enter, States
    <2>3. CASE Goto(r, "failed")
      <3>1. pc' = [pc EXCEPT ![r] = "failed"] /\ pc'[r] = "failed"
        BY <1>0, <2>3 DEF Goto
      <3>2. States' = [States EXCEPT ![r] = "unanswered"]
        BY <1>0, <2>0, <3>1, OneMoves, StateByNextLabel
      <3>3. QED BY <2>0, <2>1, <3>2 DEF Atomic!Forsake, States
    <2>4. QED BY <1>4, <2>2, <2>3 DEF Refresh
  <1>5. ASSUME Delete PROVE Atomic!Delete
    <2>1. States' = States
      BY <1>5 DEF Delete, States, StateOf, SetBefore
    <2>2. QED BY <1>5, <2>1 DEF Delete, NoProgress, Atomic!Delete, Atomic!Unseen, States
  <1>6. ASSUME Crash PROVE \E rs \in SUBSET Requests : Atomic!Forsake(rs)
    <2> DEFINE rs == {r \in Requests : pc[r] \in {"load", "write", "refresh"}}
    <2>1. \A r \in rs : StateOf(r) \in {"arrived", "effective"} /\ StateOf(r)' = "unanswered"
      BY <1>0, <1>6, StateByLabel, StateByNextLabel DEF Crash
    <2>2. \A r \in Requests \ rs : StateOf(r)' = StateOf(r)
      BY <1>0, <1>6 DEF Crash, StateOf, SetBefore
    <2>3. Atomic!Forsake(rs)
      BY <1>6, <2>1, <2>2 DEF Crash, Atomic!Forsake
    <2>4. QED BY <2>3
  <1>7. CASE UNCHANGED vars
    BY <1>7 DEF vars, Atomic!vars, StateOf, SetBefore
  <1>8. QED BY <1>1, <1>2, <1>3, <1>4, <1>5, <1>6, <1>7 DEF Next, Atomic!Next

\* Reviews and PUTs of a document's progress are atomic: LearningProgress
\* implements AtomicProgress, in which each takes effect at one instant, on the
\* record as it is then, and an acknowledged one exactly once.
THEOREM ProgressIsAtomic == Spec => RequestsAreAtomic
  <1>1. Init => Atomic!Init
    <2> SUFFICES ASSUME Init PROVE Atomic!Init
      OBVIOUS
    <2>1. \A r \in Requests : StateOf(r) = "new"
      BY DEF Init, StateOf, SetBefore
    <2>2. QED BY <2>1 DEF Init, Atomic!Init, Atomic!Unseen, NoProgress
  <1>2. QED BY <1>1, AtomicStep, CountInitially, CountStep, PTL
        DEF Spec, RequestsAreAtomic, Atomic!Spec
=============================================================================

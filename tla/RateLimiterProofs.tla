-------------------------- MODULE RateLimiterProofs --------------------------
(***************************************************************************)
(* Proofs about RateLimiter: for any number of requests, clients and       *)
(* threads and any limit, window and table size, what a client can do past *)
(* its limit is bounded by the threads, and nobody is refused for less.    *)
(***************************************************************************)
EXTENDS RateLimiter, FiniteSetTheorems, SequenceTheorems, TLAPS

\* The types the counting needs; the order of the keys plays no part in it.
CountTypes ==
    /\ failures \in [Clients -> SUBSET Requests]
    /\ age \in [Requests -> 0 .. Window]
    /\ forgotten \subseteq Requests
    /\ pc \in [Requests -> PCs]
    /\ client \in [Requests -> Clients \cup {NoClient}]

\* What the limiter keeps of a client and still counts is what the client was
\* rejected for, no more and no less.
Accounted ==
    /\ \A c \in Clients : ActiveFailures(c) = Rejections(c)
    /\ \A c \in Clients : \A r \in failures[c] :
          pc[r] = "rejected" /\ client[r] = c /\ r \notin forgotten
    /\ \A r \in forgotten : pc[r] = "rejected"
    /\ \A r \in Requests : pc[r] # "new" => client[r] \in Clients

Busy == {r \in Requests : pc[r] \in Running}
LetThrough(c) ==
    {r \in Requests : pc[r] \in {"attempt", "record"} /\ client[r] = c}

\* The requests that count against a client or soon may.
Charged(c) == Rejections(c) \cup LetThrough(c)

Bounded ==
    /\ Cardinality(Busy) <= Threads
    /\ \A c \in Clients : Cardinality(Charged(c)) < MaxAttempts + Threads

LimiterInv == CountTypes /\ Accounted /\ Bounded

\* Sets of requests are finite, and a subset has no more elements.
LEMMA RequestSets ==
    ASSUME NEW S, NEW T \in SUBSET Requests, S \subseteq T
    PROVE  /\ IsFiniteSet(T) /\ Cardinality(T) \in Nat
           /\ Cardinality(S) \in Nat /\ Cardinality(S) <= Cardinality(T)
<1>1. IsFiniteSet(Requests)
  BY LimiterAssumption
<1>2. IsFiniteSet(T)
  BY <1>1, FS_Subset
<1>3. QED
  BY <1>2, FS_Subset, FS_CardinalityType

LEMMA Constants ==
    /\ Threads \in Nat /\ MaxAttempts \in Nat /\ MaxAttempts > 0
    /\ Window \in Nat /\ Window > 0
BY LimiterAssumption

\* What record_failure does to the failures, whichever key is evicted.
LEMMA RecordFailures ==
    ASSUME NEW r \in Requests, Record(r)
    PROVE  \E evicted :
        /\ failures' = [k \in Clients |->
                           IF k = client[r] THEN ActiveFailures(k) \cup {r}
                           ELSE IF k \in evicted THEN {} ELSE failures[k]]
        /\ forgotten' = forgotten \cup UNION {failures[k] : k \in evicted}
        /\ evicted \subseteq Clients \ {client[r]}
        /\ pc[r] = "record" /\ pc' = [pc EXCEPT ![r] = "rejected"]
        /\ age' = [age EXCEPT ![r] = 0] /\ client' = client
<1> DEFINE keys == KeysAfterPrune(client[r])
           evicted == {k \in Clients \ {client[r]} :
                          TableFull(keys, client[r]) /\ k = Head(keys)}
<1> WITNESS evicted
<1>1. failures' = [k \in Clients |->
                     IF k = client[r] THEN ActiveFailures(k) \cup {r}
                     ELSE IF k \in evicted THEN {} ELSE failures[k]]
  BY Zenon DEF Record, WithFailure
<1>2. QED
  BY <1>1 DEF Record, Goto

LEMMA LimiterInit == Init => LimiterInv
<1> SUFFICES ASSUME Init PROVE LimiterInv
  OBVIOUS
<1>1. CountTypes
  BY LimiterAssumption DEF Init, CountTypes, PCs
<1>2. Accounted
  <2>1. \A c \in Clients : ActiveFailures(c) = {} /\ Rejections(c) = {}
    BY DEF Init, ActiveFailures, Rejections
  <2>2. QED
    BY <2>1 DEF Init, Accounted
<1>3. Busy = {} /\ \A c \in Clients : Charged(c) = {}
  BY DEF Init, Busy, Charged, Rejections, LetThrough, Running
<1>4. QED
  BY <1>1, <1>2, <1>3, FS_EmptySet, LimiterAssumption DEF LimiterInv, Bounded

LEMMA LimiterTypesStep == CountTypes /\ Accounted /\ [Next]_vars => CountTypes'
<1> USE DEF PCs, Running, Goto
<1> SUFFICES ASSUME CountTypes, Accounted, [Next]_vars PROVE CountTypes'
  OBVIOUS
<1>1. ASSUME NEW r \in Requests, Arrive(r) PROVE CountTypes'
  BY <1>1 DEF Arrive, CountTypes
<1>2. ASSUME NEW r \in Requests, Check(r) PROVE CountTypes'
  BY <1>2 DEF Check, ActiveFailures, CountTypes
<1>3. ASSUME NEW r \in Requests, Attempt(r) PROVE CountTypes'
  BY <1>3 DEF Attempt, CountTypes
<1>4. ASSUME NEW r \in Requests, Record(r) PROVE CountTypes'
  <2>1. failures' \in [Clients -> SUBSET Requests] /\ forgotten' \subseteq Requests
    BY <1>4, RecordFailures DEF ActiveFailures, CountTypes
  <2>2. QED
    BY <1>4, <2>1, LimiterAssumption DEF Record, CountTypes
<1>5. ASSUME NEW r \in Requests, Reset(r) PROVE CountTypes'
  BY <1>5 DEF Reset, CountTypes, Accounted
<1>6. CASE Tick
  BY <1>6, LimiterAssumption DEF Tick, Recent, CountTypes
<1>7. CASE UNCHANGED vars
  BY <1>7 DEF vars, CountTypes
<1>8. QED
  BY <1>1, <1>2, <1>3, <1>4, <1>5, <1>6, <1>7 DEF Next

LEMMA AccountedStep == CountTypes /\ Accounted /\ [Next]_vars => Accounted'
<1> USE DEF PCs, Running, Goto
<1> SUFFICES ASSUME CountTypes, Accounted, [Next]_vars PROVE Accounted'
  OBVIOUS
<1>1. ASSUME NEW r \in Requests, Arrive(r) PROVE Accounted'
  BY <1>1 DEF Arrive, CountTypes, Accounted, ActiveFailures, Rejections, Recent
<1>2. ASSUME NEW r \in Requests, Check(r) PROVE Accounted'
  BY <1>2 DEF Check, CountTypes, Accounted, ActiveFailures, Rejections, Recent
<1>3. ASSUME NEW r \in Requests, Attempt(r) PROVE Accounted'
  BY <1>3 DEF Attempt, CountTypes, Accounted, ActiveFailures, Rejections, Recent
<1>4. ASSUME NEW r \in Requests, Record(r) PROVE Accounted'
  BY <1>4, RecordFailures, Constants DEF CountTypes, Accounted, ActiveFailures,
      Rejections, Recent
<1>5. ASSUME NEW r \in Requests, Reset(r) PROVE Accounted'
  BY <1>5 DEF Reset, CountTypes, Accounted, ActiveFailures, Rejections, Recent
<1>6. CASE Tick
  BY <1>6 DEF Tick, CountTypes, Accounted, ActiveFailures, Rejections, Recent
<1>7. CASE UNCHANGED vars
  BY <1>7 DEF vars, Accounted, ActiveFailures, Rejections, Recent
<1>8. QED
  BY <1>1, <1>2, <1>3, <1>4, <1>5, <1>6, <1>7 DEF Next

\* Only Check adds to what a client is charged with, and it does so when the
\* rejections are below the limit; the others let through run by then.
LEMMA BoundedStep == LimiterInv /\ [Next]_vars => Bounded'
<1> USE DEF PCs, Running, Goto
<1> SUFFICES ASSUME CountTypes, Accounted, Bounded, [Next]_vars PROVE Bounded'
  BY DEF LimiterInv
<1>1. ASSUME Busy' \subseteq Busy, \A c \in Clients : Charged(c)' \subseteq Charged(c)
      PROVE  Bounded'
  <2>1. Busy \in SUBSET Requests /\ \A c \in Clients : Charged(c) \in SUBSET Requests
    BY DEF Busy, Charged, Rejections, LetThrough
  <2>2. QED
    BY <1>1, <2>1, RequestSets, LimiterAssumption DEF Bounded
<1>2. ASSUME NEW r \in Requests, Arrive(r) PROVE Bounded'
  <2>1. Busy' = Busy \cup {r} /\ Cardinality(Busy) < Threads
    BY <1>2 DEF Arrive, Busy, CountTypes
  <2>2. IsFiniteSet(Busy) /\ Cardinality(Busy) \in Nat
    BY RequestSets DEF Busy
  <2>3. Cardinality(Busy') <= Threads
    BY <2>1, <2>2, FS_AddElement, Constants
  <2>4. \A c \in Clients : Charged(c)' = Charged(c)
    BY <1>2 DEF Arrive, Charged, Rejections, LetThrough, Recent, CountTypes, Accounted
  <2>5. QED
    BY <2>3, <2>4 DEF Bounded
<1>3. ASSUME NEW r \in Requests, Check(r) PROVE Bounded'
  <2> PICK c \in Clients : c = client[r]
    BY <1>3 DEF Check, Accounted, CountTypes
  <2>1. Busy' \subseteq Busy
    BY <1>3 DEF Check, Busy, CountTypes
  <2>2. CASE pc'[r] = "refused"
    <3>1. \A k \in Clients : Charged(k)' \subseteq Charged(k)
      BY <1>3, <2>2 DEF Check, Charged, Rejections, LetThrough, Recent, CountTypes
    <3>2. QED
      BY <2>1, <3>1, <1>1
  <2>3. CASE pc'[r] = "attempt"
    <3>1. c \in Clients /\ ~(Cardinality(Rejections(c)) >= MaxAttempts)
      BY <1>3, <2>3 DEF Check, Accounted, CountTypes
    <3>2. Rejections(c)' \subseteq Rejections(c) /\ LetThrough(c)' \subseteq Busy
      BY <1>3, <2>3, <3>1 DEF Check, Rejections, LetThrough, Busy, Recent, CountTypes
    <3>3. /\ IsFiniteSet(Rejections(c)') /\ Cardinality(Rejections(c)') \in Nat
          /\ Cardinality(Rejections(c)') < MaxAttempts
      <4>1. Rejections(c) \in SUBSET Requests /\ Rejections(c)' \in SUBSET Requests
        BY DEF Rejections
      <4>2. QED
        BY <3>1, <3>2, <4>1, RequestSets, LimiterAssumption
    <3>4. /\ IsFiniteSet(LetThrough(c)') /\ Cardinality(LetThrough(c)') \in Nat
          /\ Cardinality(LetThrough(c)') <= Threads
      <4>1. Busy \in SUBSET Requests /\ LetThrough(c)' \in SUBSET Requests
        BY DEF Busy, LetThrough
      <4>2. QED
        BY <3>2, <4>1, RequestSets, LimiterAssumption DEF Bounded
    <3>5. Cardinality(Charged(c)') < MaxAttempts + Threads
      <4>1. Cardinality(Rejections(c)' \cap LetThrough(c)') \in Nat
        BY <3>3, FS_Intersection, FS_CardinalityType
      <4>2. Charged(c)' = Rejections(c)' \cup LetThrough(c)'
        BY DEF Charged
      <4>3. QED
        BY <3>3, <3>4, <4>1, <4>2, FS_Union, LimiterAssumption
    <3>6. \A k \in Clients \ {c} : Charged(k)' \subseteq Charged(k)
      BY <1>3, <2>3 DEF Check, Charged, Rejections, LetThrough, Recent, CountTypes
    <3>7. \A k \in Clients \ {c} : Cardinality(Charged(k)') < MaxAttempts + Threads
      <4>1. \A k \in Clients : Charged(k) \in SUBSET Requests
        BY DEF Charged, Rejections, LetThrough
      <4>2. QED
        BY <3>6, <4>1, RequestSets, LimiterAssumption DEF Bounded
    <3>8. Cardinality(Busy') <= Threads
      <4>1. Busy \in SUBSET Requests
        BY DEF Busy
      <4>2. QED
        BY <2>1, <4>1, RequestSets, LimiterAssumption DEF Bounded
    <3>9. QED
      BY <3>5, <3>7, <3>8 DEF Bounded
  <2>4. QED
    BY <1>3, <2>2, <2>3 DEF Check, CountTypes
<1>4. ASSUME NEW r \in Requests, Attempt(r) \/ Record(r) \/ Reset(r) PROVE Bounded'
  <2>1. Busy' \subseteq Busy
    BY <1>4 DEF Attempt, Record, Reset, Busy, CountTypes
  <2>2. \A c \in Clients : Charged(c)' \subseteq Charged(c)
    BY <1>4 DEF Attempt, Record, Reset, Charged, Rejections, LetThrough, Recent,
        CountTypes
  <2>3. QED
    BY <2>1, <2>2, <1>1
<1>5. CASE Tick
  <2>1. Busy' \subseteq Busy
    BY <1>5 DEF Tick, Busy
  <2>2. \A c \in Clients : Charged(c)' \subseteq Charged(c)
    BY <1>5, LimiterAssumption DEF Tick, Charged, Rejections, LetThrough, Recent, CountTypes
  <2>3. QED
    BY <2>1, <2>2, <1>1
<1>6. CASE UNCHANGED vars
  BY <1>6 DEF vars, Bounded, Busy, Charged, Rejections, LetThrough, Recent
<1>7. QED
  BY <1>2, <1>3, <1>4, <1>5, <1>6 DEF Next

\* The conjunction is inductive.
THEOREM LimiterInvariant == Spec => []LimiterInv
<1>1. LimiterInv /\ [Next]_vars => LimiterInv'
  BY LimiterTypesStep, AccountedStep, BoundedStep DEF LimiterInv
<1>2. QED
  BY LimiterInit, <1>1, PTL DEF Spec

\* Requests that are checked before the others' failures are recorded (auth.py,
\* is_blocked and record_failure) get a client past its limit by fewer than
\* there are threads.
THEOREM OvershootIsBounded == Spec => []OvershootBounded
<1>1. LimiterInv => OvershootBounded
  <2> SUFFICES ASSUME LimiterInv, NEW c \in Clients
               PROVE  Cardinality(Rejections(c)) < MaxAttempts + Threads
    BY DEF OvershootBounded
  <2>1. Rejections(c) \subseteq Charged(c) /\ Charged(c) \in SUBSET Requests
    BY DEF Charged, Rejections, LetThrough
  <2>2. QED
    BY <2>1, RequestSets, LimiterAssumption DEF LimiterInv, Bounded
<1>2. QED
  BY <1>1, LimiterInvariant, PTL

\* A 429 answers a client that has used up its attempts within the window.
THEOREM RefusalsHaveCause == Spec => RefusedForCause
<1> DEFINE Caused == \A r \in Requests :
       pc[r] # "refused" /\ pc'[r] = "refused"
           => Cardinality(Rejections(client[r])) >= MaxAttempts
<1>1. LimiterInv /\ [Next]_vars => [Caused]_vars
  <2> SUFFICES ASSUME CountTypes, Accounted, Next PROVE Caused
    BY DEF LimiterInv
  <2>1. ASSUME NEW r \in Requests, Check(r) PROVE Caused
    BY <2>1 DEF Check, Goto, Accounted, CountTypes
  <2>2. ASSUME NEW r \in Requests,
               Arrive(r) \/ Attempt(r) \/ Record(r) \/ Reset(r)
        PROVE  Caused
    BY <2>2 DEF Arrive, Attempt, Record, Reset, Goto, CountTypes
  <2>3. CASE Tick
    BY <2>3 DEF Tick
  <2>4. QED
    BY <2>1, <2>2, <2>3 DEF Next
<1>2. QED
  BY <1>1, LimiterInvariant, PTL DEF Spec, RefusedForCause

-----------------------------------------------------------------------------
(* The table of clients.                                                   *)

Distinct(keys) == \A i, j \in 1 .. Len(keys) : keys[i] = keys[j] => i = j

\* Popping a key takes it and nothing else out of a dict, and a key the dict
\* does not hold changes nothing.
LEMMA PopKey ==
    ASSUME NEW keys \in Seq(Clients), NEW c \in Clients, Distinct(keys)
    PROVE  /\ RemoveFirst(keys, c) \in Seq(Clients)
           /\ Len(RemoveFirst(keys, c)) <= Len(keys)
           /\ Distinct(RemoveFirst(keys, c))
           /\ \A k \in Clients :
                 Contains(RemoveFirst(keys, c), k) <=> Contains(keys, k) /\ k # c
<1>1. CASE ~ \E i \in 1 .. Len(keys) : keys[i] = c
  <2>1. RemoveFirst(keys, c) = keys
    BY <1>1 DEF RemoveFirst
  <2>2. QED
    BY <1>1, <2>1 DEF Contains
<1>2. ASSUME NEW i \in 1 .. Len(keys), keys[i] = c
      PROVE  /\ RemoveFirst(keys, c) \in Seq(Clients)
             /\ Len(RemoveFirst(keys, c)) <= Len(keys)
             /\ Distinct(RemoveFirst(keys, c))
             /\ \A k \in Clients :
                   Contains(RemoveFirst(keys, c), k) <=> Contains(keys, k) /\ k # c
  <2> DEFINE kept == [j \in 1 .. Len(keys) - 1 |-> IF j < i THEN keys[j] ELSE keys[j + 1]]
  <2>1. {j \in 1 .. Len(keys) : keys[j] = c} = {i}
    BY <1>2 DEF Distinct
  <2>2. SelectInSeq(keys, LAMBDA v : v = c) = i
    BY <2>1 DEF SelectInSeq, Min
  <2>3. RemoveFirst(keys, c) = SubSeq(keys, 1, i - 1) \o SubSeq(keys, i + 1, Len(keys))
    BY <1>2, <2>2 DEF RemoveFirst, RemoveAt
  <2>4. RemoveFirst(keys, c) = kept
    <3> DEFINE head == SubSeq(keys, 1, i - 1)
               tail == SubSeq(keys, i + 1, Len(keys))
    <3>1. /\ head \in Seq(Clients) /\ Len(head) = i - 1
          /\ \A j \in 1 .. i - 1 : head[j] = keys[j]
      OBVIOUS
    <3>2. /\ tail \in Seq(Clients) /\ Len(tail) = Len(keys) - i
          /\ \A j \in 1 .. Len(keys) - i : tail[j] = keys[j + i]
      BY SubSeqProperties
    <3> HIDE DEF head, tail
    <3>3. /\ head \o tail \in Seq(Clients) /\ Len(head \o tail) = Len(keys) - 1
          /\ \A j \in 1 .. Len(keys) - 1 : (head \o tail)[j] = kept[j]
      <4>1. /\ head \o tail \in Seq(Clients) /\ Len(head \o tail) = Len(keys) - 1
            /\ \A j \in 1 .. Len(keys) - 1 :
                  (head \o tail)[j] = IF j <= i - 1 THEN head[j] ELSE tail[j - (i - 1)]
        <5>1. /\ head \o tail \in Seq(Clients) /\ Len(head \o tail) = Len(head) + Len(tail)
              /\ \A j \in 1 .. Len(head) + Len(tail) :
                    (head \o tail)[j] = IF j <= Len(head) THEN head[j]
                                       ELSE tail[j - Len(head)]
          BY <3>1, <3>2, ConcatProperties
        <5>2. i \in Nat /\ Len(keys) \in Nat /\ Len(head) + Len(tail) = Len(keys) - 1
          BY <3>1, <3>2
        <5>3. QED
          BY <3>1, <5>1, <5>2
      <4>2. ASSUME NEW j \in 1 .. Len(keys) - 1 PROVE (head \o tail)[j] = kept[j]
        BY <3>1, <3>2, <4>1
      <4>3. QED
        BY <4>1, <4>2
    <3>4. kept \in Seq(Clients) /\ Len(kept) = Len(keys) - 1
      OBVIOUS
    <3> HIDE DEF kept
    <3>5. head \o tail = kept
      BY <3>3, <3>4, SeqEqual
    <3>6. QED
      BY <2>3, <3>5 DEF head, tail
  <2>5. kept \in Seq(Clients) /\ Len(kept) = Len(keys) - 1
    OBVIOUS
  <2>6. Distinct(kept)
    BY DEF Distinct
  <2>7. ASSUME NEW k \in Clients PROVE Contains(kept, k) <=> Contains(keys, k) /\ k # c
    <3>1. ASSUME NEW j \in 1 .. Len(kept) PROVE kept[j] = k => Contains(keys, k) /\ k # c
      BY <1>2 DEF Contains, Distinct
    <3>2. ASSUME NEW j \in 1 .. Len(keys), keys[j] = k, k # c PROVE Contains(kept, k)
      <4>1. CASE j < i
        BY <3>2, <4>1, <2>5 DEF Contains
      <4>2. CASE j > i
        <5>1. j - 1 \in 1 .. Len(kept) /\ kept[j - 1] = k
          BY <3>2, <4>2, <2>5
        <5>2. QED
          BY <5>1 DEF Contains
      <4>3. QED
        BY <1>2, <3>2, <4>1, <4>2
    <3>3. QED
      BY <3>1, <3>2 DEF Contains
  <2>8. QED
    BY <2>4, <2>5, <2>6, <2>7
<1>3. QED
  BY <1>1, <1>2

\* Adding a new key, after the oldest one if the dict is full, keeps it within
\* its size.
LEMMA AddKey ==
    ASSUME NEW keys \in Seq(Clients), NEW c \in Clients, Distinct(keys),
           Len(keys) <= MaxTracked, ~Contains(keys, c),
           NEW kept, kept = IF TableFull(keys, c) THEN Tail(keys) ELSE keys
    PROVE  /\ Append(kept, c) \in Seq(Clients)
           /\ Len(Append(kept, c)) <= MaxTracked
           /\ Distinct(Append(kept, c))
           /\ \A k \in Clients :
                 Contains(Append(kept, c), k) <=>
                    k = c \/ (Contains(keys, k) /\ ~(TableFull(keys, c) /\ k = Head(keys)))
<1>0. MaxTracked \in Nat /\ MaxTracked > 0
  BY LimiterAssumption
<1>1. CASE ~TableFull(keys, c)
  <2>1. kept = keys /\ Len(keys) < MaxTracked
    BY <1>0, <1>1 DEF TableFull
  <2>2. /\ Append(keys, c) \in Seq(Clients) /\ Len(keys) \in Nat
        /\ Len(Append(keys, c)) = Len(keys) + 1 /\ Append(keys, c)[Len(keys) + 1] = c
        /\ \A j \in 1 .. Len(keys) : Append(keys, c)[j] = keys[j]
    OBVIOUS
  <2>3. Len(Append(keys, c)) <= MaxTracked
    BY <1>0, <2>1, <2>2
  <2>4. Distinct(Append(keys, c))
    BY <2>2 DEF Contains, Distinct
  <2>5. \A k \in Clients : Contains(Append(keys, c), k) <=> k = c \/ Contains(keys, k)
    BY <2>2 DEF Contains
  <2>6. QED
    BY <1>1, <2>1, <2>2, <2>3, <2>4, <2>5
<1>2. CASE TableFull(keys, c)
  <2>1. keys # <<>> /\ kept = Tail(keys) /\ Len(keys) = MaxTracked
    BY <1>0, <1>2 DEF TableFull
  <2>2. /\ kept \in Seq(Clients) /\ Len(kept) = Len(keys) - 1
        /\ \A j \in 1 .. Len(kept) : kept[j] = keys[j + 1]
        /\ Head(keys) = keys[1] /\ Len(keys) \in Nat /\ Len(keys) > 0
    BY <2>1
  <2>3. /\ Append(kept, c) \in Seq(Clients) /\ Len(Append(kept, c)) = Len(keys)
        /\ \A j \in 1 .. Len(kept) : Append(kept, c)[j] = keys[j + 1]
        /\ Append(kept, c)[Len(keys)] = c
    BY <2>2
  <2>4. Distinct(Append(kept, c))
    BY <2>2, <2>3 DEF Distinct, Contains
  <2>5. ASSUME NEW k \in Clients
        PROVE  Contains(Append(kept, c), k) <=> k = c \/ (Contains(keys, k) /\ k # Head(keys))
    <3>1. Contains(Append(kept, c), k) => k = c \/ (Contains(keys, k) /\ k # Head(keys))
      BY <2>2, <2>3 DEF Distinct, Contains
    <3>2. Contains(Append(kept, c), c)
      BY <2>2, <2>3 DEF Contains
    <3>3. ASSUME NEW j \in 1 .. Len(keys), keys[j] = k, k # Head(keys)
          PROVE  Contains(Append(kept, c), k)
      <4>1. j - 1 \in 1 .. Len(kept) /\ Append(kept, c)[j - 1] = k
        BY <2>2, <2>3, <3>3
      <4>2. j - 1 \in 1 .. Len(Append(kept, c))
        BY <4>1, <2>2, <2>3
      <4>3. QED
        BY <4>1, <4>2 DEF Contains
    <3>4. QED
      BY <3>1, <3>2, <3>3 DEF Contains
  <2>6. QED
    BY <1>2, <2>1, <2>3, <2>4, <2>5
<1>3. QED
  BY <1>1, <1>2

\* The table of keys and the failures kept for them are two structures the
\* methods of the limiter change together.
TableInv == tracked \in Seq(Clients) /\ TableBounded

\* What is left of the table once a client's list has been pruned.
LEMMA PrunedTable ==
    ASSUME CountTypes, TableInv, NEW c \in Clients
    PROVE  LET keys == KeysAfterPrune(c)
           IN  /\ keys \in Seq(Clients) /\ Len(keys) <= MaxTracked /\ Distinct(keys)
               /\ \A k \in Clients :
                     Contains(keys, k) <=>
                        IF k = c THEN ActiveFailures(c) # {} ELSE failures[k] # {}
<1>0. MaxTracked \in Nat /\ Len(tracked) \in Nat
  BY LimiterAssumption DEF TableInv
<1>1. /\ Distinct(tracked) /\ Len(tracked) <= MaxTracked
      /\ \A k \in Clients : Contains(tracked, k) <=> failures[k] # {}
  BY DEF TableInv, TableBounded, Distinct
<1>2. ActiveFailures(c) # {} => failures[c] # {}
  BY DEF ActiveFailures
<1>3. CASE ActiveFailures(c) = {}
  <2>1. KeysAfterPrune(c) = RemoveFirst(tracked, c)
    BY <1>3 DEF KeysAfterPrune
  <2>2. /\ RemoveFirst(tracked, c) \in Seq(Clients)
        /\ Len(RemoveFirst(tracked, c)) <= Len(tracked)
        /\ Distinct(RemoveFirst(tracked, c))
        /\ \A k \in Clients :
              Contains(RemoveFirst(tracked, c), k) <=> Contains(tracked, k) /\ k # c
    BY <1>1, PopKey DEF TableInv
  <2>3. Len(RemoveFirst(tracked, c)) <= MaxTracked
    BY <1>0, <1>1, <2>2
  <2>4. QED
    BY <1>1, <1>3, <2>1, <2>2, <2>3
<1>4. CASE ActiveFailures(c) # {}
  BY <1>1, <1>2, <1>4 DEF KeysAfterPrune, TableInv
<1>5. QED
  BY <1>3, <1>4

LEMMA TableStep == CountTypes /\ Accounted /\ TableInv /\ [Next]_vars => TableInv'
<1> SUFFICES ASSUME CountTypes, Accounted, TableInv, [Next]_vars PROVE TableInv'
  OBVIOUS
<1>0. MaxTracked \in Nat
  BY LimiterAssumption
<1>1. ASSUME UNCHANGED <<failures, tracked>> PROVE TableInv'
  BY <1>1 DEF TableInv, TableBounded, Contains
<1>2. ASSUME NEW r \in Requests, Check(r) PROVE TableInv'
  <2> PICK c \in Clients : c = client[r]
    BY <1>2 DEF Check, Accounted, CountTypes
  <2>1. /\ tracked' = KeysAfterPrune(c)
        /\ failures' = [failures EXCEPT ![c] = ActiveFailures(c)]
    BY <1>2 DEF Check
  <2>2. \A k \in Clients : failures'[k] = IF k = c THEN ActiveFailures(c) ELSE failures[k]
    BY <2>1 DEF CountTypes
  <2>3. /\ tracked' \in Seq(Clients) /\ Len(tracked') <= MaxTracked
        /\ Distinct(tracked')
        /\ \A k \in Clients : Contains(tracked', k) <=> failures'[k] # {}
    BY <2>1, <2>2, PrunedTable
  <2>4. QED
    BY <2>3 DEF TableInv, TableBounded, Distinct, Contains
<1>3. ASSUME NEW r \in Requests, Record(r) PROVE TableInv'
  <2> PICK c \in Clients : c = client[r]
    BY <1>3 DEF Record, Accounted, CountTypes
  <2> DEFINE keys == KeysAfterPrune(c)
             kept == IF TableFull(keys, c) THEN Tail(keys) ELSE keys
  <2>1. /\ tracked' = IF Contains(keys, c) THEN keys ELSE Append(kept, c)
        /\ \A k \in Clients :
              failures'[k] = IF k = c THEN WithFailure(c, r)
                             ELSE IF TableFull(keys, c) /\ k = Head(keys) THEN {}
                             ELSE failures[k]
    BY <1>3 DEF Record
  <2>2. /\ keys \in Seq(Clients) /\ Len(keys) <= MaxTracked /\ Distinct(keys)
        /\ \A k \in Clients : k # c => (Contains(keys, k) <=> failures[k] # {})
    BY PrunedTable
  <2>3. WithFailure(c, r) # {}
    BY DEF WithFailure
  <2> HIDE DEF keys
  <2>4. CASE Contains(keys, c)
    BY <2>1, <2>2, <2>3, <2>4
       DEF TableInv, TableBounded, Distinct, Contains, TableFull
  <2>5. CASE ~Contains(keys, c)
    <3>1. tracked' = Append(kept, c)
      BY <2>1, <2>5
    <3>2. /\ Append(kept, c) \in Seq(Clients)
          /\ Len(Append(kept, c)) <= MaxTracked
          /\ Distinct(Append(kept, c))
          /\ \A k \in Clients :
                Contains(Append(kept, c), k) <=>
                   k = c \/ (Contains(keys, k) /\ ~(TableFull(keys, c) /\ k = Head(keys)))
      BY <2>2, <2>5, AddKey
    <3> HIDE DEF kept
    <3>3. \A k \in Clients : Contains(Append(kept, c), k) <=> failures'[k] # {}
      BY <2>1, <2>2, <2>3, <3>2
    <3>4. QED
      BY <3>1, <3>2, <3>3 DEF TableInv, TableBounded, Distinct, Contains
  <2>6. QED
    BY <2>4, <2>5
<1>4. ASSUME NEW r \in Requests, Reset(r) PROVE TableInv'
  <2> PICK c \in Clients : c = client[r]
    BY <1>4 DEF Reset, Accounted, CountTypes
  <2>1. tracked' = RemoveFirst(tracked, c) /\ failures' = [failures EXCEPT ![c] = {}]
    BY <1>4 DEF Reset
  <2>2. /\ Distinct(tracked) /\ Len(tracked) <= MaxTracked
        /\ \A k \in Clients : Contains(tracked, k) <=> failures[k] # {}
    BY DEF TableInv, TableBounded, Distinct
  <2>3. /\ tracked' \in Seq(Clients) /\ Len(tracked') <= Len(tracked)
        /\ Distinct(tracked')
        /\ \A k \in Clients : Contains(tracked', k) <=> Contains(tracked, k) /\ k # c
    BY <2>1, <2>2, PopKey DEF TableInv
  <2>4. \A k \in Clients : Contains(tracked', k) <=> failures'[k] # {}
    BY <2>1, <2>2, <2>3 DEF CountTypes
  <2>5. Len(tracked') <= MaxTracked
    BY <1>0, <2>2, <2>3 DEF TableInv
  <2>6. QED
    BY <2>3, <2>4, <2>5 DEF TableInv, TableBounded, Distinct, Contains
<1>5. QED
  BY <1>1, <1>2, <1>3, <1>4 DEF Next, vars, Arrive, Attempt, Tick

LEMMA TableInvariant == Spec => []TableInv
<1>1. Init => TableInv
  <2>1. Init => tracked = <<>> /\ \A c \in Clients : failures[c] = {}
    BY DEF Init
  <2>2. QED
    BY <2>1, LimiterAssumption DEF TableInv, TableBounded, Contains
<1>2. LimiterInv /\ TableInv /\ [Next]_vars => TableInv'
  BY TableStep DEF LimiterInv
<1>3. QED
  BY <1>1, <1>2, LimiterInvariant, PTL DEF Spec

\* The memory a login limiter takes is bounded: however many clients fail, the
\* dict keeps MAX_TRACKED_LOGIN_KEYS of them, each with at least one failure
\* (auth.py, record_failure and _active_failures).
THEOREM TableStaysBounded == Spec => []TableBounded
<1>1. TableInv => TableBounded
  BY DEF TableInv
<1>2. QED
  BY <1>1, TableInvariant, PTL

\* The state stays well-typed, the order of the keys included.
THEOREM LimiterTypeCorrect == Spec => []TypeOK
<1>1. LimiterInv /\ TableInv => TypeOK
  BY DEF LimiterInv, CountTypes, TableInv, TypeOK
<1>2. QED
  BY <1>1, LimiterInvariant, TableInvariant, PTL
=============================================================================

-------------------------- MODULE TextChunkerProofs --------------------------
(***************************************************************************)
(* Proofs about TextChunker, for texts, chunk sizes and overlaps of any    *)
(* length.                                                                 *)
(***************************************************************************)
EXTENDS TextChunker, TLAPS

LEMMA TypeInitially == Init => TypeOK
  <1> SUFFICES ASSUME Init PROVE TypeOK
    OBVIOUS
  <1>1. length \in Nat /\ spaces \subseteq 1..length
    BY ChunkerAssumption DEF Init, Normalized
  <1>2. spaces \subseteq 0..length /\ 0 \notin spaces
    BY <1>1
  <1>3. start = 0 /\ chunks = {} /\ done = FALSE
    BY DEF Init
  <1>4. start \in 0..length
    BY <1>1, <1>3
  <1>5. QED BY <1>1, <1>2, <1>3, <1>4 DEF TypeOK

LEMMA TypeStep == TypeOK /\ [Next]_vars => TypeOK'
  <1> SUFFICES ASSUME TypeOK, [Next]_vars PROVE TypeOK'
    OBVIOUS
  <1>1. CASE Chunk
    <2>1. PICK e \in 0..length :
              /\ chunks' = chunks \cup {<<start, e>>}
              /\ \/ e = length /\ done' = TRUE /\ UNCHANGED start
                 \/ /\ e < length /\ UNCHANGED done
                    /\ \E t \in 0..length : Skipped(Back(e), t) /\ start' = t
      BY <1>1 DEF Chunk
    <2>2. start' \in 0..length /\ start' \notin spaces
      BY <2>1 DEF TypeOK, Skipped
    <2>3. UNCHANGED <<length, spaces>> /\ done' \in BOOLEAN
      BY <1>1, <2>1 DEF Chunk, TypeOK
    <2>4. chunks' \subseteq (0..length) \X (0..length)
      BY <2>1 DEF TypeOK
    <2>5. QED BY <2>2, <2>3, <2>4 DEF TypeOK
  <1>2. CASE Empty
    BY <1>2 DEF Empty, TypeOK
  <1>3. CASE UNCHANGED vars
    BY <1>3 DEF vars, TypeOK
  <1>4. QED BY <1>1, <1>2, <1>3 DEF Next

\* A chunk that ends at e with start moving on to t holds every phrase that
\* begins in it before t: t is at most the overlap before e, save for spaces.
LEMMA PhraseInChunk ==
  ASSUME NEW e \in Nat, NEW t \in Nat, Skipped(Back(e), t),
         NEW i \in Nat, i < t, i \notin spaces
  PROVE  i + Overlap < e
  <1>1. i < Back(e)
    <2> SUFFICES ASSUME Back(e) <= i PROVE FALSE
      BY ChunkerAssumption DEF Back
    <2>1. i \in Back(e)..(t - 1)
      BY ChunkerAssumption DEF Back
    <2>2. QED BY <2>1 DEF Skipped
  <1>2. QED BY <1>1, ChunkerAssumption DEF Back

LEMMA PhrasesStep == TypeOK /\ PhrasesKept /\ [Next]_vars => PhrasesKept'
  <1> SUFFICES ASSUME TypeOK, PhrasesKept, [Next]_vars,
                      NEW i \in 0..length', i < start' \/ done', i < length', i \notin spaces'
               PROVE  \E c \in chunks' : /\ c[1] <= i
                                         /\ i + Overlap < c[2] \/ c[2] = length'
    BY DEF PhrasesKept
  <1>1. CASE Chunk
    <2>0. ~done /\ UNCHANGED <<length, spaces>>
      BY <1>1 DEF Chunk
    <2>1. PICK e \in 0..length :
              /\ chunks' = chunks \cup {<<start, e>>}
              /\ \/ e = length /\ done' = TRUE /\ UNCHANGED start
                 \/ /\ e < length /\ UNCHANGED done
                    /\ \E t \in 0..length : Skipped(Back(e), t) /\ start' = t
      BY <1>1 DEF Chunk
    <2>2. CASE i < start
      BY <2>0, <2>1, <2>2 DEF PhrasesKept
    <2>3. CASE ~(i < start)
      <3>1. start <= i
        BY <2>3 DEF TypeOK
      <3>2. <<start, e>> \in chunks'
        BY <2>1
      <3>3. i + Overlap < e \/ e = length
        <4>1. CASE e = length
          BY <4>1
        <4>2. CASE e < length /\ UNCHANGED done /\ Skipped(Back(e), start')
          <5>1. i < start' /\ start' \in Nat /\ i \in Nat /\ e \in Nat
            BY <2>0, <2>1, <4>2, TypeStep DEF TypeOK
          <5>2. QED BY <2>0, <4>2, <5>1, PhraseInChunk
        <4>3. QED BY <2>1, <4>1, <4>2
      <3>4. QED BY <2>0, <3>1, <3>2, <3>3
    <2>4. QED BY <2>2, <2>3
  <1>2. CASE Empty
    BY <1>2 DEF Empty, PhrasesKept, TypeOK
  <1>3. CASE UNCHANGED vars
    BY <1>3 DEF vars, PhrasesKept
  <1>4. QED BY <1>1, <1>2, <1>3 DEF Next

\* The variables keep their types, and a chunk never begins with a space.
THEOREM TypeCorrect == Spec => []TypeOK
  BY TypeInitially, TypeStep, PTL DEF Spec

\* For every text, chunk size and overlap, a phrase of up to one character
\* more than the overlap is whole in some chunk once the loop is past it.
THEOREM NoPhraseTorn == Spec => []PhrasesKept
  <1>1. Init => PhrasesKept
    BY DEF Init, PhrasesKept
  <1>2. QED BY TypeInitially, TypeStep, PhrasesStep, <1>1, PTL DEF Spec

\* A chunk that does not end the text ends more than the overlap after its
\* beginning: on short words there is a space that far in.
LEMMA CutPastOverlap ==
  ASSUME TypeOK, ShortWords, NEW e \in 0..length, Cut(start, e), e < length
  PROVE  start < Back(e)
  <1>1. /\ length \in Nat /\ start \in Nat /\ spaces \subseteq Nat /\ e \in Nat
        /\ MaxCharacters \in Nat /\ Overlap \in Nat /\ Overlap < MaxCharacters
    BY ChunkerAssumption DEF TypeOK
  <1> DEFINE i == start + Overlap + 1
             longest == MaxCharacters - Overlap - 1
             boundary == {b \in spaces : start < b /\ b <= start + MaxCharacters}
  <1>2. /\ start + MaxCharacters < length
        /\ \/ e \in boundary /\ \A b \in boundary : b <= e
           \/ boundary = {}
    BY <1>1 DEF Cut
  <1>3. i \in 0..length /\ i + longest = start + MaxCharacters
    BY <1>1, <1>2
  <1>4. PICK j \in spaces : i <= j /\ j <= i + longest
    BY <1>1, <1>2, <1>3 DEF ShortWords, WordsUpTo
  <1>5. j \in boundary /\ start + Overlap < j
    BY <1>1, <1>3, <1>4
  <1>6. start + Overlap < e
    BY <1>1, <1>2, <1>4, <1>5
  <1>7. QED BY <1>1, <1>6 DEF Back

\* ShortWordsAdvance, for every text: the turn's progress that termination rests
\* on, since start never leaves the text.
THEOREM ShortWordsProgress == Spec => ShortWordsAdvance
  <1>1. TypeOK /\ [Next]_vars => [ShortWords => start < start' \/ done']_vars
    <2> SUFFICES ASSUME TypeOK, Next, ShortWords PROVE start < start' \/ done'
      OBVIOUS
    <2>1. CASE Chunk
      <3>1. PICK e \in 0..length :
                /\ Cut(start, e)
                /\ \/ e = length /\ done' = TRUE
                   \/ e < length /\ \E t \in 0..length : Skipped(Back(e), t) /\ start' = t
        BY <2>1 DEF Chunk
      <3>2. CASE e = length /\ done' = TRUE
        BY <3>2
      <3>3. CASE e < length /\ \E t \in 0..length : Skipped(Back(e), t) /\ start' = t
        <4>1. start < Back(e) /\ Back(e) <= start'
          BY <3>1, <3>3, CutPastOverlap DEF Skipped
        <4>2. /\ start \in Nat /\ start' \in Nat /\ Back(e) \in Nat
          BY <3>3, ChunkerAssumption DEF TypeOK, Back
        <4>3. QED BY <4>1, <4>2
      <3>4. QED BY <3>1, <3>2, <3>3
    <2>2. CASE Empty
      BY <2>2 DEF Empty
    <2>3. QED BY <2>1, <2>2 DEF Next
  <1>2. QED BY <1>1, TypeCorrect, PTL DEF Spec, ShortWordsAdvance
=============================================================================

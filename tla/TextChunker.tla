----------------------------- MODULE TextChunker -----------------------------
(***************************************************************************)
(* chunk_text (text_chunker.py): the loop that cuts a page's text into     *)
(* overlapping chunks.  A text is its length and the positions, from 0, of *)
(* its spaces; no other character matters to the loop.                     *)
(***************************************************************************)
EXTENDS Naturals

CONSTANTS
    MaxCharacters,  \* max_characters (1000)
    Overlap,        \* overlap_characters (150)
    MaxLength,      \* bound on the length of a text
    MaxWord         \* bound on the length of a word

\* What chunk_text demands of its arguments, and bounds that are numbers.
ASSUME ChunkerAssumption ==
    /\ MaxCharacters \in Nat /\ Overlap \in Nat /\ Overlap < MaxCharacters
    /\ MaxLength \in Nat /\ MaxWord \in Nat

VARIABLES
    length, spaces,     \* the normalized text
    start,              \* where the next chunk begins
    chunks,             \* <<start, end>> of every chunk so far
    done                \* chunk_text has returned

vars == <<length, spaces, start, chunks, done>>

\* " ".join(text.split()): single spaces, none at either end.
Normalized(n, S) ==
    /\ S \subseteq 1..n
    /\ \A i \in S : i + 1 < n /\ i + 1 \notin S

WordsUpTo(n, S, longest) ==
    \A i \in 0..n : i + longest < n => \E j \in S : i <= j /\ j <= i + longest

Init ==
    /\ length \in 0..MaxLength
    /\ spaces \in SUBSET (0..MaxLength)
    /\ Normalized(length, spaces) /\ WordsUpTo(length, spaces, MaxWord)
    /\ start = 0 /\ chunks = {} /\ done = FALSE

\* The chunk from s ends at e: the end of the text, the last space within
\* max_characters, or, where there is none, after max_characters.
Cut(s, e) ==
    LET limit == s + MaxCharacters
        boundary == {b \in spaces : s < b /\ b <= limit}
    IN  \/ limit >= length /\ e = length
        \/ limit < length /\ e \in boundary /\ \A b \in boundary : b <= e
        \/ limit < length /\ boundary = {} /\ e = limit

\* Mutated form: the next chunk begins one character too late.
BackTooLittle(e) == IF e + 1 > Overlap THEN (e + 1) - Overlap ELSE 0

\* Mutated form: the overlap is taken twice.
BackTwice(e) == IF e > Overlap + Overlap THEN e - (Overlap + Overlap) ELSE 0

Back(e) == IF e > Overlap THEN e - Overlap ELSE 0

\* Mutated form: spaces are not skipped.
NotSkipped(s, t) == s = t

\* The first position from s that is no space is t.
Skipped(s, t) == s <= t /\ t \notin spaces /\ \A i \in s..(t - 1) : i \in spaces

\* One turn of the loop.
Chunk ==
    /\ ~done /\ start < length
    /\ \E e \in 0..length :
        /\ Cut(start, e)
        /\ chunks' = chunks \cup {<<start, e>>}
        /\ \/ e = length /\ done' = TRUE /\ UNCHANGED start
           \/ /\ e < length /\ UNCHANGED done
              /\ \E t \in 0..length : Skipped(Back(e), t) /\ start' = t
    /\ UNCHANGED <<length, spaces>>

\* A text without words has no chunks.
Empty ==
    /\ ~done /\ start >= length
    /\ done' = TRUE
    /\ UNCHANGED <<length, spaces, start, chunks>>

Next == Chunk \/ Empty

Spec == Init /\ [][Next]_vars

\* chunk_text runs until it returns.
FairSpec == Spec /\ WF_vars(Next)

-----------------------------------------------------------------------------
(* Properties.                                                             *)

\* Every variable has its type, and a chunk never begins with a space.
TypeOK ==
    /\ length \in Nat /\ spaces \subseteq 0..length
    /\ start \in 0..length /\ start \notin spaces
    /\ chunks \subseteq (0..length) \X (0..length)
    /\ done \in BOOLEAN

\* What the overlap is for (README.md:19): a phrase of at most one character
\* more than the overlap is never torn apart, some chunk holds all of it.  In
\* particular no character of the text is lost.
PhrasesKept ==
    \A i \in 0..length : (i < start \/ done) /\ i < length /\ i \notin spaces =>
        \E c \in chunks : /\ c[1] <= i
                          /\ i + Overlap < c[2] \/ c[2] = length

\* Every word is shorter than what max_characters leaves beside the overlap.
ShortWords == WordsUpTo(length, spaces, MaxCharacters - Overlap - 1)

\* On short words every next chunk begins after this one: stepping back by the
\* overlap never undoes a turn, wherever the last space within max_characters is.
ShortWordsAdvance == [][ShortWords => start < start' \/ done']_vars

\* On short words chunk_text returns.
ShortWordsTerminate == ShortWords ~> done
=============================================================================

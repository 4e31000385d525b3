---------------------------- MODULE HybridSearch ----------------------------
(***************************************************************************)
(* hybrid_search_document_chunks (api.py): DocumentService fuses the       *)
(* candidates of a full-text and of a semantic query, two statements of    *)
(* one session at READ COMMITTED, and cuts a page out of the result.  A    *)
(* client asks for page after page while documents are processed and       *)
(* deleted.  One query of one owner; how well a chunk matches is fixed.    *)
(*                                                                         *)
(* A list of chunks is the function that gives each of its chunks its      *)
(* rank, from 1, the one enumerate() counts.                               *)
(***************************************************************************)
EXTENDS Naturals, FiniteSets, Functions

CONSTANTS
    Chunks,         \* ids of chunks
    Limit,          \* the page size the client asks for
    Slack,          \* the 20 candidates beyond the page
    Cap,            \* the 100 candidates at most
    RankOffset,     \* the 60 of reciprocal rank fusion
    MaxChanges      \* bound: changes of the data while the client reads

ASSUME SearchAssumption ==
    /\ Chunks \subseteq Nat /\ IsFiniteSet(Chunks)
    /\ {Limit, Slack, Cap, RankOffset} \subseteq Nat \ {0} /\ MaxChanges \in Nat

VARIABLES
    textOrder,      \* the chunks that match the query, the best first
    distanceOrder,  \* the chunks with an embedding, the nearest first
    stored,         \* the chunks there are now
    deleted,        \* the chunks of documents that were deleted
    pc,             \* where the request is
    offset,         \* the offset it asks for
    fullText,       \* the full-text candidates it has read
    semantic,       \* the semantic candidates it has read
    pages,          \* the pages answered so far, by their offset
    total,          \* the total of the last answer
    gone,           \* history: what was deleted when the request was sent
    changes         \* history: how often chunks were stored or deleted

vars == <<textOrder, distanceOrder, stored, deleted, pc, offset, fullText,
          semantic, pages, total, gone, changes>>
orders == <<textOrder, distanceOrder>>
database == <<stored, deleted, changes>>

\* Chunks in any order.
Rankings == UNION {Bijection(S, 1 .. Cardinality(S)) : S \in SUBSET Chunks}
NoList == [c \in {} |-> 0]

Init ==
    /\ textOrder \in Rankings /\ distanceOrder \in Rankings
    /\ \E c \in Chunks : stored \in {Chunks, Chunks \ {c}}
    /\ deleted = {} /\ changes = 0
    /\ pc = "text" /\ offset = 0 /\ gone = {}
    /\ fullText = NoList /\ semantic = NoList
    /\ pages = [at \in {} |-> NoList] /\ total = 0

Least(a, b) == IF a < b THEN a ELSE b

\* The sorted list of the chunks in the domain, where ahead[c] are the ones
\* that sort before c.
Sorted(ahead) == [c \in DOMAIN ahead |-> 1 + Cardinality(ahead[c])]

\* The elements of a sorted list at the ranks in a set.
At(list, ranks) == Restrict(list, {c \in DOMAIN list : list[c] \in ranks})

\* ORDER BY, on the chunks there are.
StoredOf(order) == DOMAIN order \cap stored
SortedBy(order) ==
    Sorted([c \in StoredOf(order) |-> {d \in StoredOf(order) : order[d] < order[c]}])

\* LIMIT n.
FirstOf(order, n) == At(SortedBy(order), 1 .. n)

\* Mutated form: no candidates beyond the page.
PageOnly(at) == Least(Cap, Limit + at)

CandidateLimit(at) == Least(Cap, Limit + at + Slack)

\* Mutated form: a later page uses the candidates of the first.
ReadOnce == IF offset = 0 THEN FirstOf(textOrder, CandidateLimit(offset)) ELSE fullText

TextCandidates == FirstOf(textOrder, CandidateLimit(offset))

\* search_chunks: ordered by ts_rank_cd, from the first match on.
FullText ==
    /\ pc = "text" /\ pc' = "semantic"
    /\ fullText' = TextCandidates
    /\ UNCHANGED <<orders, database, offset, semantic, pages, total, gone>>

SemanticCandidates == FirstOf(distanceOrder, CandidateLimit(offset))

\* semantic_search_chunks: ordered by distance.
Semantic ==
    /\ pc = "semantic" /\ pc' = "fuse"
    /\ semantic' = SemanticCandidates
    /\ UNCHANGED <<orders, database, offset, fullText, pages, total, gone>>

-----------------------------------------------------------------------------
(* Reciprocal rank fusion.                                                 *)

Candidates == DOMAIN fullText \cup DOMAIN semantic

\* Fractions, compared exactly.
Plus(f, g) == [num |-> f.num * g.den + g.num * f.den, den |-> f.den * g.den]
Greater(f, g) == f.num * g.den > g.num * f.den

\* What a list adds to the score of a chunk, 1 / (60 + rank).
Share(list, c) ==
    IF c \in DOMAIN list
    THEN [num |-> 1, den |-> RankOffset + list[c]]
    ELSE [num |-> 0, den |-> 1]

Score(c) == Plus(Share(fullText, c), Share(semantic, c))

\* Mutated form: the lowest score first.
LowestFirst(a, b) == Greater(Score(b), Score(a)) \/ (~Greater(Score(a), Score(b)) /\ a < b)

\* The sort key (-score, id).
Before(a, b) == Greater(Score(a), Score(b)) \/ (~Greater(Score(b), Score(a)) /\ a < b)

Ranked == Sorted([c \in Candidates |-> {d \in Candidates : Before(d, c)}])

\* Mutated form: the slice has no end.
PageToEnd == At(Ranked, offset + 1 .. Cardinality(Candidates))

Page == At(Ranked, offset + 1 .. offset + Limit)

Answer ==
    /\ pc = "fuse" /\ pc' = "answered"
    /\ pages' = [at \in DOMAIN pages \cup {offset} |->
                    IF at = offset THEN Page ELSE pages[at]]
    /\ total' = Cardinality(Candidates)
    /\ UNCHANGED <<orders, database, offset, fullText, semantic, gone>>

-----------------------------------------------------------------------------
(* The client and the rest of the system.                                  *)

\* The client asks on while the total says there is more.
NextPage ==
    /\ pc = "answered" /\ offset + Limit < total
    /\ pc' = "text" /\ offset' = offset + Limit /\ gone' = deleted
    /\ UNCHANGED <<orders, database, fullText, semantic, pages, total>>

Reading == pc # "answered" \/ offset + Limit < total

Change == changes < MaxChanges /\ changes' = changes + 1

\* A worker commits a document with the chunk.
Store(c) ==
    /\ Reading /\ c \notin stored \cup deleted
    /\ stored' = stored \cup {c} /\ Change
    /\ UNCHANGED <<orders, deleted, pc, offset, fullText, semantic, pages, total, gone>>

\* The chunk's document is deleted.
Delete(c) ==
    /\ Reading /\ c \in stored
    /\ stored' = stored \ {c} /\ deleted' = deleted \cup {c} /\ Change
    /\ UNCHANGED <<orders, pc, offset, fullText, semantic, pages, total, gone>>

Next ==
    \/ FullText \/ Semantic \/ Answer \/ NextPage
    \/ \E c \in Chunks : Store(c) \/ Delete(c)

Spec == Init /\ [][Next]_vars

-----------------------------------------------------------------------------
(* Properties.                                                             *)

\* Besides the types: a list has at most the candidates' number of chunks and
\* an answer at most a page of them, each at a rank of its own.
IsList(list, ranks) ==
    DOMAIN list \subseteq Chunks /\ list \in Injection(DOMAIN list, ranks)

TypeOK ==
    /\ IsList(textOrder, Nat) /\ IsList(distanceOrder, Nat)
    /\ stored \subseteq Chunks /\ deleted \subseteq Chunks \ stored
    /\ pc \in {"text", "semantic", "fuse", "answered"}
    /\ offset \in Nat
    /\ IsList(fullText, 1 .. Cap) /\ IsList(semantic, 1 .. Cap)
    /\ DOMAIN pages \subseteq 0 .. offset
    /\ \A at \in DOMAIN pages : IsList(pages[at], at + 1 .. at + Limit)
    /\ total \in 0 .. 2 * Cap
    /\ gone \subseteq deleted /\ changes \in 0 .. MaxChanges

\* A query that fits into the candidates of its first page: the fusion is of
\* whole lists at every offset.
Fits ==
    \A order \in {textOrder, distanceOrder} :
        Cardinality(StoredOf(order)) <= Least(Cap, Limit + Slack)

\* Each page is fused anew, from more candidates the further it is.  As long as
\* the data is left alone and both lists fit into the first page's candidates,
\* no chunk is on two pages, and when the client has read them all, it has seen
\* every chunk that is found.
PagesPartition ==
    changes = 0 /\ Fits =>
        /\ \A at, later \in DOMAIN pages :
              at # later => DOMAIN pages[at] \cap DOMAIN pages[later] = {}
        /\ ~Reading => UNION {DOMAIN pages[at] : at \in DOMAIN pages} =
                           StoredOf(textOrder) \cup StoredOf(distanceOrder)

\* A list that has c has it before d, or does not have d.
AheadIn(list, c, d) == d \in DOMAIN list => c \in DOMAIN list /\ list[c] < list[d]

\* The page respects what both lists agree on, cut off or not: a chunk never
\* stands behind one that it precedes in both.
AgreementKept ==
    pc = "answered" =>
        \A c, d \in DOMAIN pages[offset] :
            pages[offset][c] < pages[offset][d] =>
                ~(AheadIn(fullText, d, c) /\ AheadIn(semantic, d, c))

\* A page shows no chunk of a document that was deleted before the page was
\* asked for, although the pages before it may have shown it.
NothingDeletedShown ==
    pc = "answered" => DOMAIN pages[offset] \cap gone = {}
=============================================================================

-------------------------- MODULE HybridSearchProofs --------------------------
(***************************************************************************)
(* Proofs about HybridSearch, for any number of chunks, any rankings of    *)
(* them, any page size and limits, and any changes while a client reads.   *)
(***************************************************************************)
EXTENDS HybridSearch, FiniteSetTheorems, TLAPS

-----------------------------------------------------------------------------
(* Sorting.                                                                *)

\* ahead[c] is what comes before c in a strict total order of S.
IsOrder(ahead, S) ==
    /\ ahead \in [S -> SUBSET S]
    /\ \A c \in S : c \notin ahead[c]
    /\ \A c \in S : \A d \in ahead[c] : ahead[d] \subseteq ahead[c]
    /\ \A c, d \in S : c # d => c \in ahead[d] \/ d \in ahead[c]

\* A sorted list gives every chunk a rank of its own, and what comes before it
\* a smaller one.
LEMMA SortedRanks ==
    ASSUME NEW S, IsFiniteSet(S), NEW ahead, IsOrder(ahead, S)
    PROVE  /\ Sorted(ahead) \in Injection(S, 1 .. Cardinality(S))
           /\ \A c \in S : \A d \in ahead[c] : Sorted(ahead)[d] < Sorted(ahead)[c]
<1> DEFINE size(c) == Cardinality(ahead[c])
<1>1. Cardinality(S) \in Nat
  BY FS_CardinalityType
<1>2. ASSUME NEW c \in S
      PROVE  IsFiniteSet(ahead[c]) /\ size(c) \in Nat /\ size(c) < Cardinality(S)
  <2>1. ahead[c] \in SUBSET S /\ ahead[c] # S
    BY DEF IsOrder
  <2>2. IsFiniteSet(ahead[c]) /\ size(c) <= Cardinality(S) /\ size(c) # Cardinality(S)
    BY <2>1, FS_Subset
  <2>3. size(c) \in Nat
    BY <2>2, FS_CardinalityType
  <2>4. QED
    BY <1>1, <2>2, <2>3
<1>3. ASSUME NEW c \in S, NEW d \in ahead[c] PROVE size(d) < size(c)
  <2>1. d \in S /\ ahead[d] \in SUBSET ahead[c] /\ ahead[d] # ahead[c]
    BY DEF IsOrder
  <2>2. size(d) <= size(c) /\ size(d) # size(c)
    BY <1>2, <2>1, FS_Subset
  <2>3. QED
    BY <1>2, <2>1, <2>2
<1>4. Sorted(ahead) = [c \in S |-> 1 + size(c)]
  BY DEF Sorted, IsOrder
<1>5. \A c, d \in S : size(c) = size(d) => c = d
  BY <1>2, <1>3 DEF IsOrder
<1> HIDE DEF size
<1>6. Sorted(ahead) \in [S -> 1 .. Cardinality(S)]
  BY <1>1, <1>2, <1>4
<1>7. \A c, d \in S : Sorted(ahead)[c] = Sorted(ahead)[d] => c = d
  BY <1>2, <1>4, <1>5
<1>8. \A c \in S : \A d \in ahead[c] : Sorted(ahead)[d] < Sorted(ahead)[c]
  <2>1. \A c \in S : \A d \in ahead[c] : d \in S
    BY DEF IsOrder
  <2>2. QED
    BY <1>2, <1>3, <1>4, <2>1
<1>9. QED
  BY <1>6, <1>7, <1>8 DEF Injection, IsInjective

\* The part of a list at some ranks keeps the ranks.
LEMMA PartOfList ==
    ASSUME NEW S, NEW T, NEW list \in Injection(S, T), NEW ranks
    PROVE  /\ \A c : c \in DOMAIN At(list, ranks) <=> c \in S /\ list[c] \in ranks
           /\ \A c \in DOMAIN At(list, ranks) : At(list, ranks)[c] = list[c]
           /\ At(list, ranks) \in Injection(DOMAIN At(list, ranks), ranks)
BY DEF At, Restrict, Injection, IsInjective

\* The database sorts what there is, in the order of the query.
LEMMA DatabaseSorts ==
    ASSUME IsFiniteSet(Chunks), NEW order, IsList(order, Nat)
    PROVE  /\ IsFiniteSet(StoredOf(order)) /\ Cardinality(StoredOf(order)) \in Nat
           /\ SortedBy(order) \in
                 Injection(StoredOf(order), 1 .. Cardinality(StoredOf(order)))
<1> DEFINE S == StoredOf(order)
           ahead == [c \in S |-> {d \in S : order[d] < order[c]}]
<1>1. S \in SUBSET Chunks
  BY DEF StoredOf, IsList
<1>2. IsFiniteSet(S) /\ Cardinality(S) \in Nat
  BY <1>1, FS_Subset, FS_CardinalityType
<1>3. \A c, d \in S : order[c] \in Nat /\ (order[c] = order[d] => c = d)
  BY DEF StoredOf, IsList, Injection, IsInjective
<1>4. IsOrder(ahead, S)
  <2> HIDE DEF S
  <2>1. QED
    BY <1>3 DEF IsOrder
<1>5. SortedBy(order) = Sorted(ahead)
  BY DEF SortedBy
<1> HIDE DEF S, ahead
<1>6. SortedBy(order) \in Injection(S, 1 .. Cardinality(S))
  BY <1>2, <1>4, <1>5, SortedRanks
<1>7. QED
  BY <1>2, <1>6 DEF S

\* A statement with a limit returns at most as many chunks, all of them stored,
\* and the whole list if it is no longer than that.
LEMMA DatabaseLimits ==
    ASSUME IsFiniteSet(Chunks), NEW order, IsList(order, Nat), NEW n \in Nat
    PROVE  /\ IsList(FirstOf(order, n), 1 .. n)
           /\ DOMAIN FirstOf(order, n) \subseteq stored
           /\ Cardinality(StoredOf(order)) <= n =>
                 FirstOf(order, n) = SortedBy(order)
                 /\ DOMAIN SortedBy(order) = StoredOf(order)
<1> DEFINE all == StoredOf(order)
           found == SortedBy(order)
<1>1. Cardinality(all) \in Nat /\ found \in Injection(all, 1 .. Cardinality(all))
  BY DatabaseSorts
<1>2. all \subseteq Chunks /\ all \subseteq stored
  BY DEF StoredOf, IsList
<1>3. FirstOf(order, n) = At(found, 1 .. n)
  BY DEF FirstOf
<1> HIDE DEF all, found
<1>4. /\ IsList(At(found, 1 .. n), 1 .. n)
      /\ DOMAIN At(found, 1 .. n) \subseteq all
  <2>1. PICK l : l = found
    OBVIOUS
  <2>2. PICK ranks : ranks = 1 .. n
    OBVIOUS
  <2>3. PICK D, R : D = all /\ R = 1 .. Cardinality(all)
    OBVIOUS
  <2>4. l \in Injection(D, R)
    BY <1>1, <2>1, <2>3
  <2>5. /\ \A c : c \in DOMAIN At(l, ranks) <=> c \in D /\ l[c] \in ranks
        /\ At(l, ranks) \in Injection(DOMAIN At(l, ranks), ranks)
    BY <2>4, PartOfList, Zenon
  <2>6. QED
    BY <1>2, <2>1, <2>2, <2>3, <2>5 DEF IsList
<1>5. ASSUME Cardinality(all) <= n PROVE At(found, 1 .. n) = found /\ DOMAIN found = all
  <2>1. found \in [all -> 1 .. Cardinality(all)]
    BY <1>1 DEF Injection
  <2>2. {c \in DOMAIN found : found[c] \in 1 .. n} = DOMAIN found
    BY <1>1, <1>5, <2>1
  <2>3. QED
    BY <2>1, <2>2 DEF At, Restrict
<1>6. QED
  BY <1>2, <1>3, <1>4, <1>5 DEF all, found

-----------------------------------------------------------------------------
(* Fractions.                                                              *)

Fractions == [num : Nat, den : Nat \ {0}]

LEMMA Product ==
    ASSUME NEW a \in Nat, NEW b \in Nat, NEW c \in Nat
    PROVE  /\ a * b \in Nat /\ a * b = b * a /\ (a * b) * c = a * (b * c)
           /\ (a + b) * c = a * c + b * c
           /\ c # 0 => (a < b <=> a * c < b * c)
           /\ a # 0 /\ b # 0 => a * b # 0
OBVIOUS

LEMMA PlusType ==
    ASSUME NEW f \in Fractions, NEW g \in Fractions
    PROVE  Plus(f, g) \in Fractions
BY Product DEF Plus, Fractions

\* Comparing a / b, c / d and e / k by cross products.
LEMMA CrossProducts ==
    ASSUME NEW a \in Nat, NEW b \in Nat \ {0}, NEW c \in Nat, NEW d \in Nat \ {0},
           NEW e \in Nat, NEW k \in Nat \ {0}
    PROVE  /\ a * b \in Nat /\ a * d \in Nat /\ c * b \in Nat /\ c * k \in Nat
           /\ e * d \in Nat /\ a * k \in Nat /\ e * b \in Nat
           /\ c * b <= a * d /\ e * d <= c * k => e * b <= a * k
           /\ c * b < a * d /\ e * d <= c * k => e * b < a * k
           /\ c * b <= a * d /\ e * d < c * k => e * b < a * k
<1> DEFINE ad == a * d  cb == c * b  ck == c * k  ed == e * d  ak == a * k  eb == e * b
<1>1. /\ a * b \in Nat /\ ad \in Nat /\ cb \in Nat /\ ck \in Nat
      /\ ed \in Nat /\ ak \in Nat /\ eb \in Nat
  BY Product
<1>2. ed * b = eb * d /\ ck * b = cb * k /\ ad * k = ak * d
  BY Product
<1> HIDE DEF ad, cb, ck, ed, ak, eb
<1>3. /\ ed * b \in Nat /\ eb * d \in Nat /\ ck * b \in Nat /\ cb * k \in Nat
      /\ ad * k \in Nat /\ ak * d \in Nat
  BY <1>1, Product
<1>4. /\ ed < ck <=> ed * b < ck * b
      /\ ck < ed <=> ck * b < ed * b
      /\ cb < ad <=> cb * k < ad * k
      /\ ad < cb <=> ad * k < cb * k
      /\ eb < ak <=> eb * d < ak * d
      /\ ak < eb <=> ak * d < eb * d
  BY <1>1, Product
<1>5. /\ cb <= ad /\ ed <= ck => eb <= ak
      /\ cb < ad /\ ed <= ck => eb < ak
      /\ cb <= ad /\ ed < ck => eb < ak
  <2> DEFINE edb == ed * b  ebd == eb * d  ckb == ck * b  cbk == cb * k
             adk == ad * k  akd == ak * d
  <2>1. /\ edb \in Nat /\ ebd \in Nat /\ ckb \in Nat /\ cbk \in Nat
        /\ adk \in Nat /\ akd \in Nat
        /\ edb = ebd /\ ckb = cbk /\ adk = akd
    BY <1>2, <1>3
  <2>2. /\ (ed < ck <=> edb < ckb) /\ (ck < ed <=> ckb < edb)
        /\ (cb < ad <=> cbk < adk) /\ (ad < cb <=> adk < cbk)
        /\ (eb < ak <=> ebd < akd) /\ (ak < eb <=> akd < ebd)
    BY <1>4
  <2> HIDE DEF edb, ebd, ckb, cbk, adk, akd
  <2>3. QED
    BY <1>1, <2>1, <2>2
<1>6. QED
  BY <1>1, <1>5 DEF ad, cb, ck, ed, ak, eb

\* Greater is a strict order of fractions, total up to equal values.
LEMMA GreaterOrder ==
    ASSUME NEW f \in Fractions, NEW g \in Fractions, NEW h \in Fractions
    PROVE  /\ ~Greater(f, f)
           /\ Greater(f, g) => ~Greater(g, f)
           /\ ~Greater(g, f) /\ ~Greater(h, g) => ~Greater(h, f)
           /\ Greater(f, g) /\ ~Greater(h, g) => Greater(f, h)
           /\ ~Greater(g, f) /\ Greater(g, h) => Greater(f, h)
<1>1. /\ f.num \in Nat /\ f.den \in Nat \ {0} /\ g.num \in Nat /\ g.den \in Nat \ {0}
      /\ h.num \in Nat /\ h.den \in Nat \ {0}
  BY DEF Fractions
<1> DEFINE ab == f.num * f.den  ad == f.num * g.den  cb == g.num * f.den
           ck == g.num * h.den  ed == h.num * g.den
           ak == f.num * h.den  eb == h.num * f.den
<1>2. /\ ab \in Nat /\ ad \in Nat /\ cb \in Nat /\ ck \in Nat
      /\ ed \in Nat /\ ak \in Nat /\ eb \in Nat
      /\ cb <= ad /\ ed <= ck => eb <= ak
      /\ cb < ad /\ ed <= ck => eb < ak
      /\ cb <= ad /\ ed < ck => eb < ak
  <2> HIDE DEF ab, ad, cb, ck, ed, ak, eb
  <2>1. \A a \in Nat, b \in Nat \ {0}, c \in Nat, d \in Nat \ {0}, e \in Nat, k \in Nat \ {0} :
           /\ a * b \in Nat /\ a * d \in Nat /\ c * b \in Nat /\ c * k \in Nat
           /\ e * d \in Nat /\ a * k \in Nat /\ e * b \in Nat
           /\ c * b <= a * d /\ e * d <= c * k => e * b <= a * k
           /\ c * b < a * d /\ e * d <= c * k => e * b < a * k
           /\ c * b <= a * d /\ e * d < c * k => e * b < a * k
    BY CrossProducts
  <2>2. QED
    BY <1>1, <2>1, Zenon DEF ab, ad, cb, ck, ed, ak, eb
<1>3. /\ Greater(f, f) <=> ab > ab
      /\ (Greater(f, g) <=> ad > cb) /\ (Greater(g, f) <=> cb > ad)
      /\ (Greater(g, h) <=> ck > ed) /\ (Greater(h, g) <=> ed > ck)
      /\ (Greater(f, h) <=> ak > eb) /\ (Greater(h, f) <=> eb > ak)
  BY Zenon DEF Greater
<1> HIDE DEF ab, ad, cb, ck, ed, ak, eb
<1>4. QED
  BY <1>2, <1>3

LEMMA Reorder ==
    ASSUME NEW a \in Nat, NEW b \in Nat, NEW c \in Nat, NEW d \in Nat
    PROVE  (a * b) * (c * d) = (a * c) * (b * d) /\ (a * b) * (c * d) \in Nat
<1>1. \A x, y, z \in Nat : (x * y) * z = x * (y * z) /\ x * y = y * x /\ x * y \in Nat
  BY Product
<1>2. a * b \in Nat /\ c * d \in Nat /\ b * d \in Nat /\ b * c \in Nat /\ a * c \in Nat
  BY <1>1
<1>3. (a * b) * (c * d) = a * (b * (c * d))
  BY <1>1, <1>2
<1>4. b * (c * d) = (b * c) * d
  BY <1>1
<1>5. b * c = c * b
  BY <1>1
<1>6. (c * b) * d = c * (b * d)
  BY <1>1
<1>7. a * (c * (b * d)) = (a * c) * (b * d)
  BY <1>1, <1>2
<1>8. (a * b) * (c * d) = (a * c) * (b * d)
  BY <1>3, <1>4, <1>5, <1>6, <1>7, Zenon
<1>9. QED
  BY <1>1, <1>2, <1>8

\* A sum grows with its parts.
LEMMA PlusGrows ==
    ASSUME NEW f \in Fractions, NEW g \in Fractions, NEW h \in Fractions, NEW k \in Fractions,
           ~Greater(g, f), ~Greater(k, h), Greater(f, g) \/ Greater(h, k)
    PROVE  Greater(Plus(f, h), Plus(g, k))
<1>1. PICK a, b, c, d :
         /\ a \in Nat /\ b \in Nat \ {0} /\ c \in Nat /\ d \in Nat \ {0}
         /\ f.num = a /\ f.den = b /\ g.num = c /\ g.den = d
  BY DEF Fractions
<1>2. PICK e, p, q, r :
         /\ e \in Nat /\ p \in Nat \ {0} /\ q \in Nat /\ r \in Nat \ {0}
         /\ h.num = e /\ h.den = p /\ k.num = q /\ k.den = r
  BY DEF Fractions
<1> DEFINE ad == a * d  cb == c * b  er == e * r  qp == q * p
           pr == p * r  bd == b * d  ap == a * p  eb == e * b  cr == c * r  qd == q * d
           bp == b * p  dr == d * r
<1>3. /\ ad \in Nat /\ cb \in Nat /\ er \in Nat /\ qp \in Nat
      /\ pr \in Nat \ {0} /\ bd \in Nat \ {0} /\ dr \in Nat /\ bp \in Nat
      /\ ap \in Nat /\ eb \in Nat /\ cr \in Nat /\ qd \in Nat
  BY <1>1, <1>2, Product
<1>4. cb <= ad /\ qp <= er /\ (cb < ad \/ qp < er)
  BY <1>1, <1>2, <1>3 DEF Greater
<1>5. /\ ap * dr = ad * pr /\ eb * dr = er * bd
      /\ cr * bp = cb * pr /\ qd * bp = qp * bd
  <2>1. eb = b * e /\ qd = d * q /\ bp = p * b /\ cb = b * c /\ qp = p * q /\ er = r * e
        /\ dr = r * d /\ bd = d * b /\ pr = r * p
    BY <1>1, <1>2, Product
  <2>2. (a * p) * (d * r) = (a * d) * (p * r)
    BY <1>1, <1>2, Reorder
  <2>3. (e * b) * (r * d) = (e * r) * (b * d)
    BY <1>1, <1>2, Reorder
  <2>4. (c * r) * (b * p) = (c * b) * (r * p)
    BY <1>1, <1>2, Reorder
  <2>5. (q * d) * (p * b) = (q * p) * (d * b)
    BY <1>1, <1>2, Reorder
  <2>6. QED
    BY <2>1, <2>2, <2>3, <2>4, <2>5, Zenon
<1>6. Plus(f, h) = [num |-> ap + eb, den |-> bp] /\ Plus(g, k) = [num |-> cr + qd, den |-> dr]
  BY <1>1, <1>2 DEF Plus
<1> HIDE DEF ad, cb, er, qp, pr, bd, ap, eb, cr, qd, bp, dr
<1>7. /\ (ap + eb) * dr = ap * dr + eb * dr
      /\ (cr + qd) * bp = cr * bp + qd * bp
  BY <1>3, Product
<1>8. /\ ad * pr \in Nat /\ er * bd \in Nat /\ cb * pr \in Nat /\ qp * bd \in Nat
      /\ (cb < ad <=> cb * pr < ad * pr) /\ (ad < cb <=> ad * pr < cb * pr)
      /\ (qp < er <=> qp * bd < er * bd) /\ (er < qp <=> er * bd < qp * bd)
  BY <1>3, Product
<1>9. (ap + eb) * dr > (cr + qd) * bp
  <2> DEFINE adpr == ad * pr  erbd == er * bd  cbpr == cb * pr  qpbd == qp * bd
             lhs == (ap + eb) * dr  rhs == (cr + qd) * bp
  <2>1. lhs = adpr + erbd /\ rhs = cbpr + qpbd
    BY <1>5, <1>7
  <2>2. adpr \in Nat /\ erbd \in Nat /\ cbpr \in Nat /\ qpbd \in Nat
        /\ (cb < ad <=> cbpr < adpr) /\ (ad < cb <=> adpr < cbpr)
        /\ (qp < er <=> qpbd < erbd) /\ (er < qp <=> erbd < qpbd)
    BY <1>8
  <2> HIDE DEF adpr, erbd, cbpr, qpbd, lhs, rhs
  <2>3. lhs > rhs
    BY <1>3, <1>4, <2>1, <2>2
  <2>4. QED
    BY <2>3 DEF lhs, rhs
<1>10. QED
  BY <1>6, <1>9 DEF Greater

-----------------------------------------------------------------------------
(* The fusion.                                                             *)

LEMMA ShareOfList ==
    ASSUME RankOffset \in Nat \ {0}, NEW list, IsList(list, 1 .. Cap), Cap \in Nat, NEW c
    PROVE  /\ Share(list, c) \in Fractions
           /\ c \in DOMAIN list => /\ list[c] \in Nat
                                  /\ Share(list, c).num = 1
                                  /\ Share(list, c).den = RankOffset + list[c]
           /\ c \notin DOMAIN list => Share(list, c).num = 0 /\ Share(list, c).den = 1
<1>1. c \in DOMAIN list => list[c] \in Nat
  BY DEF IsList, Injection
<1>2. CASE c \in DOMAIN list
  BY <1>1, <1>2 DEF Share, Fractions
<1>3. CASE c \notin DOMAIN list
  BY <1>3 DEF Share, Fractions
<1>4. QED
  BY <1>2, <1>3

\* The list gives more to what it has ahead.
LEMMA ShareAhead ==
    ASSUME RankOffset \in Nat \ {0}, NEW list, IsList(list, 1 .. Cap), Cap \in Nat,
           NEW c, NEW d, AheadIn(list, d, c)
    PROVE  /\ ~Greater(Share(list, c), Share(list, d))
           /\ c \in DOMAIN list => Greater(Share(list, d), Share(list, c))
<1>1. CASE c \in DOMAIN list
  <2>1. d \in DOMAIN list /\ list[d] < list[c]
    BY <1>1 DEF AheadIn
  <2>2. QED
    BY <1>1, <2>1, ShareOfList DEF Greater
<1>2. CASE c \notin DOMAIN list
  <2>1. Share(list, c).num = 0 /\ Share(list, c).den = 1
    BY <1>2, ShareOfList
  <2>2. Share(list, d).num \in Nat /\ Share(list, d).den \in Nat
    BY ShareOfList DEF Fractions
  <2>3. QED
    BY <1>2, <2>1, <2>2 DEF Greater
<1>3. QED
  BY <1>1, <1>2

\* What the request has read.
ListsRead ==
    /\ IsList(fullText, 1 .. Cap) /\ IsList(semantic, 1 .. Cap)

LEMMA ScoreType ==
    ASSUME ListsRead, NEW c
    PROVE  Score(c) \in Fractions
<1>1. Cap \in Nat /\ RankOffset \in Nat \ {0}
  BY SearchAssumption
<1>2. Share(fullText, c) \in Fractions /\ Share(semantic, c) \in Fractions
  <2>1. PICK l, m : l = fullText /\ m = semantic
    OBVIOUS
  <2>2. Share(l, c) \in Fractions /\ Share(m, c) \in Fractions
    BY <1>1, <2>1, ShareOfList DEF ListsRead
  <2>3. QED
    BY <2>1, <2>2
<1>3. PICK f, g : f = Share(fullText, c) /\ g = Share(semantic, c)
  OBVIOUS
<1>4. f \in Fractions /\ g \in Fractions
  BY <1>2, <1>3
<1>5. Plus(f, g) \in Fractions
  BY <1>4, PlusType
<1>6. QED
  BY <1>3, <1>5 DEF Score

LEMMA CandidateChunks ==
    ASSUME ListsRead
    PROVE  /\ Candidates \subseteq Chunks /\ IsFiniteSet(Candidates)
           /\ Cardinality(Candidates) \in 0 .. 2 * Cap
<1>1. PICK l, m : l = fullText /\ m = semantic
  OBVIOUS
<1>2. PICK D, E : D = DOMAIN l /\ E = DOMAIN m
  OBVIOUS
<1>3. Cap \in Nat
  BY SearchAssumption
<1>4. D \subseteq Chunks /\ E \subseteq Chunks
      /\ l \in Injection(D, 1 .. Cap) /\ m \in Injection(E, 1 .. Cap)
  BY <1>1, <1>2 DEF ListsRead, IsList
<1>5. IsFiniteSet(1 .. Cap) /\ Cardinality(1 .. Cap) = Cap
  BY <1>3, FS_Interval
<1>6. IsFiniteSet(D) /\ IsFiniteSet(E)
  BY <1>4, FS_Subset, SearchAssumption
<1>7. Cardinality(D) <= Cap /\ Cardinality(E) <= Cap
  BY <1>4, <1>5, FS_Injection
<1>8. QED
  <2>1. IsFiniteSet(D \cup E)
        /\ Cardinality(D \cup E) = Cardinality(D) + Cardinality(E) - Cardinality(D \cap E)
    BY <1>6, FS_Union
  <2>2. /\ Cardinality(D) \in Nat /\ Cardinality(E) \in Nat
        /\ Cardinality(D \cup E) \in Nat
    BY <1>6, <2>1, FS_CardinalityType
  <2>3. IsFiniteSet(D \cap E)
    BY <1>6, FS_Intersection
  <2>4. Cardinality(D \cap E) \in Nat
    BY <2>3, FS_CardinalityType
  <2>5. Cardinality(D \cup E) \in 0 .. 2 * Cap
    BY <1>3, <1>7, <2>1, <2>2, <2>4
  <2>6. Candidates = D \cup E
    BY <1>1, <1>2 DEF Candidates
  <2>7. QED
    BY <1>4, <2>1, <2>5, <2>6

\* (-score, id) is a sort key: the fused list is in the order of it.
LEMMA RankedList ==
    ASSUME ListsRead
    PROVE  /\ Ranked \in Injection(Candidates, 1 .. Cardinality(Candidates))
           /\ \A c, d \in Candidates : Before(d, c) => Ranked[d] < Ranked[c]
<1>1. PICK C : C = Candidates
  OBVIOUS
<1>2. C \subseteq Chunks /\ C \subseteq Nat /\ IsFiniteSet(C)
  BY <1>1, CandidateChunks, SearchAssumption
<1>3. PICK ahead : ahead = [c \in C |-> {d \in C : Before(d, c)}]
  OBVIOUS
<1>4. PICK score : score = [c \in C |-> Score(c)]
  OBVIOUS
<1>5. \A c \in C : score[c] \in Fractions
  BY <1>4, ScoreType
<1>6. \A c, d \in C : Before(d, c) <=>
         \/ Greater(score[d], score[c])
         \/ ~Greater(score[c], score[d]) /\ d < c
  BY <1>4 DEF Before
<1>7. IsOrder(ahead, C)
  <2>1. \A f, g, h \in Fractions :
           /\ ~Greater(f, f)
           /\ Greater(f, g) => ~Greater(g, f)
           /\ ~Greater(g, f) /\ ~Greater(h, g) => ~Greater(h, f)
           /\ Greater(f, g) /\ ~Greater(h, g) => Greater(f, h)
           /\ ~Greater(g, f) /\ Greater(g, h) => Greater(f, h)
    BY GreaterOrder
  <2>2. ASSUME NEW c \in C PROVE ~Before(c, c)
    BY <1>2, <1>5, <1>6, <2>1
  <2>3. ASSUME NEW c \in C, NEW d \in C, NEW e \in C, Before(d, c), Before(e, d)
        PROVE  Before(e, c)
    <3>1. PICK f, g, h : f = score[e] /\ g = score[d] /\ h = score[c]
      OBVIOUS
    <3>2. f \in Fractions /\ g \in Fractions /\ h \in Fractions
      BY <1>5, <3>1
    <3>3. /\ Greater(f, g) \/ (~Greater(g, f) /\ e < d)
          /\ Greater(g, h) \/ (~Greater(h, g) /\ d < c)
      BY <1>6, <2>3, <3>1
    <3>4. /\ Greater(f, g) => ~Greater(g, f)
          /\ Greater(g, h) => ~Greater(h, g)
          /\ ~Greater(g, f) /\ ~Greater(h, g) => ~Greater(h, f)
          /\ Greater(f, g) /\ ~Greater(h, g) => Greater(f, h)
          /\ ~Greater(g, f) /\ Greater(g, h) => Greater(f, h)
      BY <2>1, <3>2
    <3>5. e < d /\ d < c => e < c
      BY <1>2
    <3>6. Greater(f, h) \/ (~Greater(h, f) /\ e < c)
      BY <3>3, <3>4, <3>5
    <3>7. QED
      BY <1>6, <3>1, <3>6
  <2>4. ASSUME NEW c \in C, NEW d \in C, c # d PROVE Before(c, d) \/ Before(d, c)
    <3>1. c < d \/ d < c
      BY <1>2, <2>4
    <3>2. QED
      BY <1>5, <1>6, <2>1, <3>1
  <2>5. /\ ahead \in [C -> SUBSET C]
        /\ \A c \in C : \A d : d \in ahead[c] <=> d \in C /\ Before(d, c)
    BY <1>3
  <2>6. /\ \A c \in C : c \notin ahead[c]
        /\ \A c, d \in C : c # d => c \in ahead[d] \/ d \in ahead[c]
    BY <2>2, <2>4, <2>5
  <2>7. \A c \in C : \A d \in ahead[c] : ahead[d] \subseteq ahead[c]
    BY <2>3, <2>5
  <2>8. QED
    BY <2>5, <2>6, <2>7 DEF IsOrder
<1>8. /\ Sorted(ahead) \in Injection(C, 1 .. Cardinality(C))
      /\ \A c \in C : \A d \in ahead[c] : Sorted(ahead)[d] < Sorted(ahead)[c]
  BY <1>2, <1>7, SortedRanks
<1>9. Ranked = Sorted(ahead)
  BY <1>1, <1>3 DEF Ranked
<1>10. \A c, d \in C : Before(d, c) => d \in ahead[c]
  BY <1>3
<1>11. QED
  BY <1>1, <1>8, <1>9, <1>10

LEMMA PageOfRanked ==
    ASSUME ListsRead
    PROVE  /\ IsList(Page, offset + 1 .. offset + Limit)
           /\ \A c : c \in DOMAIN Page <=>
                      c \in Candidates /\ Ranked[c] \in offset + 1 .. offset + Limit
           /\ \A c \in DOMAIN Page : Page[c] = Ranked[c]
<1>1. PICK C, R, l, ranks :
         /\ C = Candidates /\ R = 1 .. Cardinality(C) /\ l = Ranked
         /\ ranks = offset + 1 .. offset + Limit
  OBVIOUS
<1>2. l \in Injection(C, R)
  BY <1>1, RankedList
<1>3. /\ \A c : c \in DOMAIN At(l, ranks) <=> c \in C /\ l[c] \in ranks
      /\ \A c \in DOMAIN At(l, ranks) : At(l, ranks)[c] = l[c]
      /\ At(l, ranks) \in Injection(DOMAIN At(l, ranks), ranks)
  BY <1>2, PartOfList, Zenon
<1>4. Page = At(l, ranks)
  BY <1>1 DEF Page
<1>5. C \subseteq Chunks
  BY <1>1, CandidateChunks
<1>6. IsList(At(l, ranks), ranks)
  BY <1>3, <1>5 DEF IsList
<1>7. QED
  BY <1>1, <1>3, <1>4, <1>6

-----------------------------------------------------------------------------
(* Types.                                                                  *)

LEMMA LimitType ==
    ASSUME NEW at \in Nat
    PROVE  /\ CandidateLimit(at) \in Nat /\ CandidateLimit(at) <= Cap
           /\ Least(Cap, Limit + Slack) <= CandidateLimit(at)
BY SearchAssumption DEF CandidateLimit, Least

\* What a query returns.
LEMMA CandidatesRead ==
    ASSUME NEW order, IsList(order, Nat), NEW at \in Nat
    PROVE  /\ IsList(FirstOf(order, CandidateLimit(at)), 1 .. Cap)
           /\ DOMAIN FirstOf(order, CandidateLimit(at)) \subseteq stored
<1>1. PICK n : n = CandidateLimit(at)
  OBVIOUS
<1>2. n \in Nat /\ n <= Cap /\ Cap \in Nat /\ IsFiniteSet(Chunks)
  BY <1>1, LimitType, SearchAssumption
<1>3. IsList(FirstOf(order, n), 1 .. n) /\ DOMAIN FirstOf(order, n) \subseteq stored
  BY <1>2, DatabaseLimits
<1>4. 1 .. n \subseteq 1 .. Cap
  BY <1>2
<1>5. IsList(FirstOf(order, n), 1 .. Cap)
  BY <1>3, <1>4 DEF IsList, Injection, IsInjective
<1>6. QED
  BY <1>1, <1>3, <1>5

LEMMA TypesRead ==
    ASSUME TypeOK
    PROVE  ListsRead
BY DEF TypeOK, ListsRead

LEMMA TypeInit == Init => TypeOK
<1> SUFFICES ASSUME Init PROVE TypeOK
  OBVIOUS
<1>1. ASSUME NEW order \in Rankings PROVE IsList(order, Nat)
  <2>1. PICK S \in SUBSET Chunks : order \in Bijection(S, 1 .. Cardinality(S))
    BY DEF Rankings
  <2>2. IsFiniteSet(S)
    BY FS_Subset, SearchAssumption
  <2>3. Cardinality(S) \in Nat
    BY <2>2, FS_CardinalityType
  <2>4. 1 .. Cardinality(S) \subseteq Nat
    BY <2>3
  <2>5. QED
    BY <2>1, <2>4 DEF IsList, Bijection, Injection, IsInjective
<1>2. IsList(textOrder, Nat) /\ IsList(distanceOrder, Nat)
  BY <1>1 DEF Init
<1>3. IsList(NoList, 1 .. Cap)
  BY DEF IsList, NoList, Injection, IsInjective
<1>4. IsList(fullText, 1 .. Cap) /\ IsList(semantic, 1 .. Cap)
  BY <1>3 DEF Init
<1>5. stored \subseteq Chunks /\ deleted = {} /\ gone = {} /\ DOMAIN pages = {}
  BY DEF Init
<1>6. offset \in Nat /\ total \in 0 .. 2 * Cap /\ changes \in 0 .. MaxChanges
  BY SearchAssumption DEF Init
<1>7. QED
  BY <1>2, <1>4, <1>5, <1>6 DEF Init, TypeOK

LEMMA TypeStep == TypeOK /\ [Next]_vars => TypeOK'
<1> SUFFICES ASSUME TypeOK, [Next]_vars PROVE TypeOK'
  OBVIOUS
<1> USE DEF TypeOK
<1>1. ListsRead
  BY TypesRead
<1>2. CASE FullText
  <2>1. IsList(TextCandidates, 1 .. Cap)
    <3>1. PICK order, at : order = textOrder /\ at = offset
      OBVIOUS
    <3>2. IsList(FirstOf(order, CandidateLimit(at)), 1 .. Cap)
      BY <3>1, CandidatesRead
    <3>3. QED
      BY <3>1, <3>2 DEF TextCandidates
  <2>2. QED
    BY <1>2, <2>1 DEF FullText, orders, database, IsList
<1>3. CASE Semantic
  <2>1. IsList(SemanticCandidates, 1 .. Cap)
    <3>1. PICK order, at : order = distanceOrder /\ at = offset
      OBVIOUS
    <3>2. IsList(FirstOf(order, CandidateLimit(at)), 1 .. Cap)
      BY <3>1, CandidatesRead
    <3>3. QED
      BY <3>1, <3>2 DEF SemanticCandidates
  <2>2. QED
    BY <1>3, <2>1 DEF Semantic, orders, database, IsList
<1>4. CASE Answer
  <2>1. DOMAIN pages' \subseteq 0 .. offset
    BY <1>4 DEF Answer
  <2>2. ASSUME NEW at \in DOMAIN pages' PROVE IsList(pages'[at], at + 1 .. at + Limit)
    <3>1. CASE at = offset
      <4>1. pages'[at] = Page
        BY <1>4, <2>2, <3>1 DEF Answer
      <4>2. QED
        BY <1>1, <3>1, <4>1, PageOfRanked
    <3>2. CASE at # offset
      BY <1>4, <2>2, <3>2 DEF Answer
    <3>3. QED
      BY <3>1, <3>2
  <2>3. total' \in 0 .. 2 * Cap
    BY <1>1, <1>4, CandidateChunks DEF Answer
  <2>4. QED
    BY <1>4, <2>1, <2>2, <2>3 DEF Answer, orders, database, IsList
<1>5. CASE NextPage
  <2>1. offset' \in Nat /\ 0 .. offset \subseteq 0 .. offset'
    BY <1>5, SearchAssumption DEF NextPage
  <2>2. QED
    BY <1>5, <2>1 DEF NextPage, orders, database, IsList
<1>6. ASSUME NEW c \in Chunks, Store(c) PROVE TypeOK'
  <2>1. changes' \in 0 .. MaxChanges
    BY <1>6, SearchAssumption DEF Store, Change
  <2>2. QED
    BY <1>6, <2>1 DEF Store, orders, IsList
<1>7. ASSUME NEW c \in Chunks, Delete(c) PROVE TypeOK'
  <2>1. changes' \in 0 .. MaxChanges
    BY <1>7, SearchAssumption DEF Delete, Change
  <2>2. QED
    BY <1>7, <2>1 DEF Delete, orders, IsList
<1>8. CASE UNCHANGED vars
  BY <1>8 DEF vars, IsList
<1>9. QED
  BY <1>2, <1>3, <1>4, <1>5, <1>6, <1>7, <1>8 DEF Next

\* TypeOK: whatever is stored or deleted between its queries, a request reads
\* at most the candidates' number of chunks from each list and answers at most
\* a page of them, each at a rank of its own.
THEOREM HybridTypeCorrect == Spec => []TypeOK
BY TypeInit, TypeStep, PTL DEF Spec

-----------------------------------------------------------------------------
(* The answer and the lists it was made from.                              *)

\* The answer stands until the next request reads its lists.
FusionInv ==
    pc = "answered" =>
        /\ offset \in DOMAIN pages
        /\ pages[offset] = Page
        /\ total = Cardinality(Candidates)

LEMMA SameLists ==
    ASSUME fullText' = fullText, semantic' = semantic
    PROVE  Candidates' = Candidates /\ Ranked' = Ranked /\ (offset' = offset => Page' = Page)
<1>1. Candidates' = Candidates
  BY DEF Candidates
<1>2. \A c, d : Before(c, d)' <=> Before(c, d)
  BY DEF Before, Score
<1>3. Ranked' = Ranked
  BY <1>1, <1>2 DEF Ranked
<1>4. QED
  BY <1>1, <1>3 DEF Page

LEMMA FusionStep == FusionInv /\ [Next]_vars => FusionInv'
<1> SUFFICES ASSUME FusionInv, [Next]_vars PROVE FusionInv'
  OBVIOUS
<1>1. CASE FullText \/ Semantic \/ NextPage
  BY <1>1 DEF FullText, Semantic, NextPage, FusionInv
<1>2. CASE Answer
  BY <1>2, SameLists DEF Answer, FusionInv
<1>3. CASE UNCHANGED <<pc, offset, fullText, semantic, pages, total>>
  BY <1>3, SameLists DEF FusionInv
<1>4. QED
  BY <1>1, <1>2, <1>3 DEF Next, Store, Delete, vars

LEMMA FusionInvariant == Spec => []FusionInv
<1>1. Init => FusionInv
  BY DEF Init, FusionInv
<1>2. QED
  BY <1>1, FusionStep, PTL DEF Spec

\* A chunk that both lists have ahead of another, one of them truly, scores more.
LEMMA AheadInBoth ==
    ASSUME ListsRead, NEW c \in Candidates, NEW d \in Candidates,
           AheadIn(fullText, d, c), AheadIn(semantic, d, c)
    PROVE  Ranked[d] < Ranked[c]
<1>1. PICK l, m : l = fullText /\ m = semantic
  OBVIOUS
<1>2. PICK f, g, h, k :
         /\ f = Share(l, d) /\ g = Share(l, c) /\ h = Share(m, d) /\ k = Share(m, c)
  OBVIOUS
<1>3. Cap \in Nat /\ RankOffset \in Nat \ {0} /\ IsList(l, 1 .. Cap) /\ IsList(m, 1 .. Cap)
  BY <1>1, SearchAssumption DEF ListsRead
<1>4. f \in Fractions /\ g \in Fractions /\ h \in Fractions /\ k \in Fractions
  BY <1>2, <1>3, ShareOfList
<1>5. /\ ~Greater(g, f) /\ (c \in DOMAIN l => Greater(f, g))
      /\ ~Greater(k, h) /\ (c \in DOMAIN m => Greater(h, k))
  BY <1>1, <1>2, <1>3, ShareAhead
<1>6. c \in DOMAIN l \/ c \in DOMAIN m
  BY <1>1 DEF Candidates
<1>7. Greater(Plus(f, h), Plus(g, k))
  BY <1>4, <1>5, <1>6, PlusGrows
<1>8. Before(d, c)
  BY <1>1, <1>2, <1>7 DEF Before, Score
<1>9. QED
  BY <1>8, RankedList

\* AgreementKept: adding up the reciprocal ranks never puts a chunk before one
\* that precedes it in both lists, however many candidates were cut off and
\* whatever the data did between the two queries.
THEOREM AgreedOrderKept == Spec => []AgreementKept
<1>1. TypeOK /\ FusionInv => AgreementKept
  <2> SUFFICES ASSUME TypeOK, FusionInv, pc = "answered",
                      NEW c \in DOMAIN pages[offset], NEW d \in DOMAIN pages[offset],
                      pages[offset][c] < pages[offset][d],
                      AheadIn(fullText, d, c), AheadIn(semantic, d, c)
               PROVE  FALSE
    BY DEF AgreementKept
  <2>1. ListsRead /\ pages[offset] = Page
    BY TypesRead DEF FusionInv
  <2>2. c \in Candidates /\ d \in Candidates /\ Ranked[c] < Ranked[d]
    BY <2>1, PageOfRanked
  <2>3. Ranked[d] < Ranked[c]
    BY <2>1, <2>2, AheadInBoth
  <2>4. Ranked[c] \in Nat /\ Ranked[d] \in Nat
    <3>1. PICK C, R : C = Candidates /\ R = Ranked
      OBVIOUS
    <3>2. R \in Injection(C, 1 .. Cardinality(C)) /\ IsFiniteSet(C)
      BY <2>1, <3>1, RankedList, CandidateChunks
    <3>3. Cardinality(C) \in Nat
      BY <3>2, FS_CardinalityType
    <3>4. QED
      BY <2>2, <3>1, <3>2, <3>3 DEF Injection
  <2>5. QED
    BY <2>2, <2>3, <2>4
<1>2. QED
  BY <1>1, HybridTypeCorrect, FusionInvariant, PTL

-----------------------------------------------------------------------------
(* Deleted chunks.                                                         *)

\* What was deleted when the request was sent is in none of the lists it has
\* read since.
DeletedInv ==
    /\ stored \cap deleted = {} /\ gone \subseteq deleted
    /\ pc # "text" => DOMAIN fullText \cap gone = {}
    /\ pc \in {"fuse", "answered"} => DOMAIN semantic \cap gone = {}

LEMMA DeletedStep == TypeOK /\ DeletedInv /\ [Next]_vars => DeletedInv'
<1> SUFFICES ASSUME TypeOK, DeletedInv, [Next]_vars PROVE DeletedInv'
  OBVIOUS
<1> USE DEF DeletedInv, database
<1>1. ASSUME NEW order, IsList(order, Nat)
      PROVE  DOMAIN FirstOf(order, CandidateLimit(offset)) \subseteq stored
  <2>1. PICK at : at = offset
    OBVIOUS
  <2>2. DOMAIN FirstOf(order, CandidateLimit(at)) \subseteq stored
    BY <1>1, <2>1, CandidatesRead DEF TypeOK
  <2>3. QED
    BY <2>1, <2>2
<1>2. CASE FullText
  <2>1. DOMAIN TextCandidates \subseteq stored
    <3>1. PICK order : order = textOrder
      OBVIOUS
    <3>2. QED
      BY <1>1, <3>1 DEF TextCandidates, TypeOK
  <2>2. QED
    BY <1>2, <2>1 DEF FullText
<1>3. CASE Semantic
  <2>1. DOMAIN SemanticCandidates \subseteq stored
    <3>1. PICK order : order = distanceOrder
      OBVIOUS
    <3>2. QED
      BY <1>1, <3>1 DEF SemanticCandidates, TypeOK
  <2>2. QED
    BY <1>3, <2>1 DEF Semantic
<1>4. CASE Answer
  BY <1>4 DEF Answer
<1>5. CASE NextPage
  BY <1>5 DEF NextPage
<1>6. ASSUME NEW c \in Chunks, Store(c) PROVE DeletedInv'
  BY <1>6 DEF Store
<1>7. ASSUME NEW c \in Chunks, Delete(c) PROVE DeletedInv'
  BY <1>7 DEF Delete, TypeOK
<1>8. CASE UNCHANGED vars
  BY <1>8 DEF vars
<1>9. QED
  BY <1>2, <1>3, <1>4, <1>5, <1>6, <1>7, <1>8 DEF Next

\* NothingDeletedShown: both queries read what is stored after the request was
\* sent, so no page has a chunk of a document deleted before it was asked for.
THEOREM DeletedNotShown == Spec => []NothingDeletedShown
<1>1. Init => DeletedInv
  BY DEF Init, DeletedInv
<1>2. TypeOK /\ FusionInv /\ DeletedInv => NothingDeletedShown
  <2> SUFFICES ASSUME TypeOK, FusionInv, DeletedInv, pc = "answered"
               PROVE  DOMAIN pages[offset] \cap gone = {}
    BY DEF NothingDeletedShown
  <2>1. DOMAIN pages[offset] \subseteq Candidates
    BY TypesRead, PageOfRanked DEF FusionInv
  <2>2. QED
    BY <2>1 DEF DeletedInv, Candidates
<1>3. QED
  BY <1>1, <1>2, DeletedStep, HybridTypeCorrect, FusionInvariant, PTL DEF Spec

-----------------------------------------------------------------------------
(* Pages of a query that fits into the candidates.                         *)

\* What has been read is the whole list, for the first page and for all later.
ListsWhole ==
    /\ DOMAIN pages # {} \/ pc # "text" => fullText = SortedBy(textOrder)
    /\ DOMAIN pages # {} \/ pc \in {"fuse", "answered"} => semantic = SortedBy(distanceOrder)

\* The last rank that the pages answered reach.
Covered == IF pc = "answered" THEN offset + Limit ELSE offset

\* Every page shows its ranks of the one fused list.
PagesShowRanks ==
    \A at \in DOMAIN pages :
        /\ at + Limit <= Covered
        /\ \A c : c \in DOMAIN pages[at] <=>
                    c \in Candidates /\ Ranked[c] \in at + 1 .. at + Limit

\* The pages lie side by side, without a gap.
PagesAdjoin ==
    /\ \A at, later \in DOMAIN pages : at < later => at + Limit <= later
    /\ \A n \in 1 .. Covered : \E at \in DOMAIN pages : n \in at + 1 .. at + Limit

PartitionInv == changes = 0 /\ Fits => ListsWhole /\ PagesShowRanks /\ PagesAdjoin

\* A statement that the candidates' number does not cut off.
LEMMA WholeList ==
    ASSUME NEW order, IsList(order, Nat), NEW at \in Nat,
           Cardinality(StoredOf(order)) <= Least(Cap, Limit + Slack)
    PROVE  /\ FirstOf(order, CandidateLimit(at)) = SortedBy(order)
           /\ DOMAIN SortedBy(order) = StoredOf(order)
<1>1. PICK n : n = CandidateLimit(at)
  OBVIOUS
<1>2. PICK S : S = StoredOf(order)
  OBVIOUS
<1>3. IsFiniteSet(Chunks) /\ Least(Cap, Limit + Slack) \in Nat
  BY SearchAssumption DEF Least
<1>4. Cardinality(S) \in Nat
  BY <1>2, <1>3, DatabaseSorts
<1>5. n \in Nat /\ Least(Cap, Limit + Slack) <= n
  BY <1>1, LimitType
<1>6. Cardinality(S) <= n
  BY <1>2, <1>3, <1>4, <1>5
<1>7. QED
  BY <1>1, <1>2, <1>3, <1>5, <1>6, DatabaseLimits

LEMMA WholeLists ==
    ASSUME TypeOK, Fits
    PROVE  /\ TextCandidates = SortedBy(textOrder)
           /\ SemanticCandidates = SortedBy(distanceOrder)
           /\ DOMAIN SortedBy(textOrder) = StoredOf(textOrder)
           /\ DOMAIN SortedBy(distanceOrder) = StoredOf(distanceOrder)
<1>1. PICK t, d, at : t = textOrder /\ d = distanceOrder /\ at = offset
  OBVIOUS
<1>2. IsList(t, Nat) /\ IsList(d, Nat) /\ at \in Nat
  BY <1>1 DEF TypeOK
<1>3. /\ Cardinality(StoredOf(t)) <= Least(Cap, Limit + Slack)
      /\ Cardinality(StoredOf(d)) <= Least(Cap, Limit + Slack)
  BY <1>1 DEF Fits
<1>4. /\ FirstOf(t, CandidateLimit(at)) = SortedBy(t) /\ DOMAIN SortedBy(t) = StoredOf(t)
      /\ FirstOf(d, CandidateLimit(at)) = SortedBy(d) /\ DOMAIN SortedBy(d) = StoredOf(d)
  BY <1>2, <1>3, WholeList
<1>5. QED
  BY <1>1, <1>4 DEF TextCandidates, SemanticCandidates

LEMMA PartitionStep == TypeOK /\ PartitionInv /\ [Next]_vars => PartitionInv'
<1> SUFFICES ASSUME TypeOK, PartitionInv, [Next]_vars, (changes = 0)', Fits'
             PROVE  (ListsWhole /\ PagesShowRanks /\ PagesAdjoin)'
  BY DEF PartitionInv
<1>1. /\ textOrder' = textOrder /\ distanceOrder' = distanceOrder
      /\ changes = 0 /\ stored' = stored
  <2>1. changes \in Nat
    BY DEF TypeOK
  <2>2. CASE \E c \in Chunks : Store(c) \/ Delete(c)
    BY <2>1, <2>2 DEF Store, Delete, Change
  <2>3. CASE UNCHANGED <<orders, database>>
    BY <2>3 DEF orders, database
  <2>4. QED
    BY <2>2, <2>3 DEF Next, FullText, Semantic, Answer, NextPage, vars, orders, database
<1>2. /\ SortedBy(textOrder)' = SortedBy(textOrder)
      /\ SortedBy(distanceOrder)' = SortedBy(distanceOrder)
  BY <1>1 DEF SortedBy, StoredOf
<1>3. Fits
  BY <1>1 DEF Fits, StoredOf
<1>4. ListsWhole /\ PagesShowRanks /\ PagesAdjoin
  BY <1>1, <1>3 DEF PartitionInv
<1>5. /\ TextCandidates = SortedBy(textOrder)
      /\ SemanticCandidates = SortedBy(distanceOrder)
  BY <1>3, WholeLists
<1>6. /\ offset \in Nat /\ Limit \in Nat \ {0} /\ DOMAIN pages \subseteq Nat
  BY SearchAssumption DEF TypeOK
<1>7. ASSUME pages' = pages, offset' = offset, Covered' = Covered, ListsWhole',
             DOMAIN pages # {} => fullText' = fullText /\ semantic' = semantic
      PROVE  (ListsWhole /\ PagesShowRanks /\ PagesAdjoin)'
  <2>1. PagesAdjoin'
    BY <1>4, <1>7 DEF PagesAdjoin
  <2>2. PagesShowRanks'
    <3>1. CASE DOMAIN pages = {}
      BY <1>7, <3>1 DEF PagesShowRanks
    <3>2. CASE DOMAIN pages # {}
      BY <1>4, <1>7, <3>2, SameLists DEF PagesShowRanks
    <3>3. QED
      BY <3>1, <3>2
  <2>3. QED
    BY <1>7, <2>1, <2>2
<1>8. CASE FullText
  <2>1. fullText' = SortedBy(textOrder) /\ semantic' = semantic /\ pages' = pages
        /\ offset' = offset /\ pc = "text" /\ pc' = "semantic"
    BY <1>5, <1>8 DEF FullText
  <2>2. ListsWhole'
    BY <1>2, <1>4, <2>1 DEF ListsWhole
  <2>3. DOMAIN pages # {} => fullText' = fullText
    BY <1>4, <2>1 DEF ListsWhole
  <2>4. Covered' = Covered
    BY <2>1 DEF Covered
  <2>5. QED
    BY <1>7, <2>1, <2>2, <2>3, <2>4
<1>9. CASE Semantic
  <2>1. semantic' = SortedBy(distanceOrder) /\ fullText' = fullText /\ pages' = pages
        /\ offset' = offset /\ pc = "semantic" /\ pc' = "fuse"
    BY <1>5, <1>9 DEF Semantic
  <2>2. ListsWhole'
    BY <1>2, <1>4, <2>1 DEF ListsWhole
  <2>3. DOMAIN pages # {} => semantic' = semantic
    BY <1>4, <2>1 DEF ListsWhole
  <2>4. Covered' = Covered
    BY <2>1 DEF Covered
  <2>5. QED
    BY <1>7, <2>1, <2>2, <2>3, <2>4
<1>10. CASE Answer
  <2>1. /\ fullText' = fullText /\ semantic' = semantic /\ offset' = offset
        /\ pc = "fuse" /\ pc' = "answered"
        /\ DOMAIN pages' = DOMAIN pages \cup {offset}
        /\ \A at \in DOMAIN pages' : pages'[at] = IF at = offset THEN Page ELSE pages[at]
    BY <1>10 DEF Answer
  <2>2. ListsWhole'
    BY <1>2, <1>4, <2>1 DEF ListsWhole
  <2>3. Covered = offset /\ Covered' = offset + Limit
    BY <2>1 DEF Covered
  <2>4. Candidates' = Candidates /\ Ranked' = Ranked
    BY <2>1, SameLists
  <2>5. \A at \in DOMAIN pages : at + Limit <= offset
    BY <1>4, <2>3 DEF PagesShowRanks
  <2>6. PagesShowRanks'
    <3>1. \A at \in DOMAIN pages' : at + Limit <= Covered'
      BY <1>6, <2>1, <2>3, <2>5
    <3>2. \A c : c \in DOMAIN Page <=>
                   c \in Candidates /\ Ranked[c] \in offset + 1 .. offset + Limit
      BY TypesRead, PageOfRanked
    <3>3. ASSUME NEW at \in DOMAIN pages', NEW c
          PROVE  c \in DOMAIN pages'[at] <=>
                    c \in Candidates /\ Ranked[c] \in at + 1 .. at + Limit
      <4>1. CASE at = offset
        BY <2>1, <3>2, <4>1
      <4>2. CASE at # offset
        BY <1>4, <2>1, <4>2 DEF PagesShowRanks
      <4>3. QED
        BY <4>1, <4>2
    <3>4. QED
      BY <2>4, <3>1, <3>3 DEF PagesShowRanks
  <2>7. PagesAdjoin'
    <3>1. \A at, later \in DOMAIN pages' : at < later => at + Limit <= later
      BY <1>4, <1>6, <2>1, <2>5 DEF PagesAdjoin
    <3>2. ASSUME NEW n \in 1 .. offset + Limit
          PROVE  \E at \in DOMAIN pages' : n \in at + 1 .. at + Limit
      <4>1. CASE n \in 1 .. offset
        BY <1>4, <2>1, <2>3, <4>1 DEF PagesAdjoin
      <4>2. CASE n \in offset + 1 .. offset + Limit
        BY <2>1, <4>2
      <4>3. QED
        BY <1>6, <4>1, <4>2
    <3>3. QED
      BY <2>3, <3>1, <3>2 DEF PagesAdjoin
  <2>8. QED
    BY <2>2, <2>6, <2>7
<1>11. CASE NextPage
  <2>1. /\ fullText' = fullText /\ semantic' = semantic /\ pages' = pages
        /\ pc = "answered" /\ pc' = "text" /\ offset' = offset + Limit
    BY <1>11 DEF NextPage
  <2>2. ListsWhole'
    BY <1>2, <1>4, <2>1 DEF ListsWhole
  <2>3. Covered' = Covered
    BY <2>1 DEF Covered
  <2>4. PagesShowRanks' /\ PagesAdjoin'
    BY <1>4, <2>1, <2>3, SameLists DEF PagesShowRanks, PagesAdjoin
  <2>5. QED
    BY <2>2, <2>4
<1>12. CASE UNCHANGED <<pc, offset, fullText, semantic, pages>>
  <2>1. ListsWhole'
    BY <1>2, <1>4, <1>12 DEF ListsWhole
  <2>2. Covered' = Covered
    BY <1>12 DEF Covered
  <2>3. QED
    BY <1>7, <1>12, <2>1, <2>2
<1>13. QED
  BY <1>8, <1>9, <1>10, <1>11, <1>12 DEF Next, Store, Delete, vars

\* PagesPartition: every page is cut out of an answer of its own; as long as
\* nothing changes and the lists fit into the candidates of the first page, the
\* pages share no chunk and together show all that is found.
THEOREM PagesArePartition == Spec => []PagesPartition
<1>1. Init => PartitionInv
  <2> SUFFICES ASSUME Init PROVE ListsWhole /\ PagesShowRanks /\ PagesAdjoin
    BY DEF PartitionInv
  <2>1. DOMAIN pages = {} /\ pc = "text" /\ offset = 0
    BY DEF Init
  <2>2. 1 .. Covered = {}
    BY <2>1 DEF Covered
  <2>3. QED
    BY <2>1, <2>2 DEF ListsWhole, PagesShowRanks, PagesAdjoin
<1>2. TypeOK /\ FusionInv /\ PartitionInv => PagesPartition
  <2> SUFFICES ASSUME TypeOK, FusionInv, PartitionInv, changes = 0, Fits
               PROVE  /\ \A at, later \in DOMAIN pages :
                            at # later => DOMAIN pages[at] \cap DOMAIN pages[later] = {}
                      /\ ~Reading => UNION {DOMAIN pages[at] : at \in DOMAIN pages} =
                                         StoredOf(textOrder) \cup StoredOf(distanceOrder)
    BY DEF PagesPartition
  <2>1. ListsWhole /\ PagesShowRanks /\ PagesAdjoin
    BY DEF PartitionInv
  <2>2. Limit \in Nat \ {0} /\ DOMAIN pages \subseteq Nat /\ offset \in Nat
    BY SearchAssumption DEF TypeOK
  <2>3. PICK C, R : C = Candidates /\ R = Ranked
    OBVIOUS
  <2>4. R \in Injection(C, 1 .. Cardinality(C)) /\ IsFiniteSet(C)
    BY <2>3, TypesRead, RankedList, CandidateChunks
  <2>5. Cardinality(C) \in Nat
    BY <2>4, FS_CardinalityType
  <2>6. \A c \in C : R[c] \in 1 .. Cardinality(C)
    BY <2>4 DEF Injection
  <2>7. \A at \in DOMAIN pages : \A c :
           c \in DOMAIN pages[at] <=> c \in C /\ R[c] \in at + 1 .. at + Limit
    BY <2>1, <2>3 DEF PagesShowRanks
  <2>8. ASSUME NEW at \in DOMAIN pages, NEW later \in DOMAIN pages, at # later
        PROVE  DOMAIN pages[at] \cap DOMAIN pages[later] = {}
    <3>1. at + Limit <= later \/ later + Limit <= at
      BY <2>1, <2>2, <2>8 DEF PagesAdjoin
    <3>2. (at + 1 .. at + Limit) \cap (later + 1 .. later + Limit) = {}
      BY <2>2, <3>1
    <3>3. QED
      BY <2>7, <3>2
  <2>9. ASSUME ~Reading
        PROVE  UNION {DOMAIN pages[at] : at \in DOMAIN pages} =
                  StoredOf(textOrder) \cup StoredOf(distanceOrder)
    <3>1. pc = "answered" /\ Cardinality(C) <= offset + Limit /\ Covered = offset + Limit
      BY <2>2, <2>3, <2>5, <2>9 DEF Reading, FusionInv, Covered
    <3>2. C = StoredOf(textOrder) \cup StoredOf(distanceOrder)
      BY <2>1, <2>3, <3>1, WholeLists DEF ListsWhole, Candidates
    <3>3. ASSUME NEW c \in C PROVE \E at \in DOMAIN pages : c \in DOMAIN pages[at]
      <4>1. R[c] \in 1 .. Covered
        BY <2>2, <2>5, <2>6, <3>1
      <4>2. PICK at \in DOMAIN pages : R[c] \in at + 1 .. at + Limit
        BY <2>1, <4>1 DEF PagesAdjoin
      <4>3. QED
        BY <2>7, <4>2
    <3>4. \A at \in DOMAIN pages : DOMAIN pages[at] \subseteq C
      BY <2>7
    <3>5. UNION {DOMAIN pages[at] : at \in DOMAIN pages} = C
      BY <3>3, <3>4
    <3>6. QED
      BY <3>2, <3>5
  <2>10. QED
    BY <2>8, <2>9
<1>3. QED
  BY <1>1, <1>2, PartitionStep, HybridTypeCorrect, FusionInvariant, PTL DEF Spec
==============================================================================

----------------------------- MODULE DealProofs -----------------------------
(***************************************************************************)
(* Proofs about the deals on their way from the table to the reply, for    *)
(* any catalog, scores, files, queries and bounds.  First what a ranking   *)
(* returns, which both the tools and the search rest on; then the tool     *)
(* calls of a request (DealTools), then the deal search (RetrievalService) *)
(* and the procedure of a data change.                                     *)
(***************************************************************************)
EXTENDS RetrievalService, DealTools, FiniteSetTheorems, TLAPS

(* What Ranked returns.  A strict total order of a finite set gives every  *)
(* member a number of predecessors of its own, so there is a k-th member   *)
(* for every k, and the list has them all, in order.                       *)
StrictOrder(S, R) ==
  /\ \A x \in S : <<x, x>> \notin R
  /\ \A x, y \in S : x # y => <<x, y>> \in R \/ <<y, x>> \in R
  /\ \A x, y, z \in S : <<x, y>> \in R /\ <<y, z>> \in R => <<x, z>> \in R

LEMMA Predecessors ==
  ASSUME NEW S, IsFiniteSet(S), NEW R, StrictOrder(S, R), NEW x \in S, NEW y \in S, <<x, y>> \in R
  PROVE  Cardinality(Before(x, S, R)) < Cardinality(Before(y, S, R))
<1>1. /\ Before(x, S, R) \subseteq Before(y, S, R)
      /\ x \in Before(y, S, R) /\ x \notin Before(x, S, R)
      /\ Before(y, S, R) \subseteq S
  BY DEF StrictOrder, Before
<1>2. IsFiniteSet(Before(x, S, R)) /\ IsFiniteSet(Before(y, S, R))
  BY <1>1, FS_Subset
<1>3. Cardinality(Before(x, S, R)) \in Nat /\ Cardinality(Before(y, S, R)) \in Nat
  BY <1>2, FS_CardinalityType
<1>4. /\ Cardinality(Before(x, S, R)) <= Cardinality(Before(y, S, R))
      /\ Cardinality(Before(x, S, R)) # Cardinality(Before(y, S, R))
  BY <1>1, <1>2, FS_Subset
<1> QED BY <1>3, <1>4

LEMMA RankedLists ==
  ASSUME NEW S, IsFiniteSet(S), NEW R, StrictOrder(S, R)
  PROVE  /\ Cardinality(S) \in Nat
         /\ Ranked(S, R) \in [1..Cardinality(S) -> S]
         /\ \A i, j \in 1..Cardinality(S) : i < j => <<Ranked(S, R)[i], Ranked(S, R)[j]>> \in R
         /\ \A x \in S : \E i \in 1..Cardinality(S) : Ranked(S, R)[i] = x
<1>1. PICK n \in Nat : n = Cardinality(S)
  BY FS_CardinalityType
<1> DEFINE rank == [x \in S |-> Cardinality(Before(x, S, R))]
<1>2. ASSUME NEW x \in S PROVE rank[x] \in 0..(n - 1)
  <2>1. Before(x, S, R) \subseteq S /\ x \notin Before(x, S, R)
    BY DEF Before, StrictOrder
  <2>2. IsFiniteSet(Before(x, S, R)) /\ Cardinality(Before(x, S, R)) \in Nat
    BY <2>1, FS_Subset, FS_CardinalityType
  <2>3. Cardinality(Before(x, S, R)) <= n /\ Cardinality(Before(x, S, R)) # n
    BY <1>1, <2>1, FS_Subset
  <2> QED BY <1>1, <2>2, <2>3
<1>3. ASSUME NEW x \in S, NEW y \in S, <<x, y>> \in R PROVE rank[x] < rank[y]
  BY <1>3, Predecessors
<1>4. ASSUME NEW x \in S, NEW y \in S, x # y PROVE rank[x] # rank[y]
  <2>1. rank[x] \in Int /\ rank[y] \in Int
    BY <1>1, <1>2
  <2>2. <<x, y>> \in R \/ <<y, x>> \in R
    BY <1>4 DEF StrictOrder
  <2>3. rank[x] < rank[y] \/ rank[y] < rank[x]
    BY <2>2, <1>3
  <2> QED BY <2>1, <2>3
<1>5. rank \in [S -> 0..(n - 1)] /\ rank \in Injection(S, 0..(n - 1))
  BY <1>2, <1>4 DEF Injection, IsInjective
<1>6. IsFiniteSet(0..(n - 1)) /\ Cardinality(0..(n - 1)) = n
  <2>1. n - 1 \in Int
    BY <1>1
  <2>2. /\ IsFiniteSet(0..(n - 1))
        /\ Cardinality(0..(n - 1)) = IF 0 > n - 1 THEN 0 ELSE (n - 1) - 0 + 1
    BY ONLY <2>1, FS_Interval
  <2> QED BY <1>1, <2>2
<1>7. rank \in Surjection(S, 0..(n - 1))
  <2>1. PICK T : T = 0..(n - 1) /\ IsFiniteSet(T) /\ Cardinality(T) = Cardinality(S)
    BY <1>1, <1>6
  <2>2. PICK f : f = rank /\ f \in Injection(S, T)
    BY <1>5, <2>1
  <2>3. f \in Surjection(S, T)
    BY <2>1, <2>2, FS_Injection
  <2> QED BY <2>1, <2>2, <2>3
<1>8. \A k \in 1..n : \E x \in S : rank[x] = k - 1
  <2> TAKE k \in 1..n
  <2>1. k - 1 \in 0..(n - 1)
    BY <1>1
  <2> QED BY <2>1, <1>7 DEF Surjection
<1> DEFINE s == Ranked(S, R)
<1>9. ASSUME NEW k \in 1..n PROVE s[k] \in S /\ rank[s[k]] = k - 1
  <2>1. \E x \in S : Cardinality(Before(x, S, R)) = k - 1
    BY <1>8
  <2>2. s[k] = CHOOSE x \in S : Cardinality(Before(x, S, R)) = k - 1
    BY <1>1 DEF Ranked
  <2>3. s[k] \in S /\ Cardinality(Before(s[k], S, R)) = k - 1
    BY <2>1, <2>2
  <2> QED BY <2>3
<1>10. s \in [1..n -> S]
  BY <1>1, <1>9 DEF Ranked
<1> HIDE DEF s, rank
<1>11. ASSUME NEW i \in 1..n, NEW j \in 1..n, i < j PROVE <<s[i], s[j]>> \in R
  <2>1. rank[s[i]] < rank[s[j]] /\ rank[s[i]] \in Int /\ rank[s[j]] \in Int
    BY <1>1, <1>9, <1>11
  <2>2. s[i] \in S /\ s[j] \in S /\ s[i] # s[j]
    BY <1>9, <2>1
  <2>3. <<s[j], s[i]>> \notin R
    BY <1>3, <2>1, <2>2
  <2> QED BY <2>2, <2>3 DEF StrictOrder
<1>12. ASSUME NEW x \in S PROVE \E i \in 1..n : s[i] = x
  <2>1. rank[x] \in Int /\ rank[x] + 1 \in 1..n
    BY <1>1, <1>2
  <2>2. s[rank[x] + 1] \in S /\ rank[s[rank[x] + 1]] = rank[x]
    BY <2>1, <1>9
  <2> QED BY <2>1, <2>2, <1>4
<1> QED BY <1>1, <1>10, <1>11, <1>12 DEF s

(* A ranking lists nothing twice.                                          *)
LEMMA RankedOnce ==
  ASSUME NEW S, IsFiniteSet(S), NEW R, StrictOrder(S, R) PROVE IsInjective(Ranked(S, R))
<1>1. PICK n \in Nat : n = Cardinality(S)
  BY FS_CardinalityType
<1>2. PICK s : s = Ranked(S, R)
  OBVIOUS
<1>3. s \in [1..n -> S] /\ \A i, j \in 1..n : i < j => <<s[i], s[j]>> \in R
  BY <1>1, <1>2, RankedLists
<1>4. \A i, j \in 1..n : i < j => s[i] # s[j]
  BY <1>3 DEF StrictOrder
<1> QED BY <1>2, <1>3, <1>4 DEF IsInjective

LEMMA OneTo == ASSUME NEW n \in Nat PROVE IsFiniteSet(1..n) /\ Cardinality(1..n) = n
<1>1. 1 \in Int /\ n \in Int
  OBVIOUS
<1>2. IsFiniteSet(1..n) /\ Cardinality(1..n) = IF 1 > n THEN 0 ELSE n - 1 + 1
  BY ONLY <1>1, FS_Interval
<1> QED BY <1>2

(* The positions of a list by descending key are in a strict total order,  *)
(* whatever the keys: positions are numbers.                               *)
LEMMA ByKeyOrders ==
  ASSUME NEW P, P \subseteq Nat, NEW key, \A i \in P : key[i] \in Int
  PROVE  StrictOrder(P, ByKey(P, key))
<1>1. \A x, y \in P : <<x, y>> \in ByKey(P, key) <=> key[x] > key[y] \/ (key[x] = key[y] /\ x < y)
  BY DEF ByKey
<1> QED BY <1>1 DEF StrictOrder

(* A list that is arranged has what the list had at these positions, each  *)
(* position once.                                                          *)
LEMMA ArrangedLists ==
  ASSUME NEW T, NEW s \in Seq(T), NEW P, P \subseteq DOMAIN s, NEW key, \A i \in P : key[i] \in Int
  PROVE  /\ IsFiniteSet(P) /\ Cardinality(P) \in Nat
         /\ Arranged(s, P, key) \in Seq(T) /\ Len(Arranged(s, P, key)) = Cardinality(P)
         /\ \E order \in Bijection(1..Cardinality(P), P) :
              \A k \in 1..Cardinality(P) : Arranged(s, P, key)[k] = s[order[k]]
<1>1. P \subseteq Nat /\ IsFiniteSet(P)
  <2>1. DOMAIN s = 1..Len(s) /\ Len(s) \in Nat
    OBVIOUS
  <2>2. IsFiniteSet(1..Len(s))
    BY <2>1, FS_Interval
  <2> QED BY <2>1, <2>2, FS_Subset
<1> DEFINE order == Ranked(P, ByKey(P, key))
<1>2. StrictOrder(P, ByKey(P, key))
  BY <1>1, ByKeyOrders
<1>3. /\ Cardinality(P) \in Nat /\ order \in [1..Cardinality(P) -> P]
      /\ \A i, j \in 1..Cardinality(P) : i < j => <<order[i], order[j]>> \in ByKey(P, key)
      /\ \A x \in P : \E i \in 1..Cardinality(P) : order[i] = x
  BY <1>1, <1>2, RankedLists
<1> HIDE DEF order
<1>4. \A i, j \in 1..Cardinality(P) : i < j => order[i] # order[j]
  BY <1>2, <1>3 DEF StrictOrder
<1>5. \A i, j \in 1..Cardinality(P) : order[i] = order[j] => i = j
  BY <1>3, <1>4
<1>6. order \in Bijection(1..Cardinality(P), P)
  BY <1>3, <1>5 DEF Bijection, Injection, Surjection, IsInjective
<1>7. Arranged(s, P, key) = [k \in 1..Cardinality(P) |-> s[order[k]]]
  BY <1>3 DEF Arranged, order
<1>8. \A k \in 1..Cardinality(P) : s[order[k]] \in T
  BY <1>3
<1>9. Arranged(s, P, key) \in Seq(T) /\ Len(Arranged(s, P, key)) = Cardinality(P)
  BY <1>3, <1>7, <1>8
<1> QED BY <1>1, <1>3, <1>6, <1>7, <1>9

LEMMA FirstOf ==
  ASSUME NEW T, NEW s \in Seq(T), NEW n \in Nat
  PROVE  /\ FirstN(s, n) \in Seq(T) /\ Len(FirstN(s, n)) = (IF Len(s) < n THEN Len(s) ELSE n)
         /\ \A k \in DOMAIN FirstN(s, n) : k \in DOMAIN s /\ FirstN(s, n)[k] = s[k]
  BY DEF FirstN

(* The enumerations of a finite set and of its subsets are lists without a *)
(* repetition.                                                             *)
LEMMA Permuted ==
  ASSUME NEW S, IsFiniteSet(S), NEW s \in SetToSeqs(S)
  PROVE  /\ s \in Seq(S) /\ Len(s) = Cardinality(S) /\ IsInjective(s)
<1>1. Cardinality(S) \in Nat
  BY FS_CardinalityType
<1>2. s \in [1..Cardinality(S) -> S] /\ \A i, j \in 1..Cardinality(S) : i # j => s[i] # s[j]
  BY DEF SetToSeqs
<1> QED BY <1>1, <1>2 DEF IsInjective

LEMMA PartlyPermuted ==
  ASSUME NEW S, IsFiniteSet(S), NEW s \in SetToAllKPermutations(S)
  PROVE  s \in Seq(S) /\ IsInjective(s)
<1>1. PICK sub \in SUBSET S : s \in SetToSeqs(sub)
  BY DEF SetToAllKPermutations
<1>2. IsFiniteSet(sub)
  BY FS_Subset
<1>3. s \in Seq(sub) /\ IsInjective(s)
  BY <1>1, <1>2, Permuted
<1> QED BY <1>3
-----------------------------------------------------------------------------
(* The tool calls of one request.                                          *)

(* A list is a reordering of itself, and of any list that has its members  *)
(* at other positions.                                                     *)
LEMMA Reordered ==
  ASSUME NEW s \in Seq(Deals), NEW t \in Seq(Deals), NEW n \in Nat, Len(s) = n, Len(t) = n,
         NEW order \in Bijection(1..n, 1..n), \A k \in 1..n : s[k] = t[order[k]]
  PROVE  IsReordering(s, t)
<1>1. DOMAIN s = 1..n /\ DOMAIN t = 1..n /\ order \in [1..n -> 1..n]
  BY DEF Bijection, Injection
<1>2. ASSUME NEW d \in Deals PROVE Copies(s, d) = Copies(t, d)
  <2> DEFINE A == {i \in DOMAIN s : s[i] = d}
             B == {i \in DOMAIN t : t[i] = d}
             f == [k \in A |-> order[k]]
  <2>1. f \in [A -> B]
    BY <1>1
  <2>2. \A i, j \in A : f[i] = f[j] => i = j
    BY <1>1 DEF Bijection, Injection, IsInjective
  <2>3. \A b \in B : \E k \in A : f[k] = b
    BY <1>1 DEF Bijection, Surjection
  <2>4. f \in Bijection(A, B)
    BY <2>1, <2>2, <2>3 DEF Bijection, Injection, Surjection, IsInjective
  <2>5. IsFiniteSet(A)
    BY <1>1, OneTo, FS_Subset
  <2> HIDE DEF A, B, f
  <2>6. Cardinality(B) = Cardinality(A)
    BY <2>4, <2>5, FS_Bijection DEF ExistsBijection
  <2> QED BY <2>6 DEF A, B, Copies
<1> QED BY <1>2 DEF IsReordering

LEMMA SameOrder == ASSUME NEW s \in Seq(Deals) PROVE IsReordering(s, s)
  BY DEF IsReordering

(* The coarse ranking lists deals, no more than kCoarseTopK, none of which *)
(* the taboo drops.                                                        *)
LEMMA CoarseLists ==
  ASSUME NEW candidates \in Seq(Deals), NEW t \in Taboos
  PROVE  /\ CoarseRanking(candidates, t) \in Seq(Deals)
         /\ Len(CoarseRanking(candidates, t)) <= CoarseTopK
         /\ ~Mentions(CoarseRanking(candidates, t), Drops(t))
<1> DEFINE P == Kept(candidates, t)
           ranking == Arranged(candidates, P, Scores(candidates))
<1>1. P \subseteq DOMAIN candidates /\ \A i \in P : candidates[i] \notin Drops(t)
  BY DEF Kept
<1>2. \A i \in P : Scores(candidates)[i] \in Int
  BY <1>1, DealAssumption DEF Scores
<1>3. /\ Cardinality(P) \in Nat /\ ranking \in Seq(Deals) /\ Len(ranking) = Cardinality(P)
      /\ \E order \in Bijection(1..Cardinality(P), P) :
           \A k \in 1..Cardinality(P) : ranking[k] = candidates[order[k]]
  BY <1>1, <1>2, ArrangedLists
<1>4. \A k \in DOMAIN ranking : ranking[k] \notin Drops(t)
  BY <1>1, <1>3 DEF Bijection, Injection
<1> HIDE DEF P, ranking
<1>5. CoarseRanking(candidates, t) = FirstN(ranking, CoarseTopK)
  BY DEF CoarseRanking, P, ranking
<1>6. /\ FirstN(ranking, CoarseTopK) \in Seq(Deals) /\ Len(FirstN(ranking, CoarseTopK)) <= CoarseTopK
      /\ \A k \in DOMAIN FirstN(ranking, CoarseTopK) :
           k \in DOMAIN ranking /\ FirstN(ranking, CoarseTopK)[k] = ranking[k]
  BY <1>3, FirstOf, DealAssumption
<1> QED BY <1>4, <1>5, <1>6 DEF Mentions

(* Arranging a list by any keys reorders it.                               *)
LEMMA Rearranged ==
  ASSUME NEW s \in Seq(Deals), NEW key, \A i \in DOMAIN s : key[i] \in Int
  PROVE  /\ Arranged(s, DOMAIN s, key) \in Seq(Deals)
         /\ IsReordering(Arranged(s, DOMAIN s, key), s)
         /\ \A k \in DOMAIN Arranged(s, DOMAIN s, key) : \E i \in DOMAIN s : Arranged(s, DOMAIN s, key)[k] = s[i]
<1>1. ASSUME NEW P, P \subseteq DOMAIN s, \A i \in P : key[i] \in Int
      PROVE  /\ Arranged(s, P, key) \in Seq(Deals) /\ Len(Arranged(s, P, key)) = Cardinality(P)
             /\ \E order \in Bijection(1..Cardinality(P), P) :
                  \A k \in 1..Cardinality(P) : Arranged(s, P, key)[k] = s[order[k]]
  BY <1>1, ArrangedLists
<1>2. PICK n \in Nat : n = Len(s) /\ DOMAIN s = 1..n
  OBVIOUS
<1>3. Cardinality(DOMAIN s) = n
  BY <1>2, OneTo
<1>4. PICK ranking : ranking = Arranged(s, DOMAIN s, key)
  OBVIOUS
<1>5. /\ ranking \in Seq(Deals) /\ Len(ranking) = Cardinality(DOMAIN s)
      /\ \E order \in Bijection(1..Cardinality(DOMAIN s), DOMAIN s) :
           \A k \in 1..Cardinality(DOMAIN s) : ranking[k] = s[order[k]]
  BY <1>1, <1>4
<1>6. PICK order \in Bijection(1..n, 1..n) : \A k \in 1..n : ranking[k] = s[order[k]]
  BY <1>2, <1>3, <1>5
<1>7. IsReordering(ranking, s)
  BY <1>2, <1>3, <1>5, <1>6, Reordered
<1>8. \A k \in DOMAIN ranking : \E i \in DOMAIN s : ranking[k] = s[i]
  BY <1>2, <1>3, <1>5, <1>6 DEF Bijection, Injection
<1> QED BY <1>4, <1>5, <1>7, <1>8

(* The fine ranking has the deals of the coarse one, whatever the scores.  *)
LEMMA FineLists ==
  ASSUME ToolTypeOK, NEW scored \in SUBSET Deals, NEW score \in [scored -> 0..1]
  PROVE  /\ FineRanking(score) \in Seq(Deals)
         /\ IsReordering(FineRanking(score), coarse)
         /\ \A k \in DOMAIN FineRanking(score) : \E i \in DOMAIN coarse : FineRanking(score)[k] = coarse[i]
<1>1. PICK list \in Seq(Deals) : list = coarse
  BY DEF ToolTypeOK
<1>2. PICK key : key = [i \in DOMAIN list |-> IF list[i] \in DOMAIN score THEN score[list[i]] ELSE Unscored]
  OBVIOUS
<1>3. \A i \in DOMAIN list : key[i] \in Int
  BY <1>2 DEF Unscored
<1>4. FineRanking(score) = Arranged(list, DOMAIN list, key)
  BY <1>1, <1>2 DEF FineRanking
<1> QED BY <1>1, <1>3, <1>4, Rearranged

LEMMA CandidateLists == ASSUME ToolTypeOK, NEW candidates \in Candidates PROVE candidates \in Seq(Deals)
<1>1. items \in Seq(Deals) /\ <<>> \in Seq(Deals)
  BY DEF ToolTypeOK
<1>2. CASE candidates \in Lists(Deals)
  BY <1>2, PartlyPermuted, DealAssumption DEF Lists
<1> QED BY <1>1, <1>2 DEF Candidates

(* The head of a list stays its head when something is appended.           *)
LEMMA PrefixStays ==
  ASSUME NEW T, NEW s \in Seq(T), NEW t \in Seq(T), NEW u \in Seq(T), IsPrefix(s, t)
  PROVE  IsPrefix(s, t \o u)
<1>1. Len(s) <= Len(t) /\ \A k \in 1..Len(s) : SubSeq(s, 1, Len(s))[k] = SubSeq(t, 1, Len(s))[k]
  BY DEF IsPrefix
<1>2. \A k \in 1..Len(s) : s[k] = t[k]
  BY <1>1
<1>3. t \o u \in Seq(T) /\ Len(t \o u) = Len(t) + Len(u) /\ \A k \in 1..Len(t) : (t \o u)[k] = t[k]
  OBVIOUS
<1>4. \A k \in 1..Len(s) : (t \o u)[k] = s[k]
  BY <1>1, <1>2, <1>3
<1>5. SubSeq(t \o u, 1, Len(s)) = SubSeq(s, 1, Len(s))
  BY <1>1, <1>3, <1>4
<1> QED BY <1>1, <1>3, <1>5 DEF IsPrefix

LEMMA PrefixOfItself == ASSUME NEW T, NEW s \in Seq(T) PROVE IsPrefix(s, s)
  BY DEF IsPrefix

(* What every ranker call does that ends: its order is a reordering of the *)
(* coarse ranking that mentions nothing else.                              *)
LEMMA ServeKeeps ==
  ASSUME ToolInv, NEW order \in Seq(Deals), NEW mode \in RankModes, ServeRanking(order, mode),
         IsReordering(order, coarse), mode # "model" => order = coarse,
         \A k \in DOMAIN order : \E i \in DOMAIN coarse : order[k] = coarse[i]
  PROVE  ToolInv'
<1>1. /\ phase = "rank" /\ phase' = "loop" /\ items' = FirstN(order, TopN)
      /\ audit' = [mode |-> mode, order |-> order] /\ producer' = "ranker"
      /\ UNCHANGED <<experiment, calls, grounded, taboo, coarse>>
  BY DEF ServeRanking
<1>2. audit'.mode = mode /\ audit'.order = order
  BY <1>1
<1>3. FirstN(order, TopN) \in Seq(Deals)
  BY FirstOf, DealAssumption
<1>4. ToolTypeOK'
  BY <1>1, <1>3 DEF ToolInv, ToolTypeOK
<1>5. ModelOnlyReorders'
  BY <1>1, <1>2 DEF ModelOnlyReorders
<1>6. AuditExplainsItems'
  BY <1>1, <1>2, <1>3, PrefixOfItself DEF AuditExplainsItems
<1>7. RuledOutStaysOut'
  BY <1>1, <1>2 DEF RuledOutStaysOut, ToolInv, CoarseObeys, Mentions
<1>8. CoarseObeys'
  BY <1>1 DEF CoarseObeys
<1> QED BY <1>4, <1>5, <1>6, <1>7, <1>8 DEF ToolInv

LEMMA ToolStep == ToolInv /\ [ToolNext]_toolVars => ToolInv'
<1> SUFFICES ASSUME ToolInv, [ToolNext]_toolVars PROVE ToolInv'
  OBVIOUS
<1>0. ToolTypeOK /\ coarse \in Seq(Deals) /\ MaxCalls \in Nat
  BY DealAssumption DEF ToolInv, ToolTypeOK
<1>1. ASSUME UNCHANGED <<items, audit, taboo, coarse, producer>>, phase' = phase \/ phase' # "rank",
             phase # "rank" \/ phase' = phase, ToolTypeOK'
      PROVE  ToolInv'
  BY <1>1 DEF ToolInv, ModelOnlyReorders, AuditExplainsItems, RuledOutStaysOut, CoarseObeys
<1>2. CASE ToolFails \/ KbSearch
  <2>1. /\ calls' \in 0..MaxCalls /\ grounded' \in BOOLEAN
        /\ UNCHANGED <<experiment, phase, items, audit, taboo, coarse, producer>>
    <3>1. calls' \in 0..MaxCalls
      <4>1. NextCall
        BY <1>2 DEF ToolFails, KbSearch
      <4> QED BY <1>0, <4>1 DEF NextCall, ToolTypeOK
    <3>2. grounded' \in BOOLEAN
      <4>1. grounded \in BOOLEAN
        BY <1>0, Zenon DEF ToolTypeOK
      <4>2. grounded' = grounded \/ grounded' = TRUE
        BY <1>2, Zenon DEF ToolFails, KbSearch
      <4> QED BY <4>1, <4>2
    <3> QED BY <1>2, <3>1, <3>2 DEF ToolFails, KbSearch
  <2>2. ToolTypeOK'
    BY <1>0, <2>1 DEF ToolTypeOK
  <2> QED BY <1>1, <2>1, <2>2
<1>3. CASE DealRetriever
  <2>1. PICK hits \in Lists(Catalog \ PriceNull) : items' = items \o hits
    BY <1>3 DEF DealRetriever
  <2>2. /\ phase = "loop" /\ calls' \in 0..MaxCalls /\ producer' = "retriever"
        /\ UNCHANGED <<experiment, phase, grounded, audit, taboo, coarse>>
    BY <1>0, <1>3 DEF DealRetriever, NextCall, ToolTypeOK
  <2>3. hits \in Seq(Deals)
    <3>1. IsFiniteSet(Catalog \ PriceNull) /\ Catalog \ PriceNull \subseteq Deals
      BY DealAssumption, FS_Subset DEF Deals
    <3>2. hits \in Seq(Catalog \ PriceNull)
      BY <2>1, <3>1, PartlyPermuted DEF Lists
    <3> QED BY <3>1, <3>2
  <2>4. items \in Seq(Deals) /\ items' \in Seq(Deals)
    BY <1>0, <2>1, <2>3 DEF ToolTypeOK
  <2>5. ToolTypeOK'
    BY <1>0, <2>2, <2>4 DEF ToolTypeOK
  <2>6. AuditExplainsItems'
    <3> SUFFICES ASSUME audit.mode # "none" PROVE IsPrefix(FirstN(audit.order, TopN), items')
      BY <2>2 DEF AuditExplainsItems
    <3>1. FirstN(audit.order, TopN) \in Seq(Deals)
      BY <1>0, FirstOf, DealAssumption DEF ToolTypeOK
    <3>2. IsPrefix(FirstN(audit.order, TopN), items)
      BY DEF ToolInv, AuditExplainsItems
    <3> QED BY <2>1, <2>3, <2>4, <3>1, <3>2, PrefixStays
  <2>7. ModelOnlyReorders' /\ RuledOutStaysOut' /\ CoarseObeys'
    BY <2>2 DEF ModelOnlyReorders, RuledOutStaysOut, CoarseObeys
  <2> QED BY <2>5, <2>6, <2>7 DEF ToolInv
<1>4. CASE CoarseRank
  <2>1. PICK candidates \in Candidates, t \in Taboos :
          coarse' = CoarseRanking(candidates, t) /\ taboo' = t
    BY <1>4 DEF CoarseRank
  <2>2. /\ phase' = "rank" /\ calls' \in 0..MaxCalls
        /\ UNCHANGED <<experiment, items, grounded, audit, producer>>
    BY <1>0, <1>4 DEF CoarseRank, NextCall, ToolTypeOK
  <2>3. /\ coarse' \in Seq(Deals) /\ Len(coarse') <= CoarseTopK
        /\ ~Mentions(coarse', Drops(t))
    BY <1>0, <2>1, CandidateLists, CoarseLists
  <2>4. ToolTypeOK'
    BY <1>0, <2>1, <2>2, <2>3 DEF ToolTypeOK
  <2>5. CoarseObeys'
    BY <2>1, <2>3 DEF CoarseObeys, Drops
  <2>6. AuditExplainsItems' /\ ModelOnlyReorders' /\ RuledOutStaysOut'
    BY <2>2 DEF ToolInv, AuditExplainsItems, ModelOnlyReorders, RuledOutStaysOut
  <2> QED BY <2>4, <2>5, <2>6 DEF ToolInv
<1>5. CASE ServeRules \/ ServeFallback
  <2>1. PICK mode \in {"rule", "rule_fallback"} : ServeRanking(coarse, mode)
    BY <1>5 DEF ServeRules, ServeFallback
  <2> QED BY <1>0, <2>1, SameOrder, ServeKeeps DEF RankModes
<1>6. CASE ServeModel
  <2>1. PICK scored \in SUBSET Deals \ {{}} : \E score \in [scored -> 0..1] :
          ServeRanking(FineRanking(score), "model")
    BY <1>6 DEF ServeModel
  <2>2. PICK score \in [scored -> 0..1] : ServeRanking(FineRanking(score), "model")
    BY <2>1
  <2> QED BY <1>0, <2>1, <2>2, FineLists, ServeKeeps DEF RankModes
<1>7. CASE MapItems
  <2>1. /\ phase = "loop" /\ phase' \in {"error", "done"}
        /\ UNCHANGED <<experiment, calls, items, grounded, audit, taboo, coarse, producer>>
    BY <1>7 DEF MapItems
  <2>2. ToolTypeOK'
    BY <1>0, <2>1 DEF ToolTypeOK
  <2> QED BY <1>1, <2>1, <2>2
<1>8. CASE UNCHANGED toolVars
  <2>1. ToolTypeOK'
    BY <1>0, <1>8 DEF ToolTypeOK, toolVars
  <2> QED BY <1>1, <1>8, <2>1 DEF toolVars
<1> QED BY <1>2, <1>3, <1>4, <1>5, <1>6, <1>7, <1>8 DEF ToolNext

LEMMA ToolInitInv == ToolInit => ToolInv
<1> SUFFICES ASSUME ToolInit PROVE ToolInv
  OBVIOUS
<1>1. ToolTypeOK
  <2>1. <<>> \in Seq(Deals) /\ Len(<<>>) = 0
    OBVIOUS
  <2>2. audit \in [mode : RankModes, order : Seq(Deals)]
    BY <2>1 DEF ToolInit, RankModes
  <2>3. calls \in 0..MaxCalls /\ Len(coarse) <= CoarseTopK
    BY <2>1, DealAssumption DEF ToolInit
  <2> QED BY <2>1, <2>2, <2>3 DEF ToolInit, ToolTypeOK, Taboos
<1> QED BY <1>1 DEF ToolInit, ToolInv, ModelOnlyReorders, AuditExplainsItems, RuledOutStaysOut, CoarseObeys

LEMMA ToolsCorrect == ToolSpec => []ToolInv
  BY ToolInitInv, ToolStep, PTL DEF ToolSpec

(* The variables of a request's tool calls stay in their ranges; the       *)
(* coarse ranking is never longer than kCoarseTopK (DealRanker::Execute).  *)
THEOREM ToolsTyped == ToolSpec => []ToolTypeOK
<1>1. ToolInv => ToolTypeOK
  BY DEF ToolInv
<1> QED BY <1>1, ToolsCorrect, PTL

(* Whatever scores the ranking service sends back, the fine ranking is a   *)
(* reordering of what the rules let through, and without a model the rules *)
(* rank as if there was no experiment (DealRanker::Execute).               *)
THEOREM ModelReordersOnly == ToolSpec => []ModelOnlyReorders
<1>1. ToolInv => ModelOnlyReorders
  BY DEF ToolInv
<1> QED BY <1>1, ToolsCorrect, PTL

(* Whatever is called after the ranker, and whether it fails, the items    *)
(* still begin with the head of the ranking that the audit lists.          *)
THEOREM AuditExplains == ToolSpec => []AuditExplainsItems
<1>1. ToolInv => AuditExplainsItems
  BY DEF ToolInv
<1> QED BY <1>1, ToolsCorrect, PTL

(* A deal the user ruled out in words the tokenizer splits is neither      *)
(* ranked nor listed in the audit, by no candidates and no scores.         *)
THEOREM RuledOutNeverRanked == ToolSpec => []RuledOutStaysOut
<1>1. ToolInv => RuledOutStaysOut
  BY DEF ToolInv
<1> QED BY <1>1, ToolsCorrect, PTL
-----------------------------------------------------------------------------
(* The procedure of a data change, whatever else runs in between.          *)

Embedded == \A i \in DOMAIN rows : rows[i].embedded # None

(* What the scripts rely on: a row holds a deal of some file, and so does  *)
(* what the embedding job has read.                                        *)
ScriptInv ==
  /\ file \in Files
  /\ \A i \in DOMAIN rows : DOMAIN rows[i] = {"deal", "embedded"} /\ rows[i].deal.text # None
  /\ DOMAIN job = {"on", "fresh", "texts"}
  /\ \A i \in DOMAIN job.texts : job.texts[i] # None

(* How far the procedure has come, and what that has refreshed.  A job     *)
(* that has read since the seed knows every row that lacks an embedding.   *)
ProcedureInv ==
  /\ job.on /\ job.fresh => \A i \in DOMAIN rows : rows[i].embedded = None => i \in DOMAIN job.texts
  /\ step \in 0..3
  /\ step \in 1..3 => DealsIn(rows) = file
  /\ step \in 2..3 => Embedded
  /\ step = 3 /\ backend # "down" => corpus = file

DataInv == ScriptInv /\ ProcedureInv

LEMMA InitData == Init => DataInv
<1> SUFFICES ASSUME Init PROVE DataInv
  OBVIOUS
<1>1. file \in Files /\ file = [i \in DOMAIN file |-> file[i]] /\ \A i \in DOMAIN file : file[i].text # None
  BY SearchAssumption DEF Init
<1>2. /\ rows = [i \in DOMAIN file |-> [deal |-> file[i], embedded |-> file[i].text]]
      /\ job = [on |-> FALSE, fresh |-> FALSE, texts |-> <<>>] /\ step = 2 /\ backend = "down"
  BY DEF Init, Idle
<1>3. /\ DOMAIN rows = DOMAIN file
      /\ \A i \in DOMAIN rows : /\ DOMAIN rows[i] = {"deal", "embedded"}
                                /\ rows[i].deal = file[i] /\ rows[i].embedded = file[i].text
  BY <1>2
<1>4. DealsIn(rows) = file
  BY <1>1, <1>3 DEF DealsIn
<1>5. ScriptInv
  BY <1>1, <1>2, <1>3 DEF ScriptInv
<1>6. ProcedureInv
  BY <1>1, <1>2, <1>3, <1>4 DEF ProcedureInv, Embedded
<1> QED BY <1>5, <1>6 DEF DataInv

(* A step that leaves data, service and procedure alone: every search.     *)
LEMMA SearchData ==
  ASSUME DataInv, UNCHANGED <<data, backend, corpus, step>> PROVE DataInv'
  BY DEF DataInv, ScriptInv, ProcedureInv, Embedded, DealsIn, data

LEMMA EditFileData == ASSUME DataInv, EditFile PROVE DataInv'
<1>1. file' \in Files /\ step' = 0 /\ job' = [job EXCEPT !.fresh = FALSE] /\ UNCHANGED <<rows, backend, corpus>>
  BY DEF EditFile, service
<1>2. DOMAIN job' = DOMAIN job /\ job'.fresh = FALSE /\ job'.texts = job.texts
  BY <1>1 DEF DataInv, ScriptInv
<1> QED BY <1>1, <1>2 DEF DataInv, ScriptInv, ProcedureInv

LEMMA SeedData == ASSUME DataInv, Seed PROVE DataInv'
<1>1. /\ rows' = Synced /\ step' = 1 /\ job' = [job EXCEPT !.fresh = FALSE]
      /\ UNCHANGED <<file, backend, corpus>>
  BY DEF Seed, service
<1>2. DOMAIN job' = DOMAIN job /\ job'.fresh = FALSE /\ job'.texts = job.texts
  BY <1>1 DEF DataInv, ScriptInv
<1>3. file \in Files /\ file = [i \in DOMAIN file |-> file[i]] /\ \A i \in DOMAIN file : file[i].text # None
  BY SearchAssumption DEF DataInv, ScriptInv
<1>4. /\ DOMAIN rows' = DOMAIN file
      /\ \A i \in DOMAIN rows' : DOMAIN rows'[i] = {"deal", "embedded"} /\ rows'[i].deal = file[i]
  BY <1>1 DEF Synced
<1>5. DealsIn(rows)' = file
  BY <1>3, <1>4 DEF DealsIn
<1>6. ScriptInv'
  BY <1>1, <1>2, <1>3, <1>4 DEF DataInv, ScriptInv
<1>7. ProcedureInv'
  BY <1>1, <1>2, <1>5 DEF ProcedureInv
<1> QED BY <1>6, <1>7 DEF DataInv

LEMMA EmbedReadsData == ASSUME DataInv, EmbedReads PROVE DataInv'
<1>1. PICK force \in BOOLEAN :
        LET todo == {i \in DOMAIN rows : force \/ rows[i].embedded = None}
        IN  job' = [on |-> TRUE, fresh |-> TRUE, texts |-> [i \in todo |-> rows[i].deal.text]]
  BY DEF EmbedReads
<1>2. UNCHANGED <<file, rows, backend, corpus, step>>
  BY DEF EmbedReads, service
<1>3. /\ DOMAIN job' = {"on", "fresh", "texts"}
      /\ \A i \in DOMAIN job'.texts : i \in DOMAIN rows /\ job'.texts[i] = rows[i].deal.text
      /\ \A i \in DOMAIN rows : rows[i].embedded = None => i \in DOMAIN job'.texts
  BY <1>1
<1>4. ScriptInv'
  BY <1>2, <1>3 DEF DataInv, ScriptInv
<1>5. ProcedureInv'
  BY <1>2, <1>3 DEF DataInv, ProcedureInv, Embedded, DealsIn
<1> QED BY <1>4, <1>5 DEF DataInv

LEMMA EmbedCommitsData == ASSUME DataInv, EmbedCommits PROVE DataInv'
<1>1. /\ job.on
      /\ rows' = [i \in DOMAIN rows |->
                    IF i \in DOMAIN job.texts THEN [rows[i] EXCEPT !.embedded = job.texts[i]] ELSE rows[i]]
      /\ job' = [on |-> FALSE, fresh |-> FALSE, texts |-> <<>>]
      /\ step' = IF job.fresh /\ step = 1 THEN 2 ELSE step
      /\ UNCHANGED <<file, backend, corpus>>
  BY DEF EmbedCommits, Idle, service
<1>2. DOMAIN rows' = DOMAIN rows
  BY <1>1
<1>3. ASSUME NEW i \in DOMAIN rows
      PROVE  /\ DOMAIN rows'[i] = {"deal", "embedded"} /\ rows'[i].deal = rows[i].deal
             /\ rows'[i].embedded = IF i \in DOMAIN job.texts THEN job.texts[i] ELSE rows[i].embedded
  <2>1. DOMAIN rows[i] = {"deal", "embedded"}
    BY DEF DataInv, ScriptInv
  <2>2. CASE i \in DOMAIN job.texts
    <3>1. rows'[i] = [rows[i] EXCEPT !.embedded = job.texts[i]]
      BY <1>1, <2>2
    <3> QED BY <2>1, <2>2, <3>1
  <2>3. CASE i \notin DOMAIN job.texts
    <3>1. rows'[i] = rows[i]
      BY <1>1, <2>3
    <3> QED BY <2>1, <2>3, <3>1
  <2> QED BY <2>2, <2>3
<1>4. DealsIn(rows)' = DealsIn(rows)
  BY <1>2, <1>3 DEF DealsIn
<1>5. ScriptInv'
  BY <1>1, <1>2, <1>3 DEF DataInv, ScriptInv
<1>6. job.fresh \/ Embedded => Embedded'
  BY <1>1, <1>2, <1>3 DEF DataInv, ScriptInv, ProcedureInv, Embedded
<1>7. ProcedureInv'
  BY <1>1, <1>4, <1>6 DEF DataInv, ProcedureInv
<1> QED BY <1>5, <1>7 DEF DataInv

LEMMA EmbedEndsData == ASSUME DataInv, EmbedAborts \/ EmbedSkips PROVE DataInv'
<1>1. CASE EmbedAborts
  BY <1>1 DEF EmbedAborts, Idle, service, DataInv, ScriptInv, ProcedureInv, Embedded, DealsIn
<1>2. CASE EmbedSkips
  BY <1>2 DEF EmbedSkips, data, service, DataInv, ScriptInv, ProcedureInv, Embedded, DealsIn
<1> QED BY <1>1, <1>2

LEMMA ServiceLoadsData == ASSUME DataInv, ServiceLoads PROVE DataInv'
<1>1. /\ UNCHANGED <<file, rows, job>> /\ corpus' \in {DealsIn(rows), file}
      /\ step' = IF step = 2 THEN 3 ELSE step
  BY DEF ServiceLoads, data
<1>2. ScriptInv' /\ Embedded' = Embedded /\ DealsIn(rows)' = DealsIn(rows)
  BY <1>1 DEF DataInv, ScriptInv, Embedded, DealsIn
<1>3. step' = 3 => DealsIn(rows) = file /\ corpus' = file /\ Embedded
  BY <1>1 DEF DataInv, ProcedureInv
<1>4. ProcedureInv'
  BY <1>1, <1>2, <1>3 DEF DataInv, ProcedureInv
<1> QED BY <1>2, <1>4 DEF DataInv

LEMMA DataStep == ASSUME DataInv, [Next]_vars PROVE DataInv'
<1>1. CASE UNCHANGED vars
  BY <1>1, SearchData DEF vars, service
<1>2. CASE Procedure
  BY <1>2, EditFileData, SeedData, EmbedReadsData, EmbedCommitsData, EmbedEndsData DEF Procedure
<1>3. CASE Processes
  <2>1. CASE ServiceStops
    BY <2>1 DEF ServiceStops, data, DataInv, ScriptInv, ProcedureInv, Embedded, DealsIn
  <2>2. CASE ProbeVectors
    BY <2>2 DEF ProbeVectors, data, DataInv, ScriptInv, ProcedureInv, Embedded, DealsIn
  <2>3. CASE CatalogLoads \/ PostgresToggles
    BY <2>3, SearchData DEF CatalogLoads, PostgresToggles, service
  <2> QED BY <1>3, <2>1, <2>2, <2>3, ServiceLoadsData DEF Processes
<1>4. CASE Search
  <2>1. UNCHANGED <<data, service, step>>
    BY <1>4 DEF Search, Ask, FilterExact, FilterAlias, FilterDropped, FilterBy, SearchText, SearchVectors,
         Fuse, GiveUp, MatchLocally
  <2> QED BY <2>1, SearchData DEF service
<1> QED BY <1>1, <1>2, <1>3, <1>4 DEF Next

(* Once the file was changed, the table seeded, the missing embeddings     *)
(* made and the service restarted, in this order (pg_seed.py, pg_embed.py, *)
(* main.py), table and corpus are the file and no row lacks an embedding.  *)
THEOREM ProcedureWorks == Spec => []ProcedureRefreshes
<1>1. DataInv => ProcedureRefreshes
  BY DEF DataInv, ProcedureInv, Embedded, ProcedureRefreshes
<1> QED BY <1>1, InitData, DataStep, PTL DEF Spec
-----------------------------------------------------------------------------
(* The fusion puts the deals it ranks in a strict total order.             *)

LEMMA Product == ASSUME NEW a \in Nat, NEW b \in Nat
                 PROVE  a * b \in Nat /\ (a > 0 /\ b > 0 => a * b > 0) /\ a * b = b * a
  OBVIOUS

LEMMA ScaledUp == ASSUME NEW a \in Nat, NEW b \in Nat, NEW c \in Nat \ {0}
                  PROVE  (a > b => a * c > b * c) /\ (a >= b => a * c >= b * c)
  OBVIOUS

LEMMA ScaledDown == ASSUME NEW a \in Nat, NEW b \in Nat, NEW c \in Nat \ {0}
                    PROVE  (a * c > b * c => a > b) /\ (a * c = b * c => a = b)
  OBVIOUS

(* Comparing fractions by cross products is transitive.                    *)
LEMMA Fractions ==
  ASSUME NEW a \in Nat, NEW b \in Nat, NEW c \in Nat,
         NEW p \in Nat \ {0}, NEW q \in Nat \ {0}, NEW r \in Nat \ {0},
         a * q >= b * p, b * r >= c * q
  PROVE  /\ a * r >= c * p
         /\ a * q > b * p \/ b * r > c * q => a * r > c * p
<1>1. /\ a * q \in Nat /\ b * p \in Nat /\ b * r \in Nat /\ c * q \in Nat
      /\ a * r \in Nat /\ c * p \in Nat
  BY Product
<1>2. (a * q) * r >= (b * p) * r /\ (a * q > b * p => (a * q) * r > (b * p) * r)
  BY <1>1, ScaledUp
<1>3. (b * r) * p >= (c * q) * p /\ (b * r > c * q => (b * r) * p > (c * q) * p)
  BY <1>1, ScaledUp
<1>4. (a * q) * r = (a * r) * q /\ (b * p) * r = (b * r) * p /\ (c * q) * p = (c * p) * q
  OBVIOUS
<1>5. (a * r) * q \in Nat /\ (b * r) * p \in Nat /\ (c * p) * q \in Nat
  BY <1>1, Product
<1>6. /\ (a * r) * q >= (c * p) * q
      /\ a * q > b * p \/ b * r > c * q => (a * r) * q > (c * p) * q
  BY <1>2, <1>3, <1>4, <1>5
<1> QED BY <1>1, <1>5, <1>6, ScaledDown

LEMMA RankOf ==
  ASSUME NEW T, NEW s \in Seq(T), NEW x
  PROVE  /\ Rank(s, x) \in 0..Len(s)
         /\ Contains(s, x) => Rank(s, x) \in DOMAIN s /\ s[Rank(s, x)] = x
         /\ ~Contains(s, x) => Rank(s, x) = 0
  BY DEF Rank, Contains

LEMMA PartOf ==
  ASSUME NEW r \in Nat
  PROVE  Part(r).num \in Nat /\ Part(r).den \in Nat \ {0}
  BY SearchAssumption DEF Part

LEMMA ScoreOf ==
  ASSUME RequestTypeOK, NEW x
  PROVE  Score(x).num \in Nat /\ Score(x).den \in Nat \ {0}
<1>1. bm25 \in Seq(found) /\ vec \in Seq(Ids)
  BY DEF RequestTypeOK
<1>2. Rank(bm25, x) \in Nat /\ Rank(vec, x) \in Nat
  BY <1>1, RankOf
<1> DEFINE a == Part(Rank(bm25, x))
           b == Part(Rank(vec, x))
<1>3. a.num \in Nat /\ a.den \in Nat \ {0} /\ b.num \in Nat /\ b.den \in Nat \ {0}
  BY <1>2, PartOf
<1>4. Score(x) = [num |-> a.num * b.den + b.num * a.den, den |-> a.den * b.den]
  BY DEF Score
<1> HIDE DEF a, b
<1>5. /\ a.num * b.den \in Nat /\ b.num * a.den \in Nat
      /\ a.den * b.den \in Nat /\ a.den * b.den > 0
  BY <1>3, Product
<1> QED BY <1>4, <1>5

LEMMA AboveOrders ==
  ASSUME RequestTypeOK, NEW S, S \subseteq Nat
  PROVE  StrictOrder(S, {p \in S \X S : Above(p[1], p[2])})
<1> DEFINE R == {p \in S \X S : Above(p[1], p[2])}
<1>1. \A x, y \in S : <<x, y>> \in R <=> Above(x, y)
  OBVIOUS
<1>2. ASSUME NEW x \in S PROVE ~Above(x, x)
  BY ScoreOf, Product DEF Above
<1>3. ASSUME NEW x \in S, NEW y \in S, x # y PROVE Above(x, y) \/ Above(y, x)
  <2>1. Score(x).num * Score(y).den \in Nat /\ Score(y).num * Score(x).den \in Nat
    BY ScoreOf, Product
  <2> QED BY <1>3, <2>1 DEF Above
<1>4. ASSUME NEW x \in S, NEW y \in S, NEW z \in S, Above(x, y), Above(y, z) PROVE Above(x, z)
  <2>1. PICK a \in Nat, p \in Nat \ {0} : a = Score(x).num /\ p = Score(x).den
    BY ScoreOf
  <2>2. PICK b \in Nat, q \in Nat \ {0} : b = Score(y).num /\ q = Score(y).den
    BY ScoreOf
  <2>3. PICK c \in Nat, r \in Nat \ {0} : c = Score(z).num /\ r = Score(z).den
    BY ScoreOf
  <2>4. /\ a * q > b * p \/ (a * q = b * p /\ x < y)
        /\ b * r > c * q \/ (b * r = c * q /\ y < z)
    BY <1>4, <2>1, <2>2, <2>3 DEF Above
  <2>5. a * q \in Nat /\ b * p \in Nat /\ b * r \in Nat /\ c * q \in Nat /\ a * r \in Nat /\ c * p \in Nat
    BY Product
  <2>6. a * q >= b * p /\ b * r >= c * q
    BY <2>4, <2>5
  <2>7. a * r >= c * p /\ (a * q > b * p \/ b * r > c * q => a * r > c * p)
    BY <2>6, Fractions
  <2>8. x \in Nat /\ y \in Nat /\ z \in Nat
    OBVIOUS
  <2>9. a * r > c * p \/ (a * r = c * p /\ x < z)
    BY <2>4, <2>5, <2>7, <2>8
  <2> QED BY <2>1, <2>3, <2>9 DEF Above
<1> HIDE DEF R
<1>5. StrictOrder(S, R)
  BY <1>1, <1>2, <1>3, <1>4 DEF StrictOrder
<1> QED BY <1>5 DEF R

(* A deal that is ahead of another in every channel that found the other   *)
(* has the higher score.                                                   *)
LEMMA HigherPart ==
  ASSUME NEW T, NEW s \in Seq(T), NEW x, NEW y, Ahead(s, x, y)
  PROVE  LET a == Part(Rank(s, x))
             b == Part(Rank(s, y))
         IN  /\ a.num * b.den >= b.num * a.den
             /\ Contains(s, y) => a.num * b.den > b.num * a.den
<1>1. Rank(s, x) \in Nat /\ Rank(s, y) \in Nat
  BY RankOf
<1>2. CASE Contains(s, y)
  <2>1. Rank(s, x) < Rank(s, y) /\ Rank(s, x) # 0 /\ Rank(s, y) # 0
    BY <1>1, <1>2, RankOf DEF Ahead
  <2>2. /\ Part(Rank(s, x)).num = 1 /\ Part(Rank(s, x)).den = RrfK + Rank(s, x)
        /\ Part(Rank(s, y)).num = 1 /\ Part(Rank(s, y)).den = RrfK + Rank(s, y)
    BY <2>1 DEF Part
  <2> QED BY <1>1, <2>1, <2>2, SearchAssumption
<1>3. CASE ~Contains(s, y)
  <2>1. Part(Rank(s, y)).num = 0 /\ Part(Rank(s, y)).den = 1
    BY <1>3, RankOf DEF Part
  <2>2. Part(Rank(s, x)).num \in Nat /\ Part(Rank(s, x)).den \in Nat
    BY <1>1, PartOf
  <2> QED BY <1>3, <2>1, <2>2
<1> QED BY <1>2, <1>3

(* Adding fractions that are pairwise no smaller, one of them larger.      *)
LEMMA AddedUp ==
  ASSUME NEW a \in Nat, NEW b \in Nat, NEW p \in Nat \ {0}, NEW q \in Nat \ {0}, a * q >= b * p,
         NEW c \in Nat, NEW d \in Nat, NEW r \in Nat \ {0}, NEW t \in Nat \ {0}, c * t >= d * r,
         a * q > b * p \/ c * t > d * r
  PROVE  (a * r + c * p) * (q * t) > (b * t + d * q) * (p * r)
<1>1. a * q \in Nat /\ b * p \in Nat /\ c * t \in Nat /\ d * r \in Nat
  BY Product
<1>2. r * t \in Nat \ {0} /\ p * q \in Nat \ {0}
  BY Product
<1>3. (a * q) * (r * t) >= (b * p) * (r * t) /\ (a * q > b * p => (a * q) * (r * t) > (b * p) * (r * t))
  BY <1>1, <1>2, ScaledUp
<1>4. (c * t) * (p * q) >= (d * r) * (p * q) /\ (c * t > d * r => (c * t) * (p * q) > (d * r) * (p * q))
  BY <1>1, <1>2, ScaledUp
<1>5. /\ (a * q) * (r * t) \in Nat /\ (b * p) * (r * t) \in Nat
      /\ (c * t) * (p * q) \in Nat /\ (d * r) * (p * q) \in Nat
  BY <1>1, <1>2, Product
<1>6. (a * q) * (r * t) + (c * t) * (p * q) > (b * p) * (r * t) + (d * r) * (p * q)
  BY <1>3, <1>4, <1>5
<1>7. (a * r + c * p) * (q * t) = (a * q) * (r * t) + (c * t) * (p * q)
  OBVIOUS
<1>8. (b * t + d * q) * (p * r) = (b * p) * (r * t) + (d * r) * (p * q)
  OBVIOUS
<1> QED BY <1>6, <1>7, <1>8

LEMMA DominatesAbove ==
  ASSUME RequestTypeOK, NEW x, NEW y, Ahead(bm25, x, y), Ahead(vec, x, y),
         Contains(bm25, y) \/ Contains(vec, y)
  PROVE  Above(x, y)
<1>1. bm25 \in Seq(found) /\ vec \in Seq(Ids)
  BY DEF RequestTypeOK
<1>2. /\ Rank(bm25, x) \in Nat /\ Rank(vec, x) \in Nat
      /\ Rank(bm25, y) \in Nat /\ Rank(vec, y) \in Nat
  BY <1>1, RankOf
<1>3. PICK a \in Nat, p \in Nat \ {0} : a = Part(Rank(bm25, x)).num /\ p = Part(Rank(bm25, x)).den
  BY <1>2, PartOf
<1>4. PICK b \in Nat, q \in Nat \ {0} : b = Part(Rank(bm25, y)).num /\ q = Part(Rank(bm25, y)).den
  BY <1>2, PartOf
<1>5. PICK c \in Nat, r \in Nat \ {0} : c = Part(Rank(vec, x)).num /\ r = Part(Rank(vec, x)).den
  BY <1>2, PartOf
<1>6. PICK d \in Nat, t \in Nat \ {0} : d = Part(Rank(vec, y)).num /\ t = Part(Rank(vec, y)).den
  BY <1>2, PartOf
<1>7. a * q >= b * p /\ (Contains(bm25, y) => a * q > b * p)
  BY <1>1, <1>3, <1>4, HigherPart
<1>8. c * t >= d * r /\ (Contains(vec, y) => c * t > d * r)
  BY <1>1, <1>5, <1>6, HigherPart
<1>9. (a * r + c * p) * (q * t) > (b * t + d * q) * (p * r)
  BY <1>7, <1>8, AddedUp
<1>10. Score(x) = [num |-> a * r + c * p, den |-> p * r]
  BY <1>3, <1>5 DEF Score
<1>11. Score(y) = [num |-> b * t + d * q, den |-> q * t]
  BY <1>4, <1>6 DEF Score
<1> QED BY <1>9, <1>10, <1>11 DEF Above
-----------------------------------------------------------------------------
(* Where the request is, and what it has found so far: a request that is   *)
(* at the service finds it running, a channel lists no deal twice, and     *)
(* nothing is left of an earlier request.                                  *)
StageInv ==
  /\ pc \in AtService => backend \in {"postgres", "json"}
  /\ pc \notin {"vector", "fuse", "served"} => bm25 = <<>>
  /\ pc \notin {"fuse", "served"} => vec = <<>>
  /\ pc \notin {"served", "matched"} => answer = <<>>
  /\ IsInjective(bm25) /\ IsInjective(vec)
  /\ pc = "alias" => query.category \in DOMAIN Alias
  /\ pc \in {"search", "vector", "fuse"} => found \subseteq DOMAIN corpus

(* What the request knows of the corpus, if the table has been equal to it *)
(* whenever it was read.  The corpus cannot change under the request: the  *)
(* service loads it before it takes requests and loses them when it stops. *)
AliasFailed == query.category \in DOMAIN Alias => NothingFits(Alias[query.category])
SyncInv ==
  inSync =>
    /\ pc \in {"alias", "dropped"} => NothingFits(query.category)
    /\ pc = "dropped" => AliasFailed
    /\ pc \in {"search", "vector", "fuse"} =>
         /\ found = Fitting(corpus, query, category)
         /\ found = {} => category = None
         /\ level > 0 => NothingFits(query.category)
         /\ level = 2 => AliasFailed
    /\ pc = "fuse" => \A k \in DOMAIN vec : vec[k] \in Fitting(corpus, query, category)

(* Which category the request has come to search in.                       *)
LevelInv ==
  pc \in {"search", "vector", "fuse"} =>
    \/ level = 0 /\ category = query.category
    \/ level = 1 /\ query.category \in DOMAIN Alias /\ category = Alias[query.category]
    \/ level = 2 /\ category = None

RequestInv == RequestTypeOK /\ StageInv /\ LevelInv /\ SyncInv /\ AnswersFit
SearchInv == DataInv /\ DataTypeOK /\ RequestInv

LEMMA InitSearch == Init => SearchInv
<1> SUFFICES ASSUME Init PROVE SearchInv
  OBVIOUS
<1>1. file \in Files /\ DOMAIN file \subseteq Ids /\ file = [i \in DOMAIN file |-> file[i]]
  BY SearchAssumption DEF Init
<1>2. \A i \in DOMAIN file : file[i] \in AllDeals
  BY <1>1 DEF AllDeals
<1>3. DOMAIN <<>> = {} /\ <<>> \in Seq({}) /\ <<>> \in Seq(Ids)
  OBVIOUS
<1>4. DOMAIN rows = DOMAIN file /\ \A i \in DOMAIN rows : rows[i].deal = file[i]
  BY DEF Init
<1>5. DataTypeOK
  <2>1. job.on = FALSE /\ DOMAIN job.texts = {}
    BY <1>3 DEF Init, Idle
  <2>2. /\ corpus = <<>> /\ catalog = file /\ backend = "down" /\ vectorOn = FALSE /\ pgUp \in BOOLEAN
        /\ edits = 0 /\ step = 2
    BY DEF Init
  <2>3. DOMAIN rows \subseteq Ids /\ \A i \in DOMAIN rows : rows[i].deal \in AllDeals
    BY <1>1, <1>2, <1>4
  <2>4. /\ DOMAIN corpus \subseteq Ids /\ \A i \in DOMAIN corpus : corpus[i] \in AllDeals
        /\ DOMAIN catalog \subseteq Ids /\ \A i \in DOMAIN catalog : catalog[i] \in AllDeals
    BY <1>1, <1>2, <1>3, <2>2
  <2>5. edits \in 0..MaxEdits
    BY <2>2, SearchAssumption
  <2>6. job.on \in BOOLEAN /\ vectorOn \in BOOLEAN
    BY <2>1, <2>2
  <2> QED BY <1>1, <2>1, <2>2, <2>3, <2>4, <2>5, <2>6 DEF DataTypeOK
<1>6. RequestTypeOK
  BY <1>3 DEF Init, RequestTypeOK
<1>7. StageInv
  BY <1>3 DEF Init, StageInv, AtService, IsInjective
<1>8. LevelInv /\ SyncInv /\ AnswersFit
  BY DEF Init, LevelInv, SyncInv, AnswersFit
<1> QED BY <1>5, <1>6, <1>7, <1>8, InitData DEF SearchInv, RequestInv

(* The deals of table, corpus and catalog are deals of some file.          *)
LEMMA DataTypeStep == ASSUME DataInv, DataTypeOK, [Next]_vars PROVE DataTypeOK'
<1>0. /\ file \in Files /\ DOMAIN file \subseteq Ids /\ \A i \in DOMAIN file : file[i] \in AllDeals
      /\ DOMAIN job = {"on", "fresh", "texts"} /\ step \in 0..3
  BY SearchAssumption DEF DataInv, ScriptInv, ProcedureInv, AllDeals
<1>1. DOMAIN DealsIn(rows) = DOMAIN rows /\ \A i \in DOMAIN rows : DealsIn(rows)[i] \in AllDeals
  BY DEF DataTypeOK, DealsIn
<1>2. CASE EditFile
  <2>1. /\ file' \in Files /\ edits' = edits + 1 /\ edits < MaxEdits /\ step' = 0
        /\ job' = [job EXCEPT !.fresh = FALSE] /\ UNCHANGED <<rows, pgUp, backend, vectorOn, corpus, catalog>>
    BY <1>2 DEF EditFile, service
  <2>2. job'.on = job.on /\ job'.texts = job.texts
    BY <1>0, <2>1
  <2> QED BY <2>1, <2>2, SearchAssumption DEF DataTypeOK
<1>3. CASE Seed
  <2>1. /\ rows' = Synced /\ step' = 1 /\ job' = [job EXCEPT !.fresh = FALSE]
        /\ UNCHANGED <<file, edits, pgUp, backend, vectorOn, corpus, catalog>>
    BY <1>3 DEF Seed, service
  <2>2. job'.on = job.on /\ job'.texts = job.texts
    BY <1>0, <2>1
  <2>3. DOMAIN rows' = DOMAIN file /\ \A i \in DOMAIN file : rows'[i].deal = file[i]
    BY <2>1 DEF Synced
  <2> QED BY <1>0, <2>1, <2>2, <2>3 DEF DataTypeOK
<1>4. CASE EmbedReads
  <2>1. PICK todo \in SUBSET DOMAIN rows :
          job' = [on |-> TRUE, fresh |-> TRUE, texts |-> [i \in todo |-> rows[i].deal.text]]
    BY <1>4 DEF EmbedReads
  <2>2. job'.on = TRUE /\ DOMAIN job'.texts = todo
    BY <2>1
  <2>3. UNCHANGED <<file, rows, edits, pgUp, backend, vectorOn, corpus, catalog, step>>
    BY <1>4 DEF EmbedReads, service
  <2> QED BY <2>2, <2>3 DEF DataTypeOK
<1>5. CASE EmbedCommits
  <2>1. /\ rows' = [i \in DOMAIN rows |->
                      IF i \in DOMAIN job.texts THEN [rows[i] EXCEPT !.embedded = job.texts[i]] ELSE rows[i]]
        /\ job' = [on |-> FALSE, fresh |-> FALSE, texts |-> <<>>]
        /\ step' \in {2, step}
        /\ UNCHANGED <<file, edits, pgUp, backend, vectorOn, corpus, catalog>>
    BY <1>5 DEF EmbedCommits, Idle, service
  <2>2. DOMAIN rows' = DOMAIN rows
    BY <2>1
  <2>3. ASSUME NEW i \in DOMAIN rows PROVE rows'[i].deal = rows[i].deal
    <3>1. DOMAIN rows[i] = {"deal", "embedded"}
      BY DEF DataInv, ScriptInv
    <3>2. rows'[i] = rows[i] \/ rows'[i] = [rows[i] EXCEPT !.embedded = job.texts[i]]
      BY <2>1
    <3> QED BY <3>1, <3>2
  <2>4. job'.on = FALSE /\ DOMAIN job'.texts = {}
    BY <2>1
  <2> QED BY <1>0, <2>1, <2>2, <2>3, <2>4 DEF DataTypeOK
<1>6. CASE EmbedAborts
  <2>1. /\ job' = [on |-> FALSE, fresh |-> FALSE, texts |-> <<>>]
        /\ UNCHANGED <<file, rows, edits, pgUp, backend, vectorOn, corpus, catalog, step>>
    BY <1>6 DEF EmbedAborts, Idle, service
  <2>2. job'.on = FALSE /\ DOMAIN job'.texts = {}
    BY <2>1
  <2> QED BY <2>1, <2>2 DEF DataTypeOK
<1>7. CASE EmbedSkips
  BY <1>7 DEF EmbedSkips, data, service, DataTypeOK
<1>8. CASE ServiceLoads
  <2>1. /\ backend' \in {"starting", "json"} /\ corpus' \in {DealsIn(rows), file} /\ step' \in {3, step}
        /\ UNCHANGED <<file, rows, job, edits, pgUp, vectorOn, catalog>>
    BY <1>8 DEF ServiceLoads, data
  <2>2. DOMAIN corpus' \subseteq Ids /\ \A i \in DOMAIN corpus' : corpus'[i] \in AllDeals
    BY <1>0, <1>1, <2>1 DEF DataTypeOK
  <2> QED BY <1>0, <2>1, <2>2 DEF DataTypeOK
<1>9. CASE ProbeVectors
  <2>1. vectorOn' \in BOOLEAN
    BY <1>9 DEF ProbeVectors, DataTypeOK
  <2>2. backend' = "postgres" /\ UNCHANGED <<data, pgUp, corpus, catalog, step>>
    BY <1>9 DEF ProbeVectors
  <2> QED BY <2>1, <2>2 DEF data, DataTypeOK
<1>10. CASE ServiceStops
  <2>1. /\ backend' = "down" /\ vectorOn' = FALSE /\ corpus' = <<>> /\ DOMAIN corpus' = {}
        /\ UNCHANGED <<file, rows, job, edits, pgUp, catalog, step>>
    BY <1>10 DEF ServiceStops, data
  <2> QED BY <2>1 DEF DataTypeOK
<1>11. CASE CatalogLoads
  <2>1. catalog' \in {DealsIn(rows), file} /\ UNCHANGED <<data, pgUp, service, step>>
    BY <1>11 DEF CatalogLoads
  <2>2. DOMAIN catalog' \subseteq Ids /\ \A i \in DOMAIN catalog' : catalog'[i] \in AllDeals
    BY <1>0, <1>1, <2>1 DEF DataTypeOK
  <2> QED BY <2>1, <2>2 DEF data, service, DataTypeOK
<1>12. CASE PostgresToggles
  <2>1. pgUp' \in BOOLEAN /\ UNCHANGED <<data, service, catalog, step>>
    BY <1>12 DEF PostgresToggles
  <2> QED BY <2>1 DEF data, service, DataTypeOK
<1>13. CASE Search \/ UNCHANGED vars
  <2>1. UNCHANGED <<data, pgUp, service, catalog, step>>
    BY <1>13 DEF vars, Search, Ask, FilterExact, FilterAlias, FilterDropped, FilterBy, SearchText, SearchVectors,
         Fuse, GiveUp, MatchLocally
  <2> QED BY <2>1 DEF data, service, DataTypeOK
<1> QED BY <1>2, <1>3, <1>4, <1>5, <1>6, <1>7, <1>8, <1>9, <1>10, <1>11, <1>12, <1>13
        DEF Next, Procedure, Processes

-----------------------------------------------------------------------------
(* The request.                                                            *)

(* A step of the data or the service that does not stop it.                *)
LEMMA RequestKeeps ==
  ASSUME RequestInv, UNCHANGED request, pc \in AtService => UNCHANGED <<backend, corpus>>
  PROVE  RequestInv'
<1>1. UNCHANGED <<pc, query, category, level, found, bm25, vec, answer, inSync>>
  BY DEF request
<1>2. RequestTypeOK' /\ AnswersFit'
  BY <1>1 DEF RequestInv, RequestTypeOK, AnswersFit
<1>3. CASE pc \in AtService
  BY <1>1, <1>2, <1>3 DEF RequestInv, StageInv, LevelInv, SyncInv, AliasFailed, NothingFits
<1>4. CASE pc \notin AtService
  <2>1. StageInv' /\ LevelInv' /\ SyncInv'
    BY <1>1, <1>4 DEF RequestInv, StageInv, LevelInv, SyncInv, AtService
  <2> QED BY <1>2, <2>1 DEF RequestInv
<1> QED BY <1>3, <1>4

(* Nothing is left of a request that is lost or replaced.                  *)
LEMMA Forgotten ==
  ASSUME Forget, pc' \in {"local", "exact"}, query'.maxPrice > 0,
         pc' = "exact" => backend' \in {"postgres", "json"}
  PROVE  RequestInv'
<1>1. DOMAIN <<>> = {} /\ <<>> \in Seq({}) /\ <<>> \in Seq(Ids) /\ IsInjective(<<>>)
  BY DEF IsInjective
<1>2. /\ category' = None /\ level' = 0 /\ found' = {} /\ bm25' = <<>> /\ vec' = <<>>
      /\ answer' = <<>> /\ inSync' = TRUE
  BY DEF Forget
<1>3. RequestTypeOK'
  BY <1>1, <1>2 DEF RequestTypeOK, AtService
<1>4. StageInv'
  BY <1>1, <1>2 DEF StageInv, AtService
<1>5. LevelInv' /\ SyncInv' /\ AnswersFit'
  BY DEF LevelInv, SyncInv, AnswersFit
<1> QED BY <1>3, <1>4, <1>5 DEF RequestInv

LEMMA RequestLost == ASSUME RequestInv, LoseRequest PROVE RequestInv'
<1>1. pc \in AtService /\ pc' = "local" /\ Forget /\ query' = query
  BY DEF LoseRequest
<1>2. query.maxPrice > 0
  BY <1>1 DEF RequestInv, RequestTypeOK, AtService
<1> QED BY <1>1, <1>2, Forgotten

LEMMA DataRequest ==
  ASSUME RequestInv, Procedure \/ Processes \/ GiveUp \/ UNCHANGED vars PROVE RequestInv'
<1>1. CASE Procedure
  <2>1. UNCHANGED <<service, request>>
    BY <1>1 DEF Procedure, EditFile, Seed, EmbedReads, EmbedCommits, EmbedAborts, EmbedSkips
  <2> QED BY <2>1, RequestKeeps DEF service
<1>2. CASE ServiceLoads \/ ProbeVectors
  <2>1. backend \in {"down", "starting"} /\ UNCHANGED request
    BY <1>2 DEF ServiceLoads, ProbeVectors
  <2>2. pc \notin AtService
    BY <2>1 DEF RequestInv, StageInv
  <2> QED BY <2>1, <2>2, RequestKeeps
<1>3. CASE ServiceStops
  BY <1>3, RequestLost, RequestKeeps DEF ServiceStops
<1>4. CASE CatalogLoads \/ PostgresToggles
  BY <1>4, RequestKeeps DEF CatalogLoads, PostgresToggles, service
<1>5. CASE GiveUp
  BY <1>5, RequestLost DEF GiveUp
<1>6. CASE UNCHANGED vars
  BY <1>6, RequestKeeps DEF vars, service
<1> QED BY <1>1, <1>2, <1>3, <1>4, <1>5, <1>6 DEF Processes

LEMMA AskRequest == ASSUME RequestInv, Ask PROVE RequestInv'
<1>1. PICK q \in Queries : query' = Body(q)
  BY DEF Ask
<1>2. Body(q).maxPrice > 0
  <2>1. "maxPrice" \in DOMAIN q /\ q.maxPrice \in Int
    BY SearchAssumption DEF QueryFields
  <2>2. Body(q).maxPrice = IF q.maxPrice <= 0 THEN NoLimit ELSE q.maxPrice
    BY <2>1 DEF Body
  <2> QED BY <2>1, <2>2 DEF NoLimit
<1>3. Forget /\ pc' \in {"local", "exact"} /\ (pc' = "exact" => backend' \in {"postgres", "json"})
  BY DEF Ask, service
<1> QED BY <1>1, <1>2, <1>3, Forgotten

(* What a filter finds is what fits in the corpus, if the corpus is still  *)
(* equal to the table.                                                     *)
LEMMA Survivors ==
  ASSUME DataTypeOK, inSync \in BOOLEAN, NEW cat, ReadsTable \/ ReadsCorpus
  PROVE  /\ CandidateDeals(cat) \subseteq DOMAIN corpus /\ CandidateDeals(cat) \subseteq Ids
         /\ inSync' \in BOOLEAN
         /\ inSync' => inSync /\ CandidateDeals(cat) = Fitting(corpus, query, cat)
<1>1. CandidateDeals(cat) \subseteq DOMAIN corpus /\ DOMAIN corpus \subseteq Ids
  BY DEF DataTypeOK, CandidateDeals, Fitting
<1>2. CASE ReadsTable
  <2>1. backend = "postgres" /\ inSync' = (inSync /\ corpus = DealsIn(rows))
    BY <1>2, Zenon DEF ReadsTable
  <2>2. inSync' \in BOOLEAN /\ (inSync' => inSync /\ corpus = DealsIn(rows))
    BY <2>1, Zenon
  <2>3. corpus = DealsIn(rows) => CandidateDeals(cat) = Fitting(corpus, query, cat)
    BY <2>1 DEF CandidateDeals, Fitting
  <2> QED BY <1>1, <2>2, <2>3, Zenon
<1>3. CASE ReadsCorpus
  <2>1. backend = "json" /\ inSync' = inSync
    BY <1>3, Zenon DEF ReadsCorpus
  <2>2. CandidateDeals(cat) = Fitting(corpus, query, cat)
    BY <2>1 DEF CandidateDeals
  <2> QED BY <1>1, <2>1, <2>2, Zenon
<1> QED BY <1>2, <1>3

LEMMA FilterRequest ==
  ASSUME DataTypeOK, RequestInv, NEW stage \in {"exact", "alias", "dropped"}, NEW cat, NEW lv \in 0..2,
         NEW next \in {"alias", "dropped", "search"}, FilterBy(stage, cat, lv, next),
         next = "alias" => query.category \in DOMAIN Alias,
         next = "search" => cat = None,
         lv = 0 => cat = query.category, lv = 2 => cat = None,
         lv = 1 => query.category \in DOMAIN Alias /\ cat = Alias[query.category],
         inSync /\ lv > 0 => NothingFits(query.category),
         inSync /\ lv = 2 => AliasFailed,
         next # "search" /\ inSync /\ NothingFits(cat) => NothingFits(query.category),
         next = "dropped" /\ inSync /\ NothingFits(cat) => AliasFailed
  PROVE  RequestInv'
<1> DEFINE survivors == CandidateDeals(cat)
<1>1. /\ pc = stage /\ (ReadsTable \/ ReadsCorpus)
      /\ UNCHANGED <<backend, corpus, query, bm25, vec, answer>>
  BY DEF FilterBy, service
<1>2. /\ survivors \subseteq DOMAIN corpus /\ survivors \subseteq Ids /\ inSync' \in BOOLEAN
      /\ inSync' => inSync /\ survivors = Fitting(corpus, query, cat)
  BY <1>1, Survivors DEF RequestInv, RequestTypeOK
<1> HIDE DEF survivors
<1>3. /\ bm25 = <<>> /\ vec = <<>> /\ answer = <<>> /\ backend \in {"postgres", "json"}
      /\ IsInjective(bm25) /\ IsInjective(vec) /\ query.maxPrice > 0
  BY <1>1 DEF RequestInv, RequestTypeOK, StageInv, AtService
<1>4. \A S : <<>> \in Seq(S)
  OBVIOUS
<1>5. DOMAIN answer = {}
  BY <1>3
<1>6. CASE survivors # {} \/ next = "search"
  <2>1. pc' = "search" /\ found' = survivors /\ category' = cat /\ level' = lv
    BY <1>6 DEF FilterBy, survivors
  <2>2. RequestTypeOK'
    BY <1>1, <1>2, <1>3, <1>4, <1>5, <2>1 DEF RequestTypeOK, AtService
  <2>3. StageInv'
    BY <1>1, <1>2, <1>3, <2>1 DEF StageInv, AtService
  <2>4. SyncInv'
    <3> SUFFICES ASSUME inSync' PROVE SyncInv'
      BY DEF SyncInv
    <3>1. found' = Fitting(corpus, query, category)'
      BY <1>1, <1>2, <2>1
    <3>2. found' = {} => category' = None
      BY <1>6, <2>1
    <3>3. (level' > 0 => NothingFits(query.category)') /\ (level' = 2 => AliasFailed')
      BY <1>1, <1>2, <2>1 DEF NothingFits, AliasFailed
    <3> QED BY <2>1, <3>1, <3>2, <3>3 DEF SyncInv
  <2>5. LevelInv' /\ AnswersFit'
    BY <1>1, <2>1 DEF LevelInv, AnswersFit
  <2> QED BY <2>2, <2>3, <2>4, <2>5 DEF RequestInv
<1>7. CASE survivors = {} /\ next # "search"
  <2>1. pc' = next /\ UNCHANGED <<found, category, level>>
    BY <1>7 DEF FilterBy, survivors
  <2>2. RequestTypeOK'
    BY <1>1, <1>2, <1>3, <1>4, <1>5, <2>1 DEF RequestInv, RequestTypeOK, AtService
  <2>3. StageInv'
    BY <1>1, <1>3, <1>7, <2>1 DEF StageInv, AtService
  <2>4. SyncInv'
    <3>1. inSync' => inSync /\ NothingFits(cat)
      BY <1>2, <1>7 DEF NothingFits
    <3>2. inSync' => NothingFits(query.category)' /\ (next = "dropped" => AliasFailed')
      BY <1>1, <1>7, <3>1 DEF NothingFits, AliasFailed
    <3> QED BY <1>7, <2>1, <3>2 DEF SyncInv
  <2>5. LevelInv' /\ AnswersFit'
    BY <1>7, <2>1 DEF LevelInv, AnswersFit
  <2> QED BY <2>2, <2>3, <2>4, <2>5 DEF RequestInv
<1> QED BY <1>6, <1>7

LEMMA FiltersRequest ==
  ASSUME DataTypeOK, RequestInv, FilterExact \/ FilterAlias \/ FilterDropped PROVE RequestInv'
<1>1. CASE FilterExact
  <2>1. PICK next \in {"alias", "dropped", "search"} :
          /\ FilterBy("exact", query.category, 0, next)
          /\ next = "alias" => query.category \in DOMAIN Alias
          /\ next = "search" => query.category = None
          /\ next = "dropped" => query.category \notin DOMAIN Alias
    BY <1>1 DEF FilterExact
  <2> QED BY <2>1, FilterRequest DEF AliasFailed
<1>2. CASE FilterAlias
  <2>1. pc = "alias" /\ FilterBy("alias", Alias[query.category], 1, "dropped")
    BY <1>2 DEF FilterAlias, FilterBy, AfterAlias
  <2>2. inSync => NothingFits(query.category)
    BY <2>1 DEF RequestInv, SyncInv
  <2>3. query.category \in DOMAIN Alias
    BY <2>1 DEF RequestInv, StageInv
  <2> QED BY <2>1, <2>2, <2>3, FilterRequest DEF AliasFailed
<1>3. CASE FilterDropped
  <2>1. pc = "dropped" /\ FilterBy("dropped", None, 2, "search")
    BY <1>3 DEF FilterDropped, FilterBy
  <2>2. inSync => NothingFits(query.category) /\ AliasFailed
    BY <2>1 DEF RequestInv, SyncInv
  <2> QED BY <2>1, <2>2, FilterRequest
<1> QED BY <1>1, <1>2, <1>3

LEMMA FirstInjective ==
  ASSUME NEW T, NEW s \in Seq(T), IsInjective(s), NEW n \in Nat PROVE IsInjective(FirstN(s, n))
  BY FirstOf DEF IsInjective

LEMMA SearchTextRequest == ASSUME DataTypeOK, RequestInv, SearchText PROVE RequestInv'
<1> DEFINE S == {i \in found : corpus[i].text \in query.hits}
<1>1. PICK s \in SetToSeqs(S), n \in {PoolN, TopK} : bm25' = <<>> \/ bm25' = FirstN(s, n)
  BY DEF SearchText, Orders
<1>0. S \subseteq found
  OBVIOUS
<1> HIDE DEF S
<1>2. /\ pc = "search" /\ pc' \in {"vector", "fuse"}
      /\ UNCHANGED <<backend, corpus, query, category, level, found, vec, answer, inSync>>
  BY DEF SearchText, service
<1>3. found \subseteq Ids /\ IsFiniteSet(S) /\ n \in Nat
  BY <1>0, SearchAssumption, FS_Subset DEF RequestInv, RequestTypeOK, PoolN
<1>4. s \in Seq(S) /\ IsInjective(s)
  BY <1>3, Permuted
<1>5. bm25' \in Seq(found) /\ IsInjective(bm25')
  <2>1. FirstN(s, n) \in Seq(S) /\ IsInjective(FirstN(s, n))
    BY <1>3, <1>4, FirstOf, FirstInjective
  <2>2. <<>> \in Seq(found) /\ IsInjective(<<>>)
    BY DEF IsInjective
  <2>3. bm25' \in Seq(S) /\ IsInjective(bm25')
    <3>1. <<>> \in Seq(S)
      OBVIOUS
    <3> QED BY <1>1, <2>1, <2>2, <3>1
  <2> QED BY <1>0, <2>3
<1>6. RequestTypeOK'
  BY <1>2, <1>5 DEF RequestInv, RequestTypeOK, AtService
<1>7. StageInv'
  BY <1>2, <1>5 DEF RequestInv, StageInv, AtService
<1>8. SyncInv'
  <2>1. vec = <<>> /\ DOMAIN vec = {}
    BY <1>2 DEF RequestInv, StageInv
  <2> QED BY <1>2, <2>1 DEF RequestInv, SyncInv, AliasFailed, NothingFits
<1>9. LevelInv' /\ AnswersFit'
  BY <1>2 DEF RequestInv, LevelInv, AnswersFit
<1> QED BY <1>6, <1>7, <1>8, <1>9 DEF RequestInv

LEMMA SearchVectorsRequest == ASSUME DataTypeOK, RequestInv, SearchVectors PROVE RequestInv'
<1>1. /\ pc = "vector" /\ pc' = "fuse"
      /\ UNCHANGED <<backend, corpus, query, category, level, found, bm25, answer>>
  BY DEF SearchVectors, service
<1>2. /\ Neighbours \subseteq Ids /\ IsFiniteSet(Neighbours) /\ PoolN \in Nat
      /\ corpus = DealsIn(rows) => Neighbours \subseteq Fitting(corpus, query, category)
  <2>1. Neighbours \subseteq Fitting(DealsIn(rows), query, category) /\ Neighbours \subseteq Ids
    BY DEF Neighbours, Fitting, DealsIn, DataTypeOK
  <2> QED BY <2>1, SearchAssumption, FS_Subset DEF PoolN
<1>3. /\ vec' \in Seq(Ids) /\ IsInjective(vec') /\ inSync' \in BOOLEAN /\ (inSync' => inSync)
      /\ inSync' => \A k \in DOMAIN vec' : vec'[k] \in Fitting(corpus, query, category)
  <2>1. CASE vec' = <<>> /\ UNCHANGED inSync
    <3>1. <<>> \in Seq(Ids) /\ IsInjective(<<>>) /\ DOMAIN <<>> = {}
      BY DEF IsInjective
    <3> QED BY <2>1, <3>1 DEF RequestInv, RequestTypeOK
  <2>2. CASE ReadsTable /\ \E s \in SetToAllKPermutations(Neighbours) : vec' = FirstN(s, PoolN)
    <3>1. PICK s \in SetToAllKPermutations(Neighbours) : vec' = FirstN(s, PoolN)
      BY <2>2
    <3>2. s \in Seq(Neighbours) /\ IsInjective(s)
      BY <1>2, PartlyPermuted
    <3>3. vec' \in Seq(Neighbours) /\ IsInjective(vec')
      BY <1>2, <3>1, <3>2, FirstOf, FirstInjective
    <3>4. inSync' = (inSync /\ corpus = DealsIn(rows)) /\ inSync \in BOOLEAN
      BY <2>2 DEF ReadsTable, RequestInv, RequestTypeOK
    <3>5. vec' \in Seq(Ids) /\ \A k \in DOMAIN vec' : vec'[k] \in Neighbours
      BY <1>2, <3>3
    <3>6. inSync' \in BOOLEAN /\ (inSync' => inSync /\ corpus = DealsIn(rows))
      BY <3>4, Zenon
    <3> QED BY <1>2, <3>3, <3>5, <3>6
  <2> QED BY <2>1, <2>2 DEF SearchVectors
<1>4. RequestTypeOK'
  BY <1>1, <1>3 DEF RequestInv, RequestTypeOK, AtService
<1>5. StageInv'
  BY <1>1, <1>3 DEF RequestInv, StageInv, AtService
<1>6. SyncInv'
  BY <1>1, <1>3 DEF RequestInv, SyncInv, AliasFailed, NothingFits
<1>7. LevelInv' /\ AnswersFit'
  BY <1>1 DEF RequestInv, LevelInv, AnswersFit
<1> QED BY <1>4, <1>5, <1>6, <1>7 DEF RequestInv

(* What is served are deals of the corpus that a channel found or, if none *)
(* found any, that fit; and something is served if something fits.         *)
LEMMA RatedLists ==
  ASSUME DataTypeOK, RequestInv, pc = "fuse"
  PROVE  /\ Rated \in Seq(found) /\ IsInjective(Rated) /\ (found # {} => Len(Rated) > 0)
<1> DEFINE R == {p \in found \X found : BetterRated(p[1], p[2])}
<1>1. found \subseteq Ids /\ found \subseteq DOMAIN corpus
  BY DEF RequestInv, RequestTypeOK, StageInv
<1>2. found \subseteq Nat /\ IsFiniteSet(found)
  BY <1>1, SearchAssumption, FS_Subset
<1>3. \A x \in found : corpus[x].rating \in Int
  <2> TAKE x \in found
  <2>1. corpus[x] \in AllDeals
    BY <1>1 DEF DataTypeOK
  <2> QED BY <2>1, SearchAssumption DEF AllDeals
<1>4. \A x, y \in found : <<x, y>> \in R <=> BetterRated(x, y)
  OBVIOUS
<1>5. StrictOrder(found, R)
  BY <1>2, <1>3, <1>4 DEF StrictOrder, BetterRated
<1>6. Rated = Ranked(found, R)
  BY DEF Rated
<1> HIDE DEF R
<1>7. Cardinality(found) \in Nat /\ Rated \in [1..Cardinality(found) -> found] /\ IsInjective(Rated)
  BY <1>2, <1>5, <1>6, RankedLists, RankedOnce
<1>8. found # {} => Cardinality(found) > 0
  BY <1>2, <1>7, FS_EmptySet
<1> QED BY <1>7, <1>8

LEMMA FusedLists ==
  ASSUME RequestInv
  PROVE  /\ Fused \in Seq(Known) /\ IsInjective(Fused) /\ IsFiniteSet(Known) /\ Len(Fused) = Cardinality(Known)
         /\ \A i, j \in DOMAIN Fused : i < j => Above(Fused[i], Fused[j])
         /\ \A x \in Known : \E i \in DOMAIN Fused : Fused[i] = x
<1> DEFINE R == {p \in Known \X Known : Above(p[1], p[2])}
<1>1. RequestTypeOK /\ bm25 \in Seq(found) /\ vec \in Seq(Ids) /\ found \subseteq Ids
  BY DEF RequestInv, RequestTypeOK
<1>2. Known \subseteq Ids
  BY <1>1 DEF Known, ToSet
<1>3. Known \subseteq Nat /\ IsFiniteSet(Known)
  BY <1>2, SearchAssumption, FS_Subset
<1>4. StrictOrder(Known, R)
  BY <1>1, <1>3, AboveOrders
<1>5. \A x, y : <<x, y>> \in R => Above(x, y)
  OBVIOUS
<1>6. Fused = Ranked(Known, R)
  BY DEF Fused
<1> HIDE DEF R
<1>7. PICK n \in Nat : n = Cardinality(Known)
  BY <1>3, FS_CardinalityType
<1>8. /\ Fused \in [1..n -> Known]
      /\ \A i, j \in 1..n : i < j => <<Fused[i], Fused[j]>> \in R
      /\ \A x \in Known : \E i \in 1..n : Fused[i] = x
  BY <1>3, <1>4, <1>6, <1>7, RankedLists
<1>9. Fused \in Seq(Known) /\ DOMAIN Fused = 1..n /\ Len(Fused) = n
  BY <1>8
<1>10. IsInjective(Fused)
  BY <1>3, <1>4, <1>6, RankedOnce
<1> QED BY <1>3, <1>5, <1>7, <1>8, <1>9, <1>10

LEMMA ItemsOf ==
  ASSUME DataTypeOK, RequestInv, pc = "fuse"
  PROVE  /\ Items \in Seq(Known \cup found) /\ Known \cup found \subseteq Ids \cap DOMAIN corpus
         /\ found # {} /\ ToSet(vec) \subseteq found => Len(Items) > 0
<1>1. /\ bm25 \in Seq(found) /\ vec \in Seq(Ids) /\ found \subseteq Ids /\ found \subseteq DOMAIN corpus
      /\ TopK \in Nat /\ TopK > 0
  BY SearchAssumption DEF RequestInv, RequestTypeOK, StageInv
<1>2. Known \subseteq Ids /\ Known \subseteq DOMAIN corpus
  BY <1>1 DEF Known, ToSet
<1>3. CASE vec # <<>>
  <2>1. Items = FirstN(Fused, TopK)
    BY <1>3 DEF Items
  <2>2. Fused \in Seq(Known) /\ IsFiniteSet(Known) /\ Len(Fused) = Cardinality(Known)
    BY FusedLists
  <2>3. ToSet(vec) \subseteq found => Len(Fused) > 0
    <3>1. vec[1] \in ToSet(vec)
      BY <1>1, <1>3 DEF ToSet
    <3>2. ToSet(vec) \subseteq found => vec[1] \in Known
      BY <1>1, <3>1 DEF Known
    <3>3. Known # {} => Cardinality(Known) > 0
      BY <2>2, FS_EmptySet, FS_CardinalityType
    <3> QED BY <2>2, <3>2, <3>3
  <2>4. /\ FirstN(Fused, TopK) \in Seq(Known)
        /\ Len(FirstN(Fused, TopK)) = IF Len(Fused) < TopK THEN Len(Fused) ELSE TopK
    BY <1>1, <2>2, FirstOf
  <2>5. Items \in Seq(Known \cup found) /\ (Len(Fused) > 0 => Len(Items) > 0)
    BY <1>1, <2>1, <2>4
  <2> QED BY <1>1, <1>2, <2>3, <2>5
<1>4. CASE vec = <<>> /\ bm25 # <<>>
  <2>1. Items = bm25 /\ Len(bm25) > 0
    BY <1>1, <1>4 DEF Items
  <2> QED BY <1>1, <1>2, <2>1
<1>5. CASE vec = <<>> /\ bm25 = <<>>
  <2>1. Items = FirstN(Rated, TopK)
    BY <1>5 DEF Items
  <2> QED BY <1>1, <1>2, <2>1, RatedLists, FirstOf
<1> QED BY <1>3, <1>4, <1>5

LEMMA FuseRequest == ASSUME DataTypeOK, RequestInv, Fuse PROVE RequestInv'
<1>1. /\ pc = "fuse" /\ pc' = "served" /\ answer' = Serve(corpus, Items)
      /\ UNCHANGED <<backend, corpus, query, category, level, found, bm25, vec, inSync>>
  BY DEF Fuse, service
<1>2. Items \in Seq(Known \cup found) /\ Known \cup found \subseteq Ids \cap DOMAIN corpus
  BY <1>1, ItemsOf
<1>3. /\ DOMAIN answer' = DOMAIN Items
      /\ \A k \in DOMAIN answer' : answer'[k].id = Items[k] /\ answer'[k].deal = corpus[Items[k]]
  BY <1>1 DEF Serve
<1>4. \A k \in DOMAIN answer' : answer'[k].id \in Ids /\ answer'[k].deal \in AllDeals
  BY <1>2, <1>3 DEF DataTypeOK
<1>5. RequestTypeOK'
  BY <1>1, <1>4 DEF RequestInv, RequestTypeOK
<1>6. StageInv' /\ LevelInv' /\ SyncInv'
  BY <1>1 DEF RequestInv, StageInv, LevelInv, SyncInv, AtService
<1>7. AnswersFit'
  <2> SUFFICES ASSUME inSync, NEW k \in DOMAIN answer' PROVE Fits(query, category, answer'[k].deal)
    BY <1>1 DEF AnswersFit
  <2>1. /\ found = Fitting(corpus, query, category)
        /\ \A i \in DOMAIN vec : vec[i] \in Fitting(corpus, query, category)
    BY <1>1 DEF RequestInv, SyncInv
  <2>2. bm25 \in Seq(found)
    BY DEF RequestInv, RequestTypeOK
  <2>3. Known \cup found \subseteq Fitting(corpus, query, category)
    BY <2>1, <2>2 DEF Known, ToSet
  <2>4. Items[k] \in Fitting(corpus, query, category)
    BY <1>2, <1>3, <2>3
  <2> QED BY <1>3, <2>4 DEF Fitting
<1> QED BY <1>5, <1>6, <1>7 DEF RequestInv

LEMMA MatchLocallyRequest == ASSUME DataTypeOK, RequestInv, MatchLocally PROVE RequestInv'
<1> DEFINE S == Fitting(catalog, query, query.category)
<1>1. PICK s \in SetToSeqs(S) : answer' = Serve(catalog, FirstN(s, TopK))
  BY DEF MatchLocally, Orders
<1>2. /\ pc = "local" /\ pc' = "matched" /\ category' = query.category
      /\ UNCHANGED <<backend, corpus, query, level, found, bm25, vec, inSync>>
  BY DEF MatchLocally, service
<1>3. \A i \in S : i \in Ids /\ catalog[i] \in AllDeals /\ Fits(query, query.category, catalog[i])
  BY DEF DataTypeOK, Fitting
<1> HIDE DEF S
<1>4. IsFiniteSet(S) /\ TopK \in Nat
  BY <1>3, SearchAssumption, FS_Subset
<1>5. FirstN(s, TopK) \in Seq(S)
  BY <1>4, Permuted, FirstOf
<1>6. /\ DOMAIN answer' = DOMAIN FirstN(s, TopK)
      /\ \A k \in DOMAIN answer' : /\ FirstN(s, TopK)[k] \in S /\ answer'[k].id = FirstN(s, TopK)[k]
                                   /\ answer'[k].deal = catalog[FirstN(s, TopK)[k]]
  BY <1>1, <1>5 DEF Serve
<1>7. \A k \in DOMAIN answer' : /\ answer'[k].id \in Ids /\ answer'[k].deal \in AllDeals
                                /\ Fits(query, query.category, answer'[k].deal)
  BY <1>3, <1>6
<1>8. RequestTypeOK'
  BY <1>2, <1>7 DEF RequestInv, RequestTypeOK
<1>9. StageInv' /\ LevelInv' /\ SyncInv'
  BY <1>2 DEF RequestInv, StageInv, LevelInv, SyncInv, AtService
<1>10. AnswersFit'
  BY <1>2, <1>7 DEF AnswersFit
<1> QED BY <1>8, <1>9, <1>10 DEF RequestInv

LEMMA SearchStep == SearchInv /\ [Next]_vars => SearchInv'
<1> SUFFICES ASSUME SearchInv, [Next]_vars PROVE SearchInv'
  OBVIOUS
<1>1. DataInv /\ DataTypeOK /\ RequestInv
  BY DEF SearchInv
<1>2. DataInv' /\ DataTypeOK'
  BY <1>1, DataStep, DataTypeStep
<1>3. RequestInv'
  BY <1>1, DataRequest, AskRequest, FiltersRequest, SearchTextRequest, SearchVectorsRequest, FuseRequest,
     MatchLocallyRequest DEF Next, Search
<1> QED BY <1>2, <1>3 DEF SearchInv

LEMMA SearchCorrect == Spec => []SearchInv
  BY InitSearch, SearchStep, PTL DEF Spec

(* The variables of table, corpus, catalog and request stay in their       *)
(* ranges: an answer holds only ids and deals of some file, and the price  *)
(* ceiling a request filters with is never the planner's zero.             *)
THEOREM SearchTyped == Spec => []TypeOK
<1>1. SearchInv => TypeOK
  BY DEF SearchInv, RequestInv, TypeOK
<1> QED BY <1>1, SearchCorrect, PTL

(* Whatever the user is offered fits what he asked for, in the record he   *)
(* is shown, as long as the service reads a table that is its corpus.      *)
THEOREM OffersFit == Spec => []AnswersFit
<1>1. SearchInv => AnswersFit
  BY DEF SearchInv, RequestInv
<1> QED BY <1>1, SearchCorrect, PTL

(* Only the fusion serves an answer.                                       *)
LEMMA ServedByFuse == ASSUME [Next]_vars, Served PROVE Fuse
  BY DEF Served, vars, Next, Procedure, Processes, Search, EditFile, Seed, EmbedReads, EmbedCommits, EmbedAborts,
     EmbedSkips, ServiceLoads, ProbeVectors, ServiceStops, CatalogLoads, PostgresToggles, Ask, FilterExact,
     FilterAlias, FilterDropped, FilterBy, SearchText, SearchVectors, GiveUp, MatchLocally, LoseRequest, request

LEMMA ServedRelaxes == ASSUME SearchInv, Fuse, inSync PROVE Relaxes
<1>1. DataTypeOK /\ RequestInv /\ pc = "fuse" /\ answer' = Serve(corpus, Items)
  BY DEF SearchInv, Fuse
<1>2. /\ found = Fitting(corpus, query, category) /\ (found = {} => category = None)
      /\ level > 0 => NothingFits(query.category)
      /\ level = 2 => AliasFailed
      /\ \A k \in DOMAIN vec : vec[k] \in Fitting(corpus, query, category)
  BY <1>1 DEF RequestInv, SyncInv
<1>3. ToSet(vec) \subseteq found
  BY <1>2 DEF ToSet
<1>4. answer' = <<>> => found = {}
  <2>1. found # {} => Len(Items) > 0 /\ Items \in Seq(Known \cup found)
    BY <1>1, <1>3, ItemsOf
  <2>2. found # {} => 1 \in DOMAIN answer'
    BY <1>1, <2>1 DEF Serve
  <2>3. 1 \notin DOMAIN <<>>
    OBVIOUS
  <2> QED BY <2>2, <2>3
<1>5. answer' = <<>> => NothingFits(None)
  BY <1>2, <1>4 DEF NothingFits
<1> QED BY <1>2, <1>5 DEF Relaxes, AliasFailed

(* The category is given up no further than needed (relaxed_candidates).   *)
THEOREM RelaxesEnough == Spec => RelaxesNoFurther
<1>1. SearchInv /\ [Next]_vars => (Served /\ inSync => Relaxes)
  BY ServedByFuse, ServedRelaxes
<1> QED BY <1>1, SearchCorrect, PTL DEF Spec, RelaxesNoFurther

(* A deal the answer lists has every deal that dominates it before it.     *)
LEMMA ServedInOrder ==
  ASSUME SearchInv, Fuse, NEW y \in ToSet(bm25) \cup ToSet(vec), NEW x \in Ids, Dominates(x, y),
         NEW k \in DOMAIN answer', answer'[k].id = y
  PROVE  \E j \in 1..(k - 1) : answer'[j].id = x
<1>1. DataTypeOK /\ RequestInv /\ RequestTypeOK /\ pc = "fuse" /\ answer' = Serve(corpus, Items)
  BY DEF SearchInv, RequestInv, Fuse
<1>2. /\ bm25 \in Seq(found) /\ IsInjective(bm25) /\ vec \in Seq(Ids) /\ TopK \in Nat
      /\ Items \in Seq(Known \cup found)
  BY <1>1, ItemsOf, SearchAssumption DEF RequestInv, RequestTypeOK, StageInv
<1>3. DOMAIN answer' = DOMAIN Items /\ \A j \in DOMAIN Items : answer'[j].id = Items[j]
  BY <1>1 DEF Serve
<1>4. k \in DOMAIN Items /\ Items[k] = y
  BY <1>3
<1>5. /\ x \in DOMAIN corpus /\ Ahead(bm25, x, y) /\ Ahead(vec, x, y)
      /\ Contains(bm25, y) \/ Contains(vec, y)
  BY <1>2 DEF Dominates, ToSet, Contains
<1>6. SUFFICES \E j \in DOMAIN Items : j < k /\ Items[j] = x
  BY <1>2, <1>3, <1>4
<1>7. CASE vec # <<>>
  <2>1. Items = FirstN(Fused, TopK)
    BY <1>7 DEF Items
  <2>2. /\ Fused \in Seq(Known) /\ \A i, j \in DOMAIN Fused : i < j => Above(Fused[i], Fused[j])
        /\ \A z \in Known : \E i \in DOMAIN Fused : Fused[i] = z
    BY <1>1, FusedLists
  <2>3. x \in Known
    BY <1>2, <1>5 DEF Ahead, Known, ToSet, Contains
  <2>4. PICK j \in DOMAIN Fused : Fused[j] = x
    BY <2>2, <2>3
  <2>5. /\ k \in DOMAIN Fused /\ Fused[k] = y
        /\ \A i \in DOMAIN Items : i \in DOMAIN Fused /\ Items[i] = Fused[i]
        /\ Len(Items) = IF Len(Fused) < TopK THEN Len(Fused) ELSE TopK
    BY <1>2, <1>4, <2>1, <2>2, FirstOf
  <2>6. Above(x, y)
    BY <1>1, <1>5, DominatesAbove
  <2>7. y \in Known /\ Known \subseteq Nat
    BY <1>1, <2>2, <2>5, ItemsOf, SearchAssumption
  <2>8. ~Above(y, x) /\ x # y
    <3> DEFINE R == {p \in Known \X Known : Above(p[1], p[2])}
    <3>1. StrictOrder(Known, R)
      BY <1>1, <2>7, AboveOrders
    <3>2. \A u, v \in Known : <<u, v>> \in R <=> Above(u, v)
      OBVIOUS
    <3> HIDE DEF R
    <3> QED BY <2>3, <2>6, <2>7, <3>1, <3>2 DEF StrictOrder
  <2>9. j < k
    BY <2>2, <2>4, <2>5, <2>8
  <2>10. j \in DOMAIN Items /\ Items[j] = x
    BY <1>2, <1>4, <2>2, <2>4, <2>5, <2>9
  <2> QED BY <2>9, <2>10
<1>8. CASE vec = <<>> /\ bm25 # <<>>
  <2>1. Items = bm25
    BY <1>8 DEF Items
  <2>2. Contains(bm25, y) /\ bm25[k] = y /\ k \in DOMAIN bm25
    BY <1>2, <1>4, <2>1 DEF Contains
  <2>3. Contains(bm25, x) /\ Rank(bm25, x) < Rank(bm25, y)
    BY <1>5, <2>2 DEF Ahead
  <2>4. Rank(bm25, y) = k
    BY <1>2, <2>2, RankOf DEF IsInjective
  <2>5. Rank(bm25, x) \in DOMAIN bm25 /\ bm25[Rank(bm25, x)] = x
    BY <1>2, <2>3, RankOf
  <2> QED BY <2>1, <2>3, <2>4, <2>5
<1>9. CASE vec = <<>> /\ bm25 = <<>>
  BY <1>5, <1>9 DEF Contains
<1> QED BY <1>7, <1>8, <1>9

(* A deal that every channel ranks ahead of another is ahead of it in the  *)
(* answer (reciprocal rank fusion of hybrid_fuse).                         *)
THEOREM FusionOrders == Spec => FusionKeepsOrder
<1>1. SearchInv /\ [Next]_vars =>
        (Served => \A y \in ToSet(bm25) \cup ToSet(vec), x \in Ids : Dominates(x, y) =>
           \A k \in DOMAIN answer' : answer'[k].id = y => \E j \in 1..(k - 1) : answer'[j].id = x)
  BY ServedByFuse, ServedInOrder
<1> QED BY <1>1, SearchCorrect, PTL DEF Spec, FusionKeepsOrder
-----------------------------------------------------------------------------
(* The search is atomic to its caller: every step is a step of DealSearch  *)
(* or leaves it unchanged.                                                 *)

LEMMA ItemsOnce == ASSUME DataTypeOK, RequestInv, pc = "fuse" PROVE IsInjective(Items)
<1>1. bm25 \in Seq(found) /\ IsInjective(bm25) /\ TopK \in Nat
  BY SearchAssumption DEF RequestInv, RequestTypeOK, StageInv
<1>2. CASE vec # <<>>
  <2>1. Items = FirstN(Fused, TopK)
    BY <1>2 DEF Items
  <2> QED BY <1>1, <2>1, FusedLists, FirstInjective
<1>3. CASE vec = <<>> /\ bm25 # <<>>
  BY <1>1, <1>3 DEF Items
<1>4. CASE vec = <<>> /\ bm25 = <<>>
  <2>1. Items = FirstN(Rated, TopK)
    BY <1>4 DEF Items
  <2> QED BY <1>1, <2>1, RatedLists, FirstInjective
<1> QED BY <1>2, <1>3, <1>4

(* A list of ids that is served from a copy offers deals of that copy.     *)
LEMMA ServedOffers ==
  ASSUME NEW copy, NEW ids \in Seq(DOMAIN copy), IsInjective(ids), answer' = Serve(copy, ids)
  PROVE  Promise!Offers(copy) /\ Len(answer') = Len(ids)
<1>1. /\ answer' = [k \in 1..Len(ids) |-> [id |-> ids[k], deal |-> copy[ids[k]]]]
      /\ DOMAIN ids = 1..Len(ids) /\ Len(ids) \in Nat
  BY DEF Serve
<1>2. /\ DOMAIN answer' = 1..Len(ids)
      /\ \A k \in DOMAIN answer' : answer'[k].id = ids[k] /\ answer'[k].deal = copy[ids[k]]
  BY <1>1
<1>3. answer' \in Seq({[id |-> i, deal |-> copy[i]] : i \in DOMAIN copy})
  BY <1>1
<1>4. Len(answer') = Len(ids)
  BY <1>1, <1>2, <1>3
<1>5. \A k \in DOMAIN answer' : ids[k] \in DOMAIN copy
  BY <1>1, <1>2
<1>6. \A j, k \in DOMAIN answer' : j # k => answer'[j].id # answer'[k].id
  BY <1>1, <1>2 DEF IsInjective
<1> QED BY <1>2, <1>4, <1>5, <1>6 DEF Promise!Offers

LEMMA RefreshRefines ==
  ASSUME UNCHANGED request, pc \in AtService => UNCHANGED corpus,
         pc \in AtService \cup {"local"} => UNCHANGED catalog
  PROVE  Promise!Refresh
<1>1. UNCHANGED <<Status, query, Reported, answer, ~inSync>>
  BY DEF request, Status, Reported
<1>2. Status = "service" => pc \in AtService
  BY DEF Status
<1>3. Status \in {"service", "own"} => pc \in AtService \cup {"local"}
  BY DEF Status
<1> QED BY <1>1, <1>2, <1>3 DEF Promise!Refresh, Promise!question

LEMMA LoseRefines ==
  ASSUME RequestInv, LoseRequest, UNCHANGED catalog PROVE Promise!Lose
<1>1. /\ pc \in AtService /\ pc' = "local" /\ answer' = <<>> /\ inSync' = TRUE /\ UNCHANGED query
  BY DEF LoseRequest, Forget
<1>2. answer = <<>>
  BY <1>1 DEF RequestInv, StageInv, AtService
<1>3. Status = "service" /\ Status' = "own" /\ Reported = None /\ Reported' = None
  BY <1>1 DEF Status, Reported, AtService
<1> QED BY <1>1, <1>2, <1>3 DEF Promise!Lose

LEMMA AskRefines == ASSUME Ask PROVE Promise!Question
<1>1. /\ pc \in {"idle", "served", "matched"} /\ pc' \in {"local", "exact"}
      /\ answer' = <<>> /\ inSync' = TRUE /\ UNCHANGED <<corpus, catalog>>
  BY DEF Ask, Forget, service
<1>2. Status \in {"idle", "answered"} /\ Status' \in {"service", "own"} /\ Reported' = None
  BY <1>1 DEF Status, Reported, AtService
<1> QED BY <1>1, <1>2 DEF Promise!Question

(* Filters and channels are not seen, unless the table has drifted away.   *)
LEMMA SearchRefines ==
  ASSUME RequestInv, RequestInv', pc \in AtService, pc' \in AtService, inSync' => inSync,
         UNCHANGED <<query, answer, corpus, catalog>>
  PROVE  Promise!Drift \/ UNCHANGED Promise!searchVars
<1>1. Status = "service" /\ Status' = "service" /\ Reported = None /\ Reported' = None
  BY DEF Status, Reported, AtService
<1>2. inSync \in BOOLEAN /\ inSync' \in BOOLEAN
  BY DEF RequestInv, RequestTypeOK
<1>3. CASE inSync' = inSync
  BY <1>1, <1>3 DEF Promise!searchVars, Promise!question
<1>4. CASE inSync /\ ~inSync'
  BY <1>1, <1>4 DEF Promise!Drift
<1> QED BY <1>2, <1>3, <1>4

LEMMA StageRefines ==
  ASSUME DataTypeOK, RequestInv, RequestInv',
         FilterExact \/ FilterAlias \/ FilterDropped \/ SearchText \/ SearchVectors
  PROVE  Promise!Drift \/ UNCHANGED Promise!searchVars
<1>1. inSync \in BOOLEAN
  BY DEF RequestInv, RequestTypeOK
<1>2. /\ pc \in AtService /\ pc' \in AtService /\ UNCHANGED <<query, answer, corpus, catalog>>
      /\ ReadsTable \/ ReadsCorpus \/ UNCHANGED inSync
  BY DEF FilterExact, FilterAlias, FilterDropped, FilterBy, SearchText, SearchVectors, AfterAlias, AtService, service
<1>3. inSync' => inSync
  BY <1>1, <1>2, Zenon DEF ReadsTable, ReadsCorpus
<1> QED BY <1>2, <1>3, SearchRefines

LEMMA FuseRefines == ASSUME DataTypeOK, RequestInv, RequestInv', Fuse PROVE Promise!AnswerOfService
<1>1. /\ pc = "fuse" /\ pc' = "served" /\ answer' = Serve(corpus, Items)
      /\ UNCHANGED <<query, category, level, found, inSync, corpus, catalog>>
  BY DEF Fuse, service
<1>2. /\ Items \in Seq(DOMAIN corpus) /\ IsInjective(Items)
      /\ found # {} /\ ToSet(vec) \subseteq found => Len(Items) > 0
  BY <1>1, ItemsOf, ItemsOnce
<1>3. Promise!Offers(corpus) /\ Len(answer') = Len(Items)
  BY <1>1, <1>2, ServedOffers
<1>4. Status = "service" /\ Status' = "answered" /\ Reported' = category
  BY <1>1 DEF Status, Reported, AtService
<1>5. ASSUME inSync PROVE Promise!Relaxed(corpus, Reported') /\ Promise!Settles(corpus, Reported')
  <2>1. /\ found = Fitting(corpus, query, category) /\ (found = {} => category = None)
        /\ level > 0 => NothingFits(query.category)
        /\ level = 2 => AliasFailed
        /\ \A k \in DOMAIN vec : vec[k] \in Fitting(corpus, query, category)
    BY <1>1, <1>5 DEF RequestInv, SyncInv
  <2>2. \/ level = 0 /\ category = query.category
        \/ level = 1 /\ query.category \in DOMAIN Alias /\ category = Alias[query.category]
        \/ level = 2 /\ category = None
    BY <1>1 DEF RequestInv, LevelInv
  <2>3. ASSUME found = {} PROVE \A cat : NothingFits(cat)
    BY <2>1, <2>3 DEF NothingFits, Fitting, Fits
  <2>4. Promise!Relaxed(corpus, category)
    <3>1. CASE found # {}
      BY <2>1, <2>2, <3>1 DEF Promise!Relaxed, Promise!Fitting, Promise!Fits, NothingFits, AliasFailed, Fitting, Fits
    <3>2. CASE found = {}
      BY <2>1, <2>3, <3>2 DEF Promise!Relaxed, Promise!Fitting, Promise!Fits, NothingFits, Fitting, Fits
    <3> QED BY <3>1, <3>2
  <2>5. answer' = <<>> => Fitting(corpus, query, category) = {}
    <3>1. ToSet(vec) \subseteq found
      BY <2>1 DEF ToSet
    <3>2. found # {} => Len(answer') > 0
      BY <1>2, <1>3, <3>1
    <3>3. Len(<<>>) = 0
      OBVIOUS
    <3> QED BY <2>1, <3>2, <3>3
  <2>6. \A k \in DOMAIN answer' : Fits(query, category, answer'[k].deal)
    BY <1>1, <1>5 DEF RequestInv, AnswersFit
  <2>7. Promise!Settles(corpus, category)
    BY <1>4, <2>5, <2>6 DEF Promise!Settles, Promise!Fitting, Promise!Fits, Fitting, Fits
  <2> QED BY <1>4, <2>4, <2>7
<1> QED BY <1>1, <1>3, <1>4, <1>5 DEF Promise!AnswerOfService

LEMMA MatchRefines ==
  ASSUME DataTypeOK, RequestInv, RequestInv', MatchLocally PROVE Promise!AnswerOfItsOwn
<1> DEFINE S == Fitting(catalog, query, query.category)
<1>1. PICK s \in SetToSeqs(S) : answer' = Serve(catalog, FirstN(s, TopK))
  BY DEF MatchLocally, Orders
<1>2. /\ pc = "local" /\ pc' = "matched" /\ category' = query.category
      /\ UNCHANGED <<query, inSync, corpus, catalog>>
  BY DEF MatchLocally, service
<1>3. S \subseteq DOMAIN catalog /\ IsFiniteSet(S) /\ TopK \in Nat /\ TopK > 0
  <2>1. S \subseteq DOMAIN catalog
    BY DEF Fitting
  <2> QED BY <2>1, SearchAssumption, FS_Subset DEF DataTypeOK
<1> HIDE DEF S
<1>4. s \in Seq(S) /\ IsInjective(s) /\ Len(s) = Cardinality(S)
  BY <1>3, Permuted
<1>5. PICK ids : ids = FirstN(s, TopK)
  OBVIOUS
<1>6. /\ ids \in Seq(S) /\ IsInjective(ids)
      /\ Len(ids) = IF Len(s) < TopK THEN Len(s) ELSE TopK
  BY <1>3, <1>4, <1>5, FirstOf, FirstInjective
<1>7. ids \in Seq(DOMAIN catalog) /\ Len(ids) <= TopK /\ (Len(ids) = 0 => Len(s) = 0)
  BY <1>3, <1>4, <1>6
<1>8. Promise!Offers(catalog) /\ Len(answer') = Len(ids)
  BY <1>1, <1>5, <1>6, <1>7, ServedOffers
<1>9. answer' = <<>> => S = {}
  <2>1. answer' = <<>> => Len(ids) = 0
    BY <1>8
  <2>2. Cardinality(S) = 0 => S = {}
    BY <1>3, FS_EmptySet
  <2> QED BY <1>4, <1>7, <2>1, <2>2
<1>10. \A k \in DOMAIN answer' : Fits(query, query.category, answer'[k].deal)
  BY <1>2 DEF RequestInv, AnswersFit
<1>11. Status = "own" /\ Status' = "answered" /\ Reported' = query.category
  BY <1>2 DEF Status, Reported, AtService
<1>12. Promise!Settles(catalog, query.category)
  BY <1>9, <1>10, <1>11 DEF Promise!Settles, Promise!Fitting, Promise!Fits, Fitting, Fits, S
<1> QED BY <1>2, <1>7, <1>8, <1>11, <1>12 DEF Promise!AnswerOfItsOwn

LEMMA SearchStepRefines ==
  SearchInv /\ SearchInv' /\ [Next]_vars => [Promise!SearchNext]_(Promise!searchVars)
<1> SUFFICES ASSUME SearchInv, SearchInv', [Next]_vars PROVE Promise!SearchNext \/ UNCHANGED Promise!searchVars
  OBVIOUS
<1> USE DEF Promise!SearchNext
<1>1. DataTypeOK /\ RequestInv /\ RequestInv'
  BY DEF SearchInv
<1>2. CASE Procedure \/ PostgresToggles \/ ProbeVectors \/ UNCHANGED vars
  <2>1. UNCHANGED <<request, corpus, catalog>>
    BY <1>2 DEF Procedure, EditFile, Seed, EmbedReads, EmbedCommits, EmbedAborts, EmbedSkips, PostgresToggles,
       ProbeVectors, service, vars
  <2> QED BY <2>1, RefreshRefines
<1>3. CASE ServiceLoads
  <2>1. backend = "down" /\ UNCHANGED <<request, catalog>>
    BY <1>3 DEF ServiceLoads
  <2>2. pc \notin AtService
    BY <1>1, <2>1 DEF RequestInv, StageInv
  <2> QED BY <2>1, <2>2, RefreshRefines
<1>4. CASE ServiceStops
  <2>1. UNCHANGED catalog /\ (LoseRequest \/ (pc \notin AtService /\ UNCHANGED request))
    BY <1>4 DEF ServiceStops
  <2> QED BY <1>1, <2>1, LoseRefines, RefreshRefines
<1>5. CASE CatalogLoads
  <2>1. pc \in {"idle", "served", "matched"} /\ UNCHANGED <<request, corpus>>
    BY <1>5 DEF CatalogLoads, service
  <2> QED BY <2>1, RefreshRefines DEF AtService
<1>6. CASE GiveUp
  BY <1>1, <1>6, LoseRefines DEF GiveUp
<1>7. CASE Ask
  BY <1>7, AskRefines
<1>8. CASE FilterExact \/ FilterAlias \/ FilterDropped \/ SearchText \/ SearchVectors
  BY <1>1, <1>8, StageRefines
<1>9. CASE Fuse
  BY <1>1, <1>9, FuseRefines
<1>10. CASE MatchLocally
  BY <1>1, <1>10, MatchRefines
<1> QED BY <1>2, <1>3, <1>4, <1>5, <1>6, <1>7, <1>8, <1>9, <1>10 DEF Next, Processes, Search

(* The deal search keeps the promise of DealSearch: to its caller it is    *)
(* one look at one copy of the deals (DealRetriever::Execute and           *)
(* retrieve_deals).                                                        *)
THEOREM SearchIsAtomic == Spec => ImplementsDealSearch
<1>1. Init => Promise!SearchInit
  BY DEF Init, Promise!SearchInit, Status, Reported
<1> QED BY <1>1, SearchCorrect, SearchStepRefines, PTL DEF Spec, ImplementsDealSearch, Promise!SearchSpec
=============================================================================

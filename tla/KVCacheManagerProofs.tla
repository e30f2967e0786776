------------------------ MODULE KVCacheManagerProofs ------------------------
(***************************************************************************)
(* Proofs about KVCacheManager: its invariants hold for every number of     *)
(* blocks and requests, every block size and every model length.            *)
(*                                                                         *)
(* The state is first seen as a pool p and a family t of block tables       *)
(* (Accounted(p, t)), so that the stages of allocate_slots, which never     *)
(* appear as states of the specification, can be followed one by one.       *)
(* The lemmas on the operators of BlockPool come first: what taking,        *)
(* freeing, touching and caching blocks does to the queue, the reference    *)
(* counts and the hashes.                                                   *)
(***************************************************************************)
EXTENDS KVCacheManager, FiniteSetTheorems, SequenceTheorems, TLAPS

-----------------------------------------------------------------------------
(* Subsequences *)

\* The rank of an element within a finite set of integers is a bijection onto
\* 1 .. Cardinality: it is injective because a larger element counts strictly
\* more, hence surjective by the pigeonhole principle.
LEMMA RankIsBijective ==
    ASSUME NEW n \in Nat, NEW K \in SUBSET (1 .. n)
    PROVE  /\ IsFiniteSet(K)
           /\ Cardinality(K) \in Nat
           /\ \A i \in K : Rank(K, i) \in 1 .. Cardinality(K)
           /\ \A i, j \in K : Rank(K, i) = Rank(K, j) => i = j
           /\ \A j \in 1 .. Cardinality(K) : \E i \in K : Rank(K, i) = j
<1> DEFINE Below(i) == {k \in K : k <= i}
<1>1. IsFiniteSet(K) /\ Cardinality(K) \in Nat
  BY FS_Interval, FS_Subset, FS_CardinalityType, 1 \in Int, n \in Int, Zenon
<1>2. \A i \in K : IsFiniteSet(Below(i)) /\ Cardinality(Below(i)) \in 1 .. Cardinality(K)
  <2> TAKE i \in K
  <2>1. IsFiniteSet(Below(i)) /\ Cardinality(Below(i)) <= Cardinality(K)
    BY <1>1, FS_Subset, Below(i) \in SUBSET K
  <2>2. Cardinality(Below(i)) \in Nat
    BY <2>1, FS_CardinalityType
  <2>3. i \in Below(i)
    BY K \subseteq Int
  <2>4. Cardinality(Below(i)) # 0
    BY <2>1, <2>3, FS_EmptySet
  <2> QED BY <1>1, <2>1, <2>2, <2>4
<1>3. \A i, j \in K : i < j => Cardinality(Below(i)) < Cardinality(Below(j))
  <2> SUFFICES ASSUME NEW i \in K, NEW j \in K, i < j
               PROVE  Cardinality(Below(i)) < Cardinality(Below(j))
    OBVIOUS
  <2>0. \A k \in K : k <= i => k <= j
    BY K \subseteq Int
  <2>1. Below(i) \in SUBSET Below(j)
    BY <2>0, Zenon
  <2>2. j \in Below(j) /\ j \notin Below(i)
    BY K \subseteq Int
  <2>3. Cardinality(Below(i)) <= Cardinality(Below(j))
        /\ (Cardinality(Below(j)) = Cardinality(Below(i)) => Below(j) = Below(i))
    BY <1>2, <2>1, FS_Subset
  <2> QED BY <1>2, <2>2, <2>3
<1>4. \A i, j \in K : Cardinality(Below(i)) = Cardinality(Below(j)) => i = j
  <2> SUFFICES ASSUME NEW i \in K, NEW j \in K,
                      Cardinality(Below(i)) = Cardinality(Below(j)), i # j
               PROVE  FALSE
    OBVIOUS
  <2>1. CASE i < j
    BY <2>1, <1>2, <1>3
  <2>2. CASE j < i
    BY <2>2, <1>2, <1>3
  <2> QED BY <2>1, <2>2, K \subseteq Int
<1>5. ASSUME NEW j \in 1 .. Cardinality(K), \A i \in K : Cardinality(Below(i)) # j
      PROVE  FALSE
  <2> DEFINE T == (1 .. Cardinality(K)) \ {j}
             f == [i \in K |-> Cardinality(Below(i))]
  <2>1. IsFiniteSet(1 .. Cardinality(K))
        /\ Cardinality(1 .. Cardinality(K)) = Cardinality(K)
    BY <1>1, FS_Interval
  <2>2. IsFiniteSet(T) /\ Cardinality(T) = Cardinality(K) - 1
    BY <2>1, FS_RemoveElement, Zenon
  <2>3. f \in [K -> T]
    BY <1>2, <1>5
  <2>4. Cardinality(T) < Cardinality(K)
    BY <1>1, <2>2
  <2> HIDE DEF T, f
  <2>5. \E x, y \in K : x # y /\ f[x] = f[y]
    BY <1>1, <2>2, <2>3, <2>4, FS_PigeonHole, Zenon
  <2> QED BY <2>5, <1>4 DEF f
<1> QED BY <1>1, <1>2, <1>4, <1>5, Zenon DEF Rank

\* Select keeps exactly the elements in S, at most once each if s is injective.
LEMMA SelectProperties ==
    ASSUME NEW A, NEW s \in Seq(A), NEW S
    PROVE  /\ Select(s, S) \in Seq(A)
           /\ Range(Select(s, S)) = Range(s) \cap S
           /\ IsInjectiveSeq(s) => IsInjectiveSeq(Select(s, S))
           /\ Len(Select(s, S)) = Cardinality(Selected(s, S))
<1> DEFINE K == {i \in DOMAIN s : s[i] \in S}
           At(j) == CHOOSE i \in K : Rank(K, i) = j
           t == [j \in 1 .. Cardinality(K) |-> s[At(j)]]
<1>1. DOMAIN s = 1 .. Len(s) /\ Len(s) \in Nat /\ K \in SUBSET (1 .. Len(s))
  OBVIOUS
<1>2. t = Select(s, S)
  BY DEF Select, Selected
<1> HIDE DEF K
<1>3. /\ Cardinality(K) \in Nat
      /\ \A i \in K : Rank(K, i) \in 1 .. Cardinality(K)
      /\ \A i, j \in K : Rank(K, i) = Rank(K, j) => i = j
      /\ \A j \in 1 .. Cardinality(K) : \E i \in K : Rank(K, i) = j
  BY <1>1, RankIsBijective, Zenon
<1>4. \A j \in 1 .. Cardinality(K) : At(j) \in K /\ Rank(K, At(j)) = j
  BY <1>3
<1>5. \A i \in K : At(Rank(K, i)) = i
  BY <1>3, <1>4
<1> HIDE DEF At
<1>6. \A i \in K : s[i] \in A /\ s[i] \in S /\ i \in DOMAIN s
  BY DEF K
<1>7. t \in Seq(A) /\ Len(t) = Cardinality(K)
  BY <1>3, <1>4, <1>6
<1>8. Range(t) = Range(s) \cap S
  <2>1. Range(t) \subseteq Range(s) \cap S
    BY <1>4, <1>6 DEF Range
  <2>2. ASSUME NEW x \in Range(s) \cap S
        PROVE  x \in Range(t)
    <3>1. PICK i \in K : s[i] = x
      BY DEF Range, K
    <3>2. Rank(K, i) \in DOMAIN t /\ t[Rank(K, i)] = x
      BY <3>1, <1>3, <1>5
    <3> QED BY <3>2 DEF Range
  <2> QED BY <2>1, <2>2
<1>9. ASSUME IsInjectiveSeq(s)
      PROVE  IsInjectiveSeq(t)
  BY <1>9, <1>4, <1>6 DEF IsInjectiveSeq
<1> QED BY <1>2, <1>7, <1>8, <1>9, Zenon DEF K, Selected

\* Reversing a sequence keeps its elements.
LEMMA BackwardsProperties ==
    ASSUME NEW A, NEW s \in Seq(A)
    PROVE  /\ Backwards(s) \in Seq(A)
           /\ Range(Backwards(s)) = Range(s)
           /\ IsInjectiveSeq(s) => IsInjectiveSeq(Backwards(s))
<1>1. Backwards(s) \in Seq(A) /\ Len(Backwards(s)) = Len(s)
  BY DEF Backwards
<1>2. \A i \in 1 .. Len(s) : /\ Len(s) + 1 - i \in 1 .. Len(s)
                              /\ Backwards(s)[i] = s[Len(s) + 1 - i]
                              /\ Backwards(s)[Len(s) + 1 - i] = s[i]
  BY DEF Backwards
<1>3. DOMAIN s = 1 .. Len(s) /\ DOMAIN Backwards(s) = 1 .. Len(s)
  BY <1>1
<1>4. Range(Backwards(s)) = Range(s)
  BY <1>2, <1>3 DEF Range
<1>5. IsInjectiveSeq(s) => IsInjectiveSeq(Backwards(s))
  BY <1>2, <1>3 DEF IsInjectiveSeq
<1> QED BY <1>1, <1>4, <1>5

\* Two injective sequences without a common element concatenate injectively.
LEMMA ConcatProperties2 ==
    ASSUME NEW A, NEW s \in Seq(A), NEW t \in Seq(A)
    PROVE  /\ s \o t \in Seq(A)
           /\ Range(s \o t) = Range(s) \cup Range(t)
           /\ IsInjectiveSeq(s) /\ IsInjectiveSeq(t) /\ Range(s) \cap Range(t) = {}
                => IsInjectiveSeq(s \o t)
<1>1. s \o t \in Seq(A) /\ Len(s \o t) = Len(s) + Len(t)
  OBVIOUS
<1>2. Range(s \o t) = Range(s) \cup Range(t)
  BY RangeConcatenation
<1>3. ASSUME IsInjectiveSeq(s), IsInjectiveSeq(t), Range(s) \cap Range(t) = {},
             NEW i \in DOMAIN (s \o t), NEW j \in DOMAIN (s \o t),
             (s \o t)[i] = (s \o t)[j]
      PROVE  i = j
  <2>1. \A k \in 1 .. Len(s) : (s \o t)[k] = s[k] /\ s[k] \in Range(s)
    BY DEF Range
  <2>2. \A k \in Len(s) + 1 .. Len(s) + Len(t) :
          /\ (s \o t)[k] = t[k - Len(s)] /\ k - Len(s) \in DOMAIN t
          /\ t[k - Len(s)] \in Range(t)
    BY DEF Range
  <2>3. i \in 1 .. Len(s) + Len(t) /\ j \in 1 .. Len(s) + Len(t)
    BY <1>1
  <2>4. CASE i <= Len(s) /\ j <= Len(s)
    BY <1>3, <2>1, <2>3, <2>4 DEF IsInjectiveSeq
  <2>5. CASE i > Len(s) /\ j > Len(s)
    BY <1>3, <2>2, <2>3, <2>5 DEF IsInjectiveSeq
  <2>6. CASE i <= Len(s) /\ j > Len(s)
    BY <1>3, <2>1, <2>2, <2>3, <2>6
  <2>7. CASE i > Len(s) /\ j <= Len(s)
    BY <1>3, <2>1, <2>2, <2>3, <2>7
  <2> QED BY <2>3, <2>4, <2>5, <2>6, <2>7
<1> QED BY <1>1, <1>2, <1>3 DEF IsInjectiveSeq

\* Cutting an injective sequence in two splits its elements.
LEMMA SplitProperties ==
    ASSUME NEW A, NEW s \in Seq(A), NEW n \in 0 .. Len(s), IsInjectiveSeq(s)
    PROVE  /\ SubSeq(s, 1, n) \in Seq(A)
           /\ SubSeq(s, n + 1, Len(s)) \in Seq(A)
           /\ Len(SubSeq(s, 1, n)) = n
           /\ IsInjectiveSeq(SubSeq(s, 1, n))
           /\ IsInjectiveSeq(SubSeq(s, n + 1, Len(s)))
           /\ Range(SubSeq(s, 1, n)) \subseteq Range(s)
           /\ Range(SubSeq(s, n + 1, Len(s))) = Range(s) \ Range(SubSeq(s, 1, n))
<1> DEFINE u == SubSeq(s, 1, n)
           v == SubSeq(s, n + 1, Len(s))
<1>1. u \in Seq(A) /\ Len(u) = n /\ \A i \in 1 .. n : u[i] = s[i] /\ i \in DOMAIN s
  OBVIOUS
<1>2. /\ v \in Seq(A) /\ Len(v) = Len(s) - n
      /\ \A i \in 1 .. Len(s) - n : v[i] = s[n + i] /\ n + i \in DOMAIN s
  OBVIOUS
<1> HIDE DEF u, v
<1>3. IsInjectiveSeq(u) /\ IsInjectiveSeq(v)
  <2>1. DOMAIN u = 1 .. n /\ DOMAIN v = 1 .. Len(s) - n
    BY <1>1, <1>2
  <2>2. IsInjectiveSeq(u)
    BY <1>1, <2>1 DEF IsInjectiveSeq
  <2>3. \A i, j \in 1 .. Len(s) - n : n + i = n + j => i = j
    OBVIOUS
  <2>4. IsInjectiveSeq(v)
    BY <1>2, <2>1, <2>3, Zenon DEF IsInjectiveSeq
  <2> QED BY <2>2, <2>4
<1>4. Range(u) = {s[i] : i \in 1 .. n}
  BY <1>1 DEF Range
<1>5. Range(v) = {s[i] : i \in n + 1 .. Len(s)}
  <2>1. \A i \in n + 1 .. Len(s) : i - n \in DOMAIN v /\ v[i - n] = s[i]
    BY <1>2
  <2>2. \A i \in DOMAIN v : n + i \in n + 1 .. Len(s) /\ v[i] = s[n + i]
    BY <1>2
  <2> QED BY <2>1, <2>2 DEF Range
<1>6. Range(s) = {s[i] : i \in 1 .. Len(s)}
  BY DEF Range
<1>7. \A i \in 1 .. n, j \in n + 1 .. Len(s) : s[i] # s[j]
  BY DEF IsInjectiveSeq
<1>8. 1 .. Len(s) = (1 .. n) \cup (n + 1 .. Len(s))
  OBVIOUS
<1>9. Range(v) = Range(s) \ Range(u) /\ Range(u) \subseteq Range(s)
  BY <1>4, <1>5, <1>6, <1>7, <1>8
<1> QED BY <1>1, <1>2, <1>3, <1>9 DEF u, v

-----------------------------------------------------------------------------
(* The operations preserve what a pool always satisfies *)

\* Evicting takes exactly the given blocks out of the prefix cache.
LEMMA EvictProperties ==
    ASSUME NEW H, NoHash \notin H, NEW p, IsPool(p, H), MapIsExact(p),
           NEW S \in SUBSET Blocks
    PROVE  LET q == maybe_evict_cached_blocks(p, S) IN
           /\ IsPool(q, H) /\ MapIsExact(q)
           /\ q.free = p.free /\ q.ref_cnt = p.ref_cnt
           /\ \A b \in Blocks : q.block_hash[b] =
                                 IF b \in S THEN NoHash ELSE p.block_hash[b]
<1> DEFINE E == {b \in S : <<p.block_hash[b], b>> \in p.cached}
           q == maybe_evict_cached_blocks(p, S)
           gone == {<<p.block_hash[b], b>> : b \in E}
           bh == [b \in Blocks |-> IF b \in E THEN NoHash ELSE p.block_hash[b]]
<1>1. /\ q = [p EXCEPT !.block_hash = bh, !.cached = p.cached \ gone]
      /\ q.ref_cnt = p.ref_cnt /\ q.free = p.free
      /\ q.block_hash = bh /\ q.cached = p.cached \ gone
  BY DEF maybe_evict_cached_blocks, IsPool
<1>2. \A b \in S : b \in E <=> p.block_hash[b] # NoHash
  BY DEF MapIsExact, IsPool
<1>3. \A b \in Blocks : bh[b] = IF b \in S THEN NoHash ELSE p.block_hash[b]
  BY <1>2
<1>4. bh \in [Blocks -> H \cup {NoHash}]
  BY DEF IsPool
<1>5. p.cached \ gone = {<<bh[b], b>> : b \in {c \in Blocks : bh[c] # NoHash}}
  <2>1. gone = {<<p.block_hash[b], b>> : b \in {c \in S : p.block_hash[c] # NoHash}}
    BY <1>2, Zenon
  <2>2. \A b \in Blocks : bh[b] # NoHash <=> b \notin S /\ p.block_hash[b] # NoHash
    BY <1>3
  <2>3. \A b \in Blocks : b \notin S => bh[b] = p.block_hash[b]
    BY <1>3
  <2> HIDE DEF bh, gone
  <2> QED BY <2>1, <2>2, <2>3 DEF MapIsExact
<1> HIDE DEF bh, gone
<1>6. IsPool(q, H)
  BY <1>1, <1>4, Zenon DEF IsPool
<1>7. MapIsExact(q)
  BY <1>1, <1>5 DEF MapIsExact
<1> QED BY <1>1, <1>3, <1>6, <1>7

\* get_new_blocks takes blocks nobody holds and leaves them with one holder and
\* no hash.
LEMMA GetNewBlocksProperties ==
    ASSUME NEW H, NoHash \notin H, NEW p, IsPool(p, H), FreeIsExact(p), MapIsExact(p),
           NEW n \in 0 .. Len(p.free)
    PROVE  LET q == get_new_blocks(p, n)
               new == new_blocks(p, n)
           IN  /\ IsPool(q, H) /\ FreeIsExact(q) /\ MapIsExact(q)
               /\ new \in Seq(Blocks) /\ Len(new) = n /\ IsInjectiveSeq(new)
               /\ \A b \in Range(new) : b # NullBlock /\ p.ref_cnt[b] = 0
               /\ \A b \in Blocks :
                    /\ q.ref_cnt[b] = IF b \in Range(new) THEN p.ref_cnt[b] + 1
                                                         ELSE p.ref_cnt[b]
                    /\ q.block_hash[b] = IF b \in Range(new) THEN NoHash
                                                            ELSE p.block_hash[b]
<1> DEFINE new == new_blocks(p, n)
           N == Range(new)
           e == maybe_evict_cached_blocks(p, N)
           q == get_new_blocks(p, n)
           rest == SubSeq(p.free, n + 1, Len(p.free))
           cnt == [b \in Blocks |-> IF b \in N THEN p.ref_cnt[b] + 1 ELSE p.ref_cnt[b]]
<1>1. p.free \in Seq(Blocks) /\ IsInjectiveSeq(p.free)
  BY DEF IsPool, FreeIsExact
<1>2. /\ new \in Seq(Blocks) /\ Len(new) = n /\ IsInjectiveSeq(new)
      /\ rest \in Seq(Blocks) /\ IsInjectiveSeq(rest)
      /\ N \subseteq Range(p.free) /\ Range(rest) = Range(p.free) \ N
  BY <1>1, SplitProperties DEF new_blocks
<1>3. \A b \in N : b \in Blocks /\ b # NullBlock /\ p.ref_cnt[b] = 0
  BY <1>2 DEF FreeIsExact
<1> HIDE DEF new, rest
<1>4. /\ IsPool(e, H) /\ MapIsExact(e) /\ e.free = p.free /\ e.ref_cnt = p.ref_cnt
      /\ \A b \in Blocks : e.block_hash[b] = IF b \in N THEN NoHash ELSE p.block_hash[b]
  BY <1>3, EvictProperties
<1>5. q = [e EXCEPT !.free = rest, !.ref_cnt = cnt]
  BY DEF get_new_blocks, new, rest
<1>6. cnt \in [Blocks -> Nat]
  BY DEF IsPool
<1> HIDE DEF e, q, cnt
<1>7. /\ IsPool(q, H)
      /\ q.ref_cnt = cnt /\ q.free = rest
      /\ q.block_hash = e.block_hash /\ q.cached = e.cached
  BY <1>2, <1>4, <1>5, <1>6, Zenon DEF IsPool
<1>8. MapIsExact(q)
  BY <1>4, <1>7 DEF MapIsExact
<1>9. FreeIsExact(q)
  <2>1. Range(rest) = {b \in Blocks \ {NullBlock} : cnt[b] = 0}
    BY <1>2, <1>3 DEF FreeIsExact, IsPool, cnt
  <2> QED BY <1>2, <1>7, <2>1 DEF FreeIsExact
<1> QED BY <1>2, <1>3, <1>4, <1>7, <1>8, <1>9 DEF new, cnt, q

\* touch gives every hit block one more holder and takes the idle ones off the
\* free queue, which gets shorter by exactly their number.
LEMMA TouchProperties ==
    ASSUME NEW H, NEW p, IsPool(p, H), FreeIsExact(p), MapIsExact(p),
           NEW hit \in Seq(Blocks), IsInjectiveSeq(hit), NullBlock \notin Range(hit)
    PROVE  LET q == touch(p, hit) IN
           /\ IsPool(q, H) /\ FreeIsExact(q) /\ MapIsExact(q)
           /\ q.block_hash = p.block_hash
           /\ \A b \in Blocks :
                q.ref_cnt[b] = IF b \in Range(hit) THEN p.ref_cnt[b] + 1 ELSE p.ref_cnt[b]
           /\ Len(q.free) = Len(p.free) - Cardinality(idle_positions(p, hit))
<1> DEFINE h == Range(hit)
           idle == {b \in h : p.ref_cnt[b] = 0 /\ b # NullBlock}
           left == Select(p.free, Blocks \ idle)
           cnt == [b \in Blocks |-> IF b \in h THEN p.ref_cnt[b] + 1 ELSE p.ref_cnt[b]]
           q == touch(p, hit)
<1>1. p.free \in Seq(Blocks) /\ IsInjectiveSeq(p.free) /\ p.ref_cnt \in [Blocks -> Nat]
  BY DEF IsPool, FreeIsExact
<1>2. h \subseteq Blocks
  BY RangeOfSeq
<1>3. /\ left \in Seq(Blocks) /\ IsInjectiveSeq(left)
      /\ Range(left) = Range(p.free) \cap (Blocks \ idle)
      /\ Len(left) = Cardinality({i \in DOMAIN p.free : p.free[i] \in Blocks \ idle})
  <2> DEFINE S == Blocks \ idle
             f == p.free
  <2> HIDE DEF S, f
  <2>1. f \in Seq(Blocks) /\ IsInjectiveSeq(f)
    BY <1>1 DEF f
  <2>2. /\ Select(f, S) \in Seq(Blocks) /\ IsInjectiveSeq(Select(f, S))
        /\ Range(Select(f, S)) = Range(f) \cap S
    BY <2>1, SelectProperties
  <2>3. Len(Select(f, S)) = Cardinality(Selected(f, S))
    BY <2>1, SelectProperties
  <2> QED BY <2>2, <2>3 DEF S, f, Selected
<1>4. cnt \in [Blocks -> Nat]
  BY <1>1
<1>5. q = [p EXCEPT !.free = left, !.ref_cnt = cnt]
  BY DEF touch
<1> HIDE DEF q, left, cnt
<1>6. /\ IsPool(q, H)
      /\ q.ref_cnt = cnt /\ q.free = left
      /\ q.block_hash = p.block_hash /\ q.cached = p.cached
  BY <1>3, <1>4, <1>5, Zenon DEF IsPool
<1>7. MapIsExact(q)
  BY <1>6 DEF MapIsExact
<1>8. FreeIsExact(q)
  <2>1. Range(left) = {b \in Blocks \ {NullBlock} : cnt[b] = 0}
    BY <1>1, <1>2, <1>3 DEF FreeIsExact, cnt
  <2> QED BY <1>3, <1>6, <2>1 DEF FreeIsExact
<1>9. Len(left) = Len(p.free) - Cardinality(idle_positions(p, hit))
  <2> DEFINE F == {i \in DOMAIN p.free : p.free[i] \in Blocks \ idle}
             G == {i \in DOMAIN p.free : p.free[i] \in idle}
             I == {i \in DOMAIN hit : p.ref_cnt[hit[i]] = 0 /\ hit[i] # NullBlock}
             f == [i \in I |-> CHOOSE g \in G : p.free[g] = hit[i]]
  <2>1. DOMAIN p.free = 1 .. Len(p.free) /\ Len(p.free) \in Nat
    BY <1>1
  <2>2. IsFiniteSet(DOMAIN p.free) /\ Cardinality(DOMAIN p.free) = Len(p.free)
    BY <2>1, FS_Interval
  <2>3. F = DOMAIN p.free \ G /\ G = DOMAIN p.free \cap G
    BY <1>1, <1>2
  <2>4. Cardinality(F) = Len(p.free) - Cardinality(G)
    <3> DEFINE D == DOMAIN p.free
    <3> HIDE DEF F, G, D
    <3>1. IsFiniteSet(D) /\ Cardinality(D) = Len(p.free) /\ F = D \ G /\ G = D \cap G
      BY <2>2, <2>3 DEF D
    <3>2. Cardinality(D \ G) = Cardinality(D) - Cardinality(D \cap G)
      BY <3>1, FS_Difference, Zenon
    <3> QED BY <3>1, <3>2, Zenon
  <2>5. IsFiniteSet(G)
    BY <2>2, FS_Subset, G \in SUBSET DOMAIN p.free
  <2>6. \A i \in I : \E g \in G : p.free[g] = hit[i]
    <3> TAKE i \in I
    <3>1. hit[i] \in idle
      BY DEF Range
    <3>2. hit[i] \in Range(p.free)
      BY <3>1, <1>2, ZenonT(30) DEF FreeIsExact
    <3> QED BY <3>1, <3>2 DEF Range
  <2>7. \A i \in I : f[i] \in G /\ p.free[f[i]] = hit[i]
    BY <2>6
  <2>8. \A i, j \in I : f[i] = f[j] => i = j
    <3> HIDE DEF f
    <3>1. \A i, j \in I : f[i] = f[j] => hit[i] = hit[j]
      BY <2>7
    <3> QED BY <3>1 DEF IsInjectiveSeq
  <2>9. \A g \in G : \E i \in I : f[i] = g
    <3> TAKE g \in G
    <3>1. PICK i \in DOMAIN hit : hit[i] = p.free[g]
      BY DEF Range
    <3>2. i \in I
      BY <3>1
    <3> QED BY <3>1, <3>2, <2>7, <1>1, ZenonT(30) DEF IsInjectiveSeq
  <2> HIDE DEF f, G, I, F
  <2>10. f \in Injection(I, G) /\ f \in Surjection(I, G)
    BY <2>7, <2>8, <2>9, f \in [I -> G], Zenon DEF Injection, Surjection, IsInjective, f
  <2>11. Cardinality(I) = Cardinality(G)
    BY <2>5, <2>10, FS_Injection
  <2> QED BY <1>3, <2>4, <2>11 DEF F, I, idle_positions
<1> QED BY <1>6, <1>7, <1>8, <1>9 DEF cnt, q

\* free_blocks takes one holder from every block of a list of held blocks.
LEMMA FreeBlocksProperties ==
    ASSUME NEW H, NEW p, IsPool(p, H), FreeIsExact(p), MapIsExact(p),
           NEW bs \in Seq(Blocks), IsInjectiveSeq(bs),
           \A b \in Range(bs) : p.ref_cnt[b] > 0 /\ b # NullBlock
    PROVE  LET q == free_blocks(p, bs) IN
           /\ IsPool(q, H) /\ FreeIsExact(q) /\ MapIsExact(q)
           /\ q.block_hash = p.block_hash
           /\ \A b \in Blocks :
                q.ref_cnt[b] = IF b \in Range(bs) THEN p.ref_cnt[b] - 1 ELSE p.ref_cnt[b]
<1> DEFINE d == Range(bs)
           cnt == [b \in Blocks |-> IF b \in d THEN p.ref_cnt[b] - 1 ELSE p.ref_cnt[b]]
           Z == {b \in Blocks : cnt[b] = 0 /\ b # NullBlock}
           back == Select(bs, Z)
           q == free_blocks(p, bs)
<1>1. p.free \in Seq(Blocks) /\ IsInjectiveSeq(p.free) /\ p.ref_cnt \in [Blocks -> Nat]
  BY DEF IsPool, FreeIsExact
<1>2. d \subseteq Blocks
  BY RangeOfSeq
<1>3. cnt \in [Blocks -> Nat]
  BY <1>1
<1>4. back \in Seq(Blocks) /\ IsInjectiveSeq(back) /\ Range(back) = d \cap Z
  BY SelectProperties, SMTT(30)
<1>5. q = [p EXCEPT !.ref_cnt = cnt, !.free = p.free \o back]
  BY DEF free_blocks
<1>6. Range(p.free) \cap Range(back) = {}
  <2> HIDE DEF back, Z
  <2>1. \A b \in Range(back) : p.ref_cnt[b] # 0
    BY <1>1, <1>2, <1>4
  <2>2. \A b \in Range(p.free) : p.ref_cnt[b] = 0
    BY DEF FreeIsExact
  <2> QED BY <2>1, <2>2
<1> HIDE DEF q, back, cnt
<1>7. /\ p.free \o back \in Seq(Blocks) /\ IsInjectiveSeq(p.free \o back)
      /\ Range(p.free \o back) = Range(p.free) \cup Range(back)
  BY <1>1, <1>4, <1>6, ConcatProperties2
<1>8. /\ IsPool(q, H)
      /\ q.ref_cnt = cnt /\ q.free = p.free \o back
      /\ q.block_hash = p.block_hash /\ q.cached = p.cached
  BY <1>3, <1>5, <1>7, Zenon DEF IsPool
<1>9. MapIsExact(q)
  BY <1>8 DEF MapIsExact
<1>10. FreeIsExact(q)
  <2>1. Range(p.free \o back) = {b \in Blocks \ {NullBlock} : cnt[b] = 0}
    BY <1>1, <1>2, <1>4, <1>7 DEF FreeIsExact, cnt
  <2> QED BY <1>7, <1>8, <2>1 DEF FreeIsExact
<1> QED BY <1>8, <1>9, <1>10 DEF cnt, q

\* The blocks lo + 1 .. hi of a block table: none of them is cached.
CanBeCached(p, bs, hash, lo, hi, H) ==
    /\ NoHash \notin H /\ IsPool(p, H) /\ MapIsExact(p)
    /\ bs \in Seq(Blocks) /\ IsInjectiveSeq(bs) /\ NullBlock \notin Range(bs)
    /\ lo \in Nat /\ hi \in 0 .. Len(bs)
    /\ \A i \in lo + 1 .. hi : hash[i] \in H
    /\ \A i \in lo + 1 .. hi : p.block_hash[bs[i]] = NoHash

\* From p to q they get their hashes, and nothing else changes.
NewlyCached(p, q, bs, hash, lo, hi, H) ==
    /\ IsPool(q, H) /\ MapIsExact(q)
    /\ q.free = p.free /\ q.ref_cnt = p.ref_cnt
    /\ \A i \in lo + 1 .. hi : q.block_hash[bs[i]] = hash[i]
    /\ \A b \in Blocks : (\A i \in lo + 1 .. hi : bs[i] # b)
                            => q.block_hash[b] = p.block_hash[b]

\* cache_full_blocks gives the blocks lo + 1 .. hi of a block table, none of
\* which is cached, their hashes, and touches nothing else.
LEMMA CacheFullBlocksProperties ==
    ASSUME NEW H, NEW p, NEW bs, NEW lo, NEW hi, NEW hash,
           CanBeCached(p, bs, hash, lo, hi, H)
    PROVE  NewlyCached(p, cache_full_blocks(p, bs, hash, lo, hi), bs, hash, lo, hi, H)
<1>a. /\ NoHash \notin H /\ IsPool(p, H) /\ MapIsExact(p)
      /\ bs \in Seq(Blocks) /\ IsInjectiveSeq(bs) /\ NullBlock \notin Range(bs)
      /\ lo \in Nat /\ hi \in 0 .. Len(bs)
      /\ \A i \in lo + 1 .. hi : hash[i] \in H
      /\ \A i \in lo + 1 .. hi : p.block_hash[bs[i]] = NoHash
  BY DEF CanBeCached
<1> DEFINE new == {i \in lo + 1 .. hi : bs[i] # NullBlock}
           index(b) == CHOOSE i \in new : bs[i] = b
           bh == [b \in Blocks |-> IF \E i \in new : bs[i] = b
                                   THEN hash[index(b)] ELSE p.block_hash[b]]
           added == {<<hash[i], bs[i]>> : i \in new}
           q == cache_full_blocks(p, bs, hash, lo, hi)
<1>1. \A i \in lo + 1 .. hi : i \in DOMAIN bs /\ bs[i] \in Blocks /\ i \in new
  <2> TAKE i \in lo + 1 .. hi
  <2>1. i \in DOMAIN bs
    BY <1>a
  <2>2. bs[i] \in Blocks /\ bs[i] # NullBlock
    BY <1>a, <2>1 DEF Range
  <2> QED BY <2>1, <2>2
<1>2. new = lo + 1 .. hi
  BY <1>1
<1>3. q = [p EXCEPT !.block_hash = bh, !.cached = p.cached \cup added]
  BY DEF cache_full_blocks
<1> HIDE DEF new
<1>4. \A i \in new : index(bs[i]) = i
  BY <1>a, <1>1, <1>2 DEF IsInjectiveSeq
<1>5. \A i \in new : bh[bs[i]] = hash[i] /\ hash[i] \in H
  <2> TAKE i \in new
  <2>1. bs[i] \in Blocks /\ hash[i] \in H
    BY <1>a, <1>1, <1>2
  <2> QED BY <2>1, <1>4
<1>6. \A b \in Blocks : (\A i \in new : bs[i] # b) => bh[b] = p.block_hash[b]
  OBVIOUS
<1>7. bh \in [Blocks -> H \cup {NoHash}]
  <2>1. \A b \in Blocks : bh[b] \in H \cup {NoHash}
    BY <1>a, <1>5, <1>6, Zenon DEF IsPool
  <2> QED BY <2>1
<1>8. added \subseteq H \X Blocks
  <2>1. \A i \in new : hash[i] \in H /\ bs[i] \in Blocks
    BY <1>1, <1>2, <1>5, Zenon
  <2> QED BY <2>1
<1> HIDE DEF bh, q, added
<1>9. /\ IsPool(q, H)
      /\ q.ref_cnt = p.ref_cnt /\ q.free = p.free
      /\ q.block_hash = bh /\ q.cached = p.cached \cup added
  BY <1>a, <1>3, <1>7, <1>8, Zenon DEF IsPool
<1>10. MapIsExact(q)
  <2> DEFINE old == {<<p.block_hash[b], b>> : b \in {c \in Blocks : p.block_hash[c] # NoHash}}
             all == {<<bh[b], b>> : b \in {c \in Blocks : bh[c] # NoHash}}
  <2>1. \A b \in Blocks : p.block_hash[b] # NoHash => bh[b] = p.block_hash[b]
    BY <1>a, <1>2, <1>6
  <2>2. old \subseteq all
    BY <2>1
  <2>3. added \subseteq all
    BY <1>a, <1>1, <1>2, <1>5 DEF added
  <2>4. ASSUME NEW b \in Blocks, bh[b] # NoHash
        PROVE  <<bh[b], b>> \in old \cup added
    <3>1. CASE \E i \in new : bs[i] = b
      BY <3>1, <1>5 DEF added
    <3>2. CASE \A i \in new : bs[i] # b
      BY <3>2, <2>4, <1>6
    <3> QED BY <3>1, <3>2
  <2>5. all \subseteq old \cup added
    BY <2>4
  <2>6. p.cached = old
    BY <1>a DEF MapIsExact
  <2> QED BY <1>9, <2>2, <2>3, <2>5, <2>6 DEF MapIsExact
<1> QED BY <1>2, <1>5, <1>6, <1>9, <1>10 DEF q, NewlyCached

\* reset_prefix_cache keeps holders and queue, and forgets every hash or none.
LEMMA ResetProperties ==
    ASSUME NEW H, NEW p, IsPool(p, H), MapIsExact(p)
    PROVE  LET q == reset_prefix_cache(p) IN
           /\ IsPool(q, H) /\ MapIsExact(q)
           /\ q.free = p.free /\ q.ref_cnt = p.ref_cnt
           /\ \A b \in Blocks : q.block_hash[b] \in {p.block_hash[b], NoHash}
<1>1. CASE ~can_reset_prefix_cache(p)
  BY <1>1 DEF reset_prefix_cache, IsPool
<1>2. CASE can_reset_prefix_cache(p)
  <2> DEFINE q == reset_prefix_cache(p)
             bh == [b \in Blocks |-> NoHash]
  <2>1. q = [p EXCEPT !.block_hash = bh, !.cached = {}]
    BY <1>2 DEF reset_prefix_cache
  <2>2. \A b \in Blocks : bh[b] = NoHash
    OBVIOUS
  <2>3. bh \in [Blocks -> H \cup {NoHash}]
    OBVIOUS
  <2> HIDE DEF q, bh
  <2>4. /\ IsPool(q, H) /\ q.block_hash = bh /\ q.cached = {}
        /\ q.free = p.free /\ q.ref_cnt = p.ref_cnt
    BY <2>1, <2>3, Zenon DEF IsPool
  <2> QED BY <2>2, <2>4 DEF MapIsExact, q
<1> QED BY <1>1, <1>2

-----------------------------------------------------------------------------
(* The accounts: the pool and the block tables *)

HoldersIn(t, b) == {r \in Requests : b \in Range(t[r])}

\* Pool p accounts for the block tables t.
Accounted(p, t) ==
    /\ IsPool(p, Hashes) /\ FreeIsExact(p) /\ MapIsExact(p)
    /\ p.block_hash[NullBlock] = NoHash
    /\ t \in [Requests -> Seq(Blocks)]
    /\ \A b \in Blocks : p.ref_cnt[b] = Cardinality(HoldersIn(t, b))
    /\ \A r \in Requests : IsInjectiveSeq(t[r]) /\ NullBlock \notin Range(t[r])

\* HeldBlocksHaveOwnHash and SharedBlocksAgree of a pool p, tables t and
\* numbers of cached blocks c.
HeldOwn(p, t, c) ==
    \A r \in Requests : \A i \in DOMAIN t[r] :
      p.block_hash[t[r][i]] # NoHash
        => i <= c[r] /\ p.block_hash[t[r][i]] = BlockHash(r, i)

Shared(t, c) ==
    \A q, r \in Requests : \A i \in DOMAIN t[q], j \in DOMAIN t[r] :
      q # r /\ t[q][i] = t[r][j]
        => /\ i = j /\ BlockHash(q, i) = BlockHash(r, i)
           /\ i <= c[q] /\ i <= c[r]

Entries == (Nat \ {0}) \cup {NoEntry}

Consistent(p, t, c) ==
    /\ Accounted(p, t) /\ HeldOwn(p, t, c) /\ Shared(t, c)
    /\ c \in [Requests -> Entries]

\* The inductive invariant.
IInv ==
    /\ TypeOK
    /\ FreeQueueIsExact
    /\ RefCountsAreHolders
    /\ HashMapAgrees
    /\ HeldBlocksHaveOwnHash
    /\ SharedBlocksAgree
    /\ SlotsCoverTokens
    /\ CachedBlocksAreFull
    /\ OneWriterPerBlock
-----------------------------------------------------------------------------
(* Arithmetic of blocks and tokens *)

\* Multiplying by the block size is monotone and injective.
LEMMA BlockArithmetic ==
    /\ \A i, j \in Int : i <= j => i * BlockSize <= j * BlockSize
    /\ \A i, j \in Int : i * BlockSize = j * BlockSize => i = j
    /\ \A i \in Nat : i * BlockSize \in Nat
    /\ \A i, j \in Int : i * BlockSize <= j * BlockSize => i <= j
<1>1. BlockSize \in Nat /\ BlockSize > 0
  BY BlockSizeAssumption
<1>2. \A i, j \in Int : i < j => i * BlockSize < j * BlockSize
  BY <1>1
<1> QED BY <1>1, <1>2

\* n \div BlockSize blocks are full with n tokens, and cdiv blocks hold them.
LEMMA DivisionBounds ==
    ASSUME NEW n \in Nat
    PROVE  /\ n \div BlockSize \in Nat
           /\ (n \div BlockSize) * BlockSize <= n
           /\ cdiv(n, BlockSize) \in Nat
           /\ n <= cdiv(n, BlockSize) * BlockSize
<1>1. BlockSize \in Nat /\ BlockSize > 0
  BY BlockSizeAssumption
<1>2. \A m \in Nat : /\ m \div BlockSize \in Nat
                     /\ (m \div BlockSize) * BlockSize <= m
                     /\ m < (m \div BlockSize) * BlockSize + BlockSize
  BY <1>1
<1>3. n + BlockSize - 1 \in Nat
  BY <1>1
<1>4. n + BlockSize - 1 < cdiv(n, BlockSize) * BlockSize + BlockSize
  BY <1>2, <1>3 DEF cdiv
<1>5. cdiv(n, BlockSize) \in Nat
  BY <1>2, <1>3 DEF cdiv
<1>6. cdiv(n, BlockSize) * BlockSize \in Nat
  BY <1>5, BlockArithmetic
<1> QED BY <1>1, <1>2, <1>4, <1>5, <1>6

\* Fewer tokens never fill more blocks.
LEMMA DivisionMonotone ==
    ASSUME NEW m \in Nat, NEW n \in Nat, m <= n
    PROVE  m \div BlockSize <= n \div BlockSize
<1>1. BlockSize \in Nat /\ BlockSize > 0
  BY BlockSizeAssumption
<1>2. \A k \in Nat : /\ k \div BlockSize \in Nat
                     /\ (k \div BlockSize) * BlockSize <= k
                     /\ k < (k \div BlockSize) * BlockSize + BlockSize
  BY <1>1
<1> DEFINE a == m \div BlockSize
           b == n \div BlockSize
<1>3. a \in Nat /\ b \in Nat /\ a * BlockSize < b * BlockSize + BlockSize
  BY <1>1, <1>2
<1> HIDE DEF a, b
<1>4. a * BlockSize < (b + 1) * BlockSize
  BY <1>1, <1>3
<1>5. ~ (b + 1 <= a)
  BY <1>3, <1>4, <1>1, BlockArithmetic
<1> QED BY <1>3, <1>5 DEF a, b

\* The hash of block i covers i * BlockSize tokens.
LEMMA BlockHashProperties ==
    ASSUME TypeOK, NEW r \in Requests, NEW i \in Nat, i * BlockSize <= num_tokens(r)
    PROVE  BlockHash(r, i) \in Hashes /\ Len(BlockHash(r, i)) = i * BlockSize
<1>1. all_token_ids[r] \in Seq(Tokens) /\ i * BlockSize \in Nat
  BY BlockArithmetic DEF TypeOK
<1> DEFINE k == i * BlockSize
<1>2. k \in Nat /\ k <= Len(all_token_ids[r])
  BY <1>1 DEF num_tokens
<1> HIDE DEF k
<1>3. /\ SubSeq(all_token_ids[r], 1, k) \in Seq(Tokens)
      /\ Len(SubSeq(all_token_ids[r], 1, k)) = k
  BY <1>1, <1>2
<1> QED BY <1>3 DEF BlockHash, Hashes, k
-----------------------------------------------------------------------------
(* Block tables *)

\* A held block has a positive reference count; a block without references is
\* in no table.
LEMMA HeldBlocks ==
    ASSUME NEW p, NEW t, Accounted(p, t)
    PROVE  \A r \in Requests : \A b \in Range(t[r]) :
             b \in Blocks /\ p.ref_cnt[b] > 0 /\ p.ref_cnt[b] \in Nat
<1> SUFFICES ASSUME NEW r \in Requests, NEW b \in Range(t[r])
             PROVE  b \in Blocks /\ p.ref_cnt[b] > 0 /\ p.ref_cnt[b] \in Nat
  OBVIOUS
<1>1. b \in Blocks
  BY RangeOfSeq DEF Accounted
<1>2. r \in HoldersIn(t, b) /\ HoldersIn(t, b) \subseteq Requests
  BY DEF HoldersIn
<1>3. IsFiniteSet(HoldersIn(t, b))
  BY <1>2, RequestsAssumption, FS_Subset
<1>4. Cardinality(HoldersIn(t, b)) \in Nat /\ Cardinality(HoldersIn(t, b)) # 0
  BY <1>2, <1>3, FS_CardinalityType, FS_EmptySet
<1> QED BY <1>1, <1>4 DEF Accounted

\* Appending blocks the request does not hold yet, with one reference more.
LEMMA AppendAccounted ==
    ASSUME NEW p, NEW t, Accounted(p, t), NEW r \in Requests,
           NEW x \in Seq(Blocks), IsInjectiveSeq(x), NullBlock \notin Range(x),
           Range(x) \cap Range(t[r]) = {},
           NEW q, IsPool(q, Hashes), FreeIsExact(q), MapIsExact(q),
           q.block_hash[NullBlock] = NoHash,
           \A b \in Blocks :
             q.ref_cnt[b] = IF b \in Range(x) THEN p.ref_cnt[b] + 1 ELSE p.ref_cnt[b]
    PROVE  Accounted(q, [t EXCEPT ![r] = t[r] \o x])
<1> DEFINE u == [t EXCEPT ![r] = t[r] \o x]
<1>1. t[r] \in Seq(Blocks) /\ IsInjectiveSeq(t[r]) /\ NullBlock \notin Range(t[r])
  BY DEF Accounted
<1>2. /\ t[r] \o x \in Seq(Blocks) /\ IsInjectiveSeq(t[r] \o x)
      /\ Range(t[r] \o x) = Range(t[r]) \cup Range(x)
  BY <1>1, ConcatProperties2
<1>3. /\ u \in [Requests -> Seq(Blocks)]
      /\ \A s \in Requests : u[s] = IF s = r THEN t[r] \o x ELSE t[s]
  BY <1>2 DEF Accounted
<1> HIDE DEF u
<1>4. \A s \in Requests : IsInjectiveSeq(u[s]) /\ NullBlock \notin Range(u[s])
  BY <1>1, <1>2, <1>3, Zenon DEF Accounted
<1>5. ASSUME NEW b \in Blocks
      PROVE  q.ref_cnt[b] = Cardinality(HoldersIn(u, b))
  <2>1. IsFiniteSet(HoldersIn(t, b))
    BY RequestsAssumption, FS_Subset, HoldersIn(t, b) \subseteq Requests DEF HoldersIn
  <2>2. CASE b \in Range(x)
    <3>1. r \notin HoldersIn(t, b) /\ HoldersIn(u, b) = HoldersIn(t, b) \cup {r}
      BY <2>2, <1>2, <1>3, Zenon DEF HoldersIn
    <3> QED BY <2>1, <2>2, <3>1, FS_AddElement, ZenonT(30) DEF Accounted
  <2>3. CASE b \notin Range(x)
    <3>1. HoldersIn(u, b) = HoldersIn(t, b)
      BY <2>3, <1>2, <1>3, Zenon DEF HoldersIn
    <3> QED BY <2>3, <3>1 DEF Accounted
  <2> QED BY <2>2, <2>3
<1> QED BY <1>3, <1>4, <1>5, Zenon DEF Accounted, u

\* Freeing all blocks of a request.
LEMMA FreeAccounted ==
    ASSUME NEW p, NEW t, Accounted(p, t), NEW r \in Requests
    PROVE  LET q == free_blocks(p, Backwards(t[r])) IN
           /\ Accounted(q, [t EXCEPT ![r] = <<>>])
           /\ q.block_hash = p.block_hash
<1> DEFINE u == [t EXCEPT ![r] = <<>>]
           bs == Backwards(t[r])
           q == free_blocks(p, bs)
<1>1. t[r] \in Seq(Blocks) /\ IsInjectiveSeq(t[r]) /\ NullBlock \notin Range(t[r])
  BY DEF Accounted
<1>2. bs \in Seq(Blocks) /\ IsInjectiveSeq(bs) /\ Range(bs) = Range(t[r])
  BY <1>1, BackwardsProperties
<1>3. \A b \in Range(bs) : p.ref_cnt[b] > 0 /\ b # NullBlock
  BY <1>1, <1>2, HeldBlocks
<1> HIDE DEF bs
<1>4. /\ IsPool(q, Hashes) /\ FreeIsExact(q) /\ MapIsExact(q)
      /\ q.block_hash = p.block_hash
      /\ \A b \in Blocks :
           q.ref_cnt[b] = IF b \in Range(bs) THEN p.ref_cnt[b] - 1 ELSE p.ref_cnt[b]
  BY <1>2, <1>3, FreeBlocksProperties DEF Accounted
<1>5. /\ u \in [Requests -> Seq(Blocks)]
      /\ \A s \in Requests : u[s] = IF s = r THEN <<>> ELSE t[s]
      /\ Range(u[r]) = {}
  BY DEF Accounted, Range
<1> HIDE DEF u, q
<1>6. \A s \in Requests : IsInjectiveSeq(u[s]) /\ NullBlock \notin Range(u[s])
  BY <1>5 DEF Accounted, IsInjectiveSeq
<1>7. ASSUME NEW b \in Blocks
      PROVE  q.ref_cnt[b] = Cardinality(HoldersIn(u, b))
  <2>1. IsFiniteSet(HoldersIn(t, b))
    BY RequestsAssumption, FS_Subset, HoldersIn(t, b) \subseteq Requests DEF HoldersIn
  <2>2. CASE b \in Range(bs)
    <3>1. r \in HoldersIn(t, b) /\ HoldersIn(u, b) = HoldersIn(t, b) \ {r}
      BY <2>2, <1>2, <1>5 DEF HoldersIn
    <3> QED BY <2>1, <2>2, <3>1, <1>4, FS_RemoveElement, ZenonT(30) DEF Accounted
  <2>3. CASE b \notin Range(bs)
    <3>1. HoldersIn(u, b) = HoldersIn(t, b)
      BY <2>3, <1>2, <1>5 DEF HoldersIn
    <3> QED BY <2>3, <3>1, <1>4 DEF Accounted
  <2> QED BY <2>2, <2>3
<1> QED BY <1>4, <1>5, <1>6, <1>7, Zenon DEF Accounted, u, q, bs
-----------------------------------------------------------------------------
(* The stages of allocate_slots *)

\* A prefix-cache hit of r is a list of distinct blocks, cached under r's own
\* hashes, and never covers the last token.
LEMMA HitProperties ==
    ASSUME TypeOK, HashMapAgrees, NEW r \in Requests, NEW hit \in get_computed_blocks(r)
    PROVE  /\ hit \in Seq(Blocks) /\ IsInjectiveSeq(hit) /\ NullBlock \notin Range(hit)
           /\ Len(hit) * BlockSize < num_tokens(r)
           /\ \A i \in DOMAIN hit : /\ pool.block_hash[hit[i]] = BlockHash(r, i)
                                     /\ pool.block_hash[hit[i]] # NoHash
                                     /\ i * BlockSize <= num_tokens(r)
<1> DEFINE m == (num_tokens(r) - 1) \div BlockSize
<1>1. num_tokens(r) \in Nat /\ num_tokens(r) >= 1 /\ num_tokens(r) - 1 \in Nat
  BY DEF TypeOK, num_tokens
<1>2. m \in Nat /\ m * BlockSize < num_tokens(r)
  BY <1>1, DivisionBounds, BlockArithmetic
<1> HIDE DEF m
<1>3. /\ hit \in Seq(Blocks) /\ Len(hit) <= m
      /\ \A i \in DOMAIN hit : <<BlockHash(r, i), hit[i]>> \in pool.cached
  <2>1. CASE hit = <<>>
    BY <2>1, <1>2
  <2>2. CASE hit # <<>>
    <3>1. hit \in find_longest_cache_hit(r)
      BY <2>2 DEF get_computed_blocks
    <3>2. PICK s \in UNION {[1 .. k -> Blocks] : k \in 0 .. m} :
            /\ \A i \in DOMAIN s : s[i] \in get_cached_block(pool, BlockHash(r, i))
            /\ hit = IF UseEagle /\ s # <<>> THEN SubSeq(s, 1, Len(s) - 1) ELSE s
      BY <3>1 DEF find_longest_cache_hit, m
    <3>3. PICK k \in 0 .. m : s \in [1 .. k -> Blocks]
      OBVIOUS
    <3>4. s \in Seq(Blocks) /\ Len(s) = k /\ k \in Nat /\ k <= m
      BY <3>3, <1>2
    <3>5. \A i \in DOMAIN s : <<BlockHash(r, i), s[i]>> \in pool.cached
      BY <3>2 DEF get_cached_block
    <3>6. CASE hit = s
      BY <3>4, <3>5, <3>6
    <3>7. CASE s # <<>> /\ hit = SubSeq(s, 1, Len(s) - 1)
      <4>1. k >= 1
        BY <3>4, <3>7
      <4>2. /\ hit \in Seq(Blocks) /\ Len(hit) = k - 1
            /\ \A i \in 1 .. k - 1 : hit[i] = s[i] /\ i \in DOMAIN s
        BY <3>4, <3>7, <4>1
      <4> QED BY <3>4, <3>5, <4>1, <4>2, <1>2
    <3> QED BY <3>2, <3>6, <3>7
  <2> QED BY <2>1, <2>2
<1>4. Len(hit) \in Nat /\ DOMAIN hit = 1 .. Len(hit)
  BY <1>3
<1>5. \A i \in DOMAIN hit : i \in Nat /\ i * BlockSize <= num_tokens(r)
                             /\ i * BlockSize \in Nat
  <2> TAKE i \in DOMAIN hit
  <2>1. i \in Nat /\ i <= m
    BY <1>2, <1>3, <1>4
  <2> QED BY <2>1, <1>1, <1>2, BlockArithmetic
<1>6. \A i \in DOMAIN hit : /\ pool.block_hash[hit[i]] = BlockHash(r, i)
                             /\ pool.block_hash[hit[i]] # NoHash
  BY <1>3 DEF HashMapAgrees, MapIsExact
<1>7. IsInjectiveSeq(hit)
  <2> SUFFICES ASSUME NEW i \in DOMAIN hit, NEW j \in DOMAIN hit, hit[i] = hit[j]
               PROVE  i = j
    BY DEF IsInjectiveSeq
  <2>1. Len(BlockHash(r, i)) = i * BlockSize /\ Len(BlockHash(r, j)) = j * BlockSize
    BY <1>5, BlockHashProperties
  <2>2. i * BlockSize = j * BlockSize
    BY <2>1, <1>6
  <2> QED BY <2>2, <1>5, BlockArithmetic
<1>8. NullBlock \notin Range(hit)
  BY <1>6 DEF Range, HashMapAgrees
<1>9. Len(hit) * BlockSize < num_tokens(r)
  <2>1. Len(hit) * BlockSize <= m * BlockSize
    BY <1>2, <1>3, <1>4, BlockArithmetic
  <2> QED BY <2>1, <1>1, <1>2, <1>4, BlockArithmetic
<1> QED BY <1>3, <1>5, <1>6, <1>7, <1>8, <1>9

\* The invariant in terms of Consistent.
LEMMA InvariantIsConsistency ==
    ASSUME IInv
    PROVE  /\ Consistent(pool, req_to_blocks, num_cached_block)
           /\ \A r \in Requests : req_to_blocks[r] = <<>> => num_cached_block[r] = NoEntry
<1>1. Accounted(pool, req_to_blocks)
  BY DEF IInv, TypeOK, FreeQueueIsExact, RefCountsAreHolders, HashMapAgrees, Accounted,
         HoldersIn, Holders
<1>2. HeldOwn(pool, req_to_blocks, num_cached_block) /\ Shared(req_to_blocks, num_cached_block)
  BY DEF IInv, HeldBlocksHaveOwnHash, SharedBlocksAgree, HeldOwn, Shared
<1>3. \A r \in Requests : req_to_blocks[r] = <<>> => num_cached_block[r] = NoEntry
  <2> TAKE r \in Requests
  <2> HAVE req_to_blocks[r] = <<>>
  <2>1. num_cached_block[r] <= 0
    BY DEF IInv, CachedBlocksAreFull
  <2> QED BY <2>1 DEF IInv, TypeOK
<1> QED BY <1>1, <1>2, <1>3 DEF Consistent, IInv, TypeOK, Entries

\* Stage 1: the hit blocks are touched and become the block table.
LEMMA HitStage ==
    ASSUME IInv, NEW r \in Requests, req_to_blocks[r] = <<>>,
           NEW hit \in get_computed_blocks(r)
    PROVE  Consistent(touch(pool, hit),
                      [req_to_blocks EXCEPT ![r] = req_to_blocks[r] \o hit],
                      [num_cached_block EXCEPT
                         ![r] = IF hit # <<>> THEN Len(hit) ELSE num_cached_block[r]])
<1> DEFINE q == touch(pool, hit)
           t == [req_to_blocks EXCEPT ![r] = req_to_blocks[r] \o hit]
           c == [num_cached_block EXCEPT
                   ![r] = IF hit # <<>> THEN Len(hit) ELSE num_cached_block[r]]
<1>1. TypeOK /\ HashMapAgrees /\ CachedBlocksAreFull
  BY DEF IInv
<1>2. /\ hit \in Seq(Blocks) /\ IsInjectiveSeq(hit) /\ NullBlock \notin Range(hit)
      /\ \A i \in DOMAIN hit : /\ pool.block_hash[hit[i]] = BlockHash(r, i)
                                /\ pool.block_hash[hit[i]] # NoHash
                                /\ i * BlockSize <= num_tokens(r)
  BY <1>1, HitProperties
<1>3. /\ Accounted(pool, req_to_blocks)
      /\ HeldOwn(pool, req_to_blocks, num_cached_block)
      /\ Shared(req_to_blocks, num_cached_block)
      /\ num_cached_block \in [Requests -> Entries]
      /\ num_cached_block[r] = NoEntry
  BY InvariantIsConsistency, ZenonT(30) DEF Consistent
<1>4. /\ IsPool(q, Hashes) /\ FreeIsExact(q) /\ MapIsExact(q)
      /\ q.block_hash = pool.block_hash
      /\ \A b \in Blocks : q.ref_cnt[b] = IF b \in Range(hit) THEN pool.ref_cnt[b] + 1
                                                             ELSE pool.ref_cnt[b]
  BY <1>2, <1>3, TouchProperties DEF Accounted
<1>5. Range(req_to_blocks[r]) = {}
  BY DEF Range
<1> HIDE DEF q
<1>6. Accounted(q, t)
  <2>1. q.block_hash[NullBlock] = NoHash /\ Range(hit) \cap Range(req_to_blocks[r]) = {}
    BY <1>3, <1>4, <1>5 DEF Accounted
  <2> QED BY <1>2, <1>3, <1>4, <2>1, AppendAccounted, ZenonT(30)
<1>7. \A s \in Requests : t[s] = IF s = r THEN hit ELSE req_to_blocks[s]
  BY <1>2 DEF IInv, TypeOK
<1>8. /\ c \in [Requests -> Entries]
      /\ \A s \in Requests : c[s] = IF s = r /\ hit # <<>> THEN Len(hit) ELSE num_cached_block[s]
  BY <1>2, <1>3 DEF Entries
<1> HIDE DEF t, c
<1>9. \A i \in DOMAIN hit : i <= c[r] /\ i \in Nat
  BY <1>2, <1>8
<1>10. HeldOwn(q, t, c)
  <2> SUFFICES ASSUME NEW s \in Requests, NEW i \in DOMAIN t[s],
                      q.block_hash[t[s][i]] # NoHash
               PROVE  i <= c[s] /\ q.block_hash[t[s][i]] = BlockHash(s, i)
    BY DEF HeldOwn
  <2>1. CASE s = r
    BY <2>1, <1>2, <1>4, <1>7, <1>9, ZenonT(30)
  <2>2. CASE s # r
    BY <2>2, <1>3, <1>4, <1>7, <1>8 DEF HeldOwn
  <2> QED BY <2>1, <2>2
<1>11. ASSUME NEW s \in Requests, s # r, NEW i \in DOMAIN t[s], NEW j \in DOMAIN hit,
              t[s][i] = hit[j]
       PROVE  i = j /\ BlockHash(s, i) = BlockHash(r, i) /\ i <= c[s] /\ i <= c[r]
  <2>1. /\ t[s] = req_to_blocks[s] /\ c[s] = num_cached_block[s]
        /\ i \in Nat
    BY <1>11, <1>3, <1>7, <1>8 DEF Accounted
  <2>2. i <= c[s] /\ BlockHash(s, i) = BlockHash(r, j)
    BY <1>11, <2>1, <1>2, <1>3 DEF HeldOwn
  <2>3. c[s] \in Nat /\ c[s] * BlockSize <= num_tokens(s)
    <3>1. c[s] \in Nat
      BY <2>1, <2>2, <1>3 DEF Entries, NoEntry
    <3>2. num_tokens(s) \in Nat /\ num_computed_tokens[s] + num_scheduled_tokens[s] \in Nat
      BY <1>1 DEF TypeOK, num_tokens
    <3>3. c[s] * BlockSize <= Min2(num_tokens(s),
                                   num_computed_tokens[s] + num_scheduled_tokens[s])
      BY <1>1, <2>1 DEF CachedBlocksAreFull
    <3>4. c[s] * BlockSize \in Nat
      BY <3>1, BlockArithmetic
    <3> QED BY <3>1, <3>2, <3>3, <3>4 DEF Min2
  <2>4. i * BlockSize <= num_tokens(s)
    <3>1. i * BlockSize <= c[s] * BlockSize
      BY <2>1, <2>2, <2>3, BlockArithmetic
    <3>2. i * BlockSize \in Nat /\ c[s] * BlockSize \in Nat /\ num_tokens(s) \in Nat
      BY <1>1, <2>1, <2>3, BlockArithmetic, SMTT(30) DEF TypeOK, num_tokens
    <3> QED BY <2>3, <3>1, <3>2
  <2>5. Len(BlockHash(s, i)) = i * BlockSize /\ Len(BlockHash(r, j)) = j * BlockSize
    BY <2>1, <2>4, <1>1, <1>2, <1>9, BlockHashProperties
  <2>6. i = j
    BY <2>1, <2>2, <2>5, <1>9, BlockArithmetic
  <2> QED BY <2>2, <2>6, <1>9
<1>12. Shared(t, c)
  <2> SUFFICES ASSUME NEW u \in Requests, NEW s \in Requests,
                      NEW i \in DOMAIN t[u], NEW j \in DOMAIN t[s],
                      u # s, t[u][i] = t[s][j]
               PROVE  /\ i = j /\ BlockHash(u, i) = BlockHash(s, i)
                      /\ i <= c[u] /\ i <= c[s]
    BY DEF Shared
  <2>1. CASE u = r
    BY <2>1, <1>7, <1>11
  <2>2. CASE s = r
    BY <2>2, <1>7, <1>11
  <2>3. CASE u # r /\ s # r
    BY <2>3, <1>3, <1>7, <1>8 DEF Shared
  <2> QED BY <2>1, <2>2, <2>3
<1> QED BY <1>6, <1>8, <1>10, <1>12 DEF Consistent, q, t, c

\* Stage 1 of a running request: it has no new hits.
LEMMA NoHitStage ==
    ASSUME IInv
    PROVE  /\ Consistent(touch(pool, <<>>), req_to_blocks, num_cached_block)
           /\ touch(pool, <<>>).block_hash = pool.block_hash
           /\ touch(pool, <<>>).ref_cnt = pool.ref_cnt
           /\ Len(touch(pool, <<>>).free) = Len(pool.free)
<1> DEFINE e == <<>>
           q == touch(pool, e)
<1>1. Consistent(pool, req_to_blocks, num_cached_block)
  BY InvariantIsConsistency
<1>2. /\ e \in Seq(Blocks) /\ IsInjectiveSeq(e) /\ Range(e) = {}
      /\ idle_positions(pool, e) = {}
  BY DEF Range, IsInjectiveSeq, idle_positions
<1> HIDE DEF e
<1>3. /\ IsPool(q, Hashes) /\ FreeIsExact(q) /\ MapIsExact(q)
      /\ q.block_hash = pool.block_hash
      /\ \A b \in Blocks : q.ref_cnt[b] = pool.ref_cnt[b]
  BY <1>1, <1>2, TouchProperties DEF Consistent, Accounted
<1>4. Len(q.free) = Len(pool.free) - Cardinality({})
  <2>1. IsPool(pool, Hashes) /\ FreeIsExact(pool) /\ MapIsExact(pool)
    BY <1>1 DEF Consistent, Accounted
  <2> QED BY <2>1, <1>2, TouchProperties, ZenonT(30)
<1>5. Cardinality({}) = 0 /\ Len(pool.free) \in Nat
  BY <1>1, FS_EmptySet DEF Consistent, Accounted, IsPool
<1> HIDE DEF q
<1>6. Accounted(q, req_to_blocks) /\ HeldOwn(q, req_to_blocks, num_cached_block)
  BY <1>1, <1>3 DEF Consistent, Accounted, HeldOwn
<1>7. q.ref_cnt = pool.ref_cnt
  BY <1>1, <1>3 DEF Consistent, Accounted, IsPool
<1> QED BY <1>1, <1>3, <1>4, <1>5, <1>6, <1>7 DEF Consistent, q, e

\* Stage 2: new blocks are appended. Nobody else holds them, and a block that
\* somebody held keeps its hash.
LEMMA NewStage ==
    ASSUME NEW p, NEW t, NEW c, Consistent(p, t, c), NEW r \in Requests,
           NEW n \in 0 .. Len(p.free)
    PROVE  LET new == new_blocks(p, n)
               q   == get_new_blocks(p, n)
           IN  /\ Consistent(q, [t EXCEPT ![r] = t[r] \o new], c)
               /\ new \in Seq(Blocks) /\ Len(new) = n
               /\ \A b \in Blocks : p.ref_cnt[b] > 0 => q.block_hash[b] = p.block_hash[b]
               /\ \A s \in Requests : Range(t[s]) \cap Range(new) = {}
<1> DEFINE new == new_blocks(p, n)
           q   == get_new_blocks(p, n)
           u   == [t EXCEPT ![r] = t[r] \o new]
<1>1. /\ Accounted(p, t) /\ HeldOwn(p, t, c) /\ Shared(t, c)
      /\ c \in [Requests -> Entries] /\ t \in [Requests -> Seq(Blocks)]
      /\ NoHash \notin Hashes
  BY NoHashAssumption, ZenonT(30) DEF Consistent, Hashes, Accounted
<1>2. /\ IsPool(q, Hashes) /\ FreeIsExact(q) /\ MapIsExact(q)
      /\ new \in Seq(Blocks) /\ Len(new) = n /\ IsInjectiveSeq(new)
      /\ \A b \in Range(new) : b # NullBlock /\ p.ref_cnt[b] = 0
      /\ \A b \in Blocks :
           /\ q.ref_cnt[b] = IF b \in Range(new) THEN p.ref_cnt[b] + 1 ELSE p.ref_cnt[b]
           /\ q.block_hash[b] = IF b \in Range(new) THEN NoHash ELSE p.block_hash[b]
  <2>1. IsPool(p, Hashes) /\ FreeIsExact(p) /\ MapIsExact(p)
    BY <1>1 DEF Accounted
  <2> QED BY <1>1, <2>1, GetNewBlocksProperties
<1> HIDE DEF new, q
<1>3. \A s \in Requests : \A b \in Range(t[s]) :
        b \in Blocks /\ p.ref_cnt[b] > 0 /\ b \notin Range(new)
  BY <1>1, <1>2, HeldBlocks
<1>4. \A b \in Blocks : p.ref_cnt[b] > 0 => q.block_hash[b] = p.block_hash[b]
  BY <1>2
<1>5. Accounted(q, u)
  <2>1. /\ Range(new) \cap Range(t[r]) = {} /\ NullBlock \notin Range(new)
        /\ q.block_hash[NullBlock] = NoHash
    BY <1>1, <1>2, <1>3, NumGpuBlocksAssumption, SMTT(30) DEF Accounted, Blocks, NullBlock
  <2>2. \A b \in Blocks :
          q.ref_cnt[b] = IF b \in Range(new) THEN p.ref_cnt[b] + 1 ELSE p.ref_cnt[b]
    BY <1>2
  <2>3. IsPool(q, Hashes) /\ FreeIsExact(q) /\ MapIsExact(q)
    BY <1>2
  <2>4. new \in Seq(Blocks) /\ IsInjectiveSeq(new)
    BY <1>2
  <2> QED BY <1>1, <2>1, <2>2, <2>3, <2>4, AppendAccounted, ZenonT(30)
<1>6. t[r] \in Seq(Blocks)
  BY <1>1
<1>7. /\ \A s \in Requests : s # r => u[s] = t[s]
      /\ u[r] = t[r] \o new
  BY <1>1
<1> HIDE DEF u
<1>8. \A i \in DOMAIN u[r] :
        \/ i \in DOMAIN t[r] /\ u[r][i] = t[r][i]
        \/ u[r][i] \in Range(new) /\ u[r][i] \in Blocks
  <2> TAKE i \in DOMAIN u[r]
  <2>0. u[r] = t[r] \o new /\ new \in Seq(Blocks) /\ t[r] \in Seq(Blocks)
    BY <1>2, <1>6, <1>7, Zenon
  <2>1. DOMAIN u[r] = 1 .. Len(t[r]) + Len(new) /\ Len(t[r]) \in Nat /\ Len(new) \in Nat
    BY <2>0
  <2>2. CASE i <= Len(t[r])
    BY <2>0, <2>1, <2>2
  <2>3. CASE i > Len(t[r])
    <3>1. i - Len(t[r]) \in DOMAIN new /\ u[r][i] = new[i - Len(t[r])]
      BY <2>0, <2>1, <2>3
    <3> QED BY <2>0, <3>1 DEF Range
  <2> QED BY <2>1, <2>2, <2>3
<1>9. \A s \in Requests : \A i \in DOMAIN t[s] :
         t[s][i] \in Blocks /\ q.block_hash[t[s][i]] = p.block_hash[t[s][i]]
                            /\ t[s][i] \notin Range(new)
  BY <1>3, <1>4 DEF Range
<1>10. HeldOwn(q, u, c)
  <2> SUFFICES ASSUME NEW s \in Requests, NEW i \in DOMAIN u[s],
                      q.block_hash[u[s][i]] # NoHash
               PROVE  i <= c[s] /\ q.block_hash[u[s][i]] = BlockHash(s, i)
    BY DEF HeldOwn
  <2>1. i \in DOMAIN t[s] /\ u[s][i] = t[s][i]
    <3>1. CASE s = r
      <4>1. \A b \in Blocks : b \in Range(new) => q.block_hash[b] = NoHash
        BY <1>2
      <4> QED BY <3>1, <4>1, <1>8
    <3>2. CASE s # r
      BY <3>2, <1>7
    <3> QED BY <3>1, <3>2
  <2>2. i <= c[s] /\ p.block_hash[t[s][i]] = BlockHash(s, i)
    <3>1. p.block_hash[t[s][i]] # NoHash
      BY <2>1, <1>9, Zenon
    <3> QED BY <2>1, <3>1, <1>1, ZenonT(30) DEF HeldOwn
  <2> QED BY <2>1, <2>2, <1>9, Zenon
<1>11. Shared(u, c)
  <2> SUFFICES ASSUME NEW v \in Requests, NEW s \in Requests,
                      NEW i \in DOMAIN u[v], NEW j \in DOMAIN u[s],
                      v # s, u[v][i] = u[s][j]
               PROVE  /\ i = j /\ BlockHash(v, i) = BlockHash(s, i)
                      /\ i <= c[v] /\ i <= c[s]
    BY DEF Shared
  <2>1. i \in DOMAIN t[v] /\ j \in DOMAIN t[s] /\ u[v][i] = t[v][i] /\ u[s][j] = t[s][j]
    <3>1. CASE v = r
      BY <3>1, <1>7, <1>8, <1>9, SMTT(30)
    <3>2. CASE s = r
      BY <3>2, <1>7, <1>8, <1>9
    <3>3. CASE v # r /\ s # r
      BY <3>3, <1>7
    <3> QED BY <3>1, <3>2, <3>3
  <2> QED BY <2>1, <1>1, ZenonT(30) DEF Shared
<1>12. \A s \in Requests : Range(t[s]) \cap Range(new) = {}
  BY <1>3
<1> QED BY <1>1, <1>2, <1>4, <1>5, <1>10, <1>11, <1>12, SMTT(30) DEF Consistent, new, q, u

\* The tokens whose full blocks are hashed are known, and have slots.
Cacheable(t, r, tokens) ==
    /\ tokens \in Nat /\ tokens <= num_tokens(r)
    /\ tokens <= Len(t[r]) * BlockSize

\* The outcome of cache_blocks: the result, and the counters that go with it.
CacheOutcome(p, t, c, r, tokens, res, d) ==
    /\ res = cache_blocks(p, r, t[r], c[r], tokens)
    /\ d = [c EXCEPT ![r] = res.entry]

\* Stage 3, and KVCacheManager.cache_blocks: full blocks of known tokens get
\* their hash. A block that has one keeps it.
LEMMA CacheStage ==
    ASSUME TypeOK, NEW p, NEW t, NEW c, Consistent(p, t, c), NEW r \in Requests,
           NEW tokens, Cacheable(t, r, tokens),
           NEW res, NEW d, CacheOutcome(p, t, c, r, tokens, res, d)
    PROVE  /\ Consistent(res.pool, t, d)
           /\ res.entry \in {c[r], tokens \div BlockSize} /\ c[r] <= res.entry
           /\ \A b \in Blocks : p.block_hash[b] # NoHash
                                  => res.pool.block_hash[b] = p.block_hash[b]
<1>0. tokens \in Nat /\ tokens <= num_tokens(r) /\ tokens <= Len(t[r]) * BlockSize
  BY DEF Cacheable
<1>c. res = cache_blocks(p, r, t[r], c[r], tokens) /\ d = [c EXCEPT ![r] = res.entry]
  BY DEF CacheOutcome
<1> DEFINE lo == Max2(c[r], 0)
           hi == tokens \div BlockSize
<1>1. /\ Accounted(p, t) /\ HeldOwn(p, t, c) /\ Shared(t, c)
      /\ c \in [Requests -> Entries] /\ t \in [Requests -> Seq(Blocks)]
      /\ NoHash \notin Hashes
  BY NoHashAssumption DEF Consistent, Hashes, Accounted
<1>2. /\ lo \in Nat /\ c[r] <= lo /\ c[r] \in Int
      /\ hi \in Nat
  <2>1. c[r] \in Entries
    BY <1>1
  <2>2. c[r] \in Int
    BY <2>1 DEF Entries, NoEntry
  <2>3. lo \in Nat /\ c[r] <= lo
    BY <2>2 DEF Max2
  <2>4. hi \in Nat
    BY <1>0, DivisionBounds
  <2> QED BY <2>2, <2>3, <2>4
<1>3. CASE ~EnableCaching \/ lo >= hi
  <2>1. res = [pool |-> p, entry |-> c[r]]
    BY <1>c, <1>3 DEF cache_blocks
  <2>2. res.pool = p /\ res.entry = c[r]
    BY <2>1
  <2>3. d = c
    BY <1>1, <1>c, <2>2, ZenonT(30)
  <2> QED BY <2>2, <2>3, <1>2
<1>4. CASE EnableCaching /\ lo < hi
  <2> DEFINE hash == block_hashes(r)
             q == cache_full_blocks(p, t[r], hash, lo, hi)
  <2>1. res = [pool |-> q, entry |-> hi]
    BY <1>c, <1>2, <1>4, SMTT(30) DEF cache_blocks
  <2>2. res.pool = q /\ res.entry = hi
    BY <2>1
  <2>3. /\ t[r] \in Seq(Blocks) /\ IsInjectiveSeq(t[r]) /\ NullBlock \notin Range(t[r])
        /\ IsPool(p, Hashes) /\ MapIsExact(p)
    BY <1>1 DEF Accounted
  <2>4. num_tokens(r) \in Nat /\ hi <= num_tokens(r) \div BlockSize
    BY <1>0, DivisionMonotone DEF TypeOK, num_tokens
  <2>5. hi * BlockSize <= tokens /\ hi * BlockSize \in Nat
    BY <1>0, <1>2, DivisionBounds, BlockArithmetic
  <2> HIDE DEF lo, hi
  <2>6. hi \in 0 .. Len(t[r])
    <3>1. Len(t[r]) \in Nat /\ Len(t[r]) * BlockSize \in Nat
      BY <2>3, BlockArithmetic
    <3>2. hi * BlockSize <= Len(t[r]) * BlockSize
      BY <1>0, <2>5, <3>1
    <3> QED BY <1>2, <3>1, <3>2, BlockArithmetic
  <2>7. \A i \in lo + 1 .. hi : hash[i] = BlockHash(r, i) /\ hash[i] \in Hashes
    <3> SUFFICES ASSUME NEW i \in lo + 1 .. hi
                 PROVE  hash[i] = BlockHash(r, i) /\ hash[i] \in Hashes
      OBVIOUS
    <3>1. i \in Nat /\ i <= hi /\ i >= 1
      BY <1>2
    <3>2. i \in 1 .. num_tokens(r) \div BlockSize
      <4> DEFINE m == num_tokens(r) \div BlockSize
      <4>1. m \in Nat /\ hi <= m
        BY <2>4, DivisionBounds
      <4> HIDE DEF m
      <4>2. i \in 1 .. m
        BY <3>1, <4>1, <1>2
      <4> QED BY <4>2 DEF m
    <3>3. i * BlockSize <= num_tokens(r)
      <4>1. i \in Int /\ hi \in Int
        BY <3>1, <1>2
      <4>2. i * BlockSize <= hi * BlockSize
        BY <3>1, <4>1, BlockArithmetic
      <4>3. i * BlockSize \in Nat
        BY <3>1, BlockArithmetic, ZenonT(30)
      <4> QED BY <4>2, <4>3, <1>0, <2>4, <2>5
    <3> QED BY <3>1, <3>2, <3>3, BlockHashProperties DEF block_hashes
  <2>8. \A i \in lo + 1 .. hi : /\ i \in DOMAIN t[r] /\ i > c[r]
                                /\ p.block_hash[t[r][i]] = NoHash
    <3> TAKE i \in lo + 1 .. hi
    <3>1. i \in DOMAIN t[r] /\ i > c[r] /\ ~(i <= c[r])
      BY <1>2, <2>3, <2>6, SMTT(30)
    <3> QED BY <3>1, <1>1 DEF HeldOwn
  <2> HIDE DEF hash
  <2>9. /\ IsPool(q, Hashes) /\ MapIsExact(q)
        /\ q.free = p.free /\ q.ref_cnt = p.ref_cnt
        /\ \A i \in lo + 1 .. hi : q.block_hash[t[r][i]] = hash[i]
        /\ \A b \in Blocks : (\A i \in lo + 1 .. hi : t[r][i] # b)
                                => q.block_hash[b] = p.block_hash[b]
    <3>1. CanBeCached(p, t[r], hash, lo, hi, Hashes)
      BY <1>1, <1>2, <2>3, <2>6, <2>7, <2>8 DEF CanBeCached
    <3>2. NewlyCached(p, q, t[r], hash, lo, hi, Hashes)
      BY <3>1, CacheFullBlocksProperties, ZenonT(30)
    <3> HIDE DEF q
    <3> QED BY <3>2, ZenonT(30) DEF NewlyCached
  <2> HIDE DEF q
  <2>10. q.block_hash[NullBlock] = NoHash
    <3>1. NullBlock \in Blocks /\ \A i \in lo + 1 .. hi : t[r][i] # NullBlock
      BY <2>3, <2>8, NumGpuBlocksAssumption, SMTT(30) DEF Range, Blocks, NullBlock
    <3> QED BY <3>1, <2>9, <1>1, ZenonT(30) DEF Accounted
  <2>11. Accounted(q, t)
    BY <1>1, <2>9, <2>10 DEF Accounted, FreeIsExact
  <2>12. /\ \A s \in Requests : d[s] = IF s = r THEN hi ELSE c[s]
         /\ d \in [Requests -> Entries]
         /\ \A s \in Requests : c[s] <= d[s] /\ c[s] \in Int /\ d[s] \in Int
    BY <1>1, <1>2, <1>c, <1>4, <2>2, SMTT(30) DEF Entries, NoEntry
  <2>13. HeldOwn(q, t, d)
    <3> SUFFICES ASSUME NEW s \in Requests, NEW i \in DOMAIN t[s],
                        q.block_hash[t[s][i]] # NoHash
                 PROVE  i <= d[s] /\ q.block_hash[t[s][i]] = BlockHash(s, i)
      BY DEF HeldOwn
    <3>0. i \in Nat /\ t[s][i] \in Blocks
      BY <1>1, SMTT(30)
    <3>1. CASE \E j \in lo + 1 .. hi : t[r][j] = t[s][i]
      <4>1. PICK j \in lo + 1 .. hi : t[r][j] = t[s][i]
        BY <3>1, ZenonT(30)
      <4>2. s = r
        BY <4>1, <1>1, <1>2, <2>8, SMTT(30) DEF Shared
      <4>3. i = j
        BY <4>1, <4>2, <2>3, <2>8, ZenonT(30) DEF IsInjectiveSeq
      <4> QED BY <4>1, <4>2, <4>3, <1>2, <2>7, <2>9, <2>12, SMTT(30)
    <3>2. CASE \A j \in lo + 1 .. hi : t[r][j] # t[s][i]
      <4>1. q.block_hash[t[s][i]] = p.block_hash[t[s][i]]
        BY <3>0, <3>2, <2>9, ZenonT(30)
      <4>2. i <= c[s] /\ p.block_hash[t[s][i]] = BlockHash(s, i)
        BY <4>1, <1>1, ZenonT(30) DEF HeldOwn
      <4> QED BY <3>0, <4>1, <4>2, <2>12, SMTT(30)
    <3> QED BY <3>1, <3>2, ZenonT(30)
  <2>14. Shared(t, d)
    <3> SUFFICES ASSUME NEW v \in Requests, NEW s \in Requests,
                        NEW i \in DOMAIN t[v], NEW j \in DOMAIN t[s],
                        v # s, t[v][i] = t[s][j]
                 PROVE  /\ i = j /\ BlockHash(v, i) = BlockHash(s, i)
                        /\ i <= d[v] /\ i <= d[s]
      BY DEF Shared
    <3>1. /\ i = j /\ BlockHash(v, i) = BlockHash(s, i)
          /\ i <= c[v] /\ i <= c[s]
      BY <1>1 DEF Shared
    <3>2. i \in Nat
      BY <1>1, SMTT(30)
    <3> QED BY <3>1, <3>2, <2>12, SMTT(30)
  <2>15. \A b \in Blocks : p.block_hash[b] # NoHash => q.block_hash[b] = p.block_hash[b]
    BY <2>8, <2>9
  <2> QED BY <2>2, <2>11, <2>12, <2>13, <2>14, <2>15, <1>2, SMTT(30) DEF Consistent, hi
<1> QED BY <1>2, <1>3, <1>4

\* A hit is empty, or that of a request that holds no block.
IsHit(r, hit) ==
    \/ req_to_blocks[r] = <<>> /\ hit \in get_computed_blocks(r)
    \/ hit = <<>>

\* What the check of allocate_slots promises: after touch, the free queue still
\* has the blocks that get_new_blocks is asked for.
LEMMA EnoughBlocks ==
    ASSUME IInv, NEW r \in Requests, NEW hit, IsHit(r, hit), NEW slots \in Nat,
           get_num_blocks_to_allocate(r, slots, hit) <= get_num_free_blocks(pool)
    PROVE  num_new_blocks(r, slots, hit) \in 0 .. Len(touch(pool, hit).free)
<1> DEFINE need == cdiv(slots, BlockSize)
           have == Len(req_to_blocks[r])
           n == num_new_blocks(r, slots, hit)
           free0 == Len(pool.free)
           free1 == Len(touch(pool, hit).free)
<1>1. /\ Accounted(pool, req_to_blocks) /\ num_cached_block[r] \in Int
      /\ req_to_blocks[r] = <<>> => num_cached_block[r] = NoEntry
  BY InvariantIsConsistency DEF Consistent, Entries, NoEntry
<1>2. req_to_blocks[r] \in Seq(Blocks) /\ have \in Nat /\ free0 \in Nat
  BY <1>1 DEF Accounted, IsPool
<1>3. need \in Nat
  BY DivisionBounds
<1> HIDE DEF need
<1>4. CASE hit = <<>>
  <2>1. free1 = free0
    BY <1>4, NoHitStage
  <2>2. n = Max2(need - have, 0)
    BY <1>2, <1>4 DEF num_new_blocks, need
  <2>3. num_evictable_blocks(hit) = 0
    BY <1>4, FS_EmptySet DEF num_evictable_blocks, idle_positions
  <2>4. get_num_blocks_to_allocate(r, slots, hit) = Max2(need - have, 0)
    BY <1>2, <1>3, <1>4, <2>3 DEF get_num_blocks_to_allocate, need, Max2
  <2> HIDE DEF n, free0, free1, have
  <2>5. n <= free0
    BY <2>2, <2>4 DEF get_num_free_blocks, free0
  <2>6. n \in Nat
    BY <2>2, <1>2, <1>3 DEF Max2
  <2> QED BY <2>1, <2>5, <2>6, <1>2 DEF n, free1
<1>5. CASE req_to_blocks[r] = <<>> /\ hit \in get_computed_blocks(r)
  <2> DEFINE idle == num_evictable_blocks(hit)
  <2>1. hit \in Seq(Blocks) /\ IsInjectiveSeq(hit) /\ NullBlock \notin Range(hit)
    BY <1>5, HitProperties, ZenonT(30) DEF IInv
  <2>2. free1 = free0 - idle
    BY <1>1, <2>1, TouchProperties DEF Accounted, num_evictable_blocks
  <2>3. idle \in Nat
    <3>1. IsFiniteSet(DOMAIN hit) /\ idle_positions(pool, hit) \subseteq DOMAIN hit
      BY <2>1, FS_Interval, DOMAIN hit = 1 .. Len(hit), Len(hit) \in Int, 1 \in Int
         DEF idle_positions
    <3> QED BY <3>1, FS_Subset, FS_CardinalityType, ZenonT(30) DEF num_evictable_blocks
  <2>4. have = 0 /\ Len(hit) \in Nat /\ req_to_blocks[r] \o hit = hit
    BY <1>5, <2>1
  <2>5. n = Max2(need - Len(hit), 0)
    BY <2>4 DEF num_new_blocks, need
  <2>6. num_cached_block[r] = NoEntry
    BY <1>1, <1>5
  <2>7. get_num_blocks_to_allocate(r, slots, hit) = Max2(need - Len(hit), 0) + idle
    BY <2>4, <2>6 DEF get_num_blocks_to_allocate, need
  <2> HIDE DEF n, free0, free1, idle
  <2>8. n \in Nat
    BY <2>4, <2>5, <1>3 DEF Max2
  <2>9. n + idle <= free0
    BY <2>5, <2>7 DEF get_num_free_blocks, free0
  <2>10. n <= free1 /\ free1 \in Int
    BY <2>2, <2>3, <2>8, <2>9, <1>2
  <2> QED BY <2>8, <2>10 DEF n, free1
<1> QED BY <1>4, <1>5 DEF IsHit

\* The three stages together.
LEMMA AllocateSlots ==
    ASSUME IInv, NEW r \in Requests, NEW hit, IsHit(r, hit),
           NEW computed \in Nat, NEW new \in Nat \ {0}, NEW lookahead \in Nat,
           computed + new <= MaxModelLen,
           hit # <<>> => computed = Len(hit) * BlockSize,
           hit = <<>> => num_cached_block[r] * BlockSize <= computed,
           hit = <<>> => num_cached_block[r] * BlockSize <= num_tokens(r),
           allocate_slots(r, computed, hit, new, lookahead)
    PROVE  /\ Consistent(pool', req_to_blocks', num_cached_block')
           /\ \E x \in Seq(Blocks) :
                /\ req_to_blocks' = [req_to_blocks EXCEPT
                                       ![r] = req_to_blocks[r] \o hit \o x]
                /\ \A s \in Requests : Range(req_to_blocks[s]) \cap Range(x) = {}
           /\ \A s \in Requests : s # r => num_cached_block'[s] = num_cached_block[s]
           /\ computed + new <= Len(req_to_blocks'[r]) * BlockSize
           /\ num_cached_block'[r] * BlockSize <= num_tokens(r)
           /\ num_cached_block'[r] * BlockSize <= computed + new
           /\ \A b \in Blocks : pool.block_hash[b] # NoHash /\ pool.ref_cnt[b] > 0
                                  => pool'.block_hash[b] = pool.block_hash[b]
<1> DEFINE slots == num_tokens_need_slot(computed, new, lookahead)
           p1 == touch(pool, hit)
           n  == num_new_blocks(r, slots, hit)
           x  == new_blocks(p1, n)
           p2 == get_new_blocks(p1, n)
           t1 == [req_to_blocks EXCEPT ![r] = req_to_blocks[r] \o hit]
           t2 == [t1 EXCEPT ![r] = t1[r] \o x]
           e1 == IF hit # <<>> THEN Len(hit) ELSE num_cached_block[r]
           c1 == [num_cached_block EXCEPT ![r] = e1]
           tokens == Min2(Min2(computed, MaxModelLen) + new, num_tokens(r))
           res == cache_blocks(p2, r, t2[r], c1[r], tokens)
<1>1. /\ TypeOK /\ HashMapAgrees /\ CachedBlocksAreFull
      /\ Accounted(pool, req_to_blocks) /\ num_cached_block \in [Requests -> Entries]
      /\ req_to_blocks \in [Requests -> Seq(Blocks)]
      /\ num_tokens(r) \in Nat
  BY InvariantIsConsistency, SMTT(30) DEF IInv, Consistent, Accounted, TypeOK, num_tokens
<1>2. slots \in Nat /\ computed + new <= slots /\ tokens \in Nat
      /\ tokens <= computed + new /\ tokens <= num_tokens(r)
  BY <1>1, MaxModelLenAssumption DEF num_tokens_need_slot, Min2
<1> HIDE DEF slots, tokens
<1>3. /\ Consistent(p1, t1, c1) /\ p1.block_hash = pool.block_hash
      /\ hit \in Seq(Blocks)
      /\ \A b \in Blocks : pool.ref_cnt[b] > 0 => p1.ref_cnt[b] > 0
      /\ e1 * BlockSize <= num_tokens(r) /\ e1 * BlockSize <= computed
  <2>1. CASE hit = <<>>
    <3>1. t1 = req_to_blocks /\ c1 = num_cached_block /\ e1 = num_cached_block[r]
      BY <2>1, <1>1
    <3> HIDE DEF t1, c1, e1
    <3> QED BY <2>1, <3>1, NoHitStage
  <2>2. CASE hit # <<>>
    <3>1. hit \in get_computed_blocks(r) /\ req_to_blocks[r] = <<>> /\ e1 = Len(hit)
      BY <2>2 DEF IsHit
    <3>2. Consistent(p1, t1, c1)
      BY <3>1, HitStage, Zenon
    <3>3. /\ hit \in Seq(Blocks) /\ IsInjectiveSeq(hit) /\ NullBlock \notin Range(hit)
          /\ Len(hit) * BlockSize < num_tokens(r)
      BY <3>1, <1>1, HitProperties, ZenonT(30)
    <3>4. /\ p1.block_hash = pool.block_hash
          /\ \A b \in Blocks : p1.ref_cnt[b] = IF b \in Range(hit)
                                THEN pool.ref_cnt[b] + 1 ELSE pool.ref_cnt[b]
      BY <3>3, <1>1, TouchProperties DEF Accounted
    <3>5. \A b \in Blocks : pool.ref_cnt[b] \in Nat
      BY <1>1 DEF Accounted, IsPool
    <3>6. \A b \in Blocks : pool.ref_cnt[b] > 0 => p1.ref_cnt[b] > 0
      BY <3>4, <3>5
    <3>7. Len(hit) * BlockSize \in Nat
      BY <3>3, BlockArithmetic
    <3> HIDE DEF p1, t1, c1, e1
    <3>8. e1 * BlockSize <= num_tokens(r) /\ e1 * BlockSize <= computed
      BY <2>2, <3>1, <3>3, <3>7, <1>1, SMTT(30)
    <3> QED BY <3>2, <3>3, <3>4, <3>6, <3>8, SMTT(30)
  <2> QED BY <2>1, <2>2, ZenonT(30)
<1>4. n \in 0 .. Len(p1.free)
  BY <1>2, EnoughBlocks DEF allocate_slots, slots
<1> HIDE DEF n
<1>5. /\ Consistent(p2, t2, c1)
      /\ x \in Seq(Blocks) /\ Len(x) = n
      /\ \A b \in Blocks : p1.ref_cnt[b] > 0 => p2.block_hash[b] = p1.block_hash[b]
      /\ \A s \in Requests : Range(t1[s]) \cap Range(x) = {}
  <2> HIDE DEF p1, t1, c1
  <2> QED BY <1>3, <1>4, NewStage, Zenon
<1>6. /\ t1[r] = req_to_blocks[r] \o hit
      /\ \A s \in Requests : s # r => t1[s] = req_to_blocks[s]
      /\ t2[r] = req_to_blocks[r] \o hit \o x
      /\ t2 = [req_to_blocks EXCEPT ![r] = req_to_blocks[r] \o hit \o x]
  BY <1>1, Zenon
<1>7. c1[r] = e1 /\ \A s \in Requests : s # r => c1[s] = num_cached_block[s]
  BY <1>1, ZenonT(30)
<1>8. /\ pool' = res.pool
      /\ req_to_blocks' = t2
      /\ num_cached_block' = [num_cached_block EXCEPT ![r] = res.entry]
  <2> HIDE DEF p1, p2, x, t2, c1
  <2> QED BY <1>6, <1>7 DEF allocate_slots, p1, p2, x, slots, n, tokens
<1> HIDE DEF p1, p2, x, e1
<1>9. /\ Len(t2[r]) \in Nat /\ cdiv(slots, BlockSize) <= Len(t2[r])
  <2> DEFINE have == Len(req_to_blocks[r] \o hit)
             need == cdiv(slots, BlockSize)
  <2>1. req_to_blocks[r] \in Seq(Blocks) /\ req_to_blocks[r] \o hit \in Seq(Blocks)
    BY <1>1, <1>3
  <2>2. have \in Nat /\ need \in Nat
    <3>1. need \in Nat
      BY <1>2, DivisionBounds, Zenon
    <3> QED BY <2>1, <3>1
  <2>3. Len(t2[r]) = have + n
    <3> DEFINE y == req_to_blocks[r] \o hit
    <3>1. y \in Seq(Blocks) /\ t2[r] = y \o x /\ x \in Seq(Blocks) /\ Len(x) = n
      BY <2>1, <1>5, <1>6, Zenon
    <3> HIDE DEF y, t2
    <3>2. Len(y \o x) = Len(y) + Len(x)
      BY <3>1, ConcatProperties, Zenon
    <3>3. Len(t2[r]) = Len(y) + n
      BY <3>1, <3>2
    <3> QED BY <3>3 DEF y
  <2>4. n = Max2(need - have, 0)
    BY DEF n, num_new_blocks
  <2> HIDE DEF have, need, t2
  <2> QED BY <2>2, <2>3, <2>4, SMTT(30) DEF Max2, need
<1>10. computed + new <= Len(t2[r]) * BlockSize /\ tokens <= Len(t2[r]) * BlockSize
  <2>1. /\ slots <= cdiv(slots, BlockSize) * BlockSize /\ cdiv(slots, BlockSize) \in Nat
    BY <1>2, DivisionBounds, Zenon
  <2>2. cdiv(slots, BlockSize) * BlockSize <= Len(t2[r]) * BlockSize
    <3> DEFINE k == cdiv(slots, BlockSize)
               l == Len(t2[r])
    <3>1. k \in Int /\ l \in Int /\ k <= l
      BY <2>1, <1>9
    <3> HIDE DEF k, l
    <3>2. k * BlockSize <= l * BlockSize
      BY <3>1, BlockArithmetic
    <3> QED BY <3>2 DEF k, l
  <2>3. cdiv(slots, BlockSize) * BlockSize \in Nat /\ Len(t2[r]) * BlockSize \in Nat
    BY <2>1, <1>9, BlockArithmetic, Zenon
  <2> QED BY <2>1, <2>2, <2>3, <1>2
<1> HIDE DEF t2
<1>11. /\ Consistent(res.pool, t2, [c1 EXCEPT ![r] = res.entry])
       /\ res.entry \in {c1[r], tokens \div BlockSize}
       /\ \A b \in Blocks : p2.block_hash[b] # NoHash
                              => res.pool.block_hash[b] = p2.block_hash[b]
  <2> DEFINE d == [c1 EXCEPT ![r] = res.entry]
  <2>1. CacheOutcome(p2, t2, c1, r, tokens, res, d)
    BY ZenonT(30) DEF CacheOutcome
  <2> HIDE DEF c1, res, d
  <2>2. /\ Consistent(res.pool, t2, d)
        /\ res.entry \in {c1[r], tokens \div BlockSize}
        /\ \A b \in Blocks : p2.block_hash[b] # NoHash
                              => res.pool.block_hash[b] = p2.block_hash[b]
    <3>1. TypeOK /\ Consistent(p2, t2, c1) /\ Cacheable(t2, r, tokens)
      BY <1>1, <1>2, <1>5, <1>10 DEF Cacheable
    <3> QED BY <2>1, <3>1, CacheStage, SMTT(30)
  <2> QED BY <2>2 DEF d
<1> HIDE DEF res
<1>12. [c1 EXCEPT ![r] = res.entry] = [num_cached_block EXCEPT ![r] = res.entry]
  BY <1>1, Zenon
<1> HIDE DEF c1
<1>13. /\ num_cached_block'[r] = res.entry
       /\ \A s \in Requests : s # r => num_cached_block'[s] = num_cached_block[s]
  BY <1>1, <1>8, SMTT(30)
<1>14. res.entry * BlockSize <= num_tokens(r) /\ res.entry * BlockSize <= computed + new
  <2>1. CASE res.entry = e1
    <3>1. e1 \in Int
      BY <1>1, <1>3 DEF e1, Entries, NoEntry
    <3>2. e1 * BlockSize \in Int
      BY <3>1, BlockSizeAssumption
    <3> QED BY <2>1, <3>2, <1>3, SMTT(30)
  <2>2. CASE res.entry = tokens \div BlockSize
    <3> DEFINE k == tokens \div BlockSize
    <3>1. k * BlockSize <= tokens /\ k \in Nat
      BY <1>2, DivisionBounds
    <3>2. k * BlockSize \in Nat
      BY <3>1, BlockArithmetic, SMTT(30)
    <3> HIDE DEF k
    <3> QED BY <2>2, <3>1, <3>2, <1>1, <1>2, SMTT(30) DEF k
  <2> QED BY <2>1, <2>2, <1>7, <1>11, ZenonT(30)
<1>15. \A s \in Requests : Range(req_to_blocks[s]) \cap Range(x) = {}
  <2>1. \A s \in Requests : Range(req_to_blocks[s]) \subseteq Range(t1[s])
    <3> TAKE s \in Requests
    <3>1. CASE s = r
      BY <3>1, <1>1, <1>3, <1>6, ConcatProperties2, SMTT(30)
    <3> QED BY <3>1, <1>6
  <2> QED BY <2>1, <1>5, SMTT(30)
<1>16. \A b \in Blocks : pool.block_hash[b] # NoHash /\ pool.ref_cnt[b] > 0
                         => pool'.block_hash[b] = pool.block_hash[b]
  BY <1>3, <1>5, <1>8, <1>11
<1> HIDE DEF t1, tokens
<1> QED BY <1>5, <1>6, <1>8, <1>10, <1>11, <1>12, <1>13, <1>14, <1>15, <1>16, ZenonT(30)
-----------------------------------------------------------------------------
(* The steps *)

\* A step that keeps the tokens and ends in a consistent state.
LEMMA ConsistencyIsInvariant ==
    ASSUME IInv, Consistent(pool', req_to_blocks', num_cached_block'),
           all_token_ids' = all_token_ids,
           num_computed_tokens' \in [Requests -> Nat],
           num_scheduled_tokens' \in [Requests -> Nat],
           SlotsCoverTokens', CachedBlocksAreFull', OneWriterPerBlock'
    PROVE  IInv'
<1>1. /\ Accounted(pool', req_to_blocks') /\ HeldOwn(pool', req_to_blocks', num_cached_block')
      /\ Shared(req_to_blocks', num_cached_block')
      /\ num_cached_block' \in [Requests -> Entries]
  BY DEF Consistent
<1>2. TypeOK'
  <2>1. \A r \in Requests : Len(all_token_ids[r]) \in 1 .. MaxModelLen
    BY DEF IInv, TypeOK, num_tokens
  <2>2. all_token_ids \in [Requests -> Seq(Tokens)]
    BY ZenonT(30) DEF IInv, TypeOK
  <2> QED BY <1>1, <2>1, <2>2 DEF Accounted, TypeOK, num_tokens, Entries
<1>3. FreeQueueIsExact' /\ HashMapAgrees'
  BY <1>1, ZenonT(30) DEF Accounted, FreeQueueIsExact, HashMapAgrees, FreeIsExact, MapIsExact
<1>4. RefCountsAreHolders'
  BY <1>1, ZenonT(30) DEF Accounted, RefCountsAreHolders, Holders, HoldersIn
<1>5. HeldBlocksHaveOwnHash'
  BY <1>1 DEF HeldOwn, HeldBlocksHaveOwnHash, BlockHash
<1>6. SharedBlocksAgree'
  <2>1. \A r \in Requests : \A i : BlockHash(r, i)' = BlockHash(r, i)
    BY DEF BlockHash
  <2> SUFFICES ASSUME NEW q \in Requests, NEW r \in Requests,
                      NEW i \in DOMAIN req_to_blocks'[q], NEW j \in DOMAIN req_to_blocks'[r],
                      q # r, req_to_blocks'[q][i] = req_to_blocks'[r][j]
               PROVE  /\ i = j /\ BlockHash(q, i)' = BlockHash(r, i)'
                      /\ i <= num_cached_block'[q] /\ i <= num_cached_block'[r]
    BY ZenonT(30) DEF SharedBlocksAgree
  <2>2. /\ i = j /\ BlockHash(q, i) = BlockHash(r, i)
        /\ i <= num_cached_block'[q] /\ i <= num_cached_block'[r]
    BY <1>1 DEF Shared
  <2> QED BY <2>1, <2>2
<1> QED BY <1>2, <1>3, <1>4, <1>5, <1>6 DEF IInv

\* num_cached_block in tokens, as two bounds.
LEMMA CachedBounds ==
    ASSUME IInv, NEW r \in Requests
    PROVE  /\ num_cached_block[r] * BlockSize \in Int
           /\ num_cached_block[r] * BlockSize <= num_tokens(r)
           /\ num_cached_block[r] * BlockSize
                <= num_computed_tokens[r] + num_scheduled_tokens[r]
           /\ num_cached_block[r] <= Len(req_to_blocks[r])
<1>1. num_cached_block[r] \in Int
  BY DEF IInv, TypeOK, NoEntry
<1>2. num_cached_block[r] * BlockSize \in Int
  BY <1>1, BlockSizeAssumption
<1>3. num_tokens(r) \in Nat /\ num_computed_tokens[r] + num_scheduled_tokens[r] \in Nat
  BY DEF IInv, TypeOK, num_tokens
<1> QED BY <1>2, <1>3 DEF IInv, CachedBlocksAreFull, Min2

\* What both allocating actions leave, given the request's new counters.
LEMMA AllocatingStep ==
    ASSUME IInv, NEW r \in Requests, NEW hit, IsHit(r, hit),
           NEW computed \in Nat, NEW new \in Nat \ {0}, NEW lookahead \in Nat,
           computed + new <= MaxModelLen,
           hit # <<>> => computed = Len(hit) * BlockSize,
           hit = <<>> => num_cached_block[r] * BlockSize <= computed,
           allocate_slots(r, computed, hit, new, lookahead),
           req_to_blocks[r] # <<>> => computed = num_computed_tokens[r],
           all_token_ids' = all_token_ids,
           num_computed_tokens' = [num_computed_tokens EXCEPT ![r] = computed],
           num_scheduled_tokens' = [num_scheduled_tokens EXCEPT ![r] = new]
    PROVE  IInv' /\ TableStep
<1>0. hit = <<>> => num_cached_block[r] * BlockSize <= num_tokens(r)
  BY CachedBounds
<1>1. /\ Consistent(pool', req_to_blocks', num_cached_block')
      /\ \E x \in Seq(Blocks) :
           /\ req_to_blocks' = [req_to_blocks EXCEPT ![r] = req_to_blocks[r] \o hit \o x]
           /\ \A s \in Requests : Range(req_to_blocks[s]) \cap Range(x) = {}
      /\ \A s \in Requests : s # r => num_cached_block'[s] = num_cached_block[s]
      /\ computed + new <= Len(req_to_blocks'[r]) * BlockSize
      /\ num_cached_block'[r] * BlockSize <= num_tokens(r)
      /\ num_cached_block'[r] * BlockSize <= computed + new
      /\ \A b \in Blocks : pool.block_hash[b] # NoHash /\ pool.ref_cnt[b] > 0
                             => pool'.block_hash[b] = pool.block_hash[b]
  BY <1>0, AllocateSlots, Zenon
<1>2. PICK x \in Seq(Blocks) :
        /\ req_to_blocks' = [req_to_blocks EXCEPT ![r] = req_to_blocks[r] \o hit \o x]
        /\ \A s \in Requests : Range(req_to_blocks[s]) \cap Range(x) = {}
  BY <1>1, Zenon
<1>3. /\ num_computed_tokens \in [Requests -> Nat] /\ num_scheduled_tokens \in [Requests -> Nat]
      /\ req_to_blocks \in [Requests -> Seq(Blocks)]
      /\ all_token_ids \in [Requests -> Seq(Tokens)]
      /\ \A s \in Requests : num_tokens(s) \in Nat
  BY DEF IInv, TypeOK, num_tokens
<1>4. /\ num_computed_tokens' \in [Requests -> Nat] /\ num_scheduled_tokens' \in [Requests -> Nat]
      /\ num_computed_tokens'[r] = computed /\ num_scheduled_tokens'[r] = new
      /\ \A s \in Requests : s # r => /\ num_computed_tokens'[s] = num_computed_tokens[s]
                                       /\ num_scheduled_tokens'[s] = num_scheduled_tokens[s]
  BY <1>3
<1>5. hit \in Seq(Blocks) /\ (req_to_blocks[r] = <<>> \/ hit = <<>>)
  <2>1. CASE hit = <<>>
    BY <2>1, SMTT(30)
  <2>2. CASE req_to_blocks[r] = <<>> /\ hit \in get_computed_blocks(r)
    BY <2>2, HitProperties DEF IInv
  <2> QED BY <2>1, <2>2 DEF IsHit
<1>6. /\ \A s \in Requests : s # r => req_to_blocks'[s] = req_to_blocks[s]
      /\ req_to_blocks'[r] = req_to_blocks[r] \o hit \o x
      /\ req_to_blocks' \in [Requests -> Seq(Blocks)]
  <2> DEFINE w == req_to_blocks[r] \o hit \o x
  <2>1. req_to_blocks[r] \in Seq(Blocks) /\ hit \in Seq(Blocks)
    BY <1>3, <1>5, Zenon
  <2>2. w \in Seq(Blocks)
    BY <2>1
  <2>3. req_to_blocks' = [req_to_blocks EXCEPT ![r] = w] /\ req_to_blocks \in [Requests -> Seq(Blocks)]
    BY <1>2, <1>3, Zenon
  <2> HIDE DEF w
  <2>4. /\ \A s \in Requests : s # r => req_to_blocks'[s] = req_to_blocks[s]
        /\ req_to_blocks'[r] = w
        /\ req_to_blocks' \in [Requests -> Seq(Blocks)]
    BY <2>2, <2>3
  <2> QED BY <2>4, Zenon DEF w
<1>7. SlotsCoverTokens'
  <2>1. \A s \in Requests : s # r =>
          num_computed_tokens'[s] + num_scheduled_tokens'[s] <= Len(req_to_blocks'[s]) * BlockSize
    BY <1>4, <1>6, Zenon DEF IInv, SlotsCoverTokens
  <2>2. num_computed_tokens'[r] + num_scheduled_tokens'[r] <= Len(req_to_blocks'[r]) * BlockSize
    BY <1>1, <1>4, ZenonT(30)
  <2> QED BY <2>1, <2>2 DEF SlotsCoverTokens
<1>8. CachedBlocksAreFull'
  <2> SUFFICES ASSUME NEW s \in Requests
               PROVE  /\ num_cached_block'[s] <= Len(req_to_blocks'[s])
                      /\ num_cached_block'[s] * BlockSize
                           <= Min2(num_tokens(s), num_computed_tokens'[s] + num_scheduled_tokens'[s])
    BY DEF CachedBlocksAreFull, num_tokens, Min2
  <2>1. CASE s # r
    BY <2>1, <1>1, <1>4, <1>6, ZenonT(30) DEF IInv, CachedBlocksAreFull
  <2>2. CASE s = r
    <3>1. num_cached_block'[r] \in Int /\ Len(req_to_blocks'[r]) \in Int
      <4>1. num_cached_block'[r] \in Entries /\ req_to_blocks'[r] \in Seq(Blocks)
        BY <1>1, <1>6, Zenon DEF Consistent
      <4> QED BY <4>1 DEF Entries, NoEntry
    <3>2. /\ num_cached_block'[r] * BlockSize \in Int
          /\ Len(req_to_blocks'[r]) * BlockSize \in Int
      BY <3>1, BlockSizeAssumption
    <3>3. num_cached_block'[r] * BlockSize <= Len(req_to_blocks'[r]) * BlockSize
      <4>1. /\ computed + new <= Len(req_to_blocks'[r]) * BlockSize
            /\ num_cached_block'[r] * BlockSize <= computed + new
        BY <1>1, Zenon
      <4> QED BY <3>2, <4>1
    <3>4. num_cached_block'[r] <= Len(req_to_blocks'[r])
      BY <3>1, <3>3, BlockArithmetic, Zenon
    <3>5. num_cached_block'[r] * BlockSize
            <= Min2(num_tokens(r), num_computed_tokens'[r] + num_scheduled_tokens'[r])
      BY <3>2, <1>1, <1>3, <1>4, ZenonT(30) DEF Min2
    <3> QED BY <2>2, <3>4, <3>5, ZenonT(30)
  <2> QED BY <2>1, <2>2, ZenonT(30)
<1>9. ASSUME NEW s \in Requests, s # r, NEW i \in DOMAIN req_to_blocks'[s],
             NEW j \in DOMAIN req_to_blocks'[r],
             req_to_blocks'[s][i] = req_to_blocks'[r][j]
      PROVE  i * BlockSize <= num_computed_tokens'[s] \/ j * BlockSize <= num_computed_tokens'[r]
  <2> DEFINE y == req_to_blocks[r] \o hit
  <2>1. y \in Seq(Blocks) /\ req_to_blocks'[r] = y \o x /\ req_to_blocks'[s] = req_to_blocks[s]
    BY <1>3, <1>5, <1>6, <1>9
  <2>2. i \in DOMAIN req_to_blocks[s] /\ req_to_blocks[s][i] \notin Range(x)
    BY <2>1, <1>2, Zenon DEF Range
  <2> HIDE DEF y
  <2>3. j \in DOMAIN y /\ y[j] = req_to_blocks'[r][j]
    <3>1. j \in 1 .. Len(y) + Len(x) /\ Len(y) \in Nat /\ Len(x) \in Nat
      BY <2>1, SMTT(30)
    <3>2. CASE j > Len(y)
      <4>1. j - Len(y) \in DOMAIN x /\ req_to_blocks'[r][j] = x[j - Len(y)]
        BY <3>1, <3>2, <2>1, SMTT(30)
      <4> QED BY <4>1, <2>1, <2>2, <1>9, SMTT(30) DEF Range
    <3>3. CASE j <= Len(y)
      BY <3>1, <3>3, <2>1, SMTT(30)
    <3> QED BY <3>1, <3>2, <3>3, SMTT(30)
  <2>4. CASE hit = <<>>
    <3>1. y = req_to_blocks[r]
      BY <2>4, <1>3, SMTT(30) DEF y
    <3>2. req_to_blocks[r] # <<>>
      BY <3>1, <2>3, SMTT(30)
    <3>3. j \in DOMAIN req_to_blocks[r] /\ req_to_blocks[s][i] = req_to_blocks[r][j]
      BY <3>1, <2>1, <2>3, <1>9, Zenon
    <3>4. i * BlockSize <= num_computed_tokens[s] \/ j * BlockSize <= num_computed_tokens[r]
      BY <3>3, <2>2, <1>9, Zenon DEF IInv, OneWriterPerBlock
    <3>5. num_computed_tokens'[s] = num_computed_tokens[s] /\ num_computed_tokens'[r] = num_computed_tokens[r]
      BY <3>2, <1>4, <1>9, Zenon
    <3> QED BY <3>4, <3>5, Zenon
  <2>5. CASE hit # <<>>
    <3>1. y = hit /\ computed = Len(hit) * BlockSize
      <4>1. req_to_blocks[r] = <<>> /\ hit \in Seq(Blocks)
        BY <2>5, <1>5, Zenon
      <4> QED BY <2>5, <4>1 DEF y
    <3>2. j \in Int /\ Len(hit) \in Int /\ j <= Len(hit)
      BY <3>1, <2>3, <1>5
    <3>3. j * BlockSize <= Len(hit) * BlockSize
      BY <3>2, BlockArithmetic, SMTT(30)
    <3> QED BY <3>1, <3>3, <1>4, SMTT(30)
  <2> QED BY <2>4, <2>5
<1>10. OneWriterPerBlock'
  <2> SUFFICES ASSUME NEW v \in Requests, NEW s \in Requests,
                      NEW i \in DOMAIN req_to_blocks'[v], NEW j \in DOMAIN req_to_blocks'[s],
                      v # s, req_to_blocks'[v][i] = req_to_blocks'[s][j]
               PROVE  i * BlockSize <= num_computed_tokens'[v]
                        \/ j * BlockSize <= num_computed_tokens'[s]
    BY DEF OneWriterPerBlock
  <2>1. CASE v = r
    BY <2>1, <1>9, SMTT(30)
  <2>2. CASE s = r
    BY <2>2, <1>9
  <2>3. CASE v # r /\ s # r
    BY <2>3, <1>4, <1>6, ZenonT(30) DEF IInv, OneWriterPerBlock
  <2> QED BY <2>1, <2>2, <2>3, ZenonT(30)
<1>11. IInv'
  BY <1>1, <1>4, <1>7, <1>8, <1>10, ConsistencyIsInvariant, SMTT(30)
<1>12. TableStep
  <2>1. SubSeq(req_to_blocks'[r], 1, Len(req_to_blocks[r])) = req_to_blocks[r]
    BY <1>3, <1>5, <1>6
  <2>2. \A s \in Requests : s # r =>
          SubSeq(req_to_blocks'[s], 1, Len(req_to_blocks[s])) = req_to_blocks[s]
    <3>1. \A u \in Seq(Blocks) : SubSeq(u, 1, Len(u)) = u
      OBVIOUS
    <3> QED BY <3>1, <1>3, <1>6, Zenon
  <2>3. \A s \in Requests :
          SubSeq(req_to_blocks'[s], 1, Len(req_to_blocks[s])) = req_to_blocks[s]
    BY <2>1, <2>2, Zenon
  <2>4. \A b \in Blocks : pool.block_hash[b] # NoHash /\ pool.ref_cnt[b] > 0
                            => pool.block_hash'[b] \in {pool.block_hash[b], NoHash}
    BY <1>1, Zenon
  <2> QED BY <2>3, <2>4, Zenon DEF TableStep
<1> QED BY <1>11, <1>12

\* A request is admitted with its prefix-cache hit.
LEMMA AdmitStep ==
    ASSUME IInv, NEW r \in Requests, AdmitRequest(r)
    PROVE  IInv' /\ TableStep
<1>0. PICK hit \in get_computed_blocks(r) :
        \E new \in 1 .. num_tokens(r) - Len(hit) * BlockSize :
          /\ allocate_slots(r, Len(hit) * BlockSize, hit, new, 0)
          /\ num_computed_tokens' = [num_computed_tokens EXCEPT ![r] = Len(hit) * BlockSize]
          /\ num_scheduled_tokens' = [num_scheduled_tokens EXCEPT ![r] = new]
  BY Zenon DEF AdmitRequest
<1>1. PICK new \in 1 .. num_tokens(r) - Len(hit) * BlockSize :
        /\ allocate_slots(r, Len(hit) * BlockSize, hit, new, 0)
        /\ num_computed_tokens' = [num_computed_tokens EXCEPT ![r] = Len(hit) * BlockSize]
        /\ num_scheduled_tokens' = [num_scheduled_tokens EXCEPT ![r] = new]
  BY <1>0, Zenon
<1>2. req_to_blocks[r] = <<>> /\ IsHit(r, hit) /\ all_token_ids' = all_token_ids
  BY SMTT(30) DEF AdmitRequest, IsHit
<1> DEFINE computed == Len(hit) * BlockSize
<1>3. computed \in Nat
  BY HitProperties, BlockArithmetic DEF IInv
<1>4. num_tokens(r) \in Nat /\ num_tokens(r) <= MaxModelLen
  BY MaxModelLenAssumption DEF IInv, TypeOK
<1>5. num_cached_block[r] * BlockSize <= computed
  <2>1. num_cached_block[r] = NoEntry
    BY <1>2, InvariantIsConsistency
  <2> HIDE DEF computed
  <2> QED BY <2>1, <1>3, BlockSizeAssumption, SMTT(30) DEF NoEntry
<1> HIDE DEF computed
<1>6. new \in Nat \ {0} /\ computed + new <= MaxModelLen
  BY <1>3, <1>4, MaxModelLenAssumption, new \in 1 .. num_tokens(r) - computed DEF computed
<1>7. /\ allocate_slots(r, computed, hit, new, 0)
      /\ num_computed_tokens' = [num_computed_tokens EXCEPT ![r] = computed]
      /\ computed = Len(hit) * BlockSize
  BY <1>1 DEF computed
<1> QED BY <1>1, <1>2, <1>3, <1>5, <1>6, <1>7, AllocatingStep, 0 \in Nat, ZenonT(30)

\* A running request grows.
LEMMA GrowStep ==
    ASSUME IInv, NEW r \in Requests, GrowRequest(r)
    PROVE  IInv' /\ TableStep
<1> DEFINE computed == num_computed_tokens[r]
<1>1. PICK new \in 1 .. MaxModelLen - computed, lookahead \in 0 .. MaxLookahead :
        /\ allocate_slots(r, computed, <<>>, new, lookahead)
        /\ num_scheduled_tokens' = [num_scheduled_tokens EXCEPT ![r] = new]
  BY Zenon DEF GrowRequest
<1>2. /\ all_token_ids' = all_token_ids /\ num_computed_tokens' = num_computed_tokens
      /\ num_scheduled_tokens[r] = 0
  BY DEF GrowRequest
<1>3. computed \in Nat /\ num_computed_tokens \in [Requests -> Nat]
  BY DEF IInv, TypeOK
<1>4. num_cached_block[r] * BlockSize <= computed
  BY <1>2, <1>3, CachedBounds
<1>5. num_computed_tokens' = [num_computed_tokens EXCEPT ![r] = computed]
  BY <1>2, <1>3
<1>6. IsHit(r, <<>>)
  BY DEF IsHit
<1>7. new \in Nat \ {0} /\ lookahead \in Nat /\ computed + new <= MaxModelLen
  BY <1>3, MaxModelLenAssumption, MaxLookaheadAssumption
<1> QED BY <1>1, <1>2, <1>3, <1>4, <1>5, <1>6, <1>7, AllocatingStep, Zenon

\* The end of a pass moves scheduled tokens to computed tokens.
LEMMA CommitStep ==
    ASSUME IInv, CommitSchedule
    PROVE  IInv' /\ TableStep
<1>1. /\ pool' = pool /\ req_to_blocks' = req_to_blocks /\ num_cached_block' = num_cached_block
      /\ all_token_ids' = all_token_ids
      /\ num_computed_tokens' = [r \in Requests |->
                                   num_computed_tokens[r] + num_scheduled_tokens[r]]
      /\ num_scheduled_tokens' = [r \in Requests |-> 0]
  BY DEF CommitSchedule, kvVars
<1>2. /\ num_computed_tokens \in [Requests -> Nat] /\ num_scheduled_tokens \in [Requests -> Nat]
      /\ req_to_blocks \in [Requests -> Seq(Blocks)]
  BY DEF IInv, TypeOK
<1>3. /\ num_computed_tokens' \in [Requests -> Nat] /\ num_scheduled_tokens' \in [Requests -> Nat]
      /\ \A r \in Requests :
           /\ num_computed_tokens'[r] + num_scheduled_tokens'[r]
                = num_computed_tokens[r] + num_scheduled_tokens[r]
           /\ num_computed_tokens[r] <= num_computed_tokens'[r]
           /\ num_computed_tokens[r] \in Nat /\ num_computed_tokens'[r] \in Nat
  BY <1>1, <1>2, SMTT(30)
<1>4. Consistent(pool', req_to_blocks', num_cached_block')
  BY <1>1, InvariantIsConsistency, SMTT(30)
<1>5. SlotsCoverTokens' /\ CachedBlocksAreFull'
  BY <1>1, <1>3 DEF IInv, SlotsCoverTokens, CachedBlocksAreFull, num_tokens
<1>6. OneWriterPerBlock'
  <2> SUFFICES ASSUME NEW v \in Requests, NEW s \in Requests,
                      NEW i \in DOMAIN req_to_blocks[v], NEW j \in DOMAIN req_to_blocks[s],
                      v # s, req_to_blocks[v][i] = req_to_blocks[s][j]
               PROVE  i * BlockSize <= num_computed_tokens'[v]
                        \/ j * BlockSize <= num_computed_tokens'[s]
    BY <1>1 DEF OneWriterPerBlock
  <2>1. i * BlockSize <= num_computed_tokens[v] \/ j * BlockSize <= num_computed_tokens[s]
    BY DEF IInv, OneWriterPerBlock
  <2>2. i * BlockSize \in Nat /\ j * BlockSize \in Nat
    <3>1. i \in Nat /\ j \in Nat
      BY <1>2, SMTT(30)
    <3> QED BY <3>1, BlockArithmetic
  <2> QED BY <2>1, <2>2, <1>3, SMTT(30)
<1>7. IInv'
  BY <1>1, <1>3, <1>4, <1>5, <1>6, ConsistencyIsInvariant, SMTT(30)
<1>8. TableStep
  <2>1. \A u \in Seq(Blocks) : SubSeq(u, 1, Len(u)) = u
    OBVIOUS
  <2> QED BY <1>1, <1>2, <2>1 DEF TableStep
<1> QED BY <1>7, <1>8

\* Appending a token changes no hash of a full block.
LEMMA AppendStep ==
    ASSUME IInv, NEW r \in Requests, AppendOutputToken(r)
    PROVE  IInv' /\ TableStep
<1>1. PICK tok \in Tokens : all_token_ids' = [all_token_ids EXCEPT ![r] = Append(@, tok)]
  BY Zenon DEF AppendOutputToken
<1>2. /\ pool' = pool /\ req_to_blocks' = req_to_blocks /\ num_cached_block' = num_cached_block
      /\ num_computed_tokens' = num_computed_tokens
      /\ num_scheduled_tokens' = num_scheduled_tokens
      /\ num_tokens(r) < MaxModelLen
  BY DEF AppendOutputToken, kvVars
<1>3. /\ all_token_ids \in [Requests -> Seq(Tokens)] /\ TypeOK
      /\ req_to_blocks \in [Requests -> Seq(Blocks)]
      /\ num_cached_block \in [Requests -> Entries]
      /\ \A s \in Requests : num_tokens(s) \in 1 .. MaxModelLen
  BY DEF IInv, TypeOK, Entries
<1>4. /\ all_token_ids' \in [Requests -> Seq(Tokens)]
      /\ \A s \in Requests : s # r => all_token_ids'[s] = all_token_ids[s]
      /\ all_token_ids'[r] = Append(all_token_ids[r], tok)
  BY <1>1, <1>3
<1>5. \A s \in Requests : /\ num_tokens(s)' \in 1 .. MaxModelLen
                           /\ num_tokens(s) <= num_tokens(s)'
                           /\ num_tokens(s)' \in Nat /\ num_tokens(s) \in Nat
  <2> TAKE s \in Requests
  <2>1. num_tokens(s) = Len(all_token_ids[s]) /\ num_tokens(s)' = Len(all_token_ids'[s])
    BY DEF num_tokens
  <2>2. num_tokens(s) \in 1 .. MaxModelLen
    BY <1>3
  <2>3. CASE s = r
    <3>1. num_tokens(s)' = num_tokens(s) + 1
      BY <2>1, <2>3, <1>3, <1>4, SMTT(30)
    <3> QED BY <2>2, <2>3, <3>1, <1>2, MaxModelLenAssumption, SMTT(30)
  <2>4. CASE s # r
    BY <2>1, <2>2, <2>4, <1>4, MaxModelLenAssumption, SMTT(30)
  <2> QED BY <2>3, <2>4
<1>6. TypeOK'
  BY <1>2, <1>3, <1>4, <1>5 DEF TypeOK
<1>7. ASSUME NEW s \in Requests, NEW i \in Nat, i <= num_cached_block[s]
      PROVE  BlockHash(s, i)' = BlockHash(s, i)
  <2>1. num_cached_block[s] \in Int /\ i \in Int
    BY <1>3 DEF Entries, NoEntry
  <2>2. i * BlockSize <= num_cached_block[s] * BlockSize
    BY <1>7, <2>1, BlockArithmetic
  <2>3. i * BlockSize \in Nat /\ i * BlockSize <= num_tokens(s)
    <3>1. i * BlockSize \in Nat
      BY BlockArithmetic
    <3>2. /\ num_cached_block[s] * BlockSize \in Int
          /\ num_cached_block[s] * BlockSize <= num_tokens(s)
      BY CachedBounds
    <3>3. num_tokens(s) \in Int
      BY <1>5
    <3> QED BY <2>2, <3>1, <3>2, <3>3
  <2> DEFINE k == i * BlockSize
  <2>4. k \in Nat /\ k <= Len(all_token_ids[s])
    BY <2>3 DEF num_tokens
  <2> HIDE DEF k
  <2>5. SubSeq(all_token_ids'[s], 1, k) = SubSeq(all_token_ids[s], 1, k)
    <3>1. CASE s # r
      BY <3>1, <1>4, Zenon
    <3>2. CASE s = r
      <4>1. all_token_ids[r] \in Seq(Tokens)
        BY <1>3
      <4>2. SubSeq(Append(all_token_ids[r], tok), 1, k) = SubSeq(all_token_ids[r], 1, k)
        BY <4>1, <2>4, <3>2, SMTT(30)
      <4> QED BY <3>2, <4>2, <1>4, Zenon
    <3> QED BY <3>1, <3>2, Zenon
  <2> QED BY <2>5, Zenon DEF BlockHash, k
<1>8. HeldBlocksHaveOwnHash'
  <2> SUFFICES ASSUME NEW s \in Requests, NEW i \in DOMAIN req_to_blocks[s],
                      pool.block_hash[req_to_blocks[s][i]] # NoHash
               PROVE  /\ i <= num_cached_block[s]
                      /\ pool.block_hash[req_to_blocks[s][i]] = BlockHash(s, i)'
    BY <1>2, ZenonT(30) DEF HeldBlocksHaveOwnHash
  <2>1. i \in Nat
    BY <1>3
  <2> QED BY <2>1, <1>7, ZenonT(30) DEF IInv, HeldBlocksHaveOwnHash
<1>9. SharedBlocksAgree'
  <2> SUFFICES ASSUME NEW v \in Requests, NEW s \in Requests,
                      NEW i \in DOMAIN req_to_blocks[v], NEW j \in DOMAIN req_to_blocks[s],
                      v # s, req_to_blocks[v][i] = req_to_blocks[s][j]
               PROVE  /\ i = j /\ BlockHash(v, i)' = BlockHash(s, i)'
                      /\ i <= num_cached_block[v] /\ i <= num_cached_block[s]
    BY <1>2 DEF SharedBlocksAgree
  <2>1. i \in Nat
    BY <1>3, SMTT(30)
  <2>2. /\ i = j /\ BlockHash(v, i) = BlockHash(s, i)
        /\ i <= num_cached_block[v] /\ i <= num_cached_block[s]
    BY ZenonT(30) DEF IInv, SharedBlocksAgree
  <2> QED BY <2>1, <2>2, <1>7, SMTT(30)
<1>10. CachedBlocksAreFull'
  <2> SUFFICES ASSUME NEW s \in Requests
               PROVE  /\ num_cached_block[s] <= Len(req_to_blocks[s])
                      /\ num_cached_block[s] * BlockSize
                           <= Min2(num_tokens(s)', num_computed_tokens[s] + num_scheduled_tokens[s])
    BY <1>2 DEF CachedBlocksAreFull, Min2
  <2>1. num_computed_tokens[s] + num_scheduled_tokens[s] \in Nat
    BY <1>3, SMTT(30) DEF TypeOK
  <2> QED BY <2>1, <1>5, CachedBounds, SMTT(30) DEF Min2
<1>11. /\ FreeQueueIsExact' /\ RefCountsAreHolders' /\ HashMapAgrees'
       /\ SlotsCoverTokens' /\ OneWriterPerBlock'
  BY ZenonT(30), <1>2 DEF IInv, FreeQueueIsExact, RefCountsAreHolders, HashMapAgrees, SlotsCoverTokens,
              OneWriterPerBlock, FreeIsExact, MapIsExact, Holders
<1>12. TableStep
  <2>1. \A u \in Seq(Blocks) : SubSeq(u, 1, Len(u)) = u
    OBVIOUS
  <2> QED BY <1>2, <1>3, <2>1 DEF TableStep
<1> QED BY <1>6, <1>8, <1>9, <1>10, <1>11, <1>12, SMTT(30) DEF IInv

\* A step that keeps the block tables and the counters.
LEMMA PoolOnlyStep ==
    ASSUME IInv, req_to_blocks' = req_to_blocks, UNCHANGED reqVars,
           Consistent(pool', req_to_blocks, num_cached_block'),
           CachedBlocksAreFull',
           \A b \in Blocks : pool.block_hash[b] # NoHash
                               => pool'.block_hash[b] \in {pool.block_hash[b], NoHash}
    PROVE  IInv' /\ TableStep
<1>1. /\ all_token_ids' = all_token_ids /\ num_computed_tokens' = num_computed_tokens
      /\ num_scheduled_tokens' = num_scheduled_tokens
  BY SMTT(30) DEF reqVars
<1>2. /\ num_computed_tokens \in [Requests -> Nat] /\ num_scheduled_tokens \in [Requests -> Nat]
      /\ req_to_blocks \in [Requests -> Seq(Blocks)]
  BY SMTT(30) DEF IInv, TypeOK
<1>3. SlotsCoverTokens' /\ OneWriterPerBlock'
  BY <1>1, ZenonT(30) DEF IInv, SlotsCoverTokens, OneWriterPerBlock
<1>4. IInv'
  BY <1>1, <1>2, <1>3, ConsistencyIsInvariant, SMTT(30)
<1>5. TableStep
  <2>1. \A u \in Seq(Blocks) : SubSeq(u, 1, Len(u)) = u
    BY SMTT(30)
  <2> QED BY <1>2, <2>1, SMTT(30) DEF TableStep
<1> QED BY <1>4, <1>5

LEMMA CacheBlocksStep ==
    ASSUME IInv, NEW r \in Requests, CacheBlocks(r)
    PROVE  IInv' /\ TableStep
<1>1. PICK tokens \in 0 .. Min2(num_computed_tokens[r], num_tokens(r)) :
        LET res == cache_blocks(pool, r, req_to_blocks[r], num_cached_block[r], tokens)
        IN  /\ pool' = res.pool
            /\ num_cached_block' = [num_cached_block EXCEPT ![r] = res.entry]
  BY Zenon DEF CacheBlocks
<1>2. req_to_blocks' = req_to_blocks /\ UNCHANGED reqVars
  BY DEF CacheBlocks
<1>3. /\ TypeOK /\ num_tokens(r) \in Nat /\ num_computed_tokens[r] \in Nat
      /\ num_scheduled_tokens[r] \in Nat /\ req_to_blocks[r] \in Seq(Blocks)
      /\ num_cached_block \in [Requests -> Entries]
  BY DEF IInv, TypeOK, num_tokens, Entries
<1>4. /\ tokens \in Nat /\ tokens <= num_tokens(r) /\ tokens <= num_computed_tokens[r]
  BY <1>3 DEF Min2
<1>5. Len(req_to_blocks[r]) * BlockSize \in Nat /\ tokens <= Len(req_to_blocks[r]) * BlockSize
  <2>1. Len(req_to_blocks[r]) * BlockSize \in Nat
    BY <1>3, BlockArithmetic, SMTT(30)
  <2>2. num_computed_tokens[r] + num_scheduled_tokens[r] <= Len(req_to_blocks[r]) * BlockSize
    BY DEF IInv, SlotsCoverTokens
  <2> QED BY <2>1, <2>2, <1>3, <1>4, SMTT(30)
<1>6. Consistent(pool, req_to_blocks, num_cached_block)
  BY InvariantIsConsistency, ZenonT(30)
<1> DEFINE out == cache_blocks(pool, r, req_to_blocks[r], num_cached_block[r], tokens)
<1>7. /\ Consistent(out.pool, req_to_blocks,
                    [num_cached_block EXCEPT ![r] = out.entry])
      /\ out.entry \in {num_cached_block[r], tokens \div BlockSize}
      /\ \A b \in Blocks : pool.block_hash[b] # NoHash
                             => out.pool.block_hash[b] = pool.block_hash[b]
  <2> DEFINE d == [num_cached_block EXCEPT ![r] = out.entry]
  <2>1. CacheOutcome(pool, req_to_blocks, num_cached_block, r, tokens, out, d)
    BY ZenonT(30) DEF CacheOutcome
  <2> HIDE DEF out, d
  <2>2. /\ Consistent(out.pool, req_to_blocks, d)
        /\ out.entry \in {num_cached_block[r], tokens \div BlockSize}
        /\ \A b \in Blocks : pool.block_hash[b] # NoHash
                              => out.pool.block_hash[b] = pool.block_hash[b]
    <3>1. TypeOK /\ Cacheable(req_to_blocks, r, tokens)
      BY <1>3, <1>4, <1>5, ZenonT(30) DEF Cacheable
    <3> QED BY <1>6, <2>1, <3>1, CacheStage, SMTT(30)
  <2> QED BY <2>2, ZenonT(30) DEF d
<1>8. pool' = out.pool /\ num_cached_block' = [num_cached_block EXCEPT ![r] = out.entry]
  BY <1>1, ZenonT(30)
<1> HIDE DEF out
<1>9. CachedBlocksAreFull'
  <2> SUFFICES ASSUME NEW s \in Requests
               PROVE  /\ num_cached_block'[s] <= Len(req_to_blocks[s])
                      /\ num_cached_block'[s] * BlockSize
                           <= Min2(num_tokens(s), num_computed_tokens[s] + num_scheduled_tokens[s])
    BY <1>2, SMTT(30) DEF CachedBlocksAreFull, num_tokens, reqVars
  <2>1. CASE num_cached_block'[s] = num_cached_block[s]
    BY <2>1 DEF IInv, CachedBlocksAreFull
  <2>2. CASE s = r /\ num_cached_block'[s] = tokens \div BlockSize
    <3> DEFINE k == tokens \div BlockSize
    <3>1. k \in Nat /\ k * BlockSize <= tokens /\ k * BlockSize \in Nat
      BY <1>4, DivisionBounds, BlockArithmetic
    <3> HIDE DEF k
    <3>2. k * BlockSize <= Len(req_to_blocks[r]) * BlockSize
      BY <3>1, <1>4, <1>5, SMTT(30)
    <3>3. k <= Len(req_to_blocks[r])
      <4>1. k \in Int /\ Len(req_to_blocks[r]) \in Int
        BY <3>1, <1>3
      <4> QED BY <4>1, <3>2, BlockArithmetic, Zenon
    <3>4. k * BlockSize <= Min2(num_tokens(r), num_computed_tokens[r] + num_scheduled_tokens[r])
      BY <3>1, <1>3, <1>4 DEF Min2
    <3> QED BY <2>2, <3>3, <3>4, SMTT(30) DEF k
  <2> QED BY <2>1, <2>2, <1>3, <1>7, <1>8, SMTT(30)
<1> QED BY <1>2, <1>7, <1>8, <1>9, PoolOnlyStep

LEMMA FreeStep ==
    ASSUME IInv, NEW r \in Requests, FreeRequest(r)
    PROVE  IInv' /\ TableStep
<1>1. /\ pool' = free_blocks(pool, Backwards(req_to_blocks[r]))
      /\ req_to_blocks' = [req_to_blocks EXCEPT ![r] = <<>>]
      /\ num_cached_block' = [num_cached_block EXCEPT ![r] = NoEntry]
      /\ num_computed_tokens' = [num_computed_tokens EXCEPT ![r] = 0]
      /\ num_scheduled_tokens' = [num_scheduled_tokens EXCEPT ![r] = 0]
      /\ all_token_ids' = all_token_ids
  BY DEF FreeRequest, free
<1>2. /\ Accounted(pool, req_to_blocks) /\ HeldOwn(pool, req_to_blocks, num_cached_block)
      /\ Shared(req_to_blocks, num_cached_block)
      /\ num_cached_block \in [Requests -> Entries]
      /\ req_to_blocks \in [Requests -> Seq(Blocks)]
      /\ num_computed_tokens \in [Requests -> Nat] /\ num_scheduled_tokens \in [Requests -> Nat]
      /\ \A s \in Requests : num_tokens(s) \in Nat
  BY InvariantIsConsistency DEF Consistent, IInv, TypeOK, num_tokens
<1>3. Accounted(pool', req_to_blocks') /\ pool'.block_hash = pool.block_hash
  BY <1>1, <1>2, FreeAccounted, Zenon
<1>4. /\ req_to_blocks'[r] = <<>> /\ DOMAIN req_to_blocks'[r] = {}
      /\ num_cached_block'[r] = NoEntry
      /\ num_computed_tokens'[r] = 0 /\ num_scheduled_tokens'[r] = 0
      /\ \A s \in Requests : s # r => /\ req_to_blocks'[s] = req_to_blocks[s]
                                       /\ num_cached_block'[s] = num_cached_block[s]
                                       /\ num_computed_tokens'[s] = num_computed_tokens[s]
                                       /\ num_scheduled_tokens'[s] = num_scheduled_tokens[s]
  BY <1>1, <1>2
<1>5. /\ num_cached_block' \in [Requests -> Entries]
      /\ num_computed_tokens' \in [Requests -> Nat] /\ num_scheduled_tokens' \in [Requests -> Nat]
  BY <1>1, <1>2 DEF Entries
<1>6. \A s \in Requests : \A i \in DOMAIN req_to_blocks'[s] : s # r
  BY <1>4, ZenonT(30)
<1>7. HeldOwn(pool', req_to_blocks', num_cached_block')
  BY <1>2, <1>3, <1>4, <1>6, SMTT(30) DEF HeldOwn
<1>8. Shared(req_to_blocks', num_cached_block')
  BY <1>2, <1>4, <1>6, SMTT(30) DEF Shared
<1>9. OneWriterPerBlock'
  BY <1>4, <1>6 DEF IInv, OneWriterPerBlock
<1>10. SlotsCoverTokens'
  <2> SUFFICES ASSUME NEW s \in Requests
               PROVE  num_computed_tokens'[s] + num_scheduled_tokens'[s]
                        <= Len(req_to_blocks'[s]) * BlockSize
    BY DEF SlotsCoverTokens
  <2>1. CASE s = r
    BY <2>1, <1>4, BlockSizeAssumption, SMTT(30)
  <2>2. CASE s # r
    BY <2>2, <1>4, SMTT(30) DEF IInv, SlotsCoverTokens
  <2> QED BY <2>1, <2>2
<1>11. CachedBlocksAreFull'
  <2> SUFFICES ASSUME NEW s \in Requests
               PROVE  /\ num_cached_block'[s] <= Len(req_to_blocks'[s])
                      /\ num_cached_block'[s] * BlockSize
                           <= Min2(num_tokens(s), num_computed_tokens'[s] + num_scheduled_tokens'[s])
    BY <1>1 DEF CachedBlocksAreFull, num_tokens
  <2>1. CASE s = r
    <3>1. NoEntry * BlockSize <= 0 /\ NoEntry * BlockSize \in Int /\ NoEntry <= 0
      BY BlockSizeAssumption, SMTT(30) DEF NoEntry
    <3>2. Len(req_to_blocks'[s]) = 0 /\ num_tokens(s) \in Nat
      BY <2>1, <1>2, <1>4, SMTT(30)
    <3> QED BY <2>1, <3>1, <3>2, <1>4 DEF Min2
  <2>2. CASE s # r
    BY <2>2, <1>4, ZenonT(30) DEF IInv, CachedBlocksAreFull
  <2> QED BY <2>1, <2>2
<1>12. IInv'
  BY <1>1, <1>3, <1>5, <1>7, <1>8, <1>9, <1>10, <1>11, ConsistencyIsInvariant, SMTT(30) DEF Consistent
<1>13. TableStep
  <2>1. \A u \in Seq(Blocks) : SubSeq(u, 1, Len(u)) = u
    BY SMTT(30)
  <2> QED BY <1>2, <1>3, <1>4, <2>1, Zenon DEF TableStep
<1> QED BY <1>12, <1>13

\* Forgetting hashes, of evicted blocks or of all, keeps the pool consistent.
LEMMA ForgetStep ==
    ASSUME IInv, req_to_blocks' = req_to_blocks, num_cached_block' = num_cached_block,
           UNCHANGED reqVars,
           IsPool(pool', Hashes), MapIsExact(pool'),
           pool'.free = pool.free, pool'.ref_cnt = pool.ref_cnt,
           \A b \in Blocks : pool'.block_hash[b] \in {pool.block_hash[b], NoHash}
    PROVE  IInv' /\ TableStep
<1>1. Consistent(pool, req_to_blocks, num_cached_block)
  BY InvariantIsConsistency
<1>2. NullBlock \in Blocks
  BY NumGpuBlocksAssumption, SMTT(30) DEF NullBlock, Blocks
<1>3. Accounted(pool', req_to_blocks)
  BY <1>1, <1>2, ZenonT(30) DEF Consistent, Accounted, FreeIsExact
<1>4. HeldOwn(pool', req_to_blocks, num_cached_block)
  <2>1. \A r \in Requests : \A i \in DOMAIN req_to_blocks[r] : req_to_blocks[r][i] \in Blocks
    BY <1>1, SMTT(30) DEF Consistent, Accounted
  <2> QED BY <1>1, <2>1, ZenonT(30) DEF Consistent, HeldOwn
<1>5. CachedBlocksAreFull'
  BY DEF IInv, CachedBlocksAreFull, reqVars, num_tokens
<1>6. Consistent(pool', req_to_blocks, num_cached_block')
  BY <1>1, <1>3, <1>4, ZenonT(30) DEF Consistent
<1> QED BY <1>5, <1>6, PoolOnlyStep, ZenonT(30)

LEMMA EvictStep ==
    ASSUME IInv, NEW S \in SUBSET Blocks, EvictBlocks(S)
    PROVE  IInv' /\ TableStep
<1>1. IsPool(pool, Hashes) /\ MapIsExact(pool) /\ NoHash \notin Hashes
  BY NoHashAssumption DEF IInv, TypeOK, HashMapAgrees, Hashes
<1>2. /\ pool' = maybe_evict_cached_blocks(pool, S)
      /\ req_to_blocks' = req_to_blocks /\ num_cached_block' = num_cached_block
      /\ UNCHANGED reqVars
  BY ZenonT(30) DEF EvictBlocks, evict_blocks
<1>3. /\ IsPool(pool', Hashes) /\ MapIsExact(pool')
      /\ pool'.free = pool.free /\ pool'.ref_cnt = pool.ref_cnt
      /\ \A b \in Blocks : pool'.block_hash[b] =
                              IF b \in S THEN NoHash ELSE pool.block_hash[b]
  BY <1>1, <1>2, EvictProperties, SMTT(30)
<1> QED BY <1>2, <1>3, ForgetStep

LEMMA ResetStep ==
    ASSUME IInv, ResetPrefixCache
    PROVE  IInv' /\ TableStep
<1>1. IsPool(pool, Hashes) /\ MapIsExact(pool)
  BY DEF IInv, TypeOK, HashMapAgrees
<1>2. /\ pool' = reset_prefix_cache(pool)
      /\ req_to_blocks' = req_to_blocks /\ num_cached_block' = num_cached_block
      /\ UNCHANGED reqVars
  BY DEF ResetPrefixCache
<1>3. /\ IsPool(pool', Hashes) /\ MapIsExact(pool')
      /\ pool'.free = pool.free /\ pool'.ref_cnt = pool.ref_cnt
      /\ \A b \in Blocks : pool'.block_hash[b] \in {pool.block_hash[b], NoHash}
  BY <1>1, <1>2, ResetProperties, SMTT(30)
<1> QED BY <1>2, <1>3, ForgetStep
-----------------------------------------------------------------------------
(* The theorems *)

\* A new pool: every block but the null block is free.
LEMMA InitialPool ==
    /\ IsPool(InitPool, Hashes) /\ FreeIsExact(InitPool) /\ MapIsExact(InitPool)
    /\ \A b \in Blocks : InitPool.ref_cnt[b] = 0 /\ InitPool.block_hash[b] = NoHash
<1>1. NumGpuBlocks \in Nat /\ NumGpuBlocks > 0
  BY NumGpuBlocksAssumption
<1> DEFINE f == [i \in 1 .. NumGpuBlocks - 1 |-> i]
<1>2. f \in Seq(Blocks) /\ IsInjectiveSeq(f)
  BY <1>1 DEF Blocks, IsInjectiveSeq
<1>3. Range(f) = Blocks \ {NullBlock}
  BY <1>1 DEF Range, Blocks, NullBlock
<1> HIDE DEF f
<1>4. /\ InitPool.free = f /\ InitPool.cached = {}
      /\ InitPool.ref_cnt = [b \in Blocks |-> 0]
      /\ InitPool.block_hash = [b \in Blocks |-> NoHash]
  BY DEF InitPool, f
<1>5. IsPool(InitPool, Hashes)
  BY <1>2 DEF IsPool, InitPool, f
<1>6. FreeIsExact(InitPool)
  BY <1>2, <1>3, <1>4 DEF FreeIsExact
<1>7. MapIsExact(InitPool)
  BY <1>4 DEF MapIsExact
<1> QED BY <1>4, <1>5, <1>6, <1>7, SMTT(30)

LEMMA InitInv == Init => IInv
<1> SUFFICES ASSUME Init PROVE IInv
  OBVIOUS
<1> USE DEF Init
<1>1. \A r \in Requests : /\ req_to_blocks[r] = <<>> /\ num_cached_block[r] = NoEntry
                           /\ num_computed_tokens[r] = 0 /\ num_scheduled_tokens[r] = 0
                           /\ Range(req_to_blocks[r]) = {} /\ DOMAIN req_to_blocks[r] = {}
  BY DEF Range
<1>2. /\ all_token_ids \in [Requests -> Seq(Tokens)]
      /\ \A r \in Requests : num_tokens(r) \in 1 .. MaxModelLen
  BY PromptsAssumption, ZenonT(30) DEF num_tokens
<1>3. TypeOK
  BY <1>2, InitialPool, SMTT(30) DEF TypeOK
<1>4. FreeQueueIsExact
  BY InitialPool, SMTT(30) DEF FreeQueueIsExact
<1>5. HashMapAgrees
  BY InitialPool, NumGpuBlocksAssumption DEF HashMapAgrees, Blocks, NullBlock
<1>6. RefCountsAreHolders
  <2>1. \A b \in Blocks : Holders(b) = {}
    BY <1>1 DEF Holders
  <2> QED BY <1>1, <2>1, InitialPool, FS_EmptySet, Zenon DEF RefCountsAreHolders, IsInjectiveSeq
<1>7. HeldBlocksHaveOwnHash /\ SharedBlocksAgree /\ OneWriterPerBlock
  BY <1>1 DEF HeldBlocksHaveOwnHash, SharedBlocksAgree, OneWriterPerBlock
<1>8. SlotsCoverTokens
  BY <1>1, BlockSizeAssumption DEF SlotsCoverTokens
<1>9. CachedBlocksAreFull
  <2> SUFFICES ASSUME NEW r \in Requests
               PROVE  /\ NoEntry <= 0
                      /\ NoEntry * BlockSize <= Min2(num_tokens(r), 0)
    BY <1>1 DEF CachedBlocksAreFull
  <2>1. num_tokens(r) \in Nat
    BY <1>2, MaxModelLenAssumption
  <2> QED BY <2>1, BlockSizeAssumption, SMTT(30) DEF NoEntry, Min2
<1> QED BY <1>3, <1>4, <1>5, <1>6, <1>7, <1>8, <1>9, SMTT(30) DEF IInv

LEMMA NextInv == IInv /\ [Next]_kvmVars => IInv' /\ (TableStep \/ UNCHANGED kvmVars)
<1> SUFFICES ASSUME IInv, [Next]_kvmVars
             PROVE  IInv' /\ (TableStep \/ UNCHANGED kvmVars)
  OBVIOUS
<1>1. CASE \E r \in Requests : AdmitRequest(r)
  BY <1>1, AdmitStep
<1>2. CASE \E r \in Requests : GrowRequest(r)
  BY <1>2, GrowStep, SMTT(30)
<1>3. CASE \E r \in Requests : AppendOutputToken(r)
  BY <1>3, AppendStep
<1>4. CASE \E r \in Requests : CacheBlocks(r)
  BY <1>4, CacheBlocksStep
<1>5. CASE \E r \in Requests : FreeRequest(r)
  BY <1>5, FreeStep
<1>6. CASE CommitSchedule
  BY <1>6, CommitStep
<1>7. CASE ResetPrefixCache
  BY <1>7, ResetStep
<1>8. CASE \E S \in SUBSET Blocks : EvictBlocks(S)
  BY <1>8, EvictStep
<1>9. CASE UNCHANGED kvmVars
  <2>1. /\ pool' = pool /\ req_to_blocks' = req_to_blocks
        /\ num_cached_block' = num_cached_block /\ UNCHANGED reqVars
    BY <1>9, ZenonT(30) DEF kvmVars, kvVars
  <2>2. Consistent(pool', req_to_blocks, num_cached_block')
    BY <2>1, InvariantIsConsistency, SMTT(30)
  <2>3. CachedBlocksAreFull'
    BY <2>1 DEF IInv, CachedBlocksAreFull, reqVars, num_tokens
  <2> QED BY <1>9, <2>1, <2>2, <2>3, PoolOnlyStep, SMTT(30)
<1> QED BY <1>1, <1>2, <1>3, <1>4, <1>5, <1>6, <1>7, <1>8, <1>9, SMTT(30) DEF Next, LocalNext

\* The KV-cache manager keeps its inductive invariant.
THEOREM InductiveInvariant == Spec => []IInv
<1>1. Init => IInv
  BY InitInv
<1>2. IInv /\ [Next]_kvmVars => IInv'
  BY NextInv
<1> QED BY <1>1, <1>2, PTL DEF Spec

\* Types are kept (the attributes of BlockPool, KVCacheManager and Request).
THEOREM TypeCorrect == Spec => []TypeOK
<1>1. IInv => TypeOK
  BY DEF IInv
<1> QED BY <1>1, InductiveInvariant, PTL

\* No sequence of touch, get_new_blocks and free_blocks leaks a block or queues it
\* twice.
THEOREM NoBlockIsLost == Spec => []FreeQueueIsExact
<1>1. IInv => FreeQueueIsExact
  BY DEF IInv
<1> QED BY <1>1, InductiveInvariant, PTL

\* touch and free_blocks keep ref_cnt equal to the number of block tables that
\* hold the block.
THEOREM RefCountsAreExact == Spec => []RefCountsAreHolders
<1>1. IInv => RefCountsAreHolders
  BY DEF IInv
<1> QED BY <1>1, InductiveInvariant, PTL

\* cache_full_blocks and _maybe_evict_cached_block keep the hash map and the
\* hashes in the blocks in step.
THEOREM HashMapIsExact == Spec => []HashMapAgrees
<1>1. IInv => HashMapAgrees
  BY DEF IInv
<1> QED BY <1>1, InductiveInvariant, PTL

\* A block in a request's table is cached under that request's own tokens or not
\* at all.
THEOREM HeldBlocksAreOwn == Spec => []HeldBlocksHaveOwnHash
<1>1. IInv => HeldBlocksHaveOwnHash
  BY DEF IInv
<1> QED BY <1>1, InductiveInvariant, PTL

\* Requests share a block only at the same place and for the same tokens.
THEOREM SharingIsSound == Spec => []SharedBlocksAgree
<1>1. IInv => SharedBlocksAgree
  BY DEF IInv
<1> QED BY <1>1, InductiveInvariant, PTL

\* allocate_slots gives every computed and scheduled token a slot.
THEOREM SlotsSuffice == Spec => []SlotsCoverTokens
<1>1. IInv => SlotsCoverTokens
  BY DEF IInv
<1> QED BY <1>1, InductiveInvariant, PTL

\* Only full blocks of known tokens are hashed.
THEOREM CachedBlocksAreComplete == Spec => []CachedBlocksAreFull
<1>1. IInv => CachedBlocksAreFull
  BY DEF IInv
<1> QED BY <1>1, InductiveInvariant, PTL

\* A shared block is still written by at most one of its holders.
THEOREM WritersAreAlone == Spec => []OneWriterPerBlock
<1>1. IInv => OneWriterPerBlock
  BY DEF IInv
<1> QED BY <1>1, InductiveInvariant, PTL

\* get_new_blocks never raises "Cannot get ... free blocks" inside allocate_slots.
THEOREM NoAllocationRaises == Spec => []AllocationNeverRaises
<1>1. IInv => AllocationNeverRaises
  <2> SUFFICES ASSUME IInv, NEW r \in Requests,
                      NEW hit \in IF req_to_blocks[r] = <<>> THEN get_computed_blocks(r)
                                                            ELSE {<<>>},
                      NEW slots \in 1 .. MaxModelLen,
                      get_num_blocks_to_allocate(r, slots, hit) <= get_num_free_blocks(pool)
               PROVE  num_new_blocks(r, slots, hit) <= get_num_free_blocks(touch(pool, hit))
    BY DEF AllocationNeverRaises
  <2>1. IsHit(r, hit) /\ slots \in Nat
    BY MaxModelLenAssumption DEF IsHit
  <2>2. num_new_blocks(r, slots, hit) \in 0 .. Len(touch(pool, hit).free)
    BY <2>1, EnoughBlocks
  <2> QED BY <2>2, SMTT(30) DEF get_num_free_blocks
<1> QED BY <1>1, InductiveInvariant, PTL

\* Block tables are append-only and held blocks keep their hash.
THEOREM TablesAppendOnly == Spec => BlockTablesAppendOnly
<1>1. IInv /\ [Next]_kvmVars => [TableStep]_kvmVars
  BY NextInv
<1> QED BY <1>1, InductiveInvariant, PTL DEF Spec, BlockTablesAppendOnly
=============================================================================

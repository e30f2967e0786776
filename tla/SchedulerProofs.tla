--------------------------- MODULE SchedulerProofs ---------------------------
(***************************************************************************)
(* The scheduler uses the KV-cache manager as KVCacheManager assumes, and    *)
(* keeps its queues, for every number of requests and blocks and every       *)
(* budget: one lemma per action of the scheduler.                            *)
(*                                                                         *)
(* The invariant has four parts besides the one of the manager (IInv): the   *)
(* queues agree with the statuses, the line of requests is in the order of   *)
(* arrival, no request computes or schedules more tokens than it has or      *)
(* waits for, and a pass schedules a request at most once.                   *)
(***************************************************************************)
EXTENDS Scheduler, KVCacheManagerProofs

Phases ==
    {"idle", "running", "waiting", "commit", "wait", "update", "cache", "free", "reset"}

Statuses == {"ABSENT", "WAITING", "RUNNING", "PREEMPTED", "FINISHED"}

Passes ==
    [req_index : Nat \ {0}, token_budget : Nat, preempted : BOOLEAN,
     order : Seq(Requests), new : SUBSET Requests, resumed : SUBSET Requests,
     new_block_ids : [Requests -> Seq(Blocks)]]

\* What update_from_output is given for a request: no token or one.
Samples == {<<>>} \cup {<<t>> : t \in Tokens}

SchedTypeOK ==
    /\ pc \in Phases
    /\ status \in [Requests -> Statuses]
    /\ waiting \in Seq(Requests) /\ running \in Seq(Requests) /\ arrived \in Seq(Requests)
    /\ num_prompt_tokens \in [Requests -> Nat]
    /\ num_output_placeholders \in [Requests -> Nat]
    /\ finished_req_ids \subseteq Requests /\ prev_step_scheduled_req_ids \subseteq Requests
    /\ pass \in Passes
    /\ todo \in Seq(Requests \X Samples)

line == running \o waiting

\* A request that is not being stopped is where its status says.
InItsPlace(r) ==
    /\ r \in Range(running) <=> status[r] = "RUNNING"
    /\ r \in Range(waiting) <=> status[r] \in {"WAITING", "PREEMPTED"}
    /\ req_to_blocks[r] # <<>> <=> status[r] = "RUNNING"
    /\ status[r] # "RUNNING" => num_computed_tokens[r] = 0 /\ num_scheduled_tokens[r] = 0

\* The request that update_from_output is about to cache blocks of, or to free.
HandledOK ==
    /\ pc \in {"cache", "free"} => todo # <<>>
    /\ pc = "cache" => /\ handled \in Range(running) /\ req_to_blocks[handled] # <<>>
                       /\ status[handled] \in {"RUNNING", "FINISHED"}
    /\ pc = "free" => status[handled] = "FINISHED"

QueueInv ==
    /\ IsInjectiveSeq(line)
    /\ \A r \in Requests \ stopping : InItsPlace(r)
    /\ HandledOK

CameBefore(q, r) ==
    \E i, j \in DOMAIN arrived : i < j /\ arrived[i] = q /\ arrived[j] = r

OrderInv ==
    /\ IsInjectiveSeq(arrived)
    /\ \A r \in Range(arrived) : status[r] # "ABSENT"
    /\ Range(line) \subseteq Range(arrived)
    /\ \A i, j \in DOMAIN line : i < j => CameBefore(line[i], line[j])

\* A request that goes on has room for a token; what is computed or scheduled
\* does not go past the tokens that are known or in flight.
TokenInv ==
    \A r \in Requests :
      /\ status[r] # "FINISHED" => num_tokens(r) < MaxModelLen
      /\ num_computed_tokens[r] + num_scheduled_tokens[r]
           <= num_tokens(r) + num_output_placeholders[r]
      /\ num_computed_tokens[r] + num_scheduled_tokens[r] <= MaxModelLen - 1

PassInv ==
    /\ pc \notin {"running", "waiting", "commit"} => pass = EmptyPass
    /\ \A r \in Requests : num_scheduled_tokens[r] > 0 <=> r \in Range(pass.order)
    /\ Range(pass.order) \subseteq Range(running)
    /\ pc = "running" => /\ pass.new = {} /\ pass.resumed = {}
                         /\ \A i \in DOMAIN running :
                              i >= pass.req_index => running[i] \notin Range(pass.order)
    /\ pc = "waiting" => ~pass.preempted
    /\ pass.preempted => pass.new = {} /\ pass.resumed = {}
    /\ Len(running) <= MaxNumRunningReqs
    /\ \A r \in prev_step_scheduled_req_ids :
         status[r] = "PREEMPTED" => pc = "reset" \/ pass.preempted
    /\ \A r \in pass.resumed : r \notin prev_step_scheduled_req_ids

SchedInv == SchedTypeOK /\ QueueInv /\ OrderInv /\ TokenInv /\ PassInv
-----------------------------------------------------------------------------
(* Sequences *)

\* The rank of an index grows with the index.
LEMMA RankMonotone ==
    ASSUME NEW n \in Nat, NEW K \in SUBSET (1 .. n), NEW i \in K, NEW j \in K,
           Rank(K, i) < Rank(K, j)
    PROVE  i < j
<1> SUFFICES ASSUME j <= i PROVE FALSE
  OBVIOUS
<1> DEFINE Below(x) == {k \in K : k <= x}
<1>1. IsFiniteSet(Below(i)) /\ IsFiniteSet(Below(j))
  <2>1. IsFiniteSet(1 .. n)
    BY FS_Interval, 1 \in Int, n \in Int, Zenon
  <2>2. Below(i) \subseteq 1 .. n /\ Below(j) \subseteq 1 .. n
    BY Zenon
  <2> HIDE DEF Below
  <2> QED BY <2>1, <2>2, FS_Subset, Zenon
<1>2. Below(j) \subseteq Below(i)
  <2>1. \A k \in K : k \in Int
    OBVIOUS
  <2>2. \A k \in K : k <= j => k <= i
    BY <2>1
  <2> QED BY <2>2, Zenon
<1>3. Cardinality(Below(j)) <= Cardinality(Below(i))
  BY <1>1, <1>2, FS_Subset
<1>4. Cardinality(Below(i)) \in Nat /\ Cardinality(Below(j)) \in Nat
  BY <1>1, FS_CardinalityType
<1>5. Rank(K, i) = Cardinality(Below(i)) /\ Rank(K, j) = Cardinality(Below(j))
  BY DEF Rank
<1> HIDE DEF Below
<1> QED BY <1>3, <1>4, <1>5

\* u arises from s by leaving elements out: f says where its elements are in s.
Embeds(f, u, s) ==
    /\ f \in [DOMAIN u -> DOMAIN s]
    /\ \A i \in DOMAIN u : u[i] = s[f[i]]
    /\ \A i, j \in DOMAIN u : i < j => f[i] < f[j]

\* Select leaves elements out and keeps the order of the others.
LEMMA SelectEmbeds ==
    ASSUME NEW A, NEW s \in Seq(A), NEW S
    PROVE  \E f : Embeds(f, Select(s, S), s)
<1> DEFINE K == {i \in DOMAIN s : s[i] \in S}
           At(j) == CHOOSE i \in K : Rank(K, i) = j
           t == [j \in 1 .. Cardinality(K) |-> s[At(j)]]
           f == [j \in 1 .. Cardinality(K) |-> At(j)]
<1>1. DOMAIN s = 1 .. Len(s) /\ Len(s) \in Nat /\ K \in SUBSET (1 .. Len(s))
  OBVIOUS
<1>2. t = Select(s, S)
  BY DEF Select, Selected
<1> HIDE DEF K
<1>3. /\ Cardinality(K) \in Nat
      /\ \A j \in 1 .. Cardinality(K) : \E i \in K : Rank(K, i) = j
  BY <1>1, RankIsBijective, Zenon
<1>4. \A j \in 1 .. Cardinality(K) : At(j) \in K /\ Rank(K, At(j)) = j
  BY <1>3
<1> HIDE DEF At
<1>5. \A j \in 1 .. Cardinality(K) : f[j] \in DOMAIN s /\ t[j] = s[f[j]]
  BY <1>1, <1>4, ZenonT(30)
<1>6. ASSUME NEW i \in 1 .. Cardinality(K), NEW j \in 1 .. Cardinality(K), i < j
      PROVE  At(i) < At(j)
  <2>1. At(i) \in K /\ At(j) \in K /\ Rank(K, At(i)) < Rank(K, At(j))
    BY <1>4, <1>6
  <2> QED BY <1>1, <2>1, RankMonotone, Zenon
<1>7. Embeds(f, t, s)
  BY <1>5, <1>6 DEF Embeds
<1> QED BY <1>2, <1>7, ZenonT(30)

\* Leaving out elements of two sequences leaves out elements of the whole.
LEMMA ConcatEmbeds ==
    ASSUME NEW A, NEW s \in Seq(A), NEW t \in Seq(A), NEW u \in Seq(A), NEW v \in Seq(A),
           NEW f, NEW g, Embeds(f, u, s), Embeds(g, v, t)
    PROVE  \E h : Embeds(h, u \o v, s \o t)
<1> DEFINE h == [i \in 1 .. Len(u) + Len(v) |->
                   IF i <= Len(u) THEN f[i] ELSE Len(s) + g[i - Len(u)]]
<1>1. /\ Len(s) \in Nat /\ Len(t) \in Nat /\ Len(u) \in Nat /\ Len(v) \in Nat
      /\ DOMAIN s = 1 .. Len(s) /\ DOMAIN t = 1 .. Len(t)
      /\ DOMAIN u = 1 .. Len(u) /\ DOMAIN v = 1 .. Len(v)
      /\ DOMAIN (u \o v) = 1 .. Len(u) + Len(v) /\ DOMAIN (s \o t) = 1 .. Len(s) + Len(t)
  OBVIOUS
<1>2. \A i \in 1 .. Len(u) : f[i] \in 1 .. Len(s) /\ u[i] = s[f[i]] /\ h[i] = f[i]
  BY <1>1, SMTT(30) DEF Embeds
<1>3. \A i \in Len(u) + 1 .. Len(u) + Len(v) :
        /\ i - Len(u) \in 1 .. Len(v) /\ g[i - Len(u)] \in 1 .. Len(t)
        /\ v[i - Len(u)] = t[g[i - Len(u)]] /\ h[i] = Len(s) + g[i - Len(u)]
  <2> SUFFICES ASSUME NEW i \in Len(u) + 1 .. Len(u) + Len(v)
               PROVE  /\ i - Len(u) \in 1 .. Len(v) /\ g[i - Len(u)] \in 1 .. Len(t)
                      /\ v[i - Len(u)] = t[g[i - Len(u)]] /\ h[i] = Len(s) + g[i - Len(u)]
    BY Zenon
  <2>1. i - Len(u) \in 1 .. Len(v) /\ i \in 1 .. Len(u) + Len(v) /\ ~(i <= Len(u))
    BY <1>1
  <2>2. g[i - Len(u)] \in 1 .. Len(t) /\ v[i - Len(u)] = t[g[i - Len(u)]]
    BY <1>1, <2>1, Zenon DEF Embeds
  <2>3. h[i] = Len(s) + g[i - Len(u)]
    BY <2>1, Zenon
  <2> QED BY <2>1, <2>2, <2>3
<1>4. \A i, j \in 1 .. Len(u) : i < j => f[i] < f[j]
  BY <1>1, ZenonT(30) DEF Embeds
<1>5. \A i, j \in 1 .. Len(v) : i < j => g[i] < g[j]
  BY <1>1, ZenonT(30) DEF Embeds
<1>6. DOMAIN h = 1 .. Len(u) + Len(v)
  OBVIOUS
<1> HIDE DEF h
<1>7. \A i \in 1 .. Len(u) + Len(v) : h[i] \in 1 .. Len(s) + Len(t) /\ (u \o v)[i] = (s \o t)[h[i]]
  <2> SUFFICES ASSUME NEW i \in 1 .. Len(u) + Len(v)
               PROVE  h[i] \in 1 .. Len(s) + Len(t) /\ (u \o v)[i] = (s \o t)[h[i]]
    OBVIOUS
  <2>1. CASE i <= Len(u)
    BY <2>1, <1>1, <1>2
  <2>2. CASE i > Len(u)
    <3>1. i \in Len(u) + 1 .. Len(u) + Len(v)
      BY <1>1, <2>2
    <3>2. (u \o v)[i] = v[i - Len(u)]
      BY <1>1, <3>1
    <3>3. h[i] \in 1 .. Len(s) + Len(t) /\ h[i] > Len(s) /\ h[i] - Len(s) = g[i - Len(u)]
      BY <1>1, <1>3, <3>1
    <3>4. (s \o t)[h[i]] = t[h[i] - Len(s)]
      BY <1>1, <3>3
    <3> QED BY <1>3, <3>1, <3>2, <3>3, <3>4
  <2> QED BY <2>1, <2>2, <1>1
<1>8. ASSUME NEW i \in 1 .. Len(u) + Len(v), NEW j \in 1 .. Len(u) + Len(v), i < j
      PROVE  h[i] < h[j]
  <2>1. CASE j <= Len(u)
    <3>1. i \in 1 .. Len(u) /\ j \in 1 .. Len(u)
      BY <1>1, <1>8, <2>1
    <3> QED BY <3>1, <1>2, <1>4, <1>8
  <2>2. CASE i > Len(u)
    <3>1. /\ i \in Len(u) + 1 .. Len(u) + Len(v) /\ j \in Len(u) + 1 .. Len(u) + Len(v)
          /\ i - Len(u) < j - Len(u)
      BY <1>1, <1>8, <2>2
    <3>2. g[i - Len(u)] < g[j - Len(u)]
      BY <3>1, <1>3, <1>5, Zenon
    <3> QED BY <1>1, <1>3, <3>1, <3>2
  <2>3. CASE i <= Len(u) /\ j > Len(u)
    <3>1. i \in 1 .. Len(u) /\ j \in Len(u) + 1 .. Len(u) + Len(v)
      BY <1>1, <2>3
    <3> QED BY <1>1, <1>2, <1>3, <3>1
  <2> QED BY <1>1, <2>1, <2>2, <2>3
<1>9. h \in [1 .. Len(u) + Len(v) -> 1 .. Len(s) + Len(t)]
  BY <1>6, <1>7 DEF h
<1> QED BY <1>1, <1>7, <1>8, <1>9, ZenonT(30) DEF Embeds

\* What two sequences hold together.
LEMMA RangeOfBoth ==
    ASSUME NEW A, NEW s \in Seq(A), NEW t \in Seq(A)
    PROVE  s \o t \in Seq(A) /\ Range(s \o t) = Range(s) \cup Range(t)
<1>1. Range(s \o t) = Range(s) \cup Range(t)
  BY ConcatProperties2
<1> QED BY <1>1

\* The two parts of a line without repetitions have none and share nothing.
LEMMA PartsOfLine ==
    ASSUME NEW A, NEW s \in Seq(A), NEW t \in Seq(A), IsInjectiveSeq(s \o t)
    PROVE  /\ IsInjectiveSeq(s) /\ IsInjectiveSeq(t)
           /\ \A x \in Range(s) : x \notin Range(t)
           /\ Range(s \o t) = Range(s) \cup Range(t)
<1>1. /\ Len(s) \in Nat /\ Len(t) \in Nat
      /\ DOMAIN s = 1 .. Len(s) /\ DOMAIN t = 1 .. Len(t)
      /\ DOMAIN (s \o t) = 1 .. Len(s) + Len(t)
  OBVIOUS
<1>2. \A i \in 1 .. Len(s) : (s \o t)[i] = s[i] /\ i \in DOMAIN (s \o t)
  BY <1>1
<1>3. \A i \in 1 .. Len(t) : (s \o t)[Len(s) + i] = t[i] /\ Len(s) + i \in DOMAIN (s \o t)
  BY <1>1
<1>4. IsInjectiveSeq(s)
  BY <1>1, <1>2, Zenon DEF IsInjectiveSeq
<1>5. IsInjectiveSeq(t)
  <2> SUFFICES ASSUME NEW i \in 1 .. Len(t), NEW j \in 1 .. Len(t), t[i] = t[j]
               PROVE  i = j
    BY <1>1, Zenon DEF IsInjectiveSeq
  <2>1. Len(s) + i = Len(s) + j
    BY <1>3, Zenon DEF IsInjectiveSeq
  <2> QED BY <1>1, <2>1
<1>6. ASSUME NEW x \in Range(s), x \in Range(t)
      PROVE  FALSE
  <2>1. PICK i \in 1 .. Len(s) : s[i] = x
    BY <1>1 DEF Range
  <2>2. PICK j \in 1 .. Len(t) : t[j] = x
    BY <1>1, <1>6 DEF Range
  <2>3. /\ (s \o t)[i] = x /\ i \in DOMAIN (s \o t)
        /\ (s \o t)[Len(s) + j] = x /\ Len(s) + j \in DOMAIN (s \o t)
    BY <1>2, <1>3, <2>1, <2>2
  <2>4. i = Len(s) + j
    BY <2>3, Zenon DEF IsInjectiveSeq
  <2> QED BY <1>1, <2>4
<1>7. Range(s \o t) = Range(s) \cup Range(t)
  BY RangeOfBoth
<1> QED BY <1>4, <1>5, <1>6, <1>7, Zenon

\* The last of s joins t at its head: the line stays as it is.
LEMMA StepBack ==
    ASSUME NEW s \in Seq(Requests), NEW t \in Seq(Requests), s # <<>>
    PROVE  /\ Last(s) \in Requests /\ Last(s) \in Range(s)
           /\ Front(s) \in Seq(Requests) /\ Len(Front(s)) = Len(s) - 1
           /\ \A i \in DOMAIN Front(s) : i \in DOMAIN s /\ Front(s)[i] = s[i]
           /\ <<Last(s)>> \o t \in Seq(Requests)
           /\ Front(s) \o (<<Last(s)>> \o t) = s \o t
           /\ Range(<<Last(s)>> \o t) = Range(t) \cup {Last(s)}
           /\ Range(s) = Range(Front(s)) \cup {Last(s)}
           /\ IsInjectiveSeq(s) => Last(s) \notin Range(Front(s))
<1> DEFINE n == Len(s)
           x == s[n]
<1>1. n \in Nat \ {0} /\ DOMAIN s = 1 .. n /\ x \in Requests
  OBVIOUS
<1>2. Last(s) = x
  BY DEF Last
<1>3. /\ Front(s) \in Seq(Requests) /\ Len(Front(s)) = n - 1 /\ DOMAIN Front(s) = 1 .. n - 1
      /\ \A i \in 1 .. n - 1 : Front(s)[i] = s[i]
  BY <1>1 DEF Front
<1> DEFINE one == <<x>>
<1>4. /\ one \in Seq(Requests) /\ Len(one) = 1 /\ one[1] = x /\ Range(one) = {x}
  BY <1>1 DEF Range
<1> HIDE DEF one
<1>5. one \o t \in Seq(Requests) /\ Range(one \o t) = Range(t) \cup {x}
  <2>1. one \o t \in Seq(Requests) /\ Range(one \o t) = Range(one) \cup Range(t)
    BY <1>4, RangeOfBoth
  <2> QED BY <1>4, <2>1
<1>6. Front(s) \o (one \o t) = s \o t
  <2> DEFINE u == Front(s)
  <2>1. s = u \o one
    <3>1. 1 \in 1 .. Len(s) /\ Len(s) \in 1 .. Len(s)
      BY <1>1
    <3>2. SubSeq(s, 1, Len(s)) = SubSeq(s, 1, Len(s) - 1) \o <<s[Len(s)]>>
      BY <3>1, SubSeqRecursiveSecond, Zenon
    <3> QED BY <3>2, SubSeqFull, Zenon DEF one, Front
  <2>2. u \in Seq(Requests)
    BY <1>3
  <2>3. one \in Seq(Requests)
    BY <1>4
  <2> HIDE DEF u
  <2>4. (u \o one) \o t = u \o (one \o t)
    BY <2>2, <2>3, ConcatAssociative
  <2> QED BY <2>1, <2>4, Zenon DEF u
<1> HIDE DEF x
<1>7. Range(s) = Range(Front(s)) \cup {x} /\ x \in Range(s)
  <2>1. 1 .. n = (1 .. n - 1) \cup {n}
    BY <1>1
  <2> QED BY <1>1, <1>3, <2>1 DEF Range, x
<1>8. ASSUME IsInjectiveSeq(s) PROVE x \notin Range(Front(s))
  <2> SUFFICES ASSUME NEW i \in 1 .. n - 1, s[i] = s[n] PROVE FALSE
    BY <1>3 DEF Range, x
  <2>1. i \in DOMAIN s /\ n \in DOMAIN s
    BY <1>1
  <2>2. i = n
    BY <1>8, <2>1, Zenon DEF IsInjectiveSeq
  <2> QED BY <1>1, <2>2
<1>9. \A i \in DOMAIN Front(s) : i \in DOMAIN s /\ Front(s)[i] = s[i]
  BY <1>1, <1>3
<1> QED BY <1>1, <1>2, <1>3, <1>5, <1>6, <1>7, <1>8, <1>9, Zenon DEF one

\* The head of t joins s at its end: the line stays as it is.
LEMMA StepUp ==
    ASSUME NEW s \in Seq(Requests), NEW t \in Seq(Requests), t # <<>>
    PROVE  /\ Head(t) \in Requests /\ Head(t) \in Range(t)
           /\ Append(s, Head(t)) \in Seq(Requests) /\ Len(Append(s, Head(t))) = Len(s) + 1
           /\ Tail(t) \in Seq(Requests)
           /\ Append(s, Head(t)) \o Tail(t) = s \o t
           /\ Range(Append(s, Head(t))) = Range(s) \cup {Head(t)}
           /\ Range(t) = Range(Tail(t)) \cup {Head(t)}
           /\ IsInjectiveSeq(t) => Head(t) \notin Range(Tail(t))
<1> DEFINE x == Head(t)
           u == Tail(t)
<1>1. /\ x \in Requests /\ u \in Seq(Requests) /\ Len(t) \in Nat \ {0} /\ Len(u) = Len(t) - 1
      /\ DOMAIN t = 1 .. Len(t) /\ DOMAIN u = 1 .. Len(u) /\ t[1] = x
      /\ \A i \in 1 .. Len(u) : u[i] = t[i + 1]
  OBVIOUS
<1> DEFINE one == <<x>>
<1>2. t = one \o u /\ Append(s, x) = s \o one
  OBVIOUS
<1>3. one \in Seq(Requests) /\ Range(one) = {x}
  BY <1>1 DEF Range
<1> HIDE DEF x, u, one
<1>4. Append(s, x) \o u = s \o t
  <2>1. u \in Seq(Requests)
    BY <1>1
  <2>2. one \in Seq(Requests)
    BY <1>3
  <2>3. (s \o one) \o u = s \o (one \o u)
    BY <2>1, <2>2, ConcatAssociative
  <2> QED BY <1>2, <2>3, Zenon
<1>5. Range(Append(s, x)) = Range(s) \cup {x} /\ Range(t) = Range(u) \cup {x}
  <2>1. Range(s \o one) = Range(s) \cup Range(one) /\ Range(one \o u) = Range(one) \cup Range(u)
    BY <1>1, <1>3, RangeOfBoth
  <2> QED BY <1>2, <1>3, <2>1
<1>6. ASSUME IsInjectiveSeq(t) PROVE x \notin Range(u)
  <2>1. IsInjectiveSeq(one \o u)
    BY <1>2, <1>6
  <2>2. \A y \in Range(one) : y \notin Range(u)
    BY <1>1, <1>3, <2>1, PartsOfLine, Zenon
  <2> QED BY <1>3, <2>2
<1>7. Append(s, x) \in Seq(Requests) /\ Len(Append(s, x)) = Len(s) + 1
  BY <1>1
<1> QED BY <1>1, <1>4, <1>5, <1>6, <1>7, Zenon DEF x, u

\* Taking a request out of both queues keeps the rest of the line in order.
LEMMA LeaveLine ==
    ASSUME NEW s \in Seq(Requests), NEW t \in Seq(Requests), IsInjectiveSeq(s \o t),
           NEW r
    PROVE  LET u == Without(s, {r})
               v == Without(t, {r})
           IN  /\ u \in Seq(Requests) /\ Range(u) = Range(s) \ {r} /\ Len(u) <= Len(s)
               /\ v \in Seq(Requests) /\ Range(v) = Range(t) \ {r}
               /\ IsInjectiveSeq(u \o v)
               /\ \E h : Embeds(h, u \o v, s \o t)
<1> DEFINE S == Requests \ {r}
           u == Without(s, {r})
           v == Without(t, {r})
<1>1. u = Select(s, S) /\ v = Select(t, S)
  BY DEF Without
<1> HIDE DEF u, v
<1>2. IsInjectiveSeq(s) /\ IsInjectiveSeq(t) /\ \A x \in Range(s) : x \notin Range(t)
  BY PartsOfLine, Zenon
<1>3. /\ u \in Seq(Requests) /\ Range(u) = Range(s) \cap S /\ IsInjectiveSeq(u)
      /\ Len(u) = Cardinality(Selected(s, S))
      /\ v \in Seq(Requests) /\ Range(v) = Range(t) \cap S /\ IsInjectiveSeq(v)
  BY <1>1, <1>2, SelectProperties, Zenon
<1>4. Range(s) \subseteq Requests /\ Range(t) \subseteq Requests
  BY RangeOfSeq, Zenon
<1>5. Range(u) = Range(s) \ {r} /\ Range(v) = Range(t) \ {r}
  BY <1>3, <1>4, Zenon
<1>6. IsInjectiveSeq(u \o v)
  <2>1. Range(u) \cap Range(v) = {}
    BY <1>2, <1>5, Zenon
  <2> QED BY <1>3, <2>1, ConcatProperties2, Zenon
<1>7. Len(u) <= Len(s)
  <2>1. Len(s) \in Nat /\ Selected(s, S) \subseteq 1 .. Len(s)
    BY DEF Selected
  <2>2. IsFiniteSet(1 .. Len(s)) /\ Cardinality(1 .. Len(s)) = Len(s)
    <3> DEFINE n == Len(s)
    <3>1. n \in Nat
      BY <2>1
    <3> HIDE DEF n
    <3>2. IsFiniteSet(1 .. n) /\ Cardinality(1 .. n) = IF 1 > n THEN 0 ELSE n - 1 + 1
      BY <3>1, FS_Interval
    <3>3. IsFiniteSet(1 .. n) /\ Cardinality(1 .. n) = n
      BY <3>1, <3>2
    <3> QED BY <3>3 DEF n
  <2> QED BY <1>3, <2>1, <2>2, FS_Subset, ZenonT(30)
<1>8. \E h : Embeds(h, u \o v, s \o t)
  <2>1. PICK f : Embeds(f, u, s)
    BY <1>1, SelectEmbeds, Zenon
  <2>2. PICK g : Embeds(g, v, t)
    BY <1>1, SelectEmbeds, Zenon
  <2> QED BY <1>3, <2>1, <2>2, ConcatEmbeds, ZenonT(30)
<1> QED BY <1>3, <1>5, <1>6, <1>7, <1>8, ZenonT(30) DEF u, v
-----------------------------------------------------------------------------
(* Frames: what a step that leaves a part of the state alone preserves *)

KvStep == LocalNext \/ UNCHANGED kvmVars

\* Such a step preserves the invariant of the KV-cache manager.
LEMMA KvInv ==
    ASSUME IInv, KvStep
    PROVE  IInv'
<1>1. [Next]_kvmVars
  BY DEF KvStep, Next
<1> QED BY <1>1, NextInv

LEMMA KvTypes ==
    ASSUME IInv
    PROVE  /\ req_to_blocks \in [Requests -> Seq(Blocks)]
           /\ num_computed_tokens \in [Requests -> Nat]
           /\ num_scheduled_tokens \in [Requests -> Nat]
           /\ all_token_ids \in [Requests -> Seq(Tokens)]
           /\ \A r \in Requests : /\ num_tokens(r) \in Nat /\ num_tokens(r) > 0
                                   /\ num_tokens(r) <= MaxModelLen
           /\ MaxModelLen \in Nat
<1>1. \A r \in Requests : num_tokens(r) \in 1 .. MaxModelLen
  BY DEF IInv, TypeOK
<1>2. \A r \in Requests : /\ num_tokens(r) \in Nat /\ num_tokens(r) > 0
                          /\ num_tokens(r) <= MaxModelLen
  BY <1>1, MaxModelLenAssumption
<1> QED BY <1>2, MaxModelLenAssumption DEF IInv, TypeOK

LEMMA SameQueues ==
    ASSUME QueueInv, pc \notin {"cache", "free"}, pc' \notin {"cache", "free"},
           UNCHANGED <<status, waiting, running, req_to_blocks,
                       num_computed_tokens, num_scheduled_tokens>>
    PROVE  QueueInv'
<1>1. stopping = {} /\ stopping' = {}
  BY DEF stopping
<1>2. line' = line
  BY DEF line
<1>3. HandledOK'
  BY DEF HandledOK
<1>4. \A r \in Requests : InItsPlace(r)
  BY <1>1 DEF QueueInv
<1>5. \A r \in Requests : InItsPlace(r)'
  BY <1>4 DEF InItsPlace
<1> QED BY <1>1, <1>2, <1>3, <1>5 DEF QueueInv

\* Nobody comes; those who stay in the line stay in order.
LEMMA SameOrder ==
    ASSUME OrderInv, SchedTypeOK, arrived' = arrived,
           line' = line \/ \E h : Embeds(h, line', line),
           \A r \in Requests : status[r] # "ABSENT" => status'[r] # "ABSENT"
    PROVE  OrderInv'
<1>1. Range(arrived) \subseteq Requests
  BY RangeOfSeq DEF SchedTypeOK
<1>2. \A r \in Range(arrived) : status'[r] # "ABSENT"
  BY <1>1 DEF OrderInv
<1>3. \A q, r : CameBefore(q, r) <=> CameBefore(q, r)'
  BY DEF CameBefore
<1>4. CASE line' = line
  BY <1>2, <1>3, <1>4, Zenon DEF OrderInv
<1>5. CASE \E h : Embeds(h, line', line)
  <2>1. PICK h : Embeds(h, line', line)
    BY <1>5
  <2>2. Range(line') \subseteq Range(line)
    BY <2>1 DEF Embeds, Range
  <2>3. \A i, j \in DOMAIN line' : i < j => CameBefore(line'[i], line'[j])
    <3> SUFFICES ASSUME NEW i \in DOMAIN line', NEW j \in DOMAIN line', i < j
                 PROVE  CameBefore(line'[i], line'[j])
      OBVIOUS
    <3>1. /\ h[i] \in DOMAIN line /\ h[j] \in DOMAIN line /\ h[i] < h[j]
          /\ line'[i] = line[h[i]] /\ line'[j] = line[h[j]]
      BY <2>1, Zenon DEF Embeds
    <3>2. CameBefore(line[h[i]], line[h[j]])
      BY <3>1, Zenon DEF OrderInv
    <3> QED BY <3>1, <3>2, Zenon
  <2> QED BY <1>2, <1>3, <2>2, <2>3, Zenon DEF OrderInv
<1> QED BY <1>4, <1>5

LEMMA SameTokens ==
    ASSUME TokenInv, UNCHANGED <<status, all_token_ids, num_computed_tokens,
                                 num_scheduled_tokens, num_output_placeholders>>
    PROVE  TokenInv'
BY DEF TokenInv, num_tokens
-----------------------------------------------------------------------------
(* Steps that only move the engine on *)

\* The block tables, the queues and the tokens are left alone.
Idle == UNCHANGED <<req_to_blocks, reqVars, queueVars, arrived, num_prompt_tokens,
                    num_output_placeholders>>

LEMMA IdleStep ==
    ASSUME SchedInv, Idle, pc' \in Phases,
           pc \notin {"cache", "free"}, pc' \notin {"cache", "free"},
           finished_req_ids' \subseteq Requests, prev_step_scheduled_req_ids' \subseteq Requests,
           pass' \in Passes, todo' \in Seq(Requests \X Samples), PassInv'
    PROVE  SchedInv'
<1>1. /\ status' = status /\ waiting' = waiting /\ running' = running /\ arrived' = arrived
      /\ num_prompt_tokens' = num_prompt_tokens
      /\ num_output_placeholders' = num_output_placeholders
  BY DEF Idle, queueVars
<1>2. /\ req_to_blocks' = req_to_blocks /\ all_token_ids' = all_token_ids
      /\ num_computed_tokens' = num_computed_tokens
      /\ num_scheduled_tokens' = num_scheduled_tokens
  BY DEF Idle, reqVars
<1>3. SchedTypeOK'
  BY <1>1 DEF SchedInv, SchedTypeOK
<1>4. QueueInv'
  BY <1>1, <1>2, SameQueues DEF SchedInv
<1>5. OrderInv'
  <2>1. line' = line
    BY <1>1 DEF line
  <2> QED BY <1>1, <2>1, SameOrder DEF SchedInv
<1>6. TokenInv'
  BY <1>1, <1>2, SameTokens DEF SchedInv
<1> QED BY <1>3, <1>4, <1>5, <1>6 DEF SchedInv

\* Outside of a pass, pc alone does not matter to what a pass has scheduled.
LEMMA MoveOn ==
    ASSUME SchedInv, Idle, pc' \in Phases,
           pc \notin {"cache", "free"}, pc' \notin {"cache", "free"},
           finished_req_ids' \subseteq Requests,
           prev_step_scheduled_req_ids' = prev_step_scheduled_req_ids,
           pass' = pass, todo' \in Seq(Requests \X Samples),
           \/ pc' = pc
           \/ pc \notin {"running", "waiting", "commit", "reset"}
           \/ pc = "running" /\ pc' = IF pass.preempted THEN "commit" ELSE "waiting"
           \/ pc = "waiting" /\ pc' = "commit"
    PROVE  SchedInv'
<1>1. /\ num_scheduled_tokens' = num_scheduled_tokens
      /\ status' = status /\ running' = running
  BY DEF Idle, queueVars, reqVars
<1>2. pass \in Passes
  BY DEF SchedInv, SchedTypeOK
<1>3. pass = EmptyPass =>
        /\ Range(pass.order) = {} /\ pass.new = {} /\ pass.resumed = {} /\ ~pass.preempted
  BY DEF EmptyPass, Range
<1>4. PassInv
  BY DEF SchedInv
<1>5. /\ pc' \notin {"running", "waiting", "commit"} => pass' = EmptyPass
      /\ pc' = "waiting" => ~pass.preempted
  BY <1>3, <1>4 DEF PassInv
<1>6. pc' = "running" => /\ pass.new = {} /\ pass.resumed = {}
                         /\ \A i \in DOMAIN running :
                              i >= pass.req_index => running[i] \notin Range(pass.order)
  BY <1>3, <1>4 DEF PassInv
<1>7. \A r \in prev_step_scheduled_req_ids :
         status[r] = "PREEMPTED" => pc' = "reset" \/ pass.preempted
  BY <1>3, <1>4 DEF PassInv
<1>8. PassInv'
  BY <1>1, <1>4, <1>5, <1>6, <1>7 DEF PassInv
<1>9. prev_step_scheduled_req_ids \subseteq Requests
  BY DEF SchedInv, SchedTypeOK
<1> QED BY <1>2, <1>8, <1>9, IdleStep

LEMMA EmptyPassType == EmptyPass \in Passes
<1>1. Nothing \in [Requests -> Seq(Blocks)]
  BY DEF Nothing
<1> QED BY <1>1, SchedulerAssumption DEF EmptyPass, Passes

\* What the updates of the locals of a pass do to the record.
LEMMA PassSkipped ==
    ASSUME NEW p \in Passes, NEW n \in Nat \ {0}
    PROVE  LET q == [p EXCEPT !.req_index = n] IN
           /\ q \in Passes /\ q.req_index = n /\ q.preempted = p.preempted
           /\ q.order = p.order /\ q.new = p.new /\ q.resumed = p.resumed
BY ZenonT(30) DEF Passes

LEMMA PassPreempted ==
    ASSUME NEW p \in Passes
    PROVE  LET q == [p EXCEPT !.preempted = TRUE] IN
           /\ q \in Passes /\ q.req_index = p.req_index /\ q.preempted
           /\ q.order = p.order /\ q.new = p.new /\ q.resumed = p.resumed
<1>1. TRUE \in BOOLEAN
  OBVIOUS
<1> QED BY <1>1, ZenonT(30) DEF Passes

LEMMA SkipRunningStep ==
    ASSUME SchedInv, SkipRunning
    PROVE  KvStep /\ SchedInv'
<1>1. /\ KvStep /\ Idle /\ pc = "running" /\ pc' = pc /\ todo' = todo
      /\ finished_req_ids' = finished_req_ids
      /\ prev_step_scheduled_req_ids' = prev_step_scheduled_req_ids
      /\ pass' = [pass EXCEPT !.req_index = @ + 1]
  BY DEF SkipRunning, KvStep, Idle, kvmVars, kvVars,
         stepVars, fixedVars, asyncVars
<1>2. pass \in Passes
  BY DEF SchedInv, SchedTypeOK
<1>3. /\ pass' \in Passes /\ pass'.req_index = pass.req_index + 1 /\ pass.req_index \in Nat
      /\ pass'.order = pass.order /\ pass'.new = pass.new /\ pass'.resumed = pass.resumed
      /\ pass'.preempted = pass.preempted
  <2>1. pass.req_index \in Nat \ {0}
    BY <1>2 DEF Passes
  <2> DEFINE n == pass.req_index + 1
  <2>2. n \in Nat \ {0} /\ n = pass.req_index + 1
    BY <2>1
  <2>3. pass' = [pass EXCEPT !.req_index = n]
    BY <1>1
  <2> HIDE DEF n
  <2>4. /\ pass' \in Passes /\ pass'.req_index = n /\ pass'.order = pass.order
        /\ pass'.new = pass.new /\ pass'.resumed = pass.resumed
        /\ pass'.preempted = pass.preempted
    BY <1>2, <2>2, <2>3, PassSkipped
  <2> QED BY <2>1, <2>2, <2>4
<1>4. /\ num_scheduled_tokens' = num_scheduled_tokens
      /\ status' = status /\ running' = running /\ running \in Seq(Requests)
  BY <1>1 DEF Idle, queueVars, reqVars, SchedInv, SchedTypeOK
<1>5. PassInv
  BY DEF SchedInv
<1>6. \A i \in DOMAIN running : i >= pass'.req_index => running[i] \notin Range(pass.order)
  <2>1. \A i \in DOMAIN running : i >= pass'.req_index => i >= pass.req_index
    BY <1>3, <1>4
  <2> QED BY <1>1, <1>5, <2>1, Zenon DEF PassInv
<1>7. PassInv'
  BY <1>1, <1>3, <1>4, <1>5, <1>6 DEF PassInv
<1>8. /\ finished_req_ids \subseteq Requests /\ prev_step_scheduled_req_ids \subseteq Requests
      /\ todo \in Seq(Requests \X Samples) /\ pc \in Phases
  BY DEF SchedInv, SchedTypeOK
<1> QED BY <1>1, <1>3, <1>7, <1>8, IdleStep

LEMMA EndRunningStep ==
    ASSUME SchedInv, EndRunning
    PROVE  KvStep /\ SchedInv'
<1>1. /\ KvStep /\ Idle /\ pc = "running" /\ pc' = (IF pass.preempted THEN "commit" ELSE "waiting")
      /\ todo' = todo /\ pass' = pass /\ finished_req_ids' = finished_req_ids
      /\ prev_step_scheduled_req_ids' = prev_step_scheduled_req_ids
  BY DEF EndRunning, KvStep, Idle, kvmVars, kvVars,
         stepVars, fixedVars, asyncVars
<1>2. pc' \in {"commit", "waiting"} /\ pc' \in Phases
  BY <1>1 DEF Phases
<1>3. finished_req_ids \subseteq Requests /\ todo \in Seq(Requests \X Samples)
  BY DEF SchedInv, SchedTypeOK
<1> QED BY <1>1, <1>2, <1>3, MoveOn

LEMMA EndWaitingStep ==
    ASSUME SchedInv, EndWaiting
    PROVE  KvStep /\ SchedInv'
<1>1. /\ KvStep /\ Idle /\ pc = "waiting" /\ pc' = "commit"
      /\ todo' = todo /\ pass' = pass /\ finished_req_ids' = finished_req_ids
      /\ prev_step_scheduled_req_ids' = prev_step_scheduled_req_ids
  BY DEF EndWaiting, KvStep, Idle, kvmVars, kvVars,
         stepVars, fixedVars, asyncVars
<1>2. finished_req_ids \subseteq Requests /\ todo \in Seq(Requests \X Samples)
  BY DEF SchedInv, SchedTypeOK
<1> QED BY <1>1, <1>2, MoveOn DEF Phases

LEMMA SkipOutputStep ==
    ASSUME SchedInv, SkipOutput
    PROVE  KvStep /\ SchedInv'
<1>1. /\ KvStep /\ Idle /\ pc = "update" /\ pc' = pc /\ todo # <<>> /\ todo' = Tail(todo)
      /\ pass' = pass /\ finished_req_ids' = finished_req_ids
      /\ prev_step_scheduled_req_ids' = prev_step_scheduled_req_ids
  BY DEF SkipOutput, KvStep, Idle, kvmVars, kvVars,
         stepVars, fixedVars, asyncVars
<1>2. finished_req_ids \subseteq Requests /\ todo \in Seq(Requests \X Samples)
  BY DEF SchedInv, SchedTypeOK
<1>3. Tail(todo) \in Seq(Requests \X Samples)
  BY <1>1, <1>2
<1> QED BY <1>1, <1>2, <1>3, MoveOn DEF Phases

LEMMA DiscardOutputStep ==
    ASSUME SchedInv, DiscardOutput
    PROVE  KvStep /\ SchedInv'
<1>1. /\ KvStep /\ Idle /\ pc = "update" /\ pc' = pc /\ todo # <<>> /\ todo' = Tail(todo)
      /\ pass' = pass /\ finished_req_ids' = finished_req_ids
      /\ prev_step_scheduled_req_ids' = prev_step_scheduled_req_ids
  BY DEF DiscardOutput, KvStep, Idle, kvmVars, kvVars,
         stepVars, fixedVars, asyncVars
<1>2. finished_req_ids \subseteq Requests /\ todo \in Seq(Requests \X Samples)
  BY DEF SchedInv, SchedTypeOK
<1>3. Tail(todo) \in Seq(Requests \X Samples)
  BY <1>1, <1>2
<1> QED BY <1>1, <1>2, <1>3, MoveOn DEF Phases

LEMMA EndUpdateStep ==
    ASSUME SchedInv, EndUpdate
    PROVE  KvStep /\ SchedInv'
<1>1. /\ KvStep /\ Idle /\ pc = "update" /\ pc' = "idle"
      /\ todo' = todo /\ pass' = pass /\ finished_req_ids' = finished_req_ids
      /\ prev_step_scheduled_req_ids' = prev_step_scheduled_req_ids
  BY DEF EndUpdate, KvStep, Idle, kvmVars, kvVars,
         stepVars, fixedVars, asyncVars
<1>2. finished_req_ids \subseteq Requests /\ todo \in Seq(Requests \X Samples)
  BY DEF SchedInv, SchedTypeOK
<1> QED BY <1>1, <1>2, MoveOn DEF Phases
-----------------------------------------------------------------------------
(* Steps that free the blocks of a request *)

LEMMA FreeEffect ==
    ASSUME IInv, NEW r \in Requests, FreeRequest(r)
    PROVE  /\ KvStep /\ all_token_ids' = all_token_ids
           /\ num_scheduled_tokens' = [num_scheduled_tokens EXCEPT ![r] = 0]
           /\ req_to_blocks'[r] = <<>>
           /\ num_computed_tokens'[r] = 0 /\ num_scheduled_tokens'[r] = 0
           /\ \A q \in Requests : q # r =>
                /\ req_to_blocks'[q] = req_to_blocks[q]
                /\ num_computed_tokens'[q] = num_computed_tokens[q]
                /\ num_scheduled_tokens'[q] = num_scheduled_tokens[q]
<1>1. KvStep
  BY DEF KvStep, LocalNext
<1>2. /\ req_to_blocks' = [req_to_blocks EXCEPT ![r] = <<>>]
      /\ num_computed_tokens' = [num_computed_tokens EXCEPT ![r] = 0]
      /\ num_scheduled_tokens' = [num_scheduled_tokens EXCEPT ![r] = 0]
      /\ all_token_ids' = all_token_ids
  BY DEF FreeRequest, free
<1>3. /\ req_to_blocks \in [Requests -> Seq(Blocks)]
      /\ num_computed_tokens \in [Requests -> Nat]
      /\ num_scheduled_tokens \in [Requests -> Nat]
  BY KvTypes
<1> QED BY <1>1, <1>2, <1>3, Zenon

\* A request without computed or scheduled tokens, and with room for one.
LEMMA FreedTokens ==
    ASSUME IInv, SchedInv, NEW r \in Requests, FreeRequest(r),
           num_output_placeholders' \in [Requests -> Nat],
           \A q \in Requests : q # r =>
             /\ status'[q] = status[q]
             /\ num_output_placeholders'[q] = num_output_placeholders[q],
           status[r] # "FINISHED" \/ status'[r] = "FINISHED"
    PROVE  TokenInv'
<1>1. /\ all_token_ids' = all_token_ids
      /\ num_computed_tokens'[r] = 0 /\ num_scheduled_tokens'[r] = 0
      /\ \A q \in Requests : q # r =>
           /\ num_computed_tokens'[q] = num_computed_tokens[q]
           /\ num_scheduled_tokens'[q] = num_scheduled_tokens[q]
  BY FreeEffect, Zenon
<1>2. \A q \in Requests : num_tokens(q)' = num_tokens(q)
  BY <1>1 DEF num_tokens
<1>3. /\ TokenInv /\ num_tokens(r) \in Nat /\ num_tokens(r) > 0
      /\ num_tokens(r) <= MaxModelLen /\ MaxModelLen \in Nat
  BY KvTypes DEF SchedInv
<1>4. /\ status'[r] # "FINISHED" => num_tokens(r) < MaxModelLen
      /\ 0 + 0 <= num_tokens(r) + num_output_placeholders'[r]
      /\ 0 + 0 <= MaxModelLen - 1
  BY <1>3 DEF TokenInv
<1> SUFFICES ASSUME NEW q \in Requests
             PROVE  /\ status'[q] # "FINISHED" => num_tokens(q)' < MaxModelLen
                    /\ num_computed_tokens'[q] + num_scheduled_tokens'[q]
                         <= num_tokens(q)' + num_output_placeholders'[q]
                    /\ num_computed_tokens'[q] + num_scheduled_tokens'[q] <= MaxModelLen - 1
  BY DEF TokenInv
<1>5. CASE q = r
  BY <1>1, <1>2, <1>4, <1>5
<1>6. CASE q # r
  BY <1>1, <1>2, <1>3, <1>6 DEF TokenInv
<1> QED BY <1>5, <1>6

\* The last running request becomes the first waiting one.
LEMMA Preempted ==
    ASSUME IInv, SchedInv, pc \notin {"cache", "free"}, pc' \notin {"cache", "free"},
           running # <<>>, _preempt_request(Last(running)), running' = Front(running),
           arrived' = arrived, num_output_placeholders' \in [Requests -> Nat],
           \A q \in Requests : q # Last(running) =>
             num_output_placeholders'[q] = num_output_placeholders[q]
    PROVE  /\ KvStep /\ QueueInv' /\ OrderInv' /\ TokenInv'
           /\ waiting' \in Seq(Requests) /\ running' \in Seq(Requests)
           /\ status' = [status EXCEPT ![Last(running)] = "PREEMPTED"]
           /\ status' \in [Requests -> Statuses]
           /\ Range(running') = Range(running) \ {Last(running)}
           /\ \A r \in Requests :
                num_scheduled_tokens'[r] > 0
                  <=> r # Last(running) /\ num_scheduled_tokens[r] > 0
<1>0. PICK v : v = Last(running)
  OBVIOUS
<1>1. /\ running \in Seq(Requests) /\ waiting \in Seq(Requests)
      /\ status \in [Requests -> Statuses] /\ IsInjectiveSeq(line)
  BY DEF SchedInv, SchedTypeOK, QueueInv
<1>2. /\ FreeRequest(v) /\ status' = [status EXCEPT ![v] = "PREEMPTED"]
      /\ waiting' = <<v>> \o waiting
  BY <1>0 DEF _preempt_request
<1>3. /\ v \in Requests /\ v \in Range(running)
      /\ Front(running) \in Seq(Requests) /\ <<v>> \o waiting \in Seq(Requests)
      /\ Front(running) \o (<<v>> \o waiting) = running \o waiting
      /\ Range(<<v>> \o waiting) = Range(waiting) \cup {v}
      /\ Range(running) = Range(Front(running)) \cup {v}
      /\ IsInjectiveSeq(running) => v \notin Range(Front(running))
  <2>1. /\ Last(running) \in Requests /\ Last(running) \in Range(running)
        /\ Front(running) \in Seq(Requests) /\ <<Last(running)>> \o waiting \in Seq(Requests)
        /\ Front(running) \o (<<Last(running)>> \o waiting) = running \o waiting
        /\ Range(<<Last(running)>> \o waiting) = Range(waiting) \cup {Last(running)}
        /\ Range(running) = Range(Front(running)) \cup {Last(running)}
        /\ IsInjectiveSeq(running) => Last(running) \notin Range(Front(running))
    BY <1>1, StepBack, Zenon
  <2> QED BY <1>0, <2>1, Zenon
<1>4. IsInjectiveSeq(running) /\ \A x \in Range(running) : x \notin Range(waiting)
  BY <1>1, PartsOfLine, Zenon DEF line
<1>5. line' = line
  BY <1>2, <1>3, ZenonT(60) DEF line
<1>6. /\ Range(running') = Range(running) \ {v} /\ Range(waiting') = Range(waiting) \cup {v}
      /\ waiting' \in Seq(Requests) /\ running' \in Seq(Requests)
  BY <1>2, <1>3, <1>4, Zenon
<1>7. /\ KvStep /\ req_to_blocks'[v] = <<>>
      /\ num_computed_tokens'[v] = 0 /\ num_scheduled_tokens'[v] = 0
      /\ \A q \in Requests : q # v =>
           /\ req_to_blocks'[q] = req_to_blocks[q]
           /\ num_computed_tokens'[q] = num_computed_tokens[q]
           /\ num_scheduled_tokens'[q] = num_scheduled_tokens[q]
  BY <1>2, <1>3, FreeEffect, Zenon
<1>8. /\ status' \in [Requests -> Statuses] /\ status'[v] = "PREEMPTED"
      /\ \A q \in Requests : q # v => status'[q] = status[q]
  BY <1>1, <1>2, <1>3 DEF Statuses
<1>9. stopping = {} /\ stopping' = {}
  BY DEF stopping
<1>10. \A q \in Requests : InItsPlace(q)
  BY <1>9 DEF SchedInv, QueueInv
<1>11. \A q \in Requests : InItsPlace(q)'
  <2>1. InItsPlace(v)'
    BY <1>3, <1>4, <1>6, <1>7, <1>8 DEF InItsPlace
  <2>2. ASSUME NEW q \in Requests, q # v PROVE InItsPlace(q)'
    BY <1>6, <1>7, <1>8, <1>10, <2>2, ZenonT(30) DEF InItsPlace
  <2> QED BY <2>1, <2>2, Zenon
<1>12. QueueInv'
  <2>1. HandledOK'
    BY DEF HandledOK
  <2> QED BY <1>1, <1>5, <1>9, <1>11, <2>1 DEF QueueInv
<1>13. OrderInv'
  <2>1. \A q \in Requests : status[q] # "ABSENT" => status'[q] # "ABSENT"
    BY <1>8
  <2> QED BY <1>5, <2>1, SameOrder DEF SchedInv
<1>14. status[v] # "FINISHED"
  BY <1>3, <1>10 DEF InItsPlace
<1>15. TokenInv'
  BY <1>2, <1>3, <1>8, <1>14, <1>0, FreedTokens, ZenonT(30)
<1>16. \A r \in Requests : num_scheduled_tokens'[r] > 0 <=> r # v /\ num_scheduled_tokens[r] > 0
  BY <1>7
<1> QED BY <1>2, <1>6, <1>7, <1>8, <1>12, <1>13, <1>15, <1>16, <1>0

LEMMA PreemptLastStep ==
    ASSUME IInv, SchedInv, PreemptLast
    PROVE  KvStep /\ SchedInv'
<1>0. PICK v : v = Last(running)
  OBVIOUS
<1>1. /\ pc = "running" /\ more_running /\ _preempt_request(v) /\ running' = Front(running)
      /\ pass' = [pass EXCEPT !.preempted = TRUE] /\ pc' \in {"commit", "running"}
      /\ UNCHANGED <<fixedVars, asyncVars, stepVars, todo, arrived>>
  BY <1>0 DEF PreemptLast
<1>2. /\ num_prompt_tokens' = num_prompt_tokens
      /\ num_output_placeholders' = num_output_placeholders
      /\ finished_req_ids' = finished_req_ids
      /\ prev_step_scheduled_req_ids' = prev_step_scheduled_req_ids
      /\ todo' = todo /\ arrived' = arrived
  BY <1>1 DEF fixedVars, asyncVars, stepVars
<1>3. /\ pass \in Passes /\ running \in Seq(Requests)
      /\ num_output_placeholders \in [Requests -> Nat]
      /\ status \in [Requests -> Statuses]
  BY DEF SchedInv, SchedTypeOK
<1>4. pass.req_index \in Nat \ {0} /\ pass.req_index <= Len(running) /\ Len(running) \in Nat
  BY <1>1, <1>3 DEF Passes, more_running
<1>5. running # <<>> /\ Len(running) \in DOMAIN running
  BY <1>3, <1>4
<1>6. /\ KvStep /\ QueueInv' /\ OrderInv' /\ TokenInv'
      /\ waiting' \in Seq(Requests) /\ running' \in Seq(Requests)
      /\ status' = [status EXCEPT ![v] = "PREEMPTED"]
      /\ status' \in [Requests -> Statuses]
      /\ Range(running') = Range(running) \ {v}
      /\ \A r \in Requests :
           num_scheduled_tokens'[r] > 0 <=> r # v /\ num_scheduled_tokens[r] > 0
  <2>1. pc \notin {"cache", "free"} /\ pc' \notin {"cache", "free"}
    BY <1>1
  <2> QED BY <1>0, <1>1, <1>2, <1>3, <1>5, <2>1, Preempted
<1>7. /\ pass' \in Passes /\ pass'.req_index = pass.req_index /\ pass'.preempted
      /\ pass'.order = pass.order /\ pass'.new = pass.new /\ pass'.resumed = pass.resumed
  BY <1>1, <1>3, PassPreempted
<1>8. SchedTypeOK'
  BY <1>1, <1>2, <1>6, <1>7 DEF SchedInv, SchedTypeOK, Phases
<1>9. /\ Len(running') <= Len(running)
      /\ \A i \in DOMAIN running' : i \in DOMAIN running /\ running'[i] = running[i]
  <2>1. /\ Len(Front(running)) = Len(running) - 1
        /\ \A i \in DOMAIN Front(running) :
             i \in DOMAIN running /\ Front(running)[i] = running[i]
    BY <1>3, <1>5, StepBack, Zenon
  <2> QED BY <1>1, <1>4, <2>1
<1>10. v \notin Range(pass.order)
  BY <1>0, <1>1, <1>4, <1>5 DEF SchedInv, PassInv, Last
<1>11. PassInv'
  <2>1. PassInv
    BY DEF SchedInv
  <2>2. /\ \A r \in Requests : num_scheduled_tokens'[r] > 0 <=> r \in Range(pass.order)
        /\ Range(pass.order) \subseteq Range(running')
    BY <1>6, <1>10, <2>1, Zenon DEF PassInv
  <2>3. pass.new = {} /\ pass.resumed = {}
    BY <1>1, <2>1 DEF PassInv
  <2>4. \A i \in DOMAIN running' :
          i >= pass.req_index => running'[i] \notin Range(pass.order)
    BY <1>1, <1>9, <2>1, Zenon DEF PassInv
  <2>5. Len(running') <= MaxNumRunningReqs
    <3>1. Len(running') \in Nat /\ Len(running) <= MaxNumRunningReqs
      BY <1>6, <2>1 DEF PassInv
    <3> QED BY <1>4, <1>9, <3>1, SchedulerAssumption
  <2> QED BY <1>1, <1>7, <2>2, <2>3, <2>4, <2>5 DEF PassInv
<1> QED BY <1>6, <1>8, <1>11 DEF SchedInv

LEMMA PreemptForResetStep ==
    ASSUME IInv, SchedInv, PreemptForReset
    PROVE  KvStep /\ SchedInv'
<1>0. PICK v : v = Last(running)
  OBVIOUS
<1>1. /\ pc = "reset" /\ pc' = pc /\ running # <<>>
      /\ _preempt_request(v) /\ running' = Front(running)
      /\ num_output_placeholders' = [num_output_placeholders EXCEPT ![v] = 0]
      /\ num_prompt_tokens' = num_prompt_tokens
      /\ finished_req_ids' = finished_req_ids
      /\ prev_step_scheduled_req_ids' = prev_step_scheduled_req_ids
      /\ pass' = pass /\ todo' = todo /\ arrived' = arrived
  BY <1>0 DEF PreemptForReset, fixedVars, stepVars
<1>2. /\ running \in Seq(Requests) /\ num_output_placeholders \in [Requests -> Nat]
  BY DEF SchedInv, SchedTypeOK
<1>3. /\ num_output_placeholders' \in [Requests -> Nat]
      /\ \A q \in Requests : q # v => num_output_placeholders'[q] = num_output_placeholders[q]
  BY <1>1, <1>2, ZenonT(30)
<1>4. /\ KvStep /\ QueueInv' /\ OrderInv' /\ TokenInv'
      /\ waiting' \in Seq(Requests) /\ running' \in Seq(Requests)
      /\ status' \in [Requests -> Statuses]
      /\ Range(running') = Range(running) \ {v}
      /\ \A r \in Requests :
           num_scheduled_tokens'[r] > 0 <=> r # v /\ num_scheduled_tokens[r] > 0
  <2>1. pc \notin {"cache", "free"} /\ pc' \notin {"cache", "free"}
    BY <1>1
  <2> QED BY <1>0, <1>1, <1>3, <2>1, Preempted
<1>5. SchedTypeOK'
  BY <1>1, <1>3, <1>4 DEF SchedInv, SchedTypeOK
<1>6. PassInv'
  <2>1. PassInv
    BY DEF SchedInv
  <2>2. pass = EmptyPass
    BY <1>1, <2>1 DEF PassInv
  <2>3. Range(pass.order) = {} /\ pass.new = {} /\ pass.resumed = {} /\ ~pass.preempted
    BY <2>2 DEF EmptyPass, Range
  <2>4. \A r \in Requests : ~(num_scheduled_tokens'[r] > 0)
    BY <1>4, <2>1, <2>3, Zenon DEF PassInv
  <2>5. Len(running') <= MaxNumRunningReqs
    <3>1. Len(running') = Len(running) - 1 /\ Len(running) \in Nat
      <4>1. Len(Front(running)) = Len(running) - 1
        BY <1>1, <1>2, StepBack, Zenon
      <4> QED BY <1>1, <1>2, <4>1
    <3> QED BY <2>1, <3>1, SchedulerAssumption DEF PassInv
  <2> QED BY <1>1, <2>2, <2>3, <2>4, <2>5 DEF PassInv
<1> QED BY <1>4, <1>5, <1>6 DEF SchedInv

\* A finished request leaves its queue; between two passes.
LEMMA Freed ==
    ASSUME IInv, SchedInv, NEW r \in Requests, _free_request(r), stopping \subseteq {r},
           pc \notin {"running", "waiting", "commit", "reset"},
           pc' \notin {"cache", "free", "running", "waiting", "commit"}, pc' \in Phases,
           arrived' = arrived, num_output_placeholders' = num_output_placeholders,
           num_prompt_tokens' = num_prompt_tokens,
           prev_step_scheduled_req_ids' = prev_step_scheduled_req_ids, pass' = pass,
           todo' \in Seq(Requests \X Samples),
           status' \in [Requests -> Statuses], status'[r] = "FINISHED",
           \A q \in Requests : q # r => status'[q] = status[q]
    PROVE  KvStep /\ SchedInv'
<1>1. /\ running \in Seq(Requests) /\ waiting \in Seq(Requests)
      /\ finished_req_ids \subseteq Requests
      /\ num_output_placeholders \in [Requests -> Nat] /\ IsInjectiveSeq(running \o waiting)
      /\ status \in [Requests -> Statuses]
  BY DEF SchedInv, SchedTypeOK, QueueInv, line
<1>2. /\ FreeRequest(r) /\ finished_req_ids' = finished_req_ids \cup {r}
      /\ running' = Without(running, {r}) /\ waiting' = Without(waiting, {r})
  BY DEF _free_request
<1>3. /\ running' \in Seq(Requests) /\ Range(running') = Range(running) \ {r}
      /\ Len(running') <= Len(running)
      /\ waiting' \in Seq(Requests) /\ Range(waiting') = Range(waiting) \ {r}
      /\ IsInjectiveSeq(running' \o waiting')
      /\ \E h : Embeds(h, running' \o waiting', running \o waiting)
  BY <1>1, <1>2, LeaveLine, Zenon
<1>4. /\ KvStep /\ req_to_blocks'[r] = <<>>
      /\ num_computed_tokens'[r] = 0 /\ num_scheduled_tokens'[r] = 0
      /\ \A q \in Requests : q # r =>
           /\ req_to_blocks'[q] = req_to_blocks[q]
           /\ num_computed_tokens'[q] = num_computed_tokens[q]
           /\ num_scheduled_tokens'[q] = num_scheduled_tokens[q]
  BY <1>2, FreeEffect, Zenon
<1>5. SchedTypeOK'
  BY <1>1, <1>2, <1>3 DEF SchedInv, SchedTypeOK
<1>6. QueueInv'
  <2>1. stopping' = {} /\ HandledOK'
    BY DEF stopping, HandledOK
  <2>2. InItsPlace(r)'
    <3>1. r \notin Range(running') /\ r \notin Range(waiting')
      BY <1>3
    <3> QED BY <1>4, <3>1 DEF InItsPlace
  <2>3. ASSUME NEW q \in Requests, q # r PROVE InItsPlace(q)'
    <3>1. InItsPlace(q)
      BY <2>3 DEF SchedInv, QueueInv
    <3>2. /\ q \in Range(running') <=> q \in Range(running)
          /\ q \in Range(waiting') <=> q \in Range(waiting)
      BY <1>3, <2>3, Zenon
    <3> QED BY <1>4, <2>3, <3>1, <3>2 DEF InItsPlace
  <2>4. \A q \in Requests : InItsPlace(q)'
    BY <2>2, <2>3, Zenon
  <2> QED BY <1>3, <2>1, <2>4 DEF QueueInv, line
<1>7. OrderInv'
  <2>1. \A q \in Requests : status[q] # "ABSENT" => status'[q] # "ABSENT"
    OBVIOUS
  <2>2. \E h : Embeds(h, line', line)
    BY <1>3 DEF line
  <2> QED BY <2>1, <2>2, SameOrder DEF SchedInv
<1>8. TokenInv'
  BY <1>1, <1>2, FreedTokens, ZenonT(30)
<1>9. PassInv'
  <2>1. PassInv /\ pass = EmptyPass
    BY DEF SchedInv, PassInv
  <2>2. Range(pass.order) = {} /\ pass.new = {} /\ pass.resumed = {} /\ ~pass.preempted
    BY <2>1 DEF EmptyPass, Range
  <2>3. \A q \in Requests : ~(num_scheduled_tokens'[q] > 0)
    <3>1. \A q \in Requests : ~(num_scheduled_tokens[q] > 0)
      BY <2>1, <2>2 DEF PassInv
    <3> QED BY <1>4, <3>1
  <2>4. Len(running') <= MaxNumRunningReqs
    <3>1. Len(running') \in Nat /\ Len(running) \in Nat /\ Len(running) <= MaxNumRunningReqs
      BY <1>1, <1>3, <2>1 DEF PassInv
    <3> QED BY <1>3, <3>1, SchedulerAssumption
  <2>5. \A q \in prev_step_scheduled_req_ids : status'[q] # "PREEMPTED"
    <3>1. \A q \in prev_step_scheduled_req_ids : status[q] # "PREEMPTED" /\ q \in Requests
      BY <2>1, <2>2 DEF PassInv, SchedInv, SchedTypeOK
    <3> QED BY <3>1
  <2> QED BY <2>1, <2>2, <2>3, <2>4, <2>5 DEF PassInv
<1> QED BY <1>4, <1>5, <1>6, <1>7, <1>8, <1>9 DEF SchedInv

LEMMA FreeStoppedStep ==
    ASSUME IInv, SchedInv, FreeStopped
    PROVE  KvStep /\ SchedInv'
<1>0. PICK r : r = handled
  OBVIOUS
<1>1. /\ pc = "free" /\ pc' = "update" /\ _free_request(r) /\ todo' = Tail(todo)
      /\ status' = status /\ arrived' = arrived /\ pass' = pass
      /\ num_output_placeholders' = num_output_placeholders
      /\ num_prompt_tokens' = num_prompt_tokens
      /\ prev_step_scheduled_req_ids' = prev_step_scheduled_req_ids
  BY <1>0 DEF FreeStopped, fixedVars, asyncVars
<1>2. /\ todo \in Seq(Requests \X Samples) /\ status \in [Requests -> Statuses]
      /\ todo # <<>> /\ status[r] = "FINISHED"
  BY <1>0, <1>1 DEF SchedInv, SchedTypeOK, QueueInv, HandledOK
<1>3. r \in Requests /\ Tail(todo) \in Seq(Requests \X Samples)
  <2>1. Head(todo) \in Requests \X Samples /\ Tail(todo) \in Seq(Requests \X Samples)
    BY <1>2
  <2> QED BY <1>0, <2>1 DEF handled
<1>4. stopping \subseteq {r}
  BY <1>0 DEF stopping
<1> QED BY <1>1, <1>2, <1>3, <1>4, Freed DEF Phases

LEMMA FinishRequestsStep ==
    ASSUME IInv, SchedInv, NEW r \in Requests, finish_requests(r),
           pc \notin {"running", "waiting", "commit", "reset", "cache", "free"}
    PROVE  KvStep /\ SchedInv'
<1>1. /\ pc' = pc /\ _free_request(r) /\ todo' = todo
      /\ status' = [status EXCEPT ![r] = "FINISHED"] /\ arrived' = arrived /\ pass' = pass
      /\ num_output_placeholders' = num_output_placeholders
      /\ num_prompt_tokens' = num_prompt_tokens
      /\ prev_step_scheduled_req_ids' = prev_step_scheduled_req_ids
  BY DEF finish_requests, fixedVars, asyncVars
<1>2. /\ todo \in Seq(Requests \X Samples) /\ status \in [Requests -> Statuses]
      /\ pc \in Phases
  BY DEF SchedInv, SchedTypeOK
<1>3. /\ status' \in [Requests -> Statuses] /\ status'[r] = "FINISHED"
      /\ \A q \in Requests : q # r => status'[q] = status[q]
  BY <1>1, <1>2 DEF Statuses
<1>4. stopping \subseteq {r}
  BY DEF stopping
<1> QED BY <1>1, <1>2, <1>3, <1>4, Freed
-----------------------------------------------------------------------------
(* Steps that schedule a request *)

\* A request with n tokens left gets some of them, within the budget.
LEMMA WithinLimits ==
    ASSUME NEW n \in Nat, pass.token_budget \in Nat \ {0}
    PROVE  /\ within_limits(n) \in Nat /\ within_limits(n) <= n
           /\ within_limits(n) <= pass.token_budget
           /\ n > 0 => within_limits(n) > 0
<1> DEFINE m == IF 0 < LongPrefillThreshold /\ LongPrefillThreshold < n
                THEN LongPrefillThreshold ELSE n
<1>1. m \in Nat /\ m <= n /\ (n > 0 => m > 0)
  BY SchedulerAssumption
<1>2. within_limits(n) = IF m < pass.token_budget THEN m ELSE pass.token_budget
  BY DEF within_limits, Min2
<1> HIDE DEF m
<1> QED BY <1>1, <1>2

\* A scheduled request has a block table.
LEMMA ScheduledHasBlocks ==
    ASSUME IInv, KvStep, NEW r \in Requests, num_scheduled_tokens'[r] > 0
    PROVE  /\ req_to_blocks' \in [Requests -> Seq(Blocks)]
           /\ req_to_blocks'[r] # <<>>
<1>1. IInv'
  BY KvInv
<1>2. /\ req_to_blocks' \in [Requests -> Seq(Blocks)]
      /\ num_computed_tokens'[r] \in Nat /\ num_scheduled_tokens'[r] \in Nat
      /\ num_computed_tokens'[r] + num_scheduled_tokens'[r]
           <= Len(req_to_blocks'[r]) * BlockSize
  BY <1>1 DEF IInv, TypeOK, SlotsCoverTokens
<1>3. ASSUME req_to_blocks'[r] = <<>> PROVE FALSE
  <2>1. Len(req_to_blocks'[r]) = 0
    BY <1>3
  <2>2. 0 * BlockSize = 0
    BY BlockSizeAssumption
  <2> QED BY <1>2, <2>1, <2>2
<1> QED BY <1>2, <1>3

\* The request that schedule() looks at among the running ones.
LEMMA CurrentIsIdle ==
    ASSUME IInv, SchedInv, pc = "running", more_running
    PROVE  /\ current \in Requests /\ current \in Range(running)
           /\ pass.req_index \in DOMAIN running /\ pass.req_index \in Nat
           /\ pass.token_budget \in Nat \ {0}
           /\ status[current] = "RUNNING" /\ req_to_blocks[current] # <<>>
           /\ num_scheduled_tokens[current] = 0
           /\ current \notin Range(pass.order)
<1>1. pass \in Passes /\ running \in Seq(Requests)
  BY DEF SchedInv, SchedTypeOK
<1>2. /\ pass.req_index \in Nat \ {0} /\ pass.req_index <= Len(running)
      /\ pass.token_budget \in Nat \ {0}
  BY <1>1 DEF Passes, more_running
<1>3. pass.req_index \in DOMAIN running
  BY <1>1, <1>2
<1>4. current \in Requests /\ current \in Range(running)
  BY <1>1, <1>3 DEF current, Range
<1>5. current \notin Range(pass.order)
  BY <1>2, <1>3 DEF SchedInv, PassInv, current
<1>6. ~(num_scheduled_tokens[current] > 0)
  BY <1>4, <1>5 DEF SchedInv, PassInv
<1>7. num_scheduled_tokens[current] = 0
  <2>1. num_scheduled_tokens[current] \in Nat
    BY <1>4, KvTypes
  <2> QED BY <1>6, <2>1
<1>8. InItsPlace(current)
  BY <1>4 DEF SchedInv, QueueInv, stopping
<1> QED BY <1>2, <1>3, <1>4, <1>5, <1>7, <1>8 DEF InItsPlace

LEMMA NumNewTokens ==
    ASSUME IInv, SchedInv, NEW r \in Requests, num_scheduled_tokens[r] = 0,
           pass.token_budget \in Nat \ {0}, num_new_tokens(r) # 0
    PROVE  /\ num_new_tokens(r) \in Nat \ {0}
           /\ num_new_tokens(r) <= pass.token_budget
           /\ num_computed_tokens[r] + num_new_tokens(r)
                <= num_tokens(r) + num_output_placeholders[r]
           /\ num_computed_tokens[r] + num_new_tokens(r) <= MaxModelLen - 1
<1> DEFINE T == num_tokens(r)
           P == num_output_placeholders[r]
           C == num_computed_tokens[r]
           w == within_limits(T + P - C)
<1>1. T \in Nat /\ P \in Nat /\ C \in Nat /\ MaxModelLen \in Nat
  BY KvTypes DEF SchedInv, SchedTypeOK
<1>2. C <= T + P /\ C <= MaxModelLen - 1
  <2>1. C + 0 <= T + P /\ C + 0 <= MaxModelLen - 1
    BY DEF SchedInv, TokenInv
  <2> QED BY <1>1, <2>1
<1>3. num_new_tokens(r) = IF w < MaxModelLen - 1 - C THEN w ELSE MaxModelLen - 1 - C
  BY DEF num_new_tokens, Min2
<1> HIDE DEF T, P, C
<1>4. T + P - C \in Nat
  BY <1>1, <1>2
<1>5. w \in Nat /\ w <= T + P - C /\ w <= pass.token_budget
  BY <1>4, WithinLimits
<1> HIDE DEF w
<1>6. /\ num_new_tokens(r) \in Nat \ {0} /\ num_new_tokens(r) <= pass.token_budget
      /\ C + num_new_tokens(r) <= T + P /\ C + num_new_tokens(r) <= MaxModelLen - 1
  BY <1>1, <1>2, <1>3, <1>5
<1> QED BY <1>6 DEF T, P, C

LEMMA RangeOfAppend ==
    ASSUME NEW s \in Seq(Requests), NEW r \in Requests
    PROVE  /\ Append(s, r) \in Seq(Requests) /\ Len(Append(s, r)) = Len(s) + 1
           /\ Range(Append(s, r)) = Range(s) \cup {r}
<1>1. /\ Append(s, r) \in Seq(Requests) /\ Len(Append(s, r)) = Len(s) + 1
      /\ \A i \in 1 .. Len(s) : Append(s, r)[i] = s[i]
      /\ Append(s, r)[Len(s) + 1] = r
      /\ DOMAIN s = 1 .. Len(s) /\ DOMAIN Append(s, r) = 1 .. Len(s) + 1 /\ Len(s) \in Nat
  OBVIOUS
<1>2. \A i \in 1 .. Len(s) + 1 : i \in 1 .. Len(s) \/ i = Len(s) + 1
  BY <1>1
<1>3. 1 .. Len(s) \subseteq 1 .. Len(s) + 1 /\ Len(s) + 1 \in 1 .. Len(s) + 1
  BY <1>1
<1> QED BY <1>1, <1>2, <1>3, Zenon DEF Range

LEMMA ScheduleRunningStep ==
    ASSUME IInv, SchedInv, ScheduleRunning
    PROVE  KvStep /\ SchedInv'
<1>0. PICK r, new : r = current /\ new = num_new_tokens(current)
  OBVIOUS
<1>1. /\ pc = "running" /\ more_running /\ to_be_scheduled(r)
      /\ allocate_slots(r, num_computed_tokens[r], <<>>, new, 0)
      /\ num_scheduled_tokens' = [num_scheduled_tokens EXCEPT ![r] = new]
      /\ pass' = [pass EXCEPT
                    !.req_index = @ + 1, !.token_budget = @ - new,
                    !.order = Append(@, r),
                    !.new_block_ids[r] =
                      SubSeq(req_to_blocks'[r], Len(req_to_blocks[r]) + 1,
                             Len(req_to_blocks'[r]))]
      /\ UNCHANGED <<all_token_ids, num_computed_tokens, pc, queueVars,
                     fixedVars, asyncVars, stepVars, todo, arrived>>
  BY <1>0 DEF ScheduleRunning
<1>2. /\ all_token_ids' = all_token_ids /\ num_computed_tokens' = num_computed_tokens
      /\ pc' = pc /\ status' = status /\ waiting' = waiting /\ running' = running
      /\ num_prompt_tokens' = num_prompt_tokens
      /\ num_output_placeholders' = num_output_placeholders
      /\ finished_req_ids' = finished_req_ids
      /\ prev_step_scheduled_req_ids' = prev_step_scheduled_req_ids
      /\ todo' = todo /\ arrived' = arrived
  BY <1>1 DEF queueVars, fixedVars, asyncVars, stepVars
<1>3. /\ r \in Requests /\ r \in Range(running)
      /\ pass.req_index \in DOMAIN running /\ pass.req_index \in Nat
      /\ pass.token_budget \in Nat \ {0}
      /\ status[r] = "RUNNING" /\ req_to_blocks[r] # <<>>
      /\ num_scheduled_tokens[r] = 0 /\ r \notin Range(pass.order)
  BY <1>0, <1>1, CurrentIsIdle
<1>4. /\ new \in Nat \ {0} /\ new <= pass.token_budget
      /\ num_computed_tokens[r] + new <= num_tokens(r) + num_output_placeholders[r]
      /\ num_computed_tokens[r] + new <= MaxModelLen - 1
  <2>1. num_new_tokens(r) # 0
    BY <1>1 DEF to_be_scheduled
  <2> QED BY <1>0, <1>3, <2>1, NumNewTokens
<1>5. /\ num_computed_tokens[r] \in Nat /\ MaxModelLen \in Nat
      /\ num_scheduled_tokens \in [Requests -> Nat]
      /\ req_to_blocks \in [Requests -> Seq(Blocks)]
  BY <1>3, KvTypes
<1>6. KvStep
  <2>1. new \in 1 .. MaxModelLen - num_computed_tokens[r] /\ 0 \in 0 .. MaxLookahead
    BY <1>4, <1>5, MaxLookaheadAssumption
  <2>2. GrowRequest(r)
    BY <1>1, <1>2, <1>3, <2>1, Zenon DEF GrowRequest
  <2> QED BY <1>3, <2>2, Zenon DEF KvStep, LocalNext
<1>7. /\ num_scheduled_tokens'[r] = new
      /\ \A q \in Requests : q # r => num_scheduled_tokens'[q] = num_scheduled_tokens[q]
  BY <1>1, <1>3, <1>5
<1>8. /\ req_to_blocks' \in [Requests -> Seq(Blocks)] /\ req_to_blocks'[r] # <<>>
  BY <1>3, <1>4, <1>6, <1>7, ScheduledHasBlocks
<1>9. \A q \in Requests : q # r => req_to_blocks'[q] = req_to_blocks[q]
  <2>1. \E x : req_to_blocks' = [req_to_blocks EXCEPT ![r] = x]
    BY <1>1, Zenon DEF allocate_slots
  <2> QED BY <1>5, <2>1
<1>10. /\ pass' \in Passes /\ pass'.req_index = pass.req_index + 1
       /\ pass'.preempted = pass.preempted /\ pass'.order = Append(pass.order, r)
       /\ pass'.new = pass.new /\ pass'.resumed = pass.resumed
  <2>1. PICK x : x = SubSeq(req_to_blocks'[r], Len(req_to_blocks[r]) + 1,
                            Len(req_to_blocks'[r]))
    BY Zenon
  <2>2. x \in Seq(Blocks)
    <3>1. \A i \in Len(req_to_blocks[r]) + 1 .. Len(req_to_blocks'[r]) :
            req_to_blocks'[r][i] \in Blocks
      BY <1>3, <1>5, <1>8
    <3>2. Len(req_to_blocks[r]) + 1 \in Int /\ Len(req_to_blocks'[r]) \in Int
      BY <1>3, <1>5, <1>8
    <3> QED BY <2>1, <3>1, <3>2, SubSeqProperties
  <2>3. pass \in Passes /\ pass.order \in Seq(Requests)
    BY DEF SchedInv, SchedTypeOK, Passes
  <2>4. PICK n, b, o : n = pass.req_index + 1 /\ b = pass.token_budget - new
                         /\ o = Append(pass.order, r)
    BY Zenon
  <2>5. n \in Nat \ {0} /\ b \in Nat /\ o \in Seq(Requests)
    BY <1>3, <1>4, <2>3, <2>4
  <2>6. pass' = [pass EXCEPT !.req_index = n, !.token_budget = b, !.order = o,
                             !.new_block_ids[r] = x]
    BY <1>1, <2>1, <2>4
  <2>7. /\ pass' \in Passes /\ pass'.req_index = n /\ pass'.preempted = pass.preempted
        /\ pass'.order = o /\ pass'.new = pass.new /\ pass'.resumed = pass.resumed
    BY <1>3, <2>2, <2>3, <2>5, <2>6, ZenonT(30) DEF Passes
  <2> QED BY <2>4, <2>7
<1>11. SchedTypeOK'
  BY <1>2, <1>10 DEF SchedInv, SchedTypeOK
<1>12. QueueInv'
  <2>1. stopping = {} /\ stopping' = {} /\ HandledOK'
    BY <1>1, <1>2 DEF stopping, HandledOK
  <2>2. \A q \in Requests : InItsPlace(q)
    BY <2>1 DEF SchedInv, QueueInv
  <2>3. InItsPlace(r)'
    BY <1>2, <1>3, <1>8, <2>2 DEF InItsPlace
  <2>4. ASSUME NEW q \in Requests, q # r PROVE InItsPlace(q)'
    BY <1>2, <1>7, <1>9, <2>2, <2>4 DEF InItsPlace
  <2>5. \A q \in Requests : InItsPlace(q)'
    BY <2>3, <2>4, Zenon
  <2> QED BY <1>2, <2>1, <2>5 DEF SchedInv, QueueInv, line
<1>13. OrderInv'
  <2>1. line' = line
    BY <1>2 DEF line
  <2> QED BY <1>2, <2>1, SameOrder DEF SchedInv
<1>14. TokenInv'
  <2>1. \A q \in Requests : num_tokens(q)' = num_tokens(q)
    BY <1>2 DEF num_tokens
  <2>2. TokenInv
    BY DEF SchedInv
  <2> SUFFICES ASSUME NEW q \in Requests
               PROVE  /\ status[q] # "FINISHED" => num_tokens(q) < MaxModelLen
                      /\ num_computed_tokens[q] + num_scheduled_tokens'[q]
                           <= num_tokens(q) + num_output_placeholders[q]
                      /\ num_computed_tokens[q] + num_scheduled_tokens'[q] <= MaxModelLen - 1
    BY <1>2, <2>1 DEF TokenInv
  <2>3. CASE q = r
    BY <1>4, <1>7, <2>2, <2>3 DEF TokenInv
  <2>4. CASE q # r
    BY <1>7, <2>2, <2>4 DEF TokenInv
  <2> QED BY <2>3, <2>4
<1>15. PassInv'
  <2>1. PassInv /\ pass.order \in Seq(Requests) /\ running \in Seq(Requests)
    BY DEF SchedInv, SchedTypeOK, Passes
  <2>2. Range(pass'.order) = Range(pass.order) \cup {r}
    BY <1>3, <1>10, <2>1, RangeOfAppend
  <2>3. /\ \A q \in Requests : num_scheduled_tokens'[q] > 0 <=> q \in Range(pass'.order)
        /\ Range(pass'.order) \subseteq Range(running)
    <3>1. new > 0
      BY <1>4
    <3> QED BY <1>3, <1>7, <2>1, <2>2, <3>1, Zenon DEF PassInv
  <2>4. IsInjectiveSeq(running)
    BY PartsOfLine, Zenon DEF SchedInv, SchedTypeOK, QueueInv, line
  <2>5. ASSUME NEW i \in DOMAIN running, i >= pass'.req_index
        PROVE  running[i] \notin Range(pass'.order)
    <3>1. i >= pass.req_index /\ i # pass.req_index
      BY <1>3, <1>10, <2>1, <2>5
    <3>2. running[i] \notin Range(pass.order)
      BY <1>1, <2>1, <3>1, Zenon DEF PassInv
    <3>3. running[i] # r
      BY <1>0, <1>3, <2>4, <3>1, Zenon DEF IsInjectiveSeq, current
    <3> QED BY <2>2, <3>2, <3>3, Zenon
  <2> QED BY <1>1, <1>2, <1>10, <2>1, <2>3, <2>5 DEF PassInv
<1> QED BY <1>6, <1>11, <1>12, <1>13, <1>14, <1>15 DEF SchedInv

\* The request at the head of the waiting queue starts from nothing.
LEMMA HeadIsWaiting ==
    ASSUME IInv, SchedInv, pc = "waiting", waiting # <<>>, NEW r, r = Head(waiting)
    PROVE  /\ r \in Requests /\ r \notin Range(running) /\ r \notin Range(pass.order)
           /\ status[r] \in {"WAITING", "PREEMPTED"} /\ req_to_blocks[r] = <<>>
           /\ num_computed_tokens[r] = 0 /\ num_scheduled_tokens[r] = 0
           /\ r \in prev_step_scheduled_req_ids => status[r] = "WAITING"
<1>1. /\ running \in Seq(Requests) /\ waiting \in Seq(Requests)
      /\ IsInjectiveSeq(running \o waiting)
  BY DEF SchedInv, SchedTypeOK, QueueInv, line
<1>2. r \in Requests /\ r \in Range(waiting)
  BY <1>1, StepUp, Zenon
<1>3. r \notin Range(running)
  BY <1>1, <1>2, PartsOfLine, Zenon
<1>4. InItsPlace(r)
  BY <1>2 DEF SchedInv, QueueInv, stopping
<1>5. r \notin Range(pass.order) /\ ~pass.preempted
  BY <1>3 DEF SchedInv, PassInv
<1>6. r \in prev_step_scheduled_req_ids => status[r] # "PREEMPTED"
  BY <1>5 DEF SchedInv, PassInv
<1> QED BY <1>2, <1>3, <1>4, <1>5, <1>6 DEF InItsPlace

LEMMA ScheduleWaitingStep ==
    ASSUME IInv, SchedInv, ScheduleWaiting
    PROVE  KvStep /\ SchedInv'
<1> DEFINE r == Head(waiting)
<1>1. /\ pc = "waiting" /\ more_waiting
      /\ waiting' = Tail(waiting) /\ running' = Append(running, r)
      /\ status' = [status EXCEPT ![r] = "RUNNING"]
      /\ UNCHANGED <<all_token_ids, pc, fixedVars, asyncVars, stepVars, todo, arrived>>
  BY Zenon DEF ScheduleWaiting
<1>2. /\ all_token_ids' = all_token_ids /\ pc' = pc
      /\ num_prompt_tokens' = num_prompt_tokens
      /\ num_output_placeholders' = num_output_placeholders
      /\ finished_req_ids' = finished_req_ids
      /\ prev_step_scheduled_req_ids' = prev_step_scheduled_req_ids
      /\ todo' = todo /\ arrived' = arrived
  BY <1>1 DEF fixedVars, asyncVars, stepVars
<1>3. PICK hit \in new_computed_blocks(r) :
        LET computed == computed_tokens(r, hit)
            new == within_limits(num_tokens(r) - computed)
        IN  /\ can_admit(r, hit)
            /\ allocate_slots(r, computed, hit, new, 0)
            /\ num_computed_tokens' = [num_computed_tokens EXCEPT ![r] = computed]
            /\ num_scheduled_tokens' = [num_scheduled_tokens EXCEPT ![r] = new]
            /\ pass' = [pass EXCEPT
                          !.token_budget = @ - new, !.order = Append(@, r),
                          !.new = IF status[r] = "WAITING" THEN @ \cup {r} ELSE @,
                          !.resumed = IF status[r] = "PREEMPTED" THEN @ \cup {r} ELSE @,
                          !.new_block_ids[r] = req_to_blocks'[r]]
  BY Zenon DEF ScheduleWaiting
<1>0. r = Head(waiting)
  OBVIOUS
<1> HIDE DEF r
<1>4. PICK computed, new :
        /\ computed = computed_tokens(r, hit)
        /\ new = within_limits(num_tokens(r) - computed)
  OBVIOUS
<1>5. /\ allocate_slots(r, computed, hit, new, 0)
      /\ num_computed_tokens' = [num_computed_tokens EXCEPT ![r] = computed]
      /\ num_scheduled_tokens' = [num_scheduled_tokens EXCEPT ![r] = new]
      /\ pass' = [pass EXCEPT
                    !.token_budget = @ - new, !.order = Append(@, r),
                    !.new = IF status[r] = "WAITING" THEN @ \cup {r} ELSE @,
                    !.resumed = IF status[r] = "PREEMPTED" THEN @ \cup {r} ELSE @,
                    !.new_block_ids[r] = req_to_blocks'[r]]
  BY <1>3, <1>4, Zenon
<1>6. /\ waiting # <<>> /\ Len(running) # MaxNumRunningReqs /\ pass.token_budget > 0
  BY <1>1 DEF more_waiting
<1>7. /\ r \in Requests /\ r \notin Range(running) /\ r \notin Range(pass.order)
      /\ status[r] \in {"WAITING", "PREEMPTED"} /\ req_to_blocks[r] = <<>>
      /\ num_computed_tokens[r] = 0 /\ num_scheduled_tokens[r] = 0
      /\ r \in prev_step_scheduled_req_ids => status[r] = "WAITING"
  BY <1>0, <1>1, <1>6, HeadIsWaiting, Zenon
<1>8. /\ running \in Seq(Requests) /\ waiting \in Seq(Requests) /\ pass \in Passes
      /\ IsInjectiveSeq(line) /\ status \in [Requests -> Statuses]
      /\ num_output_placeholders[r] \in Nat /\ pass.token_budget \in Nat \ {0}
      /\ pass.order \in Seq(Requests) /\ pass.new \subseteq Requests
      /\ pass.resumed \subseteq Requests
  BY <1>6, <1>7 DEF SchedInv, SchedTypeOK, QueueInv, Passes
<1>9. /\ num_computed_tokens \in [Requests -> Nat]
      /\ num_scheduled_tokens \in [Requests -> Nat]
      /\ req_to_blocks \in [Requests -> Seq(Blocks)]
      /\ num_tokens(r) \in Nat /\ MaxModelLen \in Nat
  BY <1>7, KvTypes
<1>10. /\ hit \in get_computed_blocks(r) /\ computed = Len(hit) * BlockSize
       /\ computed \in Nat /\ computed < num_tokens(r)
  <2>1. hit \in get_computed_blocks(r)
    BY <1>3, <1>7 DEF new_computed_blocks
  <2>2. hit \in Seq(Blocks) /\ Len(hit) * BlockSize < num_tokens(r)
    BY <1>7, <2>1, HitProperties DEF IInv
  <2>3. Len(hit) * BlockSize \in Nat
    BY <2>2, BlockArithmetic
  <2> QED BY <1>4, <1>7, <2>1, <2>2, <2>3 DEF computed_tokens
<1>11. /\ new \in Nat \ {0} /\ new <= pass.token_budget /\ computed + new <= num_tokens(r)
  <2>1. num_tokens(r) - computed \in Nat /\ num_tokens(r) - computed > 0
    BY <1>9, <1>10
  <2>2. /\ new \in Nat /\ new <= num_tokens(r) - computed
        /\ new <= pass.token_budget /\ new > 0
    BY <1>4, <1>8, <2>1, WithinLimits
  <2> QED BY <1>9, <1>10, <2>2
<1>12. KvStep
  <2>1. new \in 1 .. num_tokens(r) - Len(hit) * BlockSize
    BY <1>9, <1>10, <1>11
  <2>2. AdmitRequest(r)
    BY <1>2, <1>5, <1>7, <1>10, <2>1, Zenon DEF AdmitRequest
  <2> QED BY <1>7, <2>2, Zenon DEF KvStep, LocalNext
<1>13. /\ num_scheduled_tokens'[r] = new /\ num_computed_tokens'[r] = computed
       /\ \A q \in Requests : q # r =>
            /\ num_scheduled_tokens'[q] = num_scheduled_tokens[q]
            /\ num_computed_tokens'[q] = num_computed_tokens[q]
  BY <1>5, <1>7, <1>9, Zenon
<1>14. /\ req_to_blocks' \in [Requests -> Seq(Blocks)] /\ req_to_blocks'[r] # <<>>
  <2>1. num_scheduled_tokens'[r] > 0
    BY <1>11, <1>13
  <2> QED BY <1>7, <1>12, <2>1, ScheduledHasBlocks
<1>15. \A q \in Requests : q # r => req_to_blocks'[q] = req_to_blocks[q]
  <2>1. \E x : req_to_blocks' = [req_to_blocks EXCEPT ![r] = x]
    BY <1>5, Zenon DEF allocate_slots
  <2> QED BY <1>9, <2>1
<1>16. /\ pass' \in Passes /\ pass'.preempted = pass.preempted
       /\ pass'.order = Append(pass.order, r)
       /\ pass'.resumed = IF status[r] = "PREEMPTED" THEN pass.resumed \cup {r}
                          ELSE pass.resumed
  <2>1. PICK b, o, N, R, x :
          /\ b = pass.token_budget - new /\ o = Append(pass.order, r)
          /\ N = (IF status[r] = "WAITING" THEN pass.new \cup {r} ELSE pass.new)
          /\ R = (IF status[r] = "PREEMPTED" THEN pass.resumed \cup {r} ELSE pass.resumed)
          /\ x = req_to_blocks'[r]
    BY Zenon
  <2>2. b \in Nat /\ o \in Seq(Requests)
    BY <1>7, <1>8, <1>11, <2>1
  <2>3. N \in SUBSET Requests /\ R \in SUBSET Requests /\ x \in Seq(Blocks)
    BY <1>7, <1>8, <1>14, <2>1
  <2>4. pass' = [pass EXCEPT !.token_budget = b, !.order = o, !.new = N, !.resumed = R,
                             !.new_block_ids[r] = x]
    BY <1>5, <2>1
  <2>5. /\ pass' \in Passes /\ pass'.preempted = pass.preempted
        /\ pass'.order = o /\ pass'.resumed = R
    BY <1>7, <1>8, <2>2, <2>3, <2>4, ZenonT(30) DEF Passes
  <2> QED BY <2>1, <2>5
<1>17. /\ running' \in Seq(Requests) /\ waiting' \in Seq(Requests) /\ line' = line
       /\ Range(running') = Range(running) \cup {r} /\ Len(running') = Len(running) + 1
       /\ Range(waiting') = Range(waiting) \ {r}
  <2>1. /\ Append(running, Head(waiting)) \in Seq(Requests)
        /\ Len(Append(running, Head(waiting))) = Len(running) + 1
        /\ Tail(waiting) \in Seq(Requests)
        /\ Append(running, Head(waiting)) \o Tail(waiting) = running \o waiting
        /\ Range(Append(running, Head(waiting))) = Range(running) \cup {Head(waiting)}
        /\ Range(waiting) = Range(Tail(waiting)) \cup {Head(waiting)}
        /\ IsInjectiveSeq(waiting) => Head(waiting) \notin Range(Tail(waiting))
    BY <1>6, <1>8, StepUp, Zenon
  <2>2. IsInjectiveSeq(waiting)
    BY <1>8, PartsOfLine, Zenon DEF line
  <2> QED BY <1>0, <1>1, <2>1, <2>2, Zenon DEF line
<1>18. /\ status' \in [Requests -> Statuses] /\ status'[r] = "RUNNING"
       /\ \A q \in Requests : q # r => status'[q] = status[q]
  BY <1>1, <1>7, <1>8 DEF Statuses
<1>19. SchedTypeOK'
  BY <1>2, <1>16, <1>17, <1>18 DEF SchedInv, SchedTypeOK
<1>20. QueueInv'
  <2>1. stopping = {} /\ stopping' = {} /\ HandledOK'
    BY <1>1, <1>2 DEF stopping, HandledOK
  <2>2. \A q \in Requests : InItsPlace(q)
    BY <2>1 DEF SchedInv, QueueInv
  <2>3. ASSUME NEW q \in Requests, q = r PROVE InItsPlace(q)'
    BY <1>14, <1>17, <1>18, <2>3 DEF InItsPlace
  <2>4. ASSUME NEW q \in Requests, q # r PROVE InItsPlace(q)'
    <3>1. /\ q \in Range(running') <=> q \in Range(running)
          /\ q \in Range(waiting') <=> q \in Range(waiting)
      BY <1>17, <2>4, Zenon
    <3> QED BY <1>13, <1>15, <1>18, <2>2, <2>4, <3>1 DEF InItsPlace
  <2>5. \A q \in Requests : InItsPlace(q)'
    BY <2>3, <2>4, Zenon
  <2> QED BY <1>8, <1>17, <2>1, <2>5 DEF QueueInv
<1>21. OrderInv'
  <2>1. \A q \in Requests : status[q] # "ABSENT" => status'[q] # "ABSENT"
    BY <1>18
  <2> QED BY <1>2, <1>17, <2>1, SameOrder DEF SchedInv
<1>22. TokenInv'
  <2>1. \A q \in Requests : num_tokens(q)' = num_tokens(q)
    BY <1>2 DEF num_tokens
  <2>2. TokenInv
    BY DEF SchedInv
  <2> SUFFICES ASSUME NEW q \in Requests
               PROVE  /\ status'[q] # "FINISHED" => num_tokens(q) < MaxModelLen
                      /\ num_computed_tokens'[q] + num_scheduled_tokens'[q]
                           <= num_tokens(q) + num_output_placeholders[q]
                      /\ num_computed_tokens'[q] + num_scheduled_tokens'[q]
                           <= MaxModelLen - 1
    BY <1>2, <2>1 DEF TokenInv
  <2>3. CASE q = r
    <3>1. num_tokens(r) < MaxModelLen
      BY <1>7, <2>2 DEF TokenInv
    <3>2. /\ computed + new <= num_tokens(r) + num_output_placeholders[r]
          /\ computed + new <= MaxModelLen - 1
      BY <1>8, <1>9, <1>10, <1>11, <3>1
    <3> QED BY <1>13, <2>3, <3>1, <3>2
  <2>4. CASE q # r
    BY <1>13, <1>18, <2>2, <2>4 DEF TokenInv
  <2> QED BY <2>3, <2>4
<1>23. PassInv'
  <2>1. PassInv
    BY DEF SchedInv
  <2>2. Range(pass'.order) = Range(pass.order) \cup {r}
    BY <1>7, <1>8, <1>16, RangeOfAppend
  <2>3. /\ \A q \in Requests : num_scheduled_tokens'[q] > 0 <=> q \in Range(pass'.order)
        /\ Range(pass'.order) \subseteq Range(running')
    <3>1. new > 0
      BY <1>11
    <3> QED BY <1>7, <1>13, <1>17, <2>1, <2>2, <3>1, Zenon DEF PassInv
  <2>4. ~pass'.preempted
    BY <1>1, <1>16, <2>1 DEF PassInv
  <2>5. Len(running') <= MaxNumRunningReqs
    <3>1. Len(running) \in Nat /\ Len(running) <= MaxNumRunningReqs
      BY <1>8, <2>1 DEF PassInv
    <3> QED BY <1>6, <1>17, <3>1, SchedulerAssumption
  <2>6. \A q \in prev_step_scheduled_req_ids : status'[q] # "PREEMPTED"
    <3>1. prev_step_scheduled_req_ids \subseteq Requests
      BY DEF SchedInv, SchedTypeOK
    <3>2. \A q \in prev_step_scheduled_req_ids : status[q] # "PREEMPTED"
      BY <1>1, <2>1 DEF PassInv
    <3> QED BY <1>18, <3>1, <3>2
  <2>7. \A q \in pass'.resumed : q \notin prev_step_scheduled_req_ids
    BY <1>7, <1>16, <2>1 DEF PassInv
  <2> QED BY <1>1, <1>2, <2>3, <2>4, <2>5, <2>6, <2>7 DEF PassInv
<1> QED BY <1>12, <1>19, <1>20, <1>21, <1>22, <1>23 DEF SchedInv
-----------------------------------------------------------------------------
(* The end of a pass *)

LEMMA CommitPassStep ==
    ASSUME IInv, SchedInv, CommitPass, pc' \in {"idle", "wait"}
    PROVE  KvStep /\ SchedInv'
<1>1. /\ pc = "commit"
      /\ IF scheduled = {} THEN UNCHANGED kvmVars ELSE CommitSchedule
      /\ num_output_placeholders' = [r \in Requests |->
            num_output_placeholders[r] +
              IF async_scheduling /\ r \in scheduled /\ ~is_prefill_chunk(r) THEN 1 ELSE 0]
      /\ prev_step_scheduled_req_ids' = scheduled /\ finished_req_ids' = {}
      /\ pass' = EmptyPass /\ todo' = todo /\ arrived' = arrived
      /\ status' = status /\ waiting' = waiting /\ running' = running
      /\ num_prompt_tokens' = num_prompt_tokens
  BY DEF CommitPass, queueVars, fixedVars
<1>2. KvStep
  BY <1>1 DEF KvStep, LocalNext
<1>3. /\ num_computed_tokens \in [Requests -> Nat]
      /\ num_scheduled_tokens \in [Requests -> Nat]
      /\ \A r \in Requests : num_tokens(r) \in Nat
      /\ MaxModelLen \in Nat
  BY KvTypes
<1>4. PassInv /\ num_output_placeholders \in [Requests -> Nat] /\ running \in Seq(Requests)
  BY DEF SchedInv, SchedTypeOK
<1>5. /\ req_to_blocks' = req_to_blocks /\ all_token_ids' = all_token_ids
      /\ \A r \in Requests :
           /\ num_computed_tokens'[r] = num_computed_tokens[r] + num_scheduled_tokens[r]
           /\ num_scheduled_tokens'[r] = 0
  <2>1. CASE scheduled = {}
    <3>1. /\ req_to_blocks' = req_to_blocks /\ all_token_ids' = all_token_ids
          /\ num_computed_tokens' = num_computed_tokens
          /\ num_scheduled_tokens' = num_scheduled_tokens
      BY <1>1, <2>1 DEF kvmVars, kvVars, reqVars
    <3>2. \A r \in Requests : ~(num_scheduled_tokens[r] > 0)
      BY <1>4, <2>1, Zenon DEF PassInv, scheduled
    <3>3. \A r \in Requests : num_scheduled_tokens[r] = 0
      BY <1>3, <3>2
    <3> QED BY <1>3, <3>1, <3>3
  <2>2. CASE scheduled # {}
    <3>1. CommitSchedule
      BY <1>1, <2>2
    <3>2. /\ req_to_blocks' = req_to_blocks /\ all_token_ids' = all_token_ids
          /\ num_computed_tokens' = [r \in Requests |->
                num_computed_tokens[r] + num_scheduled_tokens[r]]
          /\ num_scheduled_tokens' = [r \in Requests |-> 0]
      BY <3>1 DEF CommitSchedule, kvVars
    <3> QED BY <3>2, Zenon
  <2> QED BY <2>1, <2>2
<1>6. \A r \in Requests : /\ num_output_placeholders'[r] \in Nat
                          /\ num_output_placeholders'[r] >= num_output_placeholders[r]
  <2> SUFFICES ASSUME NEW r \in Requests
               PROVE  /\ num_output_placeholders'[r] \in Nat
                      /\ num_output_placeholders'[r] >= num_output_placeholders[r]
    OBVIOUS
  <2>1. PICK d \in {0, 1} : num_output_placeholders'[r] = num_output_placeholders[r] + d
    BY <1>1
  <2> QED BY <1>4, <2>1
<1>7. num_output_placeholders' \in [Requests -> Nat]
  <2>1. \E f : num_output_placeholders' = [r \in Requests |-> f[r]]
    <3> DEFINE f == [r \in Requests |-> num_output_placeholders[r] +
              IF async_scheduling /\ r \in scheduled /\ ~is_prefill_chunk(r) THEN 1 ELSE 0]
    <3>1. num_output_placeholders' = f /\ f = [r \in Requests |-> f[r]]
      BY <1>1, Zenon
    <3> QED BY <3>1, Zenon
  <2> QED BY <1>6, <2>1
<1>8. /\ scheduled \subseteq Range(running) /\ Range(running) \subseteq Requests
  BY <1>4, RangeOfSeq, Zenon DEF PassInv, scheduled
<1>9. SchedTypeOK'
  BY <1>1, <1>7, <1>8, EmptyPassType DEF SchedInv, SchedTypeOK, Phases
<1>10. stopping = {} /\ stopping' = {} /\ HandledOK'
  BY <1>1 DEF stopping, HandledOK
<1>11. \A r \in Requests : InItsPlace(r)
  BY <1>10 DEF SchedInv, QueueInv
<1>12. QueueInv'
  <2>1. ASSUME NEW r \in Requests PROVE InItsPlace(r)'
    <3>1. status[r] # "RUNNING"
            => num_computed_tokens'[r] = 0 /\ num_scheduled_tokens'[r] = 0
      BY <1>5, <1>11 DEF InItsPlace
    <3> QED BY <1>1, <1>5, <1>11, <3>1 DEF InItsPlace
  <2>2. line' = line /\ IsInjectiveSeq(line)
    BY <1>1 DEF line, SchedInv, QueueInv
  <2> QED BY <1>10, <2>1, <2>2 DEF QueueInv
<1>13. OrderInv'
  <2>1. line' = line
    BY <1>1 DEF line
  <2> QED BY <1>1, <2>1, SameOrder DEF SchedInv
<1>14. TokenInv'
  <2>1. \A r \in Requests : num_tokens(r)' = num_tokens(r)
    BY <1>5 DEF num_tokens
  <2> SUFFICES ASSUME NEW r \in Requests
               PROVE  /\ status[r] # "FINISHED" => num_tokens(r) < MaxModelLen
                      /\ num_computed_tokens'[r] + num_scheduled_tokens'[r]
                           <= num_tokens(r) + num_output_placeholders'[r]
                      /\ num_computed_tokens'[r] + num_scheduled_tokens'[r]
                           <= MaxModelLen - 1
    BY <1>1, <2>1 DEF TokenInv
  <2>2. /\ status[r] # "FINISHED" => num_tokens(r) < MaxModelLen
        /\ num_computed_tokens[r] + num_scheduled_tokens[r]
             <= num_tokens(r) + num_output_placeholders[r]
        /\ num_computed_tokens[r] + num_scheduled_tokens[r] <= MaxModelLen - 1
    BY DEF SchedInv, TokenInv
  <2>3. num_computed_tokens'[r] + num_scheduled_tokens'[r]
          = num_computed_tokens[r] + num_scheduled_tokens[r]
    BY <1>3, <1>5
  <2> QED BY <1>3, <1>4, <1>6, <2>2, <2>3
<1>15. PassInv'
  <2>1. /\ pass'.order = <<>> /\ pass'.new = {} /\ pass'.resumed = {} /\ ~pass'.preempted
    BY <1>1 DEF EmptyPass
  <2>2. Range(pass'.order) = {}
    BY <2>1 DEF Range
  <2>3. \A r \in Requests : ~(num_scheduled_tokens'[r] > 0)
    BY <1>5
  <2>4. \A r \in scheduled : status[r] = "RUNNING"
    BY <1>8, <1>11, Zenon DEF InItsPlace
  <2> QED BY <1>1, <1>4, <2>1, <2>2, <2>3, <2>4 DEF PassInv
<1> QED BY <1>2, <1>9, <1>12, <1>13, <1>14, <1>15 DEF SchedInv
-----------------------------------------------------------------------------
(* The results of a batch *)

\* The request whose output is handled, and what was sampled for it.
LEMMA HandledTypes ==
    ASSUME SchedInv, todo # <<>>
    PROVE  /\ handled \in Requests /\ new_token_ids \in Samples
           /\ Tail(todo) \in Seq(Requests \X Samples)
<1>1. todo \in Seq(Requests \X Samples)
  BY DEF SchedInv, SchedTypeOK
<1>2. Head(todo) \in Requests \X Samples /\ Tail(todo) \in Seq(Requests \X Samples)
  BY <1>1
<1> QED BY <1>2 DEF handled, new_token_ids

LEMMA AppendOutputStep ==
    ASSUME IInv, SchedInv, AppendOutput
    PROVE  KvStep /\ SchedInv'
<1>0. PICK r, s, stopped :
        /\ r = handled /\ s = all_token_ids[r] \o new_token_ids
        /\ stopped = check_stop(r, s)
  BY Zenon
<1>1. /\ pc = "update" /\ todo # <<>> /\ status[r] # "FINISHED" /\ new_token_ids # <<>>
      /\ async_scheduling => num_output_placeholders[r] > 0
      /\ all_token_ids' = [all_token_ids EXCEPT ![r] = s]
      /\ num_output_placeholders' = [num_output_placeholders EXCEPT
            ![r] = IF async_scheduling THEN @ - 1 ELSE @]
      /\ status' = [status EXCEPT ![r] = IF check_stop(r, s) THEN "FINISHED" ELSE @]
      /\ pc' = IF async_scheduling /\ status[r] = "RUNNING" THEN "cache"
               ELSE IF check_stop(r, s) THEN "free" ELSE "update"
      /\ todo' = IF pc' = "update" THEN Tail(todo) ELSE todo
      /\ UNCHANGED <<kvVars, num_computed_tokens, num_scheduled_tokens, waiting, running,
                     fixedVars, discard_latest_async_tokens, stepVars, pass, arrived>>
  BY <1>0 DEF AppendOutput
<1>2. /\ UNCHANGED kvVars /\ req_to_blocks' = req_to_blocks
      /\ num_computed_tokens' = num_computed_tokens
      /\ num_scheduled_tokens' = num_scheduled_tokens
      /\ waiting' = waiting /\ running' = running /\ pass' = pass /\ arrived' = arrived
      /\ num_prompt_tokens' = num_prompt_tokens
      /\ finished_req_ids' = finished_req_ids
      /\ prev_step_scheduled_req_ids' = prev_step_scheduled_req_ids
  BY <1>1 DEF kvVars, fixedVars, stepVars
<1>3. /\ r \in Requests /\ new_token_ids \in Samples
      /\ Tail(todo) \in Seq(Requests \X Samples)
  BY <1>0, <1>1, HandledTypes
<1>4. PICK t \in Tokens : new_token_ids = <<t>>
  BY <1>1, <1>3 DEF Samples
<1>5. /\ all_token_ids \in [Requests -> Seq(Tokens)] /\ num_tokens(r) \in Nat
      /\ num_computed_tokens \in [Requests -> Nat]
      /\ num_scheduled_tokens \in [Requests -> Nat] /\ MaxModelLen \in Nat
      /\ \A q \in Requests : num_tokens(q) \in Nat
  BY <1>3, KvTypes
<1>6. /\ status \in [Requests -> Statuses] /\ todo \in Seq(Requests \X Samples)
      /\ num_output_placeholders \in [Requests -> Nat]
  BY DEF SchedInv, SchedTypeOK
<1>7. s = Append(all_token_ids[r], t) /\ Len(s) = num_tokens(r) + 1
  BY <1>0, <1>3, <1>4, <1>5 DEF num_tokens
<1>8. KvStep
  <2>1. num_tokens(r) < MaxModelLen
    BY <1>1, <1>3 DEF SchedInv, TokenInv
  <2>2. all_token_ids' = [all_token_ids EXCEPT ![r] = Append(@, t)]
    BY <1>1, <1>7
  <2>3. AppendOutputToken(r)
    BY <1>2, <1>4, <2>1, <2>2, ZenonT(30) DEF AppendOutputToken
  <2> QED BY <1>3, <2>3, Zenon DEF KvStep, LocalNext
<1>9. /\ num_tokens(r)' = num_tokens(r) + 1
      /\ \A q \in Requests : q # r => num_tokens(q)' = num_tokens(q)
  BY <1>1, <1>3, <1>5, <1>7 DEF num_tokens
<1>10. /\ num_output_placeholders' \in [Requests -> Nat]
       /\ num_output_placeholders'[r] >= num_output_placeholders[r] - 1
       /\ \A q \in Requests : q # r => num_output_placeholders'[q] = num_output_placeholders[q]
  <2>1. PICK n : n = IF async_scheduling THEN num_output_placeholders[r] - 1
                     ELSE num_output_placeholders[r]
    OBVIOUS
  <2>2. n \in Nat /\ n >= num_output_placeholders[r] - 1
    BY <1>1, <1>3, <1>6, <2>1
  <2>3. num_output_placeholders' = [num_output_placeholders EXCEPT ![r] = n]
    BY <1>1, <2>1
  <2> QED BY <1>3, <1>6, <2>2, <2>3
<1>11. /\ status' \in [Requests -> Statuses]
       /\ status'[r] = IF check_stop(r, s) THEN "FINISHED" ELSE status[r]
       /\ \A q \in Requests : q # r => status'[q] = status[q]
  <2>1. PICK x : x = IF check_stop(r, s) THEN "FINISHED" ELSE status[r]
    OBVIOUS
  <2>2. x \in Statuses
    BY <1>3, <1>6, <2>1 DEF Statuses
  <2>3. status' = [status EXCEPT ![r] = x]
    BY <1>1, <2>1
  <2> QED BY <1>3, <1>6, <2>1, <2>2, <2>3
<1>12. pc' \in {"cache", "free", "update"} /\ todo' \in Seq(Requests \X Samples)
  BY <1>1, <1>3, <1>6
<1>13. SchedTypeOK'
  BY <1>2, <1>10, <1>11, <1>12 DEF SchedInv, SchedTypeOK, Phases
<1>14. \A q \in Requests : InItsPlace(q)
  BY <1>1 DEF SchedInv, QueueInv, stopping
<1>15. QueueInv'
  <2>1. line' = line /\ IsInjectiveSeq(line)
    BY <1>2 DEF line, SchedInv, QueueInv
  <2>2. ASSUME NEW q \in Requests, q # r PROVE InItsPlace(q)'
    BY <1>2, <1>11, <1>14, <2>2 DEF InItsPlace
  <2>3. CASE pc' = "update"
    <3>1. ~check_stop(r, s)
      BY <1>1, <2>3
    <3>2. InItsPlace(r)'
      BY <1>2, <1>3, <1>11, <1>14, <3>1 DEF InItsPlace
    <3>3. HandledOK' /\ stopping' = {}
      BY <2>3 DEF HandledOK, stopping
    <3>4. \A q \in Requests : InItsPlace(q)'
      BY <2>2, <3>2, Zenon
    <3> QED BY <2>1, <3>3, <3>4 DEF QueueInv
  <2>4. CASE pc' \in {"cache", "free"}
    <3>1. todo' = todo
      BY <1>1, <2>4
    <3>2. handled' = r
      BY <1>0, <3>1 DEF handled
    <3>3. stopping' = {r}
      BY <2>4, <3>2 DEF stopping
    <3>4. HandledOK'
      <4>1. CASE pc' = "cache"
        <5>1. status[r] = "RUNNING"
          BY <1>1, <4>1
        <5>2. r \in Range(running) /\ req_to_blocks[r] # <<>>
          BY <1>3, <1>14, <5>1 DEF InItsPlace
        <5>3. status'[r] \in {"RUNNING", "FINISHED"}
          BY <1>11, <5>1
        <5> QED BY <1>1, <1>2, <3>1, <3>2, <4>1, <5>2, <5>3 DEF HandledOK
      <4>2. CASE pc' = "free"
        <5>1. status'[r] = "FINISHED"
          BY <1>1, <1>11, <4>2
        <5> QED BY <1>1, <3>1, <3>2, <4>2, <5>1 DEF HandledOK
      <4> QED BY <2>4, <4>1, <4>2
    <3>5. \A q \in Requests \ {r} : InItsPlace(q)'
      BY <2>2, Zenon
    <3> QED BY <2>1, <3>3, <3>4, <3>5 DEF QueueInv
  <2> QED BY <1>12, <2>3, <2>4
<1>16. OrderInv'
  <2>1. \A q \in Requests : status[q] # "ABSENT" => status'[q] # "ABSENT"
    BY <1>11
  <2>2. line' = line
    BY <1>2 DEF line
  <2> QED BY <1>2, <2>1, <2>2, SameOrder DEF SchedInv
<1>17. TokenInv'
  <2>1. TokenInv
    BY DEF SchedInv
  <2> SUFFICES ASSUME NEW q \in Requests
               PROVE  /\ status'[q] # "FINISHED" => num_tokens(q)' < MaxModelLen
                      /\ num_computed_tokens[q] + num_scheduled_tokens[q]
                           <= num_tokens(q)' + num_output_placeholders'[q]
                      /\ num_computed_tokens[q] + num_scheduled_tokens[q] <= MaxModelLen - 1
    BY <1>2 DEF TokenInv
  <2>2. CASE q # r
    BY <1>9, <1>10, <1>11, <2>1, <2>2 DEF TokenInv
  <2>3. CASE q = r
    <3>1. status'[r] # "FINISHED" => num_tokens(r) + 1 < MaxModelLen
      <4>1. ASSUME status'[r] # "FINISHED" PROVE ~(Len(s) >= MaxModelLen)
        BY <1>11, <4>1 DEF check_stop
      <4> QED BY <1>5, <1>7, <4>1
    <3>2. /\ num_computed_tokens[r] + num_scheduled_tokens[r]
               <= num_tokens(r) + num_output_placeholders[r]
          /\ num_computed_tokens[r] + num_scheduled_tokens[r] <= MaxModelLen - 1
      BY <1>3, <2>1 DEF TokenInv
    <3>3. /\ num_computed_tokens[r] \in Nat /\ num_scheduled_tokens[r] \in Nat
          /\ num_output_placeholders[r] \in Nat /\ num_output_placeholders'[r] \in Nat
          /\ num_tokens(r) \in Nat
          /\ num_output_placeholders'[r] >= num_output_placeholders[r] - 1
      BY <1>3, <1>5, <1>6, <1>10
    <3>4. num_computed_tokens[r] + num_scheduled_tokens[r]
            <= num_tokens(r) + 1 + num_output_placeholders'[r]
      BY <3>2, <3>3
    <3> QED BY <1>9, <2>3, <3>1, <3>2, <3>4
  <2> QED BY <2>2, <2>3
<1>18. PassInv'
  <2>0. PassInv /\ prev_step_scheduled_req_ids \subseteq Requests
    BY Zenon DEF SchedInv, SchedTypeOK
  <2>1. PassInv /\ pass = EmptyPass /\ prev_step_scheduled_req_ids \subseteq Requests
    BY <1>1, <2>0 DEF PassInv
  <2>2. ~pass.preempted
    BY <2>1 DEF EmptyPass
  <2>3. \A q \in prev_step_scheduled_req_ids : status'[q] # "PREEMPTED"
    <3>1. \A q \in prev_step_scheduled_req_ids : status[q] # "PREEMPTED"
      BY <1>1, <2>1, <2>2 DEF PassInv
    <3> QED BY <1>11, <2>1, <3>1
  <2>4. pc' \notin {"running", "waiting"}
    BY <1>12
  <2> QED BY <1>2, <2>1, <2>2, <2>3, <2>4 DEF PassInv
<1> QED BY <1>8, <1>13, <1>15, <1>16, <1>17, <1>18 DEF SchedInv

\* Less than no token fills no block.
LEMMA NegativeDivision ==
    ASSUME NEW n \in Int, n < 0
    PROVE  n \div BlockSize < 0 /\ n \div BlockSize \in Int
BY BlockSizeAssumption

LEMMA CacheOutputKv ==
    ASSUME IInv, SchedInv, CacheOutput
    PROVE  KvStep
<1>0. PICK r, tokens : /\ r = handled
                       /\ tokens = num_computed_tokens[r] - num_output_placeholders[r]
  OBVIOUS
<1> DEFINE res == cache_blocks(pool, r, req_to_blocks[r], num_cached_block[r], tokens)
<1>1. /\ pc = "cache" /\ pool' = res.pool
      /\ num_cached_block' = [num_cached_block EXCEPT ![r] = res.entry]
      /\ UNCHANGED <<req_to_blocks, reqVars>>
  BY <1>0, Zenon DEF CacheOutput
<1>2. todo # <<>> /\ req_to_blocks[r] # <<>>
  BY <1>0, <1>1 DEF SchedInv, QueueInv, HandledOK
<1>3. r \in Requests
  BY <1>0, <1>2, HandledTypes
<1>4. /\ num_computed_tokens[r] \in Nat /\ num_scheduled_tokens[r] \in Nat
      /\ num_tokens(r) \in Nat
  BY <1>3, KvTypes
<1>5. num_output_placeholders[r] \in Nat
  BY <1>3 DEF SchedInv, SchedTypeOK
<1>6. num_computed_tokens[r] + num_scheduled_tokens[r]
        <= num_tokens(r) + num_output_placeholders[r]
  BY <1>3 DEF SchedInv, TokenInv
<1>7. tokens \in Int /\ tokens <= num_computed_tokens[r] /\ tokens <= num_tokens(r)
  BY <1>0, <1>4, <1>5, <1>6
<1>8. CASE tokens >= 0
  <2>1. tokens \in 0 .. Min2(num_computed_tokens[r], num_tokens(r))
    BY <1>4, <1>7, <1>8 DEF Min2
  <2> HIDE DEF res
  <2>2. \E n \in 0 .. Min2(num_computed_tokens[r], num_tokens(r)) :
          LET out == cache_blocks(pool, r, req_to_blocks[r], num_cached_block[r], n)
          IN  /\ pool' = out.pool
              /\ num_cached_block' = [num_cached_block EXCEPT ![r] = out.entry]
    BY <1>1, <2>1, Zenon DEF res
  <2>3. CacheBlocks(r)
    BY <1>1, <1>2, <2>2, Zenon DEF CacheBlocks
  <2> QED BY <1>3, <2>3, Zenon DEF KvStep, LocalNext
<1>9. CASE tokens < 0
  <2>1. tokens \div BlockSize < 0 /\ tokens \div BlockSize \in Int
    BY <1>7, <1>9, NegativeDivision
  <2>2. num_cached_block \in [Requests -> (Nat \ {0}) \cup {NoEntry}]
    BY DEF IInv, TypeOK
  <2>3. Max2(num_cached_block[r], 0) >= tokens \div BlockSize
    <3>1. num_cached_block[r] \in Int
      BY <1>3, <2>2 DEF NoEntry
    <3> QED BY <2>1, <3>1 DEF Max2
  <2>4. res = [pool |-> pool, entry |-> num_cached_block[r]]
    BY <2>3, Zenon DEF cache_blocks
  <2> HIDE DEF res
  <2>5. pool' = pool /\ num_cached_block' = num_cached_block
    BY <1>1, <2>2, <2>4
  <2> QED BY <1>1, <2>5 DEF KvStep, kvmVars, kvVars
<1> QED BY <1>7, <1>8, <1>9

LEMMA CacheOutputStep ==
    ASSUME IInv, SchedInv, CacheOutput
    PROVE  KvStep /\ SchedInv'
<1>0. PICK r : r = handled
  OBVIOUS
<1>1. /\ pc = "cache" /\ pc' = (IF status[r] = "FINISHED" THEN "free" ELSE "update")
      /\ todo' = (IF pc' = "update" THEN Tail(todo) ELSE todo)
      /\ Idle /\ pass' = pass
      /\ finished_req_ids' = finished_req_ids
      /\ prev_step_scheduled_req_ids' = prev_step_scheduled_req_ids
  BY <1>0 DEF CacheOutput, Idle, queueVars, fixedVars, asyncVars, stepVars
<1>2. /\ status' = status /\ waiting' = waiting /\ running' = running /\ arrived' = arrived
      /\ num_prompt_tokens' = num_prompt_tokens
      /\ num_output_placeholders' = num_output_placeholders
      /\ req_to_blocks' = req_to_blocks /\ all_token_ids' = all_token_ids
      /\ num_computed_tokens' = num_computed_tokens
      /\ num_scheduled_tokens' = num_scheduled_tokens
  BY <1>1 DEF Idle, queueVars, reqVars
<1>3. /\ todo # <<>> /\ r \in Range(running) /\ req_to_blocks[r] # <<>>
      /\ status[r] \in {"RUNNING", "FINISHED"}
      /\ IsInjectiveSeq(running \o waiting) /\ stopping = {r}
  BY <1>0, <1>1 DEF SchedInv, QueueInv, HandledOK, line, stopping
<1>4. /\ r \in Requests /\ Tail(todo) \in Seq(Requests \X Samples)
      /\ todo \in Seq(Requests \X Samples)
      /\ running \in Seq(Requests) /\ waiting \in Seq(Requests)
  BY <1>0, <1>3, HandledTypes DEF SchedInv, SchedTypeOK
<1>5. SchedTypeOK'
  <2>1. pc' \in Phases
    BY <1>1 DEF Phases
  <2>2. todo' \in Seq(Requests \X Samples)
    BY <1>1, <1>4
  <2> QED BY <1>1, <1>2, <2>1, <2>2 DEF SchedInv, SchedTypeOK
<1>6. QueueInv'
  <2>1. \A q \in Requests \ {r} : InItsPlace(q)
    BY <1>3 DEF SchedInv, QueueInv
  <2>2. \A q \in Requests \ {r} : InItsPlace(q)'
    BY <1>2, <2>1 DEF InItsPlace
  <2>3. IsInjectiveSeq(line')
    BY <1>2, <1>3 DEF line
  <2>4. CASE pc' = "update"
    <3>1. status[r] = "RUNNING" /\ r \notin Range(waiting)
      <4>1. r \notin Range(waiting)
        BY <1>3, <1>4, PartsOfLine, Zenon
      <4> QED BY <1>1, <1>3, <2>4, <4>1
    <3>2. InItsPlace(r)'
      BY <1>2, <1>3, <3>1 DEF InItsPlace
    <3>3. stopping' = {} /\ HandledOK'
      BY <2>4 DEF stopping, HandledOK
    <3>4. \A q \in Requests : InItsPlace(q)'
      BY <2>2, <3>2, Zenon
    <3> QED BY <2>3, <3>3, <3>4 DEF QueueInv
  <2>5. CASE pc' = "free"
    <3>1. status[r] = "FINISHED" /\ todo' = todo
      BY <1>1, <1>3, <2>5
    <3>2. handled' = r
      BY <1>0, <3>1 DEF handled
    <3>3. stopping' = {r} /\ HandledOK'
      BY <1>2, <1>3, <2>5, <3>1, <3>2 DEF stopping, HandledOK
    <3> QED BY <2>2, <2>3, <3>3 DEF QueueInv
  <2> QED BY <1>1, <2>4, <2>5
<1>7. OrderInv'
  <2>1. line' = line
    BY <1>2 DEF line
  <2> QED BY <1>2, <2>1, SameOrder DEF SchedInv
<1>8. TokenInv'
  BY <1>2, SameTokens DEF SchedInv
<1>9. PassInv'
  <2>1. PassInv
    BY DEF SchedInv
  <2>2. pc' \in {"free", "update"}
    BY <1>1
  <2> QED BY <1>1, <1>2, <2>1, <2>2 DEF PassInv
<1> QED BY <1>5, <1>6, <1>7, <1>8, <1>9, CacheOutputKv DEF SchedInv
-----------------------------------------------------------------------------
(* Calls from outside *)

\* A request joins the end of a sequence that does not have it.
LEMMA Joined ==
    ASSUME NEW s \in Seq(Requests), NEW r \in Requests, r \notin Range(s)
    PROVE  LET u == Append(s, r)
               n == Len(s) + 1
           IN  /\ IsInjectiveSeq(s) => IsInjectiveSeq(u)
               /\ \A i \in DOMAIN u : i # n => i \in DOMAIN s
               /\ \A i \in DOMAIN s : i \in DOMAIN u /\ u[i] = s[i] /\ i < n
               /\ n \in DOMAIN u /\ u[n] = r
               /\ \A i, j \in DOMAIN u : i < j => i \in DOMAIN s
<1> DEFINE u == Append(s, r)
           n == Len(s) + 1
<1>1. /\ Len(s) \in Nat /\ n \in Nat /\ DOMAIN s = 1 .. Len(s) /\ DOMAIN u = 1 .. n
      /\ u[n] = r /\ \A i \in 1 .. Len(s) : u[i] = s[i]
  OBVIOUS
<1> HIDE DEF u
<1>2. \A i \in DOMAIN u : i # n => i \in DOMAIN s
  BY <1>1
<1>3. \A i \in DOMAIN s : i \in DOMAIN u /\ u[i] = s[i] /\ i < n
  BY <1>1
<1>4. n \in DOMAIN u
  BY <1>1
<1>5. \A i, j \in DOMAIN u : i < j => i \in DOMAIN s
  BY <1>1
<1> HIDE DEF n
<1>6. ASSUME IsInjectiveSeq(s) PROVE IsInjectiveSeq(u)
  <2> SUFFICES ASSUME NEW i \in DOMAIN u, NEW j \in DOMAIN u, u[i] = u[j]
               PROVE  i = j
    BY Zenon DEF IsInjectiveSeq
  <2>1. \A k \in DOMAIN s : s[k] # r
    BY Zenon DEF Range
  <2> QED BY <1>1, <1>2, <1>3, <1>6, <2>1, Zenon DEF IsInjectiveSeq
<1> QED BY <1>1, <1>2, <1>3, <1>4, <1>5, <1>6, Zenon DEF u, n

LEMMA AddRequestStep ==
    ASSUME IInv, SchedInv, NEW r \in Requests, add_request(r), pc = "idle"
    PROVE  KvStep /\ SchedInv'
<1>1. /\ KvStep /\ pc' = pc /\ status[r] = "ABSENT"
      /\ status' = [status EXCEPT ![r] = "WAITING"]
      /\ waiting' = Append(waiting, r) /\ arrived' = Append(arrived, r)
      /\ running' = running /\ num_prompt_tokens' = num_prompt_tokens
      /\ num_output_placeholders' = num_output_placeholders
      /\ finished_req_ids' = finished_req_ids
      /\ prev_step_scheduled_req_ids' = prev_step_scheduled_req_ids
      /\ pass' = pass /\ todo' = todo
  BY DEF add_request, KvStep, fixedVars, asyncVars, stepVars
<1>2. /\ req_to_blocks' = req_to_blocks /\ all_token_ids' = all_token_ids
      /\ num_computed_tokens' = num_computed_tokens
      /\ num_scheduled_tokens' = num_scheduled_tokens
  BY DEF add_request, kvmVars, kvVars, reqVars
<1>3. /\ waiting \in Seq(Requests) /\ running \in Seq(Requests) /\ arrived \in Seq(Requests)
      /\ status \in [Requests -> Statuses]
  BY DEF SchedInv, SchedTypeOK
<1>4. /\ status' \in [Requests -> Statuses] /\ status'[r] = "WAITING"
      /\ \A q \in Requests : q # r => status'[q] = status[q]
  BY <1>1, <1>3 DEF Statuses
<1>5. /\ waiting' \in Seq(Requests) /\ Range(waiting') = Range(waiting) \cup {r}
      /\ arrived' \in Seq(Requests) /\ Range(arrived') = Range(arrived) \cup {r}
  BY <1>1, <1>3, RangeOfAppend
<1>6. r \notin Range(arrived) /\ r \notin Range(line)
  BY <1>1 DEF SchedInv, OrderInv
<1>7. line \in Seq(Requests) /\ line' = Append(line, r)
  BY <1>1, <1>3 DEF line
<1>8. SchedTypeOK'
  BY <1>1, <1>3, <1>4, <1>5 DEF SchedInv, SchedTypeOK
<1>9. QueueInv'
  <2>1. IsInjectiveSeq(line')
    BY <1>6, <1>7, Joined DEF SchedInv, QueueInv
  <2>2. stopping = {} /\ stopping' = {} /\ HandledOK'
    BY <1>1 DEF stopping, HandledOK
  <2>3. \A q \in Requests : InItsPlace(q)
    BY <2>2 DEF SchedInv, QueueInv
  <2>4. ASSUME NEW q \in Requests PROVE InItsPlace(q)'
    <3>1. InItsPlace(q)
      BY <2>3
    <3>2. CASE q = r
      BY <3>1, <3>2, <1>1, <1>2, <1>4, <1>5 DEF InItsPlace
    <3>3. CASE q # r
      BY <3>1, <3>3, <1>1, <1>2, <1>4, <1>5 DEF InItsPlace
    <3> QED BY <3>2, <3>3
  <2> QED BY <2>1, <2>2, <2>4 DEF QueueInv
<1>10. OrderInv'
  <2>1. /\ IsInjectiveSeq(arrived) /\ Range(line) \subseteq Range(arrived)
        /\ \A q \in Range(arrived) : status[q] # "ABSENT"
        /\ \A i, j \in DOMAIN line : i < j => CameBefore(line[i], line[j])
    BY DEF SchedInv, OrderInv
  <2>2. IsInjectiveSeq(arrived')
    BY <2>1, <1>1, <1>3, <1>6, Joined
  <2>3. \A q \in Range(arrived') : status'[q] # "ABSENT"
    <3>1. Range(arrived) \subseteq Requests
      BY <1>3, RangeOfSeq
    <3> QED BY <3>1, <2>1, <1>4, <1>5
  <2>4. Range(line') \subseteq Range(arrived')
    BY <2>1, <1>3, <1>5, <1>7, RangeOfAppend
  <2> DEFINE n == Len(arrived) + 1
             m == Len(line) + 1
  <2>5. /\ \A i \in DOMAIN arrived : i \in DOMAIN arrived' /\ arrived'[i] = arrived[i] /\ i < n
        /\ n \in DOMAIN arrived' /\ arrived'[n] = r
    BY <1>1, <1>3, <1>6, Joined
  <2>6. /\ \A i \in DOMAIN line' : i # m => i \in DOMAIN line
        /\ \A i \in DOMAIN line : line'[i] = line[i]
        /\ line'[m] = r
        /\ \A i, j \in DOMAIN line' : i < j => i \in DOMAIN line
    BY <1>6, <1>7, Joined
  <2> HIDE DEF n, m
  <2>7. ASSUME NEW i \in DOMAIN line', NEW j \in DOMAIN line', i < j
        PROVE  CameBefore(line[i], line[j])'
    <3>1. i \in DOMAIN line /\ line'[i] = line[i]
      BY <2>6, <2>7
    <3>2. CASE j # m
      <4>1. j \in DOMAIN line /\ line'[j] = line[j]
        BY <2>6, <3>2
      <4>2. CameBefore(line[i], line[j])
        BY <2>1, <2>7, <3>1, <4>1
      <4> QED BY <2>5, <3>1, <4>1, <4>2, Zenon DEF CameBefore
    <3>3. CASE j = m
      <4>1. line[i] \in Range(arrived)
        BY <2>1, <3>1 DEF Range
      <4>2. PICK k \in DOMAIN arrived : arrived[k] = line[i]
        BY <4>1 DEF Range
      <4>3. k \in DOMAIN arrived' /\ arrived'[k] = line'[i] /\ k < n
        BY <2>5, <3>1, <4>2
      <4>4. n \in DOMAIN arrived' /\ arrived'[n] = line'[j]
        BY <2>5, <2>6, <3>3
      <4> QED BY <4>3, <4>4, Zenon DEF CameBefore
    <3> QED BY <3>2, <3>3
  <2> QED BY <2>2, <2>3, <2>4, <2>7 DEF OrderInv
<1>11. TokenInv'
  <2>1. \A q \in Requests : status'[q] # "FINISHED" => status[q] # "FINISHED"
    BY <1>1, <1>4
  <2> QED BY <2>1, <1>1, <1>2 DEF SchedInv, TokenInv, num_tokens
<1>12. PassInv'
  <2>1. PassInv /\ prev_step_scheduled_req_ids \subseteq Requests
    BY DEF SchedInv, SchedTypeOK
  <2>2. \A q \in Requests : status'[q] = "PREEMPTED" => status[q] = "PREEMPTED"
    BY <1>1, <1>4
  <2> QED BY <2>1, <2>2, <1>1, <1>2 DEF PassInv
<1> QED BY <1>1, <1>8, <1>9, <1>10, <1>11, <1>12 DEF SchedInv

\* reset_prefix_cache while no request is being scheduled.
LEMMA ResetStepKeeps ==
    ASSUME SchedInv, ResetPrefixCache, pc \notin {"cache", "free"}, pc' = pc,
           UNCHANGED <<queueVars, fixedVars, asyncVars, stepVars, pass, todo, arrived>>
    PROVE  KvStep /\ SchedInv'
<1>1. /\ KvStep /\ Idle /\ todo' = todo /\ pass' = pass
      /\ finished_req_ids' = finished_req_ids
      /\ prev_step_scheduled_req_ids' = prev_step_scheduled_req_ids
  BY DEF ResetPrefixCache, KvStep, LocalNext, Idle, stepVars, fixedVars, asyncVars
<1>2. /\ finished_req_ids \subseteq Requests /\ todo \in Seq(Requests \X Samples)
      /\ pc \in Phases
  BY DEF SchedInv, SchedTypeOK
<1> QED BY <1>1, <1>2, MoveOn

LEMMA EndResetStep ==
    ASSUME SchedInv, EndReset
    PROVE  KvStep /\ SchedInv'
<1>1. /\ KvStep /\ Idle /\ pc = "reset" /\ pc' = "idle" /\ todo' = todo /\ pass' = pass
      /\ finished_req_ids' = finished_req_ids /\ prev_step_scheduled_req_ids' = {}
  BY DEF EndReset, ResetPrefixCache, KvStep, LocalNext, Idle, fixedVars, asyncVars
<1>2. /\ finished_req_ids \subseteq Requests /\ todo \in Seq(Requests \X Samples)
      /\ pass \in Passes
  BY DEF SchedInv, SchedTypeOK
<1>3. /\ num_scheduled_tokens' = num_scheduled_tokens
      /\ status' = status /\ running' = running
  BY <1>1 DEF Idle, queueVars, reqVars
<1>4. PassInv /\ pass = EmptyPass
  BY <1>1 DEF SchedInv, PassInv
<1>5. PassInv'
  BY <1>1, <1>3, <1>4 DEF PassInv
<1> QED BY <1>1, <1>2, <1>5, IdleStep DEF Phases

\* The engine goes on to another phase and leaves the scheduler as it is, but may
\* take up the outputs of a batch.
LEMMA PhaseStep ==
    ASSUME SchedInv, pc \in {"idle", "wait"}, pc' \in Phases \ {"cache", "free"},
           todo' \in Seq(Requests \X Samples),
           UNCHANGED <<kvmVars, queueVars, fixedVars, asyncVars, stepVars, pass, arrived>>
    PROVE  KvStep /\ SchedInv'
<1>1. /\ KvStep /\ Idle /\ pass' = pass
      /\ finished_req_ids' = finished_req_ids
      /\ prev_step_scheduled_req_ids' = prev_step_scheduled_req_ids
  BY DEF KvStep, Idle, kvmVars, kvVars, stepVars, fixedVars, asyncVars
<1>2. finished_req_ids \subseteq Requests
  BY DEF SchedInv, SchedTypeOK
<1> QED BY <1>1, <1>2, MoveOn
-----------------------------------------------------------------------------
(* The initial state, and what the invariant says *)

LEMMA SchedInitInv ==
    ASSUME Init, SchedInit
    PROVE  SchedInv
<1>1. IInv
  BY InitInv
<1> DEFINE e == <<>>
<1>2. /\ pc = "idle" /\ status = [r \in Requests |-> "ABSENT"]
      /\ waiting = e /\ running = e /\ arrived = e /\ todo = e
      /\ num_prompt_tokens = [r \in Requests |-> num_tokens(r)]
      /\ num_output_placeholders = [r \in Requests |-> 0]
      /\ finished_req_ids = {} /\ prev_step_scheduled_req_ids = {} /\ pass = EmptyPass
  BY DEF SchedInit
<1>3. /\ \A r \in Requests : req_to_blocks[r] = <<>> /\ num_computed_tokens[r] = 0
                             /\ num_scheduled_tokens[r] = 0 /\ all_token_ids[r] \in Prompts
  BY DEF Init
<1>4. \A r \in Requests : num_tokens(r) \in Nat
  BY <1>1, KvTypes
<1>5. /\ e \in Seq(Requests) /\ e \in Seq(Requests \X Samples) /\ Range(e) = {}
      /\ e \o e = e /\ DOMAIN e = {} /\ Len(e) = 0
  BY DEF Range
<1> HIDE DEF e
<1>6. EmptyPass \in Passes
  BY EmptyPassType
<1>7. /\ \A r \in Requests : status[r] = "ABSENT" /\ num_output_placeholders[r] = 0
      /\ status \in [Requests -> Statuses]
      /\ num_output_placeholders \in [Requests -> Nat]
      /\ num_prompt_tokens \in [Requests -> Nat]
  BY <1>2, <1>4 DEF Statuses
<1>8. SchedTypeOK
  BY <1>2, <1>5, <1>6, <1>7 DEF SchedTypeOK, Phases
<1>9. line = e
  BY <1>2, <1>5 DEF line
<1>10. QueueInv
  <2>1. stopping = {} /\ HandledOK /\ IsInjectiveSeq(line)
    BY <1>2, <1>5, <1>9 DEF stopping, HandledOK, IsInjectiveSeq
  <2>2. \A r \in Requests : InItsPlace(r)
    BY <1>2, <1>3, <1>5, <1>7 DEF InItsPlace
  <2> QED BY <2>1, <2>2 DEF QueueInv
<1>11. OrderInv
  BY <1>2, <1>5, <1>9 DEF OrderInv, IsInjectiveSeq
<1>12. TokenInv
  <2>1. \A r \in Requests : num_tokens(r) < MaxModelLen
    BY <1>3, CapacityAssumption DEF num_tokens
  <2>2. MaxModelLen \in Nat
    BY <1>1, KvTypes
  <2> QED BY <2>1, <2>2, <1>3, <1>4, <1>7 DEF TokenInv
<1>13. PassInv
  <2>1. /\ EmptyPass.order = <<>> /\ EmptyPass.new = {} /\ EmptyPass.resumed = {}
        /\ ~EmptyPass.preempted
    BY DEF EmptyPass
  <2>2. Range(pass.order) = {}
    BY <1>2, <1>5, <2>1 DEF e
  <2>3. Len(running) <= MaxNumRunningReqs
    BY <1>2, <1>5, SchedulerAssumption
  <2> QED BY <1>2, <1>3, <2>1, <2>2, <2>3 DEF PassInv
<1> QED BY <1>8, <1>10, <1>11, <1>12, <1>13 DEF SchedInv

LEMMA QueuesAgree ==
    ASSUME SchedInv
    PROVE  QueuesAgreeWithStatus
BY DEF SchedInv, QueueInv, QueuesAgreeWithStatus, InItsPlace, line

LEMMA OrderIsKept ==
    ASSUME SchedInv
    PROVE  ArrivalOrderIsKept
<1> DEFINE rank(r) == CHOOSE i \in DOMAIN arrived : arrived[i] = r
<1>1. ASSUME NEW i \in DOMAIN arrived PROVE rank(arrived[i]) = i
  <2>1. rank(arrived[i]) \in DOMAIN arrived /\ arrived[rank(arrived[i])] = arrived[i]
    BY Zenon
  <2> HIDE DEF rank
  <2> QED BY <2>1, Zenon DEF SchedInv, OrderInv, IsInjectiveSeq
<1> HIDE DEF rank
<1>2. ASSUME NEW q, NEW r, CameBefore(q, r) PROVE rank(q) < rank(r)
  <2>1. PICK i \in DOMAIN arrived, j \in DOMAIN arrived : i < j /\ arrived[i] = q /\ arrived[j] = r
    BY <1>2 DEF CameBefore
  <2>2. rank(q) = i /\ rank(r) = j
    BY <1>1, <2>1
  <2> QED BY <2>1, <2>2
<1>3. \A i, j \in DOMAIN line : i < j => rank(line[i]) < rank(line[j])
  BY <1>2 DEF SchedInv, OrderInv
<1> QED BY <1>3, Zenon DEF ArrivalOrderIsKept, rank, line

LEMMA PassConsistent ==
    ASSUME SchedInv
    PROVE  PassIsConsistent
BY DEF SchedInv, PassInv, PassIsConsistent, scheduled

\* A sequence without repetitions is as long as its range is large.
LEMMA InjectiveLength ==
    ASSUME NEW A, NEW s \in Seq(A), IsInjectiveSeq(s)
    PROVE  Len(s) = Cardinality(Range(s))
<1> DEFINE n == Len(s)
           T == Range(s)
<1>1. n \in Nat /\ DOMAIN s = 1 .. n /\ s \in [1 .. n -> A]
  OBVIOUS
<1>2. s \in [1 .. n -> T] /\ \A t \in T : \E i \in 1 .. n : s[i] = t
  BY <1>1 DEF Range
<1> HIDE DEF n, T
<1>3. s \in Surjection(1 .. n, T) /\ s \in Injection(1 .. n, T)
  BY <1>1, <1>2, Zenon DEF Surjection, Injection, IsInjective, IsInjectiveSeq
<1>4. IsFiniteSet(1 .. n) /\ Cardinality(1 .. n) = IF 1 > n THEN 0 ELSE n - 1 + 1
  BY <1>1, FS_Interval
<1>5. Cardinality(T) = Cardinality(1 .. n)
  BY <1>3, <1>4, FS_Surjection, Zenon
<1> QED BY <1>1, <1>4, <1>5 DEF n, T

\* When nobody runs nobody holds a block, so all blocks but the null block are in
\* the free queue.
LEMMA ResetSucceeds ==
    ASSUME IInv, SchedInv
    PROVE  ForcedResetSucceeds
<1> SUFFICES ASSUME pc = "reset", running = <<>>
             PROVE  can_reset_prefix_cache(pool)
  BY DEF ForcedResetSucceeds
<1>1. \A r \in Requests : req_to_blocks[r] = <<>>
  <2>1. stopping = {} /\ Range(running) = {}
    BY DEF stopping, Range
  <2> QED BY <2>1 DEF SchedInv, QueueInv, InItsPlace
<1>2. \A b \in Blocks : Holders(b) = {}
  BY <1>1 DEF Holders, Range
<1>3. \A b \in Blocks \ {NullBlock} : pool.ref_cnt[b] = 0
  <2>1. Cardinality({}) = 0
    BY FS_EmptySet
  <2> QED BY <1>2, <2>1, ZenonT(30) DEF IInv, RefCountsAreHolders
<1>4. /\ pool.free \in Seq(Blocks) /\ IsInjectiveSeq(pool.free)
      /\ Range(pool.free) = Blocks \ {NullBlock}
  <2>1. pool.free \in Seq(Blocks) /\ FreeIsExact(pool)
    BY DEF IInv, TypeOK, IsPool, FreeQueueIsExact
  <2>2. Range(pool.free) \subseteq Blocks
    BY <2>1, RangeOfSeq
  <2> QED BY <2>1, <2>2, <1>3 DEF FreeIsExact
<1>5. Len(pool.free) = Cardinality(Blocks \ {NullBlock})
  BY <1>4, InjectiveLength, ZenonT(30)
<1>6. Cardinality(Blocks \ {NullBlock}) = NumGpuBlocks - 1
  <2>1. NumGpuBlocks \in Nat /\ NumGpuBlocks > 0
    BY NumGpuBlocksAssumption
  <2>2. Blocks \ {NullBlock} = 1 .. NumGpuBlocks - 1
    BY <2>1 DEF Blocks, NullBlock
  <2> DEFINE n == NumGpuBlocks - 1
  <2>3. n \in Nat
    BY <2>1
  <2> HIDE DEF n
  <2>4. Cardinality(1 .. n) = IF 1 > n THEN 0 ELSE n - 1 + 1
    BY <2>3, FS_Interval
  <2>5. Cardinality(1 .. n) = n
    BY <2>3, <2>4
  <2> QED BY <2>2, <2>5, ZenonT(30) DEF n
<1> QED BY <1>5, <1>6, NumGpuBlocksAssumption DEF can_reset_prefix_cache, get_num_free_blocks
-----------------------------------------------------------------------------
(* What the worker is told *)

PartialFunctions(T) == UNION {[S -> T] : S \in SUBSET Requests}

\* SchedulerOutput
Batches ==
    [order : Seq(Requests), new : SUBSET Requests, resumed : SUBSET Requests,
     finished_req_ids : SUBSET Requests,
     num_scheduled_tokens : PartialFunctions(Nat), num_computed_tokens : PartialFunctions(Nat),
     new_block_ids : PartialFunctions(Seq(Blocks)), num_output_tokens : PartialFunctions(Int),
     all_token_ids : PartialFunctions(Seq(Tokens))]

LEMMA OutputType ==
    ASSUME IInv, SchedInv
    PROVE  scheduler_output \in Batches
<1> DEFINE S == scheduled
<1>1. /\ pass.order \in Seq(Requests) /\ pass.new \subseteq Requests
      /\ pass.resumed \subseteq Requests
      /\ pass.new_block_ids \in [Requests -> Seq(Blocks)]
  BY DEF SchedInv, SchedTypeOK, Passes
<1>2. S \in SUBSET Requests
  BY <1>1, RangeOfSeq DEF scheduled
<1> HIDE DEF S
<1>3. /\ num_scheduled_tokens \in [Requests -> Nat] /\ num_computed_tokens \in [Requests -> Nat]
      /\ all_token_ids \in [Requests -> Seq(Tokens)]
      /\ \A r \in Requests : num_tokens(r) \in Nat
  BY KvTypes
<1>4. /\ num_output_placeholders \in [Requests -> Nat] /\ num_prompt_tokens \in [Requests -> Nat]
      /\ finished_req_ids \subseteq Requests
  BY DEF SchedInv, SchedTypeOK
<1>5. [r \in S |-> num_scheduled_tokens[r]] \in PartialFunctions(Nat)
  <2>1. [r \in S |-> num_scheduled_tokens[r]] \in [S -> Nat]
    BY <1>2, <1>3
  <2> QED BY <1>2, <2>1, Zenon DEF PartialFunctions
<1>6. [r \in S |-> num_computed_tokens[r]] \in PartialFunctions(Nat)
  <2>1. [r \in S |-> num_computed_tokens[r]] \in [S -> Nat]
    BY <1>2, <1>3
  <2> QED BY <1>2, <2>1, Zenon DEF PartialFunctions
<1>7. [r \in S |-> pass.new_block_ids[r]] \in PartialFunctions(Seq(Blocks))
  <2>1. [r \in S |-> pass.new_block_ids[r]] \in [S -> Seq(Blocks)]
    BY <1>1, <1>2
  <2> QED BY <1>2, <2>1, Zenon DEF PartialFunctions
<1>8. [r \in S |-> num_output_tokens(r) + num_output_placeholders[r]] \in PartialFunctions(Int)
  <2>1. \A r \in S : num_output_tokens(r) + num_output_placeholders[r] \in Int
    BY <1>2, <1>3, <1>4 DEF num_output_tokens
  <2>2. [r \in S |-> num_output_tokens(r) + num_output_placeholders[r]] \in [S -> Int]
    BY <2>1, Zenon
  <2> QED BY <1>2, <2>2, Zenon DEF PartialFunctions
<1>9. [r \in S |-> IF r \in prev_step_scheduled_req_ids THEN <<>> ELSE all_token_ids[r]]
        \in PartialFunctions(Seq(Tokens))
  <2>1. \A r \in S : (IF r \in prev_step_scheduled_req_ids THEN <<>> ELSE all_token_ids[r])
                       \in Seq(Tokens)
    BY <1>2, <1>3
  <2>2. [r \in S |-> IF r \in prev_step_scheduled_req_ids THEN <<>> ELSE all_token_ids[r]]
          \in [S -> Seq(Tokens)]
    BY <2>1, Zenon
  <2> QED BY <1>2, <2>2, Zenon DEF PartialFunctions
<1> QED BY <1>1, <1>4, <1>5, <1>6, <1>7, <1>8, <1>9, ZenonT(30) DEF S, scheduler_output, Batches
-----------------------------------------------------------------------------
(* The steps of the scheduler together *)

LEMMA SameSched ==
    ASSUME SchedInv, UNCHANGED <<kvmVars, schedVars>>
    PROVE  KvStep /\ SchedInv'
<1>1. /\ status' = status /\ waiting' = waiting /\ running' = running /\ arrived' = arrived
      /\ pc' = pc /\ pass' = pass /\ todo' = todo
      /\ num_prompt_tokens' = num_prompt_tokens
      /\ num_output_placeholders' = num_output_placeholders
      /\ finished_req_ids' = finished_req_ids
      /\ prev_step_scheduled_req_ids' = prev_step_scheduled_req_ids
  BY DEF schedVars, queueVars, fixedVars, asyncVars, stepVars
<1>2. /\ req_to_blocks' = req_to_blocks /\ all_token_ids' = all_token_ids
      /\ num_computed_tokens' = num_computed_tokens
      /\ num_scheduled_tokens' = num_scheduled_tokens
  BY DEF kvmVars, kvVars, reqVars
<1>3. SchedTypeOK'
  BY <1>1 DEF SchedInv, SchedTypeOK
<1>4. QueueInv'
  <2>1. line' = line /\ stopping' = stopping /\ (HandledOK' <=> HandledOK)
    BY <1>1, <1>2, Zenon DEF line, stopping, handled, HandledOK
  <2>2. \A r : InItsPlace(r)' <=> InItsPlace(r)
    BY <1>1, <1>2, Zenon DEF InItsPlace
  <2> QED BY <2>1, <2>2, Zenon DEF SchedInv, QueueInv
<1>5. OrderInv'
  BY <1>1, SameOrder DEF SchedInv, line
<1>6. TokenInv'
  BY <1>1, <1>2, SameTokens DEF SchedInv
<1>7. PassInv'
  BY <1>1, <1>2, Zenon DEF SchedInv, PassInv
<1> QED BY <1>3, <1>4, <1>5, <1>6, <1>7 DEF SchedInv, KvStep

\* schedule(), up to what follows the two loops.
LEMMA PassStep ==
    ASSUME IInv, SchedInv,
           \/ SkipRunning \/ ScheduleRunning \/ PreemptLast \/ EndRunning
           \/ ScheduleWaiting \/ EndWaiting
    PROVE  KvStep /\ SchedInv'
BY SkipRunningStep, ScheduleRunningStep, PreemptLastStep, EndRunningStep,
   ScheduleWaitingStep, EndWaitingStep, Zenon

\* update_from_output
LEMMA UpdateStep ==
    ASSUME IInv, SchedInv,
           \/ SkipOutput \/ DiscardOutput \/ AppendOutput \/ CacheOutput
           \/ FreeStopped \/ EndUpdate
    PROVE  KvStep /\ SchedInv'
BY SkipOutputStep, DiscardOutputStep, AppendOutputStep, CacheOutputStep,
   FreeStoppedStep, EndUpdateStep, Zenon
=============================================================================

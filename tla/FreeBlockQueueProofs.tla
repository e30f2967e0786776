------------------------ MODULE FreeBlockQueueProofs ------------------------
(***************************************************************************)
(* The linked list of free blocks implements a sequence, for every number   *)
(* of blocks.                                                               *)
(***************************************************************************)
EXTENDS FreeBlockQueue, WellFoundedInduction, SequenceTheorems, FiniteSetTheorems, TLAPS

head == fake_free_list_head
tail == fake_free_list_tail

\* The nodes of the list that holds the blocks s, fake ones included.
Node(s, i) == IF i = 0 THEN head ELSE IF i = Len(s) + 1 THEN tail ELSE s[i]

Injective(s) == \A i, j \in DOMAIN s : s[i] = s[j] => i = j

\* The links hold the list s and nothing else.
Linked(s) ==
    /\ s \in Seq(Blocks) /\ Injective(s)
    /\ num_free_blocks = Len(s)
    /\ next_free_block \in [Nodes -> Nodes \cup {None}]
    /\ prev_free_block \in [Nodes -> Nodes \cup {None}]
    /\ next_free_block[tail] = None /\ prev_free_block[head] = None
    /\ \A i \in 0 .. Len(s) : /\ next_free_block[Node(s, i)] = Node(s, i + 1)
                              /\ prev_free_block[Node(s, i + 1)] = Node(s, i)
    /\ \A b \in Blocks : (\A i \in DOMAIN s : s[i] # b)
                           => next_free_block[b] = None /\ prev_free_block[b] = None

OutcomeOK == ret \in Seq(Blocks) /\ raised \in BOOLEAN

IInv == (\E s \in Seq(Blocks) : Linked(s)) /\ OutcomeOK
-----------------------------------------------------------------------------
(* Walking the list *)

\* A nonempty set of natural numbers has a least element. Taking the least place
\* at which a claim fails stands in for induction below.
LEMMA LeastElement ==
    ASSUME NEW S, S \subseteq Nat, S # {}
    PROVE  \E m \in S : \A k \in S : m <= k
<1> DEFINE R == {p \in Nat \X Nat : p[1] < p[2]}
<1>1. IsWellFoundedOn(R, Nat)
  BY NatLessThanWellFounded DEF OpToRel
<1> HIDE DEF R
<1>2. PICK m \in S : \A k \in S : ~(<<k, m>> \in R)
  BY <1>1, WFMin, ZenonT(30)
<1>3. ASSUME NEW k \in S
      PROVE  m <= k
  <2>1. k \in Nat /\ m \in Nat /\ ~(<<k, m>> \in R)
    BY <1>2
  <2>2. <<k, m>> \in Nat \X Nat /\ <<k, m>>[1] = k /\ <<k, m>>[2] = m
    BY <2>1
  <2>3. ~(k < m)
    BY <2>1, <2>2 DEF R
  <2> QED BY <2>1, <2>3
<1> QED BY <1>3

LEMMA NodeTypes ==
    ASSUME NEW s \in Seq(Blocks)
    PROVE  /\ Len(s) \in Nat /\ DOMAIN s = 1 .. Len(s)
           /\ \A i \in 1 .. Len(s) : s[i] \in Blocks /\ Node(s, i) = s[i]
           /\ Node(s, 0) = head /\ Node(s, Len(s) + 1) = tail
           /\ head \in Nodes /\ tail \in Nodes /\ head \notin Blocks /\ tail \notin Blocks
           /\ head # tail /\ Blocks \subseteq Nodes /\ None \notin Nodes
           /\ \A i \in 0 .. Len(s) + 1 : Node(s, i) \in Nodes
BY NumBlocksAssumption
   DEF Node, head, tail, Nodes, Blocks, None, fake_free_list_head, fake_free_list_tail

\* Different places of the list hold different nodes.
LEMMA NodesDiffer ==
    ASSUME NEW s \in Seq(Blocks), Injective(s),
           NEW i \in 0 .. Len(s) + 1, NEW j \in 0 .. Len(s) + 1, Node(s, i) = Node(s, j)
    PROVE  i = j
<1>1. CASE i \in 1 .. Len(s) /\ j \in 1 .. Len(s)
  BY <1>1, NodeTypes DEF Injective
<1>2. CASE ~(i \in 1 .. Len(s) /\ j \in 1 .. Len(s))
  BY <1>2, NodeTypes
<1> QED BY <1>1, <1>2

WalkStep(w) ==
    w = [i \in Nat |-> IF i = 0 THEN fake_free_list_head
                       ELSE IF w[i - 1] = None THEN None
                       ELSE next_free_block[w[i - 1]]]

\* The recursive definition of Walk has a solution when the links hold a list.
LEMMA WalkDefined ==
    ASSUME NEW s \in Seq(Blocks), Linked(s)
    PROVE  WalkStep(Walk)
<1> DEFINE w == [i \in Nat |-> IF i <= Len(s) + 1 THEN Node(s, i) ELSE None]
           v == [i \in Nat |-> IF i = 0 THEN fake_free_list_head
                               ELSE IF w[i - 1] = None THEN None
                               ELSE next_free_block[w[i - 1]]]
<1>1. ASSUME NEW i \in Nat
      PROVE  w[i] = v[i]
  <2>1. CASE i = 0
    BY <2>1, NodeTypes DEF head
  <2>2. CASE i \in 1 .. Len(s) + 1
    <3>1. i - 1 \in 0 .. Len(s) /\ i - 1 \in Nat /\ (i - 1) + 1 = i /\ i # 0
      BY <2>2, NodeTypes
    <3>2. w[i - 1] = Node(s, i - 1) /\ w[i - 1] # None
      BY <3>1, NodeTypes
    <3>3. next_free_block[Node(s, i - 1)] = Node(s, i)
      BY <3>1 DEF Linked
    <3> QED BY <2>2, <3>1, <3>2, <3>3, NodeTypes
  <2>3. CASE i = Len(s) + 2
    <3>1. i - 1 \in Nat /\ w[i - 1] = tail /\ i # 0 /\ w[i] = None
      BY <2>3, NodeTypes
    <3> QED BY <3>1 DEF Linked
  <2>4. CASE i > Len(s) + 2
    BY <2>4, NodeTypes
  <2> QED BY <2>1, <2>2, <2>3, <2>4, NodeTypes
<1>2. w = v
  BY <1>1
<1> HIDE DEF w
<1>3. WalkStep(w)
  BY <1>2 DEF WalkStep
<1>4. Walk = CHOOSE u : WalkStep(u)
  BY DEF Walk, WalkStep
<1> QED BY <1>3, <1>4

LEMMA WalkIsNode ==
    ASSUME NEW s \in Seq(Blocks), Linked(s)
    PROVE  \A i \in 0 .. Len(s) + 1 : Walk[i] = Node(s, i)
<1> DEFINE Wrong == {i \in 0 .. Len(s) + 1 : Walk[i] # Node(s, i)}
<1>0. Len(s) \in Nat
  OBVIOUS
<1>1. /\ Walk[0] = fake_free_list_head
      /\ \A i \in Nat \ {0} : Walk[i] = IF Walk[i - 1] = None THEN None
                                        ELSE next_free_block[Walk[i - 1]]
  BY WalkDefined DEF WalkStep
<1>2. ASSUME NEW n \in Wrong
      PROVE  FALSE
  <2>1. Wrong \in SUBSET Nat
    BY <1>0
  <2>2. PICK m \in Wrong : \A k \in Wrong : m <= k
    <3> HIDE DEF Wrong
    <3> QED BY <2>1, <1>2, LeastElement, ZenonT(30)
  <2>3. m \in 0 .. Len(s) + 1 /\ Walk[m] # Node(s, m)
    OBVIOUS
  <2>4. m # 0
    BY <1>1, <2>3, NodeTypes DEF head
  <2>5. m - 1 \in 0 .. Len(s) /\ m - 1 \notin Wrong /\ m \in Nat \ {0} /\ (m - 1) + 1 = m
    BY <1>0, <2>2, <2>3, <2>4
  <2>6. Walk[m - 1] = Node(s, m - 1) /\ Walk[m - 1] # None
    BY <1>0, <2>5, NodeTypes
  <2>7. next_free_block[Node(s, m - 1)] = Node(s, m)
    BY <2>5 DEF Linked
  <2> QED BY <1>1, <2>3, <2>5, <2>6, <2>7
<1> QED BY <1>2

\* The links determine the sequence they hold.
LEMMA QueueIsUnique ==
    \A s \in Seq(Blocks) : Linked(s) => get_all_free_blocks = s
<1> SUFFICES ASSUME NEW s \in Seq(Blocks), Linked(s)
             PROVE  get_all_free_blocks = s
  OBVIOUS
<1>1. num_free_blocks = Len(s) /\ Len(s) \in Nat
  BY DEF Linked
<1>2. \A i \in 1 .. Len(s) : Walk[i] = s[i]
  BY <1>1, WalkIsNode, NodeTypes
<1> QED BY <1>1, <1>2 DEF get_all_free_blocks
-----------------------------------------------------------------------------
(* Every call maps the list it finds to the list it should leave *)

LEMMA InitLinked ==
    ASSUME Init
    PROVE  Linked([i \in 1 .. NumBlocks |-> i - 1]) /\ OutcomeOK
<1> DEFINE s == [i \in 1 .. NumBlocks |-> i - 1]
<1>1. s \in Seq(Blocks) /\ Len(s) = NumBlocks /\ Injective(s)
  BY NumBlocksAssumption DEF Blocks, Injective
<1>2. \A i \in 0 .. Len(s) : /\ next_free_block[Node(s, i)] = Node(s, i + 1)
                              /\ prev_free_block[Node(s, i + 1)] = Node(s, i)
  <2> SUFFICES ASSUME NEW i \in 0 .. NumBlocks
               PROVE  /\ next_free_block[Node(s, i)] = Node(s, i + 1)
                      /\ prev_free_block[Node(s, i + 1)] = Node(s, i)
    BY <1>1, ZenonT(30)
  <2>1. CASE i = 0
    BY <2>1, <1>1, NumBlocksAssumption
       DEF Init, Node, head, tail, Nodes, fake_free_list_head, fake_free_list_tail
  <2>2. CASE i # 0
    BY <2>2, <1>1, NumBlocksAssumption
       DEF Init, Node, head, tail, Nodes, fake_free_list_head, fake_free_list_tail
  <2> QED BY <2>1, <2>2
<1>3. \A b \in Blocks : b + 1 \in DOMAIN s /\ s[b + 1] = b
  BY NumBlocksAssumption DEF Blocks
<1>4. /\ next_free_block \in [Nodes -> Nodes \cup {None}]
      /\ prev_free_block \in [Nodes -> Nodes \cup {None}]
      /\ next_free_block[tail] = None /\ prev_free_block[head] = None
      /\ num_free_blocks = NumBlocks
  BY NumBlocksAssumption
     DEF Init, Nodes, None, head, tail, fake_free_list_head, fake_free_list_tail
<1>5. OutcomeOK
  <2>1. ret = <<>> /\ raised = FALSE
    BY DEF Init
  <2> QED BY <2>1, EmptySeq, ZenonT(30) DEF OutcomeOK
<1> HIDE DEF s
<1> QED BY <1>1, <1>2, <1>3, <1>4, <1>5, ZenonT(30) DEF Linked, s

\* Removing the block at place k from the middle, as remove and popleft do.
LEMMA UnlinkStep ==
    ASSUME NEW s \in Seq(Blocks), Linked(s), NEW k \in 1 .. Len(s),
           next_free_block' = [next_free_block EXCEPT
              ![Node(s, k - 1)] = Node(s, k + 1), ![Node(s, k)] = None],
           prev_free_block' = [prev_free_block EXCEPT
              ![Node(s, k + 1)] = Node(s, k - 1), ![Node(s, k)] = None],
           num_free_blocks' = num_free_blocks - 1
    PROVE  Linked(SubSeq(s, 1, k - 1) \o SubSeq(s, k + 1, Len(s)))'
<1> DEFINE t == SubSeq(s, 1, k - 1) \o SubSeq(s, k + 1, Len(s))
           old(i) == IF i < k THEN i ELSE i + 1
<1>1. /\ Len(s) \in Nat /\ t \in Seq(Blocks) /\ Len(t) = Len(s) - 1
      /\ \A i \in 1 .. Len(t) : t[i] = s[old(i)]
  <2> DEFINE a == SubSeq(s, 1, k - 1)
             b == SubSeq(s, k + 1, Len(s))
  <2>1. Len(s) \in Nat /\ 1 \in Int /\ k \in Nat /\ k >= 1 /\ k <= Len(s)
    OBVIOUS
  <2>2. a \in Seq(Blocks) /\ Len(a) = k - 1 /\ \A i \in 1 .. k - 1 : a[i] = s[i]
    BY <2>1
  <2>3. b \in Seq(Blocks) /\ Len(b) = Len(s) - k /\ \A i \in 1 .. Len(s) - k : b[i] = s[i + k]
    BY <2>1
  <2> HIDE DEF a, b
  <2>4. /\ a \o b \in Seq(Blocks) /\ Len(a \o b) = Len(a) + Len(b)
        /\ \A i \in 1 .. Len(a) + Len(b) :
             (a \o b)[i] = IF i <= Len(a) THEN a[i] ELSE b[i - Len(a)]
    BY <2>2, <2>3, ConcatProperties, ZenonT(30)
  <2>5. t = a \o b
    BY DEF a, b
  <2>6. \A i \in 1 .. Len(t) : t[i] = s[old(i)]
    <3> HIDE DEF t
    <3> TAKE i \in 1 .. Len(t)
    <3>1. CASE i < k
      BY <3>1, <2>1, <2>2, <2>3, <2>4, <2>5
    <3>2. CASE ~(i < k)
      <4>1. i - Len(a) \in 1 .. Len(s) - k /\ i - Len(a) + k = i + 1
        BY <3>2, <2>1, <2>2, <2>3, <2>4, <2>5, SMTT(30)
      <4> QED BY <4>1, <3>2, <2>1, <2>2, <2>3, <2>4, <2>5, SMTT(30)
    <3> QED BY <3>1, <3>2
  <2> HIDE DEF t
  <2> QED BY <2>1, <2>2, <2>3, <2>4, <2>5, <2>6
<1> HIDE DEF t
<1>2. \A i \in 0 .. Len(t) + 1 : Node(t, i) = Node(s, old(i))
  BY <1>1 DEF Node
<1>3. Injective(t)
  <2>1. DOMAIN t = 1 .. Len(t) /\ DOMAIN s = 1 .. Len(s) /\ Len(s) - 1 \in Nat
    BY <1>1
  <2>2. \A i \in 1 .. Len(t) : old(i) \in 1 .. Len(s)
    BY <1>1
  <2>3. \A i, j \in 1 .. Len(s) : s[i] = s[j] => i = j
    BY <2>1, ZenonT(30) DEF Linked, Injective
  <2>4. \A i, j \in 1 .. Len(t) : old(i) = old(j) => i = j
    BY <1>1
  <2>5. \A i \in 1 .. Len(t) : t[i] = s[old(i)]
    BY <1>1, Zenon
  <2> HIDE DEF old
  <2> SUFFICES ASSUME NEW i \in 1 .. Len(t), NEW j \in 1 .. Len(t), t[i] = t[j]
               PROVE  i = j
    BY <2>1, Zenon DEF Injective
  <2>6. s[old(i)] = s[old(j)]
    BY <2>5, Zenon
  <2>7. old(i) = old(j)
    BY <2>2, <2>3, <2>6, Zenon
  <2> QED BY <2>4, <2>7, Zenon
<1>4. /\ next_free_block' \in [Nodes -> Nodes \cup {None}]
      /\ prev_free_block' \in [Nodes -> Nodes \cup {None}]
      /\ \A x \in Nodes : x # Node(s, k - 1) /\ x # Node(s, k) => next_free_block'[x] = next_free_block[x]
      /\ \A x \in Nodes : x # Node(s, k + 1) /\ x # Node(s, k) => prev_free_block'[x] = prev_free_block[x]
      /\ next_free_block'[Node(s, k)] = None /\ prev_free_block'[Node(s, k)] = None
      /\ Node(s, k - 1) # Node(s, k) => next_free_block'[Node(s, k - 1)] = Node(s, k + 1)
      /\ Node(s, k + 1) # Node(s, k) => prev_free_block'[Node(s, k + 1)] = Node(s, k - 1)
  <2>1. k - 1 \in 0 .. Len(s) + 1 /\ k + 1 \in 0 .. Len(s) + 1 /\ k \in 0 .. Len(s) + 1
    BY <1>1
  <2> QED BY <2>1, NodeTypes, ZenonT(30) DEF Linked
<1>5. \A i \in 0 .. Len(t) : /\ next_free_block'[Node(t, i)] = Node(t, i + 1)
                              /\ prev_free_block'[Node(t, i + 1)] = Node(t, i)
  <2> SUFFICES ASSUME NEW i \in 0 .. Len(t)
               PROVE  /\ next_free_block'[Node(t, i)] = Node(t, i + 1)
                      /\ prev_free_block'[Node(t, i + 1)] = Node(t, i)
    BY ZenonT(30)
  <2>0. /\ \A a, b \in 0 .. Len(s) + 1 : Node(s, a) = Node(s, b) => a = b
        /\ \A a \in 0 .. Len(s) + 1 : Node(s, a) \in Nodes
        /\ \A a \in 0 .. Len(s) : /\ next_free_block[Node(s, a)] = Node(s, a + 1)
                                    /\ prev_free_block[Node(s, a + 1)] = Node(s, a)
    BY NodesDiffer, NodeTypes DEF Linked
  <2>1. CASE i < k - 1
    <3>1. /\ Node(t, i) = Node(s, i) /\ Node(t, i + 1) = Node(s, i + 1)
          /\ i \in 0 .. Len(s) /\ {i, i + 1, k - 1, k, k + 1} \subseteq 0 .. Len(s) + 1
          /\ i # k - 1 /\ i # k /\ i + 1 # k /\ i + 1 # k + 1
      BY <2>1, <1>1, <1>2
    <3> QED BY <3>1, <2>0, <1>4
  <2>2. CASE i = k - 1
    <3>1. /\ Node(t, i) = Node(s, k - 1) /\ Node(t, i + 1) = Node(s, k + 1)
          /\ {k - 1, k, k + 1} \subseteq 0 .. Len(s) + 1 /\ k # k - 1 /\ k # k + 1
      BY <2>2, <1>1, <1>2
    <3> QED BY <3>1, <2>0, <1>4
  <2>3. CASE i > k - 1
    <3>1. /\ Node(t, i) = Node(s, i + 1) /\ Node(t, i + 1) = Node(s, (i + 1) + 1)
          /\ i + 1 \in 0 .. Len(s)
          /\ {i + 1, (i + 1) + 1, k - 1, k, k + 1} \subseteq 0 .. Len(s) + 1
          /\ i + 1 # k - 1 /\ i + 1 # k /\ (i + 1) + 1 # k /\ (i + 1) + 1 # k + 1
      BY <2>3, <1>1, <1>2
    <3> QED BY <3>1, <2>0, <1>4
  <2> QED BY <2>1, <2>2, <2>3, <1>1
<1>6. ASSUME NEW b \in Blocks, \A i \in DOMAIN t : t[i] # b
      PROVE  next_free_block'[b] = None /\ prev_free_block'[b] = None
  <2>0. b \in Nodes /\ head # b /\ tail # b
    BY NodeTypes
  <2>1. CASE b = s[k]
    BY <2>1, <1>4, NodeTypes
  <2>2. CASE b # s[k]
    <3>1. ASSUME NEW j \in 1 .. Len(s), s[j] = b
          PROVE  FALSE
      <4>1. CASE j < k
        BY <4>1, <3>1, <1>1, <1>6, SMTT(30)
      <4>2. CASE j > k
        <5>1. j - 1 \in 1 .. Len(t) /\ old(j - 1) = j
          BY <4>2, <1>1
        <5> HIDE DEF old
        <5>2. t[j - 1] = s[j]
          BY <5>1, <1>1, SMTT(30)
        <5>3. j - 1 \in DOMAIN t
          BY <5>1, <1>1
        <5> QED BY <5>2, <5>3, <3>1, <1>6
      <4> QED BY <4>1, <4>2, <2>2, <3>1, <1>1
    <3>2. \A i \in 0 .. Len(s) + 1 : Node(s, i) # b
      <4>1. \A i \in 0 .. Len(s) + 1 : i = 0 \/ i = Len(s) + 1 \/ i \in 1 .. Len(s)
        BY Len(s) \in Nat
      <4> QED BY <4>1, <3>1, <2>0, NodeTypes
    <3>3. next_free_block[b] = None /\ prev_free_block[b] = None
      BY <3>1 DEF Linked
    <3>4. k - 1 \in 0 .. Len(s) + 1 /\ k + 1 \in 0 .. Len(s) + 1 /\ k \in 0 .. Len(s) + 1
      BY <1>1
    <3> QED BY <3>2, <3>3, <3>4, <2>0, <1>4
  <2> QED BY <2>1, <2>2
<1>7. next_free_block'[tail] = None /\ prev_free_block'[head] = None
  <2>1. /\ Node(s, Len(s) + 1) = tail /\ Node(s, 0) = head /\ tail \in Nodes /\ head \in Nodes
        /\ next_free_block[tail] = None /\ prev_free_block[head] = None
    BY NodeTypes DEF Linked
  <2>2. tail # Node(s, k - 1) /\ tail # Node(s, k) /\ head # Node(s, k) /\ head # Node(s, k + 1)
    <3>1. k - 1 \in 0 .. Len(s) + 1 /\ k + 1 \in 0 .. Len(s) + 1 /\ k \in 0 .. Len(s) + 1
          /\ Len(s) + 1 \in 0 .. Len(s) + 1 /\ 0 \in 0 .. Len(s) + 1
      BY <1>1
    <3>2. Injective(s)
      BY DEF Linked
    <3> QED BY <3>1, <3>2, <2>1, <1>1, NodesDiffer, SMTT(30)
  <2> QED BY <2>1, <2>2, <1>4
<1>8. num_free_blocks' = Len(t)
  BY <1>1 DEF Linked
<1>9. Linked(t)'
  BY <1>1, <1>3, <1>4, <1>5, <1>6, <1>7, <1>8, ZenonT(30) DEF Linked
<1> QED BY <1>9 DEF t

\* After a proper cut there is a first block that is left.
LEMMA CutLeavesOne ==
    ASSUME NEW m \in Nat, NEW n \in Nat, n <= m, n # m
    PROVE  1 \in 1 .. m - n /\ 1 + n = n + 1 /\ n + 1 \in 1 .. m
OBVIOUS

\* Cutting off the first n blocks, as popleft_n does.
LEMMA CutStep ==
    ASSUME NEW s \in Seq(Blocks), Linked(s), NEW n \in 1 .. Len(s),
           next_free_block' = [x \in Nodes |->
              IF x = head THEN Node(s, n + 1)
              ELSE IF x \in {Node(s, i) : i \in 1 .. n} THEN None ELSE next_free_block[x]],
           prev_free_block' = [x \in Nodes |->
              IF x = Node(s, n + 1) THEN head
              ELSE IF x \in {Node(s, i) : i \in 1 .. n} THEN None ELSE prev_free_block[x]],
           num_free_blocks' = num_free_blocks - n
    PROVE  Linked(SubSeq(s, n + 1, Len(s)))'
<1> DEFINE t == SubSeq(s, n + 1, Len(s))
           popped == {Node(s, i) : i \in 1 .. n}
<1>0. Len(s) \in Nat /\ n \in Nat /\ n >= 1 /\ n <= Len(s) /\ DOMAIN s = 1 .. Len(s)
  OBVIOUS
<1>1. t \in Seq(Blocks) /\ Len(t) = Len(s) - n /\ \A i \in 1 .. Len(s) - n : t[i] = s[i + n]
  <2>1. Len(s) \in Nat /\ n \in Nat /\ n <= Len(s)
    BY <1>0
  <2> QED BY <2>1
<1> HIDE DEF t
<1>2. \A i \in 1 .. Len(t) + 1 : Node(t, i) = Node(s, i + n)
  <2> SUFFICES ASSUME NEW i \in 1 .. Len(s) - n + 1
               PROVE  Node(t, i) = Node(s, i + n)
    BY <1>1
  <2>1. CASE i = Len(s) - n + 1
    BY <2>1, <1>0, <1>1, NodeTypes
  <2>2. CASE i # Len(s) - n + 1
    <3>0. Len(t) = Len(s) - n /\ Len(s) \in Nat /\ n \in Nat /\ n >= 1 /\ n <= Len(s)
      BY <1>0, <1>1, Zenon
    <3>1. i \in 1 .. Len(t) /\ i + n \in 1 .. Len(s) /\ i \in 1 .. Len(s) - n
      BY <2>2, <3>0
    <3> QED BY <3>1, <1>1, NodeTypes, ZenonT(30)
  <2> QED BY <2>1, <2>2
<1>3. Node(t, 0) = head
  BY <1>1, NodeTypes
<1>4. Injective(t)
  <2>1. DOMAIN t = 1 .. Len(s) - n
    BY <1>1
  <2>2. \A i \in 1 .. Len(s) - n : i + n \in 1 .. Len(s)
    BY <1>0
  <2>3. \A i, j \in 1 .. Len(s) : s[i] = s[j] => i = j
    BY <1>0, ZenonT(30) DEF Linked, Injective
  <2>4. \A i, j \in 1 .. Len(s) - n : i + n = j + n => i = j
    BY <1>0
  <2> SUFFICES ASSUME NEW i \in 1 .. Len(s) - n, NEW j \in 1 .. Len(s) - n, t[i] = t[j]
               PROVE  i = j
    BY <2>1, Zenon DEF Injective
  <2>5. s[i + n] = s[j + n]
    BY <1>1, Zenon
  <2>6. i + n = j + n
    BY <2>2, <2>3, <2>5, Zenon
  <2> QED BY <2>4, <2>6, Zenon
<1>5. /\ \A a, b \in 0 .. Len(s) + 1 : Node(s, a) = Node(s, b) => a = b
      /\ \A a \in 0 .. Len(s) + 1 : Node(s, a) \in Nodes
      /\ \A a \in 0 .. Len(s) : /\ next_free_block[Node(s, a)] = Node(s, a + 1)
                                  /\ prev_free_block[Node(s, a + 1)] = Node(s, a)
      /\ Node(s, 0) = head /\ Node(s, Len(s) + 1) = tail /\ head \in Nodes /\ tail \in Nodes
      /\ next_free_block \in [Nodes -> Nodes \cup {None}]
      /\ prev_free_block \in [Nodes -> Nodes \cup {None}]
      /\ next_free_block[tail] = None /\ prev_free_block[head] = None
  BY NodesDiffer, NodeTypes DEF Linked
<1>6. /\ next_free_block' \in [Nodes -> Nodes \cup {None}]
      /\ prev_free_block' \in [Nodes -> Nodes \cup {None}]
  <2>1. n + 1 \in 0 .. Len(s) + 1
    BY <1>0
  <2> QED BY <2>1, <1>5
<1>7. \A a \in n + 1 .. Len(s) + 1 : Node(s, a) \notin popped /\ Node(s, a) # head
  <2> SUFFICES ASSUME NEW a \in n + 1 .. Len(s) + 1
               PROVE  Node(s, a) \notin popped /\ Node(s, a) # head
    OBVIOUS
  <2>1. a \in 0 .. Len(s) + 1 /\ 0 \in 0 .. Len(s) + 1 /\ a # 0
        /\ \A i \in 1 .. n : i \in 0 .. Len(s) + 1 /\ i # a
    BY <1>0
  <2> QED BY <2>1, <1>5
<1>8. \A i \in 0 .. Len(t) : /\ next_free_block'[Node(t, i)] = Node(t, i + 1)
                              /\ prev_free_block'[Node(t, i + 1)] = Node(t, i)
  <2> SUFFICES ASSUME NEW i \in 0 .. Len(s) - n
               PROVE  /\ next_free_block'[Node(t, i)] = Node(t, i + 1)
                      /\ prev_free_block'[Node(t, i + 1)] = Node(t, i)
    BY <1>1, ZenonT(30)
  <2>0. Node(t, i + 1) = Node(s, (i + n) + 1) /\ (i + n) + 1 \in n + 1 .. Len(s) + 1
        /\ i + n \in 0 .. Len(s) /\ (i + n) + 1 \in 0 .. Len(s) + 1 /\ n + 1 \in 0 .. Len(s) + 1
    <3>1. i + 1 \in 1 .. Len(t) + 1 /\ (i + 1) + n = (i + n) + 1
      BY <1>0, <1>1
    <3> QED BY <3>1, <1>0, <1>1, <1>2
  <2>1. CASE i = 0
    BY <2>1, <2>0, <1>0, <1>3, <1>5
  <2>2. CASE i # 0
    <3>1. Node(t, i) = Node(s, i + n) /\ i + n \in n + 1 .. Len(s) + 1
          /\ (i + n) + 1 # n + 1
      BY <2>2, <1>0, <1>1, <1>2
    <3>2. Node(s, (i + n) + 1) # Node(s, n + 1)
      BY <3>1, <2>0, <1>5
    <3> QED BY <3>1, <3>2, <2>0, <1>5, <1>7
  <2> QED BY <2>1, <2>2
<1>9. next_free_block'[tail] = None /\ prev_free_block'[head] = None
  <2>1. Node(s, Len(s) + 1) = tail /\ Len(s) + 1 \in n + 1 .. Len(s) + 1
    BY <1>0, <1>5
  <2>2. tail \notin popped /\ tail # head
    BY <2>1, <1>7
  <2>3. head # Node(s, n + 1)
    BY <1>0, <1>7
  <2> QED BY <2>2, <2>3, <1>5
<1>10. ASSUME NEW b \in Blocks, \A i \in DOMAIN t : t[i] # b
       PROVE  next_free_block'[b] = None /\ prev_free_block'[b] = None
  <2>0. b \in Nodes /\ b # head /\ b # tail
    BY NodeTypes
  <2>1. b # Node(s, n + 1)
    <3>1. CASE n = Len(s)
      BY <3>1, <2>0, <1>5
    <3>2. CASE n # Len(s)
      <4>0. DOMAIN t = 1 .. Len(s) - n
        BY <1>1
      <4>1. 1 \in DOMAIN t /\ 1 \in 1 .. Len(s) - n /\ 1 + n = n + 1 /\ n + 1 \in 1 .. Len(s)
        BY <3>2, <1>0, <4>0, CutLeavesOne, Zenon
      <4> QED BY <4>1, <1>1, <1>10, NodeTypes, ZenonT(30)
    <3> QED BY <3>1, <3>2
  <2>2. CASE b \in popped
    BY <2>0, <2>1, <2>2
  <2>3. CASE b \notin popped
    <3>1. ASSUME NEW j \in 1 .. Len(s), s[j] = b
          PROVE  FALSE
      <4>1. CASE j <= n
        <5>1. j \in 1 .. n /\ Node(s, j) = b
          BY <4>1, <3>1, <1>0, NodeTypes
        <5> QED BY <5>1, <2>3
      <4>2. CASE j > n
        <5>1. j - n \in 1 .. Len(s) - n /\ (j - n) + n = j /\ j - n \in DOMAIN t
          BY <4>2, <1>0, <1>1
        <5> QED BY <5>1, <3>1, <1>1, <1>10
      <4> QED BY <4>1, <4>2, <1>0
    <3>2. next_free_block[b] = None /\ prev_free_block[b] = None
      BY <3>1, <1>0 DEF Linked
    <3> QED BY <2>0, <2>1, <2>3, <3>2
  <2> QED BY <2>2, <2>3
<1>11. num_free_blocks' = Len(t)
  BY <1>0, <1>1 DEF Linked
<1>12. Linked(t)'
  BY <1>1, <1>4, <1>6, <1>8, <1>9, <1>10, <1>11, ZenonT(30) DEF Linked
<1> QED BY <1>12 DEF t

\* Hanging the nodes of blocks between the last block and the tail, as append
\* and append_n do.
LEMMA ExtendStep ==
    ASSUME NEW s \in Seq(Blocks), Linked(s), NEW new \in Seq(Blocks), Injective(new),
           new # <<>>,
           \A i \in DOMAIN new : \A j \in DOMAIN s : new[i] # s[j],
           next_free_block' \in [Nodes -> Nodes \cup {None}],
           prev_free_block' \in [Nodes -> Nodes \cup {None}],
           \A i \in Len(s) .. Len(s \o new) : /\ next_free_block'[Node(s \o new, i)] = Node(s \o new, i + 1)
                                  /\ prev_free_block'[Node(s \o new, i + 1)] = Node(s \o new, i),
           \A x \in Nodes : (\A i \in Len(s) .. Len(s \o new) : x # Node(s \o new, i))
                              => next_free_block'[x] = next_free_block[x],
           \A x \in Nodes : (\A i \in Len(s) .. Len(s \o new) : x # Node(s \o new, i + 1))
                              => prev_free_block'[x] = prev_free_block[x],
           num_free_blocks' = num_free_blocks + Len(new)
    PROVE  Linked(s \o new)'
<1> DEFINE t == s \o new
<1>0. Len(s) \in Nat /\ Len(new) \in Nat /\ Len(new) > 0 /\ DOMAIN s = 1 .. Len(s)
      /\ DOMAIN new = 1 .. Len(new)
  OBVIOUS
<1>1. /\ t \in Seq(Blocks) /\ Len(t) = Len(s) + Len(new)
      /\ \A i \in 1 .. Len(s) : t[i] = s[i]
      /\ \A i \in 1 .. Len(new) : t[i + Len(s)] = new[i]
  <2>1. /\ t \in Seq(Blocks) /\ Len(t) = Len(s) + Len(new)
        /\ \A i \in 1 .. Len(s) + Len(new) :
             t[i] = IF i <= Len(s) THEN s[i] ELSE new[i - Len(s)]
    BY ConcatProperties
  <2> HIDE DEF t
  <2>2. ASSUME NEW i \in 1 .. Len(new)
        PROVE  t[i + Len(s)] = new[i]
    <3>1. i + Len(s) \in 1 .. Len(s) + Len(new) /\ ~(i + Len(s) <= Len(s))
          /\ (i + Len(s)) - Len(s) = i
      BY <1>0
    <3> QED BY <3>1, <2>1
  <2> QED BY <2>1, <2>2, <1>0
<1> HIDE DEF t
<1>2. \A i \in 1 .. Len(t) : i \in 1 .. Len(s) \/ (i - Len(s) \in 1 .. Len(new) /\ i = (i - Len(s)) + Len(s))
  BY <1>0, <1>1
<1>3. Injective(t)
  <2> SUFFICES ASSUME NEW i \in 1 .. Len(t), NEW j \in 1 .. Len(t), t[i] = t[j]
               PROVE  i = j
    BY <1>1 DEF Injective
  <2>0. /\ \A a, b \in 1 .. Len(s) : s[a] = s[b] => a = b
        /\ \A a, b \in 1 .. Len(new) : new[a] = new[b] => a = b
        /\ \A a \in 1 .. Len(new) : \A b \in 1 .. Len(s) : new[a] # s[b]
    BY <1>0, ZenonT(30) DEF Linked, Injective
  <2>1. CASE i \in 1 .. Len(s) /\ j \in 1 .. Len(s)
    BY <2>0, <2>1, <1>1
  <2>2. CASE i \in 1 .. Len(s) /\ j - Len(s) \in 1 .. Len(new) /\ j = (j - Len(s)) + Len(s)
    <3>1. t[j] = new[j - Len(s)] /\ t[i] = s[i]
      BY <2>2, <1>1
    <3> QED BY <3>1, <2>0, <2>2
  <2>3. CASE j \in 1 .. Len(s) /\ i - Len(s) \in 1 .. Len(new) /\ i = (i - Len(s)) + Len(s)
    <3>1. t[i] = new[i - Len(s)] /\ t[j] = s[j]
      BY <2>3, <1>1, ZenonT(30)
    <3>2. new[i - Len(s)] # s[j]
      BY <2>0, <2>3
    <3> QED BY <3>1, <3>2, ZenonT(30)
  <2>4. CASE /\ i - Len(s) \in 1 .. Len(new) /\ i = (i - Len(s)) + Len(s)
             /\ j - Len(s) \in 1 .. Len(new) /\ j = (j - Len(s)) + Len(s)
    <3>1. t[i] = new[i - Len(s)] /\ t[j] = new[j - Len(s)]
      BY <2>4, <1>1, ZenonT(30)
    <3>2. i - Len(s) = j - Len(s)
      BY <3>1, <2>0, <2>4, ZenonT(30)
    <3> QED BY <3>2, <2>4
  <2> QED BY <2>1, <2>2, <2>3, <2>4, <1>2, SMTT(30)
<1>4. /\ \A a, b \in 0 .. Len(t) + 1 : Node(t, a) = Node(t, b) => a = b
      /\ \A a \in 0 .. Len(t) + 1 : Node(t, a) \in Nodes
      /\ Node(t, 0) = head /\ Node(t, Len(t) + 1) = tail /\ head \in Nodes /\ tail \in Nodes
      /\ next_free_block[tail] = None /\ prev_free_block[head] = None
  BY <1>1, <1>3, NodesDiffer, NodeTypes, ZenonT(30) DEF Linked
<1>5. \A i \in 0 .. Len(s) : Node(t, i) = Node(s, i)
  <2> SUFFICES ASSUME NEW i \in 0 .. Len(s)
               PROVE  Node(t, i) = Node(s, i)
    OBVIOUS
  <2>1. CASE i = 0
    BY <2>1, <1>1, NodeTypes
  <2>2. CASE i # 0
    <3>1. i \in 1 .. Len(s) /\ i \in 1 .. Len(t)
      BY <2>2, <1>0, <1>1
    <3>2. Node(s, i) = s[i] /\ Node(t, i) = t[i] /\ t[i] = s[i]
      BY <3>1, <1>1, NodeTypes
    <3> QED BY <3>2
  <2> QED BY <2>1, <2>2
<1>6. /\ \A i \in Len(s) .. Len(t) : /\ next_free_block'[Node(t, i)] = Node(t, i + 1)
                                       /\ prev_free_block'[Node(t, i + 1)] = Node(t, i)
      /\ \A x \in Nodes : (\A i \in Len(s) .. Len(t) : x # Node(t, i))
                           => next_free_block'[x] = next_free_block[x]
      /\ \A x \in Nodes : (\A i \in Len(s) .. Len(t) : x # Node(t, i + 1))
                           => prev_free_block'[x] = prev_free_block[x]
  BY DEF t
<1>7. \A i \in 0 .. Len(t) : /\ next_free_block'[Node(t, i)] = Node(t, i + 1)
                              /\ prev_free_block'[Node(t, i + 1)] = Node(t, i)
  <2> SUFFICES ASSUME NEW i \in 0 .. Len(s) + Len(new)
               PROVE  /\ next_free_block'[Node(t, i)] = Node(t, i + 1)
                      /\ prev_free_block'[Node(t, i + 1)] = Node(t, i)
    BY <1>1
  <2>1. CASE i >= Len(s)
    BY <2>1, <1>0, <1>1, <1>6
  <2>2. CASE i < Len(s)
    <3>1. /\ i \in 0 .. Len(s) /\ i + 1 \in 0 .. Len(s)
          /\ i \in 0 .. Len(t) + 1 /\ i + 1 \in 0 .. Len(t) + 1
          /\ \A j \in Len(s) .. Len(t) : /\ j \in 0 .. Len(t) + 1 /\ j + 1 \in 0 .. Len(t) + 1
                                         /\ j # i /\ j + 1 # i + 1
      BY <2>2, <1>0, <1>1
    <3>2. \A j \in Len(s) .. Len(t) : Node(t, i) # Node(t, j) /\ Node(t, i + 1) # Node(t, j + 1)
      BY <3>1, <1>4
    <3>3. /\ next_free_block'[Node(t, i)] = next_free_block[Node(t, i)]
          /\ prev_free_block'[Node(t, i + 1)] = prev_free_block[Node(t, i + 1)]
      BY <3>1, <3>2, <1>4, <1>6
    <3>4. /\ next_free_block[Node(s, i)] = Node(s, i + 1)
          /\ prev_free_block[Node(s, i + 1)] = Node(s, i)
      BY <3>1 DEF Linked
    <3> QED BY <3>1, <3>3, <3>4, <1>5
  <2> QED BY <2>1, <2>2, <1>0
<1>8. next_free_block'[tail] = None /\ prev_free_block'[head] = None
  <2>1. \A j \in Len(s) .. Len(t) : /\ j \in 0 .. Len(t) + 1 /\ j + 1 \in 0 .. Len(t) + 1
                                    /\ j # Len(t) + 1 /\ j + 1 # 0
    BY <1>0, <1>1
  <2>2. Len(t) + 1 \in 0 .. Len(t) + 1 /\ 0 \in 0 .. Len(t) + 1
    BY <1>0, <1>1
  <2>3. \A j \in Len(s) .. Len(t) : tail # Node(t, j) /\ head # Node(t, j + 1)
    BY <2>1, <2>2, <1>4
  <2> QED BY <2>3, <1>4, <1>6
<1>9. ASSUME NEW b \in Blocks, \A i \in DOMAIN t : t[i] # b
      PROVE  next_free_block'[b] = None /\ prev_free_block'[b] = None
  <2>0. b \in Nodes /\ b # head /\ b # tail
    BY NodeTypes
  <2>1. \A i \in 0 .. Len(t) + 1 : Node(t, i) # b
    <3>1. \A i \in 0 .. Len(t) + 1 : i = 0 \/ i = Len(t) + 1 \/ i \in 1 .. Len(t)
      <4>1. Len(t) \in Nat
        BY <1>0, <1>1
      <4> QED BY <4>1
    <3>2. \A i \in 1 .. Len(t) : Node(t, i) = t[i] /\ i \in DOMAIN t
      BY <1>1, NodeTypes
    <3> QED BY <3>1, <3>2, <2>0, <1>4, <1>9, SMTT(30)
  <2>2. \A j \in Len(s) .. Len(t) : j \in 0 .. Len(t) + 1 /\ j + 1 \in 0 .. Len(t) + 1
    BY <1>0, <1>1
  <2>3. next_free_block'[b] = next_free_block[b] /\ prev_free_block'[b] = prev_free_block[b]
    BY <2>0, <2>1, <2>2, <1>6
  <2>4. \A j \in DOMAIN s : s[j] # b
    <3>1. \A j \in 1 .. Len(s) : j \in DOMAIN t /\ t[j] = s[j]
      BY <1>0, <1>1
    <3> QED BY <3>1, <1>0, <1>9
  <2> QED BY <2>3, <2>4 DEF Linked
<1>10. num_free_blocks' = Len(t)
  BY <1>0, <1>1 DEF Linked
<1>11. Linked(t)'
  BY <1>1, <1>3, <1>7, <1>8, <1>9, <1>10 DEF Linked
<1> QED BY <1>11 DEF t
-----------------------------------------------------------------------------
(* The invariant and the refinement *)

\* QueueIsUnique in the state after a step.
LEMMA QueueIsUniqueNext ==
    (\A s \in Seq(Blocks) : Linked(s) => get_all_free_blocks = s)'
BY QueueIsUnique, PTL

LEMMA RaiseStep ==
    ASSUME NEW s \in Seq(Blocks), Linked(s), Raise
    PROVE  Linked(s)' /\ OutcomeOK' /\ Queue!Raise
<1>1. Linked(s)'
  BY DEF Linked, Raise, links
<1>2. get_all_free_blocks = s /\ get_all_free_blocks' = s
  BY <1>1, QueueIsUnique, QueueIsUniqueNext
<1>3. ret' = <<>> /\ raised' = TRUE
  BY DEF Raise
<1>4. OutcomeOK'
  BY <1>3, EmptySeq DEF OutcomeOK
<1> QED BY <1>1, <1>2, <1>3, <1>4 DEF Queue!Raise

LEMMA PopStep ==
    ASSUME NEW s \in Seq(Blocks), Linked(s), popleft
    PROVE  \E t \in Seq(Blocks) : Linked(t)' /\ OutcomeOK' /\ Queue!Pop
<1>0. /\ Len(s) \in Nat /\ Node(s, 0) = head /\ get_all_free_blocks = s
      /\ next_free_block[head] = Node(s, 1)
      /\ head # tail /\ None \notin Nodes
  <2>1. Len(s) \in Nat /\ Node(s, 0) = head /\ head # tail /\ None \notin Nodes
    BY NodeTypes
  <2>2. 0 \in 0 .. Len(s) /\ 0 + 1 = 1
    BY <2>1
  <2>3. next_free_block[Node(s, 0)] = Node(s, 0 + 1)
    BY <2>2 DEF Linked
  <2> QED BY <2>1, <2>2, <2>3, QueueIsUnique
<1>1. CASE s = <<>>
  <2>1. Node(s, 1) = tail
    <3>1. Len(s) = 0
      BY <1>1
    <3> QED BY <3>1 DEF Node
  <2>2. cannot_pop /\ Raise
    BY <1>0, <2>1 DEF popleft, cannot_pop, head, tail
  <2> QED BY <2>2, <1>0, <1>1, RaiseStep, ZenonT(30) DEF Queue!Pop
<1>2. CASE s # <<>>
  <2>1. Len(s) >= 1 /\ 1 \in 1 .. Len(s) /\ 1 \in 0 .. Len(s) /\ 1 + 1 = 2 /\ 1 - 1 = 0
        /\ 2 \in 0 .. Len(s) + 1
    BY <1>2
  <2>2. /\ Node(s, 1) = s[1] /\ s[1] \in Blocks /\ s[1] # tail /\ s[1] # None
        /\ next_free_block[s[1]] = Node(s, 2) /\ Node(s, 2) # None
    BY <2>1, NodeTypes DEF Linked
  <2>3. ~cannot_pop
    BY <1>0, <2>2 DEF cannot_pop, head, tail
  <2>4. /\ next_free_block' = [next_free_block EXCEPT ![head] = Node(s, 2), ![s[1]] = None]
        /\ prev_free_block' = [prev_free_block EXCEPT ![Node(s, 2)] = head, ![s[1]] = None]
        /\ num_free_blocks' = num_free_blocks - 1
        /\ Return(<<s[1]>>)
    BY <1>0, <2>2, <2>3 DEF popleft, head, tail
  <2> DEFINE t == SubSeq(s, 1, 0) \o SubSeq(s, 2, Len(s))
  <2>5. Linked(t)'
    BY <2>1, <2>2, <2>4, <1>0, UnlinkStep, ZenonT(30)
  <2>6. t \in Seq(Blocks) /\ t = Tail(s) /\ Head(s) = s[1]
    BY <1>2, <2>1
  <2> HIDE DEF t
  <2>7. get_all_free_blocks' = t
    BY <2>5, <2>6, QueueIsUniqueNext, ZenonT(30)
  <2>8. OutcomeOK'
    <3>1. <<s[1]>> \in Seq(Blocks)
      BY <2>2
    <3> QED BY <2>4, <3>1, ZenonT(30) DEF OutcomeOK, Return
  <2> QED BY <1>0, <1>2, <2>4, <2>5, <2>6, <2>7, <2>8, ZenonT(30) DEF Queue!Pop, Queue!Return, Return
<1> QED BY <1>1, <1>2

LEMMA PopNStep ==
    ASSUME NEW s \in Seq(Blocks), Linked(s), NEW n \in 0 .. NumBlocks + 1, popleft_n(n)
    PROVE  \E t \in Seq(Blocks) : Linked(t)' /\ OutcomeOK' /\ Queue!PopN(n)
<1>0. /\ Len(s) \in Nat /\ n \in Nat /\ Node(s, 0) = head /\ get_all_free_blocks = s
      /\ num_free_blocks = Len(s)
  BY NumBlocksAssumption, NodeTypes, QueueIsUnique, SMTT(30) DEF Linked
<1>1. CASE n > Len(s)
  <2>1. Raise
    BY <1>0, <1>1 DEF popleft_n
  <2> QED BY <2>1, <1>0, <1>1, RaiseStep DEF Queue!PopN
<1>2. CASE n = 0
  <2>1. Return(<<>>) /\ UNCHANGED <<links, num_free_blocks>>
    BY <1>0, <1>2 DEF popleft_n
  <2>2. Linked(s)'
    BY <2>1 DEF Linked, links
  <2>3. OutcomeOK'
    BY <2>1, EmptySeq, ZenonT(30) DEF OutcomeOK, Return
  <2>4. get_all_free_blocks' = s
    BY <2>2, QueueIsUniqueNext
  <2>5. SubSeq(s, n + 1, Len(s)) = s /\ SubSeq(s, 1, n) = <<>> /\ n <= Len(s)
    BY <1>0, <1>2
  <2> QED BY <1>0, <2>1, <2>2, <2>3, <2>4, <2>5 DEF Queue!PopN, Queue!Return, Return
<1>3. CASE n \in 1 .. Len(s)
  <2>0. n + 1 \in 0 .. Len(s) + 1 /\ \A i \in 1 .. n : i \in 0 .. Len(s) + 1 /\ i \in 1 .. Len(s)
    BY <1>0, <1>3
  <2>1. /\ Walk[n + 1] = Node(s, n + 1)
        /\ \A i \in 1 .. n : Walk[i] = Node(s, i)
    BY <2>0, WalkIsNode
  <2>2. {Walk[i] : i \in 1 .. n} = {Node(s, i) : i \in 1 .. n}
    BY <2>1
  <2>3. /\ next_free_block' = [x \in Nodes |->
              IF x = head THEN Node(s, n + 1)
              ELSE IF x \in {Node(s, i) : i \in 1 .. n} THEN None ELSE next_free_block[x]]
        /\ prev_free_block' = [x \in Nodes |->
              IF x = Node(s, n + 1) THEN head
              ELSE IF x \in {Node(s, i) : i \in 1 .. n} THEN None ELSE prev_free_block[x]]
        /\ num_free_blocks' = num_free_blocks - n
        /\ Return([i \in 1 .. n |-> Walk[i]])
    BY <1>0, <1>3, <2>1, <2>2 DEF popleft_n, head, tail
  <2> DEFINE t == SubSeq(s, n + 1, Len(s))
  <2>4. Linked(t)'
    BY <1>3, <2>3, CutStep
  <2>5. t \in Seq(Blocks)
    BY <1>0, <1>3
  <2> HIDE DEF t
  <2>6. get_all_free_blocks' = t
    BY <2>4, <2>5, QueueIsUniqueNext
  <2>7. [i \in 1 .. n |-> Walk[i]] = SubSeq(s, 1, n) /\ SubSeq(s, 1, n) \in Seq(Blocks)
    <3>1. \A i \in 1 .. n : Walk[i] = s[i]
      BY <2>0, <2>1, NodeTypes
    <3>2. SubSeq(s, 1, n) = [i \in 1 .. n |-> s[i]]
      BY <1>0, <1>3
    <3>3. [i \in 1 .. n |-> s[i]] \in Seq(Blocks)
      BY <1>0, <1>3
    <3> QED BY <3>1, <3>2, <3>3
  <2>8. OutcomeOK'
    BY <2>3, <2>7, ZenonT(30) DEF OutcomeOK, Return
  <2>9. n <= Len(s)
    BY <1>3
  <2> QED BY <1>0, <2>3, <2>4, <2>5, <2>6, <2>7, <2>8, <2>9, ZenonT(30) DEF Queue!PopN, Queue!Return, Return, t
<1> QED BY <1>0, <1>1, <1>2, <1>3

LEMMA RemoveStep ==
    ASSUME NEW s \in Seq(Blocks), Linked(s), NEW block \in Blocks, remove(block)
    PROVE  \E t \in Seq(Blocks) : Linked(t)' /\ OutcomeOK' /\ Queue!Remove(block)
<1>0. Len(s) \in Nat /\ DOMAIN s = 1 .. Len(s) /\ get_all_free_blocks = s
  BY NodeTypes, QueueIsUnique
<1>1. CASE \A i \in DOMAIN s : s[i] # block
  <2>1. next_free_block[block] = None /\ prev_free_block[block] = None
    BY <1>1 DEF Linked
  <2>2. Raise
    BY <2>1 DEF remove
  <2>3. block \notin Queue!Range(s)
    BY <1>1 DEF Queue!Range
  <2> QED BY <1>0, <2>2, <2>3, RaiseStep DEF Queue!Remove
<1>2. ASSUME NEW k \in DOMAIN s, s[k] = block
      PROVE  \E t \in Seq(Blocks) : Linked(t)' /\ OutcomeOK' /\ Queue!Remove(block)
  <2>1. /\ k \in 1 .. Len(s) /\ k \in 0 .. Len(s) /\ k - 1 \in 0 .. Len(s) /\ (k - 1) + 1 = k
        /\ k - 1 \in 0 .. Len(s) + 1 /\ k + 1 \in 0 .. Len(s) + 1
    BY <1>0, <1>2
  <2>2. /\ Node(s, k) = block
        /\ next_free_block[Node(s, k)] = Node(s, k + 1)
        /\ prev_free_block[Node(s, (k - 1) + 1)] = Node(s, k - 1)
        /\ Node(s, k - 1) # None /\ Node(s, k + 1) # None
    BY <1>2, <2>1, NodeTypes DEF Linked
  <2>3. next_free_block[block] = Node(s, k + 1) /\ prev_free_block[block] = Node(s, k - 1)
    BY <2>1, <2>2
  <2>4. /\ next_free_block' = [next_free_block EXCEPT ![Node(s, k - 1)] = Node(s, k + 1), ![block] = None]
        /\ prev_free_block' = [prev_free_block EXCEPT ![Node(s, k + 1)] = Node(s, k - 1), ![block] = None]
        /\ num_free_blocks' = num_free_blocks - 1
        /\ Return(<<>>)
    BY <2>2, <2>3 DEF remove
  <2> DEFINE t == SubSeq(s, 1, k - 1) \o SubSeq(s, k + 1, Len(s))
  <2>5. Linked(t)'
    BY <2>1, <2>2, <2>4, UnlinkStep, ZenonT(30)
  <2>6. t \in Seq(Blocks)
    BY <2>5 DEF Linked
  <2> HIDE DEF t
  <2>7. get_all_free_blocks' = t
    BY <2>5, <2>6, QueueIsUniqueNext
  <2>8. OutcomeOK'
    BY <2>4, EmptySeq, ZenonT(30) DEF OutcomeOK, Return
  <2>9. Queue!Remove(block)
    <3>1. get_all_free_blocks' = SubSeq(s, 1, k - 1) \o SubSeq(s, k + 1, Len(s))
      BY <2>7 DEF t
    <3>2. raised' = FALSE /\ ret' = <<>>
      BY <2>4 DEF Return
    <3> QED BY <1>0, <1>2, <3>1, <3>2, ZenonT(30) DEF Queue!Remove, Queue!Return
  <2> QED BY <2>5, <2>6, <2>8, <2>9
<1> QED BY <1>1, <1>2

\* The nodes of the list after blocks are put back: the last of the old ones,
\* the blocks in their order, and the fake tail.
LEMMA ExtendedNodes ==
    ASSUME NEW s \in Seq(Blocks), NEW new \in Seq(Blocks)
    PROVE  /\ s \o new \in Seq(Blocks) /\ Len(s \o new) = Len(s) + Len(new)
           /\ new # <<>> => Node(s \o new, Len(s)) = Node(s, Len(s))
           /\ \A i \in 1 .. Len(new) : Node(s \o new, Len(s) + i) = new[i]
           /\ Node(s \o new, Len(s) + Len(new) + 1) = tail
<1>1. /\ s \o new \in Seq(Blocks) /\ Len(s \o new) = Len(s) + Len(new)
      /\ Len(s) \in Nat /\ Len(new) \in Nat
  OBVIOUS
<1>2. \A i \in 1 .. Len(s) : (s \o new)[i] = s[i]
  OBVIOUS
<1>3. \A i \in 1 .. Len(new) : (s \o new)[Len(s) + i] = new[i]
  OBVIOUS
<1>4. new # <<>> => Len(new) # 0
  OBVIOUS
<1>5. new # <<>> => Node(s \o new, Len(s)) = Node(s, Len(s))
  BY <1>1, <1>2, <1>4 DEF Node
<1>6. \A i \in 1 .. Len(new) : Node(s \o new, Len(s) + i) = new[i]
  BY <1>1, <1>3 DEF Node
<1>7. Node(s \o new, Len(s) + Len(new) + 1) = tail
  BY <1>1 DEF Node
<1> QED BY <1>1, <1>5, <1>6, <1>7

LEMMA AppendStep ==
    ASSUME NEW s \in Seq(Blocks), Linked(s), NEW block \in Blocks, append(block)
    PROVE  \E t \in Seq(Blocks) : Linked(t)' /\ OutcomeOK' /\ Queue!PutBack(<<block>>)
<1> DEFINE new == <<block>>
           t == s \o new
           n == Len(s)
<1>0. /\ n \in Nat /\ get_all_free_blocks = s /\ block \notin Range(s)
      /\ new \in Seq(Blocks) /\ Len(new) = 1 /\ new # <<>> /\ Injective(new)
      /\ DOMAIN new = {1} /\ new[1] = block
  BY QueueIsUnique DEF append, Injective
<1>1. \A j \in DOMAIN s : s[j] # block
  BY <1>0 DEF Range
<1>2. /\ t \in Seq(Blocks) /\ Len(t) = n + 1
      /\ Node(t, n) = Node(s, n) /\ Node(t, n + 1) = block /\ Node(t, n + 2) = tail
  <2>1. 1 \in 1 .. Len(new) /\ n + Len(new) + 1 = n + 2
    BY <1>0
  <2> HIDE DEF new
  <2>2. /\ t \in Seq(Blocks) /\ Len(t) = n + Len(new) /\ Node(t, n) = Node(s, n)
        /\ Node(t, n + 1) = new[1] /\ Node(t, n + Len(new) + 1) = tail
    BY <1>0, <2>1, ExtendedNodes, ZenonT(30)
  <2> HIDE DEF t
  <2>3. Len(new) = 1 /\ new[1] = block
    BY <1>0 DEF new
  <2> QED BY <2>1, <2>2, <2>3, Zenon
<1> HIDE DEF t, new
<1>3. prev_free_block[tail] = Node(s, n)
  <2>1. n \in 0 .. Len(s) /\ Node(s, n + 1) = tail
    BY <1>0, NodeTypes
  <2>2. \A i \in 0 .. Len(s) : prev_free_block[Node(s, i + 1)] = Node(s, i)
    BY DEF Linked
  <2> HIDE DEF n
  <2> QED BY <2>1, <2>2
<1>4. /\ next_free_block' = [next_free_block EXCEPT ![Node(s, n)] = block, ![block] = tail]
      /\ prev_free_block' = [prev_free_block EXCEPT ![block] = Node(s, n), ![tail] = block]
      /\ num_free_blocks' = num_free_blocks + 1
      /\ Return(<<>>)
  BY <1>3 DEF append, tail
<1>5. /\ Node(s, n) \in Nodes /\ block \in Nodes /\ tail \in Nodes
      /\ Node(s, n) # block /\ block # tail
      /\ next_free_block \in [Nodes -> Nodes \cup {None}]
      /\ prev_free_block \in [Nodes -> Nodes \cup {None}]
  <2>1. n \in 0 .. Len(s) + 1 /\ (n = 0 \/ n \in 1 .. Len(s))
    BY <1>0
  <2> QED BY <1>1, <2>1, NodeTypes DEF Linked
<1>6. /\ next_free_block' \in [Nodes -> Nodes \cup {None}]
      /\ prev_free_block' \in [Nodes -> Nodes \cup {None}]
  BY <1>4, <1>5
<1>7. /\ next_free_block'[Node(t, n)] = Node(t, n + 1)
      /\ next_free_block'[Node(t, n + 1)] = Node(t, n + 2)
      /\ prev_free_block'[Node(t, n + 1)] = Node(t, n)
      /\ prev_free_block'[Node(t, n + 2)] = Node(t, n + 1)
  BY <1>2, <1>4, <1>5
<1>8. n .. Len(t) = {n, n + 1} /\ (n + 1) + 1 = n + 2
  BY <1>0, <1>2
<1>9. \A i \in n .. Len(t) : /\ next_free_block'[Node(t, i)] = Node(t, i + 1)
                            /\ prev_free_block'[Node(t, i + 1)] = Node(t, i)
  BY <1>7, <1>8
<1>10. \A x \in Nodes : (\A i \in n .. Len(t) : x # Node(t, i))
                          => next_free_block'[x] = next_free_block[x]
  BY <1>2, <1>4, <1>5, <1>8
<1>11. \A x \in Nodes : (\A i \in n .. Len(t) : x # Node(t, i + 1))
                          => prev_free_block'[x] = prev_free_block[x]
  BY <1>2, <1>4, <1>5, <1>8
<1>12. \A i \in DOMAIN new : \A j \in DOMAIN s : new[i] # s[j]
  BY <1>0, <1>1
<1>13. Linked(t)'
  BY <1>0, <1>4, <1>6, <1>9, <1>10, <1>11, <1>12, ExtendStep, ZenonT(30) DEF t
<1>14. get_all_free_blocks' = s \o new
  BY <1>2, <1>13, QueueIsUniqueNext, ZenonT(30) DEF t
<1>15. Queue!Range(new) \cap Queue!Range(s) = {}
  BY <1>0, <1>1 DEF Queue!Range
<1>16. OutcomeOK'
  BY <1>4, EmptySeq, ZenonT(30) DEF OutcomeOK, Return
<1>17. Queue!PutBack(new)
  BY <1>0, <1>4, <1>14, <1>15 DEF Queue!PutBack, Queue!Return, Return
<1> QED BY <1>2, <1>13, <1>16, <1>17 DEF new

LEMMA ConcatInjective ==
    ASSUME NEW s \in Seq(Blocks), Injective(s), NEW new \in Seq(Blocks), Injective(new),
           \A i \in DOMAIN new : \A j \in DOMAIN s : new[i] # s[j]
    PROVE  Injective(s \o new)
<1> DEFINE t == s \o new
<1>1. Len(s) \in Nat /\ Len(new) \in Nat /\ DOMAIN s = 1 .. Len(s) /\ DOMAIN new = 1 .. Len(new)
  OBVIOUS
<1>2. DOMAIN t = 1 .. Len(s) + Len(new)
  OBVIOUS
<1>3. \A i \in DOMAIN t : \/ i \in DOMAIN s /\ t[i] = s[i]
                          \/ i - Len(s) \in DOMAIN new /\ t[i] = new[i - Len(s)]
  OBVIOUS
<1> HIDE DEF t
<1>4. ASSUME NEW i \in DOMAIN t, NEW j \in DOMAIN t, t[i] = t[j]
      PROVE  i = j
  <2>1. i \in Nat /\ j \in Nat
    BY <1>1, <1>2
  <2>2. CASE i \in DOMAIN s /\ t[i] = s[i] /\ j \in DOMAIN s /\ t[j] = s[j]
    BY <2>2, <1>4, ZenonT(30) DEF Injective
  <2>3. CASE i - Len(s) \in DOMAIN new /\ t[i] = new[i - Len(s)]
             /\ j - Len(s) \in DOMAIN new /\ t[j] = new[j - Len(s)]
    <3>1. i - Len(s) = j - Len(s)
      BY <2>3, <1>4, ZenonT(30) DEF Injective
    <3> QED BY <1>1, <2>1, <3>1
  <2> QED BY <1>3, <1>4, <2>2, <2>3
<1> QED BY <1>4 DEF Injective, t

LEMMA AppendNStep ==
    ASSUME NEW s \in Seq(Blocks), Linked(s), NEW new \in Queue!BlockLists, append_n(new)
    PROVE  \E t \in Seq(Blocks) : Linked(t)' /\ OutcomeOK' /\ Queue!PutBack(new)
<1> DEFINE k == Len(s)
           n == Len(new)
           t == s \o new
<1>0. new \in Seq(Blocks) /\ Injective(new)
  <2>1. PICK m \in 0 .. NumBlocks : new \in [1 .. m -> Queue!Blocks] /\ Queue!IsInjectiveSeq(new)
    BY DEF Queue!BlockLists
  <2>2. m \in Nat /\ Queue!Blocks = Blocks
    BY NumBlocksAssumption DEF Blocks, Queue!Blocks
  <2>3. new \in Seq(Blocks)
    BY <2>1, <2>2
  <2> QED BY <2>1, <2>3 DEF Queue!IsInjectiveSeq, Injective
<1>1. /\ k \in Nat /\ n \in Nat /\ t \in Seq(Blocks) /\ Len(t) = k + n
      /\ DOMAIN new = 1 .. n /\ DOMAIN s = 1 .. k /\ get_all_free_blocks = s
  BY <1>0, QueueIsUnique
<1>2. /\ Range(new) \cap Range(s) = {}
      /\ num_free_blocks' = num_free_blocks + n
      /\ Return(<<>>)
  BY <1>1 DEF append_n
<1>3. \A i \in DOMAIN new : \A j \in DOMAIN s : new[i] # s[j]
  BY <1>2, Zenon DEF Range
<1>4. Linked(t)'
  <2>1. CASE n = 0
    <3>1. UNCHANGED links
      BY <1>1, <2>1 DEF append_n
    <3>2. t = s
      BY <1>0, <2>1
    <3>3. num_free_blocks' = num_free_blocks
      BY <1>1, <1>2, <2>1, SMTT(30) DEF Linked
    <3> QED BY <3>1, <3>2, <3>3 DEF Linked, links
  <2>2. CASE n # 0
    <3> DEFINE last == prev_free_block[tail]
               chain == <<last>> \o new \o <<tail>>
               place(x) == CHOOSE i \in 1 .. n + 2 : chain[i] = x
    <3>1. last = Node(s, k)
      <4>1. k \in 0 .. Len(s) /\ Node(s, k + 1) = tail
        BY <1>1, NodeTypes
      <4>2. \A i \in 0 .. Len(s) : prev_free_block[Node(s, i + 1)] = Node(s, i)
        BY SMTT(30) DEF Linked
      <4> HIDE DEF k
      <4> QED BY <4>1, <4>2
    <3>2. /\ next_free_block' = [x \in Nodes |->
               IF \E i \in 1 .. n + 1 : chain[i] = x
               THEN chain[place(x) + 1] ELSE next_free_block[x]]
          /\ prev_free_block' = [x \in Nodes |->
               IF \E i \in 2 .. n + 2 : chain[i] = x
               THEN chain[place(x) - 1] ELSE prev_free_block[x]]
      BY <2>2, <1>1, ZenonT(30) DEF append_n, tail
    <3>3. new # <<>>
      BY <2>2
    <3>4. \A i \in 1 .. n + 2 : chain[i] = Node(t, k + i - 1)
      <4>1. /\ chain[1] = last /\ \A i \in 1 .. n : chain[i + 1] = new[i]
            /\ chain[n + 2] = tail
        <5> HIDE DEF last
        <5> QED BY <1>0, <1>1
      <4>2. /\ Node(t, k) = last /\ \A i \in 1 .. n : Node(t, k + i) = new[i]
            /\ Node(t, k + n + 1) = tail
        BY <1>0, <3>1, <3>3, ExtendedNodes
      <4> HIDE DEF chain, t, k, n
      <4>3. ASSUME NEW i \in 1 .. n + 2
            PROVE  chain[i] = Node(t, k + i - 1)
        <5>1. CASE i = 1
          <6>1. k + i - 1 = k
            BY <5>1, <1>1
          <6> QED BY <5>1, <6>1, <4>1, <4>2
        <5>2. CASE i = n + 2
          <6>1. k + i - 1 = k + n + 1
            BY <5>2, <1>1
          <6> QED BY <5>2, <6>1, <4>1, <4>2
        <5>3. CASE i \in 2 .. n + 1
          <6>1. i - 1 \in 1 .. n /\ (i - 1) + 1 = i /\ k + (i - 1) = k + i - 1
            BY <5>3, <1>1
          <6>2. chain[(i - 1) + 1] = new[i - 1] /\ Node(t, k + (i - 1)) = new[i - 1]
            BY <6>1, <4>1, <4>2
          <6> QED BY <6>1, <6>2
        <5> QED BY <5>1, <5>2, <5>3, <1>1
      <4> QED BY <4>3
    <3>5. Injective(t)
      BY <1>0, <1>3, ConcatInjective DEF Linked
    <3> HIDE DEF chain, last, t, k, n
    <3>6. \A i, j \in 1 .. n + 2 : chain[i] = chain[j] => i = j
      <4> SUFFICES ASSUME NEW i \in 1 .. n + 2, NEW j \in 1 .. n + 2, chain[i] = chain[j]
                   PROVE  i = j
        OBVIOUS
      <4>1. /\ k + i - 1 \in 0 .. Len(t) + 1 /\ k + j - 1 \in 0 .. Len(t) + 1
            /\ (k + i - 1 = k + j - 1 => i = j)
        BY <1>1
      <4>2. Node(t, k + i - 1) = Node(t, k + j - 1)
        BY <3>4
      <4> QED BY <4>1, <4>2, <3>5, <1>1, NodesDiffer
    <3>7. \A i \in 1 .. n + 2 : place(chain[i]) = i
      BY <3>6
    <3>8. \A i \in 1 .. n + 2 : chain[i] \in Nodes
      <4> SUFFICES ASSUME NEW i \in 1 .. n + 2
                   PROVE  chain[i] \in Nodes
        OBVIOUS
      <4>1. k + i - 1 \in 0 .. Len(t) + 1
        BY <1>1, SMTT(30)
      <4> QED BY <4>1, <3>4, <1>1, NodeTypes
    <3> HIDE DEF place
    <3>9. \A i \in 1 .. n + 1 : /\ next_free_block'[chain[i]] = chain[i + 1]
                               /\ prev_free_block'[chain[i + 1]] = chain[i]
      <4> SUFFICES ASSUME NEW i \in 1 .. n + 1
                   PROVE  /\ next_free_block'[chain[i]] = chain[i + 1]
                          /\ prev_free_block'[chain[i + 1]] = chain[i]
        OBVIOUS
      <4>1. i \in 1 .. n + 2 /\ i + 1 \in 1 .. n + 2 /\ i + 1 \in 2 .. n + 2 /\ (i + 1) - 1 = i
        BY <1>1
      <4>2. place(chain[i]) = i /\ place(chain[i + 1]) = i + 1
            /\ chain[i] \in Nodes /\ chain[i + 1] \in Nodes
        BY <4>1, <3>7, <3>8
      <4> QED BY <4>1, <4>2, <3>2
    <3>10. /\ next_free_block' \in [Nodes -> Nodes \cup {None}]
           /\ prev_free_block' \in [Nodes -> Nodes \cup {None}]
      <4>1. ASSUME NEW x \in Nodes
            PROVE  /\ next_free_block'[x] \in Nodes \cup {None}
                   /\ prev_free_block'[x] \in Nodes \cup {None}
        <5>1. next_free_block[x] \in Nodes \cup {None} /\ prev_free_block[x] \in Nodes \cup {None}
          BY DEF Linked
        <5>2. ASSUME NEW i \in 1 .. n + 1
              PROVE  i + 1 \in 1 .. n + 2 /\ i \in 1 .. n + 2
          BY <1>1
        <5>3. ASSUME NEW i \in 2 .. n + 2
              PROVE  i - 1 \in 1 .. n + 1 /\ (i - 1) + 1 = i
          BY <1>1
        <5>4. next_free_block'[x] \in Nodes \cup {None}
          BY <3>2, <3>8, <3>9, <5>1, <5>2
        <5>5. prev_free_block'[x] \in Nodes \cup {None}
          <6>1. CASE \E i \in 2 .. n + 2 : chain[i] = x
            BY <6>1, <3>8, <3>9, <5>2, <5>3
          <6> QED BY <6>1, <3>2, <5>1
        <5> QED BY <5>4, <5>5
      <4> QED BY <4>1, <3>2
    <3>11. \A i \in k .. Len(t) : /\ i - k + 1 \in 1 .. n + 1
                                 /\ chain[i - k + 1] = Node(t, i)
                                 /\ chain[(i - k + 1) + 1] = Node(t, i + 1)
      <4> SUFFICES ASSUME NEW i \in k .. Len(t)
                   PROVE  /\ i - k + 1 \in 1 .. n + 1
                          /\ chain[i - k + 1] = Node(t, i)
                          /\ chain[(i - k + 1) + 1] = Node(t, i + 1)
        OBVIOUS
      <4>1. /\ i - k + 1 \in 1 .. n + 1 /\ i - k + 1 \in 1 .. n + 2
            /\ (i - k + 1) + 1 \in 1 .. n + 2
            /\ k + (i - k + 1) - 1 = i /\ k + ((i - k + 1) + 1) - 1 = i + 1
        BY <1>1
      <4>2. /\ chain[i - k + 1] = Node(t, k + (i - k + 1) - 1)
            /\ chain[(i - k + 1) + 1] = Node(t, k + ((i - k + 1) + 1) - 1)
        BY <4>1, <3>4
      <4> QED BY <4>1, <4>2
    <3>12. \A i \in k .. Len(t) : /\ next_free_block'[Node(t, i)] = Node(t, i + 1)
                                 /\ prev_free_block'[Node(t, i + 1)] = Node(t, i)
      BY <3>9, <3>11
    <3>13. \A x \in Nodes : (\A i \in k .. Len(t) : x # Node(t, i))
                              => next_free_block'[x] = next_free_block[x]
      <4> SUFFICES ASSUME NEW x \in Nodes, NEW i \in 1 .. n + 1, chain[i] = x
                   PROVE  \E j \in k .. Len(t) : x = Node(t, j)
        BY <3>2
      <4>1. k + i - 1 \in k .. Len(t) /\ i \in 1 .. n + 2
        BY <1>1
      <4> QED BY <4>1, <3>4
    <3>14. \A x \in Nodes : (\A i \in k .. Len(t) : x # Node(t, i + 1))
                              => prev_free_block'[x] = prev_free_block[x]
      <4> SUFFICES ASSUME NEW x \in Nodes, NEW i \in 2 .. n + 2, chain[i] = x
                   PROVE  \E j \in k .. Len(t) : x = Node(t, j + 1)
        BY <3>2
      <4>1. k + i - 2 \in k .. Len(t) /\ i \in 1 .. n + 2 /\ (k + i - 2) + 1 = k + i - 1
        BY <1>1
      <4>2. x = Node(t, (k + i - 2) + 1)
        BY <4>1, <3>4
      <4> QED BY <4>1, <4>2
    <3> QED BY <1>0, <1>2, <1>3, <3>3, <3>10, <3>12, <3>13, <3>14, ExtendStep, SMTT(30) DEF t, k, n
  <2> QED BY <2>1, <2>2
<1>5. get_all_free_blocks' = s \o new
  BY <1>1, <1>4, QueueIsUniqueNext, ZenonT(30)
<1>6. Queue!Range(new) \cap Queue!Range(s) = {}
  BY <1>2 DEF Queue!Range, Range
<1>7. OutcomeOK'
  BY <1>2, EmptySeq, ZenonT(30) DEF OutcomeOK, Return
<1>8. Queue!PutBack(new)
  BY <1>1, <1>2, <1>5, <1>6 DEF Queue!PutBack, Queue!Return, Return
<1> QED BY <1>1, <1>4, <1>7, <1>8, ZenonT(30)
-----------------------------------------------------------------------------
\* A list of distinct blocks is no longer than the number of blocks.
LEMMA InjectiveFits ==
    ASSUME NEW s \in Seq(Blocks), Injective(s)
    PROVE  Len(s) \in 0 .. NumBlocks
<1>1. Len(s) \in Nat /\ DOMAIN s = 1 .. Len(s) /\ s \in [1 .. Len(s) -> Blocks]
  OBVIOUS
<1>2. \A i, j \in 1 .. Len(s) : s[i] = s[j] => i = j
  BY <1>1 DEF Injective
<1>3. IsFiniteSet(Blocks) /\ Cardinality(Blocks) = NumBlocks
  BY NumBlocksAssumption, FS_Interval DEF Blocks
<1>4. IsFiniteSet(1 .. Len(s)) /\ Cardinality(1 .. Len(s)) = Len(s)
  BY <1>1, FS_Interval, SMTT(30)
<1>5. s \in Injection(1 .. Len(s), Blocks)
  BY <1>1, <1>2 DEF Injection, IsInjective
<1>6. Cardinality(1 .. Len(s)) <= Cardinality(Blocks)
  BY <1>3, <1>5, FS_Injection
<1> QED BY <1>1, <1>3, <1>4, <1>6

LEMMA Step ==
    ASSUME IInv, [Next]_vars
    PROVE  IInv' /\ [Queue!QueueNext]_(Queue!queueVars)
<1>1. PICK s \in Seq(Blocks) : Linked(s)
  BY DEF IInv
<1>2. CASE UNCHANGED vars
  <2>1. Linked(s)' /\ OutcomeOK'
    BY <1>1, <1>2 DEF vars, links, Linked, OutcomeOK, IInv
  <2>2. get_all_free_blocks' = get_all_free_blocks
    BY <1>1, <2>1, QueueIsUnique, QueueIsUniqueNext
  <2> QED BY <1>2, <2>1, <2>2 DEF IInv, vars, Queue!queueVars
<1>3. CASE popleft
  BY <1>1, <1>3, PopStep DEF IInv, Queue!QueueNext
<1>4. ASSUME NEW n \in 0 .. NumBlocks + 1, popleft_n(n)
      PROVE  IInv' /\ Queue!QueueNext
  BY <1>1, <1>4, PopNStep DEF IInv, Queue!QueueNext
<1>5. ASSUME NEW block \in Blocks, remove(block)
      PROVE  IInv' /\ Queue!QueueNext
  <2>1. IInv' /\ Queue!Remove(block)
    BY <1>1, <1>5, RemoveStep DEF IInv
  <2> QED BY <2>1 DEF Queue!QueueNext, Queue!Blocks, Blocks
<1>6. ASSUME NEW block \in Blocks, append(block)
      PROVE  IInv' /\ Queue!QueueNext
  <2>1. IInv' /\ Queue!PutBack(<<block>>)
    BY <1>1, <1>6, AppendStep DEF IInv
  <2>2. <<block>> \in Queue!BlockLists
    <3>1. 1 \in 0 .. NumBlocks /\ block \in Queue!Blocks
      BY NumBlocksAssumption DEF Blocks, Queue!Blocks
    <3>2. <<block>> \in [1 .. 1 -> Queue!Blocks] /\ Queue!IsInjectiveSeq(<<block>>)
      BY <3>1 DEF Queue!IsInjectiveSeq
    <3> QED BY <3>1, <3>2 DEF Queue!BlockLists
  <2> QED BY <2>1, <2>2 DEF Queue!QueueNext
<1>7. ASSUME NEW blocks \in Queue!BlockLists, append_n(blocks)
      PROVE  IInv' /\ Queue!QueueNext
  BY <1>1, <1>7, AppendNStep DEF IInv, Queue!QueueNext
<1> QED BY <1>2, <1>3, <1>4, <1>5, <1>6, <1>7 DEF Next

LEMMA Start ==
    ASSUME Init
    PROVE  IInv /\ Queue!QueueInit
<1> DEFINE s == [i \in 1 .. NumBlocks |-> i - 1]
<1>1. Linked(s)
  BY InitLinked
<1>2. s \in Seq(Blocks)
  BY <1>1 DEF Linked
<1> HIDE DEF s
<1>3. get_all_free_blocks = s
  BY <1>1, <1>2, QueueIsUnique
<1>4. IInv
  BY <1>1, <1>2, EmptySeq, ZenonT(30) DEF IInv, Init, OutcomeOK
<1>5. Queue!QueueInit
  BY <1>3 DEF s, Queue!QueueInit, Init
<1> QED BY <1>4, <1>5

\* At every moment the links hold some list of distinct blocks and nothing else.
THEOREM InductiveInvariant == Spec => []IInv
<1>1. Init => IInv
  BY Start
<1>2. IInv /\ [Next]_vars => IInv'
  BY Step
<1> QED BY <1>1, <1>2, PTL DEF Spec

\* The links of FreeKVCacheBlockQueue are nodes of the list or None, and its
\* counter stays between zero and the number of blocks.
THEOREM TypeCorrect == Spec => []TypeOK
<1>1. IInv => TypeOK
  <2> SUFFICES ASSUME IInv PROVE TypeOK
    OBVIOUS
  <2>1. PICK s \in Seq(Blocks) : Linked(s)
    BY DEF IInv
  <2>2. Len(s) \in 0 .. NumBlocks
    BY <2>1, InjectiveFits DEF Linked
  <2> QED BY <2>1, <2>2 DEF TypeOK, IInv, Linked, OutcomeOK
<1> QED BY <1>1, InductiveInvariant, PTL

\* popleft, popleft_n, remove, append and append_n never leave a dangling or a
\* one-way link, whatever the number of blocks and the order of the calls.
THEOREM ListStaysWhole == Spec => []ListIsWhole
<1>1. IInv => ListIsWhole
  <2> SUFFICES ASSUME IInv PROVE ListIsWhole
    OBVIOUS
  <2>1. PICK s \in Seq(Blocks) : Linked(s)
    BY DEF IInv
  <2> DEFINE n == Len(s)
  <2>2. /\ n \in Nat /\ num_free_blocks = n /\ DOMAIN s = 1 .. n
        /\ \A i \in 0 .. n + 1 : Walk[i] = Node(s, i)
    BY <2>1, WalkIsNode DEF Linked
  <2>3. Walk[n + 1] = tail
    <3>1. n + 1 \in 0 .. n + 1
      BY <2>2
    <3> QED BY <2>2, <3>1, NodeTypes
  <2>4. \A i, j \in 0 .. n + 1 : Walk[i] = Walk[j] => i = j
    BY <2>1, <2>2, NodesDiffer DEF Linked
  <2>5. \A i \in 1 .. n + 1 : prev_free_block[Walk[i]] = Walk[i - 1]
    <3> SUFFICES ASSUME NEW i \in 1 .. n + 1
                 PROVE  prev_free_block[Walk[i]] = Walk[i - 1]
      OBVIOUS
    <3>1. i \in 0 .. n + 1 /\ i - 1 \in 0 .. n + 1 /\ i - 1 \in 0 .. Len(s) /\ (i - 1) + 1 = i
      BY <2>2
    <3>2. prev_free_block[Node(s, (i - 1) + 1)] = Node(s, i - 1)
      BY <2>1, <3>1 DEF Linked
    <3> QED BY <2>2, <3>1, <3>2
  <2>6. \A b \in Blocks \ {Walk[i] : i \in 1 .. n} :
           next_free_block[b] = None /\ prev_free_block[b] = None
    <3> SUFFICES ASSUME NEW b \in Blocks, \A i \in 1 .. n : Walk[i] # b
                 PROVE  next_free_block[b] = None /\ prev_free_block[b] = None
      OBVIOUS
    <3>1. ASSUME NEW i \in 1 .. n
          PROVE  s[i] # b
      <4>1. i \in 0 .. n + 1
        BY <2>2
      <4> QED BY <4>1, <2>2, NodeTypes
    <3> QED BY <2>1, <2>2, <3>1 DEF Linked
  <2> HIDE DEF n
  <2> QED BY <2>2, <2>3, <2>4, <2>5, <2>6 DEF ListIsWhole, tail
<1> QED BY <1>1, InductiveInvariant, PTL

\* Every call on the linked list has the effect and the result that it has on
\* the plain sequence of free blocks, so the rest of the project may use the
\* sequence in its place.
THEOREM Refinement == Spec => ImplementsQueue
<1>1. Init => Queue!QueueInit
  BY Start
<1>2. IInv /\ [Next]_vars => [Queue!QueueNext]_(Queue!queueVars)
  BY Step
<1> QED BY <1>1, <1>2, InductiveInvariant, PTL DEF Spec, ImplementsQueue, Queue!QueueSpec
=============================================================================

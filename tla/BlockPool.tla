----------------------------- MODULE BlockPool -----------------------------
(***************************************************************************)
(* The pool of physical KV-cache blocks (vllm/v1/core/block_pool.py).       *)
(*                                                                         *)
(* A pool is a record, so that a caller can chain several operations into   *)
(* one atomic step, as the (single-threaded) Python callers do:             *)
(*   ref_cnt     number of requests that hold each block                    *)
(*   free        the free-block queue, least recently freed block first     *)
(*   block_hash  the hash a block is cached under, or NoHash                *)
(*   cached      cached_block_hash_to_block, as the set of <<hash, block>>  *)
(*               pairs: one hash may map to several blocks, which the code  *)
(*               does not de-duplicate                                      *)
(*                                                                         *)
(* The doubly linked list behind the free queue is FreeBlockQueue, shown to *)
(* implement the sequence of blocks that stands for it here.                *)
(***************************************************************************)
EXTENDS Integers, Sequences, FiniteSets, Functions

CONSTANTS
    NumGpuBlocks,   \* num_gpu_blocks
    NoHash          \* the hash of a block that is not cached (None)

ASSUME NumGpuBlocksAssumption == NumGpuBlocks \in Nat \ {0}

Blocks == 0 .. NumGpuBlocks - 1

\* The placeholder block: the first block ever popped, never freed.
NullBlock == 0

-----------------------------------------------------------------------------
(* Sequences of blocks *)

\* The number of elements of K up to i.
Rank(K, i) == Cardinality({k \in K : k <= i})

Selected(s, S) == {i \in DOMAIN s : s[i] \in S}

\* The subsequence of s of the elements in S: element number j of the result
\* sits at the selected index of rank j.
Select(s, S) ==
    LET K == Selected(s, S)
    IN  [j \in 1 .. Cardinality(K) |-> s[CHOOSE i \in K : Rank(K, i) = j]]

IsInjectiveSeq(s) == \A i, j \in DOMAIN s : s[i] = s[j] => i = j

Backwards(s) == [i \in 1 .. Len(s) |-> s[Len(s) + 1 - i]]

-----------------------------------------------------------------------------
(* The operations of BlockPool *)

InitPool ==
    [ref_cnt    |-> [b \in Blocks |-> 0],
     free       |-> [i \in 1 .. NumGpuBlocks - 1 |-> i],
     block_hash |-> [b \in Blocks |-> NoHash],
     cached     |-> {}]

get_num_free_blocks(p) == Len(p.free)

\* The blocks get_one_block may return for hash h. The code returns the first
\* one inserted; its contract is "any block with the given block hash key".
get_cached_block(p, h) == {b \in Blocks : <<h, b>> \in p.cached}

\* Variant: the block loses its hash but stays in the map.
evict_forgets_map(p, S) ==
    [p EXCEPT !.block_hash = [b \in Blocks |-> IF b \in S THEN NoHash ELSE p.block_hash[b]]]

\* _maybe_evict_cached_block of every block of S: a block whose (hash, id) is
\* in the map leaves the map and loses its hash.
maybe_evict_cached_blocks(p, S) ==
    LET evicted == {b \in S : <<p.block_hash[b], b>> \in p.cached}
    IN  [p EXCEPT
          !.block_hash = [b \in Blocks |->
                            IF b \in evicted THEN NoHash ELSE p.block_hash[b]],
          !.cached = p.cached \ {<<p.block_hash[b], b>> : b \in evicted}]

\* The blocks get_new_blocks(n) returns, and the pool it leaves.
new_blocks(p, n) == SubSeq(p.free, 1, n)

get_new_blocks(p, n) ==
    LET new == Range(new_blocks(p, n))
        q   == maybe_evict_cached_blocks(p, new)
    IN  [q EXCEPT
          !.free    = SubSeq(p.free, n + 1, Len(p.free)),
          !.ref_cnt = [b \in Blocks |->
                         IF b \in new THEN p.ref_cnt[b] + 1 ELSE p.ref_cnt[b]]]

\* The places of blocks nobody holds: touching them shortens the free queue.
idle_positions(p, blocks) ==
    {i \in DOMAIN blocks : p.ref_cnt[blocks[i]] = 0 /\ blocks[i] # NullBlock}

\* Variant: an idle hit block stays in the free queue.
touch_keeps_queue(p, blocks) ==
    [p EXCEPT !.ref_cnt = [b \in Blocks |->
                 IF b \in Range(blocks) THEN p.ref_cnt[b] + 1 ELSE p.ref_cnt[b]]]

\* A prefix-cache hit: the hit blocks gain a holder and, if nobody held them,
\* leave the free queue. No block occurs twice in blocks.
touch(p, blocks) ==
    LET hit == Range(blocks)
        idle == {b \in hit : p.ref_cnt[b] = 0 /\ b # NullBlock}
    IN  [p EXCEPT
          !.free    = Select(p.free, Blocks \ idle),
          !.ref_cnt = [b \in Blocks |->
                         IF b \in hit THEN p.ref_cnt[b] + 1 ELSE p.ref_cnt[b]]]

\* Drop one reference of every block of ordered_blocks (no block occurs twice)
\* and append the ones nobody holds any more to the free queue, in that order.
free_blocks(p, ordered_blocks) ==
    LET dropped == Range(ordered_blocks)
        cnt == [b \in Blocks |->
                  IF b \in dropped THEN p.ref_cnt[b] - 1 ELSE p.ref_cnt[b]]
    IN  [p EXCEPT
          !.ref_cnt = cnt,
          !.free = p.free \o
                     Select(ordered_blocks,
                            {b \in Blocks : cnt[b] = 0 /\ b # NullBlock})]

\* Give blocks[lo + 1 .. hi] the hashes hash[lo + 1 .. hi] and insert them in
\* the map.
cache_full_blocks(p, blocks, hash, lo, hi) ==
    LET new == {i \in lo + 1 .. hi : blocks[i] # NullBlock}
        index(b) == CHOOSE i \in new : blocks[i] = b
    IN  [p EXCEPT
          !.block_hash = [b \in Blocks |->
                            IF \E i \in new : blocks[i] = b
                            THEN hash[index(b)] ELSE p.block_hash[b]],
          !.cached = p.cached \cup {<<hash[i], blocks[i]>> : i \in new}]

evict_blocks(p, block_ids) == maybe_evict_cached_blocks(p, block_ids)

\* reset_prefix_cache succeeds only when the null block alone is in use.
can_reset_prefix_cache(p) == NumGpuBlocks - get_num_free_blocks(p) = 1

reset_prefix_cache(p) ==
    IF can_reset_prefix_cache(p)
    THEN [p EXCEPT !.block_hash = [b \in Blocks |-> NoHash], !.cached = {}]
    ELSE p
-----------------------------------------------------------------------------
(* What a pool always satisfies *)

IsPool(p, Hashes) ==
    p \in [ref_cnt    : [Blocks -> Nat],
           free       : Seq(Blocks),
           block_hash : [Blocks -> Hashes \cup {NoHash}],
           cached     : SUBSET (Hashes \X Blocks)]

\* The free queue holds exactly the blocks without a holder, once each.
FreeIsExact(p) ==
    /\ IsInjectiveSeq(p.free)
    /\ Range(p.free) = {b \in Blocks \ {NullBlock} : p.ref_cnt[b] = 0}

\* The map holds exactly the hashes stored in the blocks.
MapIsExact(p) ==
    p.cached = {<<p.block_hash[b], b>> :
                  b \in {c \in Blocks : p.block_hash[c] # NoHash}}
=============================================================================

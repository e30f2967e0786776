--------------------------- MODULE KVCacheManager ---------------------------
(***************************************************************************)
(* The KV-cache manager of one full-attention KV-cache group, the           *)
(* configuration TurboQuant runs in (a TQFullAttentionSpec is handled by     *)
(* FullAttentionManager): vllm/v1/core/kv_cache_manager.py,                 *)
(* kv_cache_coordinator.py (UnitaryKVCacheCoordinator) and                  *)
(* single_type_kv_cache_manager.py.                                         *)
(*                                                                         *)
(* The caller is any scheduler that obeys the manager's protocol: it admits *)
(* a request that holds no blocks, grows one that does, at most once each   *)
(* per scheduling pass, commits the pass, appends sampled tokens, and frees *)
(* requests at any time. Module EngineCore is such a caller.                *)
(*                                                                         *)
(* A block hash is the chain hash of all tokens up to the end of the block. *)
(* It is modelled by that token prefix itself (a hash without collisions).  *)
(***************************************************************************)
EXTENDS BlockPool

CONSTANTS
    Requests,         \* request ids
    Tokens,           \* token ids
    Prompts,          \* the token sequences a request may start with
    BlockSize,        \* tokens per block
    MaxModelLen,      \* max_model_len
    MaxLookahead,     \* largest num_lookahead_tokens
    EnableCaching,    \* enable_caching
    UseEagle,         \* the KV-cache group belongs to an EAGLE drafter
    SkipReading       \* requests with skip_reading_prefix_cache

ASSUME BlockSizeAssumption == BlockSize \in Nat \ {0}
ASSUME MaxModelLenAssumption == MaxModelLen \in Nat
ASSUME MaxLookaheadAssumption == MaxLookahead \in Nat
ASSUME PromptsAssumption ==
    Prompts \subseteq {s \in Seq(Tokens) : Len(s) \in 1 .. MaxModelLen}
ASSUME NoHashAssumption == NoHash \notin Seq(Tokens)
ASSUME RequestsAssumption == IsFiniteSet(Requests)
ASSUME FlagsAssumption == EnableCaching \in BOOLEAN /\ UseEagle \in BOOLEAN

VARIABLES
    pool,                   \* the BlockPool
    req_to_blocks,          \* the block table of every request
    num_cached_block,       \* leading blocks of a request already hashed
    all_token_ids,          \* prompt and output tokens of every request
    num_computed_tokens,    \* Request.num_computed_tokens
    num_scheduled_tokens    \* tokens scheduled in the current pass

kvVars == <<pool, req_to_blocks, num_cached_block>>
reqVars == <<all_token_ids, num_computed_tokens, num_scheduled_tokens>>
kvmVars == <<kvVars, reqVars>>

\* A request without an entry in the num_cached_block dictionary.
NoEntry == -1

Min2(a, b) == IF a < b THEN a ELSE b
Max2(a, b) == IF a > b THEN a ELSE b
cdiv(a, b) == (a + b - 1) \div b
-----------------------------------------------------------------------------
(* Prefix-cache lookup *)

num_tokens(r) == Len(all_token_ids[r])

\* Variant: the hash of a block's own tokens, without its parent's hash.
UnchainedHash(r, i) ==
    SubSeq(all_token_ids[r], (i - 1) * BlockSize + 1, i * BlockSize)

BlockHash(r, i) == SubSeq(all_token_ids[r], 1, i * BlockSize)

\* Request.block_hashes: one hash per full block of known tokens.
block_hashes(r) == [i \in 1 .. num_tokens(r) \div BlockSize |-> BlockHash(r, i)]

\* The results FullAttentionManager.find_longest_cache_hit may return: the
\* leading blocks of r up to the first hash that is not cached, never covering
\* more than num_tokens - 1 tokens (the last token is always recomputed). EAGLE
\* gives the last one back.
find_longest_cache_hit(r) ==
    LET max_num_blocks == (num_tokens(r) - 1) \div BlockSize
        cached_for(i) == get_cached_block(pool, BlockHash(r, i))
        longest == {s \in UNION {[1 .. k -> Blocks] : k \in 0 .. max_num_blocks} :
                      /\ \A i \in DOMAIN s : s[i] \in cached_for(i)
                      /\ \/ Len(s) = max_num_blocks
                         \/ cached_for(Len(s) + 1) = {}}
    IN  {IF UseEagle /\ s # <<>> THEN SubSeq(s, 1, Len(s) - 1) ELSE s :
           s \in longest}

get_computed_blocks(r) ==
    IF ~EnableCaching \/ r \in SkipReading THEN {<<>>}
    ELSE find_longest_cache_hit(r)
-----------------------------------------------------------------------------
(* allocate_slots: `computed` tokens of r are computed already (hit included, *)
(* a sequence of prefix-cache hits), `new` ones are scheduled now.            *)

num_tokens_need_slot(computed, new, lookahead) ==
    Min2(Min2(computed, MaxModelLen) + new + lookahead, MaxModelLen)

num_evictable_blocks(hit) == Cardinality(idle_positions(pool, hit))

\* Variant: hit blocks that touch will take off the queue are not counted.
blocks_to_allocate_ignoring_hits(r, slots, hit) ==
    Max2(cdiv(slots, BlockSize) - (Len(hit) + Len(req_to_blocks[r])), 0)

get_num_blocks_to_allocate(r, slots, hit) ==
    LET num_required_blocks == cdiv(slots, BlockSize)
        num_req_blocks == Len(req_to_blocks[r])
    IN  IF num_cached_block[r] # NoEntry
        THEN Max2(num_required_blocks - num_req_blocks, 0)
        ELSE Max2(num_required_blocks - (Len(hit) + num_req_blocks), 0)
               + num_evictable_blocks(hit)

\* Blocks still missing once the hit blocks are in the block table.
num_new_blocks(r, slots, hit) ==
    Max2(cdiv(slots, BlockSize) - Len(req_to_blocks[r] \o hit), 0)

\* Variant: a partly filled block counts as full.
cache_blocks_too_early(p, r, blocks, entry, tokens) ==
    LET so_far == Max2(entry, 0)
        full   == Min2(cdiv(tokens, BlockSize), num_tokens(r) \div BlockSize)
    IN  IF ~EnableCaching \/ so_far >= full
        THEN [pool |-> p, entry |-> entry]
        ELSE [pool |-> cache_full_blocks(p, blocks, block_hashes(r), so_far, full),
              entry |-> full]

\* SingleTypeKVCacheManager.cache_blocks of request r with block table blocks,
\* entry being its num_cached_block: hash the blocks that `tokens` tokens fill.
cache_blocks(p, r, blocks, entry, tokens) ==
    LET so_far == Max2(entry, 0)
        full   == tokens \div BlockSize
    IN  IF ~EnableCaching \/ so_far >= full
        THEN [pool |-> p, entry |-> entry]
        ELSE [pool |-> cache_full_blocks(p, blocks, block_hashes(r), so_far, full),
              entry |-> full]

\* Variant: the new blocks replace the block table instead of extending it.
allocate_slots_replacing(r, computed, hit, new, lookahead) ==
    LET slots   == num_tokens_need_slot(computed, new, lookahead)
        n       == cdiv(slots, BlockSize)
    IN  /\ n <= get_num_free_blocks(pool)
        /\ pool' = get_new_blocks(pool, n)
        /\ req_to_blocks' = [req_to_blocks EXCEPT ![r] = new_blocks(pool, n)]
        /\ UNCHANGED num_cached_block

\* The hit blocks are touched and open the block table; the missing blocks come
\* off the free queue; the blocks that known tokens fill are hashed at once,
\* before the model has computed them.
allocate_slots(r, computed, hit, new, lookahead) ==
    LET slots   == num_tokens_need_slot(computed, new, lookahead)
        touched == touch(pool, hit)
        n       == num_new_blocks(r, slots, hit)
        blocks  == req_to_blocks[r] \o hit \o new_blocks(touched, n)
        entry   == IF hit # <<>> THEN Len(hit) ELSE num_cached_block[r]
        res     == cache_blocks(get_new_blocks(touched, n), r, blocks, entry,
                      Min2(Min2(computed, MaxModelLen) + new, num_tokens(r)))
    IN  /\ get_num_blocks_to_allocate(r, slots, hit) <= get_num_free_blocks(pool)
        /\ pool' = res.pool
        /\ req_to_blocks' = [req_to_blocks EXCEPT ![r] = blocks]
        /\ num_cached_block' = [num_cached_block EXCEPT ![r] = res.entry]

\* Variant: head first.
free_forwards(r) ==
    /\ pool' = free_blocks(pool, req_to_blocks[r])
    /\ req_to_blocks' = [req_to_blocks EXCEPT ![r] = <<>>]
    /\ num_cached_block' = [num_cached_block EXCEPT ![r] = NoEntry]

\* KVCacheManager.free: the blocks of r go back tail first.
free(r) ==
    /\ pool' = free_blocks(pool, Backwards(req_to_blocks[r]))
    /\ req_to_blocks' = [req_to_blocks EXCEPT ![r] = <<>>]
    /\ num_cached_block' = [num_cached_block EXCEPT ![r] = NoEntry]
-----------------------------------------------------------------------------
Init ==
    /\ pool = InitPool
    /\ req_to_blocks = [r \in Requests |-> <<>>]
    /\ num_cached_block = [r \in Requests |-> NoEntry]
    /\ all_token_ids \in [Requests -> Prompts]
    /\ num_computed_tokens = [r \in Requests |-> 0]
    /\ num_scheduled_tokens = [r \in Requests |-> 0]

\* Variant: the last token of a hit is recomputed in place, in the shared block.
AdmitRequestRecomputing(r) ==
    /\ req_to_blocks[r] = <<>>
    /\ num_scheduled_tokens[r] = 0
    /\ \E hit \in get_computed_blocks(r) :
         LET computed == Len(hit) * BlockSize IN
         \E new \in 1 .. num_tokens(r) - computed :
           /\ allocate_slots(r, computed, hit, new, 0)
           /\ num_computed_tokens' = [num_computed_tokens EXCEPT
                                        ![r] = Max2(computed - 1, 0)]
           /\ num_scheduled_tokens' = [num_scheduled_tokens EXCEPT ![r] = new]
    /\ UNCHANGED all_token_ids

\* A waiting request is admitted with a prefix-cache hit.
AdmitRequest(r) ==
    /\ req_to_blocks[r] = <<>>
    /\ num_scheduled_tokens[r] = 0
    /\ \E hit \in get_computed_blocks(r) :
         LET computed == Len(hit) * BlockSize IN
         \E new \in 1 .. num_tokens(r) - computed :
           /\ allocate_slots(r, computed, hit, new, 0)
           /\ num_computed_tokens' = [num_computed_tokens EXCEPT ![r] = computed]
           /\ num_scheduled_tokens' = [num_scheduled_tokens EXCEPT ![r] = new]
    /\ UNCHANGED all_token_ids

\* A running request gets slots for the next tokens. They may lie past the
\* known tokens: draft tokens, or outputs still in flight.
GrowRequest(r) ==
    /\ req_to_blocks[r] # <<>>
    /\ num_scheduled_tokens[r] = 0
    /\ \E new \in 1 .. MaxModelLen - num_computed_tokens[r],
          lookahead \in 0 .. MaxLookahead :
         /\ allocate_slots(r, num_computed_tokens[r], <<>>, new, lookahead)
         /\ num_scheduled_tokens' = [num_scheduled_tokens EXCEPT ![r] = new]
    /\ UNCHANGED <<all_token_ids, num_computed_tokens>>

\* The end of a scheduling pass (Scheduler._update_after_schedule).
CommitSchedule ==
    /\ \E r \in Requests : num_scheduled_tokens[r] # 0
    /\ num_computed_tokens' = [r \in Requests |->
          num_computed_tokens[r] + num_scheduled_tokens[r]]
    /\ num_scheduled_tokens' = [r \in Requests |-> 0]
    /\ UNCHANGED <<kvVars, all_token_ids>>

\* A sampled token reaches the scheduler.
AppendOutputToken(r) ==
    /\ num_tokens(r) < MaxModelLen
    /\ \E t \in Tokens :
         all_token_ids' = [all_token_ids EXCEPT ![r] = Append(@, t)]
    /\ UNCHANGED <<kvVars, num_computed_tokens, num_scheduled_tokens>>

\* KVCacheManager.cache_blocks, once outputs that were in flight are known.
CacheBlocks(r) ==
    /\ req_to_blocks[r] # <<>>
    /\ \E tokens \in 0 .. Min2(num_computed_tokens[r], num_tokens(r)) :
         LET res == cache_blocks(pool, r, req_to_blocks[r], num_cached_block[r],
                                 tokens)
         IN  /\ pool' = res.pool
             /\ num_cached_block' = [num_cached_block EXCEPT ![r] = res.entry]
    /\ UNCHANGED <<req_to_blocks, reqVars>>

\* A request is preempted, aborted or finished: all its blocks are freed and
\* its computed tokens are forgotten.
FreeRequest(r) ==
    /\ free(r)
    /\ num_computed_tokens' = [num_computed_tokens EXCEPT ![r] = 0]
    /\ num_scheduled_tokens' = [num_scheduled_tokens EXCEPT ![r] = 0]
    /\ UNCHANGED all_token_ids

\* KVCacheManager.evict_blocks, held blocks included.
EvictBlocks(block_ids) ==
    /\ pool' = evict_blocks(pool, block_ids)
    /\ UNCHANGED <<req_to_blocks, num_cached_block, reqVars>>

\* KVCacheManager.reset_prefix_cache.
ResetPrefixCache ==
    /\ pool' = reset_prefix_cache(pool)
    /\ UNCHANGED <<req_to_blocks, num_cached_block, reqVars>>

\* The steps of an engine without a KV connector: evict_blocks is only called
\* for blocks whose external load failed.
LocalNext ==
    \/ \E r \in Requests :
         \/ AdmitRequest(r)
         \/ GrowRequest(r)
         \/ AppendOutputToken(r)
         \/ CacheBlocks(r)
         \/ FreeRequest(r)
    \/ CommitSchedule
    \/ ResetPrefixCache

Next == LocalNext \/ \E S \in SUBSET Blocks : EvictBlocks(S)

Spec == Init /\ [][Next]_kvmVars

LocalSpec == Init /\ [][LocalNext]_kvmVars
-----------------------------------------------------------------------------
(* What the manager guarantees *)

Hashes == Seq(Tokens)

\* Every variable keeps the type the Python attributes have; an entry of
\* num_cached_block is never 0 and no request outgrows max_model_len.
TypeOK ==
    /\ IsPool(pool, Hashes)
    /\ req_to_blocks \in [Requests -> Seq(Blocks)]
    /\ num_cached_block \in [Requests -> (Nat \ {0}) \cup {NoEntry}]
    /\ all_token_ids \in [Requests -> Seq(Tokens)]
    /\ \A r \in Requests : num_tokens(r) \in 1 .. MaxModelLen
    /\ num_computed_tokens \in [Requests -> Nat]
    /\ num_scheduled_tokens \in [Requests -> Nat]

Holders(b) == {r \in Requests : b \in Range(req_to_blocks[r])}

\* The free queue holds exactly the blocks that no request holds, once each,
\* and never the null block: a block is neither leaked nor handed out twice by
\* any sequence of touch, get_new_blocks and free_blocks.
FreeQueueIsExact == FreeIsExact(pool)

\* ref_cnt counts the requests whose block table contains the block, and no
\* block table contains a block twice or the null block.
RefCountsAreHolders ==
    /\ \A b \in Blocks : pool.ref_cnt[b] = Cardinality(Holders(b))
    /\ \A r \in Requests : /\ IsInjectiveSeq(req_to_blocks[r])
                            /\ NullBlock \notin Range(req_to_blocks[r])

\* The hash stored in a block and the hash map never disagree, so that
\* _maybe_evict_cached_block always finds the entry it has to remove; the null
\* block is never cached.
HashMapAgrees == MapIsExact(pool) /\ pool.block_hash[NullBlock] = NoHash

\* A held block is either not cached or cached under the hash of the tokens its
\* holder has at that place; a block past num_cached_block has no hash, which
\* cache_full_blocks asserts.
HeldBlocksHaveOwnHash ==
    \A r \in Requests : \A i \in DOMAIN req_to_blocks[r] :
      LET h == pool.block_hash[req_to_blocks[r][i]] IN
      h # NoHash => i <= num_cached_block[r] /\ h = BlockHash(r, i)

\* Two requests share a block only at the same place of their block tables, and
\* only if their tokens agree up to its end: the block's KV entries are right
\* for both. It stays so when the hash is evicted while they hold the block.
SharedBlocksAgree ==
    \A q, r \in Requests :
      \A i \in DOMAIN req_to_blocks[q], j \in DOMAIN req_to_blocks[r] :
        q # r /\ req_to_blocks[q][i] = req_to_blocks[r][j]
          => /\ i = j /\ BlockHash(q, i) = BlockHash(r, i)
             /\ i <= num_cached_block[q] /\ i <= num_cached_block[r]

\* Every computed or scheduled token has a slot.
SlotsCoverTokens ==
    \A r \in Requests :
      num_computed_tokens[r] + num_scheduled_tokens[r]
        <= Len(req_to_blocks[r]) * BlockSize

\* Only complete blocks of known tokens are hashed.
CachedBlocksAreFull ==
    \A r \in Requests :
      /\ num_cached_block[r] <= Len(req_to_blocks[r])
      /\ num_cached_block[r] * BlockSize
           <= Min2(num_tokens(r), num_computed_tokens[r] + num_scheduled_tokens[r])

\* A block shared by several requests is still being filled by at most one of
\* them: for the others all its slots are computed. The one that fills it may
\* be scheduled in the same pass as the ones that already reuse it.
OneWriterPerBlock ==
    \A q, r \in Requests :
      \A i \in DOMAIN req_to_blocks[q], j \in DOMAIN req_to_blocks[r] :
        q # r /\ req_to_blocks[q][i] = req_to_blocks[r][j]
          => \/ i * BlockSize <= num_computed_tokens[q]
             \/ j * BlockSize <= num_computed_tokens[r]

\* Once allocate_slots has passed its check, get_new_blocks finds enough blocks
\* and does not raise, although touch has taken the hit blocks off the queue.
AllocationNeverRaises ==
    \A r \in Requests :
      \A hit \in IF req_to_blocks[r] = <<>> THEN get_computed_blocks(r) ELSE {<<>>},
         slots \in 1 .. MaxModelLen :
        (get_num_blocks_to_allocate(r, slots, hit) <= get_num_free_blocks(pool))
          => (num_new_blocks(r, slots, hit)
                <= get_num_free_blocks(touch(pool, hit)))

\* free_blocks gets the tail of a request first, so that the blocks of a cached
\* prefix are evicted from its end: the block before a cached block is cached
\* too, and is held or behind it in the free queue. (evict_blocks may break
\* such chains.)
CachedChainsStayReachable ==
    \A b \in Blocks :
      LET h == pool.block_hash[b] IN
      h # NoHash /\ Len(h) > BlockSize =>
        \E c \in get_cached_block(pool, SubSeq(h, 1, Len(h) - BlockSize)) :
          \/ pool.ref_cnt[c] > 0
          \/ \E i, j \in DOMAIN pool.free :
               pool.free[i] = b /\ pool.free[j] = c /\ i < j

\* Block tables are append-only while a request holds them (NOTE #1 of
\* BlockHashToBlockMap), and a block keeps its hash while somebody holds it
\* unless it is evicted from the prefix cache.
TableStep ==
    /\ \A r \in Requests :
         \/ req_to_blocks'[r] = <<>>
         \/ SubSeq(req_to_blocks'[r], 1, Len(req_to_blocks[r])) = req_to_blocks[r]
    /\ \A b \in Blocks :
         pool.block_hash[b] # NoHash /\ pool.ref_cnt[b] > 0
           => pool.block_hash'[b] \in {pool.block_hash[b], NoHash}

BlockTablesAppendOnly == [][TableStep]_kvmVars
=============================================================================

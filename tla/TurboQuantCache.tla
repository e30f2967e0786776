--------------------------- MODULE TurboQuantCache ---------------------------
(***************************************************************************)
(* The paged TurboQuant cache of one layer and head: the slot mapping of a  *)
(* batch, store_turboquant_kv and the gather of dequant_paged_kv.           *)
(*                                                                         *)
(* Block tables come from the KV-cache manager. Module KVCacheManager        *)
(* guarantees that a new block is in no table, that a request starts from   *)
(* cached blocks only if they are those of its own tokens, and that a block *)
(* has one writer (OneWriterPerBlock). This module assumes more of the      *)
(* last: a request writes only to blocks that no other request has in its   *)
(* table, so a hit on a block that the same batch still fills is left out;  *)
(* EngineCore has it (CachedEntriesAreRight).                               *)
(***************************************************************************)
EXTENDS TurboQuantOps, Functions

CONSTANTS
    Requests, NumBlocks, BlockSize,
    HeadSize,         \* D; even
    Centroids,        \* _tq_centroids, sorted
    Tokens,           \* the keys and values tried
    MaxSeqLen,        \* bound on the tokens of a request
    MaxBatch          \* bound on the new tokens of a request in a batch

ASSUME CacheAssumption ==
    /\ NumBlocks \in Nat \ {0} /\ BlockSize \in Nat \ {0}
    /\ HeadSize \in Nat \ {0} /\ HeadSize % 2 = 0
    /\ Centroids \in Seq(Int) /\ Len(Centroids) \in 1 .. 16 /\ IsSorted(Centroids)
    /\ MaxSeqLen \in Nat /\ MaxBatch \in Nat
    /\ \A t \in Tokens : {t.key, t.value} \subseteq [y : [1 .. HeadSize -> Int], norm : Norms]

VARIABLES
    kv_cache,         \* the bytes of every slot, by block and offset
    block_table,      \* the blocks of each request
    text              \* history: the vectors stored for each request, in order

vars == <<kv_cache, block_table, text>>

Blocks == 0 .. NumBlocks - 1
Offsets == 0 .. BlockSize - 1

Init ==
    /\ kv_cache = [b \in Blocks |-> [o \in Offsets |->
                     [i \in 1 .. compute_paper_slot_size(HeadSize) |-> 0]]]
    /\ block_table = [r \in Requests |-> <<>>]
    /\ text = [r \in Requests |-> <<>>]
-----------------------------------------------------------------------------
(* Storing a batch: the new tokens of each request *)

\* The places of a batch: request, and index of the token among its new ones.
places(batch) == {l \in Requests \X (1 .. MaxBatch) : l[2] <= Len(batch[l[1]])}

\* The position (from 0) of a place.
position(l) == Len(text[l[1]]) + l[2] - 1

\* _compute_slot_mapping_kernel, without context parallelism.
slot_mapping(l) ==
    LET pos == position(l)
        block_index == pos \div BlockSize
    IN  block_table[l[1]][block_index + 1] * BlockSize + (pos - block_index * BlockSize)

\* The places whose vectors are written to offset off of block blk.
written(batch, blk, off) ==
    LET valid == {l \in places(batch) : slot_mapping(l) >= 0}
    IN  {l \in valid : slot_mapping(l) \div BlockSize = blk /\ slot_mapping(l) % BlockSize = off}

\* What a slot holds of a token: the key, then the value.
slot_bytes(token) == slot_data(token.key, token.value, Centroids)

store_turboquant_kv(batch) ==
    [b \in Blocks |-> [o \in Offsets |->
       IF written(batch, b, o) = {} THEN kv_cache[b][o]
       ELSE LET l == CHOOSE l \in written(batch, b, o) : TRUE
            IN  slot_bytes(batch[l[1]][l[2]])]]

\* Every new token has a slot, in a block that no other request has (an assumption on
\* the block tables: see above).
HasSlots(batch) ==
    \A l \in places(batch) :
      LET page == position(l) \div BlockSize + 1
      IN  /\ position(l) < MaxSeqLen /\ page <= Len(block_table[l[1]])
          /\ \A q \in Requests \ {l[1]} : block_table[l[1]][page] \notin Range(block_table[q])

\* forward, up to the attention itself.
Store(batch) ==
    /\ places(batch) # {} /\ HasSlots(batch)
    /\ kv_cache' = store_turboquant_kv(batch)
    /\ text' = [r \in Requests |-> text[r] \o batch[r]]
    /\ UNCHANGED block_table
-----------------------------------------------------------------------------
(* The KV-cache manager, as far as it matters here *)

InUse == UNION {Range(block_table[r]) : r \in Requests}

\* A new block; block 0 is the null block.
Allocate(r, b) ==
    /\ b \in Blocks \ ({0} \cup InUse) /\ Len(block_table[r]) * BlockSize < MaxSeqLen
    /\ block_table' = [block_table EXCEPT ![r] = Append(@, b)]
    /\ UNCHANGED <<kv_cache, text>>

\* A prefix-cache hit: r starts from the first n blocks of q.
Share(r, q, n) ==
    /\ block_table[r] = <<>> /\ n > 0 /\ n * BlockSize <= Len(text[q])
    /\ block_table' = [block_table EXCEPT ![r] = SubSeq(block_table[q], 1, n)]
    /\ text' = [text EXCEPT ![r] = SubSeq(text[q], 1, n * BlockSize)]
    /\ UNCHANGED kv_cache

\* Preemption or the end of a request: its blocks may be given to others.
Free(r) ==
    /\ block_table[r] # <<>>
    /\ block_table' = [block_table EXCEPT ![r] = <<>>]
    /\ text' = [text EXCEPT ![r] = <<>>]
    /\ UNCHANGED kv_cache
-----------------------------------------------------------------------------
(* dequant_paged_kv *)

\* The row of r in a block-table tensor of this width. Behind its blocks there may be
\* anything: rows are moved and reused without being cleared.
row(r, width, stale) ==
    [i \in 1 .. width |-> IF i <= Len(block_table[r]) THEN block_table[r][i] ELSE stale]

\* What the dense buffers get for request r at position pos (from 0), before the
\* centroids are looked up and scaled.
dequant(r, pos, width, stale) ==
    LET page_idx == pos \div BlockSize
        max_page == width - 1
        block_num == row(r, width, stale)[(IF page_idx > max_page THEN max_page ELSE page_idx) + 1]
    IN  read_slot(kv_cache[block_num][pos % BlockSize], HeadSize)
-----------------------------------------------------------------------------
NewTokens == UNION {[1 .. n -> Tokens] : n \in 0 .. MaxBatch}

Next ==
    \/ \E r \in Requests :
         \/ \E b \in Blocks : Allocate(r, b)
         \/ \E q \in Requests \ {r}, n \in 1 .. MaxSeqLen : Share(r, q, n)
         \/ Free(r)
    \/ \E batch \in [Requests -> NewTokens] : Store(batch)

Spec == Init /\ [][Next]_vars
-----------------------------------------------------------------------------
(* What the cache promises *)

\* Every slot holds as many bytes as compute_paper_slot_size allots to a key and a
\* value.
CacheTypeOK ==
    /\ kv_cache \in [Blocks -> [Offsets -> Seq(0 .. 255)]]
    /\ \A b \in Blocks, o \in Offsets : Len(kv_cache[b][o]) = compute_paper_slot_size(HeadSize)
    /\ \A r \in Requests : Len(text[r]) <= Len(block_table[r]) * BlockSize

\* Whatever batches are stored, blocks reused and prefixes shared: at every position
\* of a request dequant_paged_kv finds the indices and the norms that
\* store_turboquant_kv computed for the key and the value of that token of that
\* request, for every width of the block table that has its blocks. What the gather
\* finds behind the last position is not a matter of this property.
ReadsBackWhatWasStored ==
    \A r \in Requests : \A pos \in 0 .. Len(text[r]) - 1 :
      \A width \in Len(block_table[r]) .. NumBlocks, stale \in Blocks :
        dequant(r, pos, width, stale) =
          [key   |-> quantized(text[r][pos + 1].key, Centroids),
           value |-> quantized(text[r][pos + 1].value, Centroids)]

\* The index read back for a coordinate is the one of a nearest centroid: what
\* Algorithm 1 in _quantize_single_vector asks for, argmin_k |y_j - c_k|.
ReadsBackNearestCentroid ==
    \A r \in Requests : \A pos \in 0 .. Len(text[r]) - 1 : \A j \in 1 .. HeadSize :
      LET found == dequant(r, pos, Len(block_table[r]), 0)
          y(v) == text[r][pos + 1][v].y[j]
      IN  \A v \in {"key", "value"} : \A k \in DOMAIN Centroids :
            Distance(y(v), Centroids[found[v].indices[j] + 1]) <= Distance(y(v), Centroids[k])
=============================================================================

----------------------------- MODULE ModelRunner -----------------------------
(***************************************************************************)
(* The worker: what NPUModelRunner (a GPUModelRunner) remembers of requests *)
(* between batches, and the KV cache in device memory.                      *)
(*                                                                         *)
(* An entry of the KV cache stands for the text it was computed from: the   *)
(* entry at position p depends on the first p tokens. Which tokens these    *)
(* are is all the model keeps of a key/value pair; its rotation,            *)
(* quantisation and packing are not modelled here. The sampled token is a   *)
(* function of the text that attention sees.                                *)
(***************************************************************************)
EXTENDS InputBatch

CONSTANTS
    Requests, NumGpuBlocks, BlockSize,
    NextToken(_),     \* the model: the token it samples after a text
    Unknown,          \* a token id that is not known on the host (-1)
    Garbage           \* what is sampled from an inconsistent KV cache

VARIABLES
    async_scheduling,
    requests,         \* CachedRequestState of the requests the worker knows
    input_batch,      \* the rows of the persistent batch
    prev_sampled_token_ids,   \* on the device, by row of the previous batch
    prev_req_id_to_index,     \* the rows whose sampled token counts
    kv_caches         \* the KV cache: the entry in every slot of every block

workerVars ==
    <<requests, input_batch, prev_sampled_token_ids, prev_req_id_to_index, kv_caches>>

Smaller(a, b) == IF a < b THEN a ELSE b

\* An entry that matches no text.
Junk == <<Unknown>>

WorkerInit ==
    /\ requests = [r \in {} |-> <<>>]
    /\ input_batch = [i \in {} |-> <<>>]
    /\ prev_sampled_token_ids = [i \in {} |-> <<>>]
    /\ prev_req_id_to_index = [r \in {} |-> 0]
    /\ kv_caches = [b \in 0 .. NumGpuBlocks - 1 |-> [o \in 0 .. BlockSize - 1 |-> Junk]]
-----------------------------------------------------------------------------
(* _update_states(batch) *)

members(batch) == Range(batch.order)

\* What stays in the persistent batch: not the finished requests, not the ones
\* that are not scheduled, and not the resumed ones, which enter it again.
remaining(batch) ==
    (req_ids(input_batch) \ batch.finished_req_ids) \cap (members(batch) \ batch.resumed)

\* Variant: the tokens on the device are not recovered.
cached_tokens_on_host(batch, r) ==
    SubSeq(requests[r].token_ids, 1,
           Smaller(Len(requests[r].token_ids),
                   requests[r].num_prompt_tokens + batch.num_output_tokens[r]))

\* The tokens of a request that was known before. One that enters the batch
\* again had its sampled tokens on the device only: the scheduler sends them.
cached_tokens(batch, r) ==
    LET old == requests[r]
        n == batch.num_output_tokens[r]
        sent == batch.all_token_ids[r]
        kept == SubSeq(old.token_ids, 1, Smaller(Len(old.token_ids), old.num_prompt_tokens + n))
    IN  IF async_scheduling /\ r \notin remaining(batch) /\ n > 0
        THEN SubSeq(old.token_ids, 1, old.num_prompt_tokens)
               \o SubSeq(sent, Len(sent) - Smaller(n, Len(sent)) + 1, Len(sent))
        ELSE kept

\* Variant: a resumed request keeps its old blocks in front of the new ones.
updated_state_appending(batch, r) ==
    IF r \in batch.new
    THEN [num_prompt_tokens |-> Len(batch.all_token_ids[r]),
          token_ids |-> batch.all_token_ids[r],
          block_ids |-> batch.new_block_ids[r]]
    ELSE [num_prompt_tokens |-> requests[r].num_prompt_tokens,
          token_ids |-> cached_tokens(batch, r),
          block_ids |-> requests[r].block_ids \o batch.new_block_ids[r]]

updated_state(batch, r) ==
    IF r \in batch.new
    THEN [num_prompt_tokens |-> Len(batch.all_token_ids[r]),
          token_ids |-> batch.all_token_ids[r],
          block_ids |-> batch.new_block_ids[r]]
    ELSE [num_prompt_tokens |-> requests[r].num_prompt_tokens,
          token_ids |-> cached_tokens(batch, r),
          block_ids |-> IF r \in batch.resumed THEN batch.new_block_ids[r]
                        ELSE requests[r].block_ids \o batch.new_block_ids[r]]

\* The cached states after _update_states.
updated_states(batch) ==
    [r \in (DOMAIN requests \ batch.finished_req_ids) \cup members(batch) |->
       IF r \in members(batch) THEN updated_state(batch, r) ELSE requests[r]]

\* The row of a request that stays in the batch.
updated_row(batch, row) ==
    [row EXCEPT !.num_computed_tokens = batch.num_computed_tokens[row.req_id],
                !.block_ids = @ \o batch.new_block_ids[row.req_id],
                !.token_ids = SubSeq(@, 1, Smaller(Len(@), row.num_prompt_tokens
                                             + batch.num_output_tokens[row.req_id]))]

\* The persistent batch after _update_states: rows are removed and updated, then
\* the new requests enter, then the ones that come back.
updated_rows(batch, states) ==
    LET stay == remaining(batch)
        kept == remove_requests(input_batch, stay)
        reqs_to_add == SelectSeq(batch.order, LAMBDA r : r \in batch.new)
                         \o SelectSeq(batch.order, LAMBDA r : r \notin batch.new \cup stay)
        new_row(r) ==
          [req_id |-> r, num_prompt_tokens |-> states[r].num_prompt_tokens,
           token_ids |-> states[r].token_ids, block_ids |-> states[r].block_ids,
           num_computed_tokens |-> batch.num_computed_tokens[r]]
        added == FoldLeft(LAMBDA rows, r : add_request(rows, new_row(r)),
                          [i \in DOMAIN kept |-> updated_row(batch, kept[i])], reqs_to_add)
    IN  reorder_batch(condense(added), batch.num_scheduled_tokens)
-----------------------------------------------------------------------------
(* _prepare_inputs *)

seq_len(batch, row) == row.num_computed_tokens + batch.num_scheduled_tokens[row.req_id]

\* cu_num_tokens: where the tokens of row i end in the flattened input.
cu_num_tokens(batch, rows) ==
    [i \in DOMAIN rows |->
       FoldFunctionOnSet(+, 0, [j \in DOMAIN rows |-> batch.num_scheduled_tokens[rows[j].req_id]],
                         0 .. i)]

\* token_ids_cpu at the scheduled positions of all rows, one after the other.
host_input_ids(batch, rows) ==
    LET ids(row) == [k \in 1 .. batch.num_scheduled_tokens[row.req_id] |->
                       LET p == row.num_computed_tokens + k
                       IN  IF p <= Len(row.token_ids) THEN row.token_ids[p] ELSE Unknown]
    IN  FlattenSeq([i \in 1 .. Cardinality(DOMAIN rows) |-> ids(rows[i - 1])])

\* _prepare_input_ids: the last token of a row that sampled one in the previous
\* batch is on the device only. The host's ids are copied unless all tokens are
\* of that kind; then the tokens are copied as a slice if they have not moved,
\* else scattered. What is not written is left from an earlier batch.
device_input_ids(batch, rows) ==
    LET host == host_input_ids(batch, rows)
        cu == cu_num_tokens(batch, rows)
        common == {i \in DOMAIN rows :
                     rows[i].req_id \in DOMAIN prev_req_id_to_index \cap remaining(batch)}
        prev(i) == prev_req_id_to_index[rows[i].req_id]
        num_common == Cardinality(common)
        copied == IF num_common < Len(host) THEN host ELSE [f \in DOMAIN host |-> Unknown]
        as_slice == \A i \in common : prev(i) = cu[i] - 1 /\ cu[i] <= num_common
        scattered == [f \in {cu[i] : i \in common} |->
                        prev_sampled_token_ids[prev(CHOOSE i \in common : cu[i] = f)]]
        slice == [f \in 1 .. num_common |-> prev_sampled_token_ids[f - 1]]
    IN  (IF as_slice THEN slice ELSE scattered) @@ copied

\* A prefill chunk: what is sampled after it is thrown away.
to_be_discarded(batch, row, states) ==
    seq_len(batch, row) < Len(states[row.req_id].token_ids)
-----------------------------------------------------------------------------
(* The forward pass: every entry is stored, then attention reads them *)

\* slot_mapping. Past its blocks a row of the block table holds zeros.
slot(block_ids, p) ==
    LET k == (p - 1) \div BlockSize + 1
    IN  <<IF k <= Len(block_ids) THEN block_ids[k] ELSE 0, (p - 1) % BlockSize>>

entry(kv, block_ids, p) == kv[slot(block_ids, p)[1]][slot(block_ids, p)[2]]

\* The text that the first n entries of a block table agree on.
text(kv, block_ids, n) ==
    IF n = 0 THEN <<>>
    ELSE LET s == entry(kv, block_ids, n)
         IN  IF Len(s) = n /\ \A p \in 1 .. n : entry(kv, block_ids, p) = SubSeq(s, 1, p)
             THEN s ELSE Junk

\* The KV cache after the entries of a row for its input tokens are stored.
store(kv, row, ids) ==
    LET before == text(kv, row.block_ids, row.num_computed_tokens)
        writes(k, b, o) == slot(row.block_ids, row.num_computed_tokens + k) = <<b, o>>
    IN  [b \in DOMAIN kv |-> [o \in DOMAIN kv[b] |->
           IF \E k \in DOMAIN ids : writes(k, b, o)
           THEN before \o SubSeq(ids, 1, CHOOSE k \in DOMAIN ids : writes(k, b, o))
           ELSE kv[b][o]]]

\* Every layer stores the entries of all rows before attention reads any, so a
\* row may build on entries that a row after it stores in the same batch: a block
\* is found in the prefix cache before it is computed. In the model, the rows are
\* stored again until each has seen the entries that it builds on.
stored(batch, rows) ==
    LET n == Cardinality(DOMAIN rows)
        ids == device_input_ids(batch, rows)
        cu == cu_num_tokens(batch, rows)
        ids_of(i) == SubSeq(ids, cu[i] - batch.num_scheduled_tokens[rows[i].req_id] + 1, cu[i])
    IN  FoldLeft(LAMBDA kv, i : store(kv, rows[i], ids_of(i)),
                 kv_caches, [k \in 1 .. n * n |-> k % n])

sampled_token(batch, row, kv) ==
    LET s == text(kv, row.block_ids, seq_len(batch, row))
    IN  IF Unknown \in Range(s) THEN Garbage ELSE NextToken(s)

sampled_tokens(batch, rows, kv) ==
    [i \in DOMAIN rows |-> sampled_token(batch, rows[i], kv)]
-----------------------------------------------------------------------------
(* _bookkeeping_sync; valid: the rows whose sampled token counts *)

valid_rows(batch, rows, states) ==
    {i \in DOMAIN rows : ~to_be_discarded(batch, rows[i], states)}

with_token(rows, valid) == {rows[i].req_id : i \in valid}

\* In async scheduling the token stays on the device.
new_ids(sampled, i) == IF async_scheduling THEN <<Unknown>> ELSE <<sampled[i]>>

\* The sampled tokens join the cached states and the rows.
states_after(states, rows, valid, sampled) ==
    [r \in DOMAIN states |->
       IF r \in with_token(rows, valid)
       THEN [states[r] EXCEPT !.token_ids = @ \o new_ids(sampled, req_index(rows, r))]
       ELSE states[r]]

rows_after(rows, valid, sampled) ==
    [i \in DOMAIN rows |->
       IF i \in valid THEN [rows[i] EXCEPT !.token_ids = @ \o new_ids(sampled, i)] ELSE rows[i]]

sampled_token_ids(batch, rows, valid, sampled) ==
    [r \in members(batch) |->
       IF r \in with_token(rows, valid) THEN <<sampled[req_index(rows, r)]>> ELSE <<>>]

\* What a batch leaves behind and returns. An empty batch only updates states.
executed(batch) ==
    LET states == updated_states(batch)
        rows == updated_rows(batch, states)
        kv == stored(batch, rows)
        sampled == sampled_tokens(batch, rows, kv)
        valid == valid_rows(batch, rows, states)
    IN  [requests |-> states_after(states, rows, valid, sampled),
         rows |-> rows_after(rows, valid, sampled),
         prev_sampled |-> IF async_scheduling THEN sampled ELSE prev_sampled_token_ids,
         prev_index |-> IF async_scheduling
                        THEN [r \in with_token(rows, valid) |-> req_index(rows, r)]
                        ELSE prev_req_id_to_index,
         kv_caches |-> kv,
         sampled_token_ids |-> sampled_token_ids(batch, rows, valid, sampled)]

execute_model(result) ==
    /\ requests' = result.requests
    /\ input_batch' = result.rows
    /\ prev_sampled_token_ids' = result.prev_sampled
    /\ prev_req_id_to_index' = result.prev_index
    /\ kv_caches' = result.kv_caches
=============================================================================

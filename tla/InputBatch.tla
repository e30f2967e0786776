----------------------------- MODULE InputBatch -----------------------------
(***************************************************************************)
(* The persistent batch of a worker (vllm/v1/worker/gpu_input_batch.py): a  *)
(* table with one row for every request of the current batch, kept from     *)
(* step to step. Rows of requests that leave are filled again, the table is *)
(* condensed, and it is reordered so that decodes come before prefills.     *)
(*                                                                         *)
(* The table is a function on the indices (from 0) that hold a request; a   *)
(* row has the fields req_id, num_prompt_tokens, token_ids (the active part *)
(* of token_ids_cpu), num_computed_tokens and block_ids. Sampling           *)
(* parameters, LoRA ids and prompt embeddings move with the row and are     *)
(* left out.                                                                *)
(***************************************************************************)
EXTENDS Integers, Sequences, FiniteSets, SequencesExt

\* reorder_batch_threshold of the attention backend.
DecodeThreshold == 1

req_ids(rows) == {rows[i].req_id : i \in DOMAIN rows}

req_index(rows, r) == CHOOSE i \in DOMAIN rows : rows[i].req_id = r

\* The rows after remove_request of all requests but the ones in stay.
remove_requests(rows, stay) ==
    Restrict(rows, {i \in DOMAIN rows : rows[i].req_id \in stay})

\* The smallest index a removed request left, else the one after the last row.
next_index(rows) == Min((0 .. Cardinality(DOMAIN rows)) \ DOMAIN rows)

add_request(rows, row) ==
    [i \in DOMAIN rows \cup {next_index(rows)} |->
       IF i = next_index(rows) THEN row ELSE rows[i]]

\* The last row slides down into the smallest empty index, until none is below.
slide_down(rows) ==
    LET last == Max(DOMAIN rows)
        empty == next_index(rows)
    IN  IF DOMAIN rows = {} \/ empty > last THEN rows
        ELSE [i \in (DOMAIN rows \ {last}) \cup {empty} |->
                IF i = empty THEN rows[last] ELSE rows[i]]

condense(rows) ==
    LET after[n \in 0 .. Cardinality(DOMAIN rows)] ==
          IF n = 0 THEN rows ELSE slide_down(after[n - 1])
    IN  after[Cardinality(DOMAIN rows)]
-----------------------------------------------------------------------------
(* reorder_batch_to_split_decodes_and_prefills *)

\* Variant: the rows of the block table are not swapped.
swap_states_but_blocks(rows, i1, i2) ==
    [rows EXCEPT ![i1] = [rows[i2] EXCEPT !.block_ids = rows[i1].block_ids],
                 ![i2] = [rows[i1] EXCEPT !.block_ids = rows[i2].block_ids]]

swap_states(rows, i1, i2) == [rows EXCEPT ![i1] = rows[i2], ![i2] = rows[i1]]

\* decode, short_extend, long_extend or prefill, as a number.
region(row, num_scheduled_tokens) ==
    CASE row.num_computed_tokens = 0 -> 3
      [] row.num_computed_tokens > 0 /\ num_scheduled_tokens > DecodeThreshold -> 2
      [] row.num_computed_tokens \in 1 .. row.num_prompt_tokens - 1
           /\ num_scheduled_tokens <= DecodeThreshold -> 1
      [] OTHER -> 0

\* Variant: dst is not marked as done.
swap_into_place_again(table, src) ==
    IF src = table.dst THEN table
    ELSE [rows |-> swap_states(table.rows, src, table.dst),
          dest |-> table.dest, dst |-> table.dest[table.dst]]

\* One turn of the loop over a cycle: the row at src goes where it belongs, and
\* the one it displaced is next. dest is src_dest_map; a dst that is reached is
\* done. Nothing happens once the cycle is closed.
swap_into_place(table, src) ==
    IF src = table.dst THEN table
    ELSE [rows |-> swap_states(table.rows, src, table.dst),
          dest |-> [table.dest EXCEPT ![table.dst] = table.dst],
          dst  |-> table.dest[table.dst]]

\* A cycle has at most as many turns as there are rows to move.
follow_cycle(table, src) ==
    LET after[n \in 0 .. Cardinality(DOMAIN table.dest)] ==
          IF n = 0 THEN [table EXCEPT !.dst = table.dest[src]]
          ELSE swap_into_place(after[n - 1], src)
    IN  after[Cardinality(DOMAIN table.dest)]

reorder_batch(rows, num_scheduled_tokens) ==
    LET regions == [i \in DOMAIN rows |->
                      region(rows[i], num_scheduled_tokens[rows[i].req_id])]
        by_region(S) ==
          SetToSortSeq(S, LAMBDA i, j : regions[i] < regions[j]
                                          \/ (regions[i] = regions[j] /\ i < j))
        target == by_region(DOMAIN rows)
        needs_swap == {i \in DOMAIN rows : regions[i] # regions[target[i + 1]]}
        orig_indices == SetToSortSeq(needs_swap, LAMBDA i, j : i < j)
        src_indices == by_region(needs_swap)
        dest == [src \in needs_swap |->
                   orig_indices[CHOOSE k \in DOMAIN src_indices : src_indices[k] = src]]
    IN  FoldLeft(follow_cycle, [rows |-> rows, dest |-> dest, dst |-> 0], src_indices).rows
=============================================================================

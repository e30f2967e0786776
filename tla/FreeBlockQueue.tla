--------------------------- MODULE FreeBlockQueue ---------------------------
(***************************************************************************)
(* FreeKVCacheBlockQueue (vllm/v1/core/kv_cache_utils.py): the free blocks  *)
(* as a doubly linked list threaded through the blocks themselves, between  *)
(* a fake head and a fake tail, so that a block can leave from the middle.  *)
(* A block outside the list has no links, which is how remove() recognises  *)
(* it.                                                                      *)
(***************************************************************************)
EXTENDS Integers, Sequences, Functions

CONSTANT NumBlocks      \* len(blocks)

ASSUME NumBlocksAssumption == NumBlocks \in Nat

VARIABLES
    next_free_block, prev_free_block,   \* the links of every block, or None
    num_free_blocks,
    ret, raised                         \* the outcome of the last call

links == <<next_free_block, prev_free_block>>
vars == <<links, num_free_blocks, ret, raised>>

Blocks == 0 .. NumBlocks - 1
fake_free_list_head == NumBlocks
fake_free_list_tail == NumBlocks + 1
Nodes == 0 .. NumBlocks + 1
None == -1

\* The node reached by following next_free_block i times from the fake head.
Walk[i \in Nat] ==
    IF i = 0 THEN fake_free_list_head
    ELSE IF Walk[i - 1] = None THEN None
    ELSE next_free_block[Walk[i - 1]]

get_all_free_blocks == [i \in 1 .. num_free_blocks |-> Walk[i]]

Queue == INSTANCE BlockQueue WITH queue <- get_all_free_blocks
-----------------------------------------------------------------------------
\* __init__: the blocks in the order of their ids.
Init ==
    /\ next_free_block = [x \in Nodes |->
          IF x = fake_free_list_tail THEN None
          ELSE IF x = fake_free_list_head
               THEN IF NumBlocks > 0 THEN 0 ELSE fake_free_list_tail
          ELSE IF x < NumBlocks - 1 THEN x + 1 ELSE fake_free_list_tail]
    /\ prev_free_block = [x \in Nodes |->
          IF x = fake_free_list_head THEN None
          ELSE IF x = fake_free_list_tail
               THEN IF NumBlocks > 0 THEN NumBlocks - 1 ELSE fake_free_list_head
          ELSE IF x > 0 THEN x - 1 ELSE fake_free_list_head]
    /\ num_free_blocks = NumBlocks
    /\ ret = <<>> /\ raised = FALSE

Raise ==
    /\ raised' = TRUE /\ ret' = <<>>
    /\ UNCHANGED <<links, num_free_blocks>>

Return(blocks) == raised' = FALSE /\ ret' = blocks

\* The list is empty, or its first block has lost its successor.
cannot_pop ==
    LET first == next_free_block[fake_free_list_head] IN
    \/ first \in {fake_free_list_tail, None}
    \/ next_free_block[first] = None

popleft ==
    \/ cannot_pop /\ Raise
    \/ LET first == next_free_block[fake_free_list_head]
           second == next_free_block[first]
       IN  /\ ~cannot_pop
           /\ next_free_block' = [next_free_block EXCEPT
                 ![fake_free_list_head] = second, ![first] = None]
           /\ prev_free_block' = [prev_free_block EXCEPT
                 ![second] = fake_free_list_head, ![first] = None]
           /\ num_free_blocks' = num_free_blocks - 1
           /\ Return(<<first>>)

\* The first n blocks lose their links, and the head is tied to what follows.
popleft_n(n) ==
    LET popped == {Walk[i] : i \in 1 .. n} IN
    \/ n > num_free_blocks /\ Raise
    \/ n = 0 /\ Return(<<>>) /\ UNCHANGED <<links, num_free_blocks>>
    \/ /\ 0 < n /\ n <= num_free_blocks
       /\ next_free_block' = [x \in Nodes |->
             IF x = fake_free_list_head THEN Walk[n + 1]
             ELSE IF x \in popped THEN None ELSE next_free_block[x]]
       /\ prev_free_block' = [x \in Nodes |->
             IF x = Walk[n + 1] THEN fake_free_list_head
             ELSE IF x \in popped THEN None ELSE prev_free_block[x]]
       /\ num_free_blocks' = num_free_blocks - n
       /\ Return([i \in 1 .. n |-> Walk[i]])

\* Variant: the removed block keeps its links.
remove_keeping_links(block) ==
    LET before == prev_free_block[block]
        after == next_free_block[block]
    IN  \/ None \in {before, after} /\ Raise
        \/ /\ None \notin {before, after}
           /\ next_free_block' = [next_free_block EXCEPT ![before] = after]
           /\ prev_free_block' = [prev_free_block EXCEPT ![after] = before]
           /\ num_free_blocks' = num_free_blocks - 1
           /\ Return(<<>>)

remove(block) ==
    LET before == prev_free_block[block]
        after == next_free_block[block]
    IN  \/ None \in {before, after} /\ Raise
        \/ /\ None \notin {before, after}
           /\ next_free_block' = [next_free_block EXCEPT ![before] = after, ![block] = None]
           /\ prev_free_block' = [prev_free_block EXCEPT ![after] = before, ![block] = None]
           /\ num_free_blocks' = num_free_blocks - 1
           /\ Return(<<>>)

append(block) ==
    LET last == prev_free_block[fake_free_list_tail] IN
    /\ block \notin Range(get_all_free_blocks)
    /\ next_free_block' = [next_free_block EXCEPT
          ![last] = block, ![block] = fake_free_list_tail]
    /\ prev_free_block' = [prev_free_block EXCEPT
          ![block] = last, ![fake_free_list_tail] = block]
    /\ num_free_blocks' = num_free_blocks + 1
    /\ Return(<<>>)

\* The last block, the given blocks and the tail are tied together in this order.
append_n(blocks) ==
    LET n == Len(blocks)
        chain == <<prev_free_block[fake_free_list_tail]>> \o blocks \o <<fake_free_list_tail>>
        place(x) == CHOOSE i \in 1 .. n + 2 : chain[i] = x
    IN  /\ Range(blocks) \cap Range(get_all_free_blocks) = {}
        /\ \/ n = 0 /\ UNCHANGED links
           \/ /\ n > 0
              /\ next_free_block' = [x \in Nodes |->
                    IF \E i \in 1 .. n + 1 : chain[i] = x
                    THEN chain[place(x) + 1] ELSE next_free_block[x]]
              /\ prev_free_block' = [x \in Nodes |->
                    IF \E i \in 2 .. n + 2 : chain[i] = x
                    THEN chain[place(x) - 1] ELSE prev_free_block[x]]
        /\ num_free_blocks' = num_free_blocks + n
        /\ Return(<<>>)

Next ==
    \/ popleft
    \/ \E n \in 0 .. NumBlocks + 1 : popleft_n(n)
    \/ \E block \in Blocks : remove(block) \/ append(block)
    \/ \E blocks \in Queue!BlockLists : append_n(blocks)

Spec == Init /\ [][Next]_vars
-----------------------------------------------------------------------------
\* The types of the links, the counter and the outcome.
TypeOK ==
    /\ next_free_block \in [Nodes -> Nodes \cup {None}]
    /\ prev_free_block \in [Nodes -> Nodes \cup {None}]
    /\ num_free_blocks \in 0 .. NumBlocks
    /\ ret \in Seq(Blocks) /\ raised \in BOOLEAN

\* Walking num_free_blocks + 1 links from the fake head ends at the fake tail
\* without meeting a node twice, every link back undoes the link forward, and a
\* block that is not met has no links at all: no sequence of pops, removals from
\* the middle and returns leaves a dangling or one-way link.
ListIsWhole ==
    LET n == num_free_blocks IN
    /\ Walk[n + 1] = fake_free_list_tail
    /\ \A i, j \in 0 .. n + 1 : Walk[i] = Walk[j] => i = j
    /\ \A i \in 1 .. n + 1 : prev_free_block[Walk[i]] = Walk[i - 1]
    /\ \A b \in Blocks \ {Walk[i] : i \in 1 .. n} :
         next_free_block[b] = None /\ prev_free_block[b] = None

\* The linked list behaves as the sequence that BlockPool takes it for: every
\* call returns, or raises, what it would on the sequence of free blocks.
ImplementsQueue == Queue!QueueSpec
=============================================================================

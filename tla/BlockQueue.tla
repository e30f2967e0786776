----------------------------- MODULE BlockQueue -----------------------------
(***************************************************************************)
(* What the free-block queue promises to BlockPool: it is a sequence of     *)
(* distinct blocks, taken from the front, extended at the back, and able to *)
(* give up any of its blocks. BlockPool uses it in this form (its field     *)
(* free); FreeBlockQueue is how the code builds it.                         *)
(*                                                                         *)
(* A call that the queue cannot serve raises and changes nothing.           *)
(***************************************************************************)
EXTENDS Integers, Sequences, Functions

CONSTANT NumBlocks

VARIABLES
    queue,     \* the free blocks, in the order in which they are handed out
    ret,       \* the blocks that the last call returned
    raised     \* whether the last call raised

queueVars == <<queue, ret, raised>>

Blocks == 0 .. NumBlocks - 1

IsInjectiveSeq(s) == \A i, j \in DOMAIN s : s[i] = s[j] => i = j

\* Lists of distinct blocks: what callers pass to append_n.
BlockLists == UNION {{s \in [1 .. n -> Blocks] : IsInjectiveSeq(s)} : n \in 0 .. NumBlocks}

QueueInit ==
    /\ queue = [i \in 1 .. NumBlocks |-> i - 1]
    /\ ret = <<>> /\ raised = FALSE

Raise ==
    /\ raised' = TRUE /\ ret' = <<>>
    /\ UNCHANGED queue

Return(blocks) == raised' = FALSE /\ ret' = blocks

Pop ==
    \/ queue = <<>> /\ Raise
    \/ /\ queue # <<>>
       /\ queue' = Tail(queue)
       /\ Return(<<Head(queue)>>)

PopN(n) ==
    \/ n > Len(queue) /\ Raise
    \/ /\ n <= Len(queue)
       /\ queue' = SubSeq(queue, n + 1, Len(queue))
       /\ Return(SubSeq(queue, 1, n))

Remove(b) ==
    \/ b \notin Range(queue) /\ Raise
    \/ \E i \in DOMAIN queue :
         /\ queue[i] = b
         /\ queue' = SubSeq(queue, 1, i - 1) \o SubSeq(queue, i + 1, Len(queue))
         /\ Return(<<>>)

\* Blocks are put back by a caller that holds them: they are not in the queue.
PutBack(blocks) ==
    /\ Range(blocks) \cap Range(queue) = {}
    /\ queue' = queue \o blocks
    /\ Return(<<>>)

QueueNext ==
    \/ Pop
    \/ \E n \in 0 .. NumBlocks + 1 : PopN(n)
    \/ \E b \in Blocks : Remove(b)
    \/ \E blocks \in BlockLists : PutBack(blocks)

QueueSpec == QueueInit /\ [][QueueNext]_queueVars
=============================================================================

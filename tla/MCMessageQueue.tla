--------------------------- MODULE MCMessageQueue ---------------------------
(***************************************************************************)
(* MessageQueue for TLC: two readers, both local on a ring of one chunk    *)
(* (every message overwrites the last), or one local on a ring of two      *)
(* chunks and one remote.                                                  *)
(***************************************************************************)
EXTENDS MessageQueue

MCHandles ==
  {[local_reader_ranks |-> {1, 2}, max_chunks |-> 1],
   [local_reader_ranks |-> {1}, max_chunks |-> 2]}
=============================================================================

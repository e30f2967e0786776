-------------------------- MODULE MCKVCacheManager --------------------------
(***************************************************************************)
(* Small instances of KVCacheManager.                                       *)
(***************************************************************************)
EXTENDS KVCacheManager

CONSTANTS a, b

MCTokens == {a, b}

\* Two prompts that share their first block and differ in the second.
MCPrompts == {<<a, a, a>>, <<a, a, b>>}
=============================================================================

---------------------------- MODULE MCEngineCore ----------------------------
(* EngineCore on small instances. *)
EXTENDS EngineCore, TLC

\* Token 9 ends a text; 0 stands for what an inconsistent cache yields.
MCTokens == {0, 1, 2, 9}

\* One prompt is a full block; the other one starts with that block.
MCPrompts == {<<1, 1>>, <<1, 1, 2>>}

\* How a text goes on depends on its length and on its tokens.
MCNextToken(s) ==
    IF Len(s) = 4 /\ s[3] = 2 THEN 9
    ELSE 1 + ((Len(s) + Cardinality({i \in DOMAIN s : s[i] = 2})) % 2)

MCSymmetry == Permutations(Requests)
=============================================================================

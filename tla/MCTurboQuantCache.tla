-------------------------- MODULE MCTurboQuantCache --------------------------
(* TurboQuantCache on a small instance. *)
EXTENDS TurboQuantCache, TLC

\* Sixteen centroids, so that both halves of a byte take all values they can.
MCCentroids == [i \in 1 .. 16 |-> 10 * i - 85]

\* Coordinates at and around boundaries and beyond the ends; one norm is 1.0, the other
\* has overflowed to infinity.
MCTokens ==
    LET v == [y |-> <<-90, 70>>, norm |-> 15360]
        w == [y |-> <<-74, 71>>, norm |-> 31744]
    IN  {[key |-> v, value |-> w], [key |-> w, value |-> v]}

Symmetry == Permutations(Requests)
=============================================================================

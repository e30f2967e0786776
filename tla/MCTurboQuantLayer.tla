-------------------------- MODULE MCTurboQuantLayer --------------------------
(* TurboQuantLayer on small models. *)
EXTENDS TurboQuantLayer

\* With one and three layers the boundary ranges are cut to half of the layers, with four
\* they meet, with six two layers are compressed.
MCLayerCounts == {1, 3, 4, 6}

\* 16 is the size for which some presets have as many centroids.
MCHeadSizes == {16, 64}

\* No window, windows on layer 2, windows on all layers.
MCSlidingPatterns == {{}, {2}, 0 .. 5}
=============================================================================

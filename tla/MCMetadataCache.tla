-------------------------- MODULE MCMetadataCache --------------------------
(* Two processes share one cache entry; three generations.                *)
EXTENDS MetadataCache, TLC

CONSTANTS p1, p2, g1, g2, g3

TwoProcs == {p1, p2}
ThreeGens == {g1, g2, g3}
Symmetric == Permutations(Procs) \cup Permutations(Gens)
=============================================================================

------------------------- MODULE MCAutoCadSelection -------------------------
(* One part with two sources; packages d1 and m1 agree, d2 differs, and x   *)
(* is a file that cannot be extracted.                                     *)
EXTENDS AutoCadSelection, TLC

CONSTANTS p1, p2, d1, d2, m1, x

TwoProcs == {p1, p2}
MCPackages == {d1, d2, m1, x}
MCSourceOf == (d1 :> "digikey") @@ (d2 :> "digikey") @@ (m1 :> "mouser")
              @@ (x :> "digikey")
MCSignature == (d1 :> 1) @@ (d2 :> 2) @@ (m1 :> 1)
\* Both are given both archives; only p2 runs with --overwrite.
MCCandidates == [p \in TwoProcs |-> {"digikey", "mouser"}]
MCOverwrite == (p1 :> FALSE) @@ (p2 :> TRUE)
MCRuns == [p \in TwoProcs |-> 1]
=============================================================================

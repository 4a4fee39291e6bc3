---------------------------- MODULE MCLibraryImport ----------------------------
(* Two parts that share a footprint and a 3D model, as parts of one package *)
(* do; one without a model, one whose CAD data hold unsafe names and one    *)
(* whose OBJ data name no material.                                         *)
EXTENDS LibraryImport, TLC

CONSTANTS p1, p2, c1, c2, c3, c4, c5, a, b, k, m, u

MCParts ==
    c1 :> [symbol |-> a, footprint |-> k, model |-> m, text |-> "escaped", unsafe |-> {}]
    @@ c2 :> [symbol |-> b, footprint |-> k, model |-> m, text |-> "raw", unsafe |-> {}]
    @@ c3 :> [symbol |-> b, footprint |-> u, model |-> None, text |-> "plain",
              unsafe |-> {"footprint"}]
    @@ c4 :> [symbol |-> a, footprint |-> k, model |-> u, text |-> "plain",
              unsafe |-> {"3d"}]
    @@ c5 :> [symbol |-> a, footprint |-> u, model |-> u, text |-> "plain", unsafe |-> {}]

Command(ids, artifacts, flags) ==
    [ids |-> ids, artifacts |-> artifacts, overwrite |-> "overwrite" \in flags,
     cached |-> "cache" \in flags, register |-> "register" \in flags]

MCCommands ==
    {Command(<<c1>>, {"symbol", "footprint", "3d"}, {}),
     Command(<<c1, c2>>, {"symbol", "footprint"}, {"overwrite", "register"}),
     Command(<<c2>>, {"symbol", "3d"}, {"cache"}),
     Command(<<c1>>, {"svg", "3d"}, {"cache", "overwrite"}),
     Command(<<c3, c5>>, {"symbol", "3d"}, {"register"}),
     Command(<<c3, c4>>, {"footprint", "3d"}, {"overwrite"})}

Symmetry == Permutations(Procs)
=============================================================================

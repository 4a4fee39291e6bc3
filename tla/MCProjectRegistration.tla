----------------------- MODULE MCProjectRegistration -----------------------
(* Two processes that register different libraries of one project; the     *)
(* first may run again after it ended or was killed.                       *)
EXTENDS ProjectRegistration, TLC

CONSTANTS p1, p2

MCProcs == {p1, p2}
MCNames == {"a", "b"}
MCUris == {"ua", "ub"}
EntryA == [name |-> "a", uri |-> "ua"]
EntryB == [name |-> "b", uri |-> "ub"]
MCRequest == (p1 :> EntryA) @@ (p2 :> EntryB)
MCMaxRuns == (p1 :> 2) @@ (p2 :> 1)
MCInitTables == {Absent, TableOf({})}
=============================================================================

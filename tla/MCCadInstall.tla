---------------------------- MODULE MCCadInstall ----------------------------
(* Two processes that install packages into one pair of libraries.         *)
EXTENDS CadInstall, TLC

CONSTANTS p1, p2

MCProcs == {p1, p2}
A1 == [part |-> "a", rev |-> 1]
A2 == [part |-> "a", rev |-> 2]
B1 == [part |-> "b", rev |-> 1]
MCItems == {A1, A2, B1}
\* p1 installs one revision of a part; p2 overwrites with another one.
MCRequest == (p1 :> [item |-> A1, overwrite |-> FALSE, symbol |-> TRUE])
             @@ (p2 :> [item |-> A2, overwrite |-> TRUE, symbol |-> FALSE])
\* p1 installs a new part; p2 installs again what is there.
RerunRequest == (p1 :> [item |-> A1, overwrite |-> FALSE, symbol |-> FALSE])
                @@ (p2 :> [item |-> B1, overwrite |-> FALSE, symbol |-> FALSE])
Installed == {Library({B1})}
=============================================================================

---------------------------- MODULE AtomicInstall ----------------------------
(***************************************************************************)
(* What an installation promises (cad/package.py, "atomic CAD library      *)
(* installation"): a run changes all of its targets at once or none of     *)
(* them.  It is told in what each run can count on: for every target that  *)
(* it looked at and that nobody else wrote since, the content the target   *)
(* has if what is in progress is rolled back.  Only a run that fails while *)
(* some of its targets are moved away may lose one.                        *)
(***************************************************************************)
CONSTANTS
    Procs, Targets, Contents,
    With(_, _)   \* With(p, c): content c with the part that p installs

VARIABLES
    view,        \* view[p][t]: what p can count on in target t
    status       \* status[p]: "clean" while no target is moved, "dirty" while
                 \* one is, then how the run ended

avars == <<view, status>>

Running == {"clean", "dirty"}

Init ==
    /\ view \in [Procs -> [{} -> Contents]]
    /\ status = [p \in Procs |-> "clean"]

Becomes(p, s) == status' = [status EXCEPT ![p] = s]

\* Somebody else writes target t: q can no longer count on it.
Lost(q, t) == [u \in DOMAIN view[q] \ {t} |-> view[q][u]]

\* Nobody's view changes but p's.
OnlyOf(p) == view' = [view EXCEPT ![p] = view'[p]]

\* p takes a fingerprint of another target.
Look(p) ==
    /\ status[p] = "clean" /\ UNCHANGED status
    /\ \E t \in Targets \ DOMAIN view[p] :
          view'[p] \in [DOMAIN view[p] \cup {t} -> Contents]
    /\ \A u \in DOMAIN view[p] : view'[p][u] = view[p][u]
    /\ OnlyOf(p)

\* p moves, replaces or moves back a target, and could still be rolled back.
Work(p) ==
    /\ status[p] \in Running
    /\ \E s \in Running : "dirty" \in {status[p], s} /\ Becomes(p, s)
    /\ \E t \in Targets :
          view' = [q \in Procs |-> IF q = p THEN view[p] ELSE Lost(q, t)]

\* p has replaced the last of its targets: all of them change now.
Install(p) ==
    /\ status[p] = "dirty"
    /\ Becomes(p, "installed")
    /\ \E t \in Targets :
          view' = [q \in Procs |->
                     IF q = p THEN [u \in DOMAIN view[p] |-> With(p, view[p][u])]
                              ELSE Lost(q, t)]

\* p gives up before it moved a target, or after all are back: with an error
\* of the package or with any other one.
GiveUp(p) ==
    /\ status[p] = "clean"
    /\ \E s \in {"refused", "failed"} : Becomes(p, s)
    /\ UNCHANGED view

\* p ends while some targets are moved away, and its backups with it.
Break(p) ==
    /\ status[p] = "dirty"
    /\ Becomes(p, "failed")
    /\ view'[p] \in [DOMAIN view[p] -> Contents]
    /\ OnlyOf(p)

\* p is killed: its backups stay.
Kill(p) ==
    /\ status[p] \in Running
    /\ Becomes(p, "killed")
    /\ UNCHANGED view

\* Somebody who is no installer writes target t.
Write(t) ==
    /\ UNCHANGED status
    /\ view' = [q \in Procs |-> Lost(q, t)]

Next ==
    \/ \E p \in Procs : Look(p) \/ Work(p) \/ Install(p) \/ GiveUp(p) \/ Break(p)
                        \/ Kill(p)
    \/ \E t \in Targets : Write(t)

Spec == Init /\ [][Next]_avars
=============================================================================

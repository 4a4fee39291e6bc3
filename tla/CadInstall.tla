----------------------------- MODULE CadInstall -----------------------------
(***************************************************************************)
(* Installation of one CAD package into project libraries                  *)
(* (cad/package.py, _install_prepared_package and _commit_paths_atomically)*)
(*                                                                         *)
(* An installer takes a fingerprint of each target, copies the libraries   *)
(* into a transaction directory, adds its part to the copies, compares the *)
(* fingerprints, and then moves each target into the transaction directory *)
(* as a backup and the copy into its place.  On an OSError it rolls back;  *)
(* leaving the block removes the transaction directory, and every backup   *)
(* that is still in it.  Between the two moves of a target the library is  *)
(* missing.  Nothing is locked: other installers and KiCad use the same    *)
(* libraries between any two of these steps.                               *)
(*                                                                         *)
(* A library is the set of its items, an item one revision of one part; a  *)
(* fingerprint is the content.                                             *)
(***************************************************************************)
EXTENDS Naturals, FiniteSets

CONSTANTS
    Procs,      \* processes that install a package
    Items,      \* revisions of parts, records with fields part and rev
    Request,    \* [Procs -> Requests]: what each process installs
    InitLibs,   \* contents all libraries may have at the start
    MaxEdits,   \* bound: changes by an external editor
    MaxFaults   \* bound: failed file operations, interrupts and crashes

VARIABLES
    lib,        \* lib[t]: content of a target
    pc,         \* pc[p]: where the process is
    todo,       \* todo[p]: targets the current loop has not handled
    snap,       \* snap[p][t]: the fingerprint taken at the start
    staged,     \* staged[p][t]: the copy to be installed
    backup,     \* backup[p][t]: the target that was moved away, or Absent
    installed,  \* installed[p]: targets replaced and not rolled back
    open,       \* open[p]: the transaction directory is on disk
    error,      \* error[p]: how the run failed, NoError if it did not
    edits, faults,
    touched     \* history: targets p took no fingerprint of, or others wrote
                \* since it did

bounds == <<edits, faults>>
vars == <<lib, pc, todo, snap, staged, backup, installed, open, error, bounds,
          touched>>

Dirs == {"footprints", "models"}
Targets == Dirs \cup {"symbols"}

Requests == [item: Items, overwrite: BOOLEAN, symbol: BOOLEAN]
Absent == [kind |-> "absent", items |-> {}]
Unsafe == [kind |-> "unsafe", items |-> {}]   \* a link, a file for a directory
Library(S) == [kind |-> "library", items |-> S]
Known == {Absent} \cup {Library(S) : S \in SUBSET Items}
Content == Known \cup {Unsafe}

NoError == "none"
\* Errors after which the libraries are said to be as they were.
CleanErrors == {"REJECTED", "EXISTS", "CONCURRENT_MODIFICATION",
                "INSTALL_FAILED"}
Errors == CleanErrors \cup {"OS_ERROR", "INTERRUPTED"}

Preparing == {"snapshot", "merge", "stage", "place", "check"}
Committing == {"move", "put", "remove", "restore"}
Active == Preparing \cup Committing \cup {"drop", "hash"}
Ended == {"done", "crashed"}

ASSUME InstallAssumption ==
    /\ Request \in [Procs -> Requests]
    /\ InitLibs \subseteq Known
    /\ {MaxEdits, MaxFaults} \subseteq Nat

-----------------------------------------------------------------------------
\* The footprint directory comes first, the symbol library, if any, last.
FirstOf(S) == IF "footprints" \in S THEN "footprints"
              ELSE IF "models" \in S THEN "models" ELSE "symbols"
LastOf(S) == IF "symbols" \in S THEN "symbols"
             ELSE IF "models" \in S THEN "models" ELSE "footprints"

TargetsOf(p) == Dirs \cup IF Request[p].symbol THEN {"symbols"} ELSE {}

OwnPart(p) == {i \in Items : i.part = Request[p].item.part}

IsUsable(c) == c.kind # "unsafe"

\* Mutant: the library is written anew.
MergedAlone(p, c) == Library({Request[p].item})
\* The library with the part of p in its new revision.
Merged(p, c) == Library((c.items \ OwnPart(p)) \cup {Request[p].item})

\* The part exists in another revision, and may not be overwritten.
Conflicts(p, c) ==
    /\ ~Request[p].overwrite
    /\ (c.items \cap OwnPart(p)) \ {Request[p].item} # {}

\* A directory is not replaced by a move unless it is empty.
Occupied(t) == \/ lib[t] = Unsafe
               \/ t \in Dirs /\ lib[t].items # {}

Goto(p, label) == pc' = [pc EXCEPT ![p] = label]
Raise(p, code, label) == error' = [error EXCEPT ![p] = code] /\ Goto(p, label)
Fault == faults < MaxFaults /\ faults' = faults + 1
\* An OSError of a move, by a fault or because the place is taken.
MoveFails(t) == Fault \/ (Occupied(t) /\ UNCHANGED faults)

\* p handled the first target of its loop; the last one leads to label.
Advance(p, label) ==
    LET rest == todo[p] \ {FirstOf(todo[p])}
    IN  IF rest = {}
        THEN todo' = [todo EXCEPT ![p] = TargetsOf(p)] /\ Goto(p, label)
        ELSE todo' = [todo EXCEPT ![p] = rest] /\ pc' = pc

\* Process p leaves target t with content c.
Writes(p, t, c) ==
    /\ lib' = [lib EXCEPT ![t] = c]
    /\ touched' = [q \in Procs |-> IF q = p THEN touched[q]
                                            ELSE touched[q] \cup {t}]

-----------------------------------------------------------------------------
Init ==
    /\ \E c \in InitLibs : lib = [t \in Targets |-> c]
    /\ pc = [p \in Procs |-> "idle"]
    /\ todo = [p \in Procs |-> {}]
    /\ snap = [p \in Procs |-> [t \in Targets |-> Absent]]
    /\ staged = snap
    /\ backup = snap
    /\ installed = [p \in Procs |-> {}]
    /\ open = [p \in Procs |-> FALSE]
    /\ error = [p \in Procs |-> NoError]
    /\ edits = 0 /\ faults = 0
    /\ touched = [p \in Procs |-> Targets]

Start(p) ==
    /\ pc[p] = "idle"
    /\ Goto(p, "snapshot")
    /\ todo' = [todo EXCEPT ![p] = TargetsOf(p)]
    /\ UNCHANGED <<lib, snap, staged, backup, installed, open, error, bounds,
                   touched>>

\* The link checks and _path_fingerprint of the next target.
Snapshot(p) ==
    /\ pc[p] = "snapshot"
    /\ LET t == FirstOf(todo[p])
       IN  \/ /\ ~IsUsable(lib[t])
              /\ Raise(p, "REJECTED", "done")
              /\ UNCHANGED <<todo, snap, touched>>
           \/ /\ IsUsable(lib[t])
              /\ snap' = [snap EXCEPT ![p][t] = lib[t]]
              /\ touched' = [touched EXCEPT ![p] = @ \ {t}]
              /\ Advance(p, IF Request[p].symbol THEN "merge" ELSE "stage")
              /\ UNCHANGED error
    /\ UNCHANGED <<lib, staged, backup, installed, open, bounds>>

\* The symbol library is read and merged before the directories are copied.
MergeSymbol(p) ==
    /\ pc[p] = "merge"
    /\ LET c == lib["symbols"]
       IN  \/ /\ ~IsUsable(c)
              /\ Raise(p, "REJECTED", "done")
              /\ UNCHANGED staged
           \/ /\ IsUsable(c) /\ Conflicts(p, c)
              /\ Raise(p, "EXISTS", "done")
              /\ UNCHANGED staged
           \/ /\ IsUsable(c) /\ ~Conflicts(p, c)
              /\ staged' = [staged EXCEPT ![p]["symbols"] = Merged(p, c)]
              /\ Goto(p, "stage")
              /\ UNCHANGED error
    /\ UNCHANGED <<lib, todo, snap, backup, installed, open, bounds, touched>>

\* _stage_directory inside the transaction directory.
StageDirectory(p) ==
    /\ pc[p] = "stage"
    /\ open' = [open EXCEPT ![p] = TRUE]
    /\ LET t == FirstOf(todo[p])
       IN  \/ /\ ~IsUsable(lib[t])
              /\ Raise(p, "REJECTED", "drop")
              /\ UNCHANGED <<todo, staged>>
           \/ /\ IsUsable(lib[t])
              /\ staged' = [staged EXCEPT ![p][t] = Library(lib[t].items)]
              /\ IF t = "models"
                 THEN todo' = [todo EXCEPT ![p] = TargetsOf(p)]
                      /\ Goto(p, "place")
                 ELSE todo' = [todo EXCEPT ![p] = @ \ {t}] /\ pc' = pc
              /\ UNCHANGED error
    /\ UNCHANGED <<lib, snap, backup, installed, bounds, touched>>

\* _check_existing_footprint and the model comparison, on the copies.
Place(p) ==
    /\ pc[p] = "place"
    /\ \/ /\ \E t \in Dirs : Conflicts(p, staged[p][t])
          /\ Raise(p, "EXISTS", "drop")
          /\ UNCHANGED staged
       \/ /\ \A t \in Dirs : ~Conflicts(p, staged[p][t])
          /\ staged' = [staged EXCEPT ![p] =
                         [t \in Targets |-> IF t \in Dirs THEN Merged(p, @[t])
                                                          ELSE @[t]]]
          /\ Goto(p, "check")
          /\ UNCHANGED error
    /\ UNCHANGED <<lib, todo, snap, backup, installed, open, bounds, touched>>

\* A library cannot be read or parsed, or a copy cannot be written. Without the
\* CadPackageError that wraps some of them, the OSError itself ends the run.
PrepareFails(p) ==
    /\ pc[p] \in Preparing
    /\ Fault
    /\ \E code \in {"REJECTED", "OS_ERROR"} :
          Raise(p, code, IF open[p] THEN "drop" ELSE "done")
    /\ UNCHANGED <<lib, todo, snap, staged, backup, installed, open, edits,
                   touched>>

-----------------------------------------------------------------------------
(* _commit_paths_atomically                                                *)

\* The fingerprint of the next target is compared.
Check(p) ==
    /\ pc[p] = "check"
    /\ LET t == FirstOf(todo[p])
       IN  \/ /\ lib[t] = snap[p][t]
              /\ Advance(p, "move")
              /\ UNCHANGED error
           \/ /\ lib[t] # snap[p][t]
              /\ Raise(p, "CONCURRENT_MODIFICATION", "drop")
              /\ UNCHANGED todo
    /\ UNCHANGED <<lib, snap, staged, backup, installed, open, bounds, touched>>

\* Mutant: the target is removed, not moved to a backup.
MoveAwayForGood(p) ==
    /\ pc[p] = "move"
    /\ LET t == FirstOf(todo[p])
       IN  \/ /\ lib[t] = Absent
              /\ UNCHANGED <<lib, touched>>
           \/ /\ lib[t] # Absent
              /\ Writes(p, t, Absent)
    /\ Goto(p, "put")
    /\ UNCHANGED <<todo, snap, staged, backup, installed, open, error, bounds>>

\* if target.exists(): os.replace(target, backup)
MoveAway(p) ==
    /\ pc[p] = "move"
    /\ LET t == FirstOf(todo[p])
       IN  \/ /\ lib[t] = Absent
              /\ UNCHANGED <<lib, backup, touched>>
           \/ /\ lib[t] # Absent
              /\ backup' = [backup EXCEPT ![p][t] = lib[t]]
              /\ Writes(p, t, Absent)
    /\ Goto(p, "put")
    /\ UNCHANGED <<todo, snap, staged, installed, open, error, bounds>>

\* os.replace(staged, target)
Put(p) ==
    /\ pc[p] = "put"
    /\ LET t == FirstOf(todo[p])
       IN  /\ t \in Dirs => ~Occupied(t)
           /\ Writes(p, t, staged[p][t])
           /\ installed' = [installed EXCEPT ![p] = @ \cup {t}]
           /\ todo' = [todo EXCEPT ![p] = @ \ {t}]
           /\ Goto(p, IF todo'[p] = {} THEN "drop" ELSE "move")
    /\ UNCHANGED <<snap, staged, backup, open, error, bounds>>

MovesFail(p) ==
    /\ \/ pc[p] = "move" /\ lib[FirstOf(todo[p])] # Absent /\ Fault
       \/ pc[p] = "put" /\ MoveFails(FirstOf(todo[p]))
    /\ Raise(p, "INSTALL_FAILED", "remove")
    /\ UNCHANGED <<lib, todo, snap, staged, backup, installed, open, edits,
                   touched>>

\* Mutant: only what was there before is undone.
RemoveWhatIsBackedUp(p) ==
    /\ pc[p] = "remove"
    /\ LET t == LastOf(installed[p])
       IN  \/ /\ installed[p] = {}
              /\ Goto(p, "restore")
              /\ UNCHANGED <<lib, installed, touched>>
           \/ /\ installed[p] # {}
              /\ IF backup[p][t] # Absent
                 THEN Writes(p, t, Absent)
                 ELSE UNCHANGED <<lib, touched>>
              /\ installed' = [installed EXCEPT ![p] = @ \ {t}]
              /\ UNCHANGED pc
    /\ UNCHANGED <<todo, snap, staged, backup, open, error, bounds>>

\* The rollback first removes every target it installed, whatever is there.
RemoveInstalled(p) ==
    /\ pc[p] = "remove"
    /\ LET t == LastOf(installed[p])
       IN  \/ /\ installed[p] = {}
              /\ Goto(p, "restore")
              /\ UNCHANGED <<lib, installed, touched>>
           \/ /\ installed[p] # {}
              /\ Writes(p, t, Absent)
              /\ installed' = [installed EXCEPT ![p] = @ \ {t}]
              /\ UNCHANGED pc
    /\ UNCHANGED <<todo, snap, staged, backup, open, error, bounds>>

\* An OSError of the rollback is not caught: a tree may be half removed.
RemoveFails(p) ==
    /\ pc[p] = "remove" /\ installed[p] # {}
    /\ Fault
    /\ LET t == LastOf(installed[p])
       IN  \E left \in SUBSET lib[t].items :
              Writes(p, t, [lib[t] EXCEPT !.items = left])
    /\ Raise(p, "OS_ERROR", "drop")
    /\ UNCHANGED <<todo, snap, staged, backup, installed, open, edits>>

\* Then it moves the backups back.
Restore(p) ==
    /\ pc[p] = "restore"
    /\ LET left == {t \in Targets : backup[p][t] # Absent}
           t == LastOf(left)
       IN  \/ /\ left = {}
              /\ Goto(p, "drop")
              /\ UNCHANGED <<lib, backup, touched>>
           \/ /\ left # {}
              /\ t \in Dirs => ~Occupied(t)
              /\ Writes(p, t, backup[p][t])
              /\ backup' = [backup EXCEPT ![p][t] = Absent]
              /\ UNCHANGED pc
    /\ UNCHANGED <<todo, snap, staged, installed, open, error, bounds>>

\* Mutant: the failure of the rollback is reported as if it had been done.
RestoreFailsQuietly(p) ==
    /\ pc[p] = "restore"
    /\ LET left == {t \in Targets : backup[p][t] # Absent}
       IN  left # {} /\ MoveFails(LastOf(left))
    /\ Raise(p, "INSTALL_FAILED", "drop")
    /\ UNCHANGED <<lib, todo, snap, staged, backup, installed, open, edits,
                   touched>>

RestoreFails(p) ==
    /\ pc[p] = "restore"
    /\ LET left == {t \in Targets : backup[p][t] # Absent}
       IN  left # {} /\ MoveFails(LastOf(left))
    /\ Raise(p, "OS_ERROR", "drop")
    /\ UNCHANGED <<lib, todo, snap, staged, backup, installed, open, edits,
                   touched>>

-----------------------------------------------------------------------------
(* Leaving the block, and what ends the program.                           *)

\* TemporaryDirectory removes itself, with every backup left in it.
Drop(p) ==
    /\ pc[p] = "drop"
    /\ open' = [open EXCEPT ![p] = FALSE]
    /\ backup' = [backup EXCEPT ![p] = [t \in Targets |-> Absent]]
    /\ staged' = [staged EXCEPT ![p] = [t \in Targets |-> Absent]]
    /\ todo' = [todo EXCEPT ![p] = TargetsOf(p)]
    /\ Goto(p, IF error[p] = NoError THEN "hash" ELSE "done")
    /\ UNCHANGED <<lib, snap, installed, error, bounds, touched>>

DropFails(p) ==
    /\ pc[p] = "drop"
    /\ Fault
    /\ \E gone \in SUBSET Targets :
          backup' = [backup EXCEPT ![p] =
                       [t \in Targets |-> IF t \in gone THEN Absent ELSE @[t]]]
    /\ Raise(p, "OS_ERROR", "done")
    /\ UNCHANGED <<lib, todo, snap, staged, installed, open, edits, touched>>

\* The hashes of the installed artifacts are read from the libraries.
HashArtifact(p) ==
    /\ pc[p] = "hash"
    /\ LET t == LastOf(todo[p])
           found == IF t = "symbols" THEN lib[t].kind = "library"
                    ELSE lib[t].items \cap OwnPart(p) # {}
       IN  \/ /\ ~found
              /\ Raise(p, "OS_ERROR", "done")
              /\ UNCHANGED todo
           \/ /\ found
              /\ todo' = [todo EXCEPT ![p] = @ \ {t}]
              /\ Goto(p, IF todo'[p] = {} THEN "done" ELSE "hash")
              /\ UNCHANGED error
    /\ UNCHANGED <<lib, snap, staged, backup, installed, open, bounds, touched>>

\* KeyboardInterrupt passes every handler of OSError and of CadPackageError.
Interrupt(p) ==
    /\ pc[p] \in Active \ {"drop"}
    /\ Fault
    /\ Raise(p, "INTERRUPTED", IF open[p] THEN "drop" ELSE "done")
    /\ UNCHANGED <<lib, todo, snap, staged, backup, installed, open, edits,
                   touched>>

\* The process is killed; its transaction directory stays on disk.
Crash(p) ==
    /\ pc[p] \in Active
    /\ Fault
    /\ Goto(p, "crashed")
    /\ UNCHANGED <<lib, todo, snap, staged, backup, installed, open, error,
                   edits, touched>>

\* KiCad or a user adds or removes an item, a library, or puts a link there.
Edit(t) ==
    /\ edits < MaxEdits
    /\ edits' = edits + 1
    /\ \E c \in {Absent, Unsafe, Library({})}
                \cup {Library(lib[t].items \cup {i}) : i \in Items}
                \cup {Library(lib[t].items \ {i}) : i \in Items} :
          /\ c # lib[t]
          /\ lib' = [lib EXCEPT ![t] = c]
    /\ touched' = [q \in Procs |-> touched[q] \cup {t}]
    /\ UNCHANGED <<pc, todo, snap, staged, backup, installed, open, error,
                   faults>>

Step(p) ==
    \/ Start(p) \/ Snapshot(p) \/ MergeSymbol(p) \/ StageDirectory(p)
    \/ Place(p) \/ PrepareFails(p) \/ Check(p) \/ MoveAway(p) \/ Put(p)
    \/ MovesFail(p) \/ RemoveInstalled(p) \/ RemoveFails(p) \/ Restore(p)
    \/ RestoreFails(p) \/ Drop(p) \/ DropFails(p) \/ HashArtifact(p)
    \/ Interrupt(p) \/ Crash(p)

Next == (\E p \in Procs : Step(p)) \/ (\E t \in Targets : Edit(t))

Spec == Init /\ [][Next]_vars

-----------------------------------------------------------------------------
(* Properties.                                                             *)

TypeOK ==
    /\ lib \in [Targets -> Content]
    /\ pc \in [Procs -> {"idle"} \cup Active \cup Ended]
    /\ todo \in [Procs -> SUBSET Targets]
    /\ snap \in [Procs -> [Targets -> Known]]
    /\ staged \in [Procs -> [Targets -> Known]]
    /\ backup \in [Procs -> [Targets -> Content]]
    /\ installed \in [Procs -> SUBSET Targets]
    /\ open \in [Procs -> BOOLEAN]
    /\ error \in [Procs -> {NoError} \cup Errors]
    /\ edits \in Nat /\ faults \in Nat
    /\ touched \in [Procs -> SUBSET Targets]

\* Targets of p that nobody else wrote since p took its fingerprints.
Alone(p) == TargetsOf(p) \ touched[p]

\* A run that succeeds has added exactly its own part to every target that
\* nobody else wrote meanwhile, and kept everything that was there (the copy
\* that is staged comes from the library whose fingerprint was compared).
SuccessAddsOnePart ==
    \A p \in Procs :
        pc[p] = "done" /\ error[p] = NoError
            => \A t \in Alone(p) :
                  lib[t] = Library((snap[p][t].items \ OwnPart(p))
                                   \cup {Request[p].item})

\* A run that reports a package error, CAD_INSTALL_FAILED ("was rolled back")
\* included, leaves every target that nobody else wrote as it found it.
FailureRestoresLibraries ==
    \A p \in Procs :
        pc[p] = "done" /\ error[p] \in CleanErrors
            => \A t \in Alone(p) : lib[t] = snap[p][t]

\* Wherever a run is killed, what the libraries held is still on disk, in its
\* place or as a backup in the transaction directory, unless somebody else
\* wrote the library or the rollback had already failed.
CrashKeepsLibraries ==
    \A p \in Procs :
        pc[p] \in Committing \cup {"crashed"}
        /\ error[p] \notin {"OS_ERROR", "INTERRUPTED"}
            => \A t \in Alone(p) :
                  \/ snap[p][t].items \subseteq lib[t].items \cup OwnPart(p)
                  \/ backup[p][t] = snap[p][t]

\* Every target has its new content in place.
Committed(p) == installed[p] = TargetsOf(p)

\* Some target is moved away or replaced.
Dirty(p) == \/ installed[p] # {}
            \/ \E t \in Targets : backup[p][t] # Absent

\* What a rollback leaves in target t: it removes what it installed and moves
\* the backup back.
RolledBack(p, t) ==
    IF t \in installed[p] \/ backup[p][t] # Absent THEN backup[p][t] ELSE lib[t]

\* What p can count on, and how far its run is.
ViewOf(p) ==
    [t \in Alone(p) |-> IF Committed(p) \/ pc[p] = "done"
                        THEN lib[t] ELSE RolledBack(p, t)]
StatusOf(p) ==
    IF Committed(p) \/ (pc[p] = "done" /\ error[p] = NoError) THEN "installed"
    ELSE IF pc[p] = "crashed" THEN "killed"
    ELSE IF pc[p] = "done"
         THEN IF error[p] \in CleanErrors THEN "refused" ELSE "failed"
    ELSE IF Dirty(p) THEN "dirty" ELSE "clean"

Atomic == INSTANCE AtomicInstall
    WITH Contents <- Content, With <- Merged,
         view <- [p \in Procs |-> ViewOf(p)],
         status <- [p \in Procs |-> StatusOf(p)]

\* The moves of one target after the other are one installation of all of them
\* at once: up to the last move every run, the failing, the killed and those
\* whose rollback failed included, can be rolled back to what it found, from
\* then on none of it is lost, and only the removal of the transaction directory
\* of a run that was not rolled back gives a library away.
RunsAreAtomic == Atomic!Spec

\* "staged atomic installation with concurrent-change detection and rollback"
\* (docs/CURRENT_STATE.md): an installation that was given up before it
\* succeeded leaves the libraries that nobody else wrote as it found them.
GivingUpRollsBack ==
    \A p \in Procs :
        pc[p] = "done" /\ error[p] \in CleanErrors \cup {"INTERRUPTED"}
            => \A t \in Alone(p) :
                  snap[p][t].items \subseteq lib[t].items \cup OwnPart(p)
=============================================================================

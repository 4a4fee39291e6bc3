-------------------------- MODULE AutoCadSelection --------------------------
(***************************************************************************)
(* Automatic CAD source selection for one part and its source lock         *)
(* (__main__.py, _run_auto_cad_package_mode, with cad/selection.py).       *)
(*                                                                         *)
(* A run takes EasyEDA CAD when it is verified and no lock exists.         *)
(* Otherwise it loads the lock, hashes and then extracts and inspects      *)
(* every candidate archive, selects the locked one or, without a lock, the *)
(* first of candidates that agree, hashes the archive again, extracts and  *)
(* installs it, and only then writes the lock.  Every hash and every       *)
(* extraction opens the archive anew.  The installation is one step here:  *)
(* CadInstall has its steps.  Runs share the library, the lock file and    *)
(* the archives.                                                           *)
(*                                                                         *)
(* A package is the content of an archive and stands for its hash; a lock  *)
(* names a package, whose source is part of it.                            *)
(***************************************************************************)
EXTENDS Naturals, FiniteSets

CONSTANTS
    Procs,
    Packages,    \* contents an archive may have
    SourceOf,    \* [Packages -> Sources]: the provider format of a package
    Signature,   \* the material signatures of the packages that can be
                 \* extracted and pass the inspection
    Candidates,  \* [Procs -> SUBSET Sources]: candidates each process is given
    Overwrite,   \* [Procs -> BOOLEAN]
    MaxRuns,     \* bound: MaxRuns[p] runs of process p
    MaxEdits,    \* bound: archives replaced by a user
    MaxLockEdits,\* bound: lock files deleted or replaced by a user
    MaxFaults    \* bound: failed file operations and crashes

VARIABLES
    lib,        \* what the libraries hold for the part
    lock,       \* the lock file
    archive,    \* archive[s]: package in the candidate file of source s
    pc,
    held,       \* held[p]: lock that p loaded, NoLock if there was none
    hashed,     \* hashed[p][s]: package whose hash p took, Nothing if none
    found,      \* found[p][s]: package that p inspected, Nothing if none
    chosen,     \* chosen[p]: package selected and to be locked
    package,    \* package[p]: package that p extracted
    verified,   \* verified[p]: EasyEDA CAD passed validation
    error, runs, edits, lockEdits, faults,
    moved,      \* history: what others replaced since p last looked at it
    swapped,    \* history: an archive was replaced after it was hashed again
                \* and before it was extracted
    overlapped  \* history: two runs were under way at once

local == <<held, hashed, found, chosen, package, verified>>
bounds == <<runs, edits, lockEdits, faults>>
history == <<moved, swapped, overlapped>>
vars == <<lib, lock, archive, pc, local, error, bounds, history>>

Sources == {"digikey", "mouser"}
FirstOf(S) == IF "digikey" \in S THEN "digikey" ELSE "mouser"

Nothing == "nothing"
Easyeda == "easyeda"
NoArchive == "no_archive"      \* a path that cannot be opened
NoLock == "no_lock"
BrokenLock == "broken_lock"   \* malformed, or a schema this code does not know
OtherPart == "other_part"     \* a valid lock of another part
Words == {Nothing, Easyeda, NoArchive, NoLock, BrokenLock, OtherPart}

NoError == "none"
Errors == {"CANDIDATE_INVALID", "LOCK_INVALID", "LOCK_IDENTITY_MISMATCH",
           "LOCK_MISMATCH", "SOURCE_CONFLICT", "INSTALL_FAILED",
           "LOCK_CONFLICT", "LOCK_CONCURRENT_MODIFICATION", "EXPORT_FAILED",
           "OS_ERROR"}

Active == {"dispatch", "export", "load", "hash", "inspect", "choose",
           "rehash", "extract", "install", "write", "recheck", "replace"}
Ended == {"idle", "done", "crashed"}

ASSUME SelectionAssumption ==
    /\ Packages \cap Words = {}
    /\ SourceOf \in [Packages -> Sources]
    /\ DOMAIN Signature \subseteq Packages
    /\ Candidates \in [Procs -> (SUBSET Sources) \ {{}}]
    /\ Overwrite \in [Procs -> BOOLEAN]
    /\ MaxRuns \in [Procs -> Nat]
    /\ {MaxEdits, MaxLockEdits, MaxFaults} \subseteq Nat

Usable == DOMAIN Signature
ArchivesOf(s) == {g \in Packages : SourceOf[g] = s} \cup {NoArchive}

Fault == faults < MaxFaults /\ faults' = faults + 1

Goto(p, label) == pc' = [pc EXCEPT ![p] = label]
Ends(p, code) == error' = [error EXCEPT ![p] = code] /\ Goto(p, "done")
Goes(p, label) == Goto(p, label) /\ UNCHANGED error

\* Thing x is replaced; of the processes, those in S know of it.
Moves(x, S) == moved' = [q \in Procs |-> IF q \in S THEN moved[q] \ {x}
                                                    ELSE moved[q] \cup {x}]
Looks(p, x) == moved' = [moved EXCEPT ![p] = @ \ {x}]

Init ==
    /\ lib = Nothing
    /\ lock = NoLock
    /\ archive \in [Sources -> Packages \cup {NoArchive}]
    /\ \A s \in Sources : archive[s] \in ArchivesOf(s)
    /\ pc = [p \in Procs |-> "idle"]
    /\ held = [p \in Procs |-> NoLock]
    /\ hashed = [p \in Procs |-> [s \in Sources |-> Nothing]]
    /\ found = [p \in Procs |-> [s \in Sources |-> Nothing]]
    /\ chosen = [p \in Procs |-> Nothing]
    /\ package = [p \in Procs |-> Nothing]
    /\ verified = [p \in Procs |-> FALSE]
    /\ error = [p \in Procs |-> NoError]
    /\ runs = [p \in Procs |-> 0] /\ edits = 0
    /\ lockEdits = 0 /\ faults = 0
    /\ moved = [p \in Procs |-> {}]
    /\ swapped = FALSE /\ overlapped = FALSE

-----------------------------------------------------------------------------
(* _run_auto_cad_package_mode, up to the selection.                        *)

\* _resolve_metadata_request answers whether EasyEDA CAD is verified.
Start(p) ==
    /\ pc[p] \in Ended
    /\ runs[p] < MaxRuns[p]
    /\ runs' = [runs EXCEPT ![p] = @ + 1]
    /\ \E v \in BOOLEAN : verified' = [verified EXCEPT ![p] = v]
    /\ held' = [held EXCEPT ![p] = NoLock]
    /\ hashed' = [hashed EXCEPT ![p] = [s \in Sources |-> Nothing]]
    /\ found' = [found EXCEPT ![p] = [s \in Sources |-> Nothing]]
    /\ chosen' = [chosen EXCEPT ![p] = Nothing]
    /\ package' = [package EXCEPT ![p] = Nothing]
    /\ error' = [error EXCEPT ![p] = NoError]
    /\ moved' = [moved EXCEPT ![p] = {}]
    /\ overlapped' = (overlapped \/ \E q \in Procs \ {p} : pc[q] \in Active)
    /\ Goto(p, "dispatch")
    /\ UNCHANGED <<lib, lock, archive, edits, lockEdits, faults, swapped>>

\* Mutant: verified EasyEDA CAD is taken whether or not a lock exists.
DispatchIgnoresLock(p) ==
    /\ pc[p] = "dispatch"
    /\ Goto(p, IF verified[p] THEN "export" ELSE "load")
    /\ UNCHANGED <<lib, lock, archive, local, error, bounds, history>>

Dispatch(p) ==
    /\ pc[p] = "dispatch"
    /\ Goto(p, IF lock = NoLock /\ verified[p] THEN "export" ELSE "load")
    /\ UNCHANGED <<lib, lock, archive, local, error, bounds, history>>

\* _finish_metadata_mode exports EasyEDA CAD. It may fail before it wrote
\* anything, or with the symbol already saved.
ExportEasyeda(p) ==
    /\ pc[p] = "export"
    /\ \/ /\ lib = Nothing \/ Overwrite[p]
          /\ lib' = Easyeda
          /\ Moves("lib", {p})
          /\ \E code \in {NoError, "EXPORT_FAILED"} : Ends(p, code)
       \/ /\ Ends(p, "EXPORT_FAILED")
          /\ UNCHANGED <<lib, moved>>
    /\ UNCHANGED <<lock, archive, local, bounds, swapped, overlapped>>

\* select_auto_cad_package: load_source_lock and the identity check.
Load(p) ==
    /\ pc[p] = "load"
    /\ Looks(p, "lock")
    /\ \/ /\ lock = BrokenLock /\ Ends(p, "LOCK_INVALID")
          /\ UNCHANGED held
       \/ /\ lock = OtherPart /\ Ends(p, "LOCK_IDENTITY_MISMATCH")
          /\ UNCHANGED held
       \/ /\ lock \in Packages \cup {NoLock}
          /\ held' = [held EXCEPT ![p] = lock]
          /\ Goes(p, "hash")
    /\ UNCHANGED <<lib, lock, archive, hashed, found, chosen, package, verified,
                   bounds, swapped, overlapped>>

\* The candidates that are still to be inspected, the first of them next.
Left(p) == {s \in Candidates[p] : found[p][s] = Nothing}

\* inspect_cad_package hashes the next candidate, in priority order ...
HashCandidate(p) ==
    /\ pc[p] = "hash"
    /\ LET s == FirstOf(Left(p))
       IN  \/ /\ archive[s] = NoArchive
              /\ Ends(p, "OS_ERROR")
              /\ UNCHANGED hashed
           \/ /\ archive[s] # NoArchive
              /\ hashed' = [hashed EXCEPT ![p][s] = archive[s]]
              /\ Goes(p, "inspect")
    /\ UNCHANGED <<lib, lock, archive, held, found, chosen, package, verified,
                   bounds, history>>

\* ... and opens it once more to extract and inspect it; a candidate that fails
\* ends the run.
Inspect(p) ==
    /\ pc[p] = "inspect"
    /\ LET s == FirstOf(Left(p))
       IN  \/ /\ archive[s] \notin Usable
              /\ Ends(p, "CANDIDATE_INVALID")
              /\ UNCHANGED found
           \/ /\ archive[s] \in Usable
              /\ found' = [found EXCEPT ![p][s] = archive[s]]
              /\ Goes(p, IF Left(p) = {s} THEN "choose" ELSE "hash")
    /\ UNCHANGED <<lib, lock, archive, held, hashed, chosen, package, verified,
                   bounds, history>>

Hashes(p) == {hashed[p][s] : s \in Candidates[p]}
Signatures(p) == {Signature[found[p][s]] : s \in Candidates[p]}
First(p) == FirstOf(Candidates[p])

\* Mutant: the first candidate is taken without comparing them.
ChooseFirst(p) ==
    /\ pc[p] = "choose"
    /\ \/ /\ held[p] # NoLock /\ held[p] \notin Hashes(p)
          /\ Ends(p, "LOCK_MISMATCH")
          /\ UNCHANGED chosen
       \/ /\ held[p] = NoLock \/ held[p] \in Hashes(p)
          /\ chosen' = [chosen EXCEPT ![p] =
                          IF held[p] # NoLock THEN held[p]
                          ELSE hashed[p][First(p)]]
          /\ Goes(p, "rehash")
    /\ UNCHANGED <<lib, lock, archive, held, hashed, found, package, verified,
                   bounds, history>>

\* The locked package or, without a lock, the first of those that agree.
Choose(p) ==
    /\ pc[p] = "choose"
    /\ \/ /\ held[p] # NoLock /\ held[p] \notin Hashes(p)
          /\ Ends(p, "LOCK_MISMATCH")
          /\ UNCHANGED chosen
       \/ /\ held[p] \in Hashes(p)
          /\ chosen' = [chosen EXCEPT ![p] = held[p]]
          /\ Goes(p, "rehash")
       \/ /\ held[p] = NoLock
          /\ Cardinality(Signatures(p)) > 1
          /\ Ends(p, "SOURCE_CONFLICT")
          /\ UNCHANGED chosen
       \/ /\ held[p] = NoLock
          /\ Cardinality(Signatures(p)) = 1
          /\ chosen' = [chosen EXCEPT ![p] = hashed[p][First(p)]]
          /\ Goes(p, "rehash")
    /\ UNCHANGED <<lib, lock, archive, held, hashed, found, package, verified,
                   bounds, history>>

-----------------------------------------------------------------------------
(* ingest_cad_package                                                      *)

\* Mutant: the hash is not compared.
RehashSkipped(p) ==
    /\ pc[p] = "rehash"
    /\ Looks(p, "archive")
    /\ Goes(p, "extract")
    /\ UNCHANGED <<lib, lock, archive, local, bounds, swapped, overlapped>>

\* The archive is hashed again and compared with expected_package_hash.
Rehash(p) ==
    /\ pc[p] = "rehash"
    /\ Looks(p, "archive")
    /\ \/ /\ archive[SourceOf[chosen[p]]] = chosen[p]
          /\ Goes(p, "extract")
       \/ /\ archive[SourceOf[chosen[p]]] \in Packages \ {chosen[p]}
          /\ Ends(p, "LOCK_MISMATCH")
       \/ /\ archive[SourceOf[chosen[p]]] = NoArchive
          /\ Ends(p, "OS_ERROR")
    /\ UNCHANGED <<lib, lock, archive, local, bounds, swapped, overlapped>>

\* The archive is opened once more to extract it; its hash is that of before.
Extract(p) ==
    /\ pc[p] = "extract"
    /\ LET now == archive[SourceOf[chosen[p]]]
       IN  \/ /\ now \notin Usable
              /\ Ends(p, "CANDIDATE_INVALID")
              /\ UNCHANGED package
           \/ /\ now \in Usable
              /\ package' = [package EXCEPT ![p] = now]
              /\ Goes(p, "install")
    /\ UNCHANGED <<lib, lock, archive, held, hashed, found, chosen, verified,
                   bounds, history>>

Install(p) ==
    /\ pc[p] = "install"
    /\ \/ /\ lib \in {Nothing, package[p]} \/ Overwrite[p]
          /\ lib' = package[p]
          /\ Moves("lib", {p})
          /\ Goes(p, "write")
       \/ /\ lib \notin {Nothing, package[p]} /\ ~Overwrite[p]
          /\ Ends(p, "INSTALL_FAILED")
          /\ UNCHANGED <<lib, moved>>
    /\ UNCHANGED <<lock, archive, local, bounds, swapped, overlapped>>

InstallFails(p) ==
    /\ pc[p] = "install"
    /\ Fault
    /\ Ends(p, "INSTALL_FAILED")
    /\ UNCHANGED <<lib, lock, archive, local, runs, edits, lockEdits,
                   history>>

-----------------------------------------------------------------------------
(* write_source_lock                                                       *)

\* Mutant: any lock that exists is taken for the one to be written.
WriteLockAcceptsAny(p) ==
    /\ pc[p] = "write"
    /\ Looks(p, "lock")
    /\ \/ lock = NoLock /\ Goes(p, "recheck")
       \/ lock # NoLock /\ Ends(p, NoError)
    /\ UNCHANGED <<lib, lock, archive, local, bounds, swapped, overlapped>>

\* A lock that exists has to be the same; otherwise a temporary file is written.
WriteLock(p) ==
    /\ pc[p] = "write"
    /\ Looks(p, "lock")
    /\ \/ lock = NoLock /\ Goes(p, "recheck")
       \/ lock = BrokenLock /\ Ends(p, "LOCK_INVALID")
       \/ lock \in Packages \cup {OtherPart} /\ lock # chosen[p]
          /\ Ends(p, "LOCK_CONFLICT")
       \/ lock = chosen[p] /\ Ends(p, NoError)
    /\ UNCHANGED <<lib, lock, archive, local, bounds, swapped, overlapped>>

\* The lock is looked for a second time, next to the finished temporary file.
RecheckLock(p) ==
    /\ pc[p] = "recheck"
    /\ Looks(p, "lock")
    /\ \/ lock # NoLock /\ Ends(p, "LOCK_CONCURRENT_MODIFICATION")
       \/ lock = NoLock /\ Goes(p, "replace")
    /\ UNCHANGED <<lib, lock, archive, local, bounds, swapped, overlapped>>

PutLock(p) ==
    /\ pc[p] = "replace"
    /\ lock' = chosen[p]
    /\ Moves("lock", {p})
    /\ Ends(p, NoError)
    /\ UNCHANGED <<lib, archive, local, bounds, swapped, overlapped>>

\* The temporary file cannot be written or moved; no handler takes an OSError.
LockFails(p) ==
    /\ pc[p] \in {"write", "recheck", "replace"}
    /\ Fault
    /\ Ends(p, "OS_ERROR")
    /\ UNCHANGED <<lib, lock, archive, local, runs, edits, lockEdits,
                   history>>

-----------------------------------------------------------------------------
Crash(p) ==
    /\ pc[p] \in Active
    /\ Fault
    /\ Goto(p, "crashed")
    /\ UNCHANGED <<lib, lock, archive, local, error, runs, edits, lockEdits,
                   history>>

\* A user replaces an archive, or deletes or replaces the lock file.
EditArchive(s) ==
    /\ edits < MaxEdits /\ edits' = edits + 1
    /\ \E a \in ArchivesOf(s) \ {archive[s]} :
          archive' = [archive EXCEPT ![s] = a]
    /\ Moves("archive", {})
    /\ swapped' = (swapped \/ \E p \in Procs : pc[p] = "extract"
                                              /\ SourceOf[chosen[p]] = s)
    /\ UNCHANGED <<lib, lock, pc, local, error, runs, lockEdits, faults, overlapped>>

EditLock ==
    /\ lockEdits < MaxLockEdits /\ lockEdits' = lockEdits + 1
    /\ lock' \in (Packages \cup {NoLock, BrokenLock, OtherPart}) \ {lock}
    /\ Moves("lock", {})
    /\ UNCHANGED <<lib, archive, pc, local, error, runs, edits, faults, swapped,
                   overlapped>>

Step(p) ==
    \/ Start(p) \/ Dispatch(p) \/ ExportEasyeda(p) \/ Load(p)
    \/ HashCandidate(p) \/ Inspect(p) \/ Choose(p) \/ Rehash(p)
    \/ Extract(p) \/ Install(p) \/ InstallFails(p) \/ WriteLock(p) \/ RecheckLock(p) \/ PutLock(p) \/ LockFails(p) \/ Crash(p)

Next == \/ \E p \in Procs : Step(p)
        \/ \E s \in Sources : EditArchive(s)
        \/ EditLock

Spec == Init /\ [][Next]_vars

-----------------------------------------------------------------------------
(* Properties.                                                             *)

TypeOK ==
    /\ lib \in Packages \cup {Nothing, Easyeda}
    /\ lock \in Packages \cup {NoLock, BrokenLock, OtherPart}
    /\ archive \in [Sources -> Packages \cup {NoArchive}]
    /\ pc \in [Procs -> Active \cup Ended]
    /\ held \in [Procs -> Packages \cup {NoLock}]
    /\ hashed \in [Procs -> [Sources -> Packages \cup {Nothing}]]
    /\ found \in [Procs -> [Sources -> Usable \cup {Nothing}]]
    /\ chosen \in [Procs -> Packages \cup {Nothing}]
    /\ package \in [Procs -> Usable \cup {Nothing}]
    /\ verified \in [Procs -> BOOLEAN]
    /\ error \in [Procs -> {NoError} \cup Errors]
    /\ runs \in [Procs -> Nat] /\ edits \in Nat
    /\ lockEdits \in Nat /\ faults \in Nat
    /\ moved \in [Procs -> SUBSET {"lib", "lock", "archive"}]
    /\ swapped \in BOOLEAN /\ overlapped \in BOOLEAN

\* What a run installs is the package its lock names, or the one it selected
\* among candidates that agree, unless an archive was replaced after it was
\* hashed again (expected_package_hash in ingest_cad_package, and the material
\* comparison in select_auto_cad_package). The comparison only speaks of the
\* selected archive if the inspection extracted what it had hashed: replaced in
\* between and put back later, it is installed although it was never compared.
InstallsWhatWasSelected ==
    [][\A p \in Procs :
          pc[p] = "install" /\ pc'[p] = "write" /\ "archive" \notin moved[p]
            => IF held[p] # NoLock
               THEN lib' = held[p]
               ELSE found[p][First(p)] = hashed[p][First(p)] =>
                       \A s \in Candidates[p] :
                          Signature[found[p][s]] = Signature[lib']]_vars

\* A package run that succeeds leaves the lock and the library on one and the
\* same package, except for the files that somebody replaced since it last
\* looked at them (write_source_lock after ingest_cad_package).
SuccessIsLocked ==
    \A p \in Procs :
        pc[p] = "done" /\ error[p] = NoError /\ chosen[p] # Nothing
            => /\ "lock" \notin moved[p] => lock = chosen[p]
               /\ moved[p] \cap {"lib", "archive"} = {} => lib = chosen[p]

\* As long as one run went at a time and nobody edited the lock, whatever fails
\* and wherever a run is killed, the libraries hold what the lock names, unless
\* an archive was replaced between its last hash and its extraction: the lock is
\* written after the installation, and once it exists nothing else is
\* installed, verified EasyEDA CAD included (__main__.py:1884-1979).
LibraryMatchesLock ==
    lock \in Packages /\ ~swapped /\ ~overlapped /\ lockEdits = 0 => lib = lock
=============================================================================

----------------------- MODULE AutoCadSelectionProofs -----------------------
(***************************************************************************)
(* Selection, installation and lock agree for every number of processes,   *)
(* of packages, of runs, of edits by users and of faults.                  *)
(***************************************************************************)
EXTENDS AutoCadSelection, FiniteSetTheorems, TLAPS

-----------------------------------------------------------------------------
(* The inductive invariant.                                                *)

Locking == {"write", "recheck", "replace"}
Selected == {"rehash", "extract", "install"} \cup Locking

\* What a run has inspected and chosen by the time it is at each step.
Choice(p) ==
    /\ pc[p] \in {"dispatch", "export", "load", "hash", "inspect", "choose"} =>
         chosen[p] = Nothing
    /\ pc[p] \in {"dispatch", "load"} => \A s \in Sources : found[p][s] = Nothing
    /\ pc[p] \in {"hash", "inspect"} => Left(p) # {}
    /\ pc[p] = "inspect" => hashed[p][FirstOf(Left(p))] \in Packages
    /\ pc[p] = "choose" => \A s \in Candidates[p] : found[p][s] # Nothing
    /\ \A s \in Candidates[p] : found[p][s] # Nothing => hashed[p][s] \in Packages
    /\ pc[p] \in Selected =>
         /\ chosen[p] \in Packages
         /\ held[p] # NoLock => chosen[p] = held[p]
         /\ held[p] = NoLock =>
              /\ chosen[p] = hashed[p][First(p)]
              /\ \A s \in Candidates[p] :
                    Signature[found[p][s]] = Signature[found[p][First(p)]]

\* What a run extracts and installs, as long as nobody replaced it since.
Installation(p) ==
    /\ pc[p] = "extract" /\ "archive" \notin moved[p] =>
         archive[SourceOf[chosen[p]]] = chosen[p]
    /\ pc[p] = "install" =>
         /\ package[p] \in Usable
         /\ "archive" \notin moved[p] => package[p] = chosen[p]
    /\ pc[p] \in Locking /\ moved[p] \cap {"lib", "archive"} = {} => lib = chosen[p]

\* Two runs are under way at once only where the history says so.
OneAtATime ==
    ~overlapped => \A p, q \in Procs : pc[p] \in Active /\ pc[q] \in Active => p = q

\* What the run under way knows when it is alone, no archive was replaced
\* between hash and extraction and no lock was edited.
Calm == ~swapped /\ ~overlapped /\ lockEdits = 0
CalmRun(p) ==
    /\ pc[p] = "export" => lock = NoLock
    /\ pc[p] \in {"hash", "inspect", "choose"} \cup Selected => held[p] = lock
    /\ pc[p] = "extract" => archive[SourceOf[chosen[p]]] = chosen[p]
    /\ pc[p] = "install" => package[p] = chosen[p]
    /\ pc[p] \in Locking => lib = chosen[p]
CalmRuns == Calm => /\ lock \in Packages \cup {NoLock}
                    /\ \A p \in Procs : CalmRun(p)

IInv == /\ TypeOK
        /\ \A p \in Procs : Choice(p) /\ Installation(p)
        /\ OneAtATime /\ CalmRuns
        /\ SuccessIsLocked /\ LibraryMatchesLock

-----------------------------------------------------------------------------
(* Sources and signatures.                                                 *)

\* The first candidate is a candidate.
LEMMA FirstIsCandidate ==
    ASSUME NEW S \in SUBSET Sources, S # {}
    PROVE  FirstOf(S) \in S
  BY DEF FirstOf, Sources

\* Candidates whose signatures count as one agree.
LEMMA OneSignature ==
    ASSUME NEW p \in Procs, Cardinality(Signatures(p)) = 1,
           NEW s \in Candidates[p], NEW t \in Candidates[p]
    PROVE  Signature[found[p][s]] = Signature[found[p][t]]
  <1> DEFINE x == Signature[found[p][s]]
             y == Signature[found[p][t]]
  <1>1. CASE s # t
    <2>1. Candidates[p] = {s, t}
      BY <1>1, SelectionAssumption DEF Sources
    <2>2. Signatures(p) = {x} \cup {y}
      BY <2>1 DEF Signatures
    <2>3. IsFiniteSet(Signatures(p))
      <3>1. IsFiniteSet({x}) /\ IsFiniteSet({y})
        BY FS_Singleton
      <3> HIDE DEF x, y
      <3> QED  BY <2>2, <3>1, FS_Union
    <2>4. PICK z : Signatures(p) = {z}
      BY <2>3, FS_Singleton
    <2> QED  BY <2>2, <2>4
  <1> QED  BY <1>1

LEMMA NoPackageIsAWord ==
    /\ Usable \subseteq Packages
    /\ \A w \in Words : w \notin Packages
    /\ Nothing \notin Packages /\ Easyeda \notin Packages /\ NoArchive \notin Packages
    /\ NoLock \notin Packages /\ BrokenLock \notin Packages /\ OtherPart \notin Packages
  BY SelectionAssumption DEF Words, Usable

-----------------------------------------------------------------------------
(* The initial states.                                                     *)

LEMMA InitInv == Init => IInv
  <1> SUFFICES ASSUME Init PROVE IInv
    OBVIOUS
  <1> USE NoPackageIsAWord DEF Init
  <1>1. TypeOK
    BY DEF TypeOK, Ended, Active
  <1>2. \A p \in Procs : Choice(p) /\ Installation(p)
    BY SelectionAssumption DEF Choice, Installation, Selected, Locking
  <1>3. OneAtATime
    BY DEF OneAtATime, Active
  <1>4. CalmRuns
    BY DEF CalmRuns, CalmRun, Selected, Locking
  <1>5. SuccessIsLocked /\ LibraryMatchesLock
    BY DEF SuccessIsLocked, LibraryMatchesLock
  <1> QED  BY <1>1, <1>2, <1>3, <1>4, <1>5 DEF IInv

-----------------------------------------------------------------------------
(* Types.                                                                  *)

Files == {"lib", "lock", "archive"}

\* Updating one entry of one process keeps a function typed.
LEMMA SetCell ==
    ASSUME NEW S, NEW T, NEW V, NEW f \in [S -> [T -> V]],
           NEW s \in S, NEW t \in T, NEW v \in V
    PROVE  [f EXCEPT ![s][t] = v] \in [S -> [T -> V]]
  OBVIOUS

LEMMA MovesTyped ==
    ASSUME TypeOK, NEW x \in Files, NEW S, Moves(x, S)
    PROVE  /\ moved' \in [Procs -> SUBSET Files]
           /\ \A q \in Procs : moved'[q] = IF q \in S THEN moved[q] \ {x} ELSE moved[q] \cup {x}
  BY DEF TypeOK, Moves, Files

LEMMA LooksTyped ==
    ASSUME TypeOK, NEW x \in Files, NEW p \in Procs, Looks(p, x)
    PROVE  /\ moved' \in [Procs -> SUBSET Files]
           /\ moved'[p] = moved[p] \ {x}
           /\ \A q \in Procs \ {p} : moved'[q] = moved[q]
  BY DEF TypeOK, Looks, Files

LEMMA EndsTyped ==
    ASSUME TypeOK, NEW p \in Procs, NEW code \in {NoError} \cup Errors, Ends(p, code)
    PROVE  /\ error' \in [Procs -> {NoError} \cup Errors] /\ pc' \in [Procs -> Active \cup Ended]
           /\ error'[p] = code /\ pc'[p] = "done"
           /\ \A q \in Procs \ {p} : error'[q] = error[q] /\ pc'[q] = pc[q]
  BY DEF TypeOK, Ends, Goto, Active, Ended

LEMMA GoesTyped ==
    ASSUME TypeOK, NEW p \in Procs, NEW label \in Active, Goes(p, label)
    PROVE  /\ error' \in [Procs -> {NoError} \cup Errors] /\ pc' \in [Procs -> Active \cup Ended]
           /\ error' = error /\ pc'[p] = label
           /\ \A q \in Procs \ {p} : pc'[q] = pc[q]
  BY DEF TypeOK, Goes, Goto

LEMMA StepTyped == IInv /\ [Next]_vars => TypeOK'
  <1> SUFFICES ASSUME IInv, [Next]_vars PROVE TypeOK'
    OBVIOUS
  <1> USE NoPackageIsAWord DEF IInv, TypeOK, local, bounds, history, Goto, Goes, Ends,
          Looks, Moves, Fault, Active, Ended, Errors
  <1>1. ASSUME NEW p \in Procs, Start(p) PROVE TypeOK'
    BY <1>1 DEF Start
  <1>2. ASSUME NEW p \in Procs, Dispatch(p) PROVE TypeOK'
    BY <1>2 DEF Dispatch
  <1>3. ASSUME NEW p \in Procs, ExportEasyeda(p) PROVE TypeOK'
    <2>1. \E code \in {NoError, "EXPORT_FAILED"} : Ends(p, code)
      BY <1>3 DEF ExportEasyeda
    <2>2. (Moves("lib", {p}) /\ lib' = Easyeda) \/ UNCHANGED <<lib, moved>>
      BY <1>3 DEF ExportEasyeda
    <2>3. moved' \in [Procs -> SUBSET Files]
      BY <2>2, MovesTyped DEF Files
    <2> HIDE DEF Ends, Moves
    <2> QED  BY <1>3, <2>1, <2>2, <2>3, EndsTyped DEF ExportEasyeda, Files
  <1>4. ASSUME NEW p \in Procs, Load(p) PROVE TypeOK'
    <2>1. moved' \in [Procs -> SUBSET Files]
      BY <1>4, LooksTyped DEF Load, Files
    <2>2. \/ Goes(p, "hash")
          \/ \E code \in {"LOCK_INVALID", "LOCK_IDENTITY_MISMATCH"} : Ends(p, code)
      BY <1>4 DEF Load
    <2> HIDE DEF Ends, Goes, Looks
    <2>3. held' \in [Procs -> Packages \cup {NoLock}]
      <3>1. \/ held' = held
            \/ lock \in Packages \cup {NoLock} /\ held' = [held EXCEPT ![p] = lock]
        BY <1>4 DEF Load
      <3> QED  BY <3>1
    <2> QED  BY <1>4, <2>1, <2>2, <2>3, EndsTyped, GoesTyped DEF Load, Files
  <1>5. ASSUME NEW p \in Procs, HashCandidate(p) \/ Inspect(p) PROVE TypeOK'
    <2> HIDE DEF Ends, Goes
    <2>1. \/ \E label \in {"hash", "inspect", "choose"} : Goes(p, label)
          \/ \E code \in {"OS_ERROR", "CANDIDATE_INVALID"} : Ends(p, code)
      BY <1>5 DEF HashCandidate, Inspect
    <2> DEFINE s == FirstOf(Left(p))
    <2>2. s \in Sources
      BY DEF FirstOf, Sources
    <2> HIDE DEF s
    <2>3. found' \in [Procs -> [Sources -> Usable \cup {Nothing}]]
      <3>1. \/ found' = found
            \/ archive[s] \in Usable /\ found' = [found EXCEPT ![p][s] = archive[s]]
        BY <1>5 DEF HashCandidate, Inspect, s
      <3>2. archive[s] \in Usable =>
              [found EXCEPT ![p][s] = archive[s]] \in [Procs -> [Sources -> Usable \cup {Nothing}]]
        BY <2>2, SetCell
      <3> QED  BY <3>1, <3>2
    <2>4. hashed' \in [Procs -> [Sources -> Packages \cup {Nothing}]]
      <3>1. \/ hashed' = hashed
            \/ /\ archive[s] # NoArchive
               /\ hashed' = [hashed EXCEPT ![p][s] = archive[s]]
        BY <1>5 DEF HashCandidate, Inspect, s
      <3>2. archive[s] \in Packages \cup {NoArchive}
        BY <2>2
      <3>3. archive[s] \in Packages =>
              [hashed EXCEPT ![p][s] = archive[s]] \in [Procs -> [Sources -> Packages \cup {Nothing}]]
        BY <2>2, SetCell
      <3> QED  BY <3>1, <3>2, <3>3
    <2> QED  BY <1>5, <2>1, <2>3, <2>4, EndsTyped, GoesTyped DEF HashCandidate, Inspect
  <1>6. ASSUME NEW p \in Procs, Choose(p) PROVE TypeOK'
    <2>1. First(p) \in Sources
      BY DEF First, FirstOf, Sources
    <2>2. \/ Goes(p, "rehash")
          \/ \E code \in {"LOCK_MISMATCH", "SOURCE_CONFLICT"} : Ends(p, code)
      BY <1>6 DEF Choose
    <2>3. chosen' \in [Procs -> Packages \cup {Nothing}]
      <3>1. held[p] \in Hashes(p) => held[p] \in Packages
        BY SelectionAssumption DEF Hashes, NoLock, Nothing
      <3> QED  BY <1>6, <2>1, <3>1 DEF Choose
    <2> HIDE DEF Ends, Goes
    <2> QED  BY <1>6, <2>2, <2>3, EndsTyped, GoesTyped DEF Choose
  <1>7. ASSUME NEW p \in Procs, Rehash(p) PROVE TypeOK'
    <2>1. moved' \in [Procs -> SUBSET Files]
      BY <1>7, LooksTyped DEF Rehash, Files
    <2>2. \/ Goes(p, "extract")
          \/ \E code \in {"LOCK_MISMATCH", "OS_ERROR"} : Ends(p, code)
      BY <1>7 DEF Rehash
    <2> HIDE DEF Ends, Goes, Looks
    <2> QED  BY <1>7, <2>1, <2>2, EndsTyped, GoesTyped DEF Rehash, Files
  <1>8. ASSUME NEW p \in Procs, Extract(p) PROVE TypeOK'
    <2>1. chosen[p] \in Packages
      BY <1>8 DEF Extract, Choice, Selected
    <2>2. archive[SourceOf[chosen[p]]] \in Packages \cup {NoArchive}
      BY <2>1, SelectionAssumption
    <2>3. package' \in [Procs -> Usable \cup {Nothing}]
      BY <1>8, <2>2 DEF Extract
    <2>4. Goes(p, "install") \/ Ends(p, "CANDIDATE_INVALID")
      BY <1>8 DEF Extract
    <2> HIDE DEF Ends, Goes
    <2> QED  BY <1>8, <2>3, <2>4, EndsTyped, GoesTyped DEF Extract
  <1>9. ASSUME NEW p \in Procs, Install(p) PROVE TypeOK'
    <2>1. Goes(p, "write") \/ Ends(p, "INSTALL_FAILED")
      BY <1>9 DEF Install
    <2>2. (Moves("lib", {p}) /\ lib' = package[p]) \/ UNCHANGED <<lib, moved>>
      BY <1>9 DEF Install
    <2>3. moved' \in [Procs -> SUBSET Files]
      BY <2>2, MovesTyped DEF Files
    <2>4. package[p] \in Packages
      BY <1>9 DEF Install, Installation
    <2> HIDE DEF Ends, Goes, Moves
    <2> QED  BY <1>9, <2>1, <2>2, <2>3, <2>4, EndsTyped, GoesTyped DEF Install, Files
  <1>10. ASSUME NEW p \in Procs, InstallFails(p) PROVE TypeOK'
    BY <1>10 DEF InstallFails
  <1>11. ASSUME NEW p \in Procs, WriteLock(p) PROVE TypeOK'
    <2>1. \/ Goes(p, "recheck")
          \/ \E code \in {NoError, "LOCK_INVALID", "LOCK_CONFLICT"} : Ends(p, code)
      BY <1>11 DEF WriteLock
    <2>2. moved' \in [Procs -> SUBSET Files]
      BY <1>11, LooksTyped DEF WriteLock, Files
    <2> HIDE DEF Ends, Goes, Looks
    <2> QED  BY <1>11, <2>1, <2>2, EndsTyped, GoesTyped DEF WriteLock, Files
  <1>12. ASSUME NEW p \in Procs, RecheckLock(p) PROVE TypeOK'
    BY <1>12 DEF RecheckLock
  <1>13. ASSUME NEW p \in Procs, PutLock(p) PROVE TypeOK'
    BY <1>13 DEF PutLock, Choice, Selected, Locking
  <1>14. ASSUME NEW p \in Procs, LockFails(p) PROVE TypeOK'
    BY <1>14 DEF LockFails
  <1>15. ASSUME NEW p \in Procs, Crash(p) PROVE TypeOK'
    BY <1>15 DEF Crash
  <1>16. ASSUME NEW s \in Sources, EditArchive(s) PROVE TypeOK'
    BY <1>16 DEF EditArchive, ArchivesOf
  <1>17. ASSUME EditLock PROVE TypeOK'
    BY <1>17 DEF EditLock
  <1>18. CASE UNCHANGED vars
    BY <1>18 DEF vars
  <1> QED  BY <1>1, <1>2, <1>3, <1>4, <1>5, <1>6, <1>7, <1>8, <1>9, <1>10, <1>11, <1>12,
              <1>13, <1>14, <1>15, <1>16, <1>17, <1>18 DEF Next, Step

-----------------------------------------------------------------------------
(* Every run on its own.                                                   *)

\* A step of one run leaves what the others know alone.
LEMMA OtherRuns ==
    ASSUME TypeOK, NEW p \in Procs, Step(p), NEW q \in Procs \ {p}
    PROVE  /\ pc'[q] = pc[q] /\ held'[q] = held[q] /\ hashed'[q] = hashed[q]
           /\ found'[q] = found[q] /\ chosen'[q] = chosen[q]
  <1> USE DEF TypeOK, local, Goto, Goes, Ends
  <1>1. CASE Start(p) \/ Dispatch(p) \/ ExportEasyeda(p)
    BY <1>1 DEF Start, Dispatch, ExportEasyeda
  <1>2. CASE Load(p)
    BY <1>2 DEF Load
  <1>3. CASE HashCandidate(p)
    BY <1>3 DEF HashCandidate
  <1>4. CASE Inspect(p)
    BY <1>4 DEF Inspect
  <1>5. CASE Choose(p)
    BY <1>5 DEF Choose
  <1>6. CASE Rehash(p) \/ Extract(p) \/ Install(p) \/ InstallFails(p)
    BY <1>6 DEF Rehash, Extract, Install, InstallFails
  <1>7. CASE WriteLock(p) \/ RecheckLock(p) \/ PutLock(p) \/ LockFails(p) \/ Crash(p)
    BY <1>7 DEF WriteLock, RecheckLock, PutLock, LockFails, Crash
  <1> QED  BY <1>1, <1>2, <1>3, <1>4, <1>5, <1>6, <1>7 DEF Step

\* A run whose selection does not change still knows it, wherever it goes.
LEMMA SameSelection ==
    ASSUME NEW q \in Procs, Choice(q),
           /\ held'[q] = held[q] /\ hashed'[q] = hashed[q]
           /\ found'[q] = found[q] /\ chosen'[q] = chosen[q],
           \/ pc'[q] = pc[q] \/ pc'[q] \in Ended
           \/ pc[q] \in Selected /\ pc'[q] \in Selected
           \/ pc[q] = "dispatch" /\ pc'[q] \in {"export", "load"}
    PROVE  Choice(q)'
  <1>1. Left(q)' = Left(q)
    BY DEF Left
  <1> QED  BY <1>1 DEF Choice, Selected, Locking, Ended

\* What HashCandidate and Inspect look at next.
LEMMA NextCandidate ==
    ASSUME NEW p \in Procs, Left(p) # {}
    PROVE  FirstOf(Left(p)) \in Left(p) /\ Left(p) \subseteq Sources
  <1>1. Left(p) \subseteq Sources
    BY SelectionAssumption DEF Left
  <1> QED  BY <1>1, FirstIsCandidate

LEMMA HashedChoice ==
    ASSUME TypeOK, NEW p \in Procs, Choice(p), HashCandidate(p)
    PROVE  Choice(p)'
  <1> DEFINE s == FirstOf(Left(p))
  <1>1. pc[p] = "hash" /\ UNCHANGED <<held, found, chosen>>
    BY DEF HashCandidate
  <1>2. Left(p) # {} /\ chosen[p] = Nothing
    BY <1>1 DEF Choice
  <1>3. s \in Left(p) /\ s \in Sources
    BY <1>2, NextCandidate
  <1>4. Left(p)' = Left(p)
    BY <1>1 DEF Left
  <1> HIDE DEF s
  <1>5. CASE pc'[p] = "done" /\ hashed' = hashed
    BY <1>1, <1>5, SameSelection DEF Ended
  <1>6. CASE /\ pc'[p] = "inspect" /\ archive[s] \in Packages
             /\ hashed'[p] = [hashed[p] EXCEPT ![s] = archive[s]]
    <2>1. hashed'[p][s] \in Packages
      BY <1>3, <1>6 DEF TypeOK
    <2>2. \A t \in Candidates[p] : found[p][t] # Nothing => hashed'[p][t] \in Packages
      <3>1. \A t \in Candidates[p] : t \in Sources
        BY SelectionAssumption
      <3> QED  BY <1>3, <1>6, <3>1 DEF TypeOK, Choice
    <2> QED  BY <1>1, <1>2, <1>4, <1>6, <2>1, <2>2 DEF Choice, Selected, Locking, s
  <1>7. archive[s] \in Packages \cup {NoArchive}
    BY <1>3 DEF TypeOK
  <1> QED  BY <1>3, <1>5, <1>6, <1>7 DEF HashCandidate, s, Ends, Goes, Goto, TypeOK

LEMMA InspectedChoice ==
    ASSUME TypeOK, NEW p \in Procs, Choice(p), Inspect(p)
    PROVE  Choice(p)'
  <1> DEFINE s == FirstOf(Left(p))
  <1>1. pc[p] = "inspect" /\ UNCHANGED <<held, hashed, chosen>>
    BY DEF Inspect
  <1>2. Left(p) # {} /\ chosen[p] = Nothing /\ hashed[p][s] \in Packages
    BY <1>1 DEF Choice
  <1>3. s \in Left(p) /\ s \in Sources
    BY <1>2, NextCandidate
  <1> HIDE DEF s
  <1>4. CASE pc'[p] = "done" /\ found' = found
    BY <1>1, <1>4, SameSelection DEF Ended
  <1>5. CASE /\ pc'[p] = IF Left(p) = {s} THEN "choose" ELSE "hash"
             /\ archive[s] # Nothing
             /\ found'[p] = [found[p] EXCEPT ![s] = archive[s]]
    <2>1. Candidates[p] \subseteq Sources
      BY SelectionAssumption
    <2>2. \A t \in Candidates[p] : found'[p][t] = IF t = s THEN archive[s] ELSE found[p][t]
      BY <1>3, <1>5, <2>1 DEF TypeOK
    <2>3. Left(p)' = Left(p) \ {s}
      BY <1>5, <2>2 DEF Left
    <2>4. \A t \in Candidates[p] : found'[p][t] # Nothing => hashed[p][t] \in Packages
      BY <1>2, <2>2 DEF Choice
    <2>5. Left(p)' = {} => \A t \in Candidates[p] : found'[p][t] # Nothing
      BY DEF Left
    <2>6. Left(p) = {s} <=> Left(p)' = {}
      BY <1>3, <2>3
    <2>7. pc'[p] = IF Left(p)' = {} THEN "choose" ELSE "hash"
      BY <1>5, <2>6
    <2> QED  BY <1>1, <1>2, <2>4, <2>5, <2>7 DEF Choice, Selected, Locking
  <1>6. archive[s] \in Usable => archive[s] # Nothing
    BY NoPackageIsAWord
  <1> QED  BY <1>3, <1>4, <1>5, <1>6 DEF Inspect, s, Ends, Goes, Goto, TypeOK

LEMMA ChosenChoice ==
    ASSUME TypeOK, NEW p \in Procs, Choice(p), Choose(p)
    PROVE  Choice(p)'
  <1> DEFINE f == First(p)
  <1>1. f \in Candidates[p] /\ f \in Sources
    <2>1. Candidates[p] \in SUBSET Sources /\ Candidates[p] # {}
      BY SelectionAssumption
    <2> QED  BY <2>1, FirstIsCandidate DEF First
  <1> HIDE DEF f
  <1>2. pc[p] = "choose" /\ UNCHANGED <<held, hashed, found>> /\ Left(p)' = Left(p)
    BY DEF Choose, Left
  <1>3. hashed[p][f] \in Packages
    BY <1>1, <1>2 DEF Choice
  <1>4. held[p] \in Hashes(p) => held[p] # NoLock
    BY NoPackageIsAWord, SelectionAssumption DEF Hashes, TypeOK, Nothing, NoLock
  <1>5. \/ pc'[p] = "done" /\ UNCHANGED chosen
        \/ /\ pc'[p] = "rehash" /\ held[p] # NoLock
           /\ chosen'[p] = held[p]
        \/ /\ pc'[p] = "rehash" /\ held[p] = NoLock
           /\ Cardinality(Signatures(p)) = 1
           /\ chosen'[p] = hashed[p][f]
    BY <1>4 DEF Choose, f, TypeOK, Ends, Goes, Goto
  <1>6. Cardinality(Signatures(p)) = 1 =>
          \A s \in Candidates[p] : Signature[found[p][s]] = Signature[found[p][f]]
    BY <1>1, OneSignature
  <1>7. held[p] # NoLock => held[p] \in Packages
    BY DEF TypeOK
  <1>8. CASE pc'[p] = "done" /\ UNCHANGED chosen
    BY <1>2, <1>8, SameSelection DEF Ended
  <1>9. CASE pc'[p] = "rehash" /\ chosen'[p] = held[p] /\ held[p] # NoLock
    BY <1>2, <1>7, <1>9 DEF Choice, Selected, Locking
  <1>10. CASE /\ pc'[p] = "rehash" /\ chosen'[p] = hashed[p][f] /\ held[p] = NoLock
              /\ Cardinality(Signatures(p)) = 1
    BY <1>2, <1>3, <1>6, <1>10 DEF Choice, Selected, Locking, f
  <1> QED  BY <1>5, <1>8, <1>9, <1>10

LEMMA StepChoice ==
    ASSUME IInv, [Next]_vars, NEW q \in Procs
    PROVE  Choice(q)'
  <1>0. TypeOK /\ Choice(q)
    BY DEF IInv
  <1>1. CASE Step(q)
    <2> USE <1>0 DEF TypeOK, local, Goto, Goes, Ends
    <2>1. CASE Start(q)
      <3>1. \A s \in Sources : found'[q][s] = Nothing
        BY <2>1 DEF Start
      <3>2. \A s \in Candidates[q] : s \in Sources
        BY SelectionAssumption
      <3>3. pc'[q] = "dispatch" /\ chosen'[q] = Nothing
        BY <2>1 DEF Start
      <3> QED  BY <3>1, <3>2, <3>3 DEF Choice, Selected, Locking
    <2>2. CASE Dispatch(q) \/ ExportEasyeda(q)
      <3>1. UNCHANGED <<held, hashed, found, chosen>>
        BY <2>2 DEF Dispatch, ExportEasyeda
      <3>2. pc'[q] = "done" \/ (pc[q] = "dispatch" /\ pc'[q] \in {"export", "load"})
        BY <2>2 DEF Dispatch, ExportEasyeda
      <3> QED  BY <3>1, <3>2, SameSelection DEF Ended
    <2>3. CASE Load(q)
      <3>1. UNCHANGED <<hashed, found, chosen>> /\ pc[q] = "load"
        BY <2>3 DEF Load
      <3>2. (pc'[q] = "done" /\ held' = held) \/ pc'[q] = "hash"
        BY <2>3 DEF Load
      <3>3. CASE pc'[q] = "done" /\ held' = held
        BY <3>1, <3>3, SameSelection DEF Ended
      <3>4. CASE pc'[q] = "hash"
        <4>1. Candidates[q] # {} /\ Candidates[q] \subseteq Sources
          BY SelectionAssumption
        <4>2. \A s \in Candidates[q] : found[q][s] = Nothing
          BY <3>1, <4>1 DEF Choice
        <4>3. Left(q)' # {}
          BY <3>1, <4>1, <4>2 DEF Left
        <4>4. chosen[q] = Nothing
          BY <3>1 DEF Choice
        <4> QED  BY <3>1, <3>4, <4>2, <4>3, <4>4 DEF Choice, Selected, Locking
      <3> QED  BY <3>2, <3>3, <3>4
    <2>4. CASE HashCandidate(q) \/ Inspect(q) \/ Choose(q)
      BY <2>4, HashedChoice, InspectedChoice, ChosenChoice
    <2>5. CASE Rehash(q) \/ Extract(q) \/ Install(q) \/ InstallFails(q)
      <3>1. UNCHANGED <<held, hashed, found, chosen>>
        BY <2>5 DEF Rehash, Extract, Install, InstallFails
      <3>2. /\ pc[q] \in {"rehash", "extract", "install"}
            /\ pc'[q] \in {"extract", "install", "write", "done"}
        BY <2>5 DEF Rehash, Extract, Install, InstallFails
      <3> QED  BY <3>1, <3>2, SameSelection DEF Ended, Selected, Locking
    <2>6. CASE WriteLock(q) \/ RecheckLock(q) \/ PutLock(q) \/ LockFails(q) \/ Crash(q)
      <3>1. UNCHANGED <<held, hashed, found, chosen>>
        BY <2>6 DEF WriteLock, RecheckLock, PutLock, LockFails, Crash
      <3>2. \/ pc'[q] \in {"done", "crashed"}
            \/ pc[q] \in Locking /\ pc'[q] \in Locking
        BY <2>6 DEF WriteLock, RecheckLock, PutLock, LockFails, Crash, Locking
      <3> QED  BY <3>1, <3>2, SameSelection DEF Ended, Selected
    <2> QED  BY <1>1, <2>1, <2>2, <2>3, <2>4, <2>5, <2>6 DEF Step
  <1>2. ASSUME NEW p \in Procs, p # q, Step(p) PROVE Choice(q)'
    BY <1>0, <1>2, OtherRuns, SameSelection
  <1>3. ASSUME EditLock \/ \E s \in Sources : EditArchive(s) PROVE Choice(q)'
    BY <1>0, <1>3, SameSelection DEF EditLock, EditArchive, local
  <1>4. CASE UNCHANGED vars
    BY <1>0, <1>4, SameSelection DEF vars, local
  <1> QED  BY <1>1, <1>2, <1>3, <1>4 DEF Next

LEMMA StepInstallation ==
    ASSUME IInv, [Next]_vars, NEW q \in Procs
    PROVE  Installation(q)'
  <1> USE NoPackageIsAWord DEF IInv, TypeOK, local, bounds, history, Goto, Goes, Ends,
          Installation, Locking, Looks, Moves
  <1>1. ASSUME NEW p \in Procs, Start(p) \/ Dispatch(p) PROVE Installation(q)'
    BY <1>1 DEF Start, Dispatch
  <1>2. ASSUME NEW p \in Procs, ExportEasyeda(p) PROVE Installation(q)'
    <2>1. pc'[p] = "done" /\ \A r \in Procs \ {p} : pc'[r] = pc[r]
      BY <1>2 DEF ExportEasyeda
    <2>2. UNCHANGED <<lib, moved>> \/ \A r \in Procs \ {p} : moved'[r] = moved[r] \cup {"lib"}
      BY <1>2 DEF ExportEasyeda
    <2>3. UNCHANGED <<archive, chosen, package>>
      BY <1>2 DEF ExportEasyeda
    <2> HIDE DEF Moves, Ends
    <2>4. CASE q = p
      BY <2>1, <2>4
    <2>5. CASE q # p
      <3>1. pc'[q] = pc[q] /\ moved[q] \subseteq moved'[q]
        BY <2>1, <2>2, <2>5
      <3>2. lib' = lib \/ "lib" \in moved'[q]
        BY <2>2, <2>5
      <3> QED  BY <2>3, <3>1, <3>2
    <2> QED  BY <2>4, <2>5
  <1>3. ASSUME NEW p \in Procs, Load(p) \/ HashCandidate(p) \/ Inspect(p) PROVE Installation(q)'
    <2>1. pc'[p] \in {"hash", "inspect", "choose", "done"} /\ \A r \in Procs \ {p} : pc'[r] = pc[r]
      BY <1>3 DEF Load, HashCandidate, Inspect
    <2>2. /\ UNCHANGED <<lib, archive, chosen, package>>
          /\ \A r \in Procs \ {p} : moved'[r] = moved[r]
      BY <1>3 DEF Load, HashCandidate, Inspect
    <2> QED  BY <2>1, <2>2
  <1>4. ASSUME NEW p \in Procs, Choose(p) PROVE Installation(q)'
    BY <1>4 DEF Choose
  <1>5. ASSUME NEW p \in Procs, Rehash(p) PROVE Installation(q)'
    BY <1>5 DEF Rehash
  <1>6. ASSUME NEW p \in Procs, Extract(p) PROVE Installation(q)'
    <2>1. chosen[p] \in Packages
      BY <1>6 DEF Extract, Choice, Selected
    <2>2. archive[SourceOf[chosen[p]]] \in Packages \cup {NoArchive}
      BY <2>1, SelectionAssumption
    <2> QED  BY <1>6, <2>2 DEF Extract
  <1>7. ASSUME NEW p \in Procs, Install(p) PROVE Installation(q)'
    <2>1. /\ UNCHANGED <<archive, chosen, package>> /\ pc[p] = "install"
          /\ \A r \in Procs \ {p} : pc'[r] = pc[r]
      BY <1>7 DEF Install
    <2>2. \/ UNCHANGED <<lib, moved>> /\ pc'[p] = "done"
          \/ /\ lib' = package[p] /\ pc'[p] = "write"
             /\ moved'[p] = moved[p] \ {"lib"}
             /\ \A r \in Procs \ {p} : moved'[r] = moved[r] \cup {"lib"}
      BY <1>7 DEF Install
    <2>3. CASE q # p
      <3>1. pc'[q] = pc[q] /\ moved[q] \subseteq moved'[q]
        BY <2>1, <2>2, <2>3
      <3>2. lib' = lib \/ "lib" \in moved'[q]
        BY <2>2, <2>3
      <3> QED  BY <2>1, <3>1, <3>2
    <2>4. CASE q = p
      <3>1. CASE UNCHANGED <<lib, moved>> /\ pc'[p] = "done"
        BY <2>1, <2>4, <3>1
      <3>2. CASE lib' = package[p] /\ pc'[p] = "write" /\ moved'[p] = moved[p] \ {"lib"}
        <4>1. "archive" \notin moved[p] => lib' = chosen[p]
          BY <2>1, <3>2
        <4>2. moved'[p] \cap {"lib", "archive"} = {} => "archive" \notin moved[p]
          BY <3>2
        <4> QED  BY <2>1, <2>4, <3>2, <4>1, <4>2
      <3> QED  BY <2>2, <3>1, <3>2
    <2> QED  BY <2>3, <2>4
  <1>8. ASSUME NEW p \in Procs, InstallFails(p) \/ LockFails(p) \/ Crash(p) PROVE Installation(q)'
    BY <1>8 DEF InstallFails, LockFails, Crash
  <1>9. ASSUME NEW p \in Procs, WriteLock(p) \/ RecheckLock(p) \/ PutLock(p)
        PROVE  Installation(q)'
    BY <1>9 DEF WriteLock, RecheckLock, PutLock
  <1>10. ASSUME NEW s \in Sources, EditArchive(s) PROVE Installation(q)'
    BY <1>10 DEF EditArchive
  <1>11. ASSUME EditLock PROVE Installation(q)'
    BY <1>11 DEF EditLock
  <1>12. CASE UNCHANGED vars
    BY <1>12 DEF vars
  <1> QED  BY <1>1, <1>2, <1>3, <1>4, <1>5, <1>6, <1>7, <1>8, <1>9, <1>10, <1>11, <1>12
           DEF Next, Step

LEMMA StepSuccessIsLocked ==
    ASSUME IInv, [Next]_vars
    PROVE  SuccessIsLocked'
  <1> USE NoPackageIsAWord DEF IInv, TypeOK, local, bounds, history, Goto, Goes, Ends,
          SuccessIsLocked, Looks, Moves, NoError
  <1>1. ASSUME NEW p \in Procs, Start(p) \/ Dispatch(p) PROVE SuccessIsLocked'
    BY <1>1 DEF Start, Dispatch
  <1>2. ASSUME NEW p \in Procs, ExportEasyeda(p) PROVE SuccessIsLocked'
    <2>1. /\ UNCHANGED <<lock, chosen>> /\ chosen[p] = Nothing
          /\ \A r \in Procs \ {p} : pc'[r] = pc[r] /\ error'[r] = error[r]
      BY <1>2 DEF ExportEasyeda, Choice
    <2>2. \/ UNCHANGED <<lib, moved>>
          \/ \A r \in Procs \ {p} : moved'[r] = moved[r] \cup {"lib"}
      BY <1>2 DEF ExportEasyeda
    <2>3. \A r \in Procs : moved[r] \subseteq moved'[r] \/ r = p
      BY <2>2
    <2>4. lib' = lib \/ \A r \in Procs \ {p} : "lib" \in moved'[r]
      BY <2>2
    <2> QED  BY <2>1, <2>3, <2>4
  <1>3. ASSUME NEW p \in Procs, Load(p) \/ HashCandidate(p) \/ Inspect(p) \/ Choose(p) PROVE SuccessIsLocked'
    <2>1. /\ UNCHANGED <<lib, lock>>
          /\ pc'[p] # "done" \/ error'[p] # NoError
          /\ \A r \in Procs \ {p} : pc'[r] = pc[r] /\ error'[r] = error[r]
      BY <1>3 DEF Load, HashCandidate, Inspect, Choose
    <2>2. \A r \in Procs \ {p} : chosen'[r] = chosen[r] /\ moved'[r] = moved[r]
      BY <1>3 DEF Load, HashCandidate, Inspect, Choose
    <2> QED  BY <2>1, <2>2
  <1>4. ASSUME NEW p \in Procs, Rehash(p) \/ Extract(p) PROVE SuccessIsLocked'
    <2>1. /\ UNCHANGED <<lib, lock, chosen>>
          /\ pc'[p] # "done" \/ error'[p] # NoError
          /\ \A r \in Procs \ {p} : pc'[r] = pc[r] /\ error'[r] = error[r]
      BY <1>4 DEF Rehash, Extract
    <2>2. \A r \in Procs \ {p} : moved'[r] = moved[r]
      BY <1>4 DEF Rehash, Extract
    <2> QED  BY <2>1, <2>2
  <1>5. ASSUME NEW p \in Procs, Install(p) PROVE SuccessIsLocked'
    <2>1. /\ UNCHANGED <<lock, chosen>>
          /\ pc'[p] # "done" \/ error'[p] # NoError
          /\ \A r \in Procs \ {p} : pc'[r] = pc[r] /\ error'[r] = error[r]
      BY <1>5 DEF Install
    <2>2. \/ UNCHANGED <<lib, moved>>
          \/ \A r \in Procs \ {p} : moved'[r] = moved[r] \cup {"lib"}
      BY <1>5 DEF Install
    <2>3. \A r \in Procs \ {p} : /\ moved[r] \subseteq moved'[r]
                                 /\ lib' = lib \/ "lib" \in moved'[r]
      <3>1. CASE UNCHANGED <<lib, moved>>
        BY <3>1
      <3>2. CASE \A r \in Procs \ {p} : moved'[r] = moved[r] \cup {"lib"}
        BY <3>2
      <3> QED  BY <2>2, <3>1, <3>2
    <2> QED  BY <2>1, <2>3
  <1>6. ASSUME NEW p \in Procs, InstallFails(p) \/ LockFails(p) \/ Crash(p) PROVE SuccessIsLocked'
    BY <1>6 DEF InstallFails, LockFails, Crash
  <1>7. ASSUME NEW p \in Procs, WriteLock(p) PROVE SuccessIsLocked'
    <2>1. /\ UNCHANGED <<lib, lock, chosen>> /\ pc[p] = "write"
          /\ \A r \in Procs \ {p} : /\ pc'[r] = pc[r] /\ error'[r] = error[r]
                                   /\ moved'[r] = moved[r]
          /\ moved'[p] = moved[p] \ {"lock"}
      BY <1>7 DEF WriteLock
    <2>2. pc'[p] = "done" /\ error'[p] = NoError => lock = chosen[p]
      BY <1>7 DEF WriteLock
    <2>3. moved[p] \cap {"lib", "archive"} = {} => lib = chosen[p]
      BY <2>1 DEF Installation, Locking
    <2> QED  BY <2>1, <2>2, <2>3
  <1>8. ASSUME NEW p \in Procs, RecheckLock(p) PROVE SuccessIsLocked'
    BY <1>8 DEF RecheckLock
  <1>9. ASSUME NEW p \in Procs, PutLock(p) PROVE SuccessIsLocked'
    <2>1. /\ UNCHANGED <<lib, chosen>> /\ pc[p] = "replace" /\ lock' = chosen[p]
          /\ \A r \in Procs \ {p} : /\ pc'[r] = pc[r] /\ error'[r] = error[r]
                                   /\ moved'[r] = moved[r] \cup {"lock"}
          /\ moved'[p] = moved[p] \ {"lock"}
      BY <1>9 DEF PutLock
    <2>2. moved[p] \cap {"lib", "archive"} = {} => lib = chosen[p]
      BY <2>1 DEF Installation, Locking
    <2>3. \A r \in Procs \ {p} : moved[r] \subseteq moved'[r] /\ "lock" \in moved'[r]
      BY <2>1
    <2>4. /\ lock' = chosen'[p]
          /\ moved'[p] \cap {"lib", "archive"} = {} => lib' = chosen'[p]
      BY <2>1, <2>2
    <2> HIDE DEF Moves
    <2> QED  BY <2>1, <2>3, <2>4
  <1>10. ASSUME EditLock \/ \E s \in Sources : EditArchive(s) PROVE SuccessIsLocked'
    BY <1>10 DEF EditLock, EditArchive
  <1>11. CASE UNCHANGED vars
    BY <1>11 DEF vars
  <1> QED  BY <1>1, <1>2, <1>3, <1>4, <1>5, <1>6, <1>7, <1>8, <1>9, <1>10, <1>11
           DEF Next, Step

-----------------------------------------------------------------------------
(* Runs that are alone.                                                    *)

\* A step of a run that is not its first is taken while the run is under way,
\* and moves no other run.
LEMMA StepOfOne ==
    ASSUME TypeOK, NEW p \in Procs, Step(p)
    PROVE  /\ \A q \in Procs \ {p} : pc'[q] = pc[q]
           /\ UNCHANGED <<swapped, lockEdits>>
           /\ Start(p) \/ (pc[p] \in Active /\ UNCHANGED overlapped)
  <1> USE DEF TypeOK, local, bounds, history, Goto, Goes, Ends, Active
  <1>1. CASE Start(p)
    BY <1>1 DEF Start
  <1>2. CASE Dispatch(p) \/ ExportEasyeda(p)
    BY <1>2 DEF Dispatch, ExportEasyeda
  <1>3. CASE Load(p) \/ HashCandidate(p) \/ Inspect(p) \/ Choose(p)
    BY <1>3 DEF Load, HashCandidate, Inspect, Choose
  <1>4. CASE Rehash(p) \/ Extract(p) \/ Install(p) \/ InstallFails(p)
    BY <1>4 DEF Rehash, Extract, Install, InstallFails
  <1>5. CASE WriteLock(p) \/ RecheckLock(p) \/ PutLock(p) \/ LockFails(p) \/ Crash(p)
    BY <1>5 DEF WriteLock, RecheckLock, PutLock, LockFails, Crash
  <1> QED  BY <1>1, <1>2, <1>3, <1>4, <1>5 DEF Step

LEMMA StepOneAtATime ==
    ASSUME IInv, [Next]_vars
    PROVE  OneAtATime'
  <1> USE DEF IInv, OneAtATime
  <1>1. ASSUME NEW p \in Procs, Step(p) PROVE OneAtATime'
    <2>1. CASE Start(p)
      <3>1. \A q \in Procs \ {p} : pc'[q] = pc[q]
        BY <1>1, StepOfOne
      <3>2. ~overlapped' => \A q \in Procs \ {p} : pc[q] \notin Active
        BY <2>1 DEF Start
      <3> QED  BY <3>1, <3>2
    <2>2. CASE ~Start(p)
      BY <1>1, <2>2, StepOfOne
    <2> QED  BY <2>1, <2>2
  <1>2. ASSUME EditLock \/ \E s \in Sources : EditArchive(s) PROVE OneAtATime'
    BY <1>2 DEF EditLock, EditArchive
  <1>3. CASE UNCHANGED vars
    BY <1>3 DEF vars, history
  <1> QED  BY <1>1, <1>2, <1>3 DEF Next

\* A run that takes a step while all is calm is the only one under way.
LEMMA StepAlone ==
    ASSUME IInv, NEW p \in Procs, Step(p), Calm'
    PROVE  /\ Calm
           /\ \A q \in Procs \ {p} : pc'[q] = pc[q] /\ pc'[q] \notin Active
           /\ Start(p) \/ pc[p] \in Active
  <1> USE DEF IInv, Calm
  <1>1. /\ \A q \in Procs \ {p} : pc'[q] = pc[q]
        /\ UNCHANGED <<swapped, lockEdits>>
        /\ Start(p) \/ (pc[p] \in Active /\ UNCHANGED overlapped)
    BY StepOfOne
  <1>2. CASE Start(p)
    <2>1. ~overlapped /\ \A q \in Procs \ {p} : pc[q] \notin Active
      BY <1>2 DEF Start
    <2> QED  BY <1>1, <1>2, <2>1
  <1>3. CASE ~Start(p)
    BY <1>1, <1>3 DEF OneAtATime
  <1> QED  BY <1>2, <1>3

\* What a calm step does to the lock, to the library and to the run's own
\* knowledge of them.
LEMMA CalmStep ==
    ASSUME IInv, Calm, NEW p \in Procs, Step(p)
    PROVE  /\ lock' \in Packages \cup {NoLock}
           /\ CalmRun(p)'
           /\ lock' \in Packages => lib' = lock'
  <1> USE NoPackageIsAWord DEF IInv, TypeOK, local, bounds, history, Goto, Goes, Ends,
          Calm, CalmRuns, CalmRun, LibraryMatchesLock, Locking, Selected
  <1>1. CASE Start(p) \/ Dispatch(p)
    BY <1>1 DEF Start, Dispatch
  <1>2. CASE ExportEasyeda(p)
    <2>1. lock' = NoLock /\ pc'[p] = "done"
      BY <1>2 DEF ExportEasyeda
    <2> QED  BY <2>1
  <1>3. CASE Load(p)
    <2>1. UNCHANGED <<lib, lock>>
      BY <1>3 DEF Load
    <2>2. pc'[p] = "done" \/ (pc'[p] = "hash" /\ held'[p] = lock)
      BY <1>3 DEF Load
    <2> QED  BY <2>1, <2>2
  <1>4. CASE HashCandidate(p) \/ Inspect(p)
    <2>1. UNCHANGED <<lib, lock, held>> /\ pc[p] \in {"hash", "inspect"}
      BY <1>4 DEF HashCandidate, Inspect
    <2>2. pc'[p] \in {"done", "hash", "inspect", "choose"}
      BY <1>4 DEF HashCandidate, Inspect
    <2> QED  BY <2>1, <2>2
  <1>5. CASE Choose(p)
    <2>1. UNCHANGED <<lib, lock, held>> /\ pc[p] = "choose"
      BY <1>5 DEF Choose
    <2>2. pc'[p] \in {"done", "rehash"}
      BY <1>5 DEF Choose
    <2> QED  BY <2>1, <2>2
  <1>6. CASE Rehash(p)
    BY <1>6 DEF Rehash
  <1>7. CASE Extract(p)
    <2>1. UNCHANGED <<lib, lock, held, chosen>> /\ pc[p] = "extract"
      BY <1>7 DEF Extract
    <2>2. \/ pc'[p] = "done"
          \/ pc'[p] = "install" /\ package'[p] = archive[SourceOf[chosen[p]]]
      BY <1>7 DEF Extract
    <2> QED  BY <2>1, <2>2
  <1>8. CASE Install(p)
    <2>1. UNCHANGED <<lock, held, chosen>> /\ pc[p] = "install"
      BY <1>8 DEF Install
    <2>2. (pc'[p] = "done" /\ lib' = lib) \/ (pc'[p] = "write" /\ lib' = package[p])
      BY <1>8 DEF Install
    <2>3. held[p] = lock /\ package[p] = chosen[p] /\ (lock # NoLock => chosen[p] = lock)
      BY <2>1 DEF Choice
    <2> QED  BY <2>1, <2>2, <2>3
  <1>9. CASE InstallFails(p) \/ LockFails(p) \/ Crash(p)
    BY <1>9 DEF InstallFails, LockFails, Crash
  <1>10. CASE WriteLock(p) \/ RecheckLock(p)
    BY <1>10 DEF WriteLock, RecheckLock
  <1>11. CASE PutLock(p)
    <2>1. lock' = chosen[p] /\ lib' = lib /\ pc[p] = "replace" /\ pc'[p] = "done"
      BY <1>11 DEF PutLock
    <2>2. chosen[p] \in Packages /\ lib = chosen[p]
      BY <2>1 DEF Choice
    <2> QED  BY <2>1, <2>2
  <1> QED  BY <1>1, <1>2, <1>3, <1>4, <1>5, <1>6, <1>7, <1>8, <1>9, <1>10, <1>11 DEF Step

LEMMA StepCalm ==
    ASSUME IInv, [Next]_vars
    PROVE  CalmRuns' /\ LibraryMatchesLock'
  <1>1. ASSUME NEW p \in Procs, Step(p) PROVE CalmRuns' /\ LibraryMatchesLock'
    <2> SUFFICES ASSUME Calm' PROVE CalmRuns' /\ LibraryMatchesLock'
      BY DEF CalmRuns, LibraryMatchesLock, Calm
    <2>1. Calm /\ \A q \in Procs \ {p} : pc'[q] \notin Active
      BY <1>1, StepAlone
    <2>2. \A q \in Procs \ {p} : CalmRun(q)'
      BY <2>1 DEF CalmRun, Active, Selected, Locking
    <2>3. /\ lock' \in Packages \cup {NoLock}
          /\ CalmRun(p)'
          /\ lock' \in Packages => lib' = lock'
      BY <1>1, <2>1, CalmStep
    <2> QED  BY <2>2, <2>3 DEF CalmRuns, LibraryMatchesLock
  <1>2. ASSUME EditLock PROVE CalmRuns' /\ LibraryMatchesLock'
    <2>1. lockEdits' # 0
      BY <1>2 DEF EditLock, IInv, TypeOK
    <2> QED  BY <2>1 DEF CalmRuns, LibraryMatchesLock, Calm
  <1>3. ASSUME NEW s \in Sources, EditArchive(s) PROVE CalmRuns' /\ LibraryMatchesLock'
    <2> SUFFICES ASSUME Calm' PROVE CalmRuns' /\ LibraryMatchesLock'
      BY DEF CalmRuns, LibraryMatchesLock, Calm
    <2>1. Calm /\ UNCHANGED <<lib, lock, pc, held, chosen, package>>
      BY <1>3 DEF EditArchive, Calm, local
    <2>2. \A q \in Procs : pc[q] = "extract" => SourceOf[chosen[q]] # s
      BY <1>3 DEF EditArchive, Calm
    <2>3. \A q \in Procs : pc[q] = "extract" =>
            archive'[SourceOf[chosen[q]]] = archive[SourceOf[chosen[q]]]
      BY <1>3, <2>2 DEF EditArchive, IInv, TypeOK
    <2> QED  BY <2>1, <2>3 DEF IInv, CalmRuns, CalmRun, LibraryMatchesLock, Calm
  <1>4. CASE UNCHANGED vars
    BY <1>4 DEF vars, local, bounds, history, IInv, CalmRuns, CalmRun, LibraryMatchesLock,
                Calm
  <1> QED  BY <1>1, <1>2, <1>3, <1>4 DEF Next

-----------------------------------------------------------------------------
(* The theorems.                                                           *)

LEMMA StepInv == IInv /\ [Next]_vars => IInv'
  BY StepTyped, StepChoice, StepInstallation, StepOneAtATime, StepCalm,
     StepSuccessIsLocked DEF IInv

LEMMA Invariance == Spec => []IInv
  BY InitInv, StepInv, PTL DEF Spec

\* Every value the selection handles is of its kind: what is locked is a
\* package or one of the lock files the loader tells apart.
THEOREM TypeCorrect == Spec => []TypeOK
  <1>1. IInv => TypeOK
    BY DEF IInv
  <1> QED  BY <1>1, Invariance, PTL

\* However many processes, users and faults are at work, a package run that
\* ends well leaves lock and library on its package, but for the files somebody
\* replaced since it last looked at them (__main__.py,
\* _run_auto_cad_package_mode; cad/selection.py, write_source_lock).
THEOREM SuccessfulRunsAreLocked == Spec => []SuccessIsLocked
  <1>1. IInv => SuccessIsLocked
    BY DEF IInv
  <1> QED  BY <1>1, Invariance, PTL

\* Runs that go one at a time, failing or killed wherever they may be, keep the
\* libraries on what the lock names (__main__.py:1884-1979).
THEOREM LibraryFollowsLock == Spec => []LibraryMatchesLock
  <1>1. IInv => LibraryMatchesLock
    BY DEF IInv
  <1> QED  BY <1>1, Invariance, PTL

\* The step that installs, for one run.
LEMMA InstalledWasSelected ==
    ASSUME IInv, [Next]_vars, NEW p \in Procs,
           pc[p] = "install", pc'[p] = "write", "archive" \notin moved[p]
    PROVE  IF held[p] # NoLock THEN lib' = held[p]
           ELSE found[p][First(p)] = hashed[p][First(p)] =>
                  \A s \in Candidates[p] : Signature[found[p][s]] = Signature[lib']
  <1> USE DEF IInv, TypeOK
  <1>1. package[p] = chosen[p]
    BY DEF Installation
  <1>2. Install(p)
    <2>1. ASSUME NEW q \in Procs, Step(q), ~Install(p) PROVE FALSE
      <3>1. q = p
        BY <2>1, StepOfOne
      <3>2. \/ Start(p) \/ Dispatch(p) \/ ExportEasyeda(p) \/ Load(p) \/ HashCandidate(p) \/ Inspect(p)
            \/ Choose(p) \/ Rehash(p) \/ Extract(p) \/ InstallFails(p)
            \/ WriteLock(p) \/ RecheckLock(p) \/ PutLock(p) \/ LockFails(p) \/ Crash(p)
        BY <2>1, <3>1 DEF Step
      <3> QED  BY <3>2 DEF Start, Dispatch, ExportEasyeda, Load, HashCandidate, Inspect, Choose, Rehash,
                           Extract, InstallFails, WriteLock, RecheckLock, PutLock,
                           LockFails, Crash, Ended, Goto, Ends
    <2>2. ASSUME EditLock \/ \E s \in Sources : EditArchive(s) PROVE FALSE
      BY <2>2 DEF EditLock, EditArchive
    <2>3. ~UNCHANGED vars
      BY DEF vars
    <2> QED  BY <2>1, <2>2, <2>3 DEF Next
  <1>3. lib' = package[p]
    BY <1>2 DEF Install, Ends, Goto
  <1> QED  BY <1>1, <1>3 DEF Choice, Selected

\* A package is installed only if the lock named it, or if it has the material
\* signature of every candidate, as long as the inspection extracted what it had
\* hashed (select_auto_cad_package, inspect_cad_package and the
\* expected_package_hash of ingest_cad_package).
THEOREM SelectedIsInstalled == Spec => InstallsWhatWasSelected
  <1>1. IInv /\ [Next]_vars =>
          [\A p \in Procs :
             pc[p] = "install" /\ pc'[p] = "write" /\ "archive" \notin moved[p]
               => IF held[p] # NoLock
                  THEN lib' = held[p]
                  ELSE found[p][First(p)] = hashed[p][First(p)] =>
                          \A s \in Candidates[p] :
                             Signature[found[p][s]] = Signature[lib']]_vars
    BY InstalledWasSelected
  <1> QED  BY <1>1, Invariance, PTL DEF Spec, InstallsWhatWasSelected
=============================================================================

-------------------------- MODULE CadInstallProofs --------------------------
(***************************************************************************)
(* What an installation leaves in the libraries, for every number of       *)
(* processes, of parts, of changes by others and of faults.                *)
(*                                                                         *)
(* A step of one process disturbs what another one knows of a target only  *)
(* by writing it, which `touched' records (lemma OthersStay).  The rest is *)
(* the story of one target on its way through one run: as it was found,    *)
(* moved away, replaced, and on a failure moved back.                      *)
(***************************************************************************)
EXTENDS CadInstall, TLAPS

-----------------------------------------------------------------------------
(* The inductive invariant.                                                *)

\* Target t in the eyes of process p: as p found it, moved away, replaced.
AsFound(p, t) == lib[t] = snap[p][t] /\ backup[p][t] = Absent
Away(p, t) == lib[t] = Absent /\ backup[p][t] = snap[p][t]
Replaced(p, t) == lib[t] = Merged(p, snap[p][t]) /\ backup[p][t] = snap[p][t]

\* The loops of a run: which targets are left, and which errors have occurred.
Loops(p) ==
    /\ todo[p] \subseteq TargetsOf(p) /\ installed[p] \subseteq TargetsOf(p)
    /\ pc[p] \in {"snapshot", "check", "move", "put", "hash"} => todo[p] # {}
    /\ pc[p] \in {"merge", "place"} => todo[p] = TargetsOf(p)
    /\ pc[p] = "stage" => "models" \in todo[p]
    /\ pc[p] = "idle" => touched[p] = Targets
    /\ pc[p] = "snapshot" => todo[p] \subseteq touched[p]
    /\ pc[p] \in {"idle", "snapshot"} => \A t \in Targets : backup[p][t] = Absent
    /\ pc[p] \in {"idle", "restore"} \cup Preparing => installed[p] = {}
    /\ pc[p] \in {"move", "put"} => installed[p] = TargetsOf(p) \ todo[p]
    /\ pc[p] \in {"idle", "move", "put", "hash"} \cup Preparing => error[p] = NoError
    /\ pc[p] \in {"remove", "restore"} => error[p] = "INSTALL_FAILED"

\* The copies of targets that nobody else wrote hold what was found there, and
\* the part of p from the merge on.
Copies(p) ==
    \A t \in Alone(p) :
      /\ pc[p] \in {"stage", "place"} /\ t = "symbols"
           => staged[p][t] = Merged(p, snap[p][t])
      /\ pc[p] = "stage" /\ t = "footprints" /\ t \notin todo[p]
           => staged[p][t] = Library(snap[p][t].items)
      /\ pc[p] = "place" /\ t \in Dirs
           => staged[p][t] = Library(snap[p][t].items)
      /\ pc[p] \in {"check", "move", "put"} => staged[p][t] = Merged(p, snap[p][t])

\* Where each of these targets is at each step of the run.
Places(p) ==
    \A t \in Alone(p) :
      /\ pc[p] \in Preparing => AsFound(p, t)
      /\ pc[p] \in {"move", "put"} /\ t \notin todo[p] => Replaced(p, t)
      /\ pc[p] = "move" /\ t \in todo[p] => AsFound(p, t)
      /\ pc[p] = "put" /\ t \in todo[p] =>
           IF t = FirstOf(todo[p]) THEN Away(p, t) ELSE AsFound(p, t)
      /\ pc[p] = "remove" /\ t \in installed[p] => Replaced(p, t)
      /\ pc[p] \in {"remove", "restore"} /\ t \notin installed[p]
           => AsFound(p, t) \/ Away(p, t)

\* What a run leaves behind that ends, or is about to.
Outcome(p) ==
    \A t \in Alone(p) :
      /\ pc[p] \in {"drop", "hash", "done"} /\ error[p] = NoError
           => lib[t] = Merged(p, snap[p][t])
      /\ pc[p] \in {"drop", "done"} /\ error[p] \in CleanErrors
           => lib[t] = snap[p][t]
      /\ pc[p] = "crashed" /\ error[p] \notin {"OS_ERROR", "INTERRUPTED"}
           => \/ snap[p][t].items \subseteq lib[t].items \cup OwnPart(p)
              \/ backup[p][t] = snap[p][t]

RunInv(p) == Loops(p) /\ Copies(p) /\ Places(p) /\ Outcome(p)
IInv == TypeOK /\ \A p \in Procs : RunInv(p)

-----------------------------------------------------------------------------
(* Targets and contents.                                                   *)

\* The first and the last of some targets are among them.
LEMMA FirstAndLast ==
    ASSUME NEW S \in SUBSET Targets, S # {}
    PROVE  FirstOf(S) \in S /\ LastOf(S) \in S
  BY DEF FirstOf, LastOf, Targets, Dirs

LEMMA FirstIsModels ==
    ASSUME NEW S \in SUBSET Targets, "models" \in S
    PROVE  /\ FirstOf(S) \in {"footprints", "models"}
           /\ FirstOf(S) = "models" => "footprints" \notin S
  BY DEF FirstOf, Targets, Dirs

LEMMA TargetsOfAreTargets ==
    ASSUME NEW p \in Procs
    PROVE  /\ TargetsOf(p) \subseteq Targets /\ Dirs \subseteq TargetsOf(p)
           /\ "symbols" \in TargetsOf(p) => Request[p].symbol
           /\ Dirs \subseteq Targets /\ "symbols" \in Targets /\ "symbols" \notin Dirs
           /\ "models" \in Dirs /\ "footprints" \in Dirs
           /\ \A t \in Targets : t \in Dirs \/ t = "symbols"
  BY DEF TargetsOf, Targets, Dirs

LEMMA LibraryKnown ==
    ASSUME NEW S \in SUBSET Items
    PROVE  Library(S) \in Known /\ Library(S).items = S /\ Library(S).kind = "library"
  BY DEF Library, Known

LEMMA ContentItems ==
    ASSUME NEW c \in Content
    PROVE  /\ c.items \in SUBSET Items
           /\ IsUsable(c) => c \in Known
           /\ \A left \in SUBSET c.items : [c EXCEPT !.items = left] \in Content
  <1>1. CASE c \in {Absent, Unsafe}
    BY <1>1 DEF Content, Known, Absent, Unsafe, IsUsable
  <1>2. ASSUME NEW S \in SUBSET Items, c = Library(S) PROVE
          /\ c.items \in SUBSET Items
          /\ IsUsable(c) => c \in Known
          /\ \A left \in SUBSET c.items : [c EXCEPT !.items = left] \in Content
    <2>1. c.items = S /\ \A left : [c EXCEPT !.items = left] = Library(left)
      BY <1>2 DEF Library
    <2> QED  BY <1>2, <2>1, LibraryKnown DEF Content
  <1> QED  BY <1>1, <1>2 DEF Content, Known

LEMMA KnownIsContent == Known \subseteq Content /\ Absent \in Known
  BY DEF Content, Known

LEMMA MergedKnown ==
    ASSUME NEW p \in Procs, NEW c, c.items \in SUBSET Items
    PROVE  Merged(p, c) \in Known
  <1>1. Request[p].item \in Items
    BY InstallAssumption DEF Requests
  <1> QED  BY <1>1, LibraryKnown DEF Merged

\* Merging into a copy is merging into the original.
LEMMA MergedCopy ==
    ASSUME NEW p, NEW c
    PROVE  Merged(p, Library(c.items)) = Merged(p, c)
  BY DEF Merged, Library

-----------------------------------------------------------------------------
(* The initial states.                                                     *)

LEMMA InitInv == Init => IInv
  <1> SUFFICES ASSUME Init PROVE IInv
    OBVIOUS
  <1>1. TypeOK
    <2>1. lib \in [Targets -> Content]
      BY InstallAssumption, KnownIsContent DEF Init
    <2>2. Absent \in Known /\ Absent \in Content
      BY KnownIsContent
    <2> QED  BY <2>1, <2>2 DEF Init, TypeOK
  <1>2. ASSUME NEW p \in Procs PROVE RunInv(p)
    BY DEF Init, RunInv, Loops, Copies, Places, Outcome, Alone, Preparing, TargetsOf, Targets
  <1> QED  BY <1>1, <1>2 DEF IInv

-----------------------------------------------------------------------------
(* Types.                                                                  *)

LEMMA WritesTyped ==
    ASSUME TypeOK, NEW p \in Procs, NEW t \in Targets, NEW c \in Content, Writes(p, t, c)
    PROVE  /\ lib' \in [Targets -> Content] /\ touched' \in [Procs -> SUBSET Targets]
           /\ lib'[t] = c /\ touched'[p] = touched[p]
           /\ \A u \in Targets \ {t} : lib'[u] = lib[u]
           /\ \A q \in Procs \ {p} : touched'[q] = touched[q] \cup {t}
  BY DEF TypeOK, Writes

LEMMA RaiseTyped ==
    ASSUME TypeOK, NEW p \in Procs, NEW code \in Errors,
           NEW label \in {"drop", "done", "remove"}, Raise(p, code, label)
    PROVE  /\ error' \in [Procs -> {NoError} \cup Errors]
           /\ pc' \in [Procs -> {"idle"} \cup Active \cup Ended]
           /\ error'[p] = code /\ pc'[p] = label
           /\ \A q \in Procs \ {p} : error'[q] = error[q] /\ pc'[q] = pc[q]
  BY DEF TypeOK, Raise, Goto, Active, Ended, Committing

LEMMA GotoTyped ==
    ASSUME TypeOK, NEW p \in Procs, NEW label \in Active \cup Ended, Goto(p, label)
    PROVE  /\ pc' \in [Procs -> {"idle"} \cup Active \cup Ended]
           /\ pc'[p] = label
           /\ \A q \in Procs \ {p} : pc'[q] = pc[q]
  BY DEF TypeOK, Goto

LEMMA AdvanceTyped ==
    ASSUME TypeOK, NEW p \in Procs, NEW label \in Active \cup Ended, Advance(p, label)
    PROVE  /\ pc' \in [Procs -> {"idle"} \cup Active \cup Ended]
           /\ todo' \in [Procs -> SUBSET Targets]
           /\ \/ /\ todo[p] \subseteq {FirstOf(todo[p])}
                 /\ todo'[p] = TargetsOf(p) /\ pc'[p] = label
              \/ /\ todo'[p] = todo[p] \ {FirstOf(todo[p])} /\ todo'[p] # {}
                 /\ pc'[p] = pc[p]
           /\ \A q \in Procs \ {p} : todo'[q] = todo[q] /\ pc'[q] = pc[q]
  <1> USE DEF TypeOK, Goto
  <1>1. TargetsOf(p) \in SUBSET Targets
    BY TargetsOfAreTargets
  <1> DEFINE rest == todo[p] \ {FirstOf(todo[p])}
  <1>2. rest \in SUBSET Targets
    OBVIOUS
  <1>3. CASE rest = {}
    <2>1. todo' = [todo EXCEPT ![p] = TargetsOf(p)] /\ pc' = [pc EXCEPT ![p] = label]
      BY <1>3 DEF Advance
    <2> QED  BY <1>1, <1>3, <2>1
  <1>4. CASE rest # {}
    <2>1. todo' = [todo EXCEPT ![p] = rest] /\ pc' = pc
      BY <1>4 DEF Advance
    <2> QED  BY <1>2, <1>4, <2>1
  <1> QED  BY <1>3, <1>4

-----------------------------------------------------------------------------
(* What a step leaves to the other processes.                              *)

\* Process q itself stays where it is, and what it took a fingerprint of and
\* nobody else wrote stays as it is.
Stays(q) ==
    /\ pc'[q] = pc[q] /\ todo'[q] = todo[q] /\ snap'[q] = snap[q]
    /\ staged'[q] = staged[q] /\ backup'[q] = backup[q]
    /\ installed'[q] = installed[q] /\ error'[q] = error[q]
    /\ touched[q] \subseteq touched'[q] /\ touched'[q] \subseteq Targets
    /\ \A t \in Targets \ touched'[q] : lib'[t] = lib[t]

LEMMA OthersStay ==
    ASSUME IInv, NEW q \in Procs, Stays(q)
    PROVE  RunInv(q)'
  <1>1. /\ pc'[q] = pc[q] /\ todo'[q] = todo[q] /\ snap'[q] = snap[q]
        /\ staged'[q] = staged[q] /\ backup'[q] = backup[q]
        /\ installed'[q] = installed[q] /\ error'[q] = error[q]
    BY DEF Stays
  <1>2. Loops(q)'
    <2>1. touched[q] = Targets => touched'[q] = Targets
      BY DEF Stays
    <2>2. todo[q] \subseteq touched[q] => todo'[q] \subseteq touched'[q]
      BY DEF Stays
    <2> QED  BY <1>1, <2>1, <2>2 DEF IInv, RunInv, Loops
  <1>3. Alone(q)' \subseteq Alone(q)
    BY DEF Alone, Stays
  <1>4. \A t \in Alone(q)' : lib'[t] = lib[t]
    BY TargetsOfAreTargets DEF Alone, Stays
  <1>5. Copies(q)'
    <2>1. Copies(q)
      BY DEF IInv, RunInv
    <2> QED  BY <1>1, <1>3, <2>1 DEF Copies, Merged, Library
  <1>6. Places(q)'
    <2>1. Places(q)
      BY DEF IInv, RunInv
    <2> QED  BY <1>1, <1>3, <1>4, <2>1 DEF Places, AsFound, Away, Replaced
  <1>7. Outcome(q)'
    <2>1. Outcome(q)
      BY DEF IInv, RunInv
    <2> QED  BY <1>1, <1>3, <1>4, <2>1 DEF Outcome
  <1> QED  BY <1>2, <1>5, <1>6, <1>7 DEF RunInv

\* The step of p does its part: types hold, p's run is in order and the others
\* stay.
StepDone(p) == TypeOK' /\ RunInv(p)' /\ \A q \in Procs \ {p} : Stays(q)

-----------------------------------------------------------------------------
(* Runs that give up.                                                      *)

\* The run and the libraries are as they were, but for where p goes and why.
Quiet(p) ==
    /\ UNCHANGED lib /\ touched'[p] = touched[p] /\ todo'[p] = todo[p]
    /\ snap'[p] = snap[p] /\ installed'[p] = installed[p]

\* An error that promises nothing.
LEMMA NothingPromised ==
    ASSUME IInv, NEW p \in Procs, pc'[p] \in {"drop", "done"},
           error'[p] \in {"OS_ERROR", "INTERRUPTED"},
           todo'[p] \subseteq TargetsOf(p), installed'[p] = installed[p]
    PROVE  RunInv(p)'
  <1>1. /\ error'[p] # NoError /\ error'[p] \notin CleanErrors
        /\ pc'[p] \notin {"idle", "crashed", "hash", "move", "put", "remove", "restore"}
        /\ pc'[p] \notin Preparing
        /\ pc'[p] \notin {"stage", "place", "check", "snapshot"}
    BY DEF NoError, CleanErrors, Preparing
  <1>2. Loops(p)'
    BY <1>1 DEF IInv, RunInv, Loops
  <1>3. Copies(p)' /\ Places(p)' /\ Outcome(p)'
    BY <1>1 DEF Copies, Places, Outcome
  <1> QED  BY <1>2, <1>3 DEF RunInv

\* Before the first target is moved every library is as it was found.
LEMMA GivenUpInTime ==
    ASSUME IInv, NEW p \in Procs, pc[p] \in Preparing, Quiet(p),
           pc'[p] \in {"drop", "done"}, error'[p] \in Errors
    PROVE  RunInv(p)'
  <1>1. /\ error'[p] # NoError
        /\ pc'[p] \notin {"idle", "crashed", "hash", "move", "put", "remove", "restore"}
        /\ pc'[p] \notin Preparing
        /\ pc'[p] \notin {"stage", "place", "check", "snapshot"}
    BY DEF NoError, CleanErrors, Errors, Preparing
  <1>2. Loops(p)'
    BY <1>1 DEF IInv, RunInv, Loops, Quiet
  <1>3. Copies(p)' /\ Places(p)'
    BY <1>1 DEF Copies, Places
  <1>4. Outcome(p)'
    <2>1. \A t \in Alone(p) : lib[t] = snap[p][t]
      BY DEF IInv, RunInv, Places, AsFound
    <2>2. Alone(p)' = Alone(p)
      BY DEF Alone, Quiet
    <2> QED  BY <1>1, <2>1, <2>2 DEF Outcome, Quiet
  <1> QED  BY <1>2, <1>3, <1>4 DEF RunInv

LEMMA PrepareFailsStep ==
    ASSUME IInv, NEW p \in Procs, PrepareFails(p)
    PROVE  StepDone(p)
  <1>1. PICK code \in {"REJECTED", "OS_ERROR"} :
            Raise(p, code, IF open[p] THEN "drop" ELSE "done")
    BY DEF PrepareFails
  <1>2. code \in Errors /\ (IF open[p] THEN "drop" ELSE "done") \in {"drop", "done", "remove"}
    BY DEF Errors, CleanErrors
  <1>3. /\ error' \in [Procs -> {NoError} \cup Errors]
        /\ pc' \in [Procs -> {"idle"} \cup Active \cup Ended]
        /\ error'[p] = code /\ pc'[p] \in {"drop", "done"}
        /\ \A q \in Procs \ {p} : error'[q] = error[q] /\ pc'[q] = pc[q]
    BY <1>1, <1>2, RaiseTyped DEF IInv
  <1>4. /\ pc[p] \in Preparing /\ faults' = faults + 1
        /\ UNCHANGED <<lib, todo, snap, staged, backup, installed, open, edits, touched>>
    BY DEF PrepareFails, Fault
  <1>5. TypeOK'
    BY <1>3, <1>4 DEF IInv, TypeOK
  <1>6. RunInv(p)'
    BY <1>2, <1>3, <1>4, GivenUpInTime DEF Quiet
  <1>7. \A q \in Procs \ {p} : Stays(q)
    BY <1>3, <1>4 DEF Stays, IInv, TypeOK
  <1> QED  BY <1>5, <1>6, <1>7 DEF StepDone

LEMMA InterruptStep ==
    ASSUME IInv, NEW p \in Procs, Interrupt(p)
    PROVE  StepDone(p)
  <1>1. Raise(p, "INTERRUPTED", IF open[p] THEN "drop" ELSE "done")
    BY DEF Interrupt
  <1>2. /\ "INTERRUPTED" \in Errors
        /\ (IF open[p] THEN "drop" ELSE "done") \in {"drop", "done", "remove"}
    BY DEF Errors
  <1>3. /\ error' \in [Procs -> {NoError} \cup Errors]
        /\ pc' \in [Procs -> {"idle"} \cup Active \cup Ended]
        /\ error'[p] = "INTERRUPTED" /\ pc'[p] \in {"drop", "done"}
        /\ \A q \in Procs \ {p} : error'[q] = error[q] /\ pc'[q] = pc[q]
    BY <1>1, <1>2, RaiseTyped DEF IInv
  <1>4. /\ faults' = faults + 1
        /\ UNCHANGED <<lib, todo, snap, staged, backup, installed, open, edits, touched>>
    BY DEF Interrupt, Fault
  <1>5. TypeOK'
    BY <1>3, <1>4 DEF IInv, TypeOK
  <1>6. RunInv(p)'
    BY <1>3, <1>4, NothingPromised DEF IInv, RunInv, Loops
  <1>7. \A q \in Procs \ {p} : Stays(q)
    BY <1>3, <1>4 DEF Stays, IInv, TypeOK
  <1> QED  BY <1>5, <1>6, <1>7 DEF StepDone

-----------------------------------------------------------------------------
(* The steps before the first target is moved.                             *)

LEMMA StartStep ==
    ASSUME IInv, NEW p \in Procs, Start(p)
    PROVE  StepDone(p)
  <1>1. /\ pc' \in [Procs -> {"idle"} \cup Active \cup Ended] /\ pc'[p] = "snapshot"
        /\ \A q \in Procs \ {p} : pc'[q] = pc[q]
    BY GotoTyped DEF Start, IInv, Active, Preparing
  <1>2. /\ todo' = [todo EXCEPT ![p] = TargetsOf(p)] /\ pc[p] = "idle"
        /\ UNCHANGED <<lib, snap, staged, backup, installed, open, error, bounds, touched>>
    BY DEF Start
  <1>3. TargetsOf(p) \in SUBSET Targets /\ TargetsOf(p) # {}
    BY TargetsOfAreTargets
  <1>4. todo' \in [Procs -> SUBSET Targets] /\ todo'[p] = TargetsOf(p)
        /\ \A q \in Procs \ {p} : todo'[q] = todo[q]
    BY <1>2, <1>3 DEF IInv, TypeOK
  <1>5. TypeOK'
    BY <1>1, <1>2, <1>4 DEF IInv, TypeOK, bounds
  <1>6. touched'[p] = Targets
    BY <1>2 DEF IInv, RunInv, Loops
  <1>7. Loops(p)'
    BY <1>1, <1>2, <1>3, <1>4, <1>6 DEF IInv, RunInv, Loops, Preparing
  <1>8. Copies(p)' /\ Places(p)' /\ Outcome(p)'
    <2>1. Alone(p)' = {}
      BY <1>3, <1>6 DEF Alone
    <2> QED  BY <2>1 DEF Copies, Places, Outcome
  <1>9. \A q \in Procs \ {p} : Stays(q)
    BY <1>1, <1>2, <1>4 DEF Stays, IInv, TypeOK
  <1> QED  BY <1>5, <1>7, <1>8, <1>9 DEF StepDone, RunInv

LEMMA SnapshotStep ==
    ASSUME IInv, NEW p \in Procs, Snapshot(p)
    PROVE  StepDone(p)
  <1> DEFINE t == FirstOf(todo[p])
             label == IF Request[p].symbol THEN "merge" ELSE "stage"
  <1>1. /\ pc[p] = "snapshot" /\ todo[p] # {} /\ todo[p] \in SUBSET Targets
        /\ UNCHANGED <<lib, staged, backup, installed, open, bounds>>
    BY DEF Snapshot, IInv, RunInv, Loops, TypeOK
  <1>2. t \in todo[p] /\ t \in Targets
    BY <1>1, FirstAndLast
  <1>3. CASE ~IsUsable(lib[t])
    <2>1. Raise(p, "REJECTED", "done") /\ UNCHANGED <<todo, snap, touched>>
      BY <1>3 DEF Snapshot
    <2>2. /\ error' \in [Procs -> {NoError} \cup Errors]
          /\ pc' \in [Procs -> {"idle"} \cup Active \cup Ended]
          /\ error'[p] = "REJECTED" /\ pc'[p] = "done"
          /\ \A q \in Procs \ {p} : error'[q] = error[q] /\ pc'[q] = pc[q]
      BY <2>1, RaiseTyped DEF IInv, Errors, CleanErrors
    <2>3. TypeOK'
      BY <1>1, <2>1, <2>2 DEF IInv, TypeOK, bounds
    <2>4. RunInv(p)'
      BY <1>1, <2>1, <2>2, GivenUpInTime DEF Quiet, Preparing, Errors, CleanErrors
    <2>5. \A q \in Procs \ {p} : Stays(q)
      BY <1>1, <2>1, <2>2 DEF Stays, IInv, TypeOK
    <2> QED  BY <2>3, <2>4, <2>5 DEF StepDone
  <1>4. CASE IsUsable(lib[t])
    <2>1. /\ snap' = [snap EXCEPT ![p][t] = lib[t]]
          /\ touched' = [touched EXCEPT ![p] = @ \ {t}]
          /\ Advance(p, label) /\ UNCHANGED error
      BY <1>4 DEF Snapshot
    <2>2. lib[t] \in Known
      BY <1>2, <1>4, ContentItems DEF IInv, TypeOK
    <2>3. label \in Active \cup Ended /\ label \in {"merge", "stage"}
      BY DEF Active, Preparing
    <2> HIDE DEF t, label
    <2>4. /\ pc' \in [Procs -> {"idle"} \cup Active \cup Ended]
          /\ todo' \in [Procs -> SUBSET Targets]
          /\ \/ todo[p] \subseteq {t} /\ todo'[p] = TargetsOf(p) /\ pc'[p] = label
             \/ todo'[p] = todo[p] \ {t} /\ todo'[p] # {} /\ pc'[p] = "snapshot"
          /\ \A q \in Procs \ {p} : todo'[q] = todo[q] /\ pc'[q] = pc[q]
      BY <1>1, <2>1, <2>3, AdvanceTyped DEF IInv, t
    <2>5. /\ snap' \in [Procs -> [Targets -> Known]] /\ snap'[p][t] = lib[t]
          /\ \A u \in Targets \ {t} : snap'[p][u] = snap[p][u]
          /\ \A q \in Procs \ {p} : snap'[q] = snap[q]
      BY <1>2, <2>1, <2>2 DEF IInv, TypeOK
    <2>6. /\ touched' \in [Procs -> SUBSET Targets] /\ touched'[p] = touched[p] \ {t}
          /\ \A q \in Procs \ {p} : touched'[q] = touched[q]
      BY <2>1 DEF IInv, TypeOK
    <2>7. TypeOK'
      BY <1>1, <2>1, <2>4, <2>5, <2>6 DEF IInv, TypeOK, bounds
    <2>8. \A q \in Procs \ {p} : Stays(q)
      BY <1>1, <2>1, <2>4, <2>5, <2>6 DEF Stays, IInv, TypeOK
    <2>9. /\ todo[p] \subseteq touched[p] /\ todo[p] \subseteq TargetsOf(p)
          /\ installed[p] = {} /\ error[p] = NoError
          /\ \A u \in Targets : backup[p][u] = Absent
          /\ \A u \in Alone(p) : AsFound(p, u)
      BY <1>1 DEF IInv, RunInv, Loops, Places, Preparing
    <2>10. pc'[p] \in {"snapshot", "merge", "stage"} /\ (pc'[p] = "snapshot" \/ pc'[p] = label)
      BY <2>3, <2>4
    <2>11. Loops(p)'
      <3>1. "models" \in TargetsOf(p)
        BY TargetsOfAreTargets
      <3>2. todo'[p] \subseteq TargetsOf(p)
        BY <2>4, <2>9
      <3>3. pc'[p] = "stage" => "models" \in todo'[p]
        BY <2>3, <2>4, <3>1
      <3>4. pc'[p] = "snapshot" => todo'[p] \subseteq touched'[p] /\ todo'[p] # {}
        BY <2>3, <2>4, <2>6, <2>9
      <3>5. pc'[p] = "merge" => todo'[p] = TargetsOf(p)
        BY <2>3, <2>4
      <3> QED  BY <1>1, <2>1, <2>9, <2>10, <3>2, <3>3, <3>4, <3>5 DEF Loops
    <2>12. \A u \in Alone(p)' : lib[u] = snap'[p][u] /\ backup[p][u] = Absent
      <3>1. \A u \in Alone(p)' : u = t \/ u \in Alone(p)
        BY <2>6 DEF Alone
      <3>2. \A u \in Alone(p) : u \in Targets
        BY TargetsOfAreTargets DEF Alone
      <3> QED  BY <1>2, <2>5, <2>9, <3>1, <3>2 DEF AsFound
    <2>13. Copies(p)'
      <3>1. pc'[p] = "stage" => ~Request[p].symbol /\ todo'[p] = TargetsOf(p)
        BY <2>3, <2>4 DEF label
      <3>2. \A u \in Alone(p)' : pc'[p] = "stage" => u # "symbols" /\ u \in todo'[p]
        BY <3>1, TargetsOfAreTargets DEF Alone
      <3> QED  BY <2>10, <3>2 DEF Copies
    <2>14. Places(p)' /\ Outcome(p)'
      BY <1>1, <2>10, <2>12 DEF Places, Outcome, AsFound
    <2> QED  BY <2>7, <2>8, <2>11, <2>13, <2>14 DEF StepDone, RunInv
  <1> QED  BY <1>3, <1>4

LEMMA MergeSymbolStep ==
    ASSUME IInv, NEW p \in Procs, MergeSymbol(p)
    PROVE  StepDone(p)
  <1> DEFINE c == lib["symbols"]
  <1>1. /\ pc[p] = "merge"
        /\ UNCHANGED <<lib, todo, snap, backup, installed, open, bounds, touched>>
    BY DEF MergeSymbol
  <1>2. c \in Content /\ c.items \in SUBSET Items
    BY ContentItems, TargetsOfAreTargets DEF IInv, TypeOK
  <1>3. CASE ~IsUsable(c) \/ Conflicts(p, c)
    <2>1. PICK code \in {"REJECTED", "EXISTS"} : Raise(p, code, "done") /\ UNCHANGED staged
      BY <1>3 DEF MergeSymbol
    <2>2. /\ error' \in [Procs -> {NoError} \cup Errors]
          /\ pc' \in [Procs -> {"idle"} \cup Active \cup Ended]
          /\ error'[p] = code /\ pc'[p] = "done"
          /\ \A q \in Procs \ {p} : error'[q] = error[q] /\ pc'[q] = pc[q]
      BY <2>1, RaiseTyped DEF IInv, Errors, CleanErrors
    <2>3. TypeOK'
      BY <1>1, <2>1, <2>2 DEF IInv, TypeOK, bounds
    <2>4. RunInv(p)'
      BY <1>1, <2>1, <2>2, GivenUpInTime DEF Quiet, Preparing, Errors, CleanErrors
    <2>5. \A q \in Procs \ {p} : Stays(q)
      BY <1>1, <2>1, <2>2 DEF Stays, IInv, TypeOK
    <2> QED  BY <2>3, <2>4, <2>5 DEF StepDone
  <1>4. CASE IsUsable(c) /\ ~Conflicts(p, c)
    <2>1. /\ staged' = [staged EXCEPT ![p]["symbols"] = Merged(p, c)]
          /\ Goto(p, "stage") /\ UNCHANGED error
      BY <1>4 DEF MergeSymbol
    <2>2. Merged(p, c) \in Known
      BY <1>2, MergedKnown
    <2>3. /\ pc' \in [Procs -> {"idle"} \cup Active \cup Ended] /\ pc'[p] = "stage"
          /\ \A q \in Procs \ {p} : pc'[q] = pc[q]
      BY <2>1, GotoTyped DEF IInv, Active, Preparing
    <2>4. /\ staged' \in [Procs -> [Targets -> Known]]
          /\ staged'[p]["symbols"] = Merged(p, c)
          /\ \A q \in Procs \ {p} : staged'[q] = staged[q]
      BY <2>1, <2>2, TargetsOfAreTargets DEF IInv, TypeOK
    <2>5. TypeOK'
      BY <1>1, <2>1, <2>3, <2>4 DEF IInv, TypeOK, bounds
    <2>6. \A q \in Procs \ {p} : Stays(q)
      BY <1>1, <2>1, <2>3, <2>4 DEF Stays, IInv, TypeOK
    <2>7. Loops(p)'
      <3>1. todo[p] = TargetsOf(p) /\ "models" \in TargetsOf(p)
        BY <1>1, TargetsOfAreTargets DEF IInv, RunInv, Loops
      <3> QED  BY <1>1, <2>1, <2>3, <3>1 DEF IInv, RunInv, Loops, Preparing
    <2>8. \A u \in Alone(p) : AsFound(p, u)
      BY <1>1 DEF IInv, RunInv, Places, Preparing
    <2>9. Alone(p)' = Alone(p)
      BY <1>1 DEF Alone
    <2>10. Copies(p)'
      <3>1. "symbols" \in Alone(p) => staged'[p]["symbols"] = Merged(p, snap[p]["symbols"])
        BY <2>4, <2>8 DEF AsFound
      <3>2. todo[p] = TargetsOf(p)
        BY <1>1 DEF IInv, RunInv, Loops
      <3>3. \A u \in Alone(p) : u \in todo[p]
        BY <3>2 DEF Alone
      <3> QED  BY <1>1, <2>3, <2>9, <3>1, <3>3 DEF Copies, Merged
    <2>11. Places(p)' /\ Outcome(p)'
      BY <1>1, <2>3, <2>8, <2>9 DEF Places, Outcome, AsFound
    <2> QED  BY <2>5, <2>6, <2>7, <2>10, <2>11 DEF StepDone, RunInv
  <1> QED  BY <1>3, <1>4

LEMMA StageDirectoryStep ==
    ASSUME IInv, NEW p \in Procs, StageDirectory(p)
    PROVE  StepDone(p)
  <1> DEFINE t == FirstOf(todo[p])
  <1>1. /\ pc[p] = "stage" /\ todo[p] \in SUBSET Targets /\ "models" \in todo[p]
        /\ open' = [open EXCEPT ![p] = TRUE]
        /\ UNCHANGED <<lib, snap, backup, installed, bounds, touched>>
    BY DEF StageDirectory, IInv, RunInv, Loops, TypeOK
  <1>2. t \in Dirs /\ t \in Targets /\ (t = "models" => "footprints" \notin todo[p])
    BY <1>1, FirstIsModels DEF Targets, Dirs
  <1>3. CASE ~IsUsable(lib[t])
    <2>1. Raise(p, "REJECTED", "drop") /\ UNCHANGED <<todo, staged>>
      BY <1>3 DEF StageDirectory
    <2>2. /\ error' \in [Procs -> {NoError} \cup Errors]
          /\ pc' \in [Procs -> {"idle"} \cup Active \cup Ended]
          /\ error'[p] = "REJECTED" /\ pc'[p] = "drop"
          /\ \A q \in Procs \ {p} : error'[q] = error[q] /\ pc'[q] = pc[q]
      BY <2>1, RaiseTyped DEF IInv, Errors, CleanErrors
    <2>3. TypeOK'
      BY <1>1, <2>1, <2>2 DEF IInv, TypeOK, bounds
    <2>4. RunInv(p)'
      BY <1>1, <2>1, <2>2, GivenUpInTime DEF Quiet, Preparing, Errors, CleanErrors
    <2>5. \A q \in Procs \ {p} : Stays(q)
      BY <1>1, <2>1, <2>2 DEF Stays, IInv, TypeOK
    <2> QED  BY <2>3, <2>4, <2>5 DEF StepDone
  <1>4. CASE IsUsable(lib[t])
    <2>1. /\ staged' = [staged EXCEPT ![p][t] = Library(lib[t].items)]
          /\ UNCHANGED error
          /\ \/ /\ t = "models" /\ todo' = [todo EXCEPT ![p] = TargetsOf(p)]
                /\ Goto(p, "place")
             \/ /\ t # "models" /\ todo' = [todo EXCEPT ![p] = @ \ {t}]
                /\ pc' = pc
      BY <1>4 DEF StageDirectory
    <2>2. Library(lib[t].items) \in Known
      BY <1>2, ContentItems, LibraryKnown DEF IInv, TypeOK
    <2> HIDE DEF t
    <2>3. /\ staged' \in [Procs -> [Targets -> Known]]
          /\ staged'[p][t] = Library(lib[t].items)
          /\ \A u \in Targets \ {t} : staged'[p][u] = staged[p][u]
          /\ \A q \in Procs \ {p} : staged'[q] = staged[q]
      BY <1>2, <2>1, <2>2 DEF IInv, TypeOK
    <2>4. TargetsOf(p) \in SUBSET Targets
      BY TargetsOfAreTargets
    <2>5. /\ pc' \in [Procs -> {"idle"} \cup Active \cup Ended]
          /\ todo' \in [Procs -> SUBSET Targets]
          /\ \/ t = "models" /\ todo'[p] = TargetsOf(p) /\ pc'[p] = "place"
             \/ t # "models" /\ todo'[p] = todo[p] \ {t} /\ pc'[p] = "stage"
          /\ \A q \in Procs \ {p} : todo'[q] = todo[q] /\ pc'[q] = pc[q]
      <3>1. "place" \in Active \cup Ended
        BY DEF Active, Preparing
      <3>2. CASE t = "models"
        <4>1. todo' = [todo EXCEPT ![p] = TargetsOf(p)] /\ Goto(p, "place") /\ TypeOK
          BY <2>1, <3>2 DEF IInv
        <4>2. /\ pc' \in [Procs -> {"idle"} \cup Active \cup Ended] /\ pc'[p] = "place"
              /\ \A q \in Procs \ {p} : pc'[q] = pc[q]
          BY <3>1, <4>1, GotoTyped
        <4>3. /\ todo' \in [Procs -> SUBSET Targets] /\ todo'[p] = TargetsOf(p)
              /\ \A q \in Procs \ {p} : todo'[q] = todo[q]
          BY <2>4, <4>1 DEF TypeOK
        <4> QED  BY <3>2, <4>2, <4>3
      <3>3. CASE t # "models"
        <4>1. todo' = [todo EXCEPT ![p] = @ \ {t}] /\ pc' = pc /\ pc[p] = "stage" /\ TypeOK
          BY <1>1, <2>1, <3>3 DEF IInv
        <4>2. todo[p] \ {t} \in SUBSET Targets
          BY <4>1 DEF TypeOK
        <4>3. /\ todo' \in [Procs -> SUBSET Targets] /\ todo'[p] = todo[p] \ {t}
              /\ \A q \in Procs \ {p} : todo'[q] = todo[q]
          BY <4>1, <4>2 DEF TypeOK
        <4>4. pc' \in [Procs -> {"idle"} \cup Active \cup Ended]
          BY <4>1 DEF TypeOK
        <4> QED  BY <3>3, <4>1, <4>3, <4>4
      <3> QED  BY <3>2, <3>3
    <2>6. TypeOK'
      BY <1>1, <2>1, <2>3, <2>5 DEF IInv, TypeOK, bounds
    <2>7. \A q \in Procs \ {p} : Stays(q)
      BY <1>1, <2>1, <2>3, <2>5 DEF Stays, IInv, TypeOK
    <2>8. Loops(p)'
      <3>1. todo[p] \subseteq TargetsOf(p) /\ installed[p] = {} /\ error[p] = NoError
        BY <1>1 DEF IInv, RunInv, Loops, Preparing
      <3>2. "models" \in todo'[p] /\ todo'[p] \subseteq TargetsOf(p)
        BY <1>1, <2>5, <3>1, TargetsOfAreTargets
      <3> QED  BY <1>1, <2>1, <2>5, <3>1, <3>2 DEF Loops
    <2>9. \A u \in Alone(p) : AsFound(p, u)
      BY <1>1 DEF IInv, RunInv, Places, Preparing
    <2>10. Alone(p)' = Alone(p) /\ Alone(p) \subseteq Targets
      BY <1>1, <2>4 DEF Alone
    <2>11. Copies(p)'
      <3>1. \A u \in Alone(p) : u = "symbols" => staged'[p][u] = Merged(p, snap[p][u])
        BY <1>1, <1>2, <2>3, <2>10, TargetsOfAreTargets DEF IInv, RunInv, Copies
      <3>2. t \in Alone(p) => staged'[p][t] = Library(snap[p][t].items)
        BY <2>3, <2>9 DEF AsFound
      <3>3. \A u \in Alone(p) : u = "footprints" /\ u \notin todo[p] =>
              staged'[p][u] = Library(snap[p][u].items)
        BY <1>1, <2>3, <2>10, <3>2 DEF IInv, RunInv, Copies
      <3>4. ASSUME NEW u \in Alone(p), pc'[p] = "place", u \in Dirs
            PROVE  staged'[p][u] = Library(snap[p][u].items)
        <4>1. t = "models" /\ "footprints" \notin todo[p]
          BY <1>2, <2>5, <3>4
        <4>2. u = t \/ u = "footprints"
          BY <3>4, <4>1 DEF Dirs
        <4> QED  BY <3>2, <3>3, <4>1, <4>2
      <3>5. ASSUME NEW u \in Alone(p), pc'[p] = "stage", u = "footprints", u \notin todo'[p]
            PROVE  staged'[p][u] = Library(snap[p][u].items)
        <4>1. u = t \/ u \notin todo[p]
          BY <2>5, <3>5
        <4> QED  BY <3>2, <3>3, <3>5, <4>1
      <3>6. pc'[p] \in {"stage", "place"}
        BY <2>5
      <3> QED  BY <1>1, <2>10, <3>1, <3>4, <3>5, <3>6 DEF Copies, Merged
    <2>12. Places(p)' /\ Outcome(p)'
      <3>1. pc'[p] \in {"stage", "place"}
        BY <2>5
      <3> QED  BY <1>1, <2>9, <2>10, <3>1 DEF Places, Outcome, AsFound
    <2> QED  BY <2>6, <2>7, <2>8, <2>11, <2>12 DEF StepDone, RunInv
  <1> QED  BY <1>3, <1>4

LEMMA PlaceStep ==
    ASSUME IInv, NEW p \in Procs, Place(p)
    PROVE  StepDone(p)
  <1>1. /\ pc[p] = "place"
        /\ UNCHANGED <<lib, todo, snap, backup, installed, open, bounds, touched>>
    BY DEF Place
  <1>2. CASE Raise(p, "EXISTS", "drop") /\ UNCHANGED staged
    <2>1. /\ error' \in [Procs -> {NoError} \cup Errors]
          /\ pc' \in [Procs -> {"idle"} \cup Active \cup Ended]
          /\ error'[p] = "EXISTS" /\ pc'[p] = "drop"
          /\ \A q \in Procs \ {p} : error'[q] = error[q] /\ pc'[q] = pc[q]
      BY <1>2, RaiseTyped DEF IInv, Errors, CleanErrors
    <2>2. TypeOK'
      BY <1>1, <1>2, <2>1 DEF IInv, TypeOK, bounds
    <2>3. RunInv(p)'
      BY <1>1, <1>2, <2>1, GivenUpInTime DEF Quiet, Preparing, Errors, CleanErrors
    <2>4. \A q \in Procs \ {p} : Stays(q)
      BY <1>1, <1>2, <2>1 DEF Stays, IInv, TypeOK
    <2> QED  BY <2>2, <2>3, <2>4 DEF StepDone
  <1>3. CASE /\ staged' = [staged EXCEPT ![p] =
                             [t \in Targets |-> IF t \in Dirs THEN Merged(p, @[t]) ELSE @[t]]]
             /\ Goto(p, "check") /\ UNCHANGED error
    <2>1. /\ pc' \in [Procs -> {"idle"} \cup Active \cup Ended] /\ pc'[p] = "check"
          /\ \A q \in Procs \ {p} : pc'[q] = pc[q]
      BY <1>3, GotoTyped DEF IInv, Active, Preparing
    <2>2. \A t \in Targets : Merged(p, staged[p][t]) \in Known /\ staged[p][t] \in Known
      BY MergedKnown, ContentItems, KnownIsContent DEF IInv, TypeOK
    <2>3. /\ \A t \in Dirs : staged'[p][t] = Merged(p, staged[p][t])
          /\ staged'[p]["symbols"] = staged[p]["symbols"]
          /\ \A q \in Procs \ {p} : staged'[q] = staged[q]
      BY <1>3, TargetsOfAreTargets DEF IInv, TypeOK
    <2>4. staged' \in [Procs -> [Targets -> Known]]
      BY <1>3, <2>2 DEF IInv, TypeOK
    <2>5. TypeOK'
      BY <1>1, <1>3, <2>1, <2>4 DEF IInv, TypeOK, bounds
    <2>6. \A q \in Procs \ {p} : Stays(q)
      BY <1>1, <1>3, <2>1, <2>3 DEF Stays, IInv, TypeOK
    <2>7. Loops(p)'
      <3>1. todo[p] # {}
        BY <1>1, TargetsOfAreTargets DEF IInv, RunInv, Loops
      <3> QED  BY <1>1, <1>3, <2>1, <3>1 DEF IInv, RunInv, Loops, Preparing
    <2>8. \A u \in Alone(p) : AsFound(p, u)
      BY <1>1 DEF IInv, RunInv, Places, Preparing
    <2>9. Alone(p)' = Alone(p) /\ \A u \in Alone(p) : u \in Dirs \/ u = "symbols"
      BY <1>1, TargetsOfAreTargets DEF Alone
    <2>10. \A u \in Alone(p) : staged'[p][u] = Merged(p, snap[p][u])
      <3>1. \A u \in Alone(p) : u \in Dirs => staged[p][u] = Library(snap[p][u].items)
        BY <1>1 DEF IInv, RunInv, Copies
      <3>2. \A u \in Alone(p) : u = "symbols" => staged[p][u] = Merged(p, snap[p][u])
        BY <1>1 DEF IInv, RunInv, Copies
      <3> QED  BY <2>3, <2>9, <3>1, <3>2, MergedCopy
    <2>11. Copies(p)' /\ Places(p)' /\ Outcome(p)'
      BY <1>1, <2>1, <2>8, <2>9, <2>10 DEF Copies, Places, Outcome, AsFound, Merged
    <2> QED  BY <2>5, <2>6, <2>7, <2>11 DEF StepDone, RunInv
  <1> QED  BY <1>2, <1>3 DEF Place

-----------------------------------------------------------------------------
(* The commit.                                                             *)

LEMMA CheckStep ==
    ASSUME IInv, NEW p \in Procs, Check(p)
    PROVE  StepDone(p)
  <1> DEFINE t == FirstOf(todo[p])
  <1>1. /\ pc[p] = "check" /\ todo[p] \in SUBSET Targets
        /\ UNCHANGED <<lib, snap, staged, backup, installed, open, bounds, touched>>
    BY DEF Check, IInv, TypeOK
  <1>2. CASE lib[t] = snap[p][t]
    <2>1. Advance(p, "move") /\ UNCHANGED error
      BY <1>2 DEF Check
    <2> HIDE DEF t
    <2>2. /\ pc' \in [Procs -> {"idle"} \cup Active \cup Ended]
          /\ todo' \in [Procs -> SUBSET Targets]
          /\ \/ todo'[p] = TargetsOf(p) /\ pc'[p] = "move"
             \/ todo'[p] \subseteq todo[p] /\ todo'[p] # {} /\ pc'[p] = "check"
          /\ \A q \in Procs \ {p} : todo'[q] = todo[q] /\ pc'[q] = pc[q]
      BY <1>1, <2>1, AdvanceTyped DEF IInv, Active, Committing
    <2>3. TypeOK'
      BY <1>1, <2>1, <2>2 DEF IInv, TypeOK, bounds
    <2>4. \A q \in Procs \ {p} : Stays(q)
      BY <1>1, <2>1, <2>2 DEF Stays, IInv, TypeOK
    <2>5. Loops(p)'
      <3>1. /\ todo[p] \subseteq TargetsOf(p) /\ installed[p] = {} /\ error[p] = NoError
            /\ TargetsOf(p) # {}
        BY <1>1, TargetsOfAreTargets DEF IInv, RunInv, Loops, Preparing
      <3>2. todo'[p] \subseteq TargetsOf(p) /\ todo'[p] # {}
        BY <2>2, <3>1
      <3>3. pc'[p] = "move" => TargetsOf(p) \ todo'[p] = {}
        BY <2>2
      <3>4. pc'[p] \in {"check", "move"}
        BY <2>2
      <3> QED  BY <1>1, <2>1, <3>1, <3>2, <3>3, <3>4 DEF Loops
    <2>6. /\ \A u \in Alone(p) : AsFound(p, u) /\ staged[p][u] = Merged(p, snap[p][u])
          /\ Alone(p)' = Alone(p)
      BY <1>1 DEF IInv, RunInv, Places, Copies, Preparing, Alone
    <2>7. pc'[p] = "check" \/ (pc'[p] = "move" /\ \A u \in Alone(p) : u \in todo'[p])
      BY <2>2 DEF Alone
    <2>8. Copies(p)' /\ Places(p)' /\ Outcome(p)'
      BY <1>1, <2>6, <2>7 DEF Copies, Places, Outcome, AsFound, Merged
    <2> QED  BY <2>3, <2>4, <2>5, <2>8 DEF StepDone, RunInv
  <1>3. CASE lib[t] # snap[p][t]
    <2>1. Raise(p, "CONCURRENT_MODIFICATION", "drop") /\ UNCHANGED todo
      BY <1>3 DEF Check
    <2>2. /\ error' \in [Procs -> {NoError} \cup Errors]
          /\ pc' \in [Procs -> {"idle"} \cup Active \cup Ended]
          /\ error'[p] = "CONCURRENT_MODIFICATION" /\ pc'[p] = "drop"
          /\ \A q \in Procs \ {p} : error'[q] = error[q] /\ pc'[q] = pc[q]
      BY <2>1, RaiseTyped DEF IInv, Errors, CleanErrors
    <2>3. TypeOK'
      BY <1>1, <2>1, <2>2 DEF IInv, TypeOK, bounds
    <2>4. RunInv(p)'
      BY <1>1, <2>1, <2>2, GivenUpInTime DEF Quiet, Preparing, Errors, CleanErrors
    <2>5. \A q \in Procs \ {p} : Stays(q)
      BY <1>1, <2>1, <2>2 DEF Stays, IInv, TypeOK
    <2> QED  BY <2>3, <2>4, <2>5 DEF StepDone
  <1> QED  BY <1>2, <1>3

\* A target that p writes: types, the other processes, and p's own targets.
LEMMA WritesStays ==
    ASSUME IInv, NEW p \in Procs, NEW t \in Targets, NEW c \in Content, Writes(p, t, c),
           NEW q \in Procs \ {p},
           pc'[q] = pc[q], todo'[q] = todo[q], snap'[q] = snap[q], staged'[q] = staged[q],
           backup'[q] = backup[q], installed'[q] = installed[q], error'[q] = error[q]
    PROVE  Stays(q)
  <1>1. /\ touched'[q] = touched[q] \cup {t} /\ touched[q] \subseteq Targets
        /\ \A u \in Targets \ {t} : lib'[u] = lib[u]
    BY WritesTyped DEF IInv, TypeOK
  <1> QED  BY <1>1 DEF Stays

LEMMA MoveAwayStep ==
    ASSUME IInv, NEW p \in Procs, MoveAway(p)
    PROVE  StepDone(p)
  <1> DEFINE t == FirstOf(todo[p])
  <1>1. /\ pc[p] = "move" /\ todo[p] \in SUBSET Targets /\ todo[p] # {}
        /\ UNCHANGED <<todo, snap, staged, installed, open, error, bounds>>
        /\ Goto(p, "put")
    BY DEF MoveAway, IInv, RunInv, Loops, TypeOK
  <1>2. t \in todo[p] /\ t \in Targets
    BY <1>1, FirstAndLast
  <1>3. /\ pc' \in [Procs -> {"idle"} \cup Active \cup Ended] /\ pc'[p] = "put"
        /\ \A q \in Procs \ {p} : pc'[q] = pc[q]
    BY <1>1, GotoTyped DEF IInv, Active, Committing
  <1>4. /\ lib[t] = Absent => UNCHANGED <<lib, backup, touched>>
        /\ lib[t] # Absent => /\ backup' = [backup EXCEPT ![p][t] = lib[t]]
                              /\ Writes(p, t, Absent)
    BY DEF MoveAway
  <1>5. t = FirstOf(todo'[p])
    BY <1>1
  <1> HIDE DEF t
  <1>6. Absent \in Content /\ lib[t] \in Content
    BY <1>2, KnownIsContent DEF IInv, TypeOK
  <1>7. /\ lib' \in [Targets -> Content] /\ touched' \in [Procs -> SUBSET Targets]
        /\ backup' \in [Procs -> [Targets -> Content]]
        /\ lib'[t] = Absent /\ touched'[p] = touched[p]
        /\ lib[t] = Absent \/ backup'[p][t] = lib[t]
        /\ lib[t] = Absent => backup' = backup
        /\ \A u \in Targets \ {t} : lib'[u] = lib[u] /\ backup'[p][u] = backup[p][u]
        /\ \A q \in Procs \ {p} : backup'[q] = backup[q]
    <2>1. CASE lib[t] = Absent
      BY <1>4, <2>1 DEF IInv, TypeOK
    <2>2. CASE lib[t] # Absent
      <3>1. /\ lib' \in [Targets -> Content] /\ touched' \in [Procs -> SUBSET Targets]
            /\ lib'[t] = Absent /\ touched'[p] = touched[p]
            /\ \A u \in Targets \ {t} : lib'[u] = lib[u]
        BY <1>2, <1>4, <1>6, <2>2, WritesTyped DEF IInv
      <3>2. /\ backup' \in [Procs -> [Targets -> Content]] /\ backup'[p][t] = lib[t]
            /\ \A u \in Targets \ {t} : backup'[p][u] = backup[p][u]
            /\ \A q \in Procs \ {p} : backup'[q] = backup[q]
        <4>1. backup' = [backup EXCEPT ![p][t] = lib[t]]
          BY <1>4, <2>2
        <4>2. backup \in [Procs -> [Targets -> Content]]
          BY DEF IInv, TypeOK
        <4> HIDE DEF IInv
        <4> DEFINE c == lib[t]
        <4>3. c \in Content
          BY <1>6
        <4> HIDE DEF c
        <4>4. backup' = [backup EXCEPT ![p][t] = c]
          BY <4>1 DEF c
        <4>5. /\ backup' \in [Procs -> [Targets -> Content]] /\ backup'[p][t] = c
              /\ \A u \in Targets \ {t} : backup'[p][u] = backup[p][u]
              /\ \A q \in Procs \ {p} : backup'[q] = backup[q]
          BY <1>2, <4>2, <4>3, <4>4
        <4> QED  BY <4>5 DEF c
      <3> QED  BY <2>2, <3>1, <3>2
    <2> QED  BY <2>1, <2>2
  <1>8. TypeOK'
    BY <1>1, <1>3, <1>7 DEF IInv, TypeOK, bounds
  <1>9. ASSUME NEW q \in Procs \ {p} PROVE Stays(q)
    <2>1. CASE lib[t] = Absent
      BY <1>1, <1>3, <1>4, <2>1 DEF Stays, IInv, TypeOK
    <2>2. CASE lib[t] # Absent
      BY <1>1, <1>2, <1>3, <1>4, <1>6, <1>7, <2>2, WritesStays
    <2> QED  BY <2>1, <2>2
  <1>10. Loops(p)'
    BY <1>1, <1>3 DEF IInv, RunInv, Loops, Preparing
  <1>11. Alone(p)' = Alone(p) /\ Alone(p) \subseteq Targets
    BY <1>7, TargetsOfAreTargets DEF Alone
  <1>12. Copies(p)'
    BY <1>1, <1>3, <1>11 DEF IInv, RunInv, Copies, Merged
  <1>13. t \in Alone(p) => lib'[t] = Absent /\ backup'[p][t] = snap[p][t]
    <2>1. t \in Alone(p) => AsFound(p, t)
      BY <1>1, <1>2 DEF IInv, RunInv, Places
    <2> QED  BY <1>7, <2>1 DEF AsFound
  <1>14. Places(p)' /\ Outcome(p)'
    <2>1. \A u \in Alone(p) : u # t => lib'[u] = lib[u] /\ backup'[p][u] = backup[p][u]
      BY <1>7, <1>11
    <2>2. \A u \in Alone(p) : (u \notin todo[p] => Replaced(p, u))
                              /\ (u \in todo[p] => AsFound(p, u))
      BY <1>1 DEF IInv, RunInv, Places
    <2>3. \A u \in Alone(p) : u \notin todo[p] => Replaced(p, u)'
      BY <1>1, <1>2, <2>1, <2>2 DEF Replaced, Merged
    <2>4. \A u \in Alone(p) : u \in todo[p] /\ u # t => AsFound(p, u)'
      BY <1>1, <2>1, <2>2 DEF AsFound
    <2>5. \A u \in Alone(p) : u = t => Away(p, u)'
      BY <1>1, <1>13 DEF Away
    <2> QED  BY <1>1, <1>3, <1>5, <1>11, <2>3, <2>4, <2>5 DEF Places, Outcome, Preparing
  <1> QED  BY <1>8, <1>9, <1>10, <1>12, <1>14 DEF StepDone, RunInv

LEMMA PutStep ==
    ASSUME IInv, NEW p \in Procs, Put(p)
    PROVE  StepDone(p)
  <1> DEFINE t == FirstOf(todo[p])
  <1>1. /\ pc[p] = "put" /\ todo[p] \in SUBSET Targets /\ todo[p] # {}
        /\ todo[p] \subseteq TargetsOf(p) /\ installed[p] = TargetsOf(p) \ todo[p]
        /\ error[p] = NoError
        /\ UNCHANGED <<snap, staged, backup, open, error, bounds>>
    BY DEF Put, IInv, RunInv, Loops, TypeOK
  <1>2. t \in todo[p] /\ t \in Targets /\ t \in TargetsOf(p)
    BY <1>1, FirstAndLast
  <1>3. /\ Writes(p, t, staged[p][t])
        /\ installed' = [installed EXCEPT ![p] = @ \cup {t}]
        /\ todo' = [todo EXCEPT ![p] = @ \ {t}]
        /\ Goto(p, IF todo'[p] = {} THEN "drop" ELSE "move")
    BY DEF Put
  <1>4. \A u \in Alone(p) : u \in todo[p] => IF u = t THEN Away(p, u) ELSE AsFound(p, u)
    BY <1>1 DEF IInv, RunInv, Places
  <1> HIDE DEF t
  <1>5. staged[p][t] \in Content
    BY <1>2, KnownIsContent DEF IInv, TypeOK
  <1>6. /\ lib' \in [Targets -> Content] /\ touched' \in [Procs -> SUBSET Targets]
        /\ lib'[t] = staged[p][t] /\ touched'[p] = touched[p]
        /\ \A u \in Targets \ {t} : lib'[u] = lib[u]
    BY <1>2, <1>3, <1>5, WritesTyped DEF IInv
  <1>7. /\ todo' \in [Procs -> SUBSET Targets] /\ todo'[p] = todo[p] \ {t}
        /\ installed' \in [Procs -> SUBSET Targets] /\ installed'[p] = installed[p] \cup {t}
        /\ \A q \in Procs \ {p} : todo'[q] = todo[q] /\ installed'[q] = installed[q]
    BY <1>2, <1>3 DEF IInv, TypeOK
  <1>8. /\ pc' \in [Procs -> {"idle"} \cup Active \cup Ended]
        /\ pc'[p] = IF todo'[p] = {} THEN "drop" ELSE "move"
        /\ \A q \in Procs \ {p} : pc'[q] = pc[q]
    <2>1. (IF todo'[p] = {} THEN "drop" ELSE "move") \in Active \cup Ended
      BY DEF Active, Committing
    <2> QED  BY <1>3, <2>1, GotoTyped DEF IInv
  <1>9. TypeOK'
    BY <1>1, <1>6, <1>7, <1>8 DEF IInv, TypeOK, bounds
  <1>10. ASSUME NEW q \in Procs \ {p} PROVE Stays(q)
    BY <1>1, <1>2, <1>3, <1>5, <1>7, <1>8, WritesStays
  <1>11. Loops(p)'
    <2>1. installed'[p] = TargetsOf(p) \ todo'[p] /\ todo'[p] \subseteq TargetsOf(p)
      BY <1>1, <1>2, <1>7
    <2> QED  BY <1>1, <1>8, <2>1 DEF Loops, Preparing
  <1>12. Alone(p)' = Alone(p) /\ Alone(p) \subseteq TargetsOf(p) /\ Alone(p) \subseteq Targets
    BY <1>6, TargetsOfAreTargets DEF Alone
  <1>13. Copies(p)'
    BY <1>1, <1>8, <1>12 DEF IInv, RunInv, Copies, Merged
  <1>14. \A u \in Alone(p) : u \notin todo'[p] =>
           lib'[u] = Merged(p, snap[p][u]) /\ backup[p][u] = snap[p][u]
    <2>1. \A u \in Alone(p) : u \notin todo[p] => Replaced(p, u)
      BY <1>1 DEF IInv, RunInv, Places
    <2>2. t \in Alone(p) => staged[p][t] = Merged(p, snap[p][t]) /\ Away(p, t)
      BY <1>1, <1>2, <1>4 DEF IInv, RunInv, Copies
    <2> QED  BY <1>2, <1>6, <1>7, <1>12, <2>1, <2>2 DEF Replaced, Away
  <1>15. \A u \in Alone(p) : u \in todo'[p] => lib'[u] = snap[p][u] /\ backup[p][u] = Absent
    BY <1>4, <1>6, <1>7, <1>12 DEF AsFound
  <1>16. Places(p)' /\ Outcome(p)'
    <2>1. pc'[p] = "move" \/ (pc'[p] = "drop" /\ \A u \in Alone(p) : u \notin todo'[p])
      BY <1>8
    <2>2. error'[p] = NoError /\ NoError \notin CleanErrors
      BY <1>1 DEF NoError, CleanErrors
    <2> QED  BY <1>1, <1>12, <1>14, <1>15, <2>1, <2>2
             DEF Places, Outcome, Preparing, AsFound, Replaced, Merged
  <1> QED  BY <1>9, <1>10, <1>11, <1>13, <1>16 DEF StepDone, RunInv

-----------------------------------------------------------------------------
(* The rollback.                                                           *)

LEMMA MovesFailStep ==
    ASSUME IInv, NEW p \in Procs, MovesFail(p)
    PROVE  StepDone(p)
  <1>1. /\ pc[p] \in {"move", "put"} /\ todo[p] \in SUBSET Targets
        /\ UNCHANGED <<lib, todo, snap, staged, backup, installed, open, edits, touched>>
        /\ Raise(p, "INSTALL_FAILED", "remove")
    BY DEF MovesFail, IInv, TypeOK
  <1>2. /\ error' \in [Procs -> {NoError} \cup Errors]
        /\ pc' \in [Procs -> {"idle"} \cup Active \cup Ended]
        /\ error'[p] = "INSTALL_FAILED" /\ pc'[p] = "remove"
        /\ \A q \in Procs \ {p} : error'[q] = error[q] /\ pc'[q] = pc[q]
    BY <1>1, RaiseTyped DEF IInv, Errors, CleanErrors
  <1>3. faults' \in Nat
    <2>1. faults' = faults + 1 \/ faults' = faults
      BY DEF MovesFail, MoveFails, Fault
    <2> QED  BY <2>1 DEF IInv, TypeOK
  <1>4. TypeOK'
    BY <1>1, <1>2, <1>3 DEF IInv, TypeOK
  <1>5. \A q \in Procs \ {p} : Stays(q)
    BY <1>1, <1>2 DEF Stays, IInv, TypeOK
  <1>6. Loops(p)'
    BY <1>1, <1>2 DEF IInv, RunInv, Loops, Preparing
  <1>7. Alone(p)' = Alone(p) /\ Alone(p) \subseteq TargetsOf(p)
    BY <1>1 DEF Alone
  <1>8. installed[p] = TargetsOf(p) \ todo[p]
    BY <1>1 DEF IInv, RunInv, Loops
  <1>9. \A u \in Alone(p) : IF u \in installed[p] THEN Replaced(p, u)
                            ELSE AsFound(p, u) \/ Away(p, u)
    BY <1>1, <1>7, <1>8 DEF IInv, RunInv, Places
  <1>10. \A u \in Alone(p) : IF u \in installed[p] THEN Replaced(p, u)'
                             ELSE AsFound(p, u)' \/ Away(p, u)'
    BY <1>1, <1>9 DEF Replaced, AsFound, Away, Merged
  <1>11. Copies(p)' /\ Places(p)' /\ Outcome(p)'
    BY <1>1, <1>2, <1>7, <1>10 DEF Copies, Places, Outcome, Preparing
  <1> QED  BY <1>4, <1>5, <1>6, <1>11 DEF StepDone, RunInv

LEMMA RemoveInstalledStep ==
    ASSUME IInv, NEW p \in Procs, RemoveInstalled(p)
    PROVE  StepDone(p)
  <1>1. /\ pc[p] = "remove" /\ installed[p] \in SUBSET Targets
        /\ UNCHANGED <<todo, snap, staged, backup, open, error, bounds>>
    BY DEF RemoveInstalled, IInv, TypeOK
  <1>2. \A u \in Alone(p) : IF u \in installed[p] THEN Replaced(p, u)
                            ELSE AsFound(p, u) \/ Away(p, u)
    BY <1>1 DEF IInv, RunInv, Places
  <1>3. CASE installed[p] = {}
    <2>1. Goto(p, "restore") /\ UNCHANGED <<lib, installed, touched>>
      BY <1>3 DEF RemoveInstalled
    <2>2. /\ pc' \in [Procs -> {"idle"} \cup Active \cup Ended] /\ pc'[p] = "restore"
          /\ \A q \in Procs \ {p} : pc'[q] = pc[q]
      BY <2>1, GotoTyped DEF IInv, Active, Committing
    <2>3. TypeOK'
      BY <1>1, <2>1, <2>2 DEF IInv, TypeOK, bounds
    <2>4. \A q \in Procs \ {p} : Stays(q)
      BY <1>1, <2>1, <2>2 DEF Stays, IInv, TypeOK
    <2>5. Loops(p)'
      BY <1>1, <1>3, <2>1, <2>2 DEF IInv, RunInv, Loops, Preparing
    <2>6. Alone(p)' = Alone(p)
      BY <2>1 DEF Alone
    <2>7. \A u \in Alone(p) : AsFound(p, u)' \/ Away(p, u)'
      BY <1>1, <1>2, <1>3, <2>1 DEF AsFound, Away
    <2>8. Copies(p)' /\ Places(p)' /\ Outcome(p)'
      BY <1>3, <2>1, <2>2, <2>6, <2>7 DEF Copies, Places, Outcome, Preparing
    <2> QED  BY <2>3, <2>4, <2>5, <2>8 DEF StepDone, RunInv
  <1>4. CASE installed[p] # {}
    <2>1. PICK t \in Targets : t = LastOf(installed[p]) /\ t \in installed[p]
      BY <1>1, <1>4, FirstAndLast
    <2>2. /\ Writes(p, t, Absent) /\ installed' = [installed EXCEPT ![p] = @ \ {t}]
          /\ UNCHANGED pc
      BY <1>4, <2>1 DEF RemoveInstalled
    <2>3. /\ lib' \in [Targets -> Content] /\ touched' \in [Procs -> SUBSET Targets]
          /\ lib'[t] = Absent /\ touched'[p] = touched[p]
          /\ \A u \in Targets \ {t} : lib'[u] = lib[u]
      BY <2>2, KnownIsContent, WritesTyped DEF IInv
    <2>4. /\ installed' \in [Procs -> SUBSET Targets] /\ installed'[p] = installed[p] \ {t}
          /\ \A q \in Procs \ {p} : installed'[q] = installed[q]
      BY <2>2 DEF IInv, TypeOK
    <2>5. TypeOK'
      BY <1>1, <2>2, <2>3, <2>4 DEF IInv, TypeOK, bounds
    <2>6. ASSUME NEW q \in Procs \ {p} PROVE Stays(q)
      BY <1>1, <2>2, <2>4, KnownIsContent, WritesStays
    <2>7. Loops(p)'
      BY <1>1, <2>2, <2>4 DEF IInv, RunInv, Loops, Preparing
    <2>8. Alone(p)' = Alone(p) /\ Alone(p) \subseteq Targets
      BY <2>3, TargetsOfAreTargets DEF Alone
    <2>9. \A u \in Alone(p) : u # t => lib'[u] = lib[u]
      BY <2>3, <2>8
    <2>10. \A u \in Alone(p) : u \in installed'[p] => Replaced(p, u)'
      BY <1>1, <1>2, <2>4, <2>9 DEF Replaced, Merged
    <2>11. \A u \in Alone(p) : u \notin installed'[p] /\ u # t => AsFound(p, u)' \/ Away(p, u)'
      BY <1>1, <1>2, <2>4, <2>9 DEF AsFound, Away
    <2>12. t \in Alone(p) => Away(p, t)'
      BY <1>1, <1>2, <2>1, <2>3 DEF Away, Replaced
    <2>13. Copies(p)' /\ Places(p)' /\ Outcome(p)'
      BY <1>1, <2>2, <2>8, <2>10, <2>11, <2>12 DEF Copies, Places, Outcome, Preparing
    <2> QED  BY <2>5, <2>6, <2>7, <2>13 DEF StepDone, RunInv
  <1> QED  BY <1>3, <1>4

LEMMA RemoveFailsStep ==
    ASSUME IInv, NEW p \in Procs, RemoveFails(p)
    PROVE  StepDone(p)
  <1>1. /\ pc[p] = "remove" /\ installed[p] \in SUBSET Targets /\ installed[p] # {}
        /\ faults' = faults + 1 /\ Raise(p, "OS_ERROR", "drop")
        /\ UNCHANGED <<todo, snap, staged, backup, installed, open, edits>>
    BY DEF RemoveFails, Fault, IInv, TypeOK
  <1>2. PICK t \in Targets : t = LastOf(installed[p]) /\ t \in installed[p]
    BY <1>1, FirstAndLast
  <1>3. PICK left \in SUBSET lib[t].items : Writes(p, t, [lib[t] EXCEPT !.items = left])
    BY <1>2 DEF RemoveFails
  <1>4. PICK c \in Content : Writes(p, t, c)
    BY <1>3, ContentItems DEF IInv, TypeOK
  <1>5. /\ lib' \in [Targets -> Content] /\ touched' \in [Procs -> SUBSET Targets]
    BY <1>4, WritesTyped DEF IInv
  <1>6. /\ error' \in [Procs -> {NoError} \cup Errors]
        /\ pc' \in [Procs -> {"idle"} \cup Active \cup Ended]
        /\ error'[p] = "OS_ERROR" /\ pc'[p] = "drop"
        /\ \A q \in Procs \ {p} : error'[q] = error[q] /\ pc'[q] = pc[q]
    BY <1>1, RaiseTyped DEF IInv, Errors
  <1>7. TypeOK'
    BY <1>1, <1>5, <1>6 DEF IInv, TypeOK
  <1>8. ASSUME NEW q \in Procs \ {p} PROVE Stays(q)
    BY <1>1, <1>4, <1>6, WritesStays
  <1>9. RunInv(p)'
    BY <1>1, <1>6, NothingPromised DEF IInv, RunInv, Loops
  <1> QED  BY <1>7, <1>8, <1>9 DEF StepDone

LEMMA RestoreStep ==
    ASSUME IInv, NEW p \in Procs, Restore(p)
    PROVE  StepDone(p)
  <1> DEFINE left == {u \in Targets : backup[p][u] # Absent}
  <1>1. /\ pc[p] = "restore" /\ error[p] = "INSTALL_FAILED" /\ installed[p] = {}
        /\ UNCHANGED <<todo, snap, staged, installed, open, error, bounds>>
    BY DEF Restore, IInv, RunInv, Loops
  <1>2. \A u \in Alone(p) : AsFound(p, u) \/ Away(p, u)
    BY <1>1 DEF IInv, RunInv, Places
  <1>3. CASE left = {}
    <2>1. Goto(p, "drop") /\ UNCHANGED <<lib, backup, touched>>
      BY <1>3 DEF Restore
    <2>2. /\ pc' \in [Procs -> {"idle"} \cup Active \cup Ended] /\ pc'[p] = "drop"
          /\ \A q \in Procs \ {p} : pc'[q] = pc[q]
      BY <2>1, GotoTyped DEF IInv, Active
    <2>3. TypeOK'
      BY <1>1, <2>1, <2>2 DEF IInv, TypeOK, bounds
    <2>4. \A q \in Procs \ {p} : Stays(q)
      BY <1>1, <2>1, <2>2 DEF Stays, IInv, TypeOK
    <2>5. Loops(p)'
      BY <1>1, <2>1, <2>2 DEF IInv, RunInv, Loops, Preparing
    <2>6. Alone(p)' = Alone(p) /\ \A u \in Alone(p) : u \in Targets
      BY <2>1, TargetsOfAreTargets DEF Alone
    <2>7. \A u \in Alone(p) : lib[u] = snap[p][u]
      BY <1>2, <1>3, <2>6 DEF AsFound, Away
    <2>8. error'[p] # NoError /\ error'[p] \in CleanErrors
      BY <1>1 DEF NoError, CleanErrors
    <2>9. Copies(p)' /\ Places(p)' /\ Outcome(p)'
      BY <1>1, <2>1, <2>2, <2>6, <2>7, <2>8 DEF Copies, Places, Outcome, Preparing
    <2> QED  BY <2>3, <2>4, <2>5, <2>9 DEF StepDone, RunInv
  <1>4. CASE left # {}
    <2>1. PICK t \in Targets : t = LastOf(left) /\ backup[p][t] # Absent
      BY <1>4, FirstAndLast
    <2>2. /\ Writes(p, t, backup[p][t]) /\ backup' = [backup EXCEPT ![p][t] = Absent]
          /\ UNCHANGED pc
      BY <1>4, <2>1 DEF Restore
    <2>3. backup[p][t] \in Content /\ Absent \in Content
      BY KnownIsContent DEF IInv, TypeOK
    <2>4. /\ lib' \in [Targets -> Content] /\ touched' \in [Procs -> SUBSET Targets]
          /\ lib'[t] = backup[p][t] /\ touched'[p] = touched[p]
          /\ \A u \in Targets \ {t} : lib'[u] = lib[u]
      BY <2>2, <2>3, WritesTyped DEF IInv
    <2>5. /\ backup' \in [Procs -> [Targets -> Content]] /\ backup'[p][t] = Absent
          /\ \A u \in Targets \ {t} : backup'[p][u] = backup[p][u]
          /\ \A q \in Procs \ {p} : backup'[q] = backup[q]
      BY <2>2, <2>3 DEF IInv, TypeOK
    <2>6. TypeOK'
      BY <1>1, <2>2, <2>4, <2>5 DEF IInv, TypeOK, bounds
    <2>7. ASSUME NEW q \in Procs \ {p} PROVE Stays(q)
      BY <1>1, <2>2, <2>3, <2>5, WritesStays
    <2>8. Loops(p)'
      BY <1>1, <2>2 DEF IInv, RunInv, Loops, Preparing
    <2>9. Alone(p)' = Alone(p) /\ Alone(p) \subseteq Targets
      BY <2>4, TargetsOfAreTargets DEF Alone
    <2>10. \A u \in Alone(p) : u # t => AsFound(p, u)' \/ Away(p, u)'
      BY <1>1, <1>2, <2>4, <2>5, <2>9 DEF AsFound, Away
    <2>11. t \in Alone(p) => AsFound(p, t)'
      BY <1>1, <1>2, <2>1, <2>4, <2>5 DEF AsFound, Away
    <2>12. Copies(p)' /\ Places(p)' /\ Outcome(p)'
      BY <1>1, <2>2, <2>9, <2>10, <2>11 DEF Copies, Places, Outcome, Preparing
    <2> QED  BY <2>6, <2>7, <2>8, <2>12 DEF StepDone, RunInv
  <1> QED  BY <1>3, <1>4

LEMMA RestoreFailsStep ==
    ASSUME IInv, NEW p \in Procs, RestoreFails(p)
    PROVE  StepDone(p)
  <1>1. /\ Raise(p, "OS_ERROR", "drop")
        /\ UNCHANGED <<lib, todo, snap, staged, backup, installed, open, edits, touched>>
    BY DEF RestoreFails
  <1>2. faults' \in Nat
    <2>1. faults' = faults + 1 \/ faults' = faults
      BY DEF RestoreFails, MoveFails, Fault
    <2> QED  BY <2>1 DEF IInv, TypeOK
  <1>3. /\ error' \in [Procs -> {NoError} \cup Errors]
        /\ pc' \in [Procs -> {"idle"} \cup Active \cup Ended]
        /\ error'[p] = "OS_ERROR" /\ pc'[p] = "drop"
        /\ \A q \in Procs \ {p} : error'[q] = error[q] /\ pc'[q] = pc[q]
    BY <1>1, RaiseTyped DEF IInv, Errors
  <1>4. TypeOK'
    BY <1>1, <1>2, <1>3 DEF IInv, TypeOK
  <1>5. RunInv(p)'
    BY <1>1, <1>3, NothingPromised DEF IInv, RunInv, Loops
  <1>6. \A q \in Procs \ {p} : Stays(q)
    BY <1>1, <1>3 DEF Stays, IInv, TypeOK
  <1> QED  BY <1>4, <1>5, <1>6 DEF StepDone

-----------------------------------------------------------------------------
(* The end of a run.                                                       *)

LEMMA DropStep ==
    ASSUME IInv, NEW p \in Procs, Drop(p)
    PROVE  StepDone(p)
  <1> DEFINE label == IF error[p] = NoError THEN "hash" ELSE "done"
  <1>1. /\ pc[p] = "drop"
        /\ open' = [open EXCEPT ![p] = FALSE]
        /\ backup' = [backup EXCEPT ![p] = [t \in Targets |-> Absent]]
        /\ staged' = [staged EXCEPT ![p] = [t \in Targets |-> Absent]]
        /\ todo' = [todo EXCEPT ![p] = TargetsOf(p)]
        /\ Goto(p, label)
        /\ UNCHANGED <<lib, snap, installed, error, bounds, touched>>
    BY DEF Drop
  <1>2. TargetsOf(p) \in SUBSET Targets /\ TargetsOf(p) # {}
    BY TargetsOfAreTargets
  <1>3. label \in Active \cup Ended
    BY DEF Active, Ended
  <1>4. /\ pc' \in [Procs -> {"idle"} \cup Active \cup Ended] /\ pc'[p] = label
        /\ \A q \in Procs \ {p} : pc'[q] = pc[q]
    BY <1>1, <1>3, GotoTyped DEF IInv
  <1>5. /\ todo' \in [Procs -> SUBSET Targets] /\ todo'[p] = TargetsOf(p)
        /\ backup' \in [Procs -> [Targets -> Content]]
        /\ staged' \in [Procs -> [Targets -> Known]]
        /\ \A q \in Procs \ {p} :
             todo'[q] = todo[q] /\ backup'[q] = backup[q] /\ staged'[q] = staged[q]
    BY <1>1, <1>2, KnownIsContent DEF IInv, TypeOK
  <1>6. TypeOK'
    BY <1>1, <1>4, <1>5 DEF IInv, TypeOK, bounds
  <1>7. \A q \in Procs \ {p} : Stays(q)
    BY <1>1, <1>4, <1>5 DEF Stays, IInv, TypeOK
  <1>8. Loops(p)'
    BY <1>1, <1>2, <1>4, <1>5 DEF IInv, RunInv, Loops, Preparing
  <1>9. Alone(p)' = Alone(p)
    BY <1>1 DEF Alone
  <1>10. Outcome(p)
    BY DEF IInv, RunInv
  <1>11. Copies(p)' /\ Places(p)' /\ Outcome(p)'
    BY <1>1, <1>4, <1>9, <1>10 DEF Copies, Places, Outcome, Preparing, Merged
  <1> QED  BY <1>6, <1>7, <1>8, <1>11 DEF StepDone, RunInv

LEMMA DropFailsStep ==
    ASSUME IInv, NEW p \in Procs, DropFails(p)
    PROVE  StepDone(p)
  <1>1. /\ Raise(p, "OS_ERROR", "done") /\ faults' = faults + 1
        /\ UNCHANGED <<lib, todo, snap, staged, installed, open, edits, touched>>
    BY DEF DropFails, Fault
  <1>2. /\ backup' \in [Procs -> [Targets -> Content]]
        /\ \A q \in Procs \ {p} : backup'[q] = backup[q]
    <2>1. PICK gone \in SUBSET Targets :
            backup' = [backup EXCEPT ![p] =
                         [t \in Targets |-> IF t \in gone THEN Absent ELSE @[t]]]
      BY DEF DropFails
    <2> QED  BY <2>1, KnownIsContent DEF IInv, TypeOK
  <1>3. /\ error' \in [Procs -> {NoError} \cup Errors]
        /\ pc' \in [Procs -> {"idle"} \cup Active \cup Ended]
        /\ error'[p] = "OS_ERROR" /\ pc'[p] = "done"
        /\ \A q \in Procs \ {p} : error'[q] = error[q] /\ pc'[q] = pc[q]
    BY <1>1, RaiseTyped DEF IInv, Errors
  <1>4. TypeOK'
    BY <1>1, <1>2, <1>3 DEF IInv, TypeOK
  <1>5. RunInv(p)'
    BY <1>1, <1>3, NothingPromised DEF IInv, RunInv, Loops
  <1>6. \A q \in Procs \ {p} : Stays(q)
    BY <1>1, <1>2, <1>3 DEF Stays, IInv, TypeOK
  <1> QED  BY <1>4, <1>5, <1>6 DEF StepDone

LEMMA HashArtifactStep ==
    ASSUME IInv, NEW p \in Procs, HashArtifact(p)
    PROVE  StepDone(p)
  <1>1. /\ pc[p] = "hash" /\ todo[p] \in SUBSET Targets
        /\ UNCHANGED <<lib, snap, staged, backup, installed, open, bounds, touched>>
    BY DEF HashArtifact, IInv, TypeOK
  <1>2. CASE Raise(p, "OS_ERROR", "done") /\ UNCHANGED todo
    <2>1. /\ error' \in [Procs -> {NoError} \cup Errors]
          /\ pc' \in [Procs -> {"idle"} \cup Active \cup Ended]
          /\ error'[p] = "OS_ERROR" /\ pc'[p] = "done"
          /\ \A q \in Procs \ {p} : error'[q] = error[q] /\ pc'[q] = pc[q]
      BY <1>2, RaiseTyped DEF IInv, Errors
    <2>2. TypeOK'
      BY <1>1, <1>2, <2>1 DEF IInv, TypeOK, bounds
    <2>3. RunInv(p)'
      BY <1>1, <1>2, <2>1, NothingPromised DEF IInv, RunInv, Loops
    <2>4. \A q \in Procs \ {p} : Stays(q)
      BY <1>1, <1>2, <2>1 DEF Stays, IInv, TypeOK
    <2> QED  BY <2>2, <2>3, <2>4 DEF StepDone
  <1>3. ASSUME NEW t, todo' = [todo EXCEPT ![p] = @ \ {t}],
               Goto(p, IF todo'[p] = {} THEN "done" ELSE "hash"), UNCHANGED error
        PROVE  StepDone(p)
    <2>1. /\ todo' \in [Procs -> SUBSET Targets] /\ todo'[p] \subseteq todo[p]
          /\ \A q \in Procs \ {p} : todo'[q] = todo[q]
      BY <1>3 DEF IInv, TypeOK
    <2>2. (IF todo'[p] = {} THEN "done" ELSE "hash") \in Active \cup Ended
      BY DEF Active, Ended
    <2>3. /\ pc' \in [Procs -> {"idle"} \cup Active \cup Ended]
          /\ pc'[p] = IF todo'[p] = {} THEN "done" ELSE "hash"
          /\ \A q \in Procs \ {p} : pc'[q] = pc[q]
      BY <1>3, <2>2, GotoTyped DEF IInv
    <2>4. TypeOK'
      BY <1>1, <1>3, <2>1, <2>3 DEF IInv, TypeOK, bounds
    <2>5. \A q \in Procs \ {p} : Stays(q)
      BY <1>1, <1>3, <2>1, <2>3 DEF Stays, IInv, TypeOK
    <2>6. Loops(p)'
      BY <1>1, <1>3, <2>1, <2>3 DEF IInv, RunInv, Loops, Preparing
    <2>7. Alone(p)' = Alone(p) /\ error[p] = NoError /\ error'[p] = NoError
      BY <1>1, <1>3 DEF Alone, IInv, RunInv, Loops
    <2>8. \A u \in Alone(p) : lib[u] = Merged(p, snap[p][u])
      BY <1>1, <2>7 DEF IInv, RunInv, Outcome
    <2>9. Copies(p)' /\ Places(p)' /\ Outcome(p)'
      BY <1>1, <2>3, <2>7, <2>8
         DEF Copies, Places, Outcome, Preparing, Merged, NoError, CleanErrors
    <2> QED  BY <2>4, <2>5, <2>6, <2>9 DEF StepDone, RunInv
  <1> QED  BY <1>2, <1>3 DEF HashArtifact

\* Until its run is over, a target is as it was found, moved away or replaced.
LEMMA InOnePlace ==
    ASSUME IInv, NEW p \in Procs, NEW t \in Alone(p), pc[p] \in Preparing \cup Committing
    PROVE  AsFound(p, t) \/ Away(p, t) \/ Replaced(p, t)
  <1>1. Places(p)
    BY DEF IInv, RunInv
  <1>2. CASE pc[p] \in Preparing \cup {"move"}
    BY <1>1, <1>2 DEF Places
  <1>3. CASE pc[p] = "put"
    BY <1>1, <1>3 DEF Places
  <1>4. CASE pc[p] \in {"remove", "restore"}
    <2>1. pc[p] = "restore" => t \notin installed[p]
      BY DEF IInv, RunInv, Loops
    <2> QED  BY <1>1, <1>4, <2>1 DEF Places
  <1> QED  BY <1>2, <1>3, <1>4 DEF Committing

\* Killed anywhere, a run leaves what a target held in its place or in the
\* backup.
LEMMA CrashStep ==
    ASSUME IInv, NEW p \in Procs, Crash(p)
    PROVE  StepDone(p)
  <1>1. /\ pc[p] \in Active /\ faults' = faults + 1 /\ Goto(p, "crashed")
        /\ UNCHANGED <<lib, todo, snap, staged, backup, installed, open, error, edits,
                       touched>>
    BY DEF Crash, Fault
  <1>2. /\ pc' \in [Procs -> {"idle"} \cup Active \cup Ended] /\ pc'[p] = "crashed"
        /\ \A q \in Procs \ {p} : pc'[q] = pc[q]
    BY <1>1, GotoTyped DEF IInv, Ended
  <1>3. TypeOK'
    BY <1>1, <1>2 DEF IInv, TypeOK
  <1>4. \A q \in Procs \ {p} : Stays(q)
    BY <1>1, <1>2 DEF Stays, IInv, TypeOK
  <1>5. Loops(p)'
    BY <1>1, <1>2 DEF IInv, RunInv, Loops, Preparing
  <1>6. Alone(p)' = Alone(p)
    BY <1>1 DEF Alone
  <1>7. ASSUME NEW u \in Alone(p), error[p] \notin {"OS_ERROR", "INTERRUPTED"}
        PROVE  \/ snap[p][u].items \subseteq lib[u].items \cup OwnPart(p)
               \/ backup[p][u] = snap[p][u]
    <2>1. CASE AsFound(p, u) \/ Away(p, u) \/ Replaced(p, u)
      BY <2>1 DEF AsFound, Away, Replaced
    <2>2. CASE lib[u] = snap[p][u] \/ lib[u] = Merged(p, snap[p][u])
      BY <2>2 DEF Merged, Library
    <2>3. CASE pc[p] \in Preparing \cup Committing
      BY <2>1, <2>3, InOnePlace
    <2>4. CASE pc[p] \in {"drop", "hash"}
      <3>1. error[p] = NoError \/ (pc[p] = "drop" /\ error[p] \in CleanErrors)
        BY <1>7, <2>4 DEF IInv, TypeOK, RunInv, Loops, Errors
      <3> QED  BY <1>7, <2>2, <2>4, <3>1 DEF IInv, RunInv, Outcome
    <2> QED  BY <1>1, <2>3, <2>4 DEF Active
  <1>8. Copies(p)' /\ Places(p)' /\ Outcome(p)'
    BY <1>1, <1>2, <1>6, <1>7 DEF Copies, Places, Outcome, Preparing, OwnPart
  <1> QED  BY <1>3, <1>4, <1>5, <1>8 DEF StepDone, RunInv

LEMMA EditStep ==
    ASSUME IInv, NEW t \in Targets, Edit(t)
    PROVE  TypeOK' /\ \A q \in Procs : Stays(q)
  <1>1. /\ edits' = edits + 1 /\ touched' = [q \in Procs |-> touched[q] \cup {t}]
        /\ UNCHANGED <<pc, todo, snap, staged, backup, installed, open, error, faults>>
    BY DEF Edit
  <1>2. PICK c \in Content : lib' = [lib EXCEPT ![t] = c]
    <2>1. lib[t].items \in SUBSET Items
      BY ContentItems DEF IInv, TypeOK
    <2>2. \A S \in SUBSET Items : Library(S) \in Content
      BY LibraryKnown, KnownIsContent
    <2>3. \A i \in Items : /\ Library(lib[t].items \cup {i}) \in Content
                           /\ Library(lib[t].items \ {i}) \in Content
      BY <2>1, <2>2
    <2>4. {Absent, Unsafe, Library({})} \subseteq Content
      BY <2>2, KnownIsContent DEF Content
    <2> QED  BY <2>3, <2>4 DEF Edit
  <1>3. TypeOK'
    BY <1>1, <1>2 DEF IInv, TypeOK
  <1>4. \A q \in Procs : Stays(q)
    BY <1>1, <1>2 DEF Stays, IInv, TypeOK
  <1> QED  BY <1>3, <1>4

-----------------------------------------------------------------------------
(* The theorems.                                                           *)

\* The step of a process keeps its own part of the invariant, whichever it is.
LEMMA EachStepIsDone ==
    ASSUME IInv, NEW p \in Procs, Step(p)
    PROVE  StepDone(p)
  <1>1. CASE Start(p) \/ Snapshot(p) \/ MergeSymbol(p) \/ StageDirectory(p) \/ Place(p)
             \/ PrepareFails(p)
    BY <1>1, StartStep, SnapshotStep, MergeSymbolStep, StageDirectoryStep, PlaceStep,
       PrepareFailsStep
  <1>2. CASE Check(p) \/ MoveAway(p) \/ Put(p) \/ MovesFail(p)
    BY <1>2, CheckStep, MoveAwayStep, PutStep, MovesFailStep
  <1>3. CASE RemoveInstalled(p) \/ RemoveFails(p) \/ Restore(p) \/ RestoreFails(p)
    BY <1>3, RemoveInstalledStep, RemoveFailsStep, RestoreStep, RestoreFailsStep
  <1>4. CASE Drop(p) \/ DropFails(p) \/ HashArtifact(p) \/ Interrupt(p) \/ Crash(p)
    BY <1>4, DropStep, DropFailsStep, HashArtifactStep, InterruptStep, CrashStep
  <1> QED  BY <1>1, <1>2, <1>3, <1>4 DEF Step

LEMMA StepInv == IInv /\ [Next]_vars => IInv'
  <1> SUFFICES ASSUME IInv, [Next]_vars PROVE IInv'
    OBVIOUS
  <1>1. ASSUME NEW p \in Procs, StepDone(p) PROVE IInv'
    <2>1. \A q \in Procs : RunInv(q)'
      BY <1>1, OthersStay DEF StepDone
    <2> QED  BY <1>1, <2>1 DEF IInv, StepDone
  <1>2. ASSUME NEW p \in Procs, Step(p) PROVE StepDone(p)
    BY <1>2, EachStepIsDone
  <1>3. ASSUME NEW t \in Targets, Edit(t) PROVE IInv'
    BY <1>3, EditStep, OthersStay DEF IInv
  <1>4. CASE UNCHANGED vars
    <2>1. ASSUME NEW q \in Procs PROVE Stays(q)
      BY <1>4 DEF vars, bounds, Stays, IInv, TypeOK
    <2>2. TypeOK'
      BY <1>4 DEF vars, bounds, IInv, TypeOK
    <2> QED  BY <2>1, <2>2, OthersStay DEF IInv
  <1> QED  BY <1>1, <1>2, <1>3, <1>4 DEF Next

LEMMA Invariance == Spec => []IInv
  BY InitInv, StepInv, PTL DEF Spec

\* Every fingerprint, copy and backup is a content a target may have, and only
\* a content that can be read is copied or installed.
THEOREM TypeCorrect == Spec => []TypeOK
  <1>1. IInv => TypeOK
    BY DEF IInv
  <1> QED  BY <1>1, Invariance, PTL

\* However many processes install at once and whatever others change, a run
\* that succeeds has added its own part, and nothing else, to each target that
\* nobody else wrote (_install_prepared_package).
THEOREM SuccessIsOnePart == Spec => []SuccessAddsOnePart
  <1>1. IInv => SuccessAddsOnePart
    BY DEF IInv, RunInv, Outcome, SuccessAddsOnePart, Merged
  <1> QED  BY <1>1, Invariance, PTL

\* A run that reports one of the package's own errors leaves those targets as
\* it found them, whichever of its steps failed (_commit_paths_atomically).
THEOREM FailureIsRolledBack == Spec => []FailureRestoresLibraries
  <1>1. IInv => FailureRestoresLibraries
    BY DEF IInv, RunInv, Outcome, FailureRestoresLibraries
  <1> QED  BY <1>1, Invariance, PTL

\* Wherever a run is killed, nothing those targets held is lost: it is in its
\* place or in the backup (the order of the moves of _commit_paths_atomically).
THEOREM NothingIsLost == Spec => []CrashKeepsLibraries
  <1>1. ASSUME IInv, NEW p \in Procs, NEW t \in Alone(p),
               pc[p] \in Committing \cup {"crashed"},
               error[p] \notin {"OS_ERROR", "INTERRUPTED"}
        PROVE  \/ snap[p][t].items \subseteq lib[t].items \cup OwnPart(p)
               \/ backup[p][t] = snap[p][t]
    <2>1. CASE pc[p] = "crashed"
      BY <1>1, <2>1 DEF IInv, RunInv, Outcome
    <2>2. CASE pc[p] \in Committing
      <3>1. AsFound(p, t) \/ Away(p, t) \/ Replaced(p, t)
        BY <1>1, <2>2, InOnePlace
      <3> QED  BY <3>1 DEF AsFound, Away, Replaced
    <2> QED  BY <1>1, <2>1, <2>2
  <1>2. IInv => CrashKeepsLibraries
    BY <1>1 DEF CrashKeepsLibraries
  <1> QED  BY <1>2, Invariance, PTL

-----------------------------------------------------------------------------
(* The moves of one target after the other are one installation: Spec      *)
(* implements AtomicInstall.                                               *)

\* What the phase of a run says about its moves.
Moves(p) ==
    /\ pc[p] \in {"idle"} \cup Preparing => ~Dirty(p)
    /\ pc[p] = "remove" => ~Committed(p)
    /\ pc[p] = "drop" /\ error[p] \in CleanErrors => ~Dirty(p)
    /\ pc[p] \in {"drop", "hash", "done"} /\ error[p] = NoError => Committed(p)

\* A directory is always among the targets of a run, and so is another one.
LEMMA TwoTargets ==
    ASSUME NEW p \in Procs
    PROVE  {} # TargetsOf(p) /\ \A t : {t} # TargetsOf(p)
  BY DEF TargetsOf, Dirs

LEMMA MovesInit == Init => \A p \in Procs : Moves(p)
  BY TwoTargets DEF Init, Moves, Dirty, Preparing

LEMMA OthersMove ==
    ASSUME NEW q \in Procs, Moves(q), Stays(q)
    PROVE  Moves(q)'
  BY DEF Moves, Stays, Dirty, Committed

\* Before the first move nothing is dirty, whatever becomes of the run.
LEMMA PreparingMoves ==
    ASSUME IInv, NEW p \in Procs, Moves(p),
           \/ Start(p) \/ Snapshot(p) \/ MergeSymbol(p) \/ StageDirectory(p)
           \/ Place(p) \/ PrepareFails(p) \/ Check(p)
    PROVE  Moves(p)'
  <1>1. ~Dirty(p) /\ UNCHANGED <<backup, installed>>
    BY DEF Moves, Preparing, Start, Snapshot, MergeSymbol, StageDirectory, Place,
       PrepareFails, Check
  <1>2. pc'[p] \notin {"remove"} /\ (pc'[p] \in {"drop", "hash", "done"} => error'[p] # NoError)
    <2>1. ASSUME NEW code, NEW label, Raise(p, code, label)
          PROVE  pc'[p] = label /\ error'[p] = code
      BY <2>1 DEF Raise, Goto, IInv, TypeOK
    <2>2. ASSUME NEW label, Goto(p, label) PROVE pc'[p] = label
      BY <2>2 DEF Goto, IInv, TypeOK
    <2>3. ASSUME NEW label, Advance(p, label) PROVE pc'[p] \in {label, pc[p]}
      BY <2>2, <2>3 DEF Advance
    <2>4. CASE Start(p)
      BY <2>2, <2>4 DEF Start
    <2>5. CASE Snapshot(p)
      BY <2>1, <2>3, <2>5 DEF Snapshot, NoError
    <2>6. CASE MergeSymbol(p)
      BY <2>1, <2>2, <2>6 DEF MergeSymbol, NoError
    <2>7. CASE StageDirectory(p)
      BY <2>1, <2>2, <2>7 DEF StageDirectory, NoError
    <2>8. CASE Place(p)
      BY <2>1, <2>2, <2>8 DEF Place, NoError
    <2>9. CASE PrepareFails(p)
      BY <2>1, <2>9 DEF PrepareFails, NoError
    <2>10. CASE Check(p)
      BY <2>1, <2>3, <2>10 DEF Check, NoError
    <2> QED  BY <2>4, <2>5, <2>6, <2>7, <2>8, <2>9, <2>10
  <1> QED  BY <1>1, <1>2 DEF Moves, Dirty

\* From the first move to the last one, and back.
LEMMA CommittingMoves ==
    ASSUME IInv, NEW p \in Procs, Moves(p),
           \/ MoveAway(p) \/ Put(p) \/ MovesFail(p) \/ RemoveInstalled(p)
           \/ RemoveFails(p) \/ Restore(p) \/ RestoreFails(p)
    PROVE  Moves(p)'
  <1>1. ASSUME NEW code, NEW label, Raise(p, code, label)
        PROVE  pc'[p] = label /\ error'[p] = code
    BY <1>1 DEF Raise, Goto, IInv, TypeOK
  <1>2. ASSUME NEW label, Goto(p, label) PROVE pc'[p] = label
    BY <1>2 DEF Goto, IInv, TypeOK
  <1>3. NoError \notin CleanErrors /\ "OS_ERROR" \notin CleanErrors \cup {NoError}
    BY DEF NoError, CleanErrors
  <1>4. CASE MoveAway(p)
    BY <1>2, <1>4 DEF MoveAway, Moves, Preparing
  <1>5. CASE Put(p)
    <2>1. /\ todo'[p] = todo[p] \ {FirstOf(todo[p])} /\ todo[p] \subseteq TargetsOf(p)
          /\ installed'[p] = installed[p] \cup {FirstOf(todo[p])}
          /\ installed[p] = TargetsOf(p) \ todo[p] /\ error'[p] = NoError
          /\ FirstOf(todo[p]) \in todo[p]
      <3>1. /\ todo[p] \in SUBSET Targets /\ todo[p] # {} /\ todo[p] \subseteq TargetsOf(p)
            /\ installed[p] = TargetsOf(p) \ todo[p] /\ error[p] = NoError
        BY <1>5 DEF Put, IInv, TypeOK, RunInv, Loops
      <3>2. FirstOf(todo[p]) \in todo[p]
        BY <3>1, FirstAndLast
      <3>3. /\ todo'[p] = todo[p] \ {FirstOf(todo[p])} /\ error'[p] = error[p]
            /\ installed'[p] = installed[p] \cup {FirstOf(todo[p])}
        BY <1>5 DEF Put, IInv, TypeOK
      <3> QED  BY <3>1, <3>2, <3>3
    <2>2. pc'[p] = IF todo'[p] = {} THEN "drop" ELSE "move"
      BY <1>2, <1>5 DEF Put
    <2>3. todo'[p] = {} => Committed(p)'
      BY <2>1 DEF Committed
    <2> QED  BY <1>3, <2>1, <2>2, <2>3 DEF Moves, Preparing
  <1>6. CASE MovesFail(p)
    <2>1. pc'[p] = "remove" /\ UNCHANGED installed
      BY <1>1, <1>6 DEF MovesFail
    <2>2. ~Committed(p)
      BY <1>6 DEF MovesFail, IInv, RunInv, Loops, Committed
    <2> QED  BY <2>1, <2>2 DEF Moves, Committed, Preparing
  <1>7. CASE RemoveInstalled(p)
    <2>1. pc'[p] \in {"remove", "restore"}
      BY <1>2, <1>7 DEF RemoveInstalled
    <2>2. ~Committed(p) /\ installed[p] \subseteq TargetsOf(p)
      BY <1>7 DEF RemoveInstalled, Moves, IInv, RunInv, Loops
    <2>3. installed'[p] \subseteq installed[p]
      BY <1>7 DEF RemoveInstalled, IInv, TypeOK
    <2>4. ~Committed(p)'
      BY <2>2, <2>3 DEF Committed
    <2> QED  BY <2>1, <2>4 DEF Moves, Preparing
  <1>8. CASE RemoveFails(p)
    BY <1>1, <1>3, <1>8 DEF RemoveFails, Moves, Preparing
  <1>9. CASE Restore(p)
    <2>1. /\ pc[p] = "restore" /\ installed[p] = {} /\ error'[p] # NoError
          /\ UNCHANGED installed
      BY <1>9 DEF Restore, IInv, RunInv, Loops, NoError
    <2>2. CASE {t \in Targets : backup[p][t] # Absent} = {}
      <3>1. pc'[p] = "drop" /\ UNCHANGED backup
        BY <1>2, <1>9, <2>2 DEF Restore
      <3> QED  BY <2>1, <2>2, <3>1 DEF Moves, Dirty, Preparing
    <2>3. CASE {t \in Targets : backup[p][t] # Absent} # {}
      BY <1>9, <2>1, <2>3 DEF Restore, Moves, Preparing
    <2> QED  BY <2>2, <2>3
  <1>10. CASE RestoreFails(p)
    BY <1>1, <1>3, <1>10 DEF RestoreFails, Moves, Preparing
  <1> QED  BY <1>4, <1>5, <1>6, <1>7, <1>8, <1>9, <1>10

LEMMA EndingMoves ==
    ASSUME IInv, NEW p \in Procs, Moves(p),
           \/ Drop(p) \/ DropFails(p) \/ HashArtifact(p) \/ Interrupt(p) \/ Crash(p)
    PROVE  Moves(p)'
  <1>1. ASSUME NEW code, NEW label, Raise(p, code, label)
        PROVE  pc'[p] = label /\ error'[p] = code
    BY <1>1 DEF Raise, Goto, IInv, TypeOK
  <1>2. ASSUME NEW label, Goto(p, label) PROVE pc'[p] = label
    BY <1>2 DEF Goto, IInv, TypeOK
  <1>3. {"OS_ERROR", "INTERRUPTED"} \cap (CleanErrors \cup {NoError}) = {}
    BY DEF NoError, CleanErrors
  <1>4. CASE Drop(p)
    BY <1>2, <1>4 DEF Drop, Moves, Preparing, Committed
  <1>5. CASE DropFails(p)
    BY <1>1, <1>3, <1>5 DEF DropFails, Moves, Preparing
  <1>6. CASE HashArtifact(p)
    <2>1. pc[p] = "hash" /\ error[p] = NoError /\ UNCHANGED installed
      BY <1>6 DEF HashArtifact, IInv, RunInv, Loops
    <2>2. pc'[p] \in {"hash", "done"}
      BY <1>1, <1>2, <1>6 DEF HashArtifact
    <2> QED  BY <2>1, <2>2 DEF Moves, Preparing, Committed
  <1>7. CASE Interrupt(p)
    BY <1>1, <1>3, <1>7 DEF Interrupt, Moves, Preparing
  <1>8. CASE Crash(p)
    BY <1>2, <1>8 DEF Crash, Moves, Preparing
  <1> QED  BY <1>4, <1>5, <1>6, <1>7, <1>8

LEMMA MovesStep ==
    (IInv /\ \A p \in Procs : Moves(p)) /\ [Next]_vars => (\A p \in Procs : Moves(p))'
  <1> SUFFICES ASSUME IInv, \A p \in Procs : Moves(p), [Next]_vars, NEW q \in Procs
               PROVE  Moves(q)'
    OBVIOUS
  <1>1. ASSUME NEW p \in Procs, Step(p) PROVE Moves(q)'
    <2>1. CASE q # p
      BY <1>1, <2>1, EachStepIsDone, OthersMove DEF StepDone
    <2>2. CASE q = p
      BY <1>1, <2>2, PreparingMoves, CommittingMoves, EndingMoves DEF Step
    <2> QED  BY <2>1, <2>2
  <1>2. ASSUME NEW t \in Targets, Edit(t) PROVE Moves(q)'
    BY <1>2, EditStep, OthersMove
  <1>3. CASE UNCHANGED vars
    BY <1>3 DEF vars, Moves, Dirty, Committed
  <1> QED  BY <1>1, <1>2, <1>3 DEF Next
-----------------------------------------------------------------------------
\* What a step does to the view and the status of each run.
SameView(q) == ViewOf(q)' = ViewOf(q)
SameStatus(q) == StatusOf(q)' = StatusOf(q)
Loses(q, t) == ViewOf(q)' = [u \in Alone(q) \ {t} |-> ViewOf(q)[u]]

LEMMA StatusIsKept ==
    ASSUME NEW q \in Procs, pc'[q] = pc[q], installed'[q] = installed[q],
           backup'[q] = backup[q], error'[q] = error[q]
    PROVE  SameStatus(q)
  BY DEF SameStatus, StatusOf, Committed, Dirty

\* The two ways to read a view.
LEMMA ViewRead ==
    ASSUME NEW p \in Procs
    PROVE  /\ Committed(p) \/ pc[p] = "done" => ViewOf(p) = [t \in Alone(p) |-> lib[t]]
           /\ Committed(p)' \/ pc'[p] = "done" => ViewOf(p)' = [t \in Alone(p)' |-> lib'[t]]
           /\ ~(Committed(p) \/ pc[p] = "done") =>
                ViewOf(p) = [t \in Alone(p) |-> RolledBack(p, t)]
           /\ ~(Committed(p)' \/ pc'[p] = "done") =>
                ViewOf(p)' = [t \in Alone(p)' |-> RolledBack(p, t)']
  BY DEF ViewOf, Committed, RolledBack

\* The status of a run.
LEMMA StatusRead ==
    ASSUME NEW p \in Procs
    PROVE  /\ Committed(p) => StatusOf(p) = "installed"
           /\ ~Committed(p) /\ pc[p] = "crashed" => StatusOf(p) = "killed"
           /\ ~Committed(p) /\ pc[p] = "done" /\ error[p] # NoError =>
                StatusOf(p) = IF error[p] \in CleanErrors THEN "refused" ELSE "failed"
           /\ ~Committed(p) /\ pc[p] \notin {"done", "crashed"} =>
                StatusOf(p) = IF Dirty(p) THEN "dirty" ELSE "clean"
           /\ Committed(p)' => StatusOf(p)' = "installed"
           /\ ~Committed(p)' /\ pc'[p] = "crashed" => StatusOf(p)' = "killed"
           /\ ~Committed(p)' /\ pc'[p] = "done" /\ error'[p] # NoError =>
                StatusOf(p)' = IF error'[p] \in CleanErrors THEN "refused" ELSE "failed"
           /\ ~Committed(p)' /\ pc'[p] \notin {"done", "crashed"} =>
                StatusOf(p)' = IF Dirty(p)' THEN "dirty" ELSE "clean"
  BY DEF StatusOf, Committed, Dirty

\* A run whose targets nobody writes sees no difference.
LEMMA ViewIsKept ==
    ASSUME NEW q \in Procs, Stays(q), UNCHANGED lib, touched'[q] = touched[q]
    PROVE  SameView(q) /\ SameStatus(q)
  <1>1. SameStatus(q)
    BY StatusIsKept DEF Stays
  <1>2. Alone(q)' = Alone(q)
    BY DEF Alone
  <1>3. SameView(q)
    BY <1>2 DEF SameView, ViewOf, Stays, RolledBack, Committed
  <1> QED  BY <1>1, <1>3

\* One whose target t somebody else writes can no longer count on it.
LEMMA ViewIsLost ==
    ASSUME NEW q \in Procs, Stays(q), NEW t \in Targets,
           \A u \in Targets \ {t} : lib'[u] = lib[u], touched'[q] = touched[q] \cup {t}
    PROVE  Loses(q, t) /\ SameStatus(q)
  <1>1. SameStatus(q)
    BY StatusIsKept DEF Stays
  <1>2. Alone(q)' = Alone(q) \ {t} /\ Alone(q) \subseteq Targets
    BY TargetsOfAreTargets DEF Alone
  <1> DEFINE old(u) == IF Committed(q) \/ pc[q] = "done" THEN lib[u] ELSE RolledBack(q, u)
             new(u) == IF Committed(q)' \/ pc'[q] = "done"
                       THEN lib'[u] ELSE RolledBack(q, u)'
  <1>3. \A u \in Alone(q) \ {t} : new(u) = old(u)
    BY <1>2 DEF Stays, RolledBack, Committed
  <1>4. ViewOf(q) = [u \in Alone(q) |-> old(u)]
    BY DEF ViewOf
  <1>5. ViewOf(q)' = [u \in Alone(q)' |-> new(u)]
    BY DEF ViewOf
  <1> HIDE DEF old, new
  <1>6. ViewOf(q)' = [u \in Alone(q) \ {t} |-> ViewOf(q)[u]]
    BY <1>2, <1>3, <1>4, <1>5
  <1> QED  BY <1>1, <1>6 DEF Loses

\* The steps of AtomicInstall in these terms.
LEMMA LostView ==
    ASSUME NEW q \in Procs, NEW t, Loses(q, t)
    PROVE  Atomic!Lost(q, t) = ViewOf(q)'
  <1>1. DOMAIN ViewOf(q) = Alone(q)
    BY DEF ViewOf
  <1> QED  BY <1>1 DEF Loses, Atomic!Lost

LEMMA Unseen ==
    ASSUME \A q \in Procs : SameView(q) /\ SameStatus(q)
    PROVE  UNCHANGED Atomic!avars
  BY DEF SameView, SameStatus, Atomic!avars

LEMMA OwnStatus ==
    ASSUME NEW p \in Procs, \A q \in Procs \ {p} : SameStatus(q)
    PROVE  Atomic!Becomes(p, StatusOf(p)')
  BY DEF SameStatus, Atomic!Becomes

LEMMA WorkIsAtomic ==
    ASSUME NEW p \in Procs, NEW t \in Targets, SameView(p),
           StatusOf(p) \in {"clean", "dirty"}, StatusOf(p)' \in {"clean", "dirty"},
           "dirty" \in {StatusOf(p), StatusOf(p)'},
           \A q \in Procs \ {p} : Loses(q, t) /\ SameStatus(q)
    PROVE  Atomic!Work(p)
  <1>1. Atomic!Becomes(p, StatusOf(p)')
    BY OwnStatus
  <1>2. [q \in Procs |-> ViewOf(q)]' =
          [q \in Procs |-> IF q = p THEN [r \in Procs |-> ViewOf(r)][p] ELSE Atomic!Lost(q, t)]
    <2>1. \A q \in Procs \ {p} : Atomic!Lost(q, t) = ViewOf(q)'
      BY LostView
    <2> QED  BY <2>1 DEF SameView
  <1> QED  BY <1>1, <1>2 DEF Atomic!Work, Atomic!Running

LEMMA EditIsAtomic ==
    ASSUME NEW t \in Targets, \A q \in Procs : Loses(q, t) /\ SameStatus(q)
    PROVE  Atomic!Write(t)
  <1>1. \A q \in Procs : Atomic!Lost(q, t) = ViewOf(q)'
    BY LostView
  <1> QED  BY <1>1 DEF SameStatus, Atomic!Write

LEMMA GiveUpIsAtomic ==
    ASSUME NEW p \in Procs, StatusOf(p) = "clean", StatusOf(p)' \in {"refused", "failed"},
           \A q \in Procs : SameView(q), \A q \in Procs \ {p} : SameStatus(q)
    PROVE  Atomic!GiveUp(p)
  <1>1. Atomic!Becomes(p, StatusOf(p)')
    BY OwnStatus
  <1> QED  BY <1>1 DEF SameView, Atomic!GiveUp

LEMMA KillIsAtomic ==
    ASSUME NEW p \in Procs, StatusOf(p) \in {"clean", "dirty"}, StatusOf(p)' = "killed",
           \A q \in Procs : SameView(q), \A q \in Procs \ {p} : SameStatus(q)
    PROVE  Atomic!Kill(p)
  <1>1. Atomic!Becomes(p, "killed")
    BY OwnStatus
  <1> QED  BY <1>1 DEF SameView, Atomic!Kill, Atomic!Running

LEMMA BreakIsAtomic ==
    ASSUME NEW p \in Procs, StatusOf(p) = "dirty", StatusOf(p)' = "failed",
           ViewOf(p)' \in [Alone(p) -> Content],
           \A q \in Procs \ {p} : SameView(q) /\ SameStatus(q)
    PROVE  Atomic!Break(p)
  <1>1. Atomic!Becomes(p, "failed")
    BY OwnStatus
  <1>2. DOMAIN [q \in Procs |-> ViewOf(q)][p] = Alone(p)
    BY DEF ViewOf
  <1>3. [q \in Procs |-> ViewOf(q)]' = [[q \in Procs |-> ViewOf(q)] EXCEPT ![p] = ViewOf(p)']
    BY DEF SameView
  <1>4. [q \in Procs |-> ViewOf(q)]'[p] = ViewOf(p)'
    OBVIOUS
  <1>5. Atomic!OnlyOf(p)
    BY <1>3, <1>4 DEF Atomic!OnlyOf
  <1> QED  BY <1>1, <1>2, <1>4, <1>5 DEF Atomic!Break

LEMMA InstallIsAtomic ==
    ASSUME NEW p \in Procs, NEW t \in Targets,
           StatusOf(p) = "dirty", StatusOf(p)' = "installed",
           ViewOf(p)' = [u \in Alone(p) |-> Merged(p, ViewOf(p)[u])],
           \A q \in Procs \ {p} : Loses(q, t) /\ SameStatus(q)
    PROVE  Atomic!Install(p)
  <1>1. Atomic!Becomes(p, "installed")
    BY OwnStatus
  <1>2. \A q \in Procs \ {p} : Atomic!Lost(q, t) = ViewOf(q)'
    BY LostView
  <1>3. DOMAIN [r \in Procs |-> ViewOf(r)][p] = Alone(p)
    BY DEF ViewOf
  <1>4. [q \in Procs |-> ViewOf(q)]' =
          [q \in Procs |->
             IF q = p THEN [u \in DOMAIN [r \in Procs |-> ViewOf(r)][p] |->
                              Merged(p, [r \in Procs |-> ViewOf(r)][p][u])]
             ELSE Atomic!Lost(q, t)]
    BY <1>2, <1>3
  <1> QED  BY <1>1, <1>4 DEF Atomic!Install

LEMMA LookIsAtomic ==
    ASSUME NEW p \in Procs, NEW t \in Targets \ Alone(p),
           StatusOf(p) = "clean", \A q \in Procs : SameStatus(q),
           ViewOf(p)' \in [Alone(p) \cup {t} -> Content],
           \A u \in Alone(p) : ViewOf(p)'[u] = ViewOf(p)[u],
           \A q \in Procs \ {p} : SameView(q)
    PROVE  Atomic!Look(p)
  <1> DEFINE view == [q \in Procs |-> ViewOf(q)]
  <1>1. DOMAIN view[p] = Alone(p)
    BY DEF ViewOf
  <1>2. view' = [view EXCEPT ![p] = ViewOf(p)'] /\ view'[p] = ViewOf(p)'
    BY DEF SameView
  <1>3. UNCHANGED [q \in Procs |-> StatusOf(q)]
    BY DEF SameStatus
  <1>4. [q \in Procs |-> StatusOf(q)][p] = "clean" /\ t \in Targets \ DOMAIN view[p]
    BY <1>1
  <1>5. view[p] = ViewOf(p)
    OBVIOUS
  <1> HIDE DEF view
  <1>6. view'[p] \in [DOMAIN view[p] \cup {t} -> Content]
    BY <1>1, <1>2, <1>5
  <1>7. \A u \in DOMAIN view[p] : view'[p][u] = view[p][u]
    BY <1>1, <1>2, <1>4, <1>5
  <1>8. Atomic!OnlyOf(p)
    BY <1>2 DEF Atomic!OnlyOf, view
  <1> QED  BY <1>3, <1>4, <1>6, <1>7, <1>8 DEF Atomic!Look, view

-----------------------------------------------------------------------------
\* Each step of a run is a step of AtomicInstall, or none that it sees.
Seen == [Atomic!Next]_(Atomic!avars)

\* Nothing is moved before the step or after it.
LEMMA CleanStep ==
    ASSUME NEW p \in Procs, \A q \in Procs \ {p} : Stays(q), UNCHANGED <<lib, touched>>,
           ~Dirty(p), ~Dirty(p)', pc[p] \notin {"done", "crashed"}, pc'[p] # "crashed",
           pc'[p] = "done" => error'[p] # NoError
    PROVE  Seen
  <1>1. \A q \in Procs \ {p} : SameView(q) /\ SameStatus(q)
    BY ViewIsKept
  <1>2. ~Committed(p) /\ ~Committed(p)'
    BY TwoTargets DEF Dirty, Committed
  <1>3. Alone(p)' = Alone(p) /\ Alone(p) \subseteq Targets
    BY TargetsOfAreTargets DEF Alone
  <1>4. SameView(p)
    <2>1. \A u \in Targets : RolledBack(p, u) = lib[u] /\ RolledBack(p, u)' = lib[u]
      BY DEF RolledBack, Dirty
    <2>2. ViewOf(p) = [u \in Alone(p) |-> lib[u]] /\ ViewOf(p)' = [u \in Alone(p) |-> lib[u]]
      BY <1>2, <1>3, <2>1, ViewRead
    <2> QED  BY <2>2 DEF SameView
  <1>5. StatusOf(p) = "clean"
    BY <1>2, StatusRead
  <1>6. CASE pc'[p] = "done"
    <2>1. StatusOf(p)' \in {"refused", "failed"}
      BY <1>2, <1>6, StatusRead
    <2> QED  BY <1>1, <1>4, <1>5, <2>1, GiveUpIsAtomic DEF Seen, Atomic!Next
  <1>7. CASE pc'[p] # "done"
    <2>1. SameStatus(p)
      BY <1>2, <1>5, <1>7, StatusRead DEF SameStatus
    <2> QED  BY <1>1, <1>4, <2>1, Unseen DEF Seen
  <1> QED  BY <1>6, <1>7

\* Something is moved, and remains so.
LEMMA DirtyStep ==
    ASSUME NEW p \in Procs, \A q \in Procs \ {p} : Stays(q), UNCHANGED <<lib, touched>>,
           ~Committed(p), Dirty(p), pc[p] \notin {"done", "crashed"},
           installed'[p] = installed[p], backup'[p] = backup[p],
           pc'[p] # "done"
    PROVE  Seen
  <1>1. \A q \in Procs \ {p} : SameView(q) /\ SameStatus(q)
    BY ViewIsKept
  <1>2. Alone(p)' = Alone(p) /\ ~Committed(p)' /\ Dirty(p)'
    BY DEF Alone, Committed, Dirty
  <1>3. SameView(p)
    BY <1>2, ViewRead DEF SameView, RolledBack
  <1>4. StatusOf(p) = "dirty"
    BY StatusRead
  <1>5. CASE pc'[p] = "crashed"
    <2>1. StatusOf(p)' = "killed"
      BY <1>2, <1>5, StatusRead
    <2> QED  BY <1>1, <1>3, <1>4, <2>1, KillIsAtomic DEF Seen, Atomic!Next
  <1>6. CASE pc'[p] # "crashed"
    <2>1. SameStatus(p)
      BY <1>2, <1>4, <1>6, StatusRead DEF SameStatus
    <2> QED  BY <1>1, <1>3, <2>1, Unseen DEF Seen
  <1> QED  BY <1>5, <1>6

\* The run ends while something is moved.
LEMMA BreakStep ==
    ASSUME IInv, NEW p \in Procs, \A q \in Procs \ {p} : Stays(q),
           UNCHANGED <<lib, touched>>, ~Committed(p), Dirty(p),
           pc[p] \notin {"done", "crashed"}, installed'[p] = installed[p],
           pc'[p] = "done", error'[p] \notin CleanErrors \cup {NoError}
    PROVE  Seen
  <1>1. \A q \in Procs \ {p} : SameView(q) /\ SameStatus(q)
    BY ViewIsKept
  <1>2. StatusOf(p) = "dirty" /\ StatusOf(p)' = "failed"
    BY StatusRead DEF Committed
  <1>3. ViewOf(p)' = [u \in Alone(p) |-> lib[u]]
    BY ViewRead DEF Alone
  <1>4. ViewOf(p)' \in [Alone(p) -> Content]
    BY <1>3, TargetsOfAreTargets DEF Alone, IInv, TypeOK
  <1> QED  BY <1>1, <1>2, <1>4, BreakIsAtomic DEF Seen, Atomic!Next

\* All targets are in place already.
LEMMA CommittedStep ==
    ASSUME NEW p \in Procs, \A q \in Procs \ {p} : Stays(q), UNCHANGED <<lib, touched>>,
           Committed(p), installed'[p] = installed[p]
    PROVE  Seen
  <1>1. \A q \in Procs \ {p} : SameView(q) /\ SameStatus(q)
    BY ViewIsKept
  <1>2. Alone(p)' = Alone(p) /\ Committed(p)'
    BY DEF Alone, Committed
  <1>3. SameView(p) /\ SameStatus(p)
    BY <1>2, ViewRead, StatusRead DEF SameView, SameStatus
  <1> QED  BY <1>1, <1>3, Unseen DEF Seen

\* The run moves, replaces or moves back target t.
LEMMA WriteStep ==
    ASSUME NEW p \in Procs, NEW t \in Targets, \A q \in Procs \ {p} : Stays(q),
           TypeOK, NEW c \in Content, Writes(p, t, c),
           ~Committed(p), ~Committed(p)', Dirty(p) \/ Dirty(p)',
           pc[p] \notin {"done", "crashed"}, pc'[p] \notin {"done", "crashed"},
           \A u \in Alone(p) : RolledBack(p, u)' = RolledBack(p, u)
    PROVE  Seen
  <1>1. /\ \A u \in Targets \ {t} : lib'[u] = lib[u]
        /\ \A q \in Procs \ {p} : touched'[q] = touched[q] \cup {t}
        /\ touched'[p] = touched[p]
    BY WritesTyped
  <1>2. \A q \in Procs \ {p} : Loses(q, t) /\ SameStatus(q)
    BY <1>1, ViewIsLost
  <1>3. Alone(p)' = Alone(p)
    BY <1>1 DEF Alone
  <1>4. SameView(p)
    <2>1. ViewOf(p) = [u \in Alone(p) |-> RolledBack(p, u)]
      BY ViewRead
    <2>2. ViewOf(p)' = [u \in Alone(p) |-> RolledBack(p, u)']
      BY <1>3, ViewRead
    <2> QED  BY <2>1, <2>2 DEF SameView
  <1>5. /\ StatusOf(p) = IF Dirty(p) THEN "dirty" ELSE "clean"
        /\ StatusOf(p)' = IF Dirty(p)' THEN "dirty" ELSE "clean"
    BY StatusRead
  <1>6. Atomic!Work(p)
    BY <1>2, <1>4, <1>5, WorkIsAtomic
  <1> QED  BY <1>6 DEF Seen, Atomic!Next

\* Before the first move: a look at one more target, or nothing to see.
LEMMA PreparingSeen ==
    ASSUME IInv, NEW p \in Procs, Moves(p), Moves(p)', StepDone(p),
           \/ Start(p) \/ Snapshot(p) \/ MergeSymbol(p) \/ StageDirectory(p)
           \/ Place(p) \/ PrepareFails(p) \/ Check(p)
    PROVE  Seen
  <1>1. /\ pc[p] \in {"idle"} \cup Preparing /\ ~Dirty(p)
        /\ UNCHANGED <<lib, backup, installed>>
    BY DEF Moves, Preparing, Start, Snapshot, MergeSymbol, StageDirectory, Place,
       PrepareFails, Check
  <1>2. ~Dirty(p)' /\ pc[p] \notin {"done", "crashed"}
    BY <1>1 DEF Dirty, Preparing
  <1>3. pc'[p] # "crashed"
    <2>1. ASSUME NEW code, NEW label, Raise(p, code, label) PROVE pc'[p] = label
      BY <2>1 DEF Raise, Goto, IInv, TypeOK
    <2>2. ASSUME NEW label, Goto(p, label) PROVE pc'[p] = label
      BY <2>2 DEF Goto, IInv, TypeOK
    <2>3. ASSUME NEW label, Advance(p, label) PROVE pc'[p] \in {label, pc[p]}
      BY <2>2, <2>3 DEF Advance
    <2>4. CASE Start(p) \/ Snapshot(p)
      BY <1>1, <1>2, <2>1, <2>2, <2>3, <2>4 DEF Start, Snapshot
    <2>5. CASE MergeSymbol(p) \/ StageDirectory(p) \/ Place(p)
      BY <1>2, <2>1, <2>2, <2>5 DEF MergeSymbol, StageDirectory, Place
    <2>6. CASE PrepareFails(p) \/ Check(p)
      BY <1>2, <2>1, <2>3, <2>6 DEF PrepareFails, Check
    <2> QED  BY <2>4, <2>5, <2>6
  <1>4. pc'[p] = "done" => error'[p] # NoError
    <2>1. ~Committed(p)'
      BY <1>2, TwoTargets DEF Committed, Dirty
    <2> QED  BY <2>1 DEF Moves
  <1>5. CASE UNCHANGED touched
    BY <1>1, <1>2, <1>3, <1>4, <1>5, CleanStep DEF StepDone
  <1>6. CASE Snapshot(p) /\ ~UNCHANGED touched
    <2> DEFINE t == FirstOf(todo[p])
    <2>1. todo[p] \in SUBSET Targets /\ todo[p] # {} /\ todo[p] \subseteq touched[p]
          /\ todo[p] \subseteq TargetsOf(p) /\ pc[p] = "snapshot"
      BY <1>6 DEF Snapshot, IInv, TypeOK, RunInv, Loops
    <2>2. /\ t \in todo[p] /\ t \in Targets
      BY <2>1, FirstAndLast
    <2>3. /\ touched' = [touched EXCEPT ![p] = @ \ {t}] /\ UNCHANGED error
          /\ Advance(p, IF Request[p].symbol THEN "merge" ELSE "stage")
      BY <1>6 DEF Snapshot
    <2> HIDE DEF t
    <2>4. pc'[p] # "done"
      <3>1. pc'[p] \in {"snapshot", IF Request[p].symbol THEN "merge" ELSE "stage"}
        BY <2>1, <2>3 DEF Advance, Goto, IInv, TypeOK
      <3> QED  BY <3>1
    <2>5. /\ touched'[p] = touched[p] \ {t}
          /\ \A q \in Procs \ {p} : touched'[q] = touched[q]
      BY <2>3 DEF IInv, TypeOK
    <2>6. Alone(p)' = Alone(p) \cup {t} /\ t \notin Alone(p)
      BY <2>1, <2>2, <2>5 DEF Alone
    <2>7. \A q \in Procs \ {p} : SameView(q) /\ SameStatus(q)
      BY <1>1, <2>5, ViewIsKept DEF StepDone
    <2>8. ~Committed(p) /\ ~Committed(p)'
      BY <1>1, <1>2, TwoTargets DEF Committed, Dirty
    <2>9. StatusOf(p) = "clean" /\ StatusOf(p)' = "clean"
      BY <1>1, <1>2, <1>3, <2>4, <2>8, StatusRead
    <2>10. \A u \in Targets : lib[u] \in Content
      BY DEF IInv, TypeOK
    <2>11. /\ ViewOf(p)' \in [Alone(p) \cup {t} -> Content]
           /\ \A u \in Alone(p) : ViewOf(p)'[u] = ViewOf(p)[u]
      <3>1. /\ \A u \in Targets : RolledBack(p, u) = lib[u] /\ RolledBack(p, u)' = lib[u]
            /\ Alone(p) \subseteq Targets
        BY <1>1, <1>2, TargetsOfAreTargets DEF RolledBack, Dirty, Alone
      <3>2. ViewOf(p) = [u \in Alone(p) |-> RolledBack(p, u)]
        BY <1>2, <2>8, ViewRead
      <3>3. ViewOf(p)' = [u \in Alone(p) \cup {t} |-> RolledBack(p, u)']
        BY <2>4, <2>6, <2>8, ViewRead
      <3> QED  BY <2>2, <2>10, <3>1, <3>2, <3>3
    <2>12. \A q \in Procs : SameStatus(q)
      BY <2>7, <2>9 DEF SameStatus
    <2>13. Atomic!Look(p)
      BY <2>2, <2>6, <2>7, <2>9, <2>11, <2>12, LookIsAtomic
    <2> QED  BY <2>13 DEF Seen, Atomic!Next
  <1>7. UNCHANGED touched \/ Snapshot(p)
    BY DEF Start, MergeSymbol, StageDirectory, Place, PrepareFails, Check
  <1> QED  BY <1>5, <1>6, <1>7

\* A target that is moved away can be moved back.
LEMMA MoveAwaySeen ==
    ASSUME IInv, NEW p \in Procs, Moves(p), Moves(p)', StepDone(p), MoveAway(p)
    PROVE  Seen
  <1> DEFINE t == FirstOf(todo[p])
  <1>1. /\ pc[p] = "move" /\ todo[p] \in SUBSET Targets /\ todo[p] # {}
        /\ todo[p] \subseteq TargetsOf(p) /\ installed[p] = TargetsOf(p) \ todo[p]
        /\ UNCHANGED installed
    BY DEF MoveAway, IInv, TypeOK, RunInv, Loops
  <1>2. t \in todo[p] /\ t \in Targets /\ t \notin installed[p]
    BY <1>1, FirstAndLast
  <1>3. pc'[p] = "put"
    BY DEF MoveAway, Goto, IInv, TypeOK
  <1>4. ~Committed(p) /\ ~Committed(p)'
    BY <1>1, <1>2 DEF Committed
  <1>5. CASE lib[t] = Absent
    <2>1. UNCHANGED <<lib, backup, touched>>
      BY <1>5 DEF MoveAway
    <2>2. Dirty(p)' <=> Dirty(p)
      BY <1>1, <2>1 DEF Dirty
    <2> QED  BY <1>1, <1>3, <1>4, <2>1, <2>2, CleanStep, DirtyStep DEF StepDone
  <1>6. CASE lib[t] # Absent
    <2>1. backup' = [backup EXCEPT ![p][t] = lib[t]] /\ Writes(p, t, Absent)
      BY <1>6 DEF MoveAway
    <2>2. Absent \in Content /\ backup \in [Procs -> [Targets -> Content]] /\ TypeOK
      BY KnownIsContent DEF IInv, TypeOK
    <2>3. \A u \in Alone(p) : u \in todo[p] => AsFound(p, u)
      BY <1>1 DEF IInv, RunInv, Places
    <2> HIDE DEF t
    <2>4. /\ backup'[p][t] = lib[t] /\ \A u \in Targets \ {t} : backup'[p][u] = backup[p][u]
          /\ \A u \in Targets \ {t} : lib'[u] = lib[u]
      <3>1. \A u \in Targets \ {t} : lib'[u] = lib[u]
        BY <1>2, <2>1, <2>2, WritesTyped
      <3>2. /\ backup'[p][t] = lib[t]
            /\ \A u \in Targets \ {t} : backup'[p][u] = backup[p][u]
        BY <1>2, <2>1, <2>2
      <3> QED  BY <3>1, <3>2
    <2>5. Dirty(p)'
      BY <1>2, <1>6, <2>4 DEF Dirty
    <2>6. ASSUME NEW u \in Alone(p) PROVE RolledBack(p, u)' = RolledBack(p, u)
      <3>1. u \in Targets
        BY TargetsOfAreTargets DEF Alone
      <3>2. CASE u = t
        <4>1. backup[p][t] = Absent
          BY <1>2, <2>3, <3>2 DEF AsFound
        <4> QED  BY <1>1, <1>2, <1>6, <2>4, <3>2, <4>1 DEF RolledBack
      <3>3. CASE u # t
        BY <1>1, <2>4, <3>1, <3>3 DEF RolledBack
      <3> QED  BY <3>2, <3>3
    <2>7. \A q \in Procs \ {p} : Stays(q)
      BY DEF StepDone
    <2> QED  BY <1>1, <1>2, <1>3, <1>4, <2>1, <2>2, <2>5, <2>6, <2>7, WriteStep
  <1> QED  BY <1>5, <1>6

\* Only the last copy that is put in place makes the run count.
LEMMA PutSeen ==
    ASSUME IInv, NEW p \in Procs, Moves(p), Moves(p)', StepDone(p), Put(p)
    PROVE  Seen
  <1> DEFINE t == FirstOf(todo[p])
  <1>1. /\ pc[p] = "put" /\ todo[p] \in SUBSET Targets /\ todo[p] # {}
        /\ todo[p] \subseteq TargetsOf(p) /\ installed[p] = TargetsOf(p) \ todo[p]
        /\ UNCHANGED <<snap, backup>> /\ Writes(p, t, staged[p][t])
    BY DEF Put, IInv, TypeOK, RunInv, Loops
  <1>2. t \in todo[p] /\ t \in Targets /\ t \in TargetsOf(p) /\ t \notin installed[p]
    BY <1>1, FirstAndLast
  <1>3. /\ installed'[p] = installed[p] \cup {t} /\ todo'[p] = todo[p] \ {t}
        /\ pc'[p] = IF todo'[p] = {} THEN "drop" ELSE "move"
    BY DEF Put, Goto, IInv, TypeOK
  <1>4. \A u \in Alone(p) :
          /\ u \notin todo[p] => Replaced(p, u)
          /\ u \in todo[p] => IF u = t THEN Away(p, u) ELSE AsFound(p, u)
    BY <1>1 DEF IInv, RunInv, Places
  <1> HIDE DEF t
  <1>5. TypeOK /\ staged[p][t] \in Content /\ \A q \in Procs \ {p} : Stays(q)
    BY <1>2, KnownIsContent DEF IInv, TypeOK, StepDone
  <1>6. /\ lib'[t] = staged[p][t] /\ \A u \in Targets \ {t} : lib'[u] = lib[u]
        /\ touched'[p] = touched[p] /\ \A q \in Procs \ {p} : touched'[q] = touched[q] \cup {t}
    BY <1>1, <1>2, <1>5, WritesTyped
  <1>7. ~Committed(p) /\ Dirty(p)'
    BY <1>1, <1>2, <1>3 DEF Committed, Dirty
  <1>8. Alone(p)' = Alone(p) /\ Alone(p) \subseteq Targets /\ Alone(p) \subseteq TargetsOf(p)
    BY <1>6, TargetsOfAreTargets DEF Alone
  <1>9. CASE todo'[p] # {}
    <2>1. ~Committed(p)'
      BY <1>1, <1>2, <1>3, <1>9 DEF Committed
    <2>2. ASSUME NEW u \in Alone(p) PROVE RolledBack(p, u)' = RolledBack(p, u)
      <3>1. CASE u = t
        <4>1. lib[t] = Absent
          BY <1>2, <1>4, <3>1 DEF Away
        <4> QED  BY <1>1, <1>2, <1>3, <3>1, <4>1 DEF RolledBack
      <3>2. CASE u # t
        BY <1>1, <1>3, <1>6, <1>8, <3>2 DEF RolledBack
      <3> QED  BY <3>1, <3>2
    <2> QED  BY <1>1, <1>2, <1>3, <1>5, <1>7, <1>9, <2>1, <2>2, WriteStep
  <1>10. CASE todo'[p] = {}
    <2>1. Committed(p)'
      BY <1>1, <1>2, <1>3, <1>10 DEF Committed
    <2>2. Dirty(p)
      <3>1. TargetsOf(p) # {t}
        BY TwoTargets
      <3>2. installed[p] # {}
        BY <1>1, <1>2, <1>3, <1>10, <3>1
      <3> QED  BY <3>2 DEF Dirty
    <2>3. StatusOf(p) = "dirty" /\ StatusOf(p)' = "installed"
      BY <1>1, <1>7, <2>1, <2>2, StatusRead
    <2>4. \A u \in Alone(p) : RolledBack(p, u) = snap[p][u]
      BY <1>1, <1>2, <1>3, <1>4, <1>8, <1>10 DEF RolledBack, Replaced, Away
    <2>5. \A u \in Alone(p) : lib'[u] = Merged(p, snap[p][u])
      <3>1. \A u \in Alone(p) : u # t => u \notin todo[p]
        BY <1>3, <1>10
      <3>2. t \in Alone(p) => staged[p][t] = Merged(p, snap[p][t])
        BY <1>1 DEF IInv, RunInv, Copies
      <3> QED  BY <1>4, <1>6, <1>8, <3>1, <3>2 DEF Replaced
    <2>6. ViewOf(p)' = [u \in Alone(p) |-> Merged(p, ViewOf(p)[u])]
      <3>1. ViewOf(p) = [u \in Alone(p) |-> RolledBack(p, u)]
        BY <1>1, <1>7, ViewRead
      <3>2. ViewOf(p)' = [u \in Alone(p) |-> lib'[u]]
        BY <1>8, <2>1, ViewRead
      <3> QED  BY <2>4, <2>5, <3>1, <3>2
    <2>7. \A q \in Procs \ {p} : Loses(q, t) /\ SameStatus(q)
      BY <1>2, <1>5, <1>6, ViewIsLost
    <2>8. Atomic!Install(p)
      BY <1>2, <2>3, <2>6, <2>7, InstallIsAtomic
    <2> QED  BY <2>8 DEF Seen, Atomic!Next
  <1> QED  BY <1>9, <1>10

\* The rollback, wherever it fails, leaves every target one that it can still
\* move back.
LEMMA RemovingSeen ==
    ASSUME IInv, NEW p \in Procs, Moves(p), Moves(p)', StepDone(p),
           RemoveInstalled(p) \/ RemoveFails(p)
    PROVE  Seen
  <1>1. /\ pc[p] = "remove" /\ ~Committed(p) /\ installed[p] \in SUBSET Targets
        /\ installed[p] \subseteq TargetsOf(p) /\ UNCHANGED backup
    BY DEF RemoveInstalled, RemoveFails, Moves, IInv, TypeOK, RunInv, Loops
  <1>2. CASE installed[p] = {}
    <2>1. /\ UNCHANGED <<lib, installed, touched>> /\ pc'[p] = "restore"
      BY <1>2 DEF RemoveInstalled, RemoveFails, Goto, IInv, TypeOK
    <2>2. Dirty(p)' <=> Dirty(p)
      BY <1>1, <2>1 DEF Dirty
    <2> QED  BY <1>1, <2>1, <2>2, CleanStep, DirtyStep DEF StepDone
  <1>3. CASE installed[p] # {}
    <2>1. PICK t \in Targets : t = LastOf(installed[p]) /\ t \in installed[p]
      BY <1>1, <1>3, FirstAndLast
    <2>2. TypeOK /\ Dirty(p) /\ \A q \in Procs \ {p} : Stays(q)
      BY <1>3 DEF IInv, Dirty, StepDone
    <2>3. CASE RemoveInstalled(p)
      <3>1. /\ Writes(p, t, Absent) /\ UNCHANGED pc /\ Absent \in Content
            /\ installed'[p] = installed[p] \ {t}
        BY <1>3, <2>1, <2>3, KnownIsContent DEF RemoveInstalled, IInv, TypeOK
      <3>2. lib'[t] = Absent /\ \A u \in Targets \ {t} : lib'[u] = lib[u]
        BY <2>2, <3>1, WritesTyped
      <3>3. ~Committed(p)'
        BY <1>1, <2>1, <3>1 DEF Committed
      <3>4. ASSUME NEW u \in Alone(p) PROVE RolledBack(p, u)' = RolledBack(p, u)
        <4>1. u \in Targets
          BY TargetsOfAreTargets DEF Alone
        <4>2. CASE u = t
          BY <1>1, <2>1, <3>1, <3>2, <4>2 DEF RolledBack
        <4>3. CASE u # t
          BY <1>1, <3>1, <3>2, <4>1, <4>3 DEF RolledBack
        <4> QED  BY <4>2, <4>3
      <3> QED  BY <1>1, <2>2, <3>1, <3>3, <3>4, WriteStep
    <2>4. CASE RemoveFails(p)
      <3>1. PICK c \in Content : Writes(p, t, c)
        BY <2>1, <2>4, ContentItems DEF RemoveFails, IInv, TypeOK
      <3>2. UNCHANGED installed /\ pc'[p] = "drop" /\ ~Committed(p)'
        BY <1>1, <2>4 DEF RemoveFails, Raise, Goto, IInv, TypeOK, Committed
      <3>3. \A u \in Targets \ {t} : lib'[u] = lib[u]
        BY <2>2, <3>1, WritesTyped
      <3>4. ASSUME NEW u \in Alone(p) PROVE RolledBack(p, u)' = RolledBack(p, u)
        <4>1. u \in Targets
          BY TargetsOfAreTargets DEF Alone
        <4> QED  BY <1>1, <2>1, <3>2, <3>3, <4>1 DEF RolledBack
      <3> QED  BY <1>1, <2>2, <3>1, <3>2, <3>4, WriteStep
    <2> QED  BY <2>3, <2>4
  <1> QED  BY <1>2, <1>3

LEMMA RestoringSeen ==
    ASSUME IInv, NEW p \in Procs, Moves(p), Moves(p)', StepDone(p),
           Restore(p) \/ RestoreFails(p) \/ MovesFail(p)
    PROVE  Seen
  <1>1. /\ pc[p] \in {"move", "put", "restore"} /\ ~Committed(p)
        /\ UNCHANGED installed /\ ~Committed(p)'
    <2>1. pc[p] \in {"move", "put", "restore"} /\ UNCHANGED installed
      BY DEF Restore, RestoreFails, MovesFail
    <2>2. ~Committed(p)
      BY <2>1, TwoTargets DEF Committed, IInv, RunInv, Loops
    <2> QED  BY <2>1, <2>2 DEF Committed
  <1> DEFINE left == {u \in Targets : backup[p][u] # Absent}
  <1>2. CASE Restore(p) /\ left # {}
    <2>1. PICK t \in Targets : t = LastOf(left) /\ backup[p][t] # Absent
      BY <1>2, FirstAndLast
    <2>2. /\ Writes(p, t, backup[p][t]) /\ backup' = [backup EXCEPT ![p][t] = Absent]
          /\ UNCHANGED pc /\ pc[p] = "restore" /\ installed[p] = {}
      BY <1>2, <2>1 DEF Restore, IInv, RunInv, Loops
    <2>3. backup[p][t] \in Content /\ Absent \in Content /\ TypeOK
          /\ backup \in [Procs -> [Targets -> Content]] /\ \A q \in Procs \ {p} : Stays(q)
      BY KnownIsContent DEF IInv, TypeOK, StepDone
    <2>4. /\ lib'[t] = backup[p][t] /\ \A u \in Targets \ {t} : lib'[u] = lib[u]
          /\ backup'[p][t] = Absent
          /\ \A u \in Targets \ {t} : backup'[p][u] = backup[p][u]
      BY <2>2, <2>3, WritesTyped
    <2>5. Dirty(p)
      BY <2>1 DEF Dirty
    <2>6. ASSUME NEW u \in Alone(p) PROVE RolledBack(p, u)' = RolledBack(p, u)
      <3>1. u \in Targets
        BY TargetsOfAreTargets DEF Alone
      <3>2. CASE u = t
        BY <1>1, <2>1, <2>2, <2>4, <3>2 DEF RolledBack
      <3>3. CASE u # t
        BY <1>1, <2>4, <3>1, <3>3 DEF RolledBack
      <3> QED  BY <3>2, <3>3
    <2> QED  BY <1>1, <2>2, <2>3, <2>5, <2>6, WriteStep
  <1>3. CASE ~(Restore(p) /\ left # {})
    <2>1. UNCHANGED <<lib, backup, touched>>
      BY <1>3 DEF Restore, RestoreFails, MovesFail
    <2>2. pc'[p] \in {"drop", "remove"}
      BY <1>3 DEF Restore, RestoreFails, MovesFail, Raise, Goto, IInv, TypeOK
    <2>3. Dirty(p)' <=> Dirty(p)
      BY <1>1, <2>1 DEF Dirty
    <2> QED  BY <1>1, <2>1, <2>2, <2>3, CleanStep, DirtyStep DEF StepDone
  <1> QED  BY <1>2, <1>3

\* A run that ends counts already, or it gives up; only one that fails with a
\* target moved away breaks it.
LEMMA EndingSeen ==
    ASSUME IInv, NEW p \in Procs, Moves(p), Moves(p)', StepDone(p),
           \/ Drop(p) \/ DropFails(p) \/ HashArtifact(p) \/ Interrupt(p) \/ Crash(p)
    PROVE  Seen
  <1>1. /\ UNCHANGED <<lib, installed, touched>> /\ pc[p] \in Active
        /\ Committed(p)' = Committed(p)
    BY DEF Drop, DropFails, HashArtifact, Interrupt, Crash, Active, Committed
  <1>2. {"OS_ERROR", "INTERRUPTED"} \cap (CleanErrors \cup {NoError}) = {}
    BY DEF CleanErrors, NoError
  <1>3. pc[p] \notin {"done", "crashed"}
    BY <1>1 DEF Active, Preparing, Committing
  <1>4. ASSUME NEW code, NEW label, Raise(p, code, label)
        PROVE  pc'[p] = label /\ error'[p] = code
    BY <1>4 DEF Raise, Goto, IInv, TypeOK
  <1>5. ASSUME NEW label, Goto(p, label) PROVE pc'[p] = label
    BY <1>5 DEF Goto, IInv, TypeOK
  <1>6. CASE Committed(p)
    BY <1>1, <1>6, CommittedStep DEF StepDone
  <1>7. CASE ~Committed(p) /\ (Interrupt(p) \/ Crash(p))
    <2>1. UNCHANGED backup /\ (Dirty(p)' <=> Dirty(p))
      BY <1>1, <1>7 DEF Interrupt, Crash, Dirty
    <2>2. CASE Interrupt(p)
      <3>1. error'[p] = "INTERRUPTED" /\ pc'[p] \in {"drop", "done"}
        BY <1>4, <2>2 DEF Interrupt
      <3> QED  BY <1>1, <1>2, <1>3, <1>7, <2>1, <3>1, CleanStep, DirtyStep, BreakStep
               DEF StepDone
    <2>3. CASE Crash(p)
      <3>1. pc'[p] = "crashed"
        BY <1>5, <2>3 DEF Crash
      <3>2. CASE Dirty(p)
        BY <1>1, <1>3, <1>7, <2>1, <3>1, <3>2, DirtyStep DEF StepDone
      <3>3. CASE ~Dirty(p)
        <4>1. \A q \in Procs \ {p} : SameView(q) /\ SameStatus(q)
          BY <1>1, ViewIsKept DEF StepDone
        <4>2. Alone(p)' = Alone(p)
          BY <1>1 DEF Alone
        <4>3. SameView(p)
          BY <1>1, <1>3, <1>7, <2>1, <3>1, <4>2, ViewRead DEF SameView, RolledBack
        <4>4. StatusOf(p) = "clean" /\ StatusOf(p)' = "killed"
          BY <1>1, <1>3, <1>7, <3>1, <3>3, StatusRead
        <4>5. Atomic!Kill(p)
          BY <4>1, <4>3, <4>4, KillIsAtomic
        <4> QED  BY <4>5 DEF Seen, Atomic!Next
      <3> QED  BY <3>2, <3>3
    <2> QED  BY <1>7, <2>2, <2>3
  <1>8. CASE ~Committed(p) /\ (Drop(p) \/ DropFails(p))
    <2>1. pc[p] = "drop" /\ error[p] # NoError
      BY <1>8 DEF Drop, DropFails, Moves
    <2>2. pc'[p] = "done" /\ error'[p] # NoError /\ (~Dirty(p) => ~Dirty(p)')
      <3>1. CASE Drop(p)
        <4>1. pc'[p] = "done" /\ error'[p] = error[p]
          BY <1>5, <2>1, <3>1 DEF Drop
        <4>2. \A u \in Targets : backup'[p][u] = Absent
          BY <3>1 DEF Drop, IInv, TypeOK
        <4> QED  BY <1>1, <2>1, <4>1, <4>2 DEF Dirty
      <3>2. CASE DropFails(p)
        <4>1. pc'[p] = "done" /\ error'[p] # NoError
          BY <1>2, <1>4, <3>2 DEF DropFails
        <4>2. \A u \in Targets : backup'[p][u] \in {Absent, backup[p][u]}
          BY <3>2 DEF DropFails, IInv, TypeOK
        <4> QED  BY <1>1, <4>1, <4>2 DEF Dirty
      <3> QED  BY <1>8, <3>1, <3>2
    <2>3. CASE ~Dirty(p)
      BY <1>1, <1>3, <2>2, <2>3, CleanStep DEF StepDone
    <2>4. CASE Dirty(p)
      <3>1. error[p] \notin CleanErrors
        BY <2>1, <2>4 DEF Moves
      <3>2. error'[p] = error[p] \/ error'[p] = "OS_ERROR"
        BY <1>4, <1>8 DEF Drop, DropFails
      <3> QED  BY <1>1, <1>2, <1>3, <1>8, <2>2, <2>4, <3>1, <3>2, BreakStep DEF StepDone
    <2> QED  BY <2>3, <2>4
  <1>9. HashArtifact(p) => Committed(p)
    BY DEF HashArtifact, Moves, IInv, RunInv, Loops
  <1> QED  BY <1>6, <1>7, <1>8, <1>9

LEMMA AtomicInit == Init => Atomic!Init
  <1> SUFFICES ASSUME Init PROVE Atomic!Init
    OBVIOUS
  <1>1. \A p \in Procs : Alone(p) = {}
    BY TargetsOfAreTargets DEF Init, Alone
  <1>2. \A p \in Procs : ViewOf(p) \in [{} -> Content]
    BY <1>1, ViewRead
  <1>3. \A p \in Procs : StatusOf(p) = "clean"
    <2>1. \A p \in Procs : ~Committed(p) /\ ~Dirty(p) /\ pc[p] = "idle"
      BY TwoTargets DEF Init, Committed, Dirty
    <2> QED  BY <2>1, StatusRead
  <1> QED  BY <1>2, <1>3 DEF Atomic!Init

LEMMA AtomicNext ==
    (IInv /\ \A p \in Procs : Moves(p)) /\ (\A p \in Procs : Moves(p))' /\ [Next]_vars
      => [Atomic!Next]_(Atomic!avars)
  <1> SUFFICES ASSUME IInv, \A p \in Procs : Moves(p), (\A p \in Procs : Moves(p))',
                      [Next]_vars
               PROVE  Seen
    BY DEF Seen
  <1>1. ASSUME NEW p \in Procs, Step(p) PROVE Seen
    <2>1. StepDone(p) /\ Moves(p) /\ Moves(p)'
      BY <1>1, EachStepIsDone
    <2> QED  BY <1>1, <2>1, PreparingSeen, MoveAwaySeen, PutSeen, RemovingSeen, RestoringSeen,
                EndingSeen DEF Step
  <1>2. ASSUME NEW t \in Targets, Edit(t) PROVE Seen
    <2>1. /\ \A q \in Procs : Stays(q) /\ touched'[q] = touched[q] \cup {t}
          /\ \A u \in Targets \ {t} : lib'[u] = lib[u]
      BY <1>2, EditStep DEF Edit, IInv, TypeOK
    <2>2. Atomic!Write(t)
      BY <2>1, ViewIsLost, EditIsAtomic
    <2> QED  BY <2>2 DEF Seen, Atomic!Next
  <1>3. CASE UNCHANGED vars
    <2>1. \A q \in Procs : Stays(q) /\ UNCHANGED lib /\ touched'[q] = touched[q]
      BY <1>3 DEF vars, bounds, Stays, IInv, TypeOK
    <2> QED  BY <2>1, ViewIsKept, Unseen DEF Seen
  <1> QED  BY <1>1, <1>2, <1>3 DEF Next

\* For every number of processes, of targets that others write and of faults,
\* the moves of _commit_paths_atomically implement one atomic installation:
\* until the last copy is in place a run can be rolled back to what it found,
\* however it fails or is killed, and from then on all its targets are new.
THEOREM InstallationIsAtomic == Spec => RunsAreAtomic
  <1>1. Spec => [](\A p \in Procs : Moves(p))
    BY MovesInit, MovesStep, Invariance, PTL DEF Spec
  <1> QED  BY <1>1, AtomicInit, AtomicNext, Invariance, PTL DEF Spec, RunsAreAtomic, Atomic!Spec
=============================================================================

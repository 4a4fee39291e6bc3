--------------------- MODULE ProjectRegistrationProofs ---------------------
(***************************************************************************)
(* The registration properties for every set of processes, every set of    *)
(* libraries, every initial content of the tables and every bound.         *)
(***************************************************************************)
EXTENDS ProjectRegistration, TLAPS

\* The two helpers that pick a table pick a member.
LEMMA PickTable ==
    ASSUME NEW S \in SUBSET Tables, S # {}
    PROVE  FirstOf(S) \in S /\ LastOf(S) \in S
  BY DEF Tables, FirstOf, LastOf

\* Updating one field, or one field of one table, keeps a function typed.
LEMMA SetField ==
    ASSUME NEW S, NEW V, NEW f \in [S -> V], NEW s \in S, NEW v \in V
    PROVE  [f EXCEPT ![s] = v] \in [S -> V]
  OBVIOUS

LEMMA SetCell ==
    ASSUME NEW S, NEW T, NEW V, NEW f \in [S -> [T -> V]],
           NEW s \in S, NEW t \in T, NEW v \in V
    PROVE  [f EXCEPT ![s][t] = v] \in [S -> [T -> V]]
  OBVIOUS

LEMMA KnownContents ==
    /\ Absent \in Known /\ Known \subseteq Content
    /\ \A S \in SUBSET Entry : TableOf(S) \in Known
    /\ \A c \in Content : IsTable(c) => c \in Known /\ c = TableOf(c.entries)
    /\ \A c \in Content : c.entries \in SUBSET Entry
    /\ \A c \in Content : c.kind = "absent" => c = Absent
    /\ \A c \in Content : c.kind = "unsafe" => c = Unsafe
    /\ \A c \in Content : c.kind \in {"absent", "unsafe", "table"}
  <1>1. Absent \in Known /\ Known \subseteq Content
    BY DEF Known, Content
  <1>2. ASSUME NEW S \in SUBSET Entry PROVE TableOf(S) \in Known
    BY DEF Known
  <1>3. ASSUME NEW c \in Content
        PROVE  /\ IsTable(c) => c \in Known /\ c = TableOf(c.entries)
               /\ c.entries \in SUBSET Entry
               /\ c.kind = "absent" => c = Absent
               /\ c.kind = "unsafe" => c = Unsafe
               /\ c.kind \in {"absent", "unsafe", "table"}
    <2>1. CASE c = Absent \/ c = Unsafe
      BY <2>1 DEF Absent, Unsafe, IsTable
    <2>2. ASSUME NEW S \in SUBSET Entry, c = TableOf(S)
          PROVE  c.kind = "table" /\ c.entries = S /\ c \in Known
      BY <2>2, <1>2 DEF TableOf
    <2> QED  BY <2>1, <2>2 DEF Content, Known, IsTable
  <1> QED  BY <1>1, <1>2, <1>3

-----------------------------------------------------------------------------
(* Type correctness.                                                       *)

LEMMA InitTyped == Init => TypeOK
  BY RegistrationAssumption, KnownContents
  DEF Init, TypeOK, NoPlan, NoUpdate, Update

LEMMA StepTyped == TypeOK /\ [Next]_vars => TypeOK'
  <1> SUFFICES ASSUME TypeOK, [Next]_vars PROVE TypeOK'
    OBVIOUS
  <1> USE DEF TypeOK
  <1>1. ASSUME NEW p \in Procs, Start(p) PROVE TypeOK'
    BY <1>1, KnownContents DEF Start, Goto, NoPlan, NoUpdate, Update, Active,
       Tables, NoError
  <1>2. ASSUME NEW p \in Procs, PlanTable(p) PROVE TypeOK'
    <2> DEFINE t == FirstOf(todo[p])
               now == table[t]
    <2>1. t \in Tables /\ now \in Content /\ Request[p] \in Entry
      BY <1>2, PickTable, RegistrationAssumption DEF PlanTable
    <2>2. ASSUME NEW u \in Update, Planned(p, t, u),
                 UNCHANGED <<table, disk, installed, runs, edits, faults>>
          PROVE  TypeOK'
      BY <2>1, <2>2 DEF Planned, Sees, disk
    <2>3. ASSUME NEW code \in CleanErrors, Rejected(p, code),
                 UNCHANGED <<table, disk, installed, runs, edits, faults>>
          PROVE  TypeOK'
      BY <2>3 DEF Rejected, Raise, Goto, Errors, Ended, disk, history
    <2>4. CASE now.kind = "absent"
      <3>1. [action |-> "create", expected |-> Absent,
             content |-> TableOf({Request[p]})] \in Update
        BY <2>1, KnownContents DEF Update
      <3> QED  BY <1>2, <2>2, <2>4, <3>1 DEF PlanTable, IsTable
    <2>5. CASE now.kind = "unsafe"
      BY <1>2, <2>3, <2>5 DEF PlanTable, IsTable, CleanErrors
    <2>6. CASE IsTable(now)
      <3>1. [action |-> "unchanged", expected |-> now, content |-> now] \in Update
        BY <2>1, <2>6, KnownContents DEF Update
      <3>2. [action |-> "update", expected |-> now,
             content |-> TableOf(now.entries \cup {Request[p]})] \in Update
        BY <2>1, <2>6, KnownContents DEF Update
      <3> QED  BY <1>2, <2>2, <2>3, <2>6, <3>1, <3>2
               DEF PlanTable, IsTable, CleanErrors
    <2> QED  BY <1>2, <2>4, <2>5, <2>6 DEF PlanTable
  <1>3. ASSUME NEW p \in Procs, PlanReadFails(p) PROVE TypeOK'
    BY <1>3, RegistrationAssumption
    DEF PlanReadFails, Fault, Rejected, Raise, Goto, CleanErrors, Errors, Ended, disk, history
  <1>4. ASSUME NEW p \in Procs, BeginApply(p) PROVE TypeOK'
    BY <1>4 DEF BeginApply, Goto, Active, Ended, disk, history
  <1>5. ASSUME NEW p \in Procs, Stage(p) PROVE TypeOK'
    BY <1>5 DEF Stage, Goto, Active, Changed, disk, history
  <1>6. ASSUME NEW p \in Procs, StageFails(p) PROVE TypeOK'
    <2>1. PICK done \in SUBSET Changed(p) : staged' = [staged EXCEPT ![p] = done]
      BY <1>6 DEF StageFails
    <2>2. staged' \in [Procs -> SUBSET Tables]
      BY <2>1, SetField DEF Changed
    <2>3. CASE /\ Fault /\ Raise(p, "WRITE_FAILED", "unstage")
               /\ UNCHANGED litter
      BY <1>6, <2>2, <2>3
      DEF StageFails, Fault, Raise, Goto, Active, CleanErrors, Errors, history
    <2>4. CASE /\ TwoFaults /\ Raise(p, "OS_ERROR", "unstage")
               /\ litter' = [litter EXCEPT ![p] = TRUE]
      BY <1>6, <2>2, <2>4
      DEF StageFails, TwoFaults, Raise, Goto, Active, Errors, history
    <2> QED  BY <1>6, <2>3, <2>4 DEF StageFails
  <1>7. ASSUME NEW p \in Procs, CheckTable(p) PROVE TypeOK'
    <2> DEFINE t == FirstOf(todo[p])
    <2>1. Mismatch(t) \in Errors
      BY DEF Mismatch, Errors, CleanErrors
    <2>2. stale' \in [Procs -> SUBSET Tables]
      BY <1>7 DEF CheckTable, Sees
    <2>3. Changed(p) \in SUBSET Tables
      BY DEF Changed
    <2>4. CASE table[t] = plan[p][t].expected
      <3>1. pc' \in [Procs -> {"idle"} \cup Active \cup Ended]
        BY <1>7, <2>4 DEF CheckTable, Goto, Active
      <3>2. todo' \in [Procs -> SUBSET Tables]
        <4>1. todo[p] \ {t} \in SUBSET Tables
          OBVIOUS
        <4>2. todo' = [todo EXCEPT ![p] = Changed(p)]
                \/ todo' = [todo EXCEPT ![p] = todo[p] \ {t}]
          BY <1>7, <2>4 DEF CheckTable
        <4>3. [todo EXCEPT ![p] = Changed(p)] \in [Procs -> SUBSET Tables]
          BY <2>3, SetField
        <4>4. [todo EXCEPT ![p] = todo[p] \ {t}] \in [Procs -> SUBSET Tables]
          BY <4>1, SetField
        <4> QED  BY <4>2, <4>3, <4>4
      <3> QED  BY <1>7, <2>2, <2>4, <3>1, <3>2 DEF CheckTable, disk
    <2>5. CASE table[t] # plan[p][t].expected
      <3>1. error' \in [Procs -> {NoError} \cup Errors]
        BY <1>7, <2>1, <2>5 DEF CheckTable, Raise
      <3>2. pc' \in [Procs -> {"idle"} \cup Active \cup Ended]
        BY <1>7, <2>5 DEF CheckTable, Raise, Goto, Active
      <3>3. UNCHANGED <<table, todo, plan, disk, installed, runs, edits, faults,
                        touched>>
        BY <1>7, <2>5 DEF CheckTable
      <3> QED  BY <2>2, <3>1, <3>2, <3>3 DEF disk
    <2> QED  BY <2>4, <2>5
  <1>8. ASSUME NEW p \in Procs, CheckReadFails(p) PROVE TypeOK'
    BY <1>8 DEF CheckReadFails, Fault, Raise, Goto, Active, CleanErrors, Errors,
       disk, history
  <1>9. ASSUME NEW p \in Procs, ReadForCommit(p) PROVE TypeOK'
    <2> DEFINE t == FirstOf(todo[p])
    <2>1. t \in Tables /\ Mismatch(t) \in Errors
      BY DEF FirstOf, Tables, Mismatch, Errors, CleanErrors
    <2>2. stale' \in [Procs -> SUBSET Tables]
      BY <1>9 DEF ReadForCommit, Sees
    <2>3. CASE table[t] = plan[p][t].expected
      <3>1. plan[p][t].expected \in Known
        BY <2>1 DEF Update
      <3>2. backup' \in [Procs -> [Tables -> Known]]
        <4>1. backup' = [backup EXCEPT ![p][t] = table[t]]
          BY <1>9, <2>3 DEF ReadForCommit
        <4> QED  BY <2>1, <2>3, <3>1, <4>1, SetCell
      <3>3. pc' \in [Procs -> {"idle"} \cup Active \cup Ended]
        BY <1>9, <2>3 DEF ReadForCommit, Goto, Active
      <3> QED  BY <1>9, <2>2, <2>3, <3>2, <3>3 DEF ReadForCommit
    <2>4. CASE table[t] # plan[p][t].expected
      <3>1. error' \in [Procs -> {NoError} \cup Errors]
        BY <1>9, <2>1, <2>4 DEF ReadForCommit, Raise
      <3>2. pc' \in [Procs -> {"idle"} \cup Active \cup Ended]
        BY <1>9, <2>4 DEF ReadForCommit, Raise, Goto, Active
      <3>3. UNCHANGED <<table, todo, plan, staged, litter, installed, runs,
                        edits, faults, touched, backup>>
        BY <1>9, <2>4 DEF ReadForCommit
      <3> QED  BY <2>2, <3>1, <3>2, <3>3
    <2> QED  BY <2>3, <2>4
  <1>10. ASSUME NEW p \in Procs, ReadForCommitFails(p) PROVE TypeOK'
    <2>1. error' \in [Procs -> {NoError} \cup Errors] /\ faults' \in Nat
      <3>1. Fault \/ TwoFaults
        BY <1>10 DEF ReadForCommitFails
      <3>2. \E code \in Errors : error' = [error EXCEPT ![p] = code]
        BY <1>10 DEF ReadForCommitFails, Raise, CleanErrors, Errors
      <3> QED  BY <3>1, <3>2 DEF Fault, TwoFaults
    <2>2. pc' \in [Procs -> {"idle"} \cup Active \cup Ended]
      BY <1>10 DEF ReadForCommitFails, Raise, Goto, Active
    <2>3. litter' \in [Procs -> BOOLEAN]
      BY <1>10 DEF ReadForCommitFails
    <2> QED  BY <1>10, <2>1, <2>2, <2>3 DEF ReadForCommitFails, history
  <1>11. ASSUME NEW p \in Procs, Recheck(p) PROVE TypeOK'
    BY <1>11 DEF Recheck, Sees, Mismatch, Raise, Goto, Active, CleanErrors,
       Errors, disk
  <1>12. ASSUME NEW p \in Procs, Replace(p) PROVE TypeOK'
    <2>1. FirstOf(todo[p]) \in Tables
      BY DEF FirstOf, Tables
    <2> QED  BY <1>12, <2>1, KnownContents
             DEF Replace, Writes, Goto, Active, Update
  <1>13. ASSUME NEW p \in Procs, CommitFails(p) PROVE TypeOK'
    BY <1>13 DEF CommitFails, MoveFails, Fault, Raise, Goto, Active, CleanErrors,
       Errors, disk, history
  <1>14. ASSUME NEW p \in Procs, RollbackTable(p) PROVE TypeOK'
    <2>1. LastOf(installed[p]) \in Tables
      BY DEF LastOf, Tables
    <2> QED  BY <1>14, <2>1, KnownContents DEF RollbackTable, Writes
  <1>15. ASSUME NEW p \in Procs, RollbackFails(p) PROVE TypeOK'
    BY <1>15 DEF RollbackFails, MoveFails, Fault, Errors, disk, history
  <1>16. ASSUME NEW p \in Procs, DropPendingBackup(p) PROVE TypeOK'
    <2>1. FirstOf(todo[p]) \in Tables
      BY DEF FirstOf, Tables
    <2>2. backup' \in [Procs -> [Tables -> Known]]
      <3>1. \/ backup' = [backup EXCEPT ![p][FirstOf(todo[p])] = Absent]
            \/ backup' = backup
        BY <1>16 DEF DropPendingBackup
      <3>2. Absent \in Known
        BY KnownContents
      <3>3. [backup EXCEPT ![p][FirstOf(todo[p])] = Absent]
               \in [Procs -> [Tables -> Known]]
        BY <2>1, <3>2, SetCell
      <3> QED  BY <3>1, <3>3
    <2>3. error' \in [Procs -> {NoError} \cup Errors] /\ faults' \in Nat
      <3>1. \/ UNCHANGED <<error, faults>>
            \/ Fault /\ error' = [error EXCEPT ![p] = "ROLLBACK_FAILED"]
        BY <1>16 DEF DropPendingBackup
      <3>2. CASE UNCHANGED <<error, faults>>
        BY <3>2
      <3>3. CASE Fault /\ error' = [error EXCEPT ![p] = "ROLLBACK_FAILED"]
        <4>1. "ROLLBACK_FAILED" \in {NoError} \cup Errors
          BY DEF Errors
        <4> QED  BY <3>3, <4>1, SetField DEF Fault
      <3> QED  BY <3>1, <3>2, <3>3
    <2> QED  BY <1>16, <2>2, <2>3
             DEF DropPendingBackup, Goto, Active, disk, history
  <1>17. ASSUME NEW p \in Procs, CleanupBackup(p) PROVE TypeOK'
    <2>1. FirstOf({t \in installed[p] : backup[p][t] # Absent}) \in Tables
      BY DEF FirstOf, Tables
    <2>2. backup' \in [Procs -> [Tables -> Known]]
      <3> DEFINE left == {t \in installed[p] : backup[p][t] # Absent}
      <3>1. \/ backup' = [backup EXCEPT ![p][FirstOf(left)] = Absent]
            \/ backup' = backup
        BY <1>17 DEF CleanupBackup
      <3>2. FirstOf(left) \in Tables
        BY <2>1
      <3> HIDE DEF left
      <3>3. Absent \in Known
        BY KnownContents
      <3>4. [backup EXCEPT ![p][FirstOf(left)] = Absent]
               \in [Procs -> [Tables -> Known]]
        BY <3>2, <3>3, SetCell
      <3> QED  BY <3>1, <3>4
    <2>3. error' \in [Procs -> {NoError} \cup Errors] /\ faults' \in Nat
      <3>1. \/ UNCHANGED <<error, faults>>
            \/ Fault /\ error' = [error EXCEPT ![p] = "CLEANUP_FAILED"]
        BY <1>17 DEF CleanupBackup, Raise
      <3>2. CASE UNCHANGED <<error, faults>>
        BY <3>2
      <3>3. CASE Fault /\ error' = [error EXCEPT ![p] = "CLEANUP_FAILED"]
        <4>1. "CLEANUP_FAILED" \in {NoError} \cup Errors
          BY DEF Errors
        <4> QED  BY <3>3, <4>1, SetField DEF Fault
      <3> QED  BY <3>1, <3>2, <3>3
    <2>4. pc' \in [Procs -> {"idle"} \cup Active \cup Ended]
      BY <1>17 DEF CleanupBackup, Raise, Goto, Active
    <2> QED  BY <1>17, <2>2, <2>3, <2>4 DEF CleanupBackup, disk, history
  <1>18. ASSUME NEW p \in Procs, Unstage(p) PROVE TypeOK'
    <2>1. staged' \in [Procs -> SUBSET Tables]
      <3>1. \E left \in SUBSET staged[p] : staged' = [staged EXCEPT ![p] = left]
        BY <1>18 DEF Unstage
      <3> QED  BY <3>1, SetField
    <2>2. error' \in [Procs -> {NoError} \cup Errors] /\ faults' \in Nat
      <3>1. \/ UNCHANGED <<error, faults>>
            \/ Fault /\ error' = [error EXCEPT ![p] = "OS_ERROR"]
        BY <1>18 DEF Unstage, Raise
      <3>2. "OS_ERROR" \in {NoError} \cup Errors
        BY DEF Errors
      <3>3. CASE UNCHANGED <<error, faults>>
        BY <3>3
      <3>4. CASE Fault /\ error' = [error EXCEPT ![p] = "OS_ERROR"]
        BY <3>2, <3>4, SetField DEF Fault
      <3> QED  BY <3>1, <3>3, <3>4
    <2>3. pc' \in [Procs -> {"idle"} \cup Active \cup Ended]
      BY <1>18 DEF Unstage, Raise, Goto, Ended
    <2> QED  BY <1>18, <2>1, <2>2, <2>3 DEF Unstage, disk, history
  <1>19. ASSUME NEW p \in Procs, Crash(p) PROVE TypeOK'
    BY <1>19 DEF Crash, Fault, Goto, Ended, disk, history
  <1>20. ASSUME NEW t \in Tables, Edit(t) PROVE TypeOK'
    <2>1. table[t].entries \in SUBSET Entry
      BY KnownContents
    <2>2. PICK c \in {Absent, Unsafe, TableOf({})}
                \cup {TableOf(table[t].entries \cup {e}) : e \in Entry}
                \cup {TableOf(table[t].entries \ {e}) : e \in Entry} :
            table' = [table EXCEPT ![t] = c]
      BY <1>20 DEF Edit
    <2>3. \A S \in SUBSET Entry : TableOf(S) \in Content
      BY KnownContents
    <2>4. \A e \in Entry : TableOf(table[t].entries \cup {e}) \in Content
                           /\ TableOf(table[t].entries \ {e}) \in Content
      BY <2>1, <2>3
    <2>5. Absent \in Content /\ Unsafe \in Content /\ TableOf({}) \in Content
      BY <2>3, KnownContents DEF Content
    <2>6. c \in Content
      BY <2>2, <2>4, <2>5
    <2> QED  BY <1>20, <2>2, <2>6 DEF Edit, disk
  <1>21. CASE UNCHANGED vars
    BY <1>21 DEF vars
  <1> QED
    BY <1>1, <1>2, <1>3, <1>4, <1>5, <1>6, <1>7, <1>8, <1>9, <1>10, <1>11,
       <1>12, <1>13, <1>14, <1>15, <1>16, <1>17, <1>18, <1>19, <1>20, <1>21
    DEF Next, Step

\* Every reachable state has the declared shape; in particular no process ever
\* plans, keeps or restores the content of a link or directory.
THEOREM TypeCorrect == Spec => []TypeOK
  BY InitTyped, StepTyped, PTL DEF Spec
-----------------------------------------------------------------------------
(* The inductive invariant: what process p knows at each point.            *)

Clean(p) == error[p] \in {NoError} \cup CleanErrors

\* A planned content is the content that was read with at most the requested
\* entry added, and neither has a collision.
PlanSound(p) ==
    \A t \in Tables :
        LET u == plan[p][t]
        IN  /\ CollisionFree(u.expected.entries)
            /\ CollisionFree(u.content.entries)
            /\ u.expected.entries \subseteq u.content.entries
            /\ u.content.entries \subseteq u.expected.entries \cup {Request[p]}
            /\ u.action # "none" => Request[p] \in u.content.entries
            /\ u.action = "unchanged" => u.content = u.expected

\* Which tables are planned, waiting and installed at each point.
Progress(p) ==
    /\ pc[p] = "plan" => \A t \in Tables \ todo[p] : plan[p][t].action # "none"
    /\ \/ pc[p] \in Active \ {"plan"}
       \/ pc[p] = "done" /\ error[p] = NoError
       => \A t \in Tables : plan[p][t].action # "none"
    /\ pc[p] = "stage" => Changed(p) # {}
    /\ pc[p] \in {"check", "commit", "recheck", "replace", "rollback"}
         => todo[p] # {} /\ todo[p] \subseteq Changed(p)
    /\ pc[p] \in {"idle", "plan", "stage", "check"} => installed[p] = {}
    /\ installed[p] \subseteq Changed(p)
    /\ pc[p] \in {"commit", "recheck", "replace"}
         => /\ Changed(p) \subseteq installed[p] \cup todo[p]
            /\ installed[p] \cap todo[p] = {}
    /\ pc[p] = "rollback" => error[p] # NoError
    /\ pc[p] = "cleanup" => Changed(p) \subseteq installed[p]
    /\ pc[p] \in {"unstage", "done"} /\ error[p] = NoError
         => Changed(p) \subseteq installed[p]
    /\ pc[p] \in {"unstage", "done"} /\ error[p] \in CleanErrors
         => installed[p] = {}
    /\ pc[p] \in {"idle", "plan", "stage", "check", "commit", "recheck",
                  "replace", "cleanup"}
         => error[p] = NoError

\* A backup holds what was planned from, and none outlives its use.
BackupSound(p) ==
    /\ pc[p] \in {"commit", "recheck", "replace", "rollback"}
         => \A t \in installed[p] : backup[p][t] = plan[p][t].expected
    /\ pc[p] \in {"recheck", "replace"}
         => backup[p][FirstOf(todo[p])] = plan[p][FirstOf(todo[p])].expected
    /\ pc[p] \in {"plan", "stage", "check"}
         => \A t \in Tables : backup[p][t] = Absent
    /\ pc[p] \in {"commit", "cleanup"}
         => \A t \in Tables \ installed[p] : backup[p][t] = Absent
    /\ pc[p] \in {"recheck", "replace", "rollback"} /\ Clean(p)
         => \A t \in Tables \ (installed[p] \cup {FirstOf(todo[p])}) :
               backup[p][t] = Absent
    /\ pc[p] \in {"unstage", "done"} /\ Clean(p)
         => \A t \in Tables : backup[p][t] = Absent

\* No staged file outlives a run that ends cleanly, and only a failed write can
\* leave a temporary behind that was neither filled nor removed.
StagedSound(p) ==
    /\ pc[p] \in {"plan", "stage"} => staged[p] = {}
    /\ pc[p] = "done" /\ Clean(p) => staged[p] = {}
    /\ Clean(p) /\ litter[p] => error[p] = "WRITE_FAILED"

Local(p) == PlanSound(p) /\ Progress(p) /\ BackupSound(p) /\ StagedSound(p)

\* A table that nobody else wrote since p last looked holds what p knows.
LastSeen(p) ==
    \A t \in Tables \ stale[p] :
        /\ plan[p][t].action = "unchanged" => Request[p] \in table[t].entries
        /\ t \in installed[p] => table[t] = plan[p][t].content
        /\ pc[p] = "replace" /\ t = FirstOf(todo[p])
             => table[t] = plan[p][t].expected

\* A table that nobody else wrote since p planned it is as planned or as found.
SincePlan(p) ==
    Clean(p) =>
        \A t \in Tables \ touched[p] :
            plan[p][t].action # "none"
              => table[t] = IF t \in installed[p] THEN plan[p][t].content
                                                  ELSE plan[p][t].expected

IInv == TypeOK /\ \A p \in Procs : Local(p) /\ LastSeen(p) /\ SincePlan(p)

-----------------------------------------------------------------------------
(* Steps of other processes and of the editor.                             *)

SameLocal(p) ==
    /\ pc'[p] = pc[p] /\ todo'[p] = todo[p] /\ plan'[p] = plan[p]
    /\ staged'[p] = staged[p] /\ installed'[p] = installed[p]
    /\ backup'[p] = backup[p] /\ litter'[p] = litter[p]
    /\ error'[p] = error[p]

\* A table changes under p only if p's history says so.
Recorded(p) ==
    /\ stale[p] \subseteq stale'[p] /\ touched[p] \subseteq touched'[p]
    /\ \A t \in Tables \ stale'[p] : table'[t] = table[t]
    /\ \A t \in Tables \ touched'[p] : table'[t] = table[t]

LEMMA SameLocalKeeps ==
    ASSUME NEW p \in Procs, Local(p), LastSeen(p), SincePlan(p),
           SameLocal(p), Recorded(p)
    PROVE  Local(p)' /\ LastSeen(p)' /\ SincePlan(p)'
  <1> USE DEF SameLocal
  <1>1. Changed(p)' = Changed(p)
    BY DEF Changed
  <1>2. PlanSound(p)'
    BY DEF Local, PlanSound
  <1>3. Progress(p)'
    BY <1>1 DEF Local, Progress
  <1>4. BackupSound(p)'
    BY DEF Local, BackupSound, Clean
  <1>5. StagedSound(p)'
    BY DEF Local, StagedSound, Clean
  <1>6. LastSeen(p)'
    BY DEF LastSeen, Recorded
  <1>7. SincePlan(p)'
    BY DEF SincePlan, Recorded, Clean
  <1> QED  BY <1>2, <1>3, <1>4, <1>5, <1>6, <1>7 DEF Local

LEMMA WritesRecorded ==
    ASSUME TypeOK, NEW p \in Procs, NEW q \in Procs, p # q,
           NEW t \in Tables, NEW c, Writes(q, t, c)
    PROVE  Recorded(p)
  BY DEF TypeOK, Writes, Recorded

LEMMA OthersStep ==
    ASSUME TypeOK, NEW p \in Procs, NEW q \in Procs, p # q, Step(q)
    PROVE  SameLocal(p) /\ Recorded(p)
  <1> USE DEF TypeOK, SameLocal
  <1>1. FirstOf(todo[q]) \in Tables /\ LastOf(installed[q]) \in Tables
    BY DEF FirstOf, LastOf, Tables
  <1>2. CASE Start(q)
    BY <1>2 DEF Start, Goto, Recorded
  <1>3. CASE PlanTable(q)
    BY <1>3 DEF PlanTable, Planned, Rejected, Sees, Raise, Goto, Recorded, disk, history
  <1>4. CASE PlanReadFails(q)
    BY <1>4 DEF PlanReadFails, Rejected, Raise, Goto, Recorded, disk, history
  <1>5. CASE BeginApply(q) \/ Stage(q) \/ StageFails(q)
    BY <1>5 DEF BeginApply, Stage, StageFails, Raise, Goto, Recorded, disk, history
  <1>6. CASE CheckTable(q)
    BY <1>6 DEF CheckTable, Sees, Raise, Goto, Recorded, disk
  <1>7. CASE CheckReadFails(q) \/ ReadForCommitFails(q) \/ CommitFails(q)
    BY <1>7 DEF CheckReadFails, ReadForCommitFails, CommitFails, Raise, Goto,
       Recorded, disk, history
  <1>8. CASE ReadForCommit(q)
    BY <1>8 DEF ReadForCommit, Sees, Raise, Goto, Recorded
  <1>9. CASE Recheck(q)
    BY <1>9 DEF Recheck, Sees, Raise, Goto, Recorded, disk
  <1>10. CASE Replace(q)
    <2>1. Recorded(p)
      BY <1>1, <1>10, WritesRecorded DEF Replace
    <2> QED  BY <1>10, <2>1 DEF Replace, Goto
  <1>11. CASE RollbackTable(q)
    <2>1. Recorded(p)
      BY <1>1, <1>11, WritesRecorded DEF RollbackTable
    <2> QED  BY <1>11, <2>1 DEF RollbackTable
  <1>12. CASE RollbackFails(q)
    BY <1>12 DEF RollbackFails, Recorded, disk, history
  <1>13. CASE DropPendingBackup(q)
    BY <1>13 DEF DropPendingBackup, Goto, Recorded, disk, history
  <1>14. CASE CleanupBackup(q)
    BY <1>14 DEF CleanupBackup, Raise, Goto, Recorded, disk, history
  <1>15. CASE Unstage(q) \/ Crash(q)
    BY <1>15 DEF Unstage, Crash, Raise, Goto, Recorded, disk, history
  <1> QED
    BY <1>2, <1>3, <1>4, <1>5, <1>6, <1>7, <1>8, <1>9, <1>10, <1>11, <1>12,
       <1>13, <1>14, <1>15 DEF Step

LEMMA EditStep ==
    ASSUME TypeOK, NEW p \in Procs, NEW t \in Tables, Edit(t)
    PROVE  SameLocal(p) /\ Recorded(p)
  BY DEF TypeOK, Edit, SameLocal, Recorded, disk

-----------------------------------------------------------------------------
(* Steps of p itself, one lemma per action.                                *)

Knows(p) == Local(p) /\ LastSeen(p) /\ SincePlan(p)

LEMMA OwnStart ==
    ASSUME TypeOK, NEW p \in Procs, Knows(p), Start(p)
    PROVE  Knows(p)'
  <1> USE DEF TypeOK, Knows, Local
  <1>1. PlanSound(p)'
    BY DEF PlanSound, CollisionFree, Absent, Start, NoPlan, NoUpdate
  <1>2. Progress(p)'
    BY PickTable DEF Progress, Changed, CleanErrors, NoError, Active, Start, Goto, NoPlan, NoUpdate
  <1>3. BackupSound(p)'
    BY PickTable DEF BackupSound, Progress, Clean, CleanErrors, NoError, Start, Goto, NoPlan, NoUpdate
  <1>4. StagedSound(p)'
    BY DEF StagedSound, Progress, Clean, CleanErrors, NoError, Start, Goto, NoPlan, NoUpdate
  <1>5. LastSeen(p)'
    BY PickTable DEF LastSeen, Progress, Changed, Start, Goto, NoPlan, NoUpdate
  <1>6. SincePlan(p)'
    BY PickTable DEF SincePlan, Progress, BackupSound, Clean, CleanErrors, NoError, Start, Goto, NoPlan, NoUpdate
  <1> QED  BY <1>1, <1>2, <1>3, <1>4, <1>5, <1>6

LEMMA OwnPlanReadFails ==
    ASSUME TypeOK, NEW p \in Procs, Knows(p), PlanReadFails(p)
    PROVE  Knows(p)'
  <1> USE DEF TypeOK, Knows, Local
  <1>1. PlanSound(p)'
    BY DEF PlanSound, PlanReadFails, Fault, Rejected, Raise, Goto, disk, history
  <1>2. Progress(p)'
    BY PickTable DEF Progress, Changed, CleanErrors, NoError, Active, PlanReadFails, Fault, Rejected, Raise, Goto, disk, history
  <1>3. BackupSound(p)'
    BY PickTable DEF BackupSound, Progress, Clean, CleanErrors, NoError, PlanReadFails, Fault, Rejected, Raise, Goto, disk, history
  <1>4. StagedSound(p)'
    BY DEF StagedSound, Progress, Clean, CleanErrors, NoError, PlanReadFails, Fault, Rejected, Raise, Goto, disk, history
  <1>5. LastSeen(p)'
    BY PickTable DEF LastSeen, Progress, Changed, PlanReadFails, Fault, Rejected, Raise, Goto, disk, history
  <1>6. SincePlan(p)'
    BY PickTable DEF SincePlan, Progress, BackupSound, Clean, CleanErrors, NoError, PlanReadFails, Fault, Rejected, Raise, Goto, disk, history
  <1> QED  BY <1>1, <1>2, <1>3, <1>4, <1>5, <1>6

LEMMA OwnBeginApply ==
    ASSUME TypeOK, NEW p \in Procs, Knows(p), BeginApply(p)
    PROVE  Knows(p)'
  <1> USE DEF TypeOK, Knows, Local
  <1>1. PlanSound(p)'
    BY DEF PlanSound, BeginApply, Goto, disk, history
  <1>2. Progress(p)'
    BY PickTable DEF Progress, Changed, CleanErrors, NoError, Active, BeginApply, Goto, disk, history
  <1>3. BackupSound(p)'
    BY PickTable DEF BackupSound, Progress, Clean, CleanErrors, NoError, BeginApply, Goto, disk, history
  <1>4. StagedSound(p)'
    BY DEF StagedSound, Progress, Clean, CleanErrors, NoError, BeginApply, Goto, disk, history
  <1>5. LastSeen(p)'
    BY PickTable DEF LastSeen, Progress, Changed, BeginApply, Goto, disk, history
  <1>6. SincePlan(p)'
    BY PickTable DEF SincePlan, Progress, BackupSound, Clean, CleanErrors, NoError, BeginApply, Goto, disk, history
  <1> QED  BY <1>1, <1>2, <1>3, <1>4, <1>5, <1>6

LEMMA OwnStage ==
    ASSUME TypeOK, NEW p \in Procs, Knows(p), Stage(p)
    PROVE  Knows(p)'
  <1> USE DEF TypeOK, Knows, Local
  <1>1. PlanSound(p)'
    BY DEF PlanSound, Stage, Goto, disk, history
  <1>2. Progress(p)'
    <2>1. Changed(p)' = Changed(p) /\ todo'[p] = Changed(p)
      BY DEF Changed, Stage
    <2> QED  BY <2>1 DEF Progress, CleanErrors, NoError, Active, Stage, Goto, disk, history
  <1>3. BackupSound(p)'
    BY PickTable DEF BackupSound, Progress, Clean, CleanErrors, NoError, Stage, Goto, disk, history
  <1>4. StagedSound(p)'
    BY DEF StagedSound, Progress, Clean, CleanErrors, NoError, Stage, Goto, disk, history
  <1>5. LastSeen(p)'
    BY PickTable DEF LastSeen, Progress, Changed, Stage, Goto, disk, history
  <1>6. SincePlan(p)'
    BY PickTable DEF SincePlan, Progress, BackupSound, Clean, CleanErrors, NoError, Stage, Goto, disk, history
  <1> QED  BY <1>1, <1>2, <1>3, <1>4, <1>5, <1>6

LEMMA OwnStageFails ==
    ASSUME TypeOK, NEW p \in Procs, Knows(p), StageFails(p)
    PROVE  Knows(p)'
  <1> USE DEF TypeOK, Knows, Local
  <1>1. PlanSound(p)'
    BY DEF PlanSound, StageFails, Raise, Goto, disk, history
  <1>2. Progress(p)'
    BY PickTable DEF Progress, Changed, CleanErrors, NoError, Active, StageFails, Raise, Goto, disk, history
  <1>3. BackupSound(p)'
    BY PickTable DEF BackupSound, Progress, Clean, CleanErrors, NoError, StageFails, Raise, Goto, disk, history
  <1>4. StagedSound(p)'
    BY DEF StagedSound, Progress, Clean, CleanErrors, NoError, StageFails, Raise, Goto, disk, history
  <1>5. LastSeen(p)'
    BY PickTable DEF LastSeen, Progress, Changed, StageFails, Raise, Goto, disk, history
  <1>6. SincePlan(p)'
    BY PickTable DEF SincePlan, Progress, BackupSound, Clean, CleanErrors, NoError, StageFails, Raise, Goto, disk, history
  <1> QED  BY <1>1, <1>2, <1>3, <1>4, <1>5, <1>6

LEMMA OwnCheckTable ==
    ASSUME TypeOK, NEW p \in Procs, Knows(p), CheckTable(p)
    PROVE  Knows(p)'
  <1> USE DEF TypeOK, Knows, Local
  <1>1. PlanSound(p)'
    BY DEF PlanSound, CheckTable, Sees, Mismatch, Raise, Goto, disk
  <1>2. Progress(p)'
    BY PickTable DEF Progress, Changed, CleanErrors, NoError, Active, CheckTable, Sees, Mismatch, Raise, Goto, disk
  <1>3. BackupSound(p)'
    BY PickTable DEF BackupSound, Progress, Clean, CleanErrors, NoError, CheckTable, Sees, Mismatch, Raise, Goto, disk
  <1>4. StagedSound(p)'
    BY DEF StagedSound, Progress, Clean, CleanErrors, NoError, CheckTable, Sees, Mismatch, Raise, Goto, disk
  <1>5. LastSeen(p)'
    BY PickTable DEF LastSeen, Progress, Changed, CheckTable, Sees, Mismatch, Raise, Goto, disk
  <1>6. SincePlan(p)'
    BY PickTable DEF SincePlan, Progress, BackupSound, Clean, CleanErrors, NoError, CheckTable, Sees, Mismatch, Raise, Goto, disk
  <1> QED  BY <1>1, <1>2, <1>3, <1>4, <1>5, <1>6

LEMMA OwnCheckReadFails ==
    ASSUME TypeOK, NEW p \in Procs, Knows(p), CheckReadFails(p)
    PROVE  Knows(p)'
  <1> USE DEF TypeOK, Knows, Local
  <1>1. PlanSound(p)'
    BY DEF PlanSound, CheckReadFails, Raise, Goto, disk, history
  <1>2. Progress(p)'
    BY PickTable DEF Progress, Changed, CleanErrors, NoError, Active, CheckReadFails, Raise, Goto, disk, history
  <1>3. BackupSound(p)'
    BY PickTable DEF BackupSound, Progress, Clean, CleanErrors, NoError, CheckReadFails, Raise, Goto, disk, history
  <1>4. StagedSound(p)'
    BY DEF StagedSound, Progress, Clean, CleanErrors, NoError, CheckReadFails, Raise, Goto, disk, history
  <1>5. LastSeen(p)'
    BY PickTable DEF LastSeen, Progress, Changed, CheckReadFails, Raise, Goto, disk, history
  <1>6. SincePlan(p)'
    BY PickTable DEF SincePlan, Progress, BackupSound, Clean, CleanErrors, NoError, CheckReadFails, Raise, Goto, disk, history
  <1> QED  BY <1>1, <1>2, <1>3, <1>4, <1>5, <1>6

LEMMA OwnReadForCommit ==
    ASSUME TypeOK, NEW p \in Procs, Knows(p), ReadForCommit(p)
    PROVE  Knows(p)'
  <1> USE DEF TypeOK, Knows, Local
  <1>1. PlanSound(p)'
    BY DEF PlanSound, ReadForCommit, Sees, Mismatch, Raise, Goto
  <1>2. Progress(p)'
    BY PickTable DEF Progress, Changed, CleanErrors, NoError, Active, ReadForCommit, Sees, Mismatch, Raise, Goto
  <1>3. BackupSound(p)'
    <2> DEFINE t == FirstOf(todo[p])
    <2>1. t \in Tables /\ t \in todo[p] /\ t \notin installed[p]
      BY PickTable DEF ReadForCommit, Progress
    <2>2. CASE table[t] = plan[p][t].expected
      <3>1. backup'[p] = [backup[p] EXCEPT ![t] = plan[p][t].expected]
        BY <2>1, <2>2 DEF ReadForCommit
      <3>2. pc'[p] \in {"replace", "recheck"} /\ UNCHANGED <<plan, todo, installed>>
        BY <2>2 DEF ReadForCommit, Goto
      <3> QED  BY <2>1, <3>1, <3>2, PickTable DEF BackupSound, ReadForCommit
    <2>3. CASE table[t] # plan[p][t].expected
      <3>1. pc'[p] = "rollback" /\ UNCHANGED <<backup, plan, todo, installed>>
        BY <2>3 DEF ReadForCommit, Raise, Goto
      <3> QED  BY <3>1 DEF BackupSound, ReadForCommit
    <2> QED  BY <2>2, <2>3
  <1>4. StagedSound(p)'
    BY DEF StagedSound, Progress, Clean, CleanErrors, NoError, ReadForCommit, Sees, Mismatch, Raise, Goto
  <1>5. LastSeen(p)'
    <2> DEFINE t == FirstOf(todo[p])
    <2>1. t \in Tables /\ t \notin installed[p] /\ plan[p][t].action # "unchanged"
      BY PickTable DEF ReadForCommit, Progress, Changed
    <2>2. /\ stale'[p] = stale[p] \ {t} /\ UNCHANGED <<table, plan, todo, installed>>
          /\ pc'[p] = "replace" => table[t] = plan[p][t].expected
      BY DEF ReadForCommit, Sees, Raise, Goto
    <2> QED  BY <2>1, <2>2 DEF LastSeen, ReadForCommit
  <1>6. SincePlan(p)'
    BY PickTable DEF SincePlan, Progress, BackupSound, Clean, CleanErrors, NoError, ReadForCommit, Sees, Mismatch, Raise, Goto
  <1> QED  BY <1>1, <1>2, <1>3, <1>4, <1>5, <1>6

LEMMA OwnReadForCommitFails ==
    ASSUME TypeOK, NEW p \in Procs, Knows(p), ReadForCommitFails(p)
    PROVE  Knows(p)'
  <1> USE DEF TypeOK, Knows, Local
  <1>1. PlanSound(p)'
    BY DEF PlanSound, ReadForCommitFails, Raise, Goto, disk, history
  <1>2. Progress(p)'
    BY PickTable DEF Progress, Changed, CleanErrors, NoError, Active, ReadForCommitFails, Raise, Goto, disk, history
  <1>3. BackupSound(p)'
    BY PickTable DEF BackupSound, Progress, Clean, CleanErrors, NoError, ReadForCommitFails, Raise, Goto, disk, history
  <1>4. StagedSound(p)'
    BY DEF StagedSound, Progress, Clean, CleanErrors, NoError, ReadForCommitFails, Raise, Goto, disk, history
  <1>5. LastSeen(p)'
    BY PickTable DEF LastSeen, Progress, Changed, ReadForCommitFails, Raise, Goto, disk, history
  <1>6. SincePlan(p)'
    BY PickTable DEF SincePlan, Progress, BackupSound, Clean, CleanErrors, NoError, ReadForCommitFails, Raise, Goto, disk, history
  <1> QED  BY <1>1, <1>2, <1>3, <1>4, <1>5, <1>6

LEMMA OwnRecheck ==
    ASSUME TypeOK, NEW p \in Procs, Knows(p), Recheck(p)
    PROVE  Knows(p)'
  <1> USE DEF TypeOK, Knows, Local
  <1>1. PlanSound(p)'
    BY DEF PlanSound, Recheck, Sees, Mismatch, Raise, Goto, disk
  <1>2. Progress(p)'
    BY PickTable DEF Progress, Changed, CleanErrors, NoError, Active, Recheck, Sees, Mismatch, Raise, Goto, disk
  <1>3. BackupSound(p)'
    BY PickTable DEF BackupSound, Progress, Clean, CleanErrors, NoError, Recheck, Sees, Mismatch, Raise, Goto, disk
  <1>4. StagedSound(p)'
    BY DEF StagedSound, Progress, Clean, CleanErrors, NoError, Recheck, Sees, Mismatch, Raise, Goto, disk
  <1>5. LastSeen(p)'
    <2> DEFINE t == FirstOf(todo[p])
    <2>1. t \in Tables /\ t \notin installed[p] /\ plan[p][t].action # "unchanged"
      BY PickTable DEF Recheck, Progress, Changed
    <2>2. /\ stale'[p] = stale[p] \ {t} /\ UNCHANGED <<table, plan, todo, installed>>
          /\ pc'[p] = "replace" => table[t] = plan[p][t].expected
      BY DEF Recheck, Sees, Raise, Goto
    <2> QED  BY <2>1, <2>2 DEF LastSeen, Recheck
  <1>6. SincePlan(p)'
    BY PickTable DEF SincePlan, Progress, BackupSound, Clean, CleanErrors, NoError, Recheck, Sees, Mismatch, Raise, Goto, disk
  <1> QED  BY <1>1, <1>2, <1>3, <1>4, <1>5, <1>6

LEMMA OwnReplace ==
    ASSUME TypeOK, NEW p \in Procs, Knows(p), Replace(p)
    PROVE  Knows(p)'
  <1> USE DEF TypeOK, Knows, Local
  <1>1. PlanSound(p)'
    BY DEF PlanSound, Replace, Writes, Goto
  <1>2. Progress(p)'
    <2> DEFINE t == FirstOf(todo[p])
    <2>1. t \in todo[p] /\ todo[p] \subseteq Changed(p) /\ error[p] = NoError
      BY PickTable DEF Replace, Progress
    <2>2. /\ Changed(p)' = Changed(p) /\ UNCHANGED <<plan, error>>
          /\ installed'[p] = installed[p] \cup {t} /\ todo'[p] = todo[p] \ {t}
      BY DEF Changed, Replace
    <2>3. \/ pc'[p] = "cleanup" /\ todo[p] = {t}
          \/ pc'[p] = "commit" /\ todo[p] # {t}
      BY DEF Replace, Goto
    <2> QED  BY <2>1, <2>2, <2>3 DEF Progress, Replace, Active
  <1>3. BackupSound(p)'
    BY PickTable DEF BackupSound, Progress, Clean, CleanErrors, NoError, Replace, Writes, Goto
  <1>4. StagedSound(p)'
    BY DEF StagedSound, Progress, Clean, CleanErrors, NoError, Replace, Writes, Goto
  <1>5. LastSeen(p)'
    BY PickTable DEF LastSeen, Progress, Changed, Replace, Writes, Goto
  <1>6. SincePlan(p)'
    BY PickTable DEF SincePlan, Progress, BackupSound, Clean, CleanErrors, NoError, Replace, Writes, Goto
  <1> QED  BY <1>1, <1>2, <1>3, <1>4, <1>5, <1>6

LEMMA OwnCommitFails ==
    ASSUME TypeOK, NEW p \in Procs, Knows(p), CommitFails(p)
    PROVE  Knows(p)'
  <1> USE DEF TypeOK, Knows, Local
  <1>1. PlanSound(p)'
    BY DEF PlanSound, CommitFails, Raise, Goto, disk, history
  <1>2. Progress(p)'
    BY PickTable DEF Progress, Changed, CleanErrors, NoError, Active, CommitFails, Raise, Goto, disk, history
  <1>3. BackupSound(p)'
    BY PickTable DEF BackupSound, Progress, Clean, CleanErrors, NoError, CommitFails, Raise, Goto, disk, history
  <1>4. StagedSound(p)'
    BY DEF StagedSound, Progress, Clean, CleanErrors, NoError, CommitFails, Raise, Goto, disk, history
  <1>5. LastSeen(p)'
    BY PickTable DEF LastSeen, Progress, Changed, CommitFails, Raise, Goto, disk, history
  <1>6. SincePlan(p)'
    BY PickTable DEF SincePlan, Progress, BackupSound, Clean, CleanErrors, NoError, CommitFails, Raise, Goto, disk, history
  <1> QED  BY <1>1, <1>2, <1>3, <1>4, <1>5, <1>6

LEMMA OwnRollbackTable ==
    ASSUME TypeOK, NEW p \in Procs, Knows(p), RollbackTable(p)
    PROVE  Knows(p)'
  <1> USE DEF TypeOK, Knows, Local
  <1>1. PlanSound(p)'
    BY DEF PlanSound, RollbackTable, Writes
  <1>2. Progress(p)'
    BY PickTable DEF Progress, Changed, CleanErrors, NoError, Active, RollbackTable, Writes
  <1>3. BackupSound(p)'
    BY PickTable DEF BackupSound, Progress, Clean, CleanErrors, NoError, RollbackTable, Writes
  <1>4. StagedSound(p)'
    BY DEF StagedSound, Progress, Clean, CleanErrors, NoError, RollbackTable, Writes
  <1>5. LastSeen(p)'
    BY PickTable DEF LastSeen, Progress, Changed, RollbackTable, Writes
  <1>6. SincePlan(p)'
    <2> DEFINE t == LastOf(installed[p])
    <2>1. t \in installed[p] /\ backup[p][t] = plan[p][t].expected
      BY PickTable DEF RollbackTable, BackupSound
    <2>2. table' = [table EXCEPT ![t] = plan[p][t].expected]
      BY <2>1 DEF RollbackTable, Writes
    <2>3. /\ installed'[p] = installed[p] \ {t} /\ touched'[p] = touched[p]
          /\ UNCHANGED <<plan, error>>
      BY DEF RollbackTable, Writes
    <2> QED  BY <2>1, <2>2, <2>3 DEF SincePlan, Clean
  <1> QED  BY <1>1, <1>2, <1>3, <1>4, <1>5, <1>6

LEMMA OwnRollbackFails ==
    ASSUME TypeOK, NEW p \in Procs, Knows(p), RollbackFails(p)
    PROVE  Knows(p)'
  <1> USE DEF TypeOK, Knows, Local
  <1>1. PlanSound(p)'
    BY DEF PlanSound, RollbackFails, disk, history
  <1>2. Progress(p)'
    BY PickTable DEF Progress, Changed, CleanErrors, NoError, Active, RollbackFails, disk, history
  <1>3. BackupSound(p)'
    BY PickTable DEF BackupSound, Progress, Clean, CleanErrors, NoError, RollbackFails, disk, history
  <1>4. StagedSound(p)'
    BY DEF StagedSound, Progress, Clean, CleanErrors, NoError, RollbackFails, disk, history
  <1>5. LastSeen(p)'
    BY PickTable DEF LastSeen, Progress, Changed, RollbackFails, disk, history
  <1>6. SincePlan(p)'
    BY PickTable DEF SincePlan, Progress, BackupSound, Clean, CleanErrors, NoError, RollbackFails, disk, history
  <1> QED  BY <1>1, <1>2, <1>3, <1>4, <1>5, <1>6

LEMMA OwnDropPendingBackup ==
    ASSUME TypeOK, NEW p \in Procs, Knows(p), DropPendingBackup(p)
    PROVE  Knows(p)'
  <1> USE DEF TypeOK, Knows, Local
  <1>1. PlanSound(p)'
    BY DEF PlanSound, DropPendingBackup, Goto, disk, history
  <1>2. Progress(p)'
    <2>1. /\ pc[p] = "rollback" /\ pc'[p] = "unstage" /\ installed[p] = {}
          /\ UNCHANGED <<todo, plan, installed>>
          /\ error'[p] \in {error[p], "ROLLBACK_FAILED"}
      BY DEF DropPendingBackup, Goto
    <2>2. Changed(p)' = Changed(p)
      BY <2>1 DEF Changed
    <2>3. error[p] # NoError
      BY DEF DropPendingBackup, Progress
    <2> QED  BY <2>1, <2>2, <2>3 DEF Progress, NoError, CleanErrors, Active
  <1>3. BackupSound(p)'
    <2> DEFINE t == FirstOf(todo[p])
    <2>1. pc[p] = "rollback" /\ pc'[p] = "unstage" /\ installed[p] = {} /\ t \in Tables
      BY DEF DropPendingBackup, Goto, FirstOf, Tables
    <2>2. CASE backup' = [backup EXCEPT ![p][t] = Absent] /\ UNCHANGED error
      <3>1. Clean(p) => \A u \in Tables : backup'[p][u] = Absent
        BY <2>1, <2>2 DEF BackupSound
      <3> QED  BY <2>1, <2>2, <3>1 DEF BackupSound, Clean
    <2>3. CASE error' = [error EXCEPT ![p] = "ROLLBACK_FAILED"]
      BY <2>1, <2>3 DEF BackupSound, Clean, CleanErrors, NoError
    <2> QED  BY <2>2, <2>3 DEF DropPendingBackup
  <1>4. StagedSound(p)'
    BY DEF StagedSound, Progress, Clean, CleanErrors, NoError, DropPendingBackup, Goto, disk, history
  <1>5. LastSeen(p)'
    BY PickTable DEF LastSeen, Progress, Changed, DropPendingBackup, Goto, disk, history
  <1>6. SincePlan(p)'
    BY PickTable DEF SincePlan, Progress, BackupSound, Clean, CleanErrors, NoError, DropPendingBackup, Goto, disk, history
  <1> QED  BY <1>1, <1>2, <1>3, <1>4, <1>5, <1>6

LEMMA OwnCleanupBackup ==
    ASSUME TypeOK, NEW p \in Procs, Knows(p), CleanupBackup(p)
    PROVE  Knows(p)'
  <1> USE DEF TypeOK, Knows, Local
  <1>1. PlanSound(p)'
    BY DEF PlanSound, CleanupBackup, Raise, Goto, disk, history
  <1>2. Progress(p)'
    BY PickTable DEF Progress, Changed, CleanErrors, NoError, Active, CleanupBackup, Raise, Goto, disk, history
  <1>3. BackupSound(p)'
    <2> DEFINE left == {t \in installed[p] : backup[p][t] # Absent}
    <2>1. pc[p] = "cleanup" /\ UNCHANGED <<installed, plan, todo>>
      BY DEF CleanupBackup
    <2>2. CASE left = {} /\ Goto(p, "unstage") /\ UNCHANGED <<backup, error>>
      BY <2>1, <2>2 DEF BackupSound, Goto
    <2>3. CASE left # {} /\ backup' = [backup EXCEPT ![p][FirstOf(left)] = Absent]
                         /\ UNCHANGED pc
      BY <2>1, <2>3, PickTable DEF BackupSound
    <2>4. CASE Raise(p, "CLEANUP_FAILED", "unstage")
      BY <2>1, <2>4 DEF BackupSound, Raise, Goto, Clean, CleanErrors, NoError
    <2> QED  BY <2>2, <2>3, <2>4 DEF CleanupBackup
  <1>4. StagedSound(p)'
    BY DEF StagedSound, Progress, Clean, CleanErrors, NoError, CleanupBackup, Raise, Goto, disk, history
  <1>5. LastSeen(p)'
    BY PickTable DEF LastSeen, Progress, Changed, CleanupBackup, Raise, Goto, disk, history
  <1>6. SincePlan(p)'
    BY PickTable DEF SincePlan, Progress, BackupSound, Clean, CleanErrors, NoError, CleanupBackup, Raise, Goto, disk, history
  <1> QED  BY <1>1, <1>2, <1>3, <1>4, <1>5, <1>6

LEMMA OwnUnstage ==
    ASSUME TypeOK, NEW p \in Procs, Knows(p), Unstage(p)
    PROVE  Knows(p)'
  <1> USE DEF TypeOK, Knows, Local
  <1>1. PlanSound(p)'
    BY DEF PlanSound, Unstage, Raise, Goto, disk, history
  <1>2. Progress(p)'
    BY PickTable DEF Progress, Changed, CleanErrors, NoError, Active, Unstage, Raise, Goto, disk, history
  <1>3. BackupSound(p)'
    BY PickTable DEF BackupSound, Progress, Clean, CleanErrors, NoError, Unstage, Raise, Goto, disk, history
  <1>4. StagedSound(p)'
    BY DEF StagedSound, Progress, Clean, CleanErrors, NoError, Unstage, Raise, Goto, disk, history
  <1>5. LastSeen(p)'
    BY PickTable DEF LastSeen, Progress, Changed, Unstage, Raise, Goto, disk, history
  <1>6. SincePlan(p)'
    BY PickTable DEF SincePlan, Progress, BackupSound, Clean, CleanErrors, NoError, Unstage, Raise, Goto, disk, history
  <1> QED  BY <1>1, <1>2, <1>3, <1>4, <1>5, <1>6

LEMMA OwnCrash ==
    ASSUME TypeOK, NEW p \in Procs, Knows(p), Crash(p)
    PROVE  Knows(p)'
  <1> USE DEF TypeOK, Knows, Local
  <1>1. PlanSound(p)'
    BY DEF PlanSound, Crash, Goto, disk, history
  <1>2. Progress(p)'
    BY PickTable DEF Progress, Changed, CleanErrors, NoError, Active, Crash, Goto, disk, history
  <1>3. BackupSound(p)'
    BY PickTable DEF BackupSound, Progress, Clean, CleanErrors, NoError, Crash, Goto, disk, history
  <1>4. StagedSound(p)'
    BY DEF StagedSound, Progress, Clean, CleanErrors, NoError, Crash, Goto, disk, history
  <1>5. LastSeen(p)'
    BY PickTable DEF LastSeen, Progress, Changed, Crash, Goto, disk, history
  <1>6. SincePlan(p)'
    BY PickTable DEF SincePlan, Progress, BackupSound, Clean, CleanErrors, NoError, Crash, Goto, disk, history
  <1> QED  BY <1>1, <1>2, <1>3, <1>4, <1>5, <1>6

\* What makes an update sound for the content it was planned from.
SoundUpdate(p, u) ==
    /\ u.action # "none" /\ Request[p] \in u.content.entries
    /\ CollisionFree(u.expected.entries) /\ CollisionFree(u.content.entries)
    /\ u.expected.entries \subseteq u.content.entries
    /\ u.content.entries \subseteq u.expected.entries \cup {Request[p]}
    /\ u.action = "unchanged" => u.content = u.expected

LEMMA OwnPlanned ==
    ASSUME TypeOK, NEW p \in Procs, Knows(p), pc[p] = "plan", todo[p] # {},
           NEW u \in Update, SoundUpdate(p, u),
           u.expected = table[FirstOf(todo[p])],
           Planned(p, FirstOf(todo[p]), u),
           UNCHANGED <<table, disk, installed, runs, edits, faults>>
    PROVE  Knows(p)'
  <1> DEFINE t == FirstOf(todo[p])
  <1> USE DEF TypeOK, Knows, Local
  <1>1. t \in Tables /\ installed[p] = {}
    BY PickTable DEF Progress
  <1>2. /\ plan'[p] = [plan[p] EXCEPT ![t] = u] /\ todo'[p] = todo[p] \ {t}
        /\ touched'[p] = touched[p] \ {t} /\ stale'[p] = stale[p] \ {t}
        /\ pc'[p] = pc[p] /\ error'[p] = error[p]
    BY DEF Planned, Sees
  <1>3. PlanSound(p)'
    BY <1>1, <1>2 DEF PlanSound, SoundUpdate
  <1>4. Progress(p)'
    BY <1>1, <1>2 DEF Progress, Changed, SoundUpdate
  <1>5. BackupSound(p)'
    BY <1>1, <1>2 DEF BackupSound, Clean, disk
  <1>6. StagedSound(p)'
    BY <1>2 DEF StagedSound, Clean, disk
  <1>7. LastSeen(p)'
    BY <1>1, <1>2 DEF LastSeen, SoundUpdate
  <1>8. SincePlan(p)'
    BY <1>1, <1>2 DEF SincePlan, Clean
  <1> QED  BY <1>3, <1>4, <1>5, <1>6, <1>7, <1>8

LEMMA OwnRejected ==
    ASSUME TypeOK, NEW p \in Procs, Knows(p), pc[p] = "plan",
           NEW code \in CleanErrors, Rejected(p, code),
           UNCHANGED <<table, disk, installed>>
    PROVE  Knows(p)'
  <1> USE DEF TypeOK, Knows, Local
  <1>1. /\ pc'[p] = "done" /\ error'[p] = code /\ code # NoError
        /\ UNCHANGED <<todo, plan, touched, stale>>
    BY DEF Rejected, Raise, Goto, disk, history, CleanErrors, NoError
  <1>2. Changed(p)' = Changed(p)
    BY <1>1 DEF Changed
  <1>3. PlanSound(p)' /\ StagedSound(p)' /\ LastSeen(p)'
    <2>1. error[p] = NoError /\ staged[p] = {} /\ ~litter[p]
      BY DEF Progress, StagedSound, Clean, NoError
    <2>2. StagedSound(p)'
      BY <1>1, <2>1 DEF StagedSound, disk
    <2> QED  BY <1>1, <2>2 DEF PlanSound, LastSeen
  <1>4. Progress(p)'
    BY <1>1, <1>2 DEF Progress, Active
  <1>5. BackupSound(p)'
    BY <1>1 DEF BackupSound, disk
  <1>6. SincePlan(p)'
    BY <1>1 DEF SincePlan, Progress, Clean
  <1> QED  BY <1>3, <1>4, <1>5, <1>6

\* Adding an entry that shares no name and no URI keeps a table free of
\* collisions.
LEMMA AddEntry ==
    ASSUME NEW S \in SUBSET Entry, NEW e \in Entry, CollisionFree(S),
           SameName(S, e) = {}, SameUri(S, e) = {}, e \notin S
    PROVE  CollisionFree(S \cup {e})
  <1>1. \A x \in S : x.name # e.name /\ x.uri # e.uri
    <2>1. \A x \in S : x.name = e.name /\ x.uri = e.uri => x = e
      BY DEF Entry
    <2> QED  BY <2>1 DEF SameName, SameUri
  <1> QED  BY <1>1 DEF CollisionFree

LEMMA OwnPlanTable ==
    ASSUME TypeOK, NEW p \in Procs, Knows(p), PlanTable(p)
    PROVE  Knows(p)'
  <1> DEFINE t == FirstOf(todo[p])
             now == table[t]
             req == Request[p]
  <1>1. /\ pc[p] = "plan" /\ todo[p] # {}
        /\ UNCHANGED <<table, disk, installed, runs, edits, faults>>
    BY DEF PlanTable
  <1>2. t \in Tables /\ now \in Content /\ req \in Entry
    BY <1>1, PickTable, RegistrationAssumption DEF TypeOK
  <1>3. now.entries \in SUBSET Entry
    BY <1>2, KnownContents
  <1>4. CASE now.kind = "absent"
    <2> DEFINE u == [action |-> "create", expected |-> Absent,
                     content |-> TableOf({req})]
    <2>1. u \in Update
      BY <1>2, KnownContents DEF Update
    <2>2. SoundUpdate(p, u)
      BY DEF SoundUpdate, CollisionFree, Absent, TableOf
    <2>3. u.expected = now /\ Planned(p, t, u)
      BY <1>2, <1>4, KnownContents DEF PlanTable, IsTable
    <2> QED  BY <1>1, <2>1, <2>2, <2>3, OwnPlanned
  <1>5. CASE now.kind = "unsafe"
    <2>1. Rejected(p, "INVALID") /\ "INVALID" \in CleanErrors
      BY <1>5 DEF PlanTable, IsTable, CleanErrors
    <2> QED  BY <1>1, <2>1, OwnRejected
  <1>6. CASE IsTable(now)
    <2> DEFINE same == [action |-> "unchanged", expected |-> now, content |-> now]
               more == [action |-> "update", expected |-> now,
                        content |-> TableOf(now.entries \cup {req})]
    <2>1. now \in Known /\ same \in Update /\ more \in Update
      BY <1>2, <1>3, <1>6, KnownContents DEF Update
    <2>2. \/ \E code \in CleanErrors : Rejected(p, code)
          \/ /\ CollisionFree(now.entries) /\ req \in now.entries
             /\ Planned(p, t, same)
          \/ /\ CollisionFree(now.entries) /\ req \notin now.entries
             /\ SameName(now.entries, req) = {} /\ SameUri(now.entries, req) = {}
             /\ Planned(p, t, more)
      BY <1>6 DEF PlanTable, IsTable, CleanErrors
    <2>3. CASE \E code \in CleanErrors : Rejected(p, code)
      BY <1>1, <2>3, OwnRejected
    <2>4. CASE /\ CollisionFree(now.entries) /\ req \in now.entries
               /\ Planned(p, t, same)
      <3>1. SoundUpdate(p, same)
        BY <2>4 DEF SoundUpdate
      <3> QED  BY <1>1, <2>1, <2>4, <3>1, OwnPlanned
    <2>5. CASE /\ CollisionFree(now.entries) /\ req \notin now.entries
               /\ SameName(now.entries, req) = {} /\ SameUri(now.entries, req) = {}
               /\ Planned(p, t, more)
      <3>1. SoundUpdate(p, more)
        BY <1>2, <1>3, <2>5, AddEntry DEF SoundUpdate, TableOf
      <3> QED  BY <1>1, <2>1, <2>5, <3>1, OwnPlanned
    <2> QED  BY <2>2, <2>3, <2>4, <2>5
  <1> QED  BY <1>2, <1>4, <1>5, <1>6, KnownContents DEF IsTable

-----------------------------------------------------------------------------
(* The invariant holds.                                                    *)

LEMMA IInvInit == Init => IInv
  <1> SUFFICES ASSUME Init PROVE IInv
    OBVIOUS
  <1>1. TypeOK
    BY InitTyped
  <1>2. ASSUME NEW p \in Procs PROVE Local(p) /\ LastSeen(p) /\ SincePlan(p)
    <2>1. PlanSound(p)
      BY DEF Init, NoPlan, NoUpdate, PlanSound, CollisionFree, Absent
    <2>2. Progress(p) /\ StagedSound(p) /\ BackupSound(p)
      BY DEF Init, Progress, StagedSound, BackupSound, Active
    <2>3. LastSeen(p) /\ SincePlan(p)
      BY DEF Init, NoPlan, NoUpdate, LastSeen, SincePlan
    <2> QED  BY <2>1, <2>2, <2>3 DEF Local
  <1> QED  BY <1>1, <1>2 DEF IInv

LEMMA IInvStep == IInv /\ [Next]_vars => IInv'
  <1> SUFFICES ASSUME IInv, [Next]_vars PROVE IInv'
    OBVIOUS
  <1>1. TypeOK /\ TypeOK'
    BY StepTyped DEF IInv
  <1>2. ASSUME NEW p \in Procs PROVE Knows(p)'
    <2>1. Knows(p)
      BY DEF IInv, Knows
    <2>2. CASE Step(p)
      <3>1. Knows(p)'
        BY <1>1, <2>1, <2>2, OwnStart, OwnPlanTable, OwnPlanReadFails, OwnBeginApply,
           OwnStage, OwnStageFails, OwnCheckTable, OwnCheckReadFails,
           OwnReadForCommit, OwnReadForCommitFails, OwnRecheck,
           OwnReplace, OwnCommitFails, OwnRollbackTable, OwnRollbackFails,
           OwnDropPendingBackup, OwnCleanupBackup, OwnUnstage, OwnCrash
           DEF Step
      <3> QED  BY <3>1
    <2>3. ASSUME NEW q \in Procs, q # p, Step(q) PROVE Knows(p)'
      BY <1>1, <2>1, <2>3, OthersStep, SameLocalKeeps DEF Knows
    <2>4. ASSUME NEW t \in Tables, Edit(t) PROVE Knows(p)'
      BY <1>1, <2>1, <2>4, EditStep, SameLocalKeeps DEF Knows
    <2>5. CASE UNCHANGED vars
      <3>1. SameLocal(p) /\ Recorded(p)
        BY <2>5 DEF vars, SameLocal, Recorded
      <3> QED  BY <2>1, <3>1, SameLocalKeeps DEF Knows
    <2> QED  BY <2>2, <2>3, <2>4, <2>5 DEF Next
  <1> QED  BY <1>1, <1>2 DEF IInv, Knows

LEMMA Invariance == Spec => []IInv
  BY IInvInit, IInvStep, PTL DEF Spec

-----------------------------------------------------------------------------
(* The properties.                                                         *)

\* A step that installs or uninstalls a table writes no other file.
LEMMA InstalledChanges ==
    ASSUME TypeOK, NEW p \in Procs, [Next]_vars, installed'[p] # installed[p]
    PROVE  UNCHANGED table \/ Replace(p) \/ RollbackTable(p)
  <1>1. ASSUME NEW q \in Procs, q # p, Step(q) PROVE FALSE
    BY <1>1, OthersStep DEF SameLocal
  <1>2. ASSUME NEW t \in Tables, Edit(t) PROVE FALSE
    BY <1>2, EditStep DEF SameLocal
  <1>3. CASE UNCHANGED vars
    BY <1>3 DEF vars
  <1>4. CASE Step(p)
    BY <1>4 DEF Step, Start, PlanTable, PlanReadFails, BeginApply, Stage,
       StageFails, CheckTable, CheckReadFails, ReadForCommit,
       ReadForCommitFails, Recheck, CommitFails, RollbackFails,
       DropPendingBackup, CleanupBackup, Unstage, Crash
  <1> QED  BY <1>1, <1>2, <1>3, <1>4 DEF Next

\* An entry that is not the registration's own is lost only from a table that
\* somebody wrote after the registration's last look at it.
THEOREM LossOnlyByRace == Spec => OnlyRacedEntriesLost
  <1>1. ASSUME IInv, [Next]_vars, NEW p \in Procs, NEW t \in Tables,
               installed'[p] # installed[p], Lost(t) \ {Request[p]} # {}
        PROVE  t \in stale[p]
    <2> USE <1>1 DEF IInv, Local
    <2>1. SUFFICES ASSUME t \notin stale[p] PROVE Lost(t) \subseteq {Request[p]}
      OBVIOUS
    <2>2. CASE UNCHANGED table
      BY <2>2 DEF Lost
    <2>3. CASE Replace(p)
      <3> DEFINE u == FirstOf(todo[p])
      <3>1. u \in Tables /\ table' = [table EXCEPT ![u] = plan[p][u].content]
        BY <2>3 DEF Replace, Writes, FirstOf, Tables
      <3>2. t = u => table[t] = plan[p][t].expected
        BY <2>1, <2>3 DEF LastSeen, Replace
      <3> QED  BY <3>1, <3>2 DEF Lost, PlanSound, TypeOK
    <2>4. CASE RollbackTable(p)
      <3> DEFINE u == LastOf(installed[p])
      <3>1. u \in Tables /\ u \in installed[p]
        BY <2>4, PickTable DEF RollbackTable, TypeOK
      <3>2. table' = [table EXCEPT ![u] = plan[p][u].expected]
        BY <2>4, <3>1 DEF RollbackTable, Writes, BackupSound
      <3>3. t = u => table[t] = plan[p][t].content
        BY <2>1, <3>1 DEF LastSeen
      <3> QED  BY <3>1, <3>2, <3>3 DEF Lost, PlanSound, TypeOK
    <2> QED  BY <2>2, <2>3, <2>4, InstalledChanges
  <1>2. IInv /\ [Next]_vars =>
          [\A p \in Procs, t \in Tables :
              installed'[p] # installed[p] /\ Lost(t) \ {Request[p]} # {}
                 => t \in stale[p]]_vars
    BY <1>1
  <1> QED  BY <1>2, Invariance, PTL DEF Spec, OnlyRacedEntriesLost

\* A run that reports success has registered its library in both tables, up to
\* tables written by others after its last look.
THEOREM SuccessRegisters == Spec => []RegisteredInBoth
  <1>1. IInv => RegisteredInBoth
    <2> SUFFICES ASSUME IInv, NEW p \in Procs, pc[p] = "done",
                        error[p] = NoError, NEW t \in Tables \ stale[p]
                 PROVE  Request[p] \in table[t].entries
      BY DEF RegisteredInBoth
    <2> USE DEF IInv, Local
    <2>1. plan[p][t] \in Update /\ plan[p][t].action # "none"
      BY DEF TypeOK, Progress
    <2>2. CASE plan[p][t].action = "unchanged"
      BY <2>2 DEF LastSeen
    <2>3. CASE t \in Changed(p)
      BY <2>1, <2>3 DEF Progress, LastSeen, PlanSound
    <2> QED  BY <2>1, <2>2, <2>3 DEF Update, Changed
  <1> QED  BY <1>1, Invariance, PTL

\* A run that reports that nothing was changed, or that its update was rolled
\* back, has left every table it planned as it found it, up to tables that
\* others wrote meanwhile.
THEOREM FailureRestores == Spec => []FailureRestoresTables
  <1>1. IInv => FailureRestoresTables
    BY DEF IInv, Local, FailureRestoresTables, Progress, SincePlan, Clean
  <1> QED  BY <1>1, Invariance, PTL

\* However many operations fail, a run that does not report leftovers leaves no
\* staged file and no backup, except a temporary that could be neither written nor
\* removed, and then it has reported a failed write.
THEOREM NothingLeftBehind == Spec => []NoFilesLeftBehind
  <1>1. IInv => NoFilesLeftBehind
    BY DEF IInv, Local, NoFilesLeftBehind, BackupSound, StagedSound, Clean
  <1> QED  BY <1>1, Invariance, PTL

\* No registration ever writes a table with a nickname or URI collision.
THEOREM NoCollision == Spec => NoCollisionWritten
  <1>1. ASSUME IInv, [Next]_vars, edits' = edits, NEW t \in Tables,
               table'[t] # table[t]
        PROVE  CollisionFree(table'[t].entries)
    <2> USE <1>1 DEF IInv, Local
    <2>1. ASSUME NEW u \in Tables, Edit(u) PROVE FALSE
      BY <2>1 DEF Edit, TypeOK
    <2>2. CASE UNCHANGED vars
      BY <2>2 DEF vars
    <2>3. ASSUME NEW p \in Procs, Step(p)
          PROVE  Replace(p) \/ RollbackTable(p)
      BY <2>3 DEF Step, Start, PlanTable, PlanReadFails, BeginApply, Stage,
         StageFails, CheckTable, CheckReadFails, ReadForCommit,
         ReadForCommitFails, Recheck, CommitFails, RollbackFails,
         DropPendingBackup, CleanupBackup, Unstage, Crash, disk
    <2>4. ASSUME NEW p \in Procs, Replace(p) PROVE CollisionFree(table'[t].entries)
      <3> DEFINE u == FirstOf(todo[p])
      <3>1. u \in Tables /\ table' = [table EXCEPT ![u] = plan[p][u].content]
        BY <2>4 DEF Replace, Writes, FirstOf, Tables
      <3> QED  BY <3>1 DEF PlanSound, TypeOK
    <2>5. ASSUME NEW p \in Procs, RollbackTable(p)
          PROVE  CollisionFree(table'[t].entries)
      <3> DEFINE u == LastOf(installed[p])
      <3>1. u \in Tables /\ u \in installed[p]
        BY <2>5, PickTable DEF RollbackTable, TypeOK
      <3>2. table' = [table EXCEPT ![u] = plan[p][u].expected]
        BY <2>5, <3>1 DEF RollbackTable, Writes, BackupSound
      <3> QED  BY <3>1, <3>2 DEF PlanSound, TypeOK
    <2> QED  BY <2>1, <2>2, <2>3, <2>4, <2>5 DEF Next
  <1>2. IInv /\ [Next]_vars =>
          [edits' = edits =>
              \A t \in Tables : table'[t] # table[t]
                                  => CollisionFree(table'[t].entries)]_vars
    BY <1>1
  <1> QED  BY <1>2, Invariance, PTL DEF Spec, NoCollisionWritten
=============================================================================

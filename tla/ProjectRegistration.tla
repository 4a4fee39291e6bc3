------------------------ MODULE ProjectRegistration ------------------------
(***************************************************************************)
(* Project-local library registration (project_registration.py).           *)
(*                                                                         *)
(* A registering process plans two updates by reading sym-lib-table and    *)
(* fp-lib-table, stages one temporary sibling per changed table, compares  *)
(* both tables with the planned content hash, and then replaces them one   *)
(* after the other, keeping a backup of each, rolling back on an error.    *)
(* Nothing is locked: other registrations and KiCad itself write the same  *)
(* two files between any two of these steps, every file operation may      *)
(* fail, and the process may be killed.                                    *)
(*                                                                         *)
(* A table is the set of its library entries; a content hash is the        *)
(* content, so two equal contents have one hash, as in the code.           *)
(***************************************************************************)
EXTENDS Naturals, FiniteSets

CONSTANTS
    Procs,      \* processes that register a library
    Names,      \* normalized nicknames
    Uris,       \* normalized URIs
    Request,    \* [Procs -> Entry]: the entry each process registers
    InitTables, \* contents the two tables may have at the start
    MaxRuns,    \* bound: [Procs -> Nat], registrations attempted per process
    MaxEdits,   \* bound: writes by an external editor
    MaxFaults   \* bound: failed file operations and killed processes

VARIABLES
    table,      \* table[t]: content of the file
    pc,         \* pc[p]: where the process is
    todo,       \* todo[p]: tables the current loop has not handled
    plan,       \* plan[p][t]: LibraryTableUpdate
    staged,     \* staged[p]: tables with a staged temporary file on disk
    installed,  \* installed[p]: tables replaced and not rolled back
    backup,     \* backup[p][t]: content of the .bak file, Absent if none
    litter,     \* litter[p]: a temporary file is left that could be neither
                \* filled nor removed, and that nothing keeps the name of
    error,      \* error[p]: error code of this run, NoError if none
    runs, edits, faults,
    touched,    \* history: tables others wrote since p planned them
    stale       \* history: tables others wrote since p last read or wrote them

disk == <<staged, backup, litter>>
history == <<touched, stale>>
vars == <<table, pc, todo, plan, staged, installed, backup, litter, error,
          runs, edits, faults, touched, stale>>

Tables == {"sym", "fp"}
FirstOf(S) == IF "sym" \in S THEN "sym" ELSE "fp"
LastOf(S) == IF "fp" \in S THEN "fp" ELSE "sym"

Entry == [name: Names, uri: Uris]
Absent == [kind |-> "absent", entries |-> {}]
Unsafe == [kind |-> "unsafe", entries |-> {}]   \* a link or a directory
TableOf(S) == [kind |-> "table", entries |-> S]
\* What a process can have read, written or backed up.
Known == {Absent} \cup {TableOf(S) : S \in SUBSET Entry}
Content == Known \cup {Unsafe}

Update == [action: {"none", "create", "update", "unchanged"},
           expected: Known, content: Known]
NoUpdate == [action |-> "none", expected |-> Absent, content |-> Absent]
NoPlan == [t \in Tables |-> NoUpdate]

NoError == "none"
\* errors after which the code says that nothing was changed
CleanErrors == {"INVALID", "READ_FAILED", "COLLISION", "NICKNAME_CONFLICT",
                "URI_CONFLICT", "CONCURRENT_MODIFICATION", "WRITE_FAILED"}
Errors == CleanErrors \cup {"ROLLBACK_FAILED", "CLEANUP_FAILED", "OS_ERROR"}

Active == {"plan", "stage", "check", "commit", "recheck", "replace",
           "rollback", "cleanup", "unstage"}
Ended == {"done", "crashed"}

ASSUME RegistrationAssumption ==
    /\ Request \in [Procs -> Entry]
    /\ InitTables \subseteq Content
    /\ MaxRuns \in [Procs -> Nat]
    /\ {MaxEdits, MaxFaults} \subseteq Nat

-----------------------------------------------------------------------------
(* Reading and classifying entries.                                        *)

CollisionFree(S) ==
    \A a, b \in S : a # b => a.name # b.name /\ a.uri # b.uri

IsTable(c) == c.kind = "table"

NoUriConflict(S, e) == {}            \* mutant: only nicknames are compared
SameName(S, e) == {x \in S : x.name = e.name /\ x.uri # e.uri}
SameUri(S, e) == {x \in S : x.uri = e.uri /\ x.name # e.name}

Changed(p) == {t \in Tables : plan[p][t].action \in {"create", "update"}}

-----------------------------------------------------------------------------
(* Bookkeeping shared by the actions.                                      *)

\* Process p looked at table t, or the write it just made is what it knows.
Sees(p, t) == stale' = [stale EXCEPT ![p] = @ \ {t}]

\* Table t gets content c from process p.
Writes(p, t, c) ==
    /\ table' = [table EXCEPT ![t] = c]
    /\ touched' = [q \in Procs |-> IF q = p THEN touched[q]
                                            ELSE touched[q] \cup {t}]
    /\ stale' = [q \in Procs |-> IF q = p THEN stale[q] \ {t}
                                          ELSE stale[q] \cup {t}]

Fault == faults < MaxFaults /\ faults' = faults + 1
TwoFaults == faults + 1 < MaxFaults /\ faults' = faults + 2

\* A move onto a directory fails without any fault of the file system.
MoveFails(t) == Fault \/ (table[t] = Unsafe /\ UNCHANGED faults)

Mismatch(t) == IF table[t] = Unsafe THEN "INVALID" ELSE "CONCURRENT_MODIFICATION"

Goto(p, label) == pc' = [pc EXCEPT ![p] = label]
Raise(p, code, label) ==
    /\ error' = [error EXCEPT ![p] = code]
    /\ Goto(p, label)

-----------------------------------------------------------------------------
Init ==
    /\ table \in [Tables -> InitTables]
    /\ pc = [p \in Procs |-> "idle"]
    /\ todo = [p \in Procs |-> {}]
    /\ plan = [p \in Procs |-> NoPlan]
    /\ staged = [p \in Procs |-> {}]
    /\ installed = [p \in Procs |-> {}]
    /\ backup = [p \in Procs |-> [t \in Tables |-> Absent]]
    /\ litter = [p \in Procs |-> FALSE]
    /\ error = [p \in Procs |-> NoError]
    /\ runs = [p \in Procs |-> 0]
    /\ edits = 0
    /\ faults = 0
    /\ touched = [p \in Procs |-> {}]
    /\ stale = [p \in Procs |-> {}]

\* plan_project_registration is entered. Files a killed run left behind keep
\* their unique names and are never looked at again.
Start(p) ==
    /\ pc[p] \in {"idle"} \cup Ended
    /\ runs[p] < MaxRuns[p]
    /\ runs' = [runs EXCEPT ![p] = @ + 1]
    /\ Goto(p, "plan")
    /\ todo' = [todo EXCEPT ![p] = Tables]
    /\ plan' = [plan EXCEPT ![p] = NoPlan]
    /\ staged' = [staged EXCEPT ![p] = {}]
    /\ installed' = [installed EXCEPT ![p] = {}]
    /\ backup' = [backup EXCEPT ![p] = [t \in Tables |-> Absent]]
    /\ litter' = [litter EXCEPT ![p] = FALSE]
    /\ error' = [error EXCEPT ![p] = NoError]
    /\ touched' = [touched EXCEPT ![p] = {}]
    /\ stale' = [stale EXCEPT ![p] = {}]
    /\ UNCHANGED <<table, edits, faults>>

Planned(p, t, update) ==
    /\ plan' = [plan EXCEPT ![p][t] = update]
    /\ todo' = [todo EXCEPT ![p] = @ \ {t}]
    /\ touched' = [touched EXCEPT ![p] = @ \ {t}]
    /\ Sees(p, t)
    /\ UNCHANGED <<pc, error>>

Rejected(p, code) ==
    /\ Raise(p, code, "done")
    /\ UNCHANGED <<todo, plan, history>>

\* _plan_table_update for the next table.
PlanTable(p) ==
    /\ pc[p] = "plan" /\ todo[p] # {}
    /\ LET t == FirstOf(todo[p])
           now == table[t]
           req == Request[p]
       IN  \/ /\ now.kind = "absent"
              /\ Planned(p, t, [action |-> "create", expected |-> Absent,
                                content |-> TableOf({req})])
           \/ /\ now.kind = "unsafe"
              /\ Rejected(p, "INVALID")
           \/ /\ IsTable(now)
              /\ \/ /\ ~CollisionFree(now.entries)
                    /\ Rejected(p, "COLLISION")
                 \/ /\ CollisionFree(now.entries)
                    /\ req \in now.entries
                    /\ Planned(p, t, [action |-> "unchanged",
                                      expected |-> now, content |-> now])
                 \/ /\ CollisionFree(now.entries)
                    /\ req \notin now.entries
                    /\ SameName(now.entries, req) # {}
                    /\ Rejected(p, "NICKNAME_CONFLICT")
                 \/ /\ CollisionFree(now.entries)
                    /\ req \notin now.entries
                    /\ SameUri(now.entries, req) # {}
                    /\ Rejected(p, "URI_CONFLICT")
                 \/ /\ CollisionFree(now.entries)
                    /\ req \notin now.entries
                    /\ SameName(now.entries, req) = {}
                    /\ SameUri(now.entries, req) = {}
                    /\ Planned(p, t,
                               [action |-> "update", expected |-> now,
                                content |-> TableOf(now.entries \cup {req})])
    /\ UNCHANGED <<table, disk, installed, runs, edits, faults>>

PlanReadFails(p) ==
    /\ pc[p] = "plan" /\ todo[p] # {}
    /\ table[FirstOf(todo[p])].kind = "table"
    /\ Fault
    /\ Rejected(p, "READ_FAILED")
    /\ UNCHANGED <<table, disk, installed, runs, edits>>

\* apply_project_registration: return at once when no table changes.
BeginApply(p) ==
    /\ pc[p] = "plan" /\ todo[p] = {}
    /\ Goto(p, IF Changed(p) = {} THEN "done" ELSE "stage")
    /\ UNCHANGED <<table, todo, plan, disk, installed, error, runs, edits,
                   faults, history>>

Stage(p) ==
    /\ pc[p] = "stage"
    /\ staged' = [staged EXCEPT ![p] = Changed(p)]
    /\ todo' = [todo EXCEPT ![p] = Changed(p)]
    /\ Goto(p, "check")
    /\ UNCHANGED <<table, plan, installed, backup, litter, error, runs, edits,
                   faults, history>>

\* A temporary file cannot be written; those written before it are removed.
\* When the file itself cannot be removed either, that error is the one reported.
StageFails(p) ==
    /\ pc[p] = "stage"
    /\ \E done \in SUBSET Changed(p) :
          /\ done # Changed(p)
          /\ staged' = [staged EXCEPT ![p] = done]
    /\ \/ /\ Fault
          /\ Raise(p, "WRITE_FAILED", "unstage")
          /\ UNCHANGED litter
       \/ /\ TwoFaults
          /\ Raise(p, "OS_ERROR", "unstage")
          /\ litter' = [litter EXCEPT ![p] = TRUE]
    /\ UNCHANGED <<table, todo, plan, installed, backup, runs, edits, history>>

\* The pre-commit hash comparison of one staged table.
CheckTable(p) ==
    /\ pc[p] = "check"
    /\ LET t == FirstOf(todo[p])
       IN  /\ Sees(p, t)
           /\ \/ /\ table[t] = plan[p][t].expected
                 /\ IF todo[p] = {t}
                    THEN /\ todo' = [todo EXCEPT ![p] = Changed(p)]
                         /\ Goto(p, "commit")
                    ELSE /\ todo' = [todo EXCEPT ![p] = @ \ {t}]
                         /\ pc' = pc
                 /\ error' = error
              \/ /\ table[t] # plan[p][t].expected
                 /\ Raise(p, Mismatch(t), "unstage")
                 /\ todo' = todo
    /\ UNCHANGED <<table, plan, disk, installed, runs, edits, faults, touched>>

CheckReadFails(p) ==
    /\ pc[p] = "check"
    /\ IsTable(table[FirstOf(todo[p])])
    /\ Fault
    /\ Raise(p, "READ_FAILED", "unstage")
    /\ UNCHANGED <<table, todo, plan, disk, installed, runs, edits, history>>

-----------------------------------------------------------------------------
(* _commit_staged_tables: one table after the other.                       *)

\* _read_table_for_commit, then the backup of what was read.
ReadForCommit(p) ==
    /\ pc[p] = "commit" /\ todo[p] # {}
    /\ LET t == FirstOf(todo[p])
       IN  /\ Sees(p, t)
           /\ \/ /\ table[t] = plan[p][t].expected
                 /\ backup' = [backup EXCEPT ![p][t] = table[t]]
                 /\ Goto(p, IF table[t] = Absent THEN "replace" ELSE "recheck")
                 /\ error' = error
              \/ /\ table[t] # plan[p][t].expected
                 /\ Raise(p, Mismatch(t), "rollback")
                 /\ backup' = backup
    /\ UNCHANGED <<table, todo, plan, staged, litter, installed, runs, edits,
                   faults, touched>>

\* The table cannot be re-read, or its backup cannot be written. A backup that
\* cannot be removed either stays: the rollback does not know its name.
ReadForCommitFails(p) ==
    /\ pc[p] = "commit" /\ todo[p] # {}
    /\ LET t == FirstOf(todo[p])
       IN  /\ IsTable(table[t])
           /\ \/ /\ Fault
                 /\ Raise(p, "READ_FAILED", "rollback")
                 /\ UNCHANGED litter
              \/ /\ table[t] = plan[p][t].expected
                 /\ Raise(p, "WRITE_FAILED", "rollback")
                 /\ \/ Fault /\ UNCHANGED litter
                    \/ TwoFaults /\ litter' = [litter EXCEPT ![p] = TRUE]
    /\ UNCHANGED <<table, todo, plan, staged, backup, installed, runs, edits,
                   history>>

\* Mutant: the hash is computed again and not compared.
RecheckIgnored(p) ==
    /\ pc[p] = "recheck"
    /\ Sees(p, FirstOf(todo[p]))
    /\ Goto(p, "replace")
    /\ UNCHANGED <<table, todo, plan, disk, installed, error, runs, edits,
                   faults, touched>>

\* The hash comparison between the backup and the replacement.
Recheck(p) ==
    /\ pc[p] = "recheck"
    /\ LET t == FirstOf(todo[p])
       IN  /\ Sees(p, t)
           /\ \/ /\ table[t] = plan[p][t].expected
                 /\ Goto(p, "replace")
                 /\ error' = error
              \/ /\ table[t] # plan[p][t].expected
                 /\ Raise(p, Mismatch(t), "rollback")
    /\ UNCHANGED <<table, todo, plan, disk, installed, runs, edits, faults,
                   touched>>

\* Mutant: the loop stops after its first table.
ReplaceFirstOnly(p) ==
    /\ pc[p] = "replace"
    /\ LET t == FirstOf(todo[p])
       IN  /\ Writes(p, t, plan[p][t].content)
           /\ staged' = [staged EXCEPT ![p] = @ \ {t}]
           /\ installed' = [installed EXCEPT ![p] = @ \cup {t}]
           /\ todo' = [todo EXCEPT ![p] = @ \ {t}]
           /\ Goto(p, "cleanup")
    /\ UNCHANGED <<plan, backup, litter, error, runs, edits, faults>>

\* os.replace(staged_path, target)
Replace(p) ==
    /\ pc[p] = "replace"
    /\ LET t == FirstOf(todo[p])
       IN  /\ Writes(p, t, plan[p][t].content)
           /\ staged' = [staged EXCEPT ![p] = @ \ {t}]
           /\ installed' = [installed EXCEPT ![p] = @ \cup {t}]
           /\ todo' = [todo EXCEPT ![p] = @ \ {t}]
           /\ Goto(p, IF todo[p] = {t} THEN "cleanup" ELSE "commit")
    /\ UNCHANGED <<plan, backup, litter, error, runs, edits, faults>>

CommitFails(p) ==
    /\ \/ pc[p] = "recheck" /\ Fault
       \/ pc[p] = "replace" /\ MoveFails(FirstOf(todo[p]))
    /\ Raise(p, IF pc[p] = "recheck" THEN "READ_FAILED" ELSE "WRITE_FAILED",
             "rollback")
    /\ UNCHANGED <<table, todo, plan, disk, installed, runs, edits, history>>

\* Mutant: only tables with a backup are rolled back.
RollbackCreatedKept(p) ==
    /\ pc[p] = "rollback" /\ installed[p] # {}
    /\ LET t == LastOf(installed[p])
       IN  /\ IF backup[p][t] = Absent
              THEN UNCHANGED <<table, history>>
              ELSE Writes(p, t, backup[p][t])
           /\ backup' = [backup EXCEPT ![p][t] = Absent]
           /\ installed' = [installed EXCEPT ![p] = @ \ {t}]
    /\ UNCHANGED <<pc, todo, plan, staged, litter, error, runs, edits, faults>>

\* Undo the last replacement: restore the backup, or unlink a created table.
RollbackTable(p) ==
    /\ pc[p] = "rollback" /\ installed[p] # {}
    /\ LET t == LastOf(installed[p])
       IN  /\ Writes(p, t, backup[p][t])
           /\ backup' = [backup EXCEPT ![p][t] = Absent]
           /\ installed' = [installed EXCEPT ![p] = @ \ {t}]
    /\ UNCHANGED <<pc, todo, plan, staged, litter, error, runs, edits, faults>>

\* The table keeps what it has and its backup stays on disk.
RollbackFails(p) ==
    /\ pc[p] = "rollback" /\ installed[p] # {}
    /\ MoveFails(LastOf(installed[p]))
    /\ installed' = [installed EXCEPT ![p] = @ \ {LastOf(@)}]
    /\ error' = [error EXCEPT ![p] = "ROLLBACK_FAILED"]
    /\ UNCHANGED <<table, pc, todo, plan, disk, runs, edits, history>>

\* Mutant: the pending backup is forgotten.
PendingBackupKept(p) ==
    /\ pc[p] = "rollback" /\ installed[p] = {}
    /\ Goto(p, "unstage")
    /\ UNCHANGED <<table, todo, plan, disk, installed, error, runs, edits,
                   faults, history>>

\* The backup of the table that was being replaced is not needed.
DropPendingBackup(p) ==
    /\ pc[p] = "rollback" /\ installed[p] = {}
    /\ \/ /\ backup' = [backup EXCEPT ![p][FirstOf(todo[p])] = Absent]
          /\ UNCHANGED <<error, faults>>
       \/ /\ backup[p][FirstOf(todo[p])] # Absent
          /\ Fault
          /\ error' = [error EXCEPT ![p] = "ROLLBACK_FAILED"]
          /\ UNCHANGED backup
    /\ Goto(p, "unstage")
    /\ UNCHANGED <<table, todo, plan, staged, litter, installed, runs, edits,
                   history>>

\* Both tables are replaced: remove the backups, or report that one remains.
CleanupBackup(p) ==
    /\ pc[p] = "cleanup"
    /\ LET left == {t \in installed[p] : backup[p][t] # Absent}
       IN  \/ /\ left = {}
              /\ Goto(p, "unstage")
              /\ UNCHANGED <<backup, error, faults>>
           \/ /\ left # {}
              /\ backup' = [backup EXCEPT ![p][FirstOf(left)] = Absent]
              /\ UNCHANGED <<pc, error, faults>>
           \/ /\ left # {}
              /\ Fault
              /\ Raise(p, "CLEANUP_FAILED", "unstage")
              /\ UNCHANGED backup
    /\ UNCHANGED <<table, todo, plan, staged, litter, installed, runs, edits,
                   history>>

\* The finally block removes the staged files that were not moved; an OSError
\* there replaces whatever the run was about to report.
Unstage(p) ==
    /\ pc[p] = "unstage"
    /\ \/ /\ staged' = [staged EXCEPT ![p] = {}]
          /\ Goto(p, "done")
          /\ UNCHANGED <<error, faults>>
       \/ /\ Fault
          /\ \E left \in (SUBSET staged[p]) \ {{}} :
                staged' = [staged EXCEPT ![p] = left]
          /\ Raise(p, "OS_ERROR", "done")
    /\ UNCHANGED <<table, todo, plan, backup, litter, installed, runs, edits,
                   history>>

Crash(p) ==
    /\ pc[p] \in Active
    /\ Fault
    /\ Goto(p, "crashed")
    /\ UNCHANGED <<table, todo, plan, disk, installed, error, runs, edits,
                   history>>

\* KiCad, or a user, saves a table: an entry more or less, the file created,
\* deleted, or replaced by something that is not a regular readable file.
Edit(t) ==
    /\ edits < MaxEdits
    /\ edits' = edits + 1
    /\ \E c \in {Absent, Unsafe, TableOf({})}
                \cup {TableOf(table[t].entries \cup {e}) : e \in Entry}
                \cup {TableOf(table[t].entries \ {e}) : e \in Entry} :
          /\ c # table[t]
          /\ table' = [table EXCEPT ![t] = c]
    /\ touched' = [q \in Procs |-> touched[q] \cup {t}]
    /\ stale' = [q \in Procs |-> stale[q] \cup {t}]
    /\ UNCHANGED <<pc, todo, plan, disk, installed, error, runs, faults>>

Step(p) ==
    \/ Start(p) \/ PlanTable(p) \/ PlanReadFails(p) \/ BeginApply(p)
    \/ Stage(p) \/ StageFails(p) \/ CheckTable(p) \/ CheckReadFails(p)
    \/ ReadForCommit(p) \/ ReadForCommitFails(p) \/ Recheck(p) \/ Replace(p)
    \/ CommitFails(p) \/ RollbackTable(p) \/ RollbackFails(p)
    \/ DropPendingBackup(p) \/ CleanupBackup(p) \/ Unstage(p) \/ Crash(p)

Next == (\E p \in Procs : Step(p)) \/ (\E t \in Tables : Edit(t))

Spec == Init /\ [][Next]_vars

-----------------------------------------------------------------------------
(* Properties.                                                             *)

TypeOK ==
    /\ table \in [Tables -> Content]
    /\ pc \in [Procs -> {"idle"} \cup Active \cup Ended]
    /\ todo \in [Procs -> SUBSET Tables]
    /\ plan \in [Procs -> [Tables -> Update]]
    /\ staged \in [Procs -> SUBSET Tables]
    /\ installed \in [Procs -> SUBSET Tables]
    /\ backup \in [Procs -> [Tables -> Known]]
    /\ litter \in [Procs -> BOOLEAN]
    /\ error \in [Procs -> {NoError} \cup Errors]
    /\ runs \in [Procs -> Nat] /\ edits \in Nat /\ faults \in Nat
    /\ touched \in [Procs -> SUBSET Tables]
    /\ stale \in [Procs -> SUBSET Tables]

\* The entries that a step removes from table t.
Lost(t) == table[t].entries \ table'[t].entries

\* A registration that replaces or rolls back a table removes an entry other
\* than its own only if somebody wrote the table after the registration last
\* looked at it: every earlier change, from planning up to the comparison just
\* before os.replace, is noticed (the hash checks of apply_project_registration
\* and _commit_staged_tables).
OnlyRacedEntriesLost ==
    [][\A p \in Procs, t \in Tables :
          installed'[p] # installed[p] /\ Lost(t) \ {Request[p]} # {}
             => t \in stale[p]]_vars

\* A run that reports success has its entry in both tables, except in one that
\* somebody wrote after the run last looked at it (ProjectRegistrationResult).
RegisteredInBoth ==
    \A p \in Procs :
        pc[p] = "done" /\ error[p] = NoError
            => \A t \in Tables \ stale[p] : Request[p] \in table[t].entries

\* A run that reports that nothing was changed, or that the update was rolled
\* back, leaves each table it planned as it found it, unless somebody else
\* wrote that table meanwhile (the cross-table rollback).
FailureRestoresTables ==
    \A p \in Procs :
        pc[p] = "done" /\ error[p] \in CleanErrors
            => \A t \in Tables \ touched[p] :
                  plan[p][t].action # "none" => table[t] = plan[p][t].expected

\* Whatever registrations and editors interleave, a registration never writes a
\* table with a nickname or URI collision (_classify_entry over what was read,
\* kept valid by replacing the whole file).
NoCollisionWritten ==
    [][edits' = edits
          => \A t \in Tables :
                table'[t] # table[t] => CollisionFree(table'[t].entries)]_vars

\* A run that ends without reporting that files were left behind has left no
\* staged file and no recoverable backup next to the tables. The one file it may
\* leave is a temporary whose own write failed and which could not be removed,
\* and then it has reported a failed write (_write_temp_sibling and the cleanup
\* of _commit_staged_tables and apply_project_registration).
NoFilesLeftBehind ==
    \A p \in Procs :
        pc[p] = "done" /\ error[p] \in {NoError} \cup CleanErrors
            => /\ staged[p] = {} /\ \A t \in Tables : backup[p][t] = Absent
               /\ litter[p] => error[p] = "WRITE_FAILED"

=============================================================================

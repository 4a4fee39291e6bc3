--------------------------- MODULE MetadataCache ---------------------------
(***************************************************************************)
(* One entry of the metadata cache (metadata/cache.py, MetadataCache): the *)
(* files raw.json and normalized.json, which any number of processes read  *)
(* and write without a lock.                                               *)
(*                                                                         *)
(* A pair write draws a new generation id, prepares two temporary files    *)
(* and publishes raw.json and then normalized.json, each atomically.  A    *)
(* pair read looks whether the files exist, opens normalized.json, opens   *)
(* raw.json, and compares them.  A valid envelope is the generation that   *)
(* wrote it: its hash, request and timestamp were written with that id.    *)
(* Temporary files have unique names and nothing reads them.               *)
(***************************************************************************)
EXTENDS Naturals, FiniteSets

CONSTANTS
    Procs,      \* processes that use the cache
    Gens,       \* generation ids; each is drawn once
    Freshness,  \* age up to which an online read accepts an entry
    MaxTime,    \* bound on the clock
    MaxFaults   \* bound on failed file operations, damaged files and crashes

VARIABLES
    file,     \* file[k]: generation of the envelope, NoFile or Broken
    used,     \* generation ids drawn so far
    at,       \* at[g]: retrieved_at of generation g
    now,
    pc, op,
    gen,      \* gen[p]: generation that p writes, or found in normalized.json
    have,     \* have[p]: normalized.json existed when p looked
    offline,  \* offline[p]: mode of the read
    answer,   \* answer[p]: outcome of the last read
    faults,
    seen,     \* history: statuses of the entry since p began to read
    before,   \* history: the files when p began to write
    raced     \* history: another process wrote a file since p began to write

reading == <<have, offline, answer>>
vars == <<file, used, at, now, pc, op, gen, reading, faults, seen, before,
          raced>>

Kinds == {"raw", "normalized"}
NoFile == "no_file"
Broken == "broken"
NoGen == "no_gen"
Files == Gens \cup {NoFile, Broken}
Writes == {"write", "write_raw", "write_normalized"}
Idle == {"idle", "wrote", "failed", "torn", "crashed"}
Writing == {"prepare", "publishRaw", "publishNormalized"}
Reading == {"lookNormalized", "lookRaw", "openNormalized", "openRaw", "age"}
Words == {"empty", "untrusted", "none", "pending", "io_error"}

ASSUME CacheAssumption ==
    /\ {Freshness, MaxTime, MaxFaults} \subseteq Nat
    /\ Gens \cap (Words \cup {NoFile, Broken, NoGen}) = {}

\* What a reader that saw both files at once would say of them.
StatusOf(f) ==
    IF f["raw"] = NoFile /\ f["normalized"] = NoFile THEN "empty"
    ELSE IF f["raw"] = f["normalized"] /\ f["raw"] \in Gens THEN f["raw"]
    ELSE "untrusted"

Expired == {g \in used : at[g] + Freshness < now}

Fault == faults < MaxFaults /\ faults' = faults + 1

Goto(p, label) == pc' = [pc EXCEPT ![p] = label]

\* File k becomes v, for everyone who is reading or writing.
SetFile(k, v) ==
    /\ file' = [file EXCEPT ![k] = v]
    /\ seen' = [r \in Procs |-> IF answer[r] = "pending"
                                THEN seen[r] \cup {StatusOf(file')}
                                ELSE seen[r]]

Init ==
    /\ file = [k \in Kinds |-> NoFile]
    /\ used = {}
    /\ at = [g \in Gens |-> 0]
    /\ now = 0
    /\ pc = [p \in Procs |-> "idle"]
    /\ op = [p \in Procs |-> "write"]
    /\ gen = [p \in Procs |-> NoGen]
    /\ have = [p \in Procs |-> FALSE]
    /\ offline = [p \in Procs |-> FALSE]
    /\ answer = [p \in Procs |-> "none"]
    /\ faults = 0
    /\ seen = [p \in Procs |-> {}]
    /\ before = [p \in Procs |-> file]
    /\ raced = [p \in Procs |-> FALSE]

-----------------------------------------------------------------------------
(* write, write_raw and write_normalized.                                  *)

\* Mutant: the generation id is not drawn anew.
BeginWriteReuses(p) ==
    /\ pc[p] \in Idle
    /\ \E g \in Gens \ used, kind \in Writes :
          /\ at' = [at EXCEPT ![g] = now]
          /\ gen' = [gen EXCEPT ![p] = g]
          /\ op' = [op EXCEPT ![p] = kind]
    /\ Goto(p, "prepare")
    /\ before' = [before EXCEPT ![p] = file]
    /\ raced' = [raced EXCEPT ![p] = FALSE]
    /\ UNCHANGED <<file, used, now, reading, faults, seen>>

BeginWrite(p) ==
    /\ pc[p] \in Idle
    /\ \E g \in Gens \ used, kind \in Writes :
          /\ used' = used \cup {g}
          /\ at' = [at EXCEPT ![g] = now]
          /\ gen' = [gen EXCEPT ![p] = g]
          /\ op' = [op EXCEPT ![p] = kind]
    /\ Goto(p, "prepare")
    /\ before' = [before EXCEPT ![p] = file]
    /\ raced' = [raced EXCEPT ![p] = FALSE]
    /\ UNCHANGED <<file, now, reading, faults, seen>>

\* Every temporary file is written before the first one is published.
Prepare(p) ==
    /\ pc[p] = "prepare"
    /\ Goto(p, IF op[p] = "write_normalized" THEN "publishNormalized"
                                             ELSE "publishRaw")
    /\ UNCHANGED <<file, used, at, now, op, gen, reading, faults, seen, before,
                   raced>>

\* Mutant: raw.json is already published when normalized.json is prepared.
PrepareFailsLate(p) ==
    /\ pc[p] = "prepare"
    /\ Fault
    /\ SetFile("raw", gen[p])
    /\ raced' = [q \in Procs |-> q # p \/ raced[q]]
    /\ Goto(p, "failed")
    /\ UNCHANGED <<used, at, now, op, gen, reading, before>>

PrepareFails(p) ==
    /\ pc[p] = "prepare"
    /\ Fault
    /\ Goto(p, "failed")
    /\ UNCHANGED <<file, used, at, now, op, gen, reading, seen, before, raced>>

Publish(p, k) ==
    /\ SetFile(k, gen[p])
    /\ raced' = [q \in Procs |-> q # p \/ raced[q]]

PublishRaw(p) ==
    /\ pc[p] = "publishRaw"
    /\ Publish(p, "raw")
    /\ Goto(p, IF op[p] = "write" THEN "publishNormalized" ELSE "wrote")
    /\ UNCHANGED <<used, at, now, op, gen, reading, faults, before>>

PublishNormalized(p) ==
    /\ pc[p] = "publishNormalized"
    /\ Publish(p, "normalized")
    /\ Goto(p, "wrote")
    /\ UNCHANGED <<used, at, now, op, gen, reading, faults, before>>

\* A replacement fails: the finally block removes what is still temporary.
PublishFails(p) ==
    /\ pc[p] \in {"publishRaw", "publishNormalized"}
    /\ Fault
    /\ Goto(p, IF pc[p] = "publishNormalized" /\ op[p] = "write"
               THEN "torn" ELSE "failed")
    /\ UNCHANGED <<file, used, at, now, op, gen, reading, seen, before, raced>>

Crash(p) ==
    /\ pc[p] \in Writing
    /\ Fault
    /\ Goto(p, "crashed")
    /\ UNCHANGED <<file, used, at, now, op, gen, reading, seen, before, raced>>

-----------------------------------------------------------------------------
(* read(kind="normalized").  A read with refresh returns None at once and  *)
(* touches nothing.                                                        *)

BeginRead(p) ==
    /\ pc[p] \in Idle
    /\ \E mode \in BOOLEAN : offline' = [offline EXCEPT ![p] = mode]
    /\ answer' = [answer EXCEPT ![p] = "pending"]
    /\ seen' = [seen EXCEPT ![p] = {StatusOf(file)}]
    /\ op' = [op EXCEPT ![p] = "read"]
    /\ Goto(p, "lookNormalized")
    /\ gen' = [gen EXCEPT ![p] = NoGen]
    /\ before' = [before EXCEPT ![p] = [k \in Kinds |-> NoFile]]
    /\ raced' = [raced EXCEPT ![p] = FALSE]
    /\ UNCHANGED <<file, used, at, now, have, faults>>

\* The read ends: offline with the verdict, online with None unless it is a hit.
Answer(p, verdict) ==
    /\ answer' = [answer EXCEPT ![p] =
                    IF verdict \in Gens \cup {"io_error"} \/ offline[p]
                    THEN verdict ELSE "none"]
    /\ seen' = [seen EXCEPT ![p] = {}]
    /\ gen' = [gen EXCEPT ![p] = NoGen]
    /\ Goto(p, "idle")

LookNormalized(p) ==
    /\ pc[p] = "lookNormalized"
    /\ have' = [have EXCEPT ![p] = file["normalized"] # NoFile]
    /\ Goto(p, "lookRaw")
    /\ UNCHANGED <<file, used, at, now, op, gen, offline, answer, faults, seen,
                   before, raced>>

LookRaw(p) ==
    /\ pc[p] = "lookRaw"
    /\ have' = [have EXCEPT ![p] = FALSE]
    /\ \/ /\ ~have[p] /\ file["raw"] = NoFile
          /\ Answer(p, "empty")
       \/ /\ have[p] # (file["raw"] # NoFile)
          /\ Answer(p, "untrusted")
       \/ /\ have[p] /\ file["raw"] # NoFile
          /\ Goto(p, "openNormalized")
          /\ UNCHANGED <<answer, seen, gen>>
    /\ UNCHANGED <<file, used, at, now, op, offline, faults, before,
                   raced>>

\* _validate_envelope of the normalized file.
OpenNormalized(p) ==
    /\ pc[p] = "openNormalized"
    /\ \/ /\ file["normalized"] \in Gens
          /\ gen' = [gen EXCEPT ![p] = file["normalized"]]
          /\ Goto(p, "openRaw")
          /\ UNCHANGED <<answer, seen>>
       \/ /\ file["normalized"] \notin Gens
          /\ Answer(p, "untrusted")
    /\ UNCHANGED <<file, used, at, now, op, have, offline, faults, before,
                   raced>>

\* Mutant: two valid envelopes are accepted without _validate_pair.
OpenRawUnpaired(p) ==
    /\ pc[p] = "openRaw"
    /\ \/ /\ file["raw"] \in Gens
          /\ Goto(p, "age")
          /\ UNCHANGED <<answer, seen, gen>>
       \/ /\ file["raw"] \notin Gens
          /\ Answer(p, "untrusted")
    /\ UNCHANGED <<file, used, at, now, op, have, offline, faults, before,
                   raced>>

\* _validate_envelope of the raw file, then _validate_pair.
OpenRaw(p) ==
    /\ pc[p] = "openRaw"
    /\ \/ /\ file["raw"] = gen[p]
          /\ Goto(p, "age")
          /\ UNCHANGED <<answer, seen, gen>>
       \/ /\ file["raw"] # gen[p]
          /\ Answer(p, "untrusted")
    /\ UNCHANGED <<file, used, at, now, op, have, offline, faults, before,
                   raced>>

\* A file that cannot be read counts as untrusted (offline) or as a miss; the
\* answer is kept apart here because it says nothing of the entry.
OpenFails(p) ==
    /\ pc[p] \in {"openNormalized", "openRaw"}
    /\ Fault
    /\ Answer(p, "io_error")
    /\ UNCHANGED <<file, used, at, now, op, have, offline, before, raced>>

\* Mutant: the age is not looked at.
CheckAgeIgnored(p) ==
    /\ pc[p] = "age"
    /\ Answer(p, gen[p])
    /\ UNCHANGED <<file, used, at, now, op, have, offline, faults, before,
                   raced>>

\* Only an online read looks at the age of the pair.
CheckAge(p) ==
    /\ pc[p] = "age"
    /\ IF ~offline[p] /\ gen[p] \in Expired
       THEN Answer(p, "none")
       ELSE Answer(p, gen[p])
    /\ UNCHANGED <<file, used, at, now, op, have, offline, faults, before,
                   raced>>

-----------------------------------------------------------------------------
(* The environment.                                                        *)

\* A file is damaged on disk: it does not parse or validate any more.
Damage(k) ==
    /\ file[k] \in Gens
    /\ Fault
    /\ SetFile(k, Broken)
    /\ raced' = [q \in Procs |-> TRUE]
    /\ UNCHANGED <<used, at, now, pc, op, gen, reading, before>>

Tick ==
    /\ now < MaxTime
    /\ now' = now + 1
    /\ UNCHANGED <<file, used, at, pc, op, gen, reading, faults, seen, before,
                   raced>>

Step(p) ==
    \/ BeginWrite(p) \/ Prepare(p) \/ PrepareFails(p) \/ PublishRaw(p)
    \/ PublishNormalized(p) \/ PublishFails(p) \/ Crash(p)
    \/ BeginRead(p) \/ LookNormalized(p) \/ LookRaw(p) \/ OpenNormalized(p)
    \/ OpenRaw(p) \/ OpenFails(p) \/ CheckAge(p)

Next == (\E p \in Procs : Step(p)) \/ (\E k \in Kinds : Damage(k)) \/ Tick

Spec == Init /\ [][Next]_vars

-----------------------------------------------------------------------------
(* Properties.                                                             *)

TypeOK ==
    /\ file \in [Kinds -> Files]
    /\ \A k \in Kinds : file[k] \in Gens => file[k] \in used
    /\ used \subseteq Gens /\ at \in [Gens -> Nat] /\ now \in Nat
    /\ pc \in [Procs -> Idle \cup Writing \cup Reading]
    /\ op \in [Procs -> Writes \cup {"read"}]
    /\ gen \in [Procs -> used \cup {NoGen}]
    /\ have \in [Procs -> BOOLEAN]
    /\ offline \in [Procs -> BOOLEAN]
    /\ answer \in [Procs -> used \cup Words]
    /\ faults \in Nat
    /\ seen \in [Procs -> SUBSET (used \cup {"empty", "untrusted"})]
    /\ before \in [Procs -> [Kinds -> Files]]
    /\ raced \in [Procs -> BOOLEAN]

\* Reads and writes that interleave file by file still read one register: a
\* hit is a pair that was whole on disk at some moment of the read, and the
\* offline verdicts OFFLINE_CACHE_MISS and CACHE_CORRUPT were true at some
\* moment of it (the order of the replacements in _atomic_json_pair_write, the
\* order of the opens in read, and _validate_pair).
Register == INSTANCE EvidenceRegister
    WITH Readers <- Procs, entry <- StatusOf(file), expired <- Expired

ReadsOneRegister == Register!Spec

\* A write that succeeded left its own pair; one that failed before it
\* published anything left the old files; and one that failed or was killed
\* between its two replacements left an entry that no read trusts. All of this
\* as long as nobody else wrote the files.
WriteOutcome ==
    \A p \in Procs :
        op[p] \in Writes /\ ~raced[p] =>
            /\ pc[p] = "wrote" /\ op[p] = "write" => StatusOf(file) = gen[p]
            /\ pc[p] = "wrote" /\ op[p] # "write" => StatusOf(file) \notin Gens
            /\ pc[p] = "failed" => file = before[p]
            /\ pc[p] = "torn" => StatusOf(file) = "untrusted"
            /\ pc[p] = "crashed" => StatusOf(file) \in
                                       {"untrusted", StatusOf(before[p])}
=============================================================================

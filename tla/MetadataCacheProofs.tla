------------------------- MODULE MetadataCacheProofs -------------------------
(***************************************************************************)
(* The cache entry is one register for every number of processes, of       *)
(* generations and of faults, and a write leaves what it reports.          *)
(***************************************************************************)
EXTENDS MetadataCache, TLAPS

LEMMA StatusTyped ==
    ASSUME NEW G, NEW f \in [Kinds -> Files],
           \A k \in Kinds : f[k] \in Gens => f[k] \in G
    PROVE  StatusOf(f) \in G \cup {"empty", "untrusted"}
  BY DEF Kinds, StatusOf

\* The names of outcomes and of missing files are no generations.
LEMMA Distinct ==
    /\ \A w \in Words : w \notin Gens
    /\ NoFile \notin Gens /\ Broken \notin Gens /\ NoGen \notin Gens
    /\ NoFile # Broken /\ NoFile # NoGen /\ Broken # NoGen
    /\ NoGen \notin Words
  BY CacheAssumption DEF NoFile, Broken, NoGen, Words

-----------------------------------------------------------------------------
(* The inductive invariant.                                                *)

\* No generation is being written by two processes, none that is still being
\* written is in normalized.json, and none that is not published is in raw.json.
WritersApart ==
    \A p \in Procs : pc[p] \in Writing =>
        /\ gen[p] \in Gens /\ op[p] \in Writes
        /\ file["normalized"] # gen[p]
        /\ pc[p] \in {"prepare", "publishRaw"} => file["raw"] # gen[p]
        /\ \A q \in Procs : q # p /\ pc[q] \in Writing => gen[q] # gen[p]

\* The generation whose data a reader holds is not being written any more.
NotWritten(g) == \A q \in Procs : pc[q] \in Writing => gen[q] # g

\* What a reader has seen of the entry by the time it is at each step.
ReaderSaw(p) ==
    /\ answer[p] = "pending" <=> pc[p] \in Reading
    /\ pc[p] \in Reading => StatusOf(file) \in seen[p] /\ op[p] = "read"
    /\ pc[p] = "lookRaw" =>
          /\ have[p] => file["normalized"] # NoFile
          /\ ~have[p] => \/ file["raw"] = NoFile /\ "empty" \in seen[p]
                         \/ file["raw"] # NoFile /\ "untrusted" \in seen[p]
    /\ pc[p] = "openNormalized" =>
          file["raw"] # NoFile /\ file["normalized"] # NoFile
    /\ pc[p] = "openRaw" =>
          /\ gen[p] \in Gens /\ NotWritten(gen[p])
          /\ \/ /\ file["raw"] = gen[p] /\ gen[p] \in seen[p]
                /\ file["normalized"] = gen[p] \/ "untrusted" \in seen[p]
             \/ file["raw"] # gen[p] /\ "untrusted" \in seen[p]
    /\ pc[p] = "age" => gen[p] \in Gens /\ gen[p] \in seen[p]

\* What the files hold while and after p writes, if nobody else writes them.
WriterKnows(p) ==
    /\ pc[p] = "publishRaw" => op[p] \in {"write", "write_raw"}
    /\ pc[p] = "publishNormalized" => op[p] \in {"write", "write_normalized"}
    /\ pc[p] = "torn" => op[p] = "write"
    /\ op[p] \in Writes =>
          /\ before[p]["raw"] # gen[p] /\ before[p]["normalized"] # gen[p]
          /\ pc[p] # "idle" => gen[p] \in Gens
    /\ op[p] \in Writes /\ ~raced[p] =>
          /\ \/ pc[p] \in {"prepare", "publishRaw", "failed"}
             \/ pc[p] = "publishNormalized" /\ op[p] = "write_normalized"
             => file = before[p]
          /\ \/ pc[p] = "publishNormalized" /\ op[p] = "write"
             \/ pc[p] = "wrote" /\ op[p] = "write_raw"
             \/ pc[p] = "torn"
             => file = [before[p] EXCEPT !["raw"] = gen[p]]
          /\ pc[p] = "wrote" /\ op[p] = "write_normalized"
             => file = [before[p] EXCEPT !["normalized"] = gen[p]]
          /\ pc[p] = "wrote" /\ op[p] = "write"
             => file["raw"] = gen[p] /\ file["normalized"] = gen[p]
          /\ pc[p] = "crashed"
             => file \in {before[p], [before[p] EXCEPT !["raw"] = gen[p]]}

NormalizedWritten == \A g \in Gens : file["normalized"] = g => NotWritten(g)

Rest == /\ WritersApart /\ NormalizedWritten
        /\ \A p \in Procs : ReaderSaw(p) /\ WriterKnows(p)

IInv == TypeOK /\ Rest

-----------------------------------------------------------------------------
(* Type correctness.                                                       *)

LEMMA InitTyped == Init => TypeOK
  <1> SUFFICES ASSUME Init PROVE TypeOK
    OBVIOUS
  <1>1. \A k \in Kinds : file[k] \notin Gens
    BY Distinct DEF Init
  <1> QED  BY <1>1 DEF Init, TypeOK, Files, Idle, Writes, Words

LEMMA SetFileTyped ==
    ASSUME TypeOK, NEW k \in Kinds, NEW v \in used \cup {Broken}, SetFile(k, v)
    PROVE  /\ file' \in [Kinds -> Files]
           /\ \A j \in Kinds : file'[j] \in Gens => file'[j] \in used
           /\ seen' \in [Procs -> SUBSET (used \cup {"empty", "untrusted"})]
  <1> USE DEF TypeOK
  <1>1. file' \in [Kinds -> Files] /\ \A j \in Kinds : file'[j] \in Gens => file'[j] \in used
    BY Distinct DEF SetFile, Files
  <1>2. StatusOf(file') \in used \cup {"empty", "untrusted"}
    BY <1>1, StatusTyped
  <1> QED  BY <1>1, <1>2 DEF SetFile

LEMMA AnswerTyped ==
    ASSUME TypeOK, NEW p \in Procs, NEW v \in used \cup Words, Answer(p, v)
    PROVE  /\ answer' \in [Procs -> used \cup Words]
           /\ seen' \in [Procs -> SUBSET (used \cup {"empty", "untrusted"})]
           /\ gen' \in [Procs -> used \cup {NoGen}]
           /\ pc' \in [Procs -> Idle \cup Writing \cup Reading]
  BY DEF TypeOK, Answer, Goto, Words, Idle

LEMMA StepTyped == IInv /\ [Next]_vars => TypeOK'
  <1> SUFFICES ASSUME TypeOK, Rest, [Next]_vars PROVE TypeOK'
    BY DEF IInv
  <1> USE DEF TypeOK
  <1>1. ASSUME NEW p \in Procs, BeginWrite(p) PROVE TypeOK'
    BY <1>1 DEF BeginWrite, Goto, Writing, reading
  <1>2. ASSUME NEW p \in Procs, Prepare(p) PROVE TypeOK'
    BY <1>2 DEF Prepare, Goto, Writing, reading
  <1>3. ASSUME NEW p \in Procs, PrepareFails(p) PROVE TypeOK'
    BY <1>3 DEF PrepareFails, Fault, Goto, Idle, reading
  <1>4. ASSUME NEW p \in Procs, PublishRaw(p), gen[p] \in used PROVE TypeOK'
    <2>1. SetFile("raw", gen[p]) /\ "raw" \in Kinds
      BY <1>4 DEF PublishRaw, Publish, Kinds
    <2> QED  BY <1>4, <2>1, SetFileTyped DEF PublishRaw, Publish, Goto, Idle, Writing, reading
  <1>5. ASSUME NEW p \in Procs, PublishNormalized(p), gen[p] \in used PROVE TypeOK'
    <2>1. SetFile("normalized", gen[p]) /\ "normalized" \in Kinds
      BY <1>5 DEF PublishNormalized, Publish, Kinds
    <2> QED  BY <1>5, <2>1, SetFileTyped DEF PublishNormalized, Publish, Goto, Idle, reading
  <1>6. ASSUME NEW p \in Procs, PublishFails(p) PROVE TypeOK'
    BY <1>6 DEF PublishFails, Fault, Goto, Idle, reading
  <1>7. ASSUME NEW p \in Procs, Crash(p) PROVE TypeOK'
    BY <1>7 DEF Crash, Fault, Goto, Idle, reading
  <1>8. ASSUME NEW p \in Procs, BeginRead(p) PROVE TypeOK'
    <2>1. StatusOf(file) \in used \cup {"empty", "untrusted"}
      BY StatusTyped
    <2> QED  BY <1>8, <2>1 DEF BeginRead, Goto, Reading, Words, Kinds, Files
  <1>9. ASSUME NEW p \in Procs, LookNormalized(p) PROVE TypeOK'
    BY <1>9 DEF LookNormalized, Goto, Reading
  <1>10. ASSUME NEW p \in Procs, LookRaw(p) PROVE TypeOK'
    BY <1>10, AnswerTyped DEF LookRaw, Goto, Reading, Words
  <1>11. ASSUME NEW p \in Procs, OpenNormalized(p) PROVE TypeOK'
    BY <1>11, AnswerTyped DEF OpenNormalized, Goto, Reading, Words, Kinds
  <1>12. ASSUME NEW p \in Procs, OpenRaw(p) PROVE TypeOK'
    BY <1>12, AnswerTyped DEF OpenRaw, Goto, Reading, Words
  <1>13. ASSUME NEW p \in Procs, OpenFails(p) PROVE TypeOK'
    BY <1>13, AnswerTyped DEF OpenFails, Fault, Words
  <1>14. ASSUME NEW p \in Procs, CheckAge(p), gen[p] \in used PROVE TypeOK'
    BY <1>14, AnswerTyped DEF CheckAge, Words
  <1>15. ASSUME NEW k \in Kinds, Damage(k) PROVE TypeOK'
    BY <1>15, SetFileTyped DEF Damage, Fault, reading
  <1>16. CASE Tick
    BY <1>16 DEF Tick, reading
  <1>17. CASE UNCHANGED vars
    BY <1>17 DEF vars, reading
  <1>18. ASSUME NEW p \in Procs, pc[p] \in Writing \cup {"age"}
         PROVE  gen[p] \in used
    BY <1>18, Distinct DEF Rest, WritersApart, ReaderSaw
  <1>19. ASSUME NEW p \in Procs, Step(p) PROVE TypeOK'
    <2>1. CASE PublishRaw(p) \/ PublishNormalized(p) \/ CheckAge(p)
      <3>1. gen[p] \in used
        BY <1>18, <2>1 DEF PublishRaw, PublishNormalized, CheckAge, Writing
      <3> QED  BY <1>4, <1>5, <1>14, <2>1, <3>1
    <2> QED
      BY <1>1, <1>2, <1>3, <1>6, <1>7, <1>8, <1>9, <1>10, <1>11, <1>12, <1>13,
         <1>19, <2>1 DEF Step
  <1> QED  BY <1>15, <1>16, <1>17, <1>19 DEF Next

-----------------------------------------------------------------------------
(* What a change of a file does to readers.                                *)

LEMMA ReaderKeeps ==
    ASSUME TypeOK, NEW q \in Procs, ReaderSaw(q), pc[q] \in Reading,
           NEW k \in Kinds, NEW v \in Gens \cup {Broken}, SetFile(k, v),
           pc'[q] = pc[q], op'[q] = op[q], gen'[q] = gen[q],
           have'[q] = have[q], answer'[q] = answer[q],
           pc[q] = "openRaw" => v # gen[q] /\ NotWritten(gen[q])',
           v \in Gens /\ k = "raw" => file["normalized"] # v
    PROVE  ReaderSaw(q)'
  <1> USE DEF TypeOK
  <1>1. seen'[q] = seen[q] \cup {StatusOf(file')} /\ StatusOf(file') \in seen'[q]
    BY DEF SetFile, ReaderSaw
  <1>2. v # NoFile /\ file'[k] = v /\ \A j \in Kinds \ {k} : file'[j] = file[j]
    BY Distinct DEF SetFile, Kinds
  <1>3. CASE pc[q] = "lookRaw"
    <2>1. k = "raw" => StatusOf(file') \in {"untrusted", file["normalized"]}
      BY <1>2, Distinct DEF StatusOf, Kinds
    <2>2. ~have[q] /\ file["raw"] = NoFile /\ k = "raw"
            => StatusOf(file') = "untrusted"
      BY <1>2, Distinct DEF StatusOf, Kinds
    <2> QED  BY <1>1, <1>2, <1>3, <2>2 DEF ReaderSaw, Kinds
  <1>4. CASE pc[q] = "openRaw"
    <2>1. CASE file["raw"] = gen[q] /\ k = "raw"
      <3>1. file["normalized"] = gen[q] => StatusOf(file') = "untrusted"
        BY <1>2, <1>4, <2>1, Distinct DEF StatusOf, Kinds, ReaderSaw
      <3> QED  BY <1>1, <1>2, <1>4, <2>1, <3>1 DEF ReaderSaw, Kinds
    <2>2. CASE file["raw"] = gen[q] /\ k = "normalized"
      <3>1. StatusOf(file') = "untrusted"
        BY <1>2, <1>4, <2>2, Distinct DEF StatusOf, Kinds, ReaderSaw
      <3> QED  BY <1>1, <1>2, <1>4, <2>2, <3>1 DEF ReaderSaw, Kinds
    <2>3. CASE file["raw"] # gen[q]
      BY <1>1, <1>2, <1>4, <2>3 DEF ReaderSaw, Kinds
    <2> QED  BY <2>1, <2>2, <2>3 DEF Kinds
  <1> QED  BY <1>1, <1>2, <1>3, <1>4 DEF ReaderSaw, Kinds, Reading

LEMMA IdleReader ==
    ASSUME NEW q \in Procs, pc[q] \notin Reading, ReaderSaw(q),
           pc'[q] = pc[q], answer'[q] = answer[q]
    PROVE  ReaderSaw(q)'
  BY DEF ReaderSaw, Reading

-----------------------------------------------------------------------------
(* Each action keeps the invariant.                                        *)

LEMMA BeginWriteKeeps ==
    ASSUME TypeOK, Rest, NEW p \in Procs, BeginWrite(p)
    PROVE  Rest'
  <1> USE DEF TypeOK, Rest
  <1>0. /\ gen'[p] \in Gens \ used /\ op'[p] \in Writes /\ pc'[p] = "prepare"
        /\ file' = file
        /\ \A q \in Procs \ {p} : gen'[q] = gen[q] /\ pc'[q] = pc[q] /\ op'[q] = op[q]
    BY DEF BeginWrite, Goto
  <1>a. \A k \in Kinds : file[k] # gen'[p]
    BY <1>0
  <1>b. \A q \in Procs \ {p} : pc[q] \in Writing => gen[q] \in used
    BY Distinct DEF WritersApart
  <1>1. WritersApart'
    <2> SUFFICES ASSUME NEW r \in Procs, pc'[r] \in Writing
                 PROVE  /\ gen'[r] \in Gens /\ op'[r] \in Writes
                        /\ file'["normalized"] # gen'[r]
                        /\ pc'[r] \in {"prepare", "publishRaw"} => file'["raw"] # gen'[r]
                        /\ \A q \in Procs : q # r /\ pc'[q] \in Writing
                                             => gen'[q] # gen'[r]
      BY DEF WritersApart
    <2>1. CASE r = p
      BY <1>0, <1>a, <1>b, <2>1 DEF Kinds
    <2>2. CASE r # p
      BY <1>0, <1>b, <2>2 DEF WritersApart
    <2> QED  BY <2>1, <2>2
  <1>2. NormalizedWritten'
    BY <1>0, <1>a DEF NormalizedWritten, NotWritten, Kinds
  <1>3. ReaderSaw(p)'
    BY Distinct DEF ReaderSaw, StatusOf, NotWritten, NormalizedWritten, Idle, Writing, Reading, Words, Kinds, BeginWrite, Goto, reading
  <1>4. WriterKnows(p)'
    BY Distinct DEF WriterKnows, WritersApart, Idle, Writing, Writes, Kinds, BeginWrite, Goto, reading
  <1>5. ASSUME NEW q \in Procs, q # p PROVE ReaderSaw(q)' /\ WriterKnows(q)'
    <2>1. ReaderSaw(q)'
      BY <1>5, Distinct DEF ReaderSaw, NotWritten, Idle, Writing, Reading, BeginWrite, Goto, reading
    <2>2. WriterKnows(q)'
      BY <1>5 DEF WriterKnows, BeginWrite, Goto, reading
    <2> QED  BY <2>1, <2>2
  <1> QED  BY <1>1, <1>2, <1>3, <1>4, <1>5

LEMMA PrepareKeeps ==
    ASSUME TypeOK, Rest, NEW p \in Procs, Prepare(p)
    PROVE  Rest'
  <1> USE DEF TypeOK, Rest
  <1>1. WritersApart'
    BY Distinct DEF WritersApart, Idle, Writing, Reading, Prepare, Goto, reading
  <1>2. NormalizedWritten'
    BY Distinct DEF NormalizedWritten, NotWritten, Idle, Writing, Reading, Prepare, Goto, reading
  <1>3. ReaderSaw(p)'
    BY Distinct DEF ReaderSaw, StatusOf, NotWritten, NormalizedWritten, Idle, Writing, Reading, Words, Kinds, Prepare, Goto, reading
  <1>4. WriterKnows(p)'
    BY Distinct DEF WriterKnows, WritersApart, Idle, Writing, Writes, Kinds, Prepare, Goto, reading
  <1>5. ASSUME NEW q \in Procs, q # p PROVE ReaderSaw(q)' /\ WriterKnows(q)'
    <2>1. ReaderSaw(q)'
      BY <1>5, Distinct DEF ReaderSaw, NotWritten, Idle, Writing, Reading, Prepare, Goto, reading
    <2>2. WriterKnows(q)'
      BY <1>5 DEF WriterKnows, Prepare, Goto, reading
    <2> QED  BY <2>1, <2>2
  <1> QED  BY <1>1, <1>2, <1>3, <1>4, <1>5

LEMMA PrepareFailsKeeps ==
    ASSUME TypeOK, Rest, NEW p \in Procs, PrepareFails(p)
    PROVE  Rest'
  <1> USE DEF TypeOK, Rest
  <1>1. WritersApart'
    BY Distinct DEF WritersApart, Idle, Writing, Reading, PrepareFails, Goto, reading
  <1>2. NormalizedWritten'
    BY Distinct DEF NormalizedWritten, NotWritten, Idle, Writing, Reading, PrepareFails, Goto, reading
  <1>3. ReaderSaw(p)'
    BY Distinct DEF ReaderSaw, StatusOf, NotWritten, NormalizedWritten, Idle, Writing, Reading, Words, Kinds, PrepareFails, Goto, reading
  <1>4. WriterKnows(p)'
    BY Distinct DEF WriterKnows, WritersApart, Idle, Writing, Writes, Kinds, PrepareFails, Goto, reading
  <1>5. ASSUME NEW q \in Procs, q # p PROVE ReaderSaw(q)' /\ WriterKnows(q)'
    <2>1. ReaderSaw(q)'
      BY <1>5, Distinct DEF ReaderSaw, NotWritten, Idle, Writing, Reading, PrepareFails, Goto, reading
    <2>2. WriterKnows(q)'
      BY <1>5 DEF WriterKnows, PrepareFails, Goto, reading
    <2> QED  BY <2>1, <2>2
  <1> QED  BY <1>1, <1>2, <1>3, <1>4, <1>5

LEMMA PublishFailsKeeps ==
    ASSUME TypeOK, Rest, NEW p \in Procs, PublishFails(p)
    PROVE  Rest'
  <1> USE DEF TypeOK, Rest
  <1>1. WritersApart'
    BY Distinct DEF WritersApart, Idle, Writing, Reading, PublishFails, Goto, reading
  <1>2. NormalizedWritten'
    BY Distinct DEF NormalizedWritten, NotWritten, Idle, Writing, Reading, PublishFails, Goto, reading
  <1>3. ReaderSaw(p)'
    BY Distinct DEF ReaderSaw, StatusOf, NotWritten, NormalizedWritten, Idle, Writing, Reading, Words, Kinds, PublishFails, Goto, reading
  <1>4. WriterKnows(p)'
    BY Distinct DEF WriterKnows, WritersApart, Idle, Writing, Writes, Kinds, PublishFails, Goto, reading
  <1>5. ASSUME NEW q \in Procs, q # p PROVE ReaderSaw(q)' /\ WriterKnows(q)'
    <2>1. ReaderSaw(q)'
      BY <1>5, Distinct DEF ReaderSaw, NotWritten, Idle, Writing, Reading, PublishFails, Goto, reading
    <2>2. WriterKnows(q)'
      BY <1>5 DEF WriterKnows, PublishFails, Goto, reading
    <2> QED  BY <2>1, <2>2
  <1> QED  BY <1>1, <1>2, <1>3, <1>4, <1>5

LEMMA CrashKeeps ==
    ASSUME TypeOK, Rest, NEW p \in Procs, Crash(p)
    PROVE  Rest'
  <1> USE DEF TypeOK, Rest
  <1>1. WritersApart'
    BY Distinct DEF WritersApart, Idle, Writing, Reading, Crash, Goto, reading
  <1>2. NormalizedWritten'
    BY Distinct DEF NormalizedWritten, NotWritten, Idle, Writing, Reading, Crash, Goto, reading
  <1>3. ReaderSaw(p)'
    BY Distinct DEF ReaderSaw, StatusOf, NotWritten, NormalizedWritten, Idle, Writing, Reading, Words, Kinds, Crash, Goto, reading
  <1>4. WriterKnows(p)'
    BY Distinct DEF WriterKnows, WritersApart, Idle, Writing, Writes, Kinds, Crash, Goto, reading
  <1>5. ASSUME NEW q \in Procs, q # p PROVE ReaderSaw(q)' /\ WriterKnows(q)'
    <2>1. ReaderSaw(q)'
      BY <1>5, Distinct DEF ReaderSaw, NotWritten, Idle, Writing, Reading, Crash, Goto, reading
    <2>2. WriterKnows(q)'
      BY <1>5 DEF WriterKnows, Crash, Goto, reading
    <2> QED  BY <2>1, <2>2
  <1> QED  BY <1>1, <1>2, <1>3, <1>4, <1>5

LEMMA BeginReadKeeps ==
    ASSUME TypeOK, Rest, NEW p \in Procs, BeginRead(p)
    PROVE  Rest'
  <1> USE DEF TypeOK, Rest
  <1>1. WritersApart'
    BY Distinct DEF WritersApart, Idle, Writing, Reading, BeginRead, Goto
  <1>2. NormalizedWritten'
    BY Distinct DEF NormalizedWritten, NotWritten, Idle, Writing, Reading, BeginRead, Goto
  <1>3. ReaderSaw(p)'
    BY Distinct DEF ReaderSaw, StatusOf, NotWritten, NormalizedWritten, Idle, Writing, Reading, Words, Kinds, BeginRead, Goto
  <1>4. WriterKnows(p)'
    BY Distinct DEF WriterKnows, WritersApart, Idle, Writing, Writes, Kinds, BeginRead, Goto
  <1>5. ASSUME NEW q \in Procs, q # p PROVE ReaderSaw(q)' /\ WriterKnows(q)'
    <2>1. ReaderSaw(q)'
      BY <1>5, Distinct DEF ReaderSaw, NotWritten, Idle, Writing, Reading, BeginRead, Goto
    <2>2. WriterKnows(q)'
      BY <1>5 DEF WriterKnows, BeginRead, Goto
    <2> QED  BY <2>1, <2>2
  <1> QED  BY <1>1, <1>2, <1>3, <1>4, <1>5

LEMMA LookNormalizedKeeps ==
    ASSUME TypeOK, Rest, NEW p \in Procs, LookNormalized(p)
    PROVE  Rest'
  <1> USE DEF TypeOK, Rest
  <1>1. WritersApart'
    BY Distinct DEF WritersApart, Idle, Writing, Reading, LookNormalized, Goto
  <1>2. NormalizedWritten'
    BY Distinct DEF NormalizedWritten, NotWritten, Idle, Writing, Reading, LookNormalized, Goto
  <1>3. ReaderSaw(p)'
    BY Distinct DEF ReaderSaw, StatusOf, NotWritten, NormalizedWritten, Idle, Writing, Reading, Words, Kinds, LookNormalized, Goto
  <1>4. WriterKnows(p)'
    <2>1. op'[p] = "read" /\ pc'[p] \in Reading \cup {"idle"}
      BY DEF ReaderSaw, Reading, LookNormalized, Goto
    <2> QED  BY <2>1 DEF WriterKnows, Writes, Reading
  <1>5. ASSUME NEW q \in Procs, q # p PROVE ReaderSaw(q)' /\ WriterKnows(q)'
    <2>1. ReaderSaw(q)'
      <3>1. \A g : NotWritten(g) => NotWritten(g)'
        BY DEF NotWritten, Writing, LookNormalized, Goto
      <3>2. /\ pc'[q] = pc[q] /\ op'[q] = op[q] /\ answer'[q] = answer[q]
            /\ seen'[q] = seen[q] /\ have'[q] = have[q] /\ gen'[q] = gen[q]
            /\ file' = file
        BY <1>5 DEF LookNormalized, Goto
      <3> QED  BY <3>1, <3>2 DEF ReaderSaw
    <2>2. WriterKnows(q)'
      BY <1>5 DEF WriterKnows, LookNormalized, Goto
    <2> QED  BY <2>1, <2>2
  <1> QED  BY <1>1, <1>2, <1>3, <1>4, <1>5

LEMMA LookRawKeeps ==
    ASSUME TypeOK, Rest, NEW p \in Procs, LookRaw(p)
    PROVE  Rest'
  <1> USE DEF TypeOK, Rest
  <1>1. WritersApart'
    BY Distinct DEF WritersApart, Idle, Writing, Reading, LookRaw, Answer, Goto
  <1>2. NormalizedWritten'
    BY Distinct DEF NormalizedWritten, NotWritten, Idle, Writing, Reading, LookRaw, Answer, Goto
  <1>3. ReaderSaw(p)'
    BY Distinct DEF ReaderSaw, StatusOf, NotWritten, NormalizedWritten, Idle, Writing, Reading, Words, Kinds, LookRaw, Answer, Goto
  <1>4. WriterKnows(p)'
    <2>1. op'[p] = "read" /\ pc'[p] \in Reading \cup {"idle"}
      BY DEF ReaderSaw, Reading, LookRaw, Answer, Goto
    <2> QED  BY <2>1 DEF WriterKnows, Writes, Reading
  <1>5. ASSUME NEW q \in Procs, q # p PROVE ReaderSaw(q)' /\ WriterKnows(q)'
    <2>1. ReaderSaw(q)'
      <3>1. \A g : NotWritten(g) => NotWritten(g)'
        BY DEF NotWritten, Writing, LookRaw, Answer, Goto
      <3>2. /\ pc'[q] = pc[q] /\ op'[q] = op[q] /\ answer'[q] = answer[q]
            /\ seen'[q] = seen[q] /\ have'[q] = have[q] /\ gen'[q] = gen[q]
            /\ file' = file
        BY <1>5 DEF LookRaw, Answer, Goto
      <3> QED  BY <3>1, <3>2 DEF ReaderSaw
    <2>2. WriterKnows(q)'
      BY <1>5 DEF WriterKnows, LookRaw, Answer, Goto
    <2> QED  BY <2>1, <2>2
  <1> QED  BY <1>1, <1>2, <1>3, <1>4, <1>5

LEMMA OpenNormalizedKeeps ==
    ASSUME TypeOK, Rest, NEW p \in Procs, OpenNormalized(p)
    PROVE  Rest'
  <1> USE DEF TypeOK, Rest
  <1>1. WritersApart'
    BY Distinct DEF WritersApart, Idle, Writing, Reading, OpenNormalized, Answer, Goto
  <1>2. NormalizedWritten'
    BY Distinct DEF NormalizedWritten, NotWritten, Idle, Writing, Reading, OpenNormalized, Answer, Goto
  <1>3. ReaderSaw(p)'
    BY Distinct DEF ReaderSaw, StatusOf, NotWritten, NormalizedWritten, Idle, Writing, Reading, Words, Kinds, OpenNormalized, Answer, Goto
  <1>4. WriterKnows(p)'
    <2>1. op'[p] = "read" /\ pc'[p] \in Reading \cup {"idle"}
      BY DEF ReaderSaw, Reading, OpenNormalized, Answer, Goto
    <2> QED  BY <2>1 DEF WriterKnows, Writes, Reading
  <1>5. ASSUME NEW q \in Procs, q # p PROVE ReaderSaw(q)' /\ WriterKnows(q)'
    <2>1. ReaderSaw(q)'
      <3>1. \A g : NotWritten(g) => NotWritten(g)'
        BY DEF NotWritten, Writing, OpenNormalized, Answer, Goto
      <3>2. /\ pc'[q] = pc[q] /\ op'[q] = op[q] /\ answer'[q] = answer[q]
            /\ seen'[q] = seen[q] /\ have'[q] = have[q] /\ gen'[q] = gen[q]
            /\ file' = file
        BY <1>5 DEF OpenNormalized, Answer, Goto
      <3> QED  BY <3>1, <3>2 DEF ReaderSaw
    <2>2. WriterKnows(q)'
      BY <1>5 DEF WriterKnows, OpenNormalized, Answer, Goto
    <2> QED  BY <2>1, <2>2
  <1> QED  BY <1>1, <1>2, <1>3, <1>4, <1>5

LEMMA OpenRawKeeps ==
    ASSUME TypeOK, Rest, NEW p \in Procs, OpenRaw(p)
    PROVE  Rest'
  <1> USE DEF TypeOK, Rest
  <1>1. WritersApart'
    BY Distinct DEF WritersApart, Idle, Writing, Reading, OpenRaw, Answer, Goto
  <1>2. NormalizedWritten'
    BY Distinct DEF NormalizedWritten, NotWritten, Idle, Writing, Reading, OpenRaw, Answer, Goto
  <1>3. ReaderSaw(p)'
    BY Distinct DEF ReaderSaw, StatusOf, NotWritten, NormalizedWritten, Idle, Writing, Reading, Words, Kinds, OpenRaw, Answer, Goto
  <1>4. WriterKnows(p)'
    <2>1. op'[p] = "read" /\ pc'[p] \in Reading \cup {"idle"}
      BY DEF ReaderSaw, Reading, OpenRaw, Answer, Goto
    <2> QED  BY <2>1 DEF WriterKnows, Writes, Reading
  <1>5. ASSUME NEW q \in Procs, q # p PROVE ReaderSaw(q)' /\ WriterKnows(q)'
    <2>1. ReaderSaw(q)'
      <3>1. \A g : NotWritten(g) => NotWritten(g)'
        BY DEF NotWritten, Writing, OpenRaw, Answer, Goto
      <3>2. /\ pc'[q] = pc[q] /\ op'[q] = op[q] /\ answer'[q] = answer[q]
            /\ seen'[q] = seen[q] /\ have'[q] = have[q] /\ gen'[q] = gen[q]
            /\ file' = file
        BY <1>5 DEF OpenRaw, Answer, Goto
      <3> QED  BY <3>1, <3>2 DEF ReaderSaw
    <2>2. WriterKnows(q)'
      BY <1>5 DEF WriterKnows, OpenRaw, Answer, Goto
    <2> QED  BY <2>1, <2>2
  <1> QED  BY <1>1, <1>2, <1>3, <1>4, <1>5

LEMMA OpenFailsKeeps ==
    ASSUME TypeOK, Rest, NEW p \in Procs, OpenFails(p)
    PROVE  Rest'
  <1> USE DEF TypeOK, Rest
  <1>1. WritersApart'
    BY Distinct DEF WritersApart, Idle, Writing, Reading, OpenFails, Answer, Goto
  <1>2. NormalizedWritten'
    BY Distinct DEF NormalizedWritten, NotWritten, Idle, Writing, Reading, OpenFails, Answer, Goto
  <1>3. ReaderSaw(p)'
    BY Distinct DEF ReaderSaw, StatusOf, NotWritten, NormalizedWritten, Idle, Writing, Reading, Words, Kinds, OpenFails, Answer, Goto
  <1>4. WriterKnows(p)'
    <2>1. op'[p] = "read" /\ pc'[p] \in Reading \cup {"idle"}
      BY DEF ReaderSaw, Reading, OpenFails, Answer, Goto
    <2> QED  BY <2>1 DEF WriterKnows, Writes, Reading
  <1>5. ASSUME NEW q \in Procs, q # p PROVE ReaderSaw(q)' /\ WriterKnows(q)'
    <2>1. ReaderSaw(q)'
      <3>1. \A g : NotWritten(g) => NotWritten(g)'
        BY DEF NotWritten, Writing, OpenFails, Answer, Goto
      <3>2. /\ pc'[q] = pc[q] /\ op'[q] = op[q] /\ answer'[q] = answer[q]
            /\ seen'[q] = seen[q] /\ have'[q] = have[q] /\ gen'[q] = gen[q]
            /\ file' = file
        BY <1>5 DEF OpenFails, Answer, Goto
      <3> QED  BY <3>1, <3>2 DEF ReaderSaw
    <2>2. WriterKnows(q)'
      BY <1>5 DEF WriterKnows, OpenFails, Answer, Goto
    <2> QED  BY <2>1, <2>2
  <1> QED  BY <1>1, <1>2, <1>3, <1>4, <1>5

LEMMA CheckAgeKeeps ==
    ASSUME TypeOK, Rest, NEW p \in Procs, CheckAge(p)
    PROVE  Rest'
  <1> USE DEF TypeOK, Rest
  <1>1. WritersApart'
    BY Distinct DEF WritersApart, Idle, Writing, Reading, CheckAge, Answer, Goto
  <1>2. NormalizedWritten'
    BY Distinct DEF NormalizedWritten, NotWritten, Idle, Writing, Reading, CheckAge, Answer, Goto
  <1>3. ReaderSaw(p)'
    BY Distinct DEF ReaderSaw, StatusOf, NotWritten, NormalizedWritten, Idle, Writing, Reading, Words, Kinds, CheckAge, Answer, Goto
  <1>4. WriterKnows(p)'
    <2>1. op'[p] = "read" /\ pc'[p] \in Reading \cup {"idle"}
      BY DEF ReaderSaw, Reading, CheckAge, Answer, Goto
    <2> QED  BY <2>1 DEF WriterKnows, Writes, Reading
  <1>5. ASSUME NEW q \in Procs, q # p PROVE ReaderSaw(q)' /\ WriterKnows(q)'
    <2>1. ReaderSaw(q)'
      <3>1. \A g : NotWritten(g) => NotWritten(g)'
        BY DEF NotWritten, Writing, CheckAge, Answer, Goto
      <3>2. /\ pc'[q] = pc[q] /\ op'[q] = op[q] /\ answer'[q] = answer[q]
            /\ seen'[q] = seen[q] /\ have'[q] = have[q] /\ gen'[q] = gen[q]
            /\ file' = file
        BY <1>5 DEF CheckAge, Answer, Goto
      <3> QED  BY <3>1, <3>2 DEF ReaderSaw
    <2>2. WriterKnows(q)'
      BY <1>5 DEF WriterKnows, CheckAge, Answer, Goto
    <2> QED  BY <2>1, <2>2
  <1> QED  BY <1>1, <1>2, <1>3, <1>4, <1>5

LEMMA PublishRawKeeps ==
    ASSUME TypeOK, Rest, NEW p \in Procs, PublishRaw(p)
    PROVE  Rest'
  <1> USE DEF TypeOK, Rest
  <1>1. /\ gen[p] \in Gens /\ SetFile("raw", gen[p]) /\ "raw" \in Kinds
        /\ file'["raw"] = gen[p] /\ \A j \in Kinds \ {"raw"} : file'[j] = file[j]
    BY DEF PublishRaw, Publish, SetFile, WritersApart, Writing, Kinds
  <1>2. WritersApart'
    BY <1>1 DEF WritersApart, PublishRaw, Goto, Writing, Kinds
  <1>3. NormalizedWritten'
    BY <1>1 DEF NormalizedWritten, NotWritten, WritersApart, PublishRaw, Goto, Writing, Kinds
  <1>4. ReaderSaw(p)'
    BY <1>1 DEF ReaderSaw, PublishRaw, Goto, Reading, Writing, reading
  <1>5. WriterKnows(p)'
    <2>1. file' = [file EXCEPT !["raw"] = gen[p]] /\ raced'[p] = raced[p]
      BY DEF PublishRaw, Publish, SetFile
    <2> QED  BY <1>1, <2>1 DEF WriterKnows, WritersApart, PublishRaw, Goto, Writing, Writes, Kinds
  <1>6. ASSUME NEW q \in Procs, q # p PROVE ReaderSaw(q)' /\ WriterKnows(q)'
    <2>1. /\ pc'[q] = pc[q] /\ op'[q] = op[q] /\ gen'[q] = gen[q] /\ have'[q] = have[q]
          /\ answer'[q] = answer[q] /\ before'[q] = before[q] /\ raced'[q] = TRUE
      BY <1>6 DEF PublishRaw, Publish, Goto, reading
    <2>2. \A g : NotWritten(g) => NotWritten(g)' /\ g # gen[p]
      BY DEF NotWritten, PublishRaw, Goto, Writing
    <2>3. ReaderSaw(q)'
      <3>1. CASE pc[q] \in Reading
        <4>1. pc[q] = "openRaw" => gen[p] # gen[q] /\ NotWritten(gen[q])'
          BY <2>1, <2>2 DEF ReaderSaw
        <4>2. "raw" = "raw" => file["normalized"] # gen[p]
          BY DEF WritersApart, PublishRaw, Writing
        <4> QED  BY <1>1, <2>1, <3>1, <4>1, <4>2, ReaderKeeps
      <3>2. CASE pc[q] \notin Reading
        BY <2>1, <3>2, IdleReader
      <3> QED  BY <3>1, <3>2
    <2>4. WriterKnows(q)'
      BY <2>1 DEF WriterKnows
    <2> QED  BY <2>3, <2>4
  <1> QED  BY <1>2, <1>3, <1>4, <1>5, <1>6

LEMMA PublishNormalizedKeeps ==
    ASSUME TypeOK, Rest, NEW p \in Procs, PublishNormalized(p)
    PROVE  Rest'
  <1> USE DEF TypeOK, Rest
  <1>1. /\ gen[p] \in Gens /\ SetFile("normalized", gen[p]) /\ "normalized" \in Kinds
        /\ file'["normalized"] = gen[p] /\ \A j \in Kinds \ {"normalized"} : file'[j] = file[j]
    BY DEF PublishNormalized, Publish, SetFile, WritersApart, Writing, Kinds
  <1>2. WritersApart'
    BY <1>1 DEF WritersApart, PublishNormalized, Goto, Writing, Kinds
  <1>3. NormalizedWritten'
    BY <1>1 DEF NormalizedWritten, NotWritten, WritersApart, PublishNormalized, Goto, Writing, Kinds
  <1>4. ReaderSaw(p)'
    BY <1>1 DEF ReaderSaw, PublishNormalized, Goto, Reading, Writing, reading
  <1>5. WriterKnows(p)'
    <2>1. file' = [file EXCEPT !["normalized"] = gen[p]] /\ raced'[p] = raced[p]
      BY DEF PublishNormalized, Publish, SetFile
    <2> QED  BY <1>1, <2>1 DEF WriterKnows, WritersApart, PublishNormalized, Goto, Writing, Writes, Kinds
  <1>6. ASSUME NEW q \in Procs, q # p PROVE ReaderSaw(q)' /\ WriterKnows(q)'
    <2>1. /\ pc'[q] = pc[q] /\ op'[q] = op[q] /\ gen'[q] = gen[q] /\ have'[q] = have[q]
          /\ answer'[q] = answer[q] /\ before'[q] = before[q] /\ raced'[q] = TRUE
      BY <1>6 DEF PublishNormalized, Publish, Goto, reading
    <2>2. \A g : NotWritten(g) => NotWritten(g)' /\ g # gen[p]
      BY DEF NotWritten, PublishNormalized, Goto, Writing
    <2>3. ReaderSaw(q)'
      <3>1. CASE pc[q] \in Reading
        <4>1. pc[q] = "openRaw" => gen[p] # gen[q] /\ NotWritten(gen[q])'
          BY <2>1, <2>2 DEF ReaderSaw
        <4>2. "normalized" = "raw" => file["normalized"] # gen[p]
          BY DEF WritersApart, PublishNormalized, Writing
        <4> QED  BY <1>1, <2>1, <3>1, <4>1, <4>2, ReaderKeeps
      <3>2. CASE pc[q] \notin Reading
        BY <2>1, <3>2, IdleReader
      <3> QED  BY <3>1, <3>2
    <2>4. WriterKnows(q)'
      BY <2>1 DEF WriterKnows
    <2> QED  BY <2>3, <2>4
  <1> QED  BY <1>2, <1>3, <1>4, <1>5, <1>6

LEMMA DamageKeeps ==
    ASSUME TypeOK, Rest, NEW k \in Kinds, Damage(k)
    PROVE  Rest'
  <1> USE DEF TypeOK, Rest
  <1>1. /\ SetFile(k, Broken) /\ file'[k] = Broken
        /\ \A j \in Kinds \ {k} : file'[j] = file[j]
        /\ UNCHANGED <<pc, op, gen, have, answer, before>>
    BY DEF Damage, SetFile, reading
  <1>2. WritersApart' /\ NormalizedWritten'
    BY <1>1, Distinct DEF WritersApart, NormalizedWritten, NotWritten, Kinds
  <1>3. ASSUME NEW q \in Procs PROVE ReaderSaw(q)' /\ WriterKnows(q)'
    <2>1. ReaderSaw(q)'
      <3>1. CASE pc[q] \in Reading
        <4>1. pc[q] = "openRaw" => Broken # gen[q] /\ NotWritten(gen[q])'
          BY <1>1, Distinct DEF ReaderSaw, NotWritten
        <4> QED  BY <1>1, <3>1, <4>1, Distinct, ReaderKeeps
      <3>2. CASE pc[q] \notin Reading
        BY <1>1, <3>2, IdleReader
      <3> QED  BY <3>1, <3>2
    <2>2. WriterKnows(q)'
      BY <1>1 DEF Damage, WriterKnows
    <2> QED  BY <2>1, <2>2
  <1> QED  BY <1>2, <1>3

LEMMA TickKeeps ==
    ASSUME Rest, Tick \/ UNCHANGED vars
    PROVE  Rest'
  <1>1. UNCHANGED <<file, used, pc, op, gen, have, offline, answer, seen,
                    before, raced>>
    BY DEF Tick, vars, reading
  <1> QED  BY <1>1 DEF Rest, WritersApart, NormalizedWritten, NotWritten,
              ReaderSaw, WriterKnows

LEMMA IInvInit == Init => IInv
  <1> SUFFICES ASSUME Init PROVE IInv
    OBVIOUS
  <1>1. TypeOK
    BY InitTyped
  <1>2. WritersApart /\ NormalizedWritten
    BY Distinct DEF Init, WritersApart, NormalizedWritten, Writing, Kinds
  <1>3. ASSUME NEW p \in Procs PROVE ReaderSaw(p) /\ WriterKnows(p)
    BY Distinct DEF Init, ReaderSaw, WriterKnows, Reading, Kinds
  <1> QED  BY <1>1, <1>2, <1>3 DEF IInv, Rest

LEMMA IInvStep == IInv /\ [Next]_vars => IInv'
  <1> SUFFICES ASSUME IInv, [Next]_vars PROVE IInv'
    OBVIOUS
  <1>1. TypeOK /\ Rest /\ TypeOK'
    BY StepTyped DEF IInv
  <1>2. ASSUME NEW p \in Procs, Step(p) PROVE Rest'
    BY <1>1, <1>2, BeginWriteKeeps, PrepareKeeps, PrepareFailsKeeps,
       PublishRawKeeps, PublishNormalizedKeeps, PublishFailsKeeps, CrashKeeps,
       BeginReadKeeps, LookNormalizedKeeps, LookRawKeeps, OpenNormalizedKeeps,
       OpenRawKeeps, OpenFailsKeeps, CheckAgeKeeps DEF Step
  <1>3. ASSUME NEW k \in Kinds, Damage(k) PROVE Rest'
    BY <1>1, <1>3, DamageKeeps
  <1>4. ASSUME Tick \/ UNCHANGED vars PROVE Rest'
    BY <1>1, <1>4, TickKeeps
  <1> QED  BY <1>1, <1>2, <1>3, <1>4 DEF Next, IInv

LEMMA Invariance == Spec => []IInv
  BY IInvInit, IInvStep, PTL DEF Spec

\* Every reachable state is well formed: a file holds a generation only after
\* that generation was drawn, and answers name drawn generations only.
THEOREM TypeCorrect == Spec => []TypeOK
  <1>1. IInv => TypeOK
    BY DEF IInv
  <1> QED  BY <1>1, Invariance, PTL

\* A write leaves what it reports, as long as nobody else writes.
THEOREM WritesReportTheirOutcome == Spec => []WriteOutcome
  <1>1. ASSUME IInv PROVE WriteOutcome
    <2> SUFFICES ASSUME NEW p \in Procs, op[p] \in Writes, ~raced[p]
                 PROVE
            /\ pc[p] = "wrote" /\ op[p] = "write" => StatusOf(file) = gen[p]
            /\ pc[p] = "wrote" /\ op[p] # "write" => StatusOf(file) \notin Gens
            /\ pc[p] = "failed" => file = before[p]
            /\ pc[p] = "torn" => StatusOf(file) = "untrusted"
            /\ pc[p] = "crashed" => StatusOf(file) \in
                                       {"untrusted", StatusOf(before[p])}
      BY DEF WriteOutcome
    <2> USE <1>1 DEF IInv, Rest, TypeOK, WriterKnows, Kinds
    <2>1. pc[p] # "idle" => gen[p] \in Gens
      OBVIOUS
    <2>2. \A k \in Kinds : gen[p] \in Gens => 
            StatusOf([before[p] EXCEPT ![k] = gen[p]]) = "untrusted"
      BY Distinct DEF StatusOf
    <2>3. CASE pc[p] = "wrote"
      BY <2>1, <2>2, <2>3, Distinct DEF Writes, StatusOf, Words
    <2>4. CASE pc[p] \in {"torn", "crashed", "failed"}
      BY <2>1, <2>2, <2>4
    <2> QED  BY <2>3, <2>4
  <1> QED  BY <1>1, Invariance, PTL

-----------------------------------------------------------------------------
(* Refinement of the register.                                             *)

LEMMA SetFileIsChange ==
    ASSUME TypeOK, NEW k \in Kinds, NEW v \in used \cup {Broken}, SetFile(k, v),
           Expired' = Expired, UNCHANGED <<offline, answer>>
    PROVE  Register!Change
  <1>1. StatusOf(file') \in Gens \cup {"empty", "untrusted"}
    BY SetFileTyped, StatusTyped DEF TypeOK
  <1> QED  BY <1>1 DEF SetFile, Register!Change, Register!Status, Register!Unusable

LEMMA AnswerIsReply ==
    ASSUME TypeOK, NEW p \in Procs, answer[p] = "pending", NEW v, Answer(p, v),
           (IF v \in Gens \cup {"io_error"} \/ offline[p] THEN v ELSE "none")
              \in Register!Outcomes(p),
           UNCHANGED <<file, used, at, now, offline>>
    PROVE  Register!Reply(p)
  BY DEF Answer, Register!Reply, Expired, StatusOf

\* The expiry of drawn generations does not change but by the clock.
LEMMA ExpiredSame ==
    ASSUME TypeOK, UNCHANGED <<used, at, now>>
    PROVE  Expired' = Expired
  BY DEF Expired

LEMMA RegisterInit == Init => Register!Init
  <1> SUFFICES ASSUME Init PROVE Register!Init
    OBVIOUS
  <1>1. StatusOf(file) = "empty" /\ Expired = {}
    BY DEF Init, StatusOf, Expired, Kinds
  <1> QED  BY <1>1 DEF Init, Register!Init, Register!Status, Register!Unusable

\* A read that has not ended may still report every status it saw.
LEMMA MayReport ==
    ASSUME TypeOK, NEW p \in Procs, NEW v \in {"empty", "untrusted"}, v \in seen[p]
    PROVE  (IF v \in Gens \cup {"io_error"} \/ offline[p] THEN v ELSE "none")
              \in Register!Outcomes(p)
  BY Distinct DEF Register!Outcomes, Register!Unusable, Words

LEMMA ReadStep ==
    ASSUME IInv, NEW p \in Procs,
           \/ LookNormalized(p) \/ LookRaw(p) \/ OpenNormalized(p)
           \/ OpenRaw(p) \/ OpenFails(p) \/ CheckAge(p)
    PROVE  Register!Reply(p)
              \/ UNCHANGED <<StatusOf(file), Expired, offline, seen, answer>>
  <1> USE DEF IInv, Rest, TypeOK
  <1>1. answer[p] = "pending" /\ UNCHANGED <<file, used, at, now, offline>>
    BY DEF LookNormalized, LookRaw, OpenNormalized, OpenRaw, OpenFails, CheckAge,
       ReaderSaw, Reading
  <1>2. UNCHANGED <<StatusOf(file), Expired>>
    BY <1>1, ExpiredSame DEF StatusOf
  <1>3. ASSUME NEW v \in {"empty", "untrusted"}, v \in seen[p], Answer(p, v)
        PROVE  Register!Reply(p)
    BY <1>1, <1>3, MayReport, AnswerIsReply
  <1>4. CASE UNCHANGED <<answer, seen>>
    BY <1>1, <1>2, <1>4
  <1>5. CASE LookRaw(p)
    <2>1. CASE ~have[p] /\ file["raw"] = NoFile /\ Answer(p, "empty")
      BY <1>3, <1>5, <2>1 DEF LookRaw, ReaderSaw
    <2>2. CASE have[p] # (file["raw"] # NoFile) /\ Answer(p, "untrusted")
      <3>1. "untrusted" \in seen[p]
        BY <1>5, <2>2, Distinct DEF LookRaw, ReaderSaw, StatusOf, Reading
      <3> QED  BY <1>3, <2>2, <3>1
    <2> QED  BY <1>4, <1>5, <2>1, <2>2 DEF LookRaw
  <1>6. CASE OpenNormalized(p)
    <2>1. CASE file["normalized"] \notin Gens /\ Answer(p, "untrusted")
      <3>1. "untrusted" \in seen[p]
        BY <1>6, <2>1, Distinct DEF OpenNormalized, ReaderSaw, StatusOf, Reading
      <3> QED  BY <1>3, <2>1, <3>1
    <2> QED  BY <1>4, <1>6, <2>1 DEF OpenNormalized
  <1>7. CASE OpenRaw(p)
    <2>1. CASE file["raw"] # gen[p] /\ Answer(p, "untrusted")
      BY <1>3, <1>7, <2>1 DEF OpenRaw, ReaderSaw
    <2> QED  BY <1>4, <1>7, <2>1 DEF OpenRaw
  <1>8. CASE OpenFails(p)
    BY <1>1, <1>8, AnswerIsReply DEF OpenFails, Register!Outcomes
  <1>9. CASE CheckAge(p)
    <2>1. gen[p] \in Gens /\ gen[p] \in seen[p]
      BY <1>9 DEF CheckAge, ReaderSaw
    <2>2. CASE ~offline[p] /\ gen[p] \in Expired
      <3>1. Answer(p, "none") /\ "none" \notin Gens \cup {"io_error"}
        BY <1>9, <2>2, Distinct DEF CheckAge, Words
      <3>2. "none" \in Register!Outcomes(p)
        BY <2>1, <2>2 DEF Register!Outcomes
      <3> QED  BY <1>1, <2>2, <3>1, <3>2, AnswerIsReply
    <2>3. CASE ~(~offline[p] /\ gen[p] \in Expired)
      <3>1. Answer(p, gen[p])
        BY <1>9, <2>3 DEF CheckAge
      <3>2. gen[p] \in Register!Outcomes(p)
        BY <2>1, <2>3 DEF Register!Outcomes
      <3> QED  BY <1>1, <2>1, <3>1, <3>2, AnswerIsReply
    <2> QED  BY <2>2, <2>3
  <1>10. CASE LookNormalized(p)
    BY <1>4, <1>10 DEF LookNormalized
  <1> QED  BY <1>5, <1>6, <1>7, <1>8, <1>9, <1>10

LEMMA RegisterStep == IInv /\ [Next]_vars => [Register!Next]_(Register!rvars)
  <1> SUFFICES ASSUME IInv, [Next]_vars
               PROVE  Register!Next
                 \/ UNCHANGED <<StatusOf(file), Expired, offline, seen, answer>>
    BY DEF Register!rvars
  <1> USE DEF IInv, Rest, TypeOK
  <1>1. ASSUME UNCHANGED <<file, used, at, now, offline, seen, answer>>
        PROVE  UNCHANGED <<StatusOf(file), Expired, offline, seen, answer>>
    BY <1>1, ExpiredSame DEF StatusOf
  <1>2. ASSUME NEW p \in Procs, BeginWrite(p)
        PROVE  UNCHANGED <<StatusOf(file), Expired, offline, seen, answer>>
    <2>1. PICK g \in Gens \ used : used' = used \cup {g} /\ at' = [at EXCEPT ![g] = now]
      BY <1>2 DEF BeginWrite
    <2>2. Expired' = Expired
      BY <1>2, <2>1, CacheAssumption DEF BeginWrite, Expired
    <2> QED  BY <1>2, <2>2 DEF BeginWrite, reading, StatusOf
  <1>3. ASSUME NEW p \in Procs, PublishRaw(p) \/ PublishNormalized(p)
        PROVE  Register!Next
    <2>1. gen[p] \in used
      BY <1>3, Distinct DEF PublishRaw, PublishNormalized, WritersApart, Writing
    <2>2. UNCHANGED <<used, at, now, offline, answer>>
      BY <1>3 DEF PublishRaw, PublishNormalized, reading
    <2>3. \E k \in Kinds : SetFile(k, gen[p])
      BY <1>3 DEF PublishRaw, PublishNormalized, Publish, Kinds
    <2> QED  BY <2>1, <2>2, <2>3, SetFileIsChange, ExpiredSame DEF Register!Next
  <1>4. ASSUME NEW p \in Procs, BeginRead(p) PROVE Register!Next
    <2>1. Register!Begin(p)
      BY <1>4, ExpiredSame DEF BeginRead, Register!Begin, StatusOf
    <2> QED  BY <2>1 DEF Register!Next
  <1>5. ASSUME NEW p \in Procs,
               \/ Prepare(p) \/ PrepareFails(p) \/ PublishFails(p) \/ Crash(p)
        PROVE  UNCHANGED <<StatusOf(file), Expired, offline, seen, answer>>
    BY <1>1, <1>5 DEF Prepare, PrepareFails, PublishFails, Crash, reading
  <1>6. ASSUME NEW p \in Procs,
               \/ LookNormalized(p) \/ LookRaw(p) \/ OpenNormalized(p)
               \/ OpenRaw(p) \/ OpenFails(p) \/ CheckAge(p)
        PROVE  Register!Next
                 \/ UNCHANGED <<StatusOf(file), Expired, offline, seen, answer>>
    BY <1>6, ReadStep DEF Register!Next
  <1>7. ASSUME NEW k \in Kinds, Damage(k) PROVE Register!Next
    <2>1. SetFile(k, Broken) /\ UNCHANGED <<used, at, now, offline, answer>>
      BY <1>7 DEF Damage, reading
    <2> QED  BY <2>1, SetFileIsChange, ExpiredSame DEF Register!Next
  <1>8. CASE Tick
    <2>1. Expired \subseteq Expired' /\ Expired' \subseteq Gens
      BY <1>8, CacheAssumption DEF Tick, Expired
    <2>2. Register!Expire
      BY <1>8, <2>1 DEF Tick, reading, Register!Expire, StatusOf
    <2> QED  BY <2>2 DEF Register!Next
  <1>9. CASE UNCHANGED vars
    BY <1>1, <1>9 DEF vars, reading
  <1> QED  BY <1>2, <1>3, <1>4, <1>5, <1>6, <1>7, <1>8, <1>9 DEF Next, Step

\* Whatever the interleaving, the two files behave as one register.
THEOREM CacheImplementsRegister == Spec => ReadsOneRegister
  BY RegisterInit, RegisterStep, Invariance, PTL
  DEF Spec, ReadsOneRegister, Register!Spec
=============================================================================

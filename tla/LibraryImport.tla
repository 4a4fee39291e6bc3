----------------------------- MODULE LibraryImport -----------------------------
(***************************************************************************)
(* The import of EasyEDA parts into KiCad libraries (__main__.py's loop    *)
(* over --lcsc_id and _process_component, easyeda_api.py with its resource *)
(* cache, export_kicad_symbol.py's library file, the footprint and 3D      *)
(* exporters): commands that run one after the other or at once in one     *)
(* working directory, with one output and one .easyeda_cache.              *)
(*                                                                         *)
(* Nothing is locked or staged here.  A file is opened, which truncates    *)
(* it, and then filled: between the two another command reads it torn, and *)
(* a command that dies leaves it so.  What a file holds is abstracted to   *)
(* the part and the revision at the server that it was made from.          *)
(***************************************************************************)
EXTENDS Naturals, Sequences, FiniteSets, SequencesExt, FiniteSetsExt

CONSTANTS
    Procs,
    Ids,            \* LCSC numbers
    Parts,          \* Parts[i]: [symbol, footprint, model, text, unsafe]
    Bare,           \* 3D models whose OBJ data name no material
    Commands,       \* [ids, artifacts, overwrite, cached, register]
    MaxRuns, MaxRevisions, MaxFaults,
    None

Stages == <<"symbol", "footprint", "svg", "3d">>
Texts == {"plain", "escaped", "raw"}

\* What a file was made from: a part at a revision, of sound data, whole or torn.
Contents == [id : Ids, rev : Nat, sound : BOOLEAN, whole : BOOLEAN]

ASSUME ImportAssumption ==
    /\ MaxRuns \in Nat /\ MaxRevisions \in Nat \ {0} /\ MaxFaults \in Nat
    /\ \A i \in Ids : Parts[i].text \in Texts /\ Parts[i].unsafe \subseteq {"footprint", "3d"}
    /\ \A c \in Commands : /\ c.ids \in Seq(Ids) /\ c.ids # <<>>
                           /\ c.artifacts \subseteq Range(Stages)
    /\ None \notin Contents \cup Commands \cup Range(Stages)

VARIABLES
    lib,        \* the symbol library: [symbols, state]
    file,       \* every other file: None or what it was made from
    revision,   \* of the parts at the server
    pc, command, position, \* each command line and the part it is at
    cad,        \* the CAD data of that part
    model,      \* its OBJ and STEP data
    update,     \* the new text of the library
    job,        \* the file about to be written
    failed,     \* had_errors
    runs, faults,
    touched, readable, hindered, lacking, since   \* history of each run

files == <<lib, file>>
history == <<touched, readable, hindered, lacking, since>>
work == <<cad, model, update, job>>
vars == <<files, revision, pc, command, position, work, failed, runs, faults, history>>

Models == {Parts[i].model : i \in Ids} \ {None}
Cache == {"json"} \X Ids \cup {"obj", "stp"} \X Models
Artifacts == ({"footprint"} \X {Parts[i].footprint : i \in Ids})
             \cup ({"wrl", "step"} \X Models) \cup ({"svg"} \X Ids)

NoLib == [symbols |-> <<>>, state |-> "absent"]
Empty == [symbols |-> <<>>, state |-> "empty"]
Skeleton == [symbols |-> <<>>, state |-> "whole"]

Init ==
    /\ lib = NoLib /\ file = [f \in Cache \cup Artifacts |-> None]
    /\ revision = 1
    /\ pc = [p \in Procs |-> "idle"] /\ command = [p \in Procs |-> None]
    /\ position = [p \in Procs |-> 1] /\ cad = [p \in Procs |-> None]
    /\ model = [p \in Procs |-> None] /\ update = [p \in Procs |-> NoLib]
    /\ job = [p \in Procs |-> None] /\ failed = [p \in Procs |-> FALSE]
    /\ runs = 0 /\ faults = 0
    /\ touched = [p \in Procs |-> FALSE] /\ readable = [p \in Procs |-> TRUE]
    /\ hindered = [p \in Procs |-> FALSE] /\ lacking = [p \in Procs |-> {}]
    /\ since = [p \in Procs |-> 1]

-----------------------------------------------------------------------------
(* Where a command goes next.                                              *)

Id(p) == command[p].ids[position[p]]
Part(p) == Parts[Id(p)]
Replaces(p) == command[p].overwrite

\* The stages come in one order; each is asked for by a flag.
Following(p, stage) ==
    LET later == {n \in 1 .. Len(Stages) :
                    /\ Stages[n] \in command[p].artifacts
                    /\ \A m \in 1 .. Len(Stages) : Stages[m] = stage => m < n}
    IN IF later = {} THEN "next" ELSE Stages[Min(later)]

Goto(p, next) == pc' = [pc EXCEPT ![p] = next]

\* Mutant: a stage that gives up is not reported.
FailsQuietly(p) == Goto(p, "next") /\ UNCHANGED failed
\* _process_component returns False: what was written before stays.
Fails(p) ==
    /\ failed' = [failed EXCEPT ![p] = TRUE]
    /\ Goto(p, "next")

\* A file is going to be written, and then the command goes on.
Schedules(p, key, content, next) ==
    /\ job' = [job EXCEPT ![p] = [key |-> key, content |-> content, next |-> next]]
    /\ Goto(p, "open")

\* What a command works on ends with the part, and with the command.
Forget(p) ==
    /\ cad' = [cad EXCEPT ![p] = None] /\ model' = [model EXCEPT ![p] = None]
    /\ update' = [update EXCEPT ![p] = NoLib] /\ job' = [job EXCEPT ![p] = None]

Content(i, rev, sound) == [id |-> i, rev |-> rev, sound |-> sound, whole |-> TRUE]

\* Another command writes what this one imports.
Touch(p) ==
    touched' = [q \in Procs |-> touched[q] \/ (q # p /\ pc[q] # "idle")]

Start(p, c) ==
    /\ pc[p] \in {"idle", "done", "dead"} /\ runs < MaxRuns
    /\ runs' = runs + 1
    /\ command' = [command EXCEPT ![p] = c]
    /\ position' = [position EXCEPT ![p] = 1]
    /\ failed' = [failed EXCEPT ![p] = FALSE]
    /\ touched' = [touched EXCEPT ![p] = FALSE]
    /\ readable' = [readable EXCEPT ![p] = lib.state \in {"absent", "whole"}]
    /\ hindered' = [hindered EXCEPT ![p] = FALSE]
    /\ lacking' = [lacking EXCEPT ![p] = {}]
    /\ since' = [since EXCEPT ![p] = revision]
    /\ Goto(p, "fetch")
    /\ UNCHANGED <<files, revision, work, faults>>

-----------------------------------------------------------------------------
(* easyeda_api.py: the part's data, from the cache or the server.          *)

\* Mutant: whatever the cache holds is taken for the part.
Present(content) == content # None
\* _component_envelope_state: a torn file is no JSON envelope.
Valid(content) == content # None /\ content.whole

FetchCached(p) ==
    /\ pc[p] = "fetch"
    /\ command[p].cached /\ Valid(file[<<"json", Id(p)>>])
    /\ cad' = [cad EXCEPT ![p] = file[<<"json", Id(p)>>]]
    /\ Goto(p, Following(p, None))
    /\ UNCHANGED <<files, revision, command, position, model, update, job, failed,
                   runs, faults, history>>

\* Neither the cache nor the server has it: a failed request, or no part.
FetchFails(p) ==
    /\ pc[p] = "fetch"
    /\ ~(command[p].cached /\ Valid(file[<<"json", Id(p)>>]))
    /\ Fails(p)
    /\ hindered' = [hindered EXCEPT ![p] = TRUE]
    /\ UNCHANGED <<files, revision, command, position, work, runs, faults, touched,
                   readable, lacking, since>>

Fetch(p) ==
    /\ pc[p] = "fetch"
    /\ ~(command[p].cached /\ Valid(file[<<"json", Id(p)>>]))
    /\ LET answer == Content(Id(p), revision, TRUE)
       IN /\ cad' = [cad EXCEPT ![p] = answer]
          /\ IF command[p].cached
             THEN Schedules(p, <<"json", Id(p)>>, answer, Following(p, None))
             ELSE Goto(p, Following(p, None)) /\ UNCHANGED job
    /\ UNCHANGED <<files, revision, command, position, model, update, failed, runs,
                   faults, history>>

-----------------------------------------------------------------------------
(* The symbol: id_already_in_symbol_lib, then a new text of the library.   *)

\* Where the library holds a symbol of that name, 0 if it does not.
IndexOf(symbols, name) ==
    LET found == {n \in 1 .. Len(symbols) : symbols[n].name = name}
    IN IF found = {} THEN 0 ELSE Min(found)

Symbol(p) == [name |-> Part(p).symbol, id |-> Id(p), rev |-> cad[p].rev,
              text |-> Part(p).text]

CheckSymbol(p) ==
    /\ pc[p] = "symbol"
    /\ IF IndexOf(lib.symbols, Part(p).symbol) # 0 /\ ~Replaces(p)
       THEN Fails(p)
       ELSE Goto(p, "insert") /\ UNCHANGED failed
    /\ UNCHANGED <<files, revision, command, position, work, runs, faults, history>>

\* The template of re.sub reads backslashes once more.
Substituted(symbol) ==
    [symbol EXCEPT !.text = IF @ = "escaped" THEN "decoded" ELSE @]

\* write_component_in_symbol_lib_file: the new text, from the old one.
Put(current, symbol) ==
    LET n == IndexOf(current.symbols, symbol.name)
    IN [current EXCEPT !.symbols = IF n # 0 THEN [@ EXCEPT ![n] = Substituted(symbol)]
                                   ELSE Append(@, symbol)]

\* "no closing parenthesis found", or an escape that re.sub does not know.
Unwritable(p, current) ==
    \/ current.state = "empty"
    \/ IndexOf(current.symbols, Part(p).symbol) # 0 /\ Part(p).text = "raw"

Insert(p) ==
    /\ pc[p] = "insert"
    /\ LET current == IF lib.state = "absent" THEN Skeleton ELSE lib
       IN /\ lib' = current
          /\ IF Unwritable(p, current)
             THEN Forget(p) /\ Goto(p, "dead")
             ELSE /\ update' = [update EXCEPT ![p] = Put(current, Symbol(p))]
                  /\ Goto(p, "truncate") /\ UNCHANGED <<cad, model, job>>
    /\ UNCHANGED <<file, revision, command, position, failed, runs, faults, history>>

Truncate(p) ==
    /\ pc[p] = "truncate"
    /\ lib' = Empty
    /\ Touch(p) /\ Goto(p, "write")
    /\ UNCHANGED <<file, revision, command, position, work, failed, runs, faults,
                   readable, hindered, lacking, since>>

Write(p) ==
    /\ pc[p] = "write"
    /\ lib' = update[p] /\ update' = [update EXCEPT ![p] = NoLib]
    /\ Touch(p) /\ Goto(p, Following(p, "symbol"))
    /\ UNCHANGED <<file, revision, command, position, cad, model, job, failed, runs, faults,
                   readable, hindered, lacking, since>>

-----------------------------------------------------------------------------
(* Footprint, drawings and 3D model: one file each.                        *)

\* Mutant: the footprint's check forgets --overwrite.
TakenAnyway(p, key) == file[key] # None
Taken(p, key) == file[key] # None /\ ~Replaces(p)

\* The footprint names its 3D model, whether or not that is exported.
ExportFootprint(p) ==
    /\ pc[p] = "footprint"
    /\ LET key == <<"footprint", Part(p).footprint>>
       IN IF "footprint" \in Part(p).unsafe \/ Taken(p, key)
          THEN /\ Fails(p)
               /\ hindered' = [hindered EXCEPT ![p] = @ \/ "footprint" \in Part(p).unsafe]
               /\ UNCHANGED job
          ELSE /\ Schedules(p, key, cad[p], Following(p, "footprint"))
               /\ UNCHANGED <<failed, hindered>>
    /\ UNCHANGED <<files, revision, command, position, cad, model, update, runs, faults,
                   touched, readable, lacking, since>>

\* Drawings are replaced without a question.
ExportSvg(p) ==
    /\ pc[p] = "svg"
    /\ Schedules(p, <<"svg", Id(p)>>, cad[p], Following(p, "svg"))
    /\ UNCHANGED <<files, revision, command, position, cad, model, update, failed, runs,
                   faults, history>>

\* A part without a model is only warned about.
StartModel(p) ==
    /\ pc[p] = "3d"
    /\ IF Part(p).model = None
       THEN Goto(p, "next") /\ UNCHANGED model
       ELSE /\ model' = [model EXCEPT ![p] = [obj |-> None, stp |-> None]]
            /\ Goto(p, "obj")
    /\ UNCHANGED <<files, revision, command, position, cad, update, job, failed, runs,
                   faults, history>>

\* No model data: only a warning is logged, and the part goes on without.
Lacks(p) == lacking' = [lacking EXCEPT ![p] = @ \cup {Id(p)}]

\* The cached OBJ or STEP data are taken as they are; nothing validates them.
\* An empty file, as a command leaves it that dies after opening it, is a hit,
\* and later counts as no data.
ModelCached(p, kind, next) ==
    /\ pc[p] = kind
    /\ command[p].cached /\ file[<<kind, Part(p).model>>] # None
    /\ LET content == file[<<kind, Part(p).model>>]
       IN \/ /\ model' = [model EXCEPT ![p][kind] =
                      [content EXCEPT !.sound = @ /\ content.whole, !.whole = TRUE]]
             /\ UNCHANGED lacking
          \/ ~content.whole /\ Lacks(p) /\ UNCHANGED model
    /\ Goto(p, next)
    /\ UNCHANGED <<files, revision, command, position, cad, update, job, failed,
                   runs, faults, touched, readable, hindered, since>>

\* No cached data: OBJ text that was cut within a character cannot be decoded.
ModelMiss(p, kind) ==
    LET content == file[<<kind, Part(p).model>>]
    IN ~(command[p].cached /\ content # None /\ (kind = "obj" => content.whole))

ModelMissing(p, kind, next) ==
    /\ pc[p] = kind
    /\ ModelMiss(p, kind)
    /\ Lacks(p) /\ Goto(p, next)
    /\ UNCHANGED <<files, revision, command, position, work, failed, runs, faults,
                   touched, readable, hindered, since>>

FetchModel(p, kind, next) ==
    /\ pc[p] = kind
    /\ ModelMiss(p, kind)
    /\ LET answer == Content(Id(p), revision, TRUE)
       IN /\ model' = [model EXCEPT ![p][kind] = answer]
          /\ IF command[p].cached
             THEN Schedules(p, <<kind, Part(p).model>>, answer, next)
             ELSE Goto(p, next) /\ UNCHANGED job
    /\ UNCHANGED <<files, revision, command, position, cad, update, failed, runs, faults,
                   history>>

\* Mutant: only a complete model counts as existing.
BothExist(m) == file[<<"wrl", m>>] # None /\ file[<<"step", m>>] # None
ModelExists(m) == file[<<"wrl", m>>] # None \/ file[<<"step", m>>] # None

\* OBJ data without materials give no WRL; a prefix of any data may name none.
MayHaveShapes(p) == Part(p).model \notin Bare
MayLackShapes(p) == Part(p).model \in Bare \/ ~model[p].obj.sound

\* Exporter3dModelKicad: nothing without OBJ data; the WRL if there is one,
\* then the STEP file.
ExportModel(p) ==
    /\ pc[p] = "export"
    /\ CASE "3d" \in Part(p).unsafe ->
              /\ Fails(p) /\ hindered' = [hindered EXCEPT ![p] = TRUE]
              /\ UNCHANGED <<job, lacking>>
         [] "3d" \notin Part(p).unsafe /\ model[p].obj = None ->
              Goto(p, "next") /\ UNCHANGED <<failed, hindered, job, lacking>>
         [] "3d" \notin Part(p).unsafe /\ model[p].obj # None
            /\ ~Replaces(p) /\ ModelExists(Part(p).model) ->
              Fails(p) /\ UNCHANGED <<hindered, job, lacking>>
         [] OTHER ->
              /\ \/ /\ MayHaveShapes(p)
                    /\ Schedules(p, <<"wrl", Part(p).model>>, model[p].obj, "step")
                    /\ UNCHANGED lacking
                 \/ MayLackShapes(p) /\ Lacks(p) /\ Goto(p, "step") /\ UNCHANGED job
              /\ UNCHANGED <<failed, hindered>>
    /\ UNCHANGED <<files, revision, command, position, cad, model, update, runs, faults,
                   touched, readable, since>>

ExportStep(p) ==
    /\ pc[p] = "step"
    /\ IF model[p].stp = None
       THEN Goto(p, "next") /\ UNCHANGED job
       ELSE Schedules(p, <<"step", Part(p).model>>, model[p].stp, "next")
    /\ UNCHANGED <<files, revision, command, position, cad, model, update, failed, runs,
                   faults, history>>

Open(p) ==
    /\ pc[p] = "open"
    /\ file' = [file EXCEPT ![job[p].key] = [job[p].content EXCEPT !.whole = FALSE]]
    /\ IF job[p].key \in Artifacts THEN Touch(p) ELSE UNCHANGED touched
    /\ Goto(p, "close")
    /\ UNCHANGED <<lib, revision, command, position, work, failed, runs, faults,
                   readable, hindered, lacking, since>>

Close(p) ==
    /\ pc[p] = "close"
    /\ file' = [file EXCEPT ![job[p].key] = job[p].content]
    /\ IF job[p].key \in Artifacts THEN Touch(p) ELSE UNCHANGED touched
    /\ Goto(p, job[p].next) /\ job' = [job EXCEPT ![p] = None]
    /\ UNCHANGED <<lib, revision, command, position, cad, model, update, failed, runs, faults,
                   readable, hindered, lacking, since>>

\* A cache file that cannot be filled is only warned about, and stays torn.
CacheFails(p) ==
    /\ pc[p] = "close" /\ job[p].key \in Cache /\ faults < MaxFaults
    /\ faults' = faults + 1
    /\ Goto(p, job[p].next) /\ job' = [job EXCEPT ![p] = None]
    /\ UNCHANGED <<files, revision, command, position, cad, model, update, failed, runs, history>>

-----------------------------------------------------------------------------
(* The end of a part and of a command, and what ends it early.             *)

NextPart(p) ==
    /\ pc[p] = "next" /\ position[p] < Len(command[p].ids)
    /\ position' = [position EXCEPT ![p] = @ + 1]
    /\ Forget(p) /\ Goto(p, "fetch")
    /\ UNCHANGED <<files, revision, command, failed, runs, faults, history>>

\* The libraries are registered only if every part was imported; registering
\* is ProjectRegistration's.
Finish(p) ==
    /\ pc[p] = "next" /\ position[p] = Len(command[p].ids)
    /\ \/ UNCHANGED failed
       \/ command[p].register /\ ~failed[p] /\ failed' = [failed EXCEPT ![p] = TRUE]
    /\ Forget(p) /\ Goto(p, "done")
    /\ UNCHANGED <<files, revision, command, position, runs, faults, history>>

\* Killed, or ended by an exception on data that an importer cannot read.
Die(p) ==
    /\ pc[p] \notin {"idle", "done", "dead"} /\ faults < MaxFaults
    /\ faults' = faults + 1 /\ Forget(p) /\ Goto(p, "dead")
    /\ UNCHANGED <<files, revision, command, position, failed, runs, history>>

\* Killed while the library is written: a prefix of the text is left.
DieWriting(p) ==
    /\ pc[p] = "write" /\ faults < MaxFaults
    /\ faults' = faults + 1
    /\ \E n \in 0 .. Len(update[p].symbols) :
         lib' = [symbols |-> SubSeq(update[p].symbols, 1, n), state |-> "broken"]
    /\ Touch(p) /\ Forget(p) /\ Goto(p, "dead")
    /\ UNCHANGED <<file, revision, command, position, failed, runs, readable,
                   hindered, lacking, since>>

Publish ==
    /\ revision < MaxRevisions
    /\ revision' = revision + 1
    /\ UNCHANGED <<files, pc, command, position, work, failed, runs, faults, history>>

Step(p) ==
    \/ FetchCached(p) \/ FetchFails(p) \/ Fetch(p)
    \/ CheckSymbol(p) \/ Insert(p) \/ Truncate(p) \/ Write(p)
    \/ ExportFootprint(p) \/ ExportSvg(p) \/ StartModel(p)
    \/ \E kind \in {"obj", "stp"} :
         LET next == IF kind = "obj" THEN "stp" ELSE "export"
         IN ModelCached(p, kind, next) \/ ModelMissing(p, kind, next)
            \/ FetchModel(p, kind, next)
    \/ ExportModel(p) \/ ExportStep(p)
    \/ Open(p) \/ Close(p) \/ CacheFails(p) \/ NextPart(p) \/ Finish(p)
    \/ Die(p) \/ DieWriting(p)

Next == Publish \/ \E p \in Procs : Step(p) \/ \E c \in Commands : Start(p, c)

Spec == Init /\ [][Next]_vars

-----------------------------------------------------------------------------
(* Properties.                                                             *)

\* The part of the command that has the last word on a name.
LastWord(p, name(_), i) ==
    command[p].ids[Max({n \in 1 .. Len(command[p].ids) :
                          name(command[p].ids[n]) = name(i)})]

SymbolName(i) == Parts[i].symbol
FootprintName(i) == Parts[i].footprint

Written(key) == file[key] # None /\ file[key].whole
Fresh(p, content) == ~command[p].cached => content.rev >= since[p]

Imported(p, i) ==
    LET wanted == command[p].artifacts
        footprint == <<"footprint", Parts[i].footprint>>
    IN
    /\ "symbol" \in wanted =>
         /\ lib.state = "whole"
         /\ \E s \in Range(lib.symbols) : s.name = SymbolName(i)
         /\ \A s \in Range(lib.symbols) : s.name = SymbolName(i) =>
              s.id = LastWord(p, SymbolName, i) /\ Fresh(p, s)
    /\ "footprint" \in wanted =>
         /\ Written(footprint) /\ Fresh(p, file[footprint])
         /\ file[footprint].id = LastWord(p, FootprintName, i)
    /\ "svg" \in wanted =>
         /\ Written(<<"svg", i>>) /\ Fresh(p, file[<<"svg", i>>])
         /\ file[<<"svg", i>>].id = i
    /\ "3d" \in wanted /\ Parts[i].model # None /\ lacking[p] = {} =>
         \A kind \in {"wrl", "step"} :
           LET key == <<kind, Parts[i].model>>
           IN Written(key) /\ (command[p].cached \/ file[key].sound)

Finished(p) == pc[p] = "next" /\ position[p] = Len(command[p].ids)

\* Before a command without errors registers its libraries, and whatever other
\* commands left behind when they died, a readable library has every symbol and
\* each artifact that was asked for is a whole file of its part, not older than the command
\* unless it used the cache, unless another command wrote at the same time.  3D
\* models are there only if no part of the command lacked model data, which is no
\* error: refused by the server, empty in the cache or without materials
\* (__main__.py:2445-2460).
SuccessIsImported ==
    \A p \in Procs : Finished(p) /\ ~failed[p] /\ ~touched[p] /\ readable[p]
        => \A i \in Range(command[p].ids) : Imported(p, i)

\* What a dead command or a full disk left of a cached component, or another
\* command is just writing, is never imported (easyeda_api.py:218-262).
CadDataIsWhole ==
    \A p \in Procs : cad[p] # None => cad[p].whole /\ cad[p].id = Id(p)

\* --overwrite makes good whatever an earlier command left half done: it ends
\* with every part imported unless data were refused or unsafe, or the library
\* was already unreadable.  A 3D model is not made good if model data were lacking,
\* as they are when the cached file was left empty (__main__.py:1235-1334).
OverwriteRepairs ==
    \A p \in Procs : /\ Finished(p) /\ command[p].overwrite
                     /\ ~hindered[p] /\ ~touched[p] /\ readable[p]
        => \A i \in Range(command[p].ids) : Imported(p, i)

\* Without --overwrite a command that runs alone opens no artifact that exists,
\* be it half of a 3D model that a dead command left, and keeps every symbol
\* (export_kicad_3d_model.py:268, export_kicad_symbol.py:706).
NothingIsReplaced ==
    \A p \in Procs : command[p] # None /\ ~Replaces(p) /\ ~touched[p] =>
        /\ pc[p] = "open" /\ job[p].key \in Artifacts /\ job[p].key[1] # "svg"
             => file[job[p].key] = None
        /\ pc[p] = "truncate" => Range(lib.symbols) \subseteq Range(update[p].symbols)

\* "Write a symbol into the library, replacing it if it already exists"
\* (export_kicad_symbol.py:92): what the library holds is what was exported.
LibraryHoldsTheExport ==
    \A s \in Range(lib.symbols) : s.text = Parts[s.id].text
=============================================================================

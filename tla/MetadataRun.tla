----------------------------- MODULE MetadataRun -----------------------------
(***************************************************************************)
(* One run of the metadata mode (__main__.py, _run_metadata_mode) and the  *)
(* machine result made of it (machine.py, build_machine_result): the exact *)
(* resolution, the verification of its CAD data, the search for another    *)
(* CAD source, the export, the registration and the manifests.             *)
(*                                                                         *)
(* The outcome of the resolution is not assumed: the module extends its    *)
(* specification and goes on from every state in which it stops.  What     *)
(* EasyEDA's shapes parse to, what a local package holds and which write   *)
(* fails is arbitrary.  The command line is constant; the options that the *)
(* resolution does not read are picked when it has ended, which gives the  *)
(* same runs as picking them first.                                        *)
(***************************************************************************)
EXTENDS MetadataResolution

CONSTANT OptionSets   \* the command lines considered

VARIABLES
    options,
    phase,
    verification, \* verification_status
    parsed,       \* symbol and footprint that could be parsed
    model,        \* result.cad.model_3d
    notes,        \* provider_errors of things that are no provider
    tried,        \* statuses of the handoffs that did not fit
    library,      \* what this run wrote in the output libraries
    registered,   \* the project lists the libraries
    part,         \* arguments["_machine_merged"]: its two statuses
    manifest,     \* status in the manifests that were written
    code,         \* arguments["_machine_error_code"]
    core,         \* exit code of _run_metadata_mode
    result        \* the machine result: exit code, errors, actions_required

effects == <<library, registered, manifest>>
verdict == <<verification, parsed, model>>
outcome == <<part, code, core, result>>
runVars == <<options, phase, verdict, notes, tried, effects, outcome>>
vars == <<resolution, runVars>>

Artifacts == {"symbol", "footprint", "model_3d"}
Noted == {"cad_verification", "datasheet", "export"}
LockCodes == {"CAD_SOURCE_CONFLICT", "CAD_SOURCE_LOCK_MISMATCH"}
PackageStatuses == {"CAD_PACKAGE_READY", "CAD_PARTIAL"}
Statuses == {"VERIFIED", "PARTIAL", "CAD_NOT_FOUND", "CAD_PIN_PAD_MISMATCH"}

Parts == [status : Statuses, cad : Optional(Statuses)]

\* Python's None is none of the words and parts of a run.
ASSUME RunAssumption ==
    /\ OptionSets \subseteq
           [artifacts : SUBSET Artifacts, full : BOOLEAN, candidates : BOOLEAN,
            locked : BOOLEAN, register : BOOLEAN, manifest : BOOLEAN,
            requireCad : BOOLEAN, requireJlcpcb : BOOLEAN,
            requireProject : BOOLEAN, required : SUBSET Providers]
    /\ None \notin Statuses \cup PackageStatuses \cup LockCodes \cup Parts
    /\ None \notin {"easyeda", "package", "DATASHEET_UNAVAILABLE", "EXPORT_FAILED"}

\* The combinations that valid_arguments accepts for this request.
Accepted(o, package) ==
    /\ o.full => o.artifacts = Artifacts
    /\ o.candidates => /\ request.cadSource = "auto" /\ ~package
                       /\ request.mpn # None /\ request.mfr # None
    /\ package => /\ request.cadSource \in Distributors
                  /\ request.mpn # None /\ request.mfr # None
    /\ o.locked => o.candidates
    /\ o.register => o.candidates \/ package \/ {"symbol", "footprint"} \subseteq o.artifacts
    /\ o.requireProject => o.register
    /\ o.required \subseteq request.providers

RunInit ==
    /\ Init
    /\ options = None /\ phase = "resolve"
    /\ verification = "PARTIAL" /\ parsed = {} /\ model = FALSE
    /\ notes = [n \in Noted |-> None]
    /\ tried = {}
    /\ library = None /\ registered = FALSE /\ manifest = None
    /\ part = None /\ code = None /\ core = 0 /\ result = None

Enter(p) == phase' = p /\ UNCHANGED core
Return(c) == phase' = "answer" /\ core' = c
Blocks(status) == blocking' = status

-----------------------------------------------------------------------------
(* Resolution and the verification of its CAD data.                        *)

Resolving ==
    /\ phase = "resolve" /\ Resolve
    /\ UNCHANGED runVars

Begin ==
    /\ phase = "resolve" /\ stage \in {"resolved", "raised"}
    /\ \E o \in OptionSets : Accepted(o, FALSE) /\ options' = o
    /\ \/ stage = "resolved" /\ Enter("verify") /\ UNCHANGED code
       \/ stage = "raised" /\ code' = raised /\ Return(1)
    /\ UNCHANGED <<resolution, verdict, notes, tried, effects, part, result>>

Wanted == options.artifacts \cap {"symbol", "footprint"}
Check(status, found, source, c) ==
    [status |-> status, found |-> found, source |-> source, code |-> c]

\* What _verify_metadata_cad can conclude from the payload: an artifact
\* cannot be parsed, has no pins or pads, pins and pads disagree, or all is
\* well.  Only the requested artifacts are looked at.
Checks ==
    IF cadIdentity = None
    THEN {Check(IF cad = "CAD_NOT_FOUND" THEN cad ELSE "PARTIAL", {}, None, None)}
    ELSE {Check("VERIFIED", Wanted, None, None)}
         \cup {Check("PARTIAL", IF a = "symbol" THEN {} ELSE Wanted \ {a},
                     "easyeda", "INVALID_RESPONSE") : a \in Wanted}
         \cup {Check("PARTIAL", Wanted \ S, "cad_verification", "INVALID_RESPONSE") :
                 S \in SUBSET Wanted \ {{}}}
         \cup IF Cardinality(Wanted) = 2
              THEN {Check("CAD_PIN_PAD_MISMATCH", Wanted, "cad_verification",
                          "CAD_PIN_PAD_MISMATCH")}
              ELSE {}

\* _missing_requested_easyeda_artifacts.
MissingArtifacts ==
    (Wanted \ parsed)
    \cup (IF model THEN {} ELSE options.artifacts \cap {"model_3d"})
    \cup (IF verification = "CAD_PIN_PAD_MISMATCH" THEN Wanted ELSE {})

\* Mutant: a handoff does not stop the export.
CanExportBlocked == cadIdentity # None /\ verification = "VERIFIED"

CanExport ==
    cadIdentity # None /\ verification = "VERIFIED" /\ blocking = None

Verify ==
    /\ phase = "verify"
    /\ \E c \in Checks :
         /\ verification' = c.status /\ parsed' = c.found
         /\ cad' = IF cad = None THEN None ELSE c.status
         /\ blocking' = IF c.code = None THEN blocking ELSE c.code
         /\ errors' = IF c.source = "easyeda"
                      THEN [errors EXCEPT !["easyeda"] = c.code] ELSE errors
         /\ notes' = IF c.source = "cad_verification"
                     THEN [notes EXCEPT !["cad_verification"] = c.code] ELSE notes
    /\ \/ model' = FALSE
       \/ cadIdentity # None /\ model' = TRUE
    /\ Enter("source")
    /\ UNCHANGED <<request, stage, identity, cadIdentity, records, jlcpcb,
                   progress, discovery, raised, asked, options, tried, effects,
                   part, code, result>>

\* Without local packages, artifacts that EasyEDA lacks are looked for at the
\* distributors; with them, EasyEDA is preferred only before any source lock.
ChooseSource ==
    /\ phase = "source"
    /\ Enter(IF options.candidates
             THEN IF ~options.locked /\ CanExport THEN "export" ELSE "select"
             ELSE IF request.cadSource = "auto" /\ MissingArtifacts # {}
                  THEN "digikey" ELSE "export")
    /\ UNCHANGED <<resolution, options, verdict, notes, tried, effects, part,
                   code, result>>

-----------------------------------------------------------------------------
(* The handoff of a distributor for artifacts that EasyEDA lacks.          *)

Adopt(status) ==
    /\ discovery' = status /\ Blocks(status)
    /\ Enter("export")
    /\ UNCHANGED <<tried, result>>

\* No distributor fits: one that wants credentials is named before a neutral
\* answer.
Fallback(statuses) ==
    IF "CAD_AUTH_REQUIRED" \in statuses THEN "CAD_AUTH_REQUIRED"
    ELSE "CAD_DOWNLOAD_UNAVAILABLE"

\* Nothing catches a MetadataServiceError of this search.
Crash ==
    /\ phase' = "ended" /\ core' = 1
    /\ result' = [exit |-> 70, errors |-> {"INTERNAL_ERROR"}, actions |-> {}]
    /\ UNCHANGED <<tried, discovery, blocking>>

\* Mutant: after Mouser, DigiKey is tried again.
TryHandoffAgain(p) ==
    /\ phase = p
    /\ tried' = tried \cup {"CAD_DOWNLOAD_UNAVAILABLE"}
    /\ Enter(IF p = "digikey" THEN "mouser" ELSE "digikey")
    /\ UNCHANGED <<resolution, options, verdict, notes, effects, part, code, result>>

\* Only DigiKey names the artifacts of a source, so that it can fit; a
\* Mouser page never does.
TryHandoff(p) ==
    /\ phase = p
    /\ \E d \in Discoveries(p) :
         /\ asked' = (asked \/ d.asked)
         /\ errors' = IF d.status = None \/ d.code = None
                      THEN errors ELSE [errors EXCEPT ![p] = d.code]
         /\ \/ d.status = None /\ Crash
            \/ /\ d.status = "CAD_MANUAL_DOWNLOAD_REQUIRED" /\ p = "digikey"
               /\ Adopt(d.status)
            \/ /\ d.status # None /\ p = "digikey"
               /\ tried' = {d.status} /\ Enter("mouser")
               /\ UNCHANGED <<discovery, blocking, result>>
            \/ d.status # None /\ p = "mouser" /\ Adopt(Fallback(tried \cup {d.status}))
    /\ UNCHANGED <<request, stage, identity, products, progress, raised,
                   options, verdict, notes, effects, part, code>>

-----------------------------------------------------------------------------
(* Export of EasyEDA's CAD data.                                           *)

AnyError == \/ \E p \in DOMAIN errors : errors[p] # None
            \/ \E n \in Noted : notes[n] # None

\* to_merged: errors turn VERIFIED into PARTIAL once an MPN is known.
Merged(status) ==
    [status |-> IF status = "VERIFIED" /\ mpn # None /\ AnyError
                THEN "PARTIAL" ELSE status,
     cad |-> cad]

SkipExport ==
    /\ phase = "export" /\ ~CanExport
    /\ part' = Merged(verification)
    /\ Enter("register")
    /\ UNCHANGED <<resolution, options, verdict, notes, tried, effects, code, result>>

\* Mutant: the part is still merged as verified.
ExportFailsQuietly(note, c, machineCode) ==
    /\ phase = "export" /\ CanExport
    /\ code' = KeepLatest(code, machineCode)
    /\ part' = Merged("VERIFIED")
    /\ Blocks(c)
    /\ Enter("register")
    /\ UNCHANGED <<request, stage, identity, products, progress, errors,
                   discovery, raised, asked, options, verdict, notes, tried,
                   effects, result>>

\* The chosen datasheet is missing, or an artifact cannot be written.
ExportFails(note, c, machineCode) ==
    /\ phase = "export" /\ CanExport
    /\ notes' = [notes EXCEPT ![note] = c]
    /\ Blocks(c)
    /\ code' = KeepLatest(code, machineCode)
    /\ part' = [status |-> "PARTIAL", cad |-> cad]
    /\ Enter("register")
    /\ UNCHANGED <<request, stage, identity, products, progress, errors,
                   discovery, raised, asked, options, verdict, tried, effects,
                   result>>

Export ==
    /\ phase = "export" /\ CanExport
    /\ library' = "easyeda"
    /\ part' = Merged("VERIFIED")
    /\ Enter("register")
    /\ UNCHANGED <<resolution, options, verdict, notes, tried, registered,
                   manifest, code, result>>

-----------------------------------------------------------------------------
(* Local packages: one that the user names, or the best candidate.         *)

\* _finish_ingested_package: the package replaces whatever was resolved.
Installs(status) ==
    /\ library' = "package"
    /\ cad' = "PARTIAL" /\ cadIdentity' = None
    /\ discovery' = status /\ blocking' = None
    /\ part' = [status |-> "PARTIAL", cad |-> "PARTIAL"]
    /\ Enter("register")
    /\ UNCHANGED code

PackageFails(c) ==
    /\ code' = c /\ Return(1)
    /\ UNCHANGED <<library, cad, cadIdentity, discovery, blocking, part>>

\* A --cad-package run asks no catalogue and no distributor.
ImportPackage ==
    /\ phase = "resolve" /\ stage = "exact"
    /\ \E o \in OptionSets : Accepted(o, TRUE) /\ options' = o
    /\ \/ \E s \in PackageStatuses : Installs(s)
       \/ PackageFails("CAD_PACKAGE_INVALID")
    /\ UNCHANGED <<request, stage, identity, records, jlcpcb, progress, errors,
                   raised, asked, verdict, notes, tried, registered, manifest,
                   result>>

SelectPackage ==
    /\ phase = "select"
    /\ \/ \E s \in PackageStatuses : Installs(s)
       \/ PackageFails("CAD_PACKAGE_INVALID")
    /\ UNCHANGED <<request, stage, identity, records, jlcpcb, progress, errors,
                   raised, asked, options, verdict, notes, tried, registered,
                   manifest, result>>

\* Candidates that disagree with each other or with the lock are reported,
\* with the manifests, before the run fails.
SelectionConflict(c) ==
    /\ phase = "select"
    /\ cad' = None /\ cadIdentity' = None
    /\ discovery' = c /\ Blocks(c)
    /\ part' = [status |-> "PARTIAL", cad |-> None]
    /\ \/ /\ manifest' = IF options.manifest THEN "PARTIAL" ELSE None
          /\ code' = c
       \/ options.manifest /\ code' = "MANIFEST_WRITE_FAILED" /\ UNCHANGED manifest
    /\ Return(1)
    /\ UNCHANGED <<request, stage, identity, records, jlcpcb, progress, errors,
                   raised, asked, options, verdict, notes, tried, library,
                   registered, result>>

-----------------------------------------------------------------------------
(* Registration, manifests and the exit code.                              *)

Registered(ok) ==
    /\ registered' = ok
    /\ code' = IF ok THEN code ELSE "PROJECT_REGISTRATION_FAILED"

\* Mutant: the registration does not wait for the export.
RegisterAnyway ==
    /\ phase = "register"
    /\ IF ~options.register
       THEN Enter("report") /\ UNCHANGED <<registered, code>>
       ELSE \/ Registered(TRUE) /\ Enter("report")
            \/ Registered(FALSE) /\ Enter("report")
    /\ UNCHANGED <<resolution, options, verdict, notes, tried, library,
                   manifest, part, result>>

\* EasyEDA's libraries are registered only after a complete export; a
\* package whose registration fails ends the run before its manifests.
Register ==
    /\ phase = "register"
    /\ IF ~options.register \/ library = None
       THEN Enter("report") /\ UNCHANGED <<registered, code>>
       ELSE \/ Registered(TRUE) /\ Enter("report")
            \/ /\ Registered(FALSE)
               /\ IF library = "package" THEN Return(1) ELSE Enter("report")
    /\ UNCHANGED <<resolution, options, verdict, notes, tried, library,
                   manifest, part, result>>

MissingRequired == \E p \in options.required : records[p] = None

\* Mutant: the manifests are the whole verdict.
ExitCodeLenient(written) == IF written /\ blocking = None THEN 0 ELSE 1

\* What _finish_metadata_mode or _finish_ingested_package returns.
ExitCode(written) ==
    IF \/ ~written
       \/ library = "package" /\ discovery = "CAD_PARTIAL" /\ options.full
       \/ /\ library # "package"
          /\ \/ options.register /\ ~registered
             \/ blocking # None
             \/ part.status = "CAD_PIN_PAD_MISMATCH"
             \/ part.status = "CAD_NOT_FOUND" /\ options.requireCad
             \/ MissingRequired
    THEN 1 ELSE 0

Report ==
    /\ phase = "report"
    /\ \/ /\ manifest' = IF options.manifest THEN part.status ELSE None
          /\ Return(ExitCode(TRUE))
          /\ UNCHANGED code
       \/ /\ options.manifest
          /\ code' = "MANIFEST_WRITE_FAILED"
          /\ Return(ExitCode(FALSE))
          /\ UNCHANGED manifest
    /\ UNCHANGED <<resolution, options, verdict, notes, tried, library,
                   registered, part, result>>

-----------------------------------------------------------------------------
(* The machine result.                                                     *)

IdentityCodes == {"AMBIGUOUS", "MPN_MISMATCH", "MANUFACTURER_MISMATCH",
                  "MANUFACTURER_UNVERIFIED", "CAD_IDENTITY_UNRESOLVED",
                  "IDENTITY_AMBIGUOUS", "IDENTITY_CONFLICT"}
ProviderFailures == {"AUTH_FAILED", "NETWORK_ERROR", "INVALID_RESPONSE",
                     "INVALID_RECORD", "OFFLINE_CACHE_MISS", "CACHE_CORRUPT",
                     "CACHE_WRITE_ERROR", "LOOKUP_FAILED"}
ActionCodes == {"GUEST_LOOKUP_UNSUPPORTED", "CAD_AUTH_REQUIRED",
                "CAD_MANUAL_DOWNLOAD_REQUIRED", "MANUAL_GLOBAL_SOURCING_REQUIRED"}
CadCodes == {"CAD_NOT_FOUND", "CAD_PIN_PAD_MISMATCH", "CAD_NOT_ACQUIRED",
             "CAD_DOWNLOAD_UNAVAILABLE", "CAD_EXPORT_FAILED",
             "CAD_PACKAGE_INVALID", "CAD_ACQUISITION_FAILED"} \cup LockCodes

\* _exit_for_code: a code it does not know is an internal failure.
ExitFor(c, p) ==
    CASE c \in ActionCodes -> 3
      [] c = "NOT_FOUND" \/ (c = "PROVIDER_RECORD_MISSING" /\ p = "lcsc") -> 4
      [] c \in IdentityCodes -> 5
      [] c = "PROJECT_REGISTRATION_FAILED" -> 8
      [] c \in ProviderFailures -> 6
      [] c \in CadCodes -> 7
      [] OTHER -> 70

Failure(c, p) == [exit |-> ExitFor(c, p), code |-> c]

ProviderCode(p) ==
    IF part = None \/ errors[p] = None THEN "PROVIDER_RECORD_MISSING" ELSE errors[p]
Absent(p) == part = None \/ records[p] = None

HandoffAction ==
    IF part = None \/ discovery \in {None, "CAD_PACKAGE_READY"} THEN None
    ELSE IF discovery = "CAD_PARTIAL" THEN "SYMBOL_UNAVAILABLE" ELSE discovery

CadUnsatisfied ==
    /\ options.requireCad \/ request.cadSource \in Distributors
    /\ ~ (/\ part # None
          /\ \/ part.cad = "VERIFIED"
             \/ part.cad # None /\ discovery = "CAD_PACKAGE_READY")
CadCode ==
    IF part = None THEN "CAD_ACQUISITION_FAILED"
    ELSE IF HandoffAction # None THEN HandoffAction
    ELSE IF part.cad # None THEN part.cad ELSE "CAD_ACQUISITION_FAILED"

JlcpcbStatus == IF part = None \/ jlcpcb = None THEN None ELSE jlcpcb.status
JlcpcbCode == IF JlcpcbStatus = None THEN "LOOKUP_FAILED" ELSE JlcpcbStatus

RequiredFailures ==
    {Failure(ProviderCode(p), p) : p \in {q \in options.required : Absent(q)}}
    \cup (IF CadUnsatisfied THEN {Failure(CadCode, None)} ELSE {})
    \cup (IF options.requireJlcpcb /\ JlcpcbStatus # "PART_FOUND"
          THEN {Failure(JlcpcbCode, "lcsc")} ELSE {})
    \cup (IF options.requireProject /\ ~registered
          THEN {Failure("PROJECT_REGISTRATION_FAILED", None)} ELSE {})

\* _infer_execution_code: the first provider in the order of its names whose
\* code is not internal.
Names == <<"digikey", "easyeda", "lcsc", "mouser">>
Typed == {i \in DOMAIN Names : /\ errors[Names[i]] # None
                               /\ ExitFor(errors[Names[i]], None) # 70}
InferredCode ==
    CASE part = None -> None
      [] part.status \in {"CAD_NOT_FOUND", "CAD_PIN_PAD_MISMATCH"} -> part.status
      [] Typed # {} -> errors[Names[CHOOSE i \in Typed : \A j \in Typed : i <= j]]
      [] OTHER -> HandoffAction

ExecutionFailures ==
    LET c == IF code = None /\ RequiredFailures = {} THEN InferredCode ELSE code
    IN CASE core = 0 -> {}
         [] c # None -> {Failure(c, None)}
         [] RequiredFailures = {} -> {[exit |-> 70, code |-> "INTERNAL_ERROR"]}
         [] OTHER -> {}

\* Mutant: a manual action comes before the failures.
SelectActionFirst(failures) ==
    IF \E f \in failures : f.exit = 3 THEN 3
    ELSE IF failures = {} THEN 0 ELSE (CHOOSE f \in failures : TRUE).exit

\* The most severe failure decides.
Severity == <<70, 5, 7, 8, 6, 4, 3>>
SelectExit(failures) ==
    IF failures = {} THEN 0
    ELSE Severity[CHOOSE i \in DOMAIN Severity :
                    /\ \E f \in failures : f.exit = Severity[i]
                    /\ \A j \in 1 .. (i - 1) : \A f \in failures : f.exit # Severity[j]]

OptionalActions ==
    {ProviderCode(p) : p \in {q \in request.providers : Absent(q)}}
    \cup {errors[p] : p \in IF part = None THEN {} ELSE DOMAIN errors}
    \cup {JlcpcbStatus}

Answer ==
    /\ phase = "answer"
    /\ LET failures == RequiredFailures \cup ExecutionFailures
       IN result' =
            [exit |-> SelectExit(failures),
             errors |-> {f.code : f \in {g \in failures : g.exit # 3}},
             actions |-> ((OptionalActions \cup {f.code : f \in failures})
                            \cap ActionCodes)
                         \cup ({HandoffAction} \ {None})]
    /\ phase' = "ended"
    /\ UNCHANGED <<resolution, options, verdict, notes, tried, effects, part,
                   code, core>>

\* _main_machine_acquire reports a KeyboardInterrupt; what was written stays.
\* One that comes before the first write is the end of a resolution.
Interrupt ==
    /\ phase \in {"export", "select", "register", "report", "answer"}
    /\ result' = [exit |-> 70, errors |-> {"INTERRUPTED"}, actions |-> {}]
    /\ phase' = "ended"
    /\ UNCHANGED <<resolution, options, verdict, notes, tried, effects, part,
                   code, core>>

RunStep ==
    \/ Resolving \/ Begin \/ Verify \/ ChooseSource
    \/ TryHandoff("digikey") \/ TryHandoff("mouser")
    \/ SkipExport \/ Export
    \/ ExportFails("datasheet", "DATASHEET_UNAVAILABLE", None)
    \/ ExportFails("export", "EXPORT_FAILED", "CAD_EXPORT_FAILED")
    \/ ImportPackage \/ SelectPackage
    \/ \E c \in LockCodes : SelectionConflict(c)
    \/ Register \/ Report \/ Answer \/ Interrupt

\* The code is sequential: it goes on until it returns.
RunSpec == RunInit /\ [][RunStep]_vars /\ WF_vars(RunStep)

-----------------------------------------------------------------------------
(* Properties.                                                             *)

\* EasyEDA's CAD data reaches the libraries only when everything that was
\* asked of it was parsed, it is proved to be the requested part, the
\* catalogue named no ambiguity or conflict, no distributor was handed the
\* part instead, and no source lock binds it to a package (__main__.py:1773,
\* 1893).
ExportIsProved ==
    library = "easyeda" =>
        /\ verification = "VERIFIED" /\ parsed = Wanted
        /\ cadIdentity # None
        /\ request.mpn # None => request.mpn \in {cadIdentity.mpn,
                                                  IF lcsc = None THEN None ELSE lcsc.mpn}
        /\ discovery = None /\ ~options.locked
        /\ jlcpcb # None => jlcpcb.status \in {"PART_FOUND", "LOOKUP_FAILED",
                                               "MANUAL_GLOBAL_SOURCING_REQUIRED"}
        /\ errors["easyeda"] = None

\* A manifest that says VERIFIED belongs to CAD that was exported, or names
\* the handoff that took its place.
ManifestIsHonest == manifest = "VERIFIED" => library = "easyeda" \/ discovery # None

\* Exit code 0 of the machine result means that all that was required is
\* there (machine.py:130).
SuccessIsComplete ==
    result # None /\ result.exit = 0 =>
        /\ core = 0
        /\ \A p \in options.required : records[p] # None
        /\ options.register => registered
        /\ options.manifest => manifest # None
        /\ options.requireCad => library # None
        /\ options.requireJlcpcb => jlcpcb # None /\ jlcpcb.part = id
        /\ blocking = None

\* A run that asks for a manual action has no other failure and names the
\* action; every other failure is named as an error.
FailureIsExplained ==
    result # None =>
        /\ result.exit = 3 => result.errors = {} /\ result.actions \cap ActionCodes # {}
        /\ result.exit \notin {0, 3} => result.errors # {}
        /\ core # 0 => result.exit # 0

\* Libraries are written by this run, then registered, then reported: a
\* project never lists what a failed run did not write (__main__.py:1837, 2099).
EffectsInOrder ==
    [][/\ library' # library => ~registered /\ manifest = None
       /\ registered' # registered => library # None /\ manifest = None
       /\ manifest' # manifest /\ library = "package" /\ options.register => registered
      ]_<<library, registered, manifest>>

\* Every run ends with a result: no search for CAD goes on forever.
EveryRunAnswers == <>(phase = "ended" /\ result # None)

=============================================================================

# Verification of easyeda2kicad_digimou

TLA+ modules, TLC configurations and TLAPS proofs about the Python program in
`src/easyeda2kicad_digimou`. The program turns electronic parts into KiCad
libraries: it resolves metadata from distributors, keeps the evidence in a file
cache, obtains CAD data from EasyEDA or from packages downloaded by the user,
installs it into project libraries, and registers those libraries in KiCad's
tables. It is a command line tool: its concurrency is other copies of itself,
KiCad, and the user, all working on the same files without locks.

## Inventory

| component | state it keeps | operations | what is hard | what makes it correct |
|---|---|---|---|---|
| Project registration (`project_registration.py`) | `sym-lib-table`, `fp-lib-table`, staged files, backups | plan, apply, commit two tables, roll back | two files, no lock, check-then-replace, failure between the tables, kill | success registers in both; a failure restores; no entry of others is lost except in a race; no collision is written; nothing is left behind |
| Metadata cache (`metadata/cache.py`) | `raw.json`, `normalized.json` of an entry | paired and single writes, online and offline reads | two files that are one datum, readers between the two replacements, ageing | a hit is one generation that was whole on disk; a failed write says what it left |
| CAD installation (`cad/package.py`) | footprint and model directories, symbol library, transaction directory | stage, compare fingerprints, move away, put, roll back, hash | three targets, a gap where a library does not exist, backups in a directory that removes itself | one part is added, nothing else changes; a failure restores; a kill loses nothing |
| CAD source selection (`cad/selection.py`, `__main__.py`) | source lock, candidate archives | load lock, inspect, select, ingest, write lock | lock looked at three times, archive read three times | what is installed is what is locked; disagreeing candidates install nothing |
| Package inspection (`cad/kicad.py`, `archive.py`, `evidence.py`, `digikey.py`, `mouser.py`) | none | extract, select exact symbol and footprint, merge symbols | identity rules | exactly one identity is selected |
| Metadata resolution (`metadata/service.py`) | the result under construction | cached lookups, provider calls, CAD discovery | an identity that is proved piece by piece, partial failure of providers, offline mode, stale cache | CAD and records are of the requested part, trust never changes, offline asks nobody, a miss is not absence |
| Merge and identity (`metadata/merge.py`, `cad_identity.py`, `models.py`, `symbol_fields.py`) | none | merge by priority, conflicts, rejected evidence, symbol fields | answers in any order, values that disagree | the order does not matter, no provider's word is lost, the symbol names the part of the manifest |
| Manifests and live evidence (`metadata/manifest.py`, `live_provider.py`) | one file each | temporary file, replace | what a manifest says of a run that fails later | VERIFIED only for CAD that was exported or handed off |
| Providers (`providers/*`) | OAuth token, pages read so far | request with retries, pages, exact match | retries, token expiry, a catalogue that changes between pages, totals that do not fit | one part or an error, absence only after a complete scan, every lookup ends |
| EasyEDA client (`easyeda/easyeda_api.py`) | its response cache | read, write in place | writes are not atomic, others read meanwhile | a torn component is never imported |
| Importers and exporters (`easyeda/*`, `kicad/*`) | library files of the import mode | read shapes, convert, save to library | partial export, several units around one origin, paths, slots, libraries written in place | the drawing is exported as a whole; a symbol is replaced or added, the others stay |
| Command line and machine interface (`__main__.py`, `machine.py`, `headless.py`) | arguments, event stream | dispatch, effects in order, exit codes | which error wins, effects before a failure | exit 0 means all that was required is there; a failure is named |

They interact through files. A metadata run reads and writes the cache, exports
CAD into the libraries, registers the libraries and writes manifests, in this
order. An automatic CAD run resolves metadata first, then consults the lock,
installs a package and writes the lock, then registers.

## Modules

| module | models |
|---|---|
| `ProjectRegistration` | plan and apply of one registration per process, external editors, faults, kills |
| `ProjectRegistrationProofs` | its theorems |
| `EvidenceRegister` | what a cache entry promises: an atomic register with statuses |
| `MetadataCache` | the two-file entry; `Register` is the refinement to `EvidenceRegister` |
| `MetadataCacheProofs` | its theorems, the refinement included |
| `CadInstall` | installation of a package into up to three libraries |
| `AtomicInstall` | what an installation promises: all of its targets at one moment, or none |
| `CadInstallProofs` | its theorems |
| `AutoCadSelection` | one part's automatic selection, with the lock file and the archives |
| `AutoCadSelectionProofs` | its theorems |
| `MetadataResolution` | one exact metadata resolution, from the request to records, CAD identity and handoff |
| `MetadataRun` | extends `MetadataResolution`: verification of the CAD, another CAD source, export, registration, manifests, exit code and machine result |
| `MetadataRunProofs` | the theorems of the resolution, and those of the run that follow from them |
| `ProviderLookup` | one provider's lookups: retries, token, pages, the exact part |
| `ProviderLookupProofs` | its theorems |
| `PartMerge` | the answers of the providers merged into one part, and its symbol |
| `PartMergeProofs` | its theorems |
| `LibraryImport` | the import mode: EasyEDA cache, symbol library, footprint, drawing and model files |
| `Drawing` | what becomes of every shape of an EasyEDA symbol or package |
| `EasyedaProofs` | the theorems of `LibraryImport` and of `Drawing` |
| `MC*` | instances for TLC |

How they fit: `ProviderLookup` shows what one lookup may answer;
`MetadataResolution` takes those answers and `MetadataCache`'s as outcomes of
its lookups; `MetadataRun` runs it as its first phase and ends in the exit code.
`PartMerge` is the content of the step that `MetadataRun` calls `Merged`,
`CadInstall` and `AutoCadSelection` that of its package steps,
`ProjectRegistration` that of `Register` and of the end of `LibraryImport`, and
`Drawing` the content of the files that `LibraryImport` writes.

### ProjectRegistration

`table[t]` is the file's content as a set of entries, or absent, or something
that is not a regular file; a content hash is the content. `plan[p][t]` is
`LibraryTableUpdate`, `staged`, `backup` and `installed` are the temporary
siblings, `.bak` files and the list of the same name in `_commit_staged_tables`.
The actions follow the code: `PlanTable` (`_plan_table_update`), `Stage`,
`CheckTable` (first hash comparison), `ReadForCommit` (second), `Recheck`
(third), `Replace`, `RollbackTable`, `DropPendingBackup`, `CleanupBackup`,
`Unstage` (the `finally` block). Each may fail with an OSError where the code
calls the file system; `Crash` kills the process; `Edit` is KiCad. A write to a
temporary file that fails removes the file again, which may fail as well: then the
process leaves it and reports only the failed write (`litter`, `_write_temp_sibling`).
Two history variables say which tables others wrote since a process planned
(`touched`) or last looked (`stale`).

### MetadataCache

`file[k]` is the generation whose envelope is in `raw.json` or
`normalized.json`. A generation id is drawn once per write, so hashes, request
and time of an envelope are those of its generation, and `_validate_pair` is
equality of generations. A read is four steps, as in `MetadataCache.read`: look
for the normalized file, look for the raw one, open the normalized file, open
the raw one; then the age. An abstract reader sees an entry that is empty,
untrusted or one generation. A file that cannot be opened is answered
`io_error`, which the code reports as untrusted or as a miss.

### CadInstall

`lib[t]` is a library as a set of revisions of parts. The steps: `Snapshot`
(fingerprints), `MergeSymbol`, `StageDirectory`, `Place` (existing artifacts
without `--overwrite`), `Check`, `MoveAway`, `Put`, the rollback
(`RemoveInstalled`, `Restore`), `Drop` (the `TemporaryDirectory` removes
itself), `HashArtifact`. `Interrupt` is KeyboardInterrupt, which no handler
between the moves and the `with` block takes; `Crash` is a kill, which leaves
the transaction directory.

`AtomicInstall` says what this amounts to. Each run has a view of the targets that
it looked at and nobody else wrote since: the content each has if what is in
progress is rolled back. In one step, `Install`, the run adds its part to all of
them; `Work`, the moves before it, changes none, and neither does giving up while
nothing is moved (`GiveUp`) or a kill (`Kill`). `Break` is the one way to lose a
content: the run fails while a target is moved away, and its backups go with it.
`CadInstall` maps to it by `ViewOf` (the backup of a target that is moved away or
replaced, until `Put` has replaced the last one or the run is over) and `StatusOf`;
`RunsAreAtomic` is the refinement. It is stronger than `CrashKeepsLibraries`, which
says nothing of runs whose rollback has failed, and it puts the danger in one place:
the removal of the transaction directory after a failure that was not rolled back
(`RestoreFails`, `RemoveFails` or `Interrupt`, then `Drop`).

### AutoCadSelection

A package stands for its hash. `Dispatch` decides for EasyEDA, `Load`,
`HashCandidate`, `Inspect` and `Choose` are `select_auto_cad_package`, whose
inspection opens the archive once for its hash (`hashed`) and once more for what it
extracts, without a second hash; `Rehash`, `Extract` and `Install`
are `ingest_cad_package` (which opens the archive twice), and `WriteLock`,
`RecheckLock` and `PutLock` are `write_source_lock`. The user may replace
archives and the lock.

### MetadataResolution

One call of `resolve_metadata`, sequential, with a stage variable for its
blocks: the catalogue by MPN (`LookupExactMpn`), the EasyEDA payload
(`FetchCad`), the catalogue by number (`LookupLcscId`), the distributors
(`AskDistributor`, with `LookupAlias` and `AdmitPending` for a record whose
manufacturer only the catalogue can prove), the Global Sourcing candidates and
the CAD discovery. `mpn`, `mfr` and `id` are `trusted_mpn`,
`trusted_manufacturer` and `lcsc_id`; `None` is the code's None. An action is a
block with its handlers: each outcome of a lookup is a disjunct. `Lookup` is
`_cached_lookup`: a validated hit, a miss that offline is an error, or the
provider's answer, validated again and written. A provider searches among at
most two records, which reaches every outcome of `validate_exact_match`. A code
raised by the service itself ends the run (`Raise`); a provider's error is
reported and may block. A record is its manufacturer, MPN and LCSC number, a
payload the sets of values its fields name. Any order of the distributors is
allowed, since it is the user's.

### MetadataRun

`Resolving` is the resolution as it is; `Begin` goes on from every state in which
it stops. The options that the resolution does not read are picked there, which
gives the same runs as picking them first. `Verify` is `_verify_metadata_cad`
with what it can conclude of the shapes, `ChooseSource` and `TryHandoff` the
search for another CAD source (`discover_auto_cad_fallback`, whose
`MetadataServiceError` nothing catches), `Export`, `ExportFails` and `SkipExport`
are `_finish_metadata_mode`, `ImportPackage`, `SelectPackage` and
`SelectionConflict` the package modes, then `Register`, `Report`
(manifests and return value) and `Answer` (`build_machine_result`, with
`SelectExit` and the inferred code). `Interrupt` is a KeyboardInterrupt between
two effects. `--full` stands for the three artifacts and the flag that a package
run looks at.

### ProviderLookup

An attempt is a step; `Retry` waits as long as the server asks, within the
clamp. `Grant` is DigiKey's token: the server counts its life from the grant,
the provider from the answer. `ReadPage` reads one page of the JLCPCB catalogue;
`Verdict` is the chain of conditions of `_search_all`, in its order. Items are
what a response can hold: complete, without a maker, without an MPN, of another
maker, twice. A search total is right, missing or too large. The catalogue
changes between pages only (`Edit`); other changes are those of another
catalogue.

### PartMerge

The answers arrive one by one; `ArriveLcsc` and `Arrive` are what the service
does with them (evidence, rejection), `Merge` is `merge_records`, which checks
every answer again, `Export` is `_reconcile_symbol_identity` with
`select_datasheet`. Values are compared by `Normal`, a parameter. The numbered
labels of a conflict are left out: its values are pairs of a provider and what
it said. The answer of LCSC doubles as the JLCPCB resolution. Providers do not
validate URLs: `Links` are the values that are http(s) URLs, and `Sheet` passes over
the others, and over the product pages of any record, as `_select_datasheet` does;
`Dropped` names the one word that is lost by this.

### LibraryImport

A file is the part and revision it was made from, and whether it is whole. `Open`
truncates it and `Close` fills it, as `open(..., "w")` does; `Truncate` and
`Write` are the symbol library's. `Start` to `Finish` follow `main` and
`_process_component`: `FetchCached`, `Fetch`, `CheckSymbol`, `Insert`,
`ExportFootprint`, `ExportSvg`, `StartModel`, `ModelCached`, `FetchModel`,
`ExportModel`, `ExportStep`. `Die` is a kill or an exception on data that an
importer cannot read; `DieWriting` leaves a prefix of the library. Creating the
skeleton of a library is one step with reading it, both SVG files are one file,
and the title and the UUID of a model are one name. A cached OBJ or STEP file that is
torn reads as a prefix, or as nothing if the command died right after opening it
(`ModelCached`); torn OBJ text may also end within a character, which sends the
command to the server (`ModelMiss`). OBJ data without materials give no WRL (`Bare`,
`MayLackShapes`); the STEP file is written all the same. An answer of the server with
status 200 is taken to have a body. The history of a run says
whether others wrote meanwhile (`touched`), whether the library was readable when
it began (`readable`), whether unsafe or refused data stopped a part
(`hindered`), for which parts model data were refused, empty in the cache or without
materials (`lacking`, which the code only warns about) and from which revision on
(`since`).

### Drawing

The importers are a machine that reads one line per step, since the designer may
draw anything; the exporters are operators on what was read. A result is a set
of ink: what, the points where it ends, the points that shape it, and a tag.
`SymbolIsTheDrawing` and `FootprintIsTheDrawing` compare it with the meaning of
the drawing (`Canvas`, `PackageCanvas`), which is written from SVG's and
EasyEDA's conventions and not from the exporter (a path's segments by `Pen`, the
last side of a polygon by `Outline`, a rectangle's sides by `Frame`, the corners
of a region by `LastBut`): one vector must take every shape
of every unit to its place. Lengths are in half pixels, so that `px_to_mm` is the
identity. A library keeps its format when symbols are added, and `curves` says
whether it is 20220914 or later: a symbol's Bezier is a curve there and the straight
line between its ends in older ones, such as every library the program creates
(`CurveInk`, `KiSymbolBezier`). The property demands the curve or, in an older
library, the line. A footprint has no curves of that kind. Widths, colours, fills, fonts, pin styles and names are left out, and
so is the trigonometry of arcs, of which a line carries the result.

## Runs

| run | bounds | question |
|---|---|---|
| `registration` | 2 processes with different libraries, one of which may run twice, tables absent or empty, 1 edit, 2 faults (5.5 million states) | success, failure, files left behind, lost entries, collisions |
| `cache` | 2 processes, 3 generations, clock to 1, freshness 0, 1 fault | the register refinement with ages and what a write reports |
| `cad_install` | 2 installers of two revisions of one part, libraries that hold another part, 1 edit (which may remove a library), 1 fault (1.9 million states) | success, failure and kill; `CadInstall` implements `AtomicInstall` |
| `cad_install_interrupt` | a new part and an identical rerun, 1 fault | docs: "and rollback". It is **violated** |
| `cad_selection` | 2 processes with one run each, one of them with `--overwrite`, 2 candidates, 4 packages of 2 sources, one of which cannot be extracted, 2 archive edits, 1 lock edit, 1 fault (4.7 million states) | what is installed and what is locked |
| `metadata_resolution` | EasyEDA or a distributor as CAD source, two names of each kind, every outcome | proved CAD and records, kept trust, absence, handoffs |
| `metadata_run` | 6 command lines on requests with `auto`, `easyeda` and `digikey` as CAD source | what is exported, what a manifest and an exit code mean, the order of effects, that every run answers |
| `provider_lookup` | 3 providers, catalogues of up to 5 items of 7 kinds, pages of 2 of which 2 are read, 3 attempts, 2 lookups, 1 change of catalogue or revoked token; a unit of time is 15 seconds | uniqueness, absence, fresh tokens, termination |
| `part_merge` | 12 answers of 3 providers with second spellings, product pages and datasheets that are no links, 8 requests, 18 symbols (144,504 states) | no word is lost but a datasheet that is passed over, the order does not matter, the symbol agrees |
| `library_import` | 2 processes with 2 runs, 6 command lines, 5 parts that share footprints and models, one of a model without materials, 2 revisions, 1 fault (5.1 million states) | what success, `--overwrite` and its absence mean |
| `library_overwrite` | the same | docstring: "replacing it if it already exists". It is **violated** |
| `drawing` | every pair of 23 symbol shapes or 23 package shapes, every path and region of up to 4 commands, 4 symbol documents, libraries with and without curves (117,024 states) | the drawing is exported as a whole |

Why these bounds are enough to be interesting: the protocols on files are loops
over two or three files, so two processes reach every relative order of their
steps; one fault reaches every error path and one edit every check; two faults reach
the cleanup that fails after the write it cleans up, and two archive edits a package
that is replaced while it is inspected and put back. In `registration` a process runs
again after it ended or was killed and meets what it left; in `cad_selection` and
`library_import` the second run, of either process, meets what a killed first one left. A reader of the cache meets every step
of one writer and, with three generations, what earlier and failed writes left; a
reader between two interleaved writers is covered by the proof. The proofs remove
these bounds for every safety property. A resolution compares names with
the requested one only, so two names of each kind, the requested and another one,
reach every comparison. A scan of a catalogue distinguishes the first, a middle
and the last page that may be read, and one page more than that: catalogues of
five items on pages of two, of which two are read, have them all. Conversion
treats each shape of a component apart; the state it shares is the origin, the
units and, within a path, the pen, which two shapes, three units and four
commands exercise.

Deadlock is not checked: every process ends, the bounds stop the environment,
and a finished system has no step.

### What the violated runs show

* `cad_install_interrupt`: an interrupt between the two moves of a library
  (`package.py:880` and `882`) reaches the end of the `with` block, which removes
  the transaction directory with the only copy of the library.
* `library_overwrite`: a symbol that exists is replaced with `re.sub`, and the new
  symbol is its template (`export_kicad_symbol.py:107`). An escape in a text of
  the symbol is decoded, or ends the command; the first import writes it as it is.

### Known divergences without a run

The code departs from its documents, or from what one would expect, in these
places. They follow from the definitions named; the properties leave them out,
and say so.

* Registration: a table written between the hash comparison at
  `project_registration.py:501` and `os.replace` at line 506 loses the new entry,
  and both runs report success (`Recheck`, `Replace`), while README.md says that
  writes "detect concurrent changes".
* Installation: while one installer is between the two moves of a library, the
  library does not exist. Another one that copies at this moment copies nothing
  (`StageDirectory`); if the first one puts back content with the same
  fingerprint, as an identical rerun does, the comparison of the second passes
  and it installs its own part alone.
* Source lock: two runs that both find no lock at `selection.py:285` both
  replace it at line 291 (`RecheckLock`, `PutLock`), whose docstring says
  "without replacing a different lock".
* Archives: one that is replaced between the second hash (`package.py:225`) and the
  extraction (line 249) is installed under the hash of the old one, and the lock
  names that (`Rehash`, `Extract`).
* Catalogue: a request with an MPN and an LCSC number skips the catalogue by MPN
  (`service.py:260`, `SkipExact`). When the CAD payload proves the whole identity
  and `lcsc` is not selected, the catalogue is not asked at all, while
  README.md:577 says that every online exact `--mpn` acquisition asks it.
* Totals: an empty catalogue page whose total is missing counts as NOT_FOUND, and
  a short page without a total as the last one, so that absence is proved only
  where the totals were given (`ClientError`, `Verdict`; `AbsenceIsComplete`).
* Import: two commands that write one symbol library at the same time lose
  symbols (`Insert`, `Write`); a killed one leaves a library that the next cannot
  complete; a torn OBJ or STEP file in the cache is used in every later run with
  the cache, and an empty one counts as no model: the command only warns, succeeds,
  and does so again with `--overwrite` (`ModelCached`, `ExportModel`). OBJ data
  without materials give a STEP file alone, also without an error.
* Registration: when a temporary file can neither be written nor removed it stays
  next to the table, and the process reports an ordinary write failure
  (`litter`, `NoFilesLeftBehind`).
* Source selection: an archive that is replaced between the hash and the extraction of
  its inspection, and put back before the installation, is installed although what was
  compared with the other candidates was another package (`HashCandidate`, `Inspect`,
  `InstallsWhatWasSelected`).
* Merge: a datasheet that is no http(s) URL, or is a product page, is neither
  selected nor listed as a conflict nor an error where no provider has a better one
  (`Dropped`).
* Curves: a new library has format 20211014, older than the first with Beziers, so
  curves of symbols become straight lines in every library that the program creates,
  as the comment at `parameters_kicad_symbol.py:479` says (`CurveInk`).
* Layers: docs/CMD_FOOTPRINT.md:420 says that shapes on layers 100 and 101 are
  skipped; `KI_LAYERS` gives them the layers F.Fab and F.SilkS.
* Drawing: in a path, M after another command draws a connecting line, and a
  curve right after Z starts at the old pen (`Command`); a closed polyline without
  points raises IndexError (`Raises`); a subpart of another name is dropped
  (`Matched`); texts of several units pass through a `re.sub` template
  (`Decoded`); H or V after Z in a region starts at the old pen
  (`RegionCommand`); an arc with ry = 0 has no centre (`FootprintArc`); an
  ellipse that is no circle is dropped (`EllipseInk`); a last SVGNODE that cannot
  be read loses the model (`AddModel`).

## Fairness

`EveryRunAnswers` (`MetadataRun`) is checked under weak fairness of `RunStep`, and
`EveryLookupEnds` (`ProviderLookup`) under weak fairness of `Work`: both are
sequential code whose requests have timeouts, so they go on. The world's steps
(edits, revoked tokens, time, new lookups) are not fair. All other properties are
safety properties, and refinement is checked and proved without fairness.

## Proofs

`ProjectRegistrationProofs` proves, for any set of processes, names, URIs,
requests and initial tables, and any bounds: `TypeCorrect`, `LossOnlyByRace`,
`SuccessRegisters`, `FailureRestores`, `NothingLeftBehind`, `NoCollision`. The
inductive invariant is `IInv`: type correctness; for each process what its plan
may be (`PlanSound`), which tables its loop has passed (`Progress`), what its
backups hold (`BackupSound`) and its staged files (`StagedSound`); and two
facts that tie a process to a table: what it last saw is there unless the table
is stale (`LastSeen`), and what it planned from is there unless the table was
touched (`SincePlan`). The properties alone are not inductive: that a rollback
restores needs to know that the backup is what was planned from.

`MetadataCacheProofs` proves `TypeCorrect`, `WritesReportTheirOutcome` and
`CacheImplementsRegister`. The refinement needs that a reader which has opened
`normalized.json` of generation g and finds g in `raw.json` was reading while
both files were of g: raw is published first, each generation is published once
by one writer, so when raw is still g after normalized was seen to be g, either
both are g now or the entry was whole at the moment of the first open.

`CadInstallProofs` proves `TypeCorrect`, `SuccessIsOnePart`, `FailureIsRolledBack`
and `NothingIsLost` for any number of processes, parts, edits and faults. A target
that nobody else wrote is, for the run that works on it, as it was found, moved
away, or replaced (`AsFound`, `Away`, `Replaced`); `Places` says which at each
step, `Loops` which targets a loop has passed, `Copies` what the staged files hold
and `Outcome` what a run that ends leaves. The lemma `OthersStay` says that a step
of another process either marks the target as touched or leaves all of this
alone. `InstallationIsAtomic` adds that `CadInstall` implements `AtomicInstall`: beside
this invariant it needs `Moves` (nothing is moved before the commit or after a
rollback, a rollback never begins when all targets are in place, a run without an
error has put all of them there), and then one lemma for each kind of step (`CleanStep`,
`DirtyStep`, `WriteStep`, `BreakStep`, `CommittedStep`): a step that writes a target
leaves what a rollback would restore, and only the last `Put` makes the new contents
count. The step of another process takes the target it writes out of the view
(`ViewIsLost`) and leaves the rest.

`AutoCadSelectionProofs` proves `TypeCorrect`, `SuccessfulRunsAreLocked`,
`LibraryFollowsLock` and the action property `SelectedIsInstalled`; that all candidates
agree with what is installed it promises where the inspection extracted the archive it
had hashed. `Choice` says
what a run has inspected and chosen, `Installation` what it installs unless an
archive was replaced, `OneAtATime` that two runs overlap only where the history
says so, and `CalmRuns` what the only run knows of lock and library.

`MetadataRunProofs` proves of the resolution, for any names, numbers and requests,
`TypeCorrect`, `CadDataIsProved`, `PublishedRecordsAreEvidenced`,
`OnePartIsEvidenced`, `AbsenceWasAnswered`, `HandoffsAreExact` and the action
property `TrustIsNeverReplaced`. The seven facts of the invariant follow where
trust comes from: until a block has run its variables are untouched
(`Untouched`), the request stays what was asked (`RequestIsKept`), the catalogue
and the payload give only what they may (`CatalogueIsTrusted`,
`PayloadIsTrusted`), a pending record is of the exact MPN (`PendingIsExact`).

Of the run, it builds on them: `OnlyProvedCadIsExported`,
`ManifestsAreHonest`, `ExitZeroIsComplete`, `FailuresAreExplained` and the action
property `LibrariesComeFirst`, for any request and command line. While the run
resolves, the invariant of the resolution holds and what blocks a run leaves it
no CAD data, but for a handoff (`Blocked`). That one fact of the resolution is
what makes exit code 0 mean something, and nothing in the code states it.

`ProviderLookupProofs` proves `AnswersAreUnique`, `AbsencesAreComplete` and
`TokensAreFresh`, for any catalogue, page size, number of pages, margin and
lifetime. The invariant says that a scan of a catalogue at rest has read a prefix
of it, page by page (`ScanIsPrefix`), and that the provider gives a token up
before the server does (`TokenIsShorter`).

`EasyedaProofs` proves of the import `TornDataAreRefused`, `ExistingWorkIsKept`,
`NoErrorMeansImported`, `OverwritingImports` and `TypesAreKept`, for any number of
commands, parts, shared names, revisions and faults. For each command the
invariant says what it holds (`Holds`: CAD data and model data of the part at
hand, and a file about to be written that is one of this part), what it knows
between looking and writing if it runs alone (`Keeps`), and what is imported so
far (`Progress`). `Progress` counts of how many parts each stage is done; of that
many parts the symbol, footprint, drawing or model is there, and of the parts that
share a name the last one has it (`IsLast`). Three facts of the files join in:
`CacheIsOfParts`, `LibraryIsASet` (no name twice, so that replacing the first
match replaces the only one) and, of a model whose STEP file is due and whose data
were not lacking, the WRL file (`HalfOfModel`). A step of another command either marks this one as touched or
leaves the library and the artifacts as they are, but for the empty skeleton of a
new library (`Beside`, `SameLibrary`): `OthersProgress` shows that this is enough.
That no stage is passed over is a lemma about the sequence of stages
(`NothingIsSkipped`); that `Min` finds a least number follows from the library's
order of finite sets (`LeastExists`). `OverwritingImports` is the same invariant
and one more fact: with `--overwrite` an error implies a hindrance (`Runs`). TLC
has checked an earlier form of `IInv` on the instance of `library_import`, with
numbers up to 5 in place of `Nat`.

Of the drawings, `EasyedaProofs` proves `SymbolsAreDrawn` and `FootprintsAreDrawn`,
for any grid, units, shapes and heads, and for paths and regions of any number of
commands. The inductive invariant `DrawingIsKept` says that what was read is
what was drawn: every line of a unit is in the list of its kind and nothing else is
(`UnitsAreRead`, `HoldsLines`), likewise of a package (`PackageIsRead`), and what was
exported is the ink of what was read (`SymbolIsExported`, `PackageIsExported`). That
each kind of line then becomes its place on the canvas is a lemma per kind
(`LineIsAsDrawn`, `GraphicIsAsDrawn` and what they rest on). Four of these say
something that the code does not:

* `OnGridStays`: a pin on the grid stays where it is although its coordinate is
  rounded relative to the origin, because the origin was rounded too.
* `SlotFitsOneWay`: a long slot that fits its pad one way only is turned that way.
* `PathIsDrawn`: after n commands, what the loop of `convert_ee_paths` has put away
  and the polygon in hand are the first n segments of the path, no more and no less.
* `CornersAreTraced`, `RegionIsItsCorners`: the points of a region are the corners that
  H and V give by the last command that set the other coordinate.

The loops over commands are functions (`Traced`, `RegionTraced`) and not recursive
operators. `NatSetInduction` is induction on a set of numbers, from the
library's theorem on well-founded relations; `LoopExists` follows from it, that such a function
exists whatever one command does, and hence `PathIsTraced` and `RegionIsTraced`, that its
value after a command is the command's effect on the value before. Writing the
proof made the types of shapes explicit: a polygon's points are a
sequence, and the fields of a rectangle that are not read may be anything.

`PartMergeProofs` proves `NothingIsLost` (but for what `Dropped` names), `PartIsOfTheSet` and
`SymbolIsOfThePart`, for any set of answers, requests, CAD data and mirrors and any
normal form of a value. The invariant says that every answer is kept, or rejected
with an error and its manufacturer (`EveryAnswerIsKept`), that the first
manufacturer proved is the seed, and that without a seed no record names one
unless the user did (`SeedIsFirst`); the merged part is a function of the records
(`MergedIsOfRecords`), and the symbol one of the part (`SymbolIsOfPart`). Without
`SeedIsFirst` a manufacturer that is selected from the records might disagree with
one that was rejected before, unlisted. `SortedHasAll`, `FirstIsSaid`, `ThoseFit`
and `SheetIsSaid` say what the helpers of `merge_records` return; for this they
are written without folds, a filtered sequence as a function on the places that
are kept. The proof has sharpened two properties: a clause of `SymbolAgrees` said
of the manufacturer what could not fail, since CAD data with one are the seed, and
now says that it agrees; and no clause of `EveryWordIsKept` needed an answer of
LCSC for another part to be fatal, as the docstring promises (`merge.py:62`).

The only assumptions are the named ones in the modules: types of constants,
that the words of a model are no data, that `None` is no name, code, number, part,
file, provider or record. `UnitAssumption`, `SymbolAssumption` and `PackageAssumption`
are types: what a parsed shape of each kind holds, and how many control points a curve has. TLC evaluates them in every run.

Only model-checked are `EveryRunAnswers` and `EveryLookupEnds`, the liveness
properties: the prover has no rule for fairness beyond what its temporal backend can
do with ENABLED.

## Plan

Every safety property, action property and refinement that a run checks as holding
is a theorem; the liveness properties stay with TLC. New code would be modelled in the
order of its risk: first whatever writes a file, then whatever decides an exit code.

## Not modelled

* The SVG renderer (`easyeda_svg_renderer.py`, `svg_path_parser.py`), the OBJ to WRL
  conversion (but for when it gives nothing) and the trigonometry of arcs: sequential floating point arithmetic.
  TLA+ has no floats, and rounding is all there is to get wrong.
* The validation in `metadata/models.py`, JSON schemas, argument parsing, the
  stream of events and the doctor: one pass over their input, without state.
* Archive path rules and the choice of the exact symbol in a package: text
  processing without state.
* `live_provider.py`: an opt-in smoke test against the real services. Packaging
  and documentation have no behaviour.

Within the modelled parts, text grammars, secret stripping and logging are
abstracted away; a copy of a directory tree and the read of a file are one step
each.

------------------------- MODULE EasyedaProofs -------------------------
(***************************************************************************)
(* The EasyEDA importer.  Imports leave whole libraries, for every number  *)
(* of commands, of parts that share symbols, footprints and models, of     *)
(* runs and of faults (LibraryImport).  Exported symbols and footprints    *)
(* are the drawings as a whole, for every grid, every number of units and  *)
(* shapes and every path (Drawing, from "Lengths on the grid" on).         *)
(***************************************************************************)
EXTENDS LibraryImport, Drawing, FiniteSetTheorems, SequenceTheorems,
        WellFoundedInduction, TLAPS

-----------------------------------------------------------------------------
(* Types.                                                                  *)

Entries == [name : {Parts[i].symbol : i \in Ids}, id : Ids, rev : Nat,
            text : Texts \cup {"decoded"}]
Libs == [symbols : Seq(Entries), state : {"absent", "empty", "whole", "broken"}]
Drafts == [obj : Contents \cup {None}, stp : Contents \cup {None}]
Keys == Cache \cup Artifacts
Pcs == {"idle", "done", "dead", "fetch", "symbol", "insert", "truncate", "write",
        "footprint", "svg", "3d", "obj", "stp", "export", "step", "open", "close", "next"}
Jobs == [key : Keys, content : Contents, next : Pcs]

Typed ==
    /\ lib \in Libs /\ file \in [Keys -> Contents \cup {None}] /\ revision \in Nat
    /\ pc \in [Procs -> Pcs] /\ command \in [Procs -> Commands \cup {None}]
    /\ position \in [Procs -> Nat \ {0}]
    /\ cad \in [Procs -> Contents \cup {None}] /\ model \in [Procs -> Drafts \cup {None}]
    /\ update \in [Procs -> Libs] /\ job \in [Procs -> Jobs \cup {None}]
    /\ failed \in [Procs -> BOOLEAN] /\ touched \in [Procs -> BOOLEAN]
    /\ readable \in [Procs -> BOOLEAN] /\ hindered \in [Procs -> BOOLEAN]
    /\ lacking \in [Procs -> SUBSET Ids] /\ since \in [Procs -> Nat]

-----------------------------------------------------------------------------
(* What a command holds.                                                   *)

Active(p) == pc[p] \notin {"idle", "done", "dead"}
Writing == {"open", "close"}
ModelSteps == {"obj", "stp", "export", "step"}
Kind(p) == job[p].key[1]
ModelJob(p) == pc[p] \in Writing /\ Kind(p) \in {"obj", "stp", "wrl", "step"}

\* The file a command writes is one of its part, with what it holds of it.
JobFits(p) ==
    \/ /\ job[p].key = <<"json", Id(p)>> /\ job[p].content = cad[p]
       /\ job[p].next = Following(p, None)
    \/ /\ job[p].key = <<"footprint", Part(p).footprint>> /\ job[p].content = cad[p]
       /\ job[p].next = Following(p, "footprint")
    \/ /\ job[p].key = <<"svg", Id(p)>> /\ job[p].content = cad[p]
       /\ job[p].next = Following(p, "svg")
    \/ job[p].key = <<"obj", Part(p).model>> /\ job[p].next = "stp"
    \/ job[p].key = <<"stp", Part(p).model>> /\ job[p].next = "export"
    \/ job[p].key = <<"wrl", Part(p).model>> /\ job[p].next = "step"
    \/ job[p].key = <<"step", Part(p).model>> /\ job[p].next = "next"

\* Which data of the model the command has by now, unless they are lacking.
Drafted(p) ==
    IF pc[p] \in Writing
    THEN IF Kind(p) = "obj" THEN {"obj"}
         ELSE IF Kind(p) \in {"stp", "wrl"} THEN {"obj", "stp"} ELSE {}
    ELSE IF pc[p] = "stp" THEN {"obj"}
         ELSE IF pc[p] \in {"export", "step"} THEN {"obj", "stp"} ELSE {}

\* Contents are whole, and sound unless a cache was asked.
Sound(p, content) == content.whole /\ (command[p].cached \/ content.sound)

HoldsModel(p) ==
    pc[p] \in ModelSteps \/ ModelJob(p) =>
        /\ Part(p).model # None /\ model[p] \in Drafts
        /\ \A kind \in {"obj", "stp"} :
             /\ model[p][kind] # None => Sound(p, model[p][kind])
             /\ kind \in Drafted(p) /\ lacking[p] = {} => model[p][kind] # None

HoldsJob(p) ==
    pc[p] \in Writing =>
        /\ job[p] \in Jobs /\ JobFits(p) /\ job[p].content.whole
        /\ ModelJob(p) => Sound(p, job[p].content)

HoldsCad(p) ==
    /\ pc[p] \notin {"idle", "done", "dead", "fetch", "next"} => cad[p] # None
    /\ ~Active(p) \/ pc[p] = "fetch" => cad[p] = None
    /\ cad[p] # None => cad[p].whole /\ cad[p].id = Id(p) /\ Fresh(p, cad[p])

Runs(p) ==
    Active(p) => /\ command[p] \in Commands /\ position[p] \in 1 .. Len(command[p].ids)
                 /\ since[p] <= revision
                 /\ failed[p] => ~Replaces(p) \/ hindered[p]

Holds(p) == Runs(p) /\ HoldsCad(p) /\ HoldsModel(p) /\ HoldsJob(p)

\* The cache holds CAD data under the number of their part.
CacheIsOfParts ==
    \A i \in Ids : file[<<"json", i>>] # None => file[<<"json", i>>].id = i

-----------------------------------------------------------------------------
(* The library.                                                            *)

\* A library names each symbol once, and one that is absent holds none.
Distinct(symbols) ==
    \A m, n \in 1 .. Len(symbols) : symbols[m].name = symbols[n].name => m = n
IsSet(library) ==
    Distinct(library.symbols) /\ (library.state = "absent" => library.symbols = <<>>)
LibraryIsASet == IsSet(lib) /\ \A p \in Procs : IsSet(update[p])

\* What a command that runs alone knows between looking and writing.
KeepsWhatExists(p) ==
    /\ pc[p] = "insert" => IndexOf(lib.symbols, Part(p).symbol) = 0
    /\ pc[p] = "truncate" => Range(lib.symbols) \subseteq Range(update[p].symbols)
    /\ pc[p] = "open" /\ Kind(p) \in {"footprint", "wrl", "step"} => file[job[p].key] = None
    /\ pc[p] \in Writing /\ Kind(p) = "wrl" => file[<<"step", Part(p).model>>] = None
    /\ pc[p] = "step" => file[<<"step", Part(p).model>>] = None
Keeps(p) == Active(p) /\ ~Replaces(p) /\ ~touched[p] => KeepsWhatExists(p)

-----------------------------------------------------------------------------
(* What is imported so far.                                                *)

\* The library and the files as they are once the write under way is done.
Text(p) == IF pc[p] = "write" THEN update[p] ELSE lib
Shown(p, key) ==
    IF pc[p] = "close" /\ job[p].key = key THEN job[p].content ELSE file[key]

\* The stages of the part at hand that are done.
SymbolDone(p) ==
    /\ pc[p] \notin {"fetch", "symbol", "insert", "truncate"}
    /\ pc[p] \in Writing => Kind(p) # "json"
FootprintDone(p) ==
    /\ SymbolDone(p) /\ pc[p] \notin {"write", "footprint"}
    /\ pc[p] = "open" => Kind(p) # "footprint"
SvgDone(p) ==
    /\ FootprintDone(p) /\ pc[p] # "svg"
    /\ pc[p] = "open" => Kind(p) # "svg"
    /\ pc[p] = "close" => Kind(p) # "footprint"

\* Of how many parts a artifact is done.
SymbolCount(p) == IF SymbolDone(p) THEN position[p] ELSE position[p] - 1
FootprintCount(p) == IF FootprintDone(p) THEN position[p] ELSE position[p] - 1
SvgCount(p) == IF SvgDone(p) THEN position[p] ELSE position[p] - 1
ModelCount(p) == IF pc[p] = "next" THEN position[p] ELSE position[p] - 1

\* Of the first d parts, the last of that name is this one.
IsLast(p, name(_), i, d, id) ==
    \E n \in 1 .. d : /\ id = command[p].ids[n] /\ name(id) = name(i)
                      /\ \A k \in (n + 1) .. d : name(command[p].ids[k]) # name(i)

HasSymbol(p, symbols, i, d) ==
    /\ \E s \in Range(symbols) : s.name = SymbolName(i)
    /\ \A s \in Range(symbols) : s.name = SymbolName(i) =>
         Fresh(p, s) /\ IsLast(p, SymbolName, i, d, s.id)
SymbolsIn(p, d) ==
    /\ d > 0 => Text(p).state = "whole"
    /\ \A m \in 1 .. d : HasSymbol(p, Text(p).symbols, command[p].ids[m], d)

FootprintKey(i) == <<"footprint", Parts[i].footprint>>
FootprintsIn(p, d) ==
    \A m \in 1 .. d :
        LET i == command[p].ids[m]
            content == Shown(p, FootprintKey(i))
        IN /\ content # None /\ content.whole /\ Fresh(p, content)
           /\ IsLast(p, FootprintName, i, d, content.id)

DrawingsIn(p, d) ==
    \A m \in 1 .. d :
        LET content == Shown(p, <<"svg", command[p].ids[m]>>)
        IN /\ content # None /\ content.whole /\ Fresh(p, content)
           /\ content.id = command[p].ids[m]

ModelIn(p, kind, m) == Shown(p, <<kind, m>>) # None /\ Sound(p, Shown(p, <<kind, m>>))
ModelsIn(p, d) ==
    lacking[p] = {} =>
        \A m \in 1 .. d, kind \in {"wrl", "step"} :
            Parts[command[p].ids[m]].model # None =>
                ModelIn(p, kind, Parts[command[p].ids[m]].model)

\* The library can be read, and its new text is ready.
LibraryIsReady(p) ==
    /\ pc[p] # "write" => lib.state \in {"absent", "whole"}
    /\ pc[p] = "truncate" => lib.state = "whole" /\ update[p] = Put(lib, Symbol(p))
    /\ pc[p] = "write" => update[p].state = "whole"

\* Of a model whose STEP file is due the WRL file is there, unless data lacked.
HalfOfModel(p) ==
    lacking[p] = {} /\ (pc[p] = "step" \/ (pc[p] \in Writing /\ Kind(p) = "step")) =>
        ModelIn(p, "wrl", Part(p).model)

Wants(p, artifact) == artifact \in command[p].artifacts
Course(p) == Active(p) /\ ~failed[p] /\ ~touched[p] /\ readable[p]
Progress(p) ==
    Course(p) =>
        /\ LibraryIsReady(p)
        /\ Wants(p, "symbol") => \A d \in Nat : d = SymbolCount(p) => SymbolsIn(p, d)
        /\ Wants(p, "footprint") =>
             \A d \in Nat : d = FootprintCount(p) => FootprintsIn(p, d)
        /\ Wants(p, "svg") => \A d \in Nat : d = SvgCount(p) => DrawingsIn(p, d)
        /\ Wants(p, "3d") => /\ \A d \in Nat : d = ModelCount(p) => ModelsIn(p, d)
                            /\ HalfOfModel(p)

IInv == /\ Typed /\ CacheIsOfParts /\ LibraryIsASet
        /\ \A p \in Procs : Holds(p) /\ Keeps(p) /\ Progress(p)

-----------------------------------------------------------------------------
(* Numbers and sequences.                                                  *)

\* A set of natural numbers that is not empty has a least one: of the finite
\* sets of those up to n, n \in S, one has none below it.
LEMMA LeastExists ==
  ASSUME NEW S, S \subseteq Nat, S # {}
  PROVE  Min(S) \in S /\ \A y \in S : Min(S) <= y
<1> DEFINE UpTo(n) == {s \in S : s <= n}
           Family == {UpTo(n) : n \in S}
<1>1. \A n \in S : IsFiniteSet(UpTo(n)) /\ UpTo(n) \in SUBSET Nat
  <2> TAKE n \in S
  <2>1. UpTo(n) \in SUBSET Nat /\ n \in Nat /\ \A s \in UpTo(n) : s <= n
    OBVIOUS
  <2> QED BY <2>1, FS_BoundedSetOfNaturals
<1>2. Family \subseteq FiniteSubsetsOf(Nat) /\ Family # {}
  BY <1>1 DEF FiniteSubsetsOf
<1>3. PICK T \in Family : \A U \in Family : <<U, T>> \notin StrictSubsetOrdering(Nat)
  BY <1>2, FS_StrictSubsetOrderingWellFounded, WFMin
<1>4. PICK x \in S : T = UpTo(x)
  BY <1>3
<1>5. ASSUME NEW y \in S, y < x PROVE FALSE
  <2>1. x \in Nat /\ y \in Nat /\ ~(x <= y) /\ \A s \in Nat : s <= y => s <= x
    BY <1>5
  <2> HIDE <1>5
  <2>2. UpTo(y) \subseteq UpTo(x) /\ x \in UpTo(x) /\ x \notin UpTo(y)
    BY <2>1, x <= x
  <2>3. <<UpTo(y), UpTo(x)>> \in StrictSubsetOrdering(Nat)
    BY <2>2, <1>1 DEF StrictSubsetOrdering
  <2> QED BY <2>3, <1>3, <1>4
<1>6. \A y \in S : x =< y
  BY <1>5
<1> QED BY <1>6 DEF Min

\* IndexOf finds a symbol of that name, if there is one.
LEMMA IndexOfFinds ==
  ASSUME NEW symbols, Len(symbols) \in Nat, NEW name
  PROVE  /\ IndexOf(symbols, name) \in 0 .. Len(symbols)
         /\ IndexOf(symbols, name) # 0 => symbols[IndexOf(symbols, name)].name = name
         /\ IndexOf(symbols, name) = 0 => \A n \in 1 .. Len(symbols) : symbols[n].name # name
<1> DEFINE found == {n \in 1 .. Len(symbols) : symbols[n].name = name}
<1>1. CASE found = {}
  BY <1>1 DEF IndexOf
<1>2. CASE found # {}
  <2>1. Min(found) \in found
    BY <1>2, LeastExists
  <2> QED BY <1>2, <2>1 DEF IndexOf
<1> QED BY <1>1, <1>2

LEMMA ElementsOfSeq ==
  ASSUME NEW S, NEW s \in Seq(S)
  PROVE  /\ Len(s) \in Nat
         /\ \A n \in 1 .. Len(s) : s[n] \in Range(s)
         /\ \A x \in Range(s) : \E n \in 1 .. Len(s) : s[n] = x
<1>1. Len(s) \in Nat /\ DOMAIN s = 1 .. Len(s)
  BY LenProperties
<1> QED BY <1>1 DEF Range

\* Putting a symbol into a library of distinct names replaces the one of its
\* name or adds it, and leaves the others.
LEMMA PutChangesOne ==
  ASSUME NEW L \in Libs, Distinct(L.symbols), NEW entry \in Entries
  PROVE  /\ Put(L, entry) \in Libs /\ Put(L, entry).state = L.state
         /\ Distinct(Put(L, entry).symbols)
         /\ \E new \in {entry, Substituted(entry)} :
              Range(Put(L, entry).symbols) =
                {s \in Range(L.symbols) : s.name # entry.name} \cup {new}
         /\ IndexOf(L.symbols, entry.name) = 0 =>
              Range(L.symbols) \subseteq Range(Put(L, entry).symbols)
<1> DEFINE old == L.symbols
           n == IndexOf(old, entry.name)
           new == Substituted(entry)
<1>1. old \in Seq(Entries) /\ Len(old) \in Nat /\ DOMAIN old = 1 .. Len(old)
      /\ \A k \in 1 .. Len(old) : old[k] \in Entries
  BY LenProperties, ElementOfSeq DEF Libs
<1>2. new \in Entries /\ new.name = entry.name
  BY DEF Substituted, Entries, Texts
<1>3. /\ n \in 0 .. Len(old) /\ (n # 0 => old[n].name = entry.name)
      /\ n = 0 => \A k \in 1 .. Len(old) : old[k].name # entry.name
  BY <1>1, IndexOfFinds
<1>4. /\ \A x \in Range(old) : \E k \in 1 .. Len(old) : old[k] = x
      /\ \A k \in 1 .. Len(old) : old[k] \in Range(old)
  <2>1. old \in Seq(Entries)
    BY <1>1
  <2> HIDE DEF old
  <2> QED BY <2>1, ElementsOfSeq
<1>5. Put(L, entry) = [L EXCEPT !.symbols = IF n # 0 THEN [old EXCEPT ![n] = new]
                                             ELSE Append(old, entry)]
  BY DEF Put
<1>6. /\ Put(L, entry).state = L.state
      /\ Put(L, entry).symbols = IF n # 0 THEN [old EXCEPT ![n] = new] ELSE Append(old, entry)
      /\ \A x \in Seq(Entries) : Put(L, entry).symbols = x => Put(L, entry) \in Libs
  BY <1>5 DEF Libs
<1> HIDE DEF old, n, new
<1>7. CASE n = 0
  <2> DEFINE t == Append(old, entry)
  <2>1. /\ t \in Seq(Entries) /\ Len(t) = Len(old) + 1 /\ t[Len(old) + 1] = entry
        /\ \A k \in 1 .. Len(old) : t[k] = old[k]
    BY <1>1, AppendProperties
  <2>2. /\ \A x \in Range(t) : \E k \in 1 .. Len(t) : t[k] = x
        /\ \A k \in 1 .. Len(t) : t[k] \in Range(t)
    <3> HIDE DEF t
    <3> QED BY <2>1, ElementsOfSeq
  <2>3. Put(L, entry).symbols = t
    BY <1>6, <1>7
  <2> HIDE DEF t
  <2>4. \A k \in 1 .. Len(t) : k = Len(old) + 1 \/ k \in 1 .. Len(old)
    BY <2>1, <1>1
  <2>5. Distinct(t)
    <3> SUFFICES ASSUME NEW i \in 1 .. Len(t), NEW k \in 1 .. Len(t), t[i].name = t[k].name
                 PROVE  i = k
      BY DEF Distinct
    <3>1. CASE i \in 1 .. Len(old) /\ k \in 1 .. Len(old)
      BY <3>1, <2>1 DEF Distinct, old
    <3>2. CASE i = Len(old) + 1 /\ k = Len(old) + 1
      BY <3>2
    <3>3. CASE i = Len(old) + 1 /\ k \in 1 .. Len(old)
      BY <3>3, <2>1, <1>3, <1>7
    <3>4. CASE k = Len(old) + 1 /\ i \in 1 .. Len(old)
      BY <3>4, <2>1, <1>3, <1>7
    <3> QED BY <2>4, <3>1, <3>2, <3>3, <3>4
  <2>6. Range(old) \subseteq Range(t) /\ entry \in Range(t)
    <3>1. Len(old) + 1 \in 1 .. Len(t) /\ \A k \in 1 .. Len(old) : k \in 1 .. Len(t)
      BY <1>1, <2>1
    <3> QED BY <3>1, <1>4, <2>1, <2>2
  <2>7. Range(t) = {s \in Range(old) : s.name # entry.name} \cup {entry}
    <3>1. \A x \in Range(old) : x.name # entry.name
      BY <1>3, <1>4, <1>7
    <3>2. \A x \in Range(t) : x \in Range(old) \/ x = entry
      BY <1>4, <2>1, <2>2, <2>4
    <3> QED BY <2>6, <3>1, <3>2
  <2> QED BY <1>6, <2>1, <2>3, <2>5, <2>6, <2>7 DEF old, n
<1>8. CASE n # 0
  <2> DEFINE t == [old EXCEPT ![n] = new]
  <2>1. n \in 1 .. Len(old)
    BY <1>1, <1>3, <1>8
  <2>2. /\ t \in Seq(Entries) /\ Len(t) = Len(old)
        /\ \A k \in 1 .. Len(old) : t[k] = IF k = n THEN new ELSE old[k]
    BY <1>1, <1>2, <2>1, ExceptSeq
  <2>3. /\ \A x \in Range(t) : \E k \in 1 .. Len(t) : t[k] = x
        /\ \A k \in 1 .. Len(t) : t[k] \in Range(t)
    <3> HIDE DEF t
    <3> QED BY <2>2, ElementsOfSeq
  <2>4. Put(L, entry).symbols = t
    BY <1>6, <1>8
  <2>5. \A i, k \in 1 .. Len(old) : old[i].name = old[k].name => i = k
    BY DEF Distinct, old
  <2> HIDE DEF t
  <2>6. \A k \in 1 .. Len(old) : t[k].name = old[k].name
    BY <1>2, <1>3, <1>8, <2>2
  <2>7. Distinct(t)
    BY <2>2, <2>5, <2>6 DEF Distinct
  <2>8. Range(t) = {s \in Range(old) : s.name # entry.name} \cup {new}
    <3>1. ASSUME NEW x \in Range(t)
          PROVE  x = new \/ x \in {s \in Range(old) : s.name # entry.name}
      <4>1. PICK k \in 1 .. Len(old) : t[k] = x
        BY <2>2, <2>3
      <4>2. CASE k = n
        BY <4>1, <4>2, <2>2
      <4>3. CASE k # n
        <5>1. x = old[k]
          BY <2>2, <4>1, <4>3
        <5>2. old[k].name # entry.name
          BY <1>3, <1>8, <2>1, <2>5, <4>3
        <5> QED BY <5>1, <5>2, <1>4
      <4> QED BY <4>2, <4>3
    <3>2. new \in Range(t)
      BY <2>1, <2>2, <2>3
    <3>3. ASSUME NEW x \in Range(old), x.name # entry.name PROVE x \in Range(t)
      <4>1. PICK k \in 1 .. Len(old) : old[k] = x
        BY <1>4
      <4>2. k # n
        BY <4>1, <3>3, <1>3, <1>8
      <4> QED BY <4>1, <4>2, <2>2, <2>3
    <3> QED BY <3>1, <3>2, <3>3
  <2> QED BY <1>6, <1>8, <2>2, <2>4, <2>7, <2>8 DEF old, n, new
<1> QED BY <1>7, <1>8

-----------------------------------------------------------------------------
(* The stages of a part.                                                   *)

LEMMA LeastIs ==
  ASSUME NEW S, S \subseteq Nat, NEW n \in S, \A y \in S : n <= y
  PROVE  Min(S) = n
<1>1. Min(S) \in S /\ \A y \in S : Min(S) <= y
  BY LeastExists
<1>2. Min(S) \in Nat /\ n \in Nat /\ Min(S) <= n /\ n <= Min(S)
  BY <1>1
<1> QED BY <1>2

\* The artifact that follows the k-th is the next one that is wanted.
LEMMA FollowingAt ==
  ASSUME NEW p, NEW k \in 0 .. 4, NEW artifact,
         artifact = IF k = 0 THEN None ELSE Stages[k]
  PROVE  /\ \A n \in 1 .. 4 :
              k < n /\ Wants(p, Stages[n])
                /\ (\A j \in 1 .. 4 : k < j /\ j < n => ~Wants(p, Stages[j]))
              => Following(p, artifact) = Stages[n]
         /\ (\A n \in 1 .. 4 : k < n => ~Wants(p, Stages[n])) => Following(p, artifact) = "next"
<1> DEFINE later == {n \in 1 .. Len(Stages) :
                       /\ Stages[n] \in command[p].artifacts
                       /\ \A m \in 1 .. Len(Stages) : Stages[m] = artifact => m < n}
<1>1. Len(Stages) = 4 /\ Stages[1] = "symbol" /\ Stages[2] = "footprint"
      /\ Stages[3] = "svg" /\ Stages[4] = "3d" /\ DOMAIN Stages = 1 .. 4
  BY DEF Stages
<1>2. \A m \in 1 .. 4 : Stages[m] = artifact <=> m = k
  <2>1. \A m \in 1 .. 4 : Stages[m] # None
    BY <1>1, ImportAssumption DEF Range
  <2>2. \A m, j \in 1 .. 4 : Stages[m] = Stages[j] => m = j
    <3>1. \A m \in 1 .. 4 : m = 1 \/ m = 2 \/ m = 3 \/ m = 4
      OBVIOUS
    <3> QED BY <1>1, <3>1
  <2>3. CASE k = 0
    BY <2>1, <2>3
  <2>4. CASE k # 0
    BY <2>2, <2>4
  <2> QED BY <2>3, <2>4
<1>3. \A n \in 1 .. 4 : n \in later <=> k < n /\ Wants(p, Stages[n])
  <2> TAKE n \in 1 .. 4
  <2>1. (\A m \in 1 .. 4 : Stages[m] = artifact => m < n) <=> k < n
    <3>1. CASE k = 0
      BY <1>2, <3>1
    <3>2. CASE k # 0
      BY <1>2, <3>2
    <3> QED BY <3>1, <3>2
  <2> QED BY <1>1, <2>1 DEF Wants
<1>4. later \subseteq 1 .. 4 /\ later \subseteq Nat
  BY <1>1
<1>5. Following(p, artifact) = IF later = {} THEN "next" ELSE Stages[Min(later)]
  BY DEF Following
<1> HIDE DEF later
<1>6. ASSUME NEW n \in 1 .. 4, k < n, Wants(p, Stages[n]),
             \A j \in 1 .. 4 : k < j /\ j < n => ~Wants(p, Stages[j])
      PROVE  Following(p, artifact) = Stages[n]
  <2>1. n \in later
    BY <1>3, <1>6
  <2>2. \A y \in later : n <= y
    BY <1>3, <1>4, <1>6
  <2>3. Min(later) = n
    BY <1>4, <2>1, <2>2, LeastIs
  <2> QED BY <1>5, <2>1, <2>3
<1>7. ASSUME \A n \in 1 .. 4 : k < n => ~Wants(p, Stages[n])
      PROVE  Following(p, artifact) = "next"
  <2>1. later = {}
    BY <1>3, <1>4, <1>7
  <2> QED BY <1>5, <2>1
<1> QED BY <1>6, <1>7

\* No artifact that is wanted is passed over.
LEMMA NothingIsSkipped ==
  ASSUME NEW p
  PROVE  /\ Following(p, None) \in {"symbol", "footprint", "svg", "3d", "next"}
         /\ Wants(p, "symbol") => Following(p, None) = "symbol"
         /\ Wants(p, "footprint") => Following(p, None) \in {"symbol", "footprint"}
         /\ Wants(p, "svg") => Following(p, None) \in {"symbol", "footprint", "svg"}
         /\ Wants(p, "3d") => Following(p, None) # "next"
         /\ Following(p, "symbol") \in {"footprint", "svg", "3d", "next"}
         /\ Wants(p, "footprint") => Following(p, "symbol") = "footprint"
         /\ Wants(p, "svg") => Following(p, "symbol") \in {"footprint", "svg"}
         /\ Wants(p, "3d") => Following(p, "symbol") # "next"
         /\ Following(p, "footprint") \in {"svg", "3d", "next"}
         /\ Wants(p, "svg") => Following(p, "footprint") = "svg"
         /\ Wants(p, "3d") => Following(p, "footprint") # "next"
         /\ Following(p, "svg") \in {"3d", "next"}
         /\ Wants(p, "3d") => Following(p, "svg") # "next"
<1>1. Stages[1] = "symbol" /\ Stages[2] = "footprint" /\ Stages[3] = "svg" /\ Stages[4] = "3d"
  BY DEF Stages
<1>2. \A j \in 1 .. 4 : j = 1 \/ j = 2 \/ j = 3 \/ j = 4
  OBVIOUS
<1>3. ASSUME NEW k \in 0 .. 3, NEW artifact, artifact = IF k = 0 THEN None ELSE Stages[k]
      PROVE  /\ k < 1 /\ Wants(p, "symbol") => Following(p, artifact) = "symbol"
             /\ k < 2 /\ Wants(p, "footprint") /\ ~(k < 1 /\ Wants(p, "symbol"))
                  => Following(p, artifact) = "footprint"
             /\ k < 3 /\ Wants(p, "svg") /\ ~(k < 1 /\ Wants(p, "symbol"))
                  /\ ~(k < 2 /\ Wants(p, "footprint")) => Following(p, artifact) = "svg"
             /\ Wants(p, "3d") /\ ~(k < 1 /\ Wants(p, "symbol"))
                  /\ ~(k < 2 /\ Wants(p, "footprint")) /\ ~(k < 3 /\ Wants(p, "svg"))
                  => Following(p, artifact) = "3d"
             /\ ~Wants(p, "3d") /\ ~(k < 1 /\ Wants(p, "symbol"))
                  /\ ~(k < 2 /\ Wants(p, "footprint")) /\ ~(k < 3 /\ Wants(p, "svg"))
                  => Following(p, artifact) = "next"
  <2>1. /\ \A n \in 1 .. 4 :
              k < n /\ Wants(p, Stages[n])
                /\ (\A j \in 1 .. 4 : k < j /\ j < n => ~Wants(p, Stages[j]))
              => Following(p, artifact) = Stages[n]
        /\ (\A n \in 1 .. 4 : k < n => ~Wants(p, Stages[n])) => Following(p, artifact) = "next"
    BY <1>3, FollowingAt
  <2>2. k < 1 /\ Wants(p, "symbol") => Following(p, artifact) = "symbol"
    <3> SUFFICES ASSUME k < 1, Wants(p, "symbol") PROVE Following(p, artifact) = "symbol"
      OBVIOUS
    <3>1. \A j \in 1 .. 4 : k < j /\ j < 1 => ~Wants(p, Stages[j])
      OBVIOUS
    <3>2. 1 \in 1 .. 4
      OBVIOUS
    <3> QED BY <1>1, <2>1, <3>1, <3>2
  <2>3. k < 2 /\ Wants(p, "footprint") /\ ~(k < 1 /\ Wants(p, "symbol"))
          => Following(p, artifact) = "footprint"
    <3> SUFFICES ASSUME k < 2, Wants(p, "footprint"), ~(k < 1 /\ Wants(p, "symbol"))
                 PROVE  Following(p, artifact) = "footprint"
      OBVIOUS
    <3>1. \A j \in 1 .. 4 : k < j /\ j < 2 => ~Wants(p, Stages[j])
      BY <1>1, <1>2
    <3>2. 2 \in 1 .. 4
      OBVIOUS
    <3> QED BY <1>1, <2>1, <3>1, <3>2
  <2>4. k < 3 /\ Wants(p, "svg") /\ ~(k < 1 /\ Wants(p, "symbol"))
          /\ ~(k < 2 /\ Wants(p, "footprint")) => Following(p, artifact) = "svg"
    <3> SUFFICES ASSUME k < 3, Wants(p, "svg"), ~(k < 1 /\ Wants(p, "symbol")),
                        ~(k < 2 /\ Wants(p, "footprint"))
                 PROVE  Following(p, artifact) = "svg"
      OBVIOUS
    <3>1. \A j \in 1 .. 4 : k < j /\ j < 3 => ~Wants(p, Stages[j])
      BY <1>1, <1>2
    <3>2. 3 \in 1 .. 4
      OBVIOUS
    <3> QED BY <1>1, <2>1, <3>1, <3>2
  <2>5. Wants(p, "3d") /\ ~(k < 1 /\ Wants(p, "symbol"))
          /\ ~(k < 2 /\ Wants(p, "footprint")) /\ ~(k < 3 /\ Wants(p, "svg"))
          => Following(p, artifact) = "3d"
    <3> SUFFICES ASSUME Wants(p, "3d"), ~(k < 1 /\ Wants(p, "symbol")),
                        ~(k < 2 /\ Wants(p, "footprint")), ~(k < 3 /\ Wants(p, "svg"))
                 PROVE  Following(p, artifact) = "3d"
      OBVIOUS
    <3>1. \A j \in 1 .. 4 : k < j /\ j < 4 => ~Wants(p, Stages[j])
      BY <1>1, <1>2
    <3>2. 4 \in 1 .. 4 /\ k < 4
      OBVIOUS
    <3> QED BY <1>1, <2>1, <3>1, <3>2
  <2>6. ~Wants(p, "3d") /\ ~(k < 1 /\ Wants(p, "symbol"))
          /\ ~(k < 2 /\ Wants(p, "footprint")) /\ ~(k < 3 /\ Wants(p, "svg"))
          => Following(p, artifact) = "next"
    BY <1>1, <1>2, <2>1
  <2> QED BY <2>2, <2>3, <2>4, <2>5, <2>6
<1>4. /\ Following(p, None) \in {"symbol", "footprint", "svg", "3d", "next"}
      /\ Wants(p, "symbol") => Following(p, None) = "symbol"
      /\ Wants(p, "footprint") => Following(p, None) \in {"symbol", "footprint"}
      /\ Wants(p, "svg") => Following(p, None) \in {"symbol", "footprint", "svg"}
      /\ Wants(p, "3d") => Following(p, None) # "next"
  <2>1. 0 \in 0 .. 3 /\ None = IF 0 = 0 THEN None ELSE Stages[0]
    OBVIOUS
  <2> QED BY <2>1, <1>3
<1>5. /\ Following(p, "symbol") \in {"footprint", "svg", "3d", "next"}
      /\ Wants(p, "footprint") => Following(p, "symbol") = "footprint"
      /\ Wants(p, "svg") => Following(p, "symbol") \in {"footprint", "svg"}
      /\ Wants(p, "3d") => Following(p, "symbol") # "next"
  <2>1. 1 \in 0 .. 3 /\ "symbol" = IF 1 = 0 THEN None ELSE Stages[1]
    BY <1>1
  <2> QED BY <2>1, <1>3
<1>6. /\ Following(p, "footprint") \in {"svg", "3d", "next"}
      /\ Wants(p, "svg") => Following(p, "footprint") = "svg"
      /\ Wants(p, "3d") => Following(p, "footprint") # "next"
  <2>1. 2 \in 0 .. 3 /\ "footprint" = IF 2 = 0 THEN None ELSE Stages[2]
    BY <1>1
  <2> QED BY <2>1, <1>3
<1>7. /\ Following(p, "svg") \in {"3d", "next"}
      /\ Wants(p, "3d") => Following(p, "svg") # "next"
  <2>1. 3 \in 0 .. 3 /\ "svg" = IF 3 = 0 THEN None ELSE Stages[3]
    BY <1>1
  <2> QED BY <2>1, <1>3
<1> QED BY <1>4, <1>5, <1>6, <1>7

-----------------------------------------------------------------------------
(* The part at hand, and the files of parts.                               *)

LEMMA CommandFacts ==
  ASSUME NEW c \in Commands
  PROVE  /\ c.ids \in Seq(Ids) /\ Len(c.ids) \in Nat /\ DOMAIN c.ids = 1 .. Len(c.ids)
         /\ Len(c.ids) >= 1 /\ \A n \in 1 .. Len(c.ids) : c.ids[n] \in Ids
         /\ c # None
<1>1. c.ids \in Seq(Ids) /\ c.ids # <<>> /\ c # None
  BY ImportAssumption
<1>2. Len(c.ids) \in Nat /\ DOMAIN c.ids = 1 .. Len(c.ids)
  BY <1>1, LenProperties
<1>3. Len(c.ids) # 0
  BY <1>1, EmptySeq
<1>4. \A n \in 1 .. Len(c.ids) : c.ids[n] \in Ids
  BY <1>1, ElementOfSeq
<1> QED BY <1>1, <1>2, <1>3, <1>4

LEMMA FilesOfParts ==
  ASSUME NEW i \in Ids
  PROVE  /\ <<"json", i>> \in Keys \ Artifacts
         /\ FootprintKey(i) \in Artifacts /\ <<"svg", i>> \in Artifacts
         /\ Parts[i].model # None =>
              /\ <<"wrl", Parts[i].model>> \in Artifacts
              /\ <<"step", Parts[i].model>> \in Artifacts
              /\ <<"obj", Parts[i].model>> \in Keys \ Artifacts
              /\ <<"stp", Parts[i].model>> \in Keys \ Artifacts
<1>1. Parts[i].model # None => Parts[i].model \in Models
  BY DEF Models
<1>2. Parts[i].footprint \in {Parts[k].footprint : k \in Ids}
  OBVIOUS
<1> QED BY <1>1, <1>2 DEF Keys, Cache, Artifacts, FootprintKey

LEMMA PartAtHand ==
  ASSUME NEW p, command[p] \in Commands, position[p] \in 1 .. Len(command[p].ids)
  PROVE  Id(p) \in Ids /\ Part(p).symbol \in {Parts[i].symbol : i \in Ids}
         /\ Part(p).text \in Texts /\ position[p] \in Nat /\ position[p] >= 1
<1>1. Id(p) \in Ids /\ Len(command[p].ids) \in Nat
  BY CommandFacts DEF Id
<1> QED BY <1>1, ImportAssumption DEF Part

-----------------------------------------------------------------------------
(* Other commands.                                                         *)

\* What a step of another command leaves of this one's.
SameLibrary ==
    \/ lib' = lib
    \/ lib.state = "absent" /\ lib.symbols = <<>> /\ lib' = Skeleton
Still(q) ==
    /\ pc'[q] = pc[q] /\ command'[q] = command[q] /\ position'[q] = position[q]
    /\ cad'[q] = cad[q] /\ model'[q] = model[q] /\ update'[q] = update[q] /\ job'[q] = job[q]
    /\ failed'[q] = failed[q] /\ readable'[q] = readable[q] /\ hindered'[q] = hindered[q]
    /\ lacking'[q] = lacking[q] /\ since'[q] = since[q]
Beside(q) ==
    /\ Still(q) /\ revision <= revision'
    /\ Active(q) /\ ~touched'[q] =>
         ~touched[q] /\ SameLibrary /\ \A key \in Artifacts : file'[key] = file[key]

LEMMA FollowingStays ==
  ASSUME NEW p, command'[p] = command[p], NEW artifact
  PROVE  Following(p, artifact)' = Following(p, artifact)
  BY DEF Following

\* What is in the libraries stays, as long as the texts and files do.
KindStays(p, kinds) ==
    \A key \in Artifacts : key[1] \in kinds => Shown(p, key)' = Shown(p, key)

LEMMA ImportedStays ==
  ASSUME NEW p, command'[p] = command[p], since'[p] = since[p], NEW d
  PROVE  /\ Text(p)' = Text(p) /\ SymbolsIn(p, d) => SymbolsIn(p, d)'
         /\ command[p] \in Commands /\ d <= Len(command[p].ids) /\ d \in Nat
            => /\ KindStays(p, {"footprint"}) /\ FootprintsIn(p, d) => FootprintsIn(p, d)'
               /\ KindStays(p, {"svg"}) /\ DrawingsIn(p, d) => DrawingsIn(p, d)'
               /\ KindStays(p, {"wrl", "step"}) /\ (lacking'[p] = {} => lacking[p] = {})
                    /\ ModelsIn(p, d) => ModelsIn(p, d)'
<1>1. ASSUME Text(p)' = Text(p), SymbolsIn(p, d) PROVE SymbolsIn(p, d)'
  BY <1>1 DEF SymbolsIn, HasSymbol, IsLast, Fresh, SymbolName
<1>2. ASSUME command[p] \in Commands, d <= Len(command[p].ids), d \in Nat
      PROVE  /\ KindStays(p, {"footprint"}) /\ FootprintsIn(p, d) => FootprintsIn(p, d)'
             /\ KindStays(p, {"svg"}) /\ DrawingsIn(p, d) => DrawingsIn(p, d)'
             /\ KindStays(p, {"wrl", "step"}) /\ (lacking'[p] = {} => lacking[p] = {})
                  /\ ModelsIn(p, d) => ModelsIn(p, d)'
  <2>1. \A m \in 1 .. d : command[p].ids[m] \in Ids
    BY <1>2, CommandFacts
  <2>2. ASSUME KindStays(p, {"footprint"}), FootprintsIn(p, d) PROVE FootprintsIn(p, d)'
    <3>1. \A i, id : IsLast(p, FootprintName, i, d, id)' <=> IsLast(p, FootprintName, i, d, id)
      BY DEF IsLast, FootprintName
    <3>2. \A content : Fresh(p, content)' <=> Fresh(p, content)
      BY DEF Fresh
    <3>3. \A i \in Ids : Shown(p, FootprintKey(i))' = Shown(p, FootprintKey(i))
      BY <2>2, FilesOfParts DEF KindStays, FootprintKey
    <3> QED BY <2>1, <2>2, <3>1, <3>2, <3>3 DEF FootprintsIn
  <2>3. ASSUME KindStays(p, {"svg"}), DrawingsIn(p, d) PROVE DrawingsIn(p, d)'
    <3>1. \A i \in Ids : Shown(p, <<"svg", i>>)' = Shown(p, <<"svg", i>>)
      BY <2>3, FilesOfParts DEF KindStays
    <3> QED BY <2>1, <2>3, <3>1 DEF DrawingsIn, Fresh
  <2>4. ASSUME KindStays(p, {"wrl", "step"}), lacking'[p] = {} => lacking[p] = {},
               ModelsIn(p, d)
        PROVE  ModelsIn(p, d)'
    <3>1. \A i \in Ids, kind \in {"wrl", "step"} : Parts[i].model # None =>
            Shown(p, <<kind, Parts[i].model>>)' = Shown(p, <<kind, Parts[i].model>>)
      BY <2>4, FilesOfParts DEF KindStays
    <3> QED BY <2>1, <2>4, <3>1 DEF ModelsIn, ModelIn, Sound
  <2> QED BY <2>2, <2>3, <2>4
<1> QED BY <1>1, <1>2

\* Where the files that a command writes are, and that they are of known kinds.
LEMMA JobIsOfPart ==
  ASSUME NEW p, Runs(p), HoldsModel(p), HoldsJob(p), Active(p), pc[p] \in Writing
  PROVE  /\ Kind(p) \in {"footprint", "svg", "wrl", "step"} => job[p].key \in Artifacts
         /\ Kind(p) \in {"json", "obj", "stp"} => job[p].key \in Keys \ Artifacts
         /\ Kind(p) \in {"footprint", "svg", "wrl", "step", "json", "obj", "stp"}
<1>1. Id(p) \in Ids
  BY PartAtHand DEF Runs
<1>2. JobFits(p) /\ (ModelJob(p) => Part(p).model # None)
  BY DEF HoldsJob, HoldsModel
<1>3. /\ <<"json", Id(p)>> \in Keys \ Artifacts
      /\ <<"footprint", Part(p).footprint>> \in Artifacts /\ <<"svg", Id(p)>> \in Artifacts
      /\ Part(p).model # None =>
              /\ <<"wrl", Part(p).model>> \in Artifacts
              /\ <<"step", Part(p).model>> \in Artifacts
              /\ <<"obj", Part(p).model>> \in Keys \ Artifacts
              /\ <<"stp", Part(p).model>> \in Keys \ Artifacts
  BY <1>1, FilesOfParts DEF Part, FootprintKey
<1>4. \/ job[p].key \in {<<"json", Id(p)>>, <<"footprint", Part(p).footprint>>, <<"svg", Id(p)>>}
      \/ job[p].key \in {<<"obj", Part(p).model>>, <<"stp", Part(p).model>>,
                         <<"wrl", Part(p).model>>, <<"step", Part(p).model>>}
  BY <1>2 DEF JobFits
<1> QED BY <1>2, <1>3, <1>4 DEF Kind, ModelJob

LEMMA HoldsStays ==
  ASSUME NEW q, Holds(q), Still(q), revision <= revision',
         revision \in Nat, revision' \in Nat, since[q] \in Nat
  PROVE  Holds(q)'
<1> USE DEF Still
<1>1. /\ Active(q)' <=> Active(q)
      /\ Id(q)' = Id(q) /\ Part(q)' = Part(q) /\ Kind(q)' = Kind(q)
      /\ \A content : Fresh(q, content)' <=> Fresh(q, content)
      /\ \A content : Sound(q, content)' <=> Sound(q, content)
      /\ Drafted(q)' = Drafted(q) /\ (ModelJob(q)' <=> ModelJob(q))
      /\ Replaces(q)' = Replaces(q)
  BY DEF Active, Id, Part, Kind, Fresh, Sound, Drafted, ModelJob, Replaces
<1>2. Runs(q)'
  BY <1>1 DEF Holds, Runs
<1>3. HoldsCad(q)'
  BY <1>1 DEF Holds, HoldsCad
<1>4. HoldsModel(q)'
  BY <1>1 DEF Holds, HoldsModel
<1>5. HoldsJob(q)'
  <2>1. JobFits(q)' <=> JobFits(q)
    BY <1>1, FollowingStays DEF JobFits
  <2> QED BY <1>1, <2>1 DEF Holds, HoldsJob
<1> QED BY <1>2, <1>3, <1>4, <1>5 DEF Holds

LEMMA KeepsStays ==
  ASSUME NEW q, Holds(q), Keeps(q), Beside(q)
  PROVE  Keeps(q)'
<1> SUFFICES ASSUME Active(q)', ~Replaces(q)', ~touched'[q] PROVE KeepsWhatExists(q)'
  BY DEF Keeps
<1>1. /\ Active(q) /\ ~Replaces(q) /\ ~touched[q] /\ SameLibrary
      /\ \A key \in Artifacts : file'[key] = file[key]
  BY DEF Beside, Still, Active, Replaces
<1>2. KeepsWhatExists(q)
  BY <1>1 DEF Keeps
<1>3. lib'.symbols = lib.symbols
  BY <1>1 DEF SameLibrary, Skeleton
<1>4. Id(q)' = Id(q) /\ Part(q)' = Part(q) /\ Kind(q)' = Kind(q) /\ pc'[q] = pc[q]
      /\ job'[q] = job[q] /\ update'[q] = update[q]
  BY DEF Beside, Still, Id, Part, Kind
<1>5. /\ pc[q] \in Writing /\ Kind(q) \in {"footprint", "wrl", "step"} =>
           job[q].key \in Artifacts
      /\ pc[q] \in Writing /\ Kind(q) = "wrl" => <<"step", Part(q).model>> \in Artifacts
      /\ pc[q] = "step" => <<"step", Part(q).model>> \in Artifacts
  <2>1. Runs(q) /\ HoldsModel(q) /\ HoldsJob(q)
    BY DEF Holds
  <2>2. Id(q) \in Ids
    BY <1>1, <2>1, PartAtHand DEF Runs
  <2>3. Part(q).model # None => <<"step", Part(q).model>> \in Artifacts
    BY <2>2, FilesOfParts DEF Part
  <2>4. pc[q] = "step" \/ (pc[q] \in Writing /\ Kind(q) = "wrl") => Part(q).model # None
    BY <2>1 DEF HoldsModel, ModelSteps, ModelJob
  <2> QED BY <1>1, <2>1, <2>3, <2>4, JobIsOfPart
<1>6. IndexOf(lib'.symbols, Part(q).symbol) = IndexOf(lib.symbols, Part(q).symbol)
  BY <1>3
<1> QED BY <1>1, <1>2, <1>3, <1>4, <1>5, <1>6 DEF KeepsWhatExists, Writing

\* The counts are those of parts of the command.
LEMMA CountsAreOfParts ==
  ASSUME NEW p, command[p] \in Commands, position[p] \in 1 .. Len(command[p].ids)
  PROVE  /\ SymbolCount(p) \in Nat /\ FootprintCount(p) \in Nat
         /\ SvgCount(p) \in Nat /\ ModelCount(p) \in Nat
         /\ SymbolCount(p) <= Len(command[p].ids) /\ FootprintCount(p) <= Len(command[p].ids)
         /\ SvgCount(p) <= Len(command[p].ids) /\ ModelCount(p) <= Len(command[p].ids)
<1>1. Len(command[p].ids) \in Nat
  BY CommandFacts
<1> QED BY <1>1 DEF SymbolCount, FootprintCount, SvgCount, ModelCount

\* The text of the library stays, but for the skeleton that a new one gets.
TextStays(p) ==
    Text(p)' = Text(p) \/ (Text(p).state = "absent" /\ Text(p)' = Skeleton)

\* A step leaves what is imported, and the counts of what is wanted, or brings
\* the next part.
SymbolsStay(p) ==
    \/ TextStays(p) /\ SymbolCount(p)' = SymbolCount(p)
    \/ \A d \in Nat : d = SymbolCount(p)' => SymbolsIn(p, d)'
FootprintsStay(p) ==
    \/ KindStays(p, {"footprint"}) /\ FootprintCount(p)' = FootprintCount(p)
    \/ \A d \in Nat : d = FootprintCount(p)' => FootprintsIn(p, d)'
DrawingsStay(p) ==
    \/ KindStays(p, {"svg"}) /\ SvgCount(p)' = SvgCount(p)
    \/ \A d \in Nat : d = SvgCount(p)' => DrawingsIn(p, d)'
ModelsStay(p) ==
    \/ /\ KindStays(p, {"wrl", "step"}) /\ ModelCount(p)' = ModelCount(p)
       /\ lacking'[p] = {} => lacking[p] = {}
    \/ \A d \in Nat : d = ModelCount(p)' => ModelsIn(p, d)'

LEMMA ProgressStays ==
  ASSUME NEW p, Runs(p), Active(p), Progress(p),
         command'[p] = command[p], since'[p] = since[p],
         Course(p)' => /\ Course(p) /\ LibraryIsReady(p)'
                       /\ Wants(p, "symbol") => SymbolsStay(p)
                       /\ Wants(p, "footprint") => FootprintsStay(p)
                       /\ Wants(p, "svg") => DrawingsStay(p)
                       /\ Wants(p, "3d") => ModelsStay(p) /\ HalfOfModel(p)'
  PROVE  Progress(p)'
<1> SUFFICES ASSUME Course(p)'
             PROVE  /\ LibraryIsReady(p)'
                    /\ (Wants(p, "symbol") =>
                          \A d \in Nat : d = SymbolCount(p) => SymbolsIn(p, d))'
                    /\ (Wants(p, "footprint") =>
                          \A d \in Nat : d = FootprintCount(p) => FootprintsIn(p, d))'
                    /\ (Wants(p, "svg") =>
                          \A d \in Nat : d = SvgCount(p) => DrawingsIn(p, d))'
                    /\ (Wants(p, "3d") => /\ \A d \in Nat : d = ModelCount(p) => ModelsIn(p, d)
                                          /\ HalfOfModel(p))'
  BY DEF Progress
<1>1. \A artifact : Wants(p, artifact)' <=> Wants(p, artifact)
  BY DEF Wants
<1>2. command[p] \in Commands /\ position[p] \in 1 .. Len(command[p].ids)
  BY DEF Runs
<1>3. /\ SymbolCount(p) <= Len(command[p].ids) /\ FootprintCount(p) <= Len(command[p].ids)
      /\ SvgCount(p) <= Len(command[p].ids) /\ ModelCount(p) <= Len(command[p].ids)
  BY <1>2, CountsAreOfParts
<1>4. /\ Wants(p, "symbol") => \A d \in Nat : d = SymbolCount(p) => SymbolsIn(p, d)
      /\ Wants(p, "footprint") => \A d \in Nat : d = FootprintCount(p) => FootprintsIn(p, d)
      /\ Wants(p, "svg") => \A d \in Nat : d = SvgCount(p) => DrawingsIn(p, d)
      /\ Wants(p, "3d") => \A d \in Nat : d = ModelCount(p) => ModelsIn(p, d)
  BY DEF Progress
<1>5. ASSUME NEW d \in Nat, Wants(p, "symbol"), d = SymbolCount(p)' PROVE SymbolsIn(p, d)'
  <2>1. CASE TextStays(p) /\ SymbolCount(p)' = SymbolCount(p)
    <3>1. SymbolsIn(p, d)
      BY <1>4, <1>5, <2>1
    <3>2. CASE Text(p)' = Text(p)
      BY <3>1, <3>2, ImportedStays
    <3>3. CASE Text(p).state = "absent"
      <4>1. ~(d > 0) /\ d = 0
        BY <3>1, <3>3 DEF SymbolsIn
      <4> QED BY <4>1 DEF SymbolsIn
    <3> QED BY <2>1, <3>2, <3>3 DEF TextStays
  <2> QED BY <1>5, <2>1 DEF SymbolsStay
<1>6. ASSUME NEW d \in Nat, Wants(p, "footprint"), d = FootprintCount(p)'
      PROVE  FootprintsIn(p, d)'
  BY <1>2, <1>3, <1>4, <1>6, ImportedStays DEF FootprintsStay
<1>7. ASSUME NEW d \in Nat, Wants(p, "svg"), d = SvgCount(p)' PROVE DrawingsIn(p, d)'
  BY <1>2, <1>3, <1>4, <1>7, ImportedStays DEF DrawingsStay
<1>8. ASSUME NEW d \in Nat, Wants(p, "3d"), d = ModelCount(p)' PROVE ModelsIn(p, d)'
  BY <1>2, <1>3, <1>4, <1>8, ImportedStays DEF ModelsStay
<1>9. Wants(p, "3d") => HalfOfModel(p)'
  OBVIOUS
<1>10. LibraryIsReady(p)'
  OBVIOUS
<1> QED BY <1>1, <1>5, <1>6, <1>7, <1>8, <1>9, <1>10

LEMMA OthersProgress ==
  ASSUME NEW q, Holds(q), Progress(q), Beside(q), position[q] \in Nat
  PROVE  Progress(q)'
<1>1. CASE ~Active(q)
  BY <1>1 DEF Progress, Course, Beside, Still, Active
<1>2. CASE Active(q)
  <2>1. Still(q)
    BY DEF Beside
  <2>2. ASSUME Course(q)'
        PROVE  /\ Course(q) /\ LibraryIsReady(q)'
               /\ SymbolCount(q)' = SymbolCount(q) /\ FootprintCount(q)' = FootprintCount(q)
               /\ SvgCount(q)' = SvgCount(q) /\ ModelCount(q)' = ModelCount(q)
    <3>1. Course(q) /\ SameLibrary
      BY <2>1, <2>2 DEF Course, Beside, Still, Active
    <3>2. LibraryIsReady(q)
      BY <3>1 DEF Progress
    <3>3. Symbol(q)' = Symbol(q)
      BY <2>1 DEF Still, Symbol, Part, Id
    <3>4. LibraryIsReady(q)'
      <4>1. CASE lib' = lib
        <5>1. Put(lib, Symbol(q))' = Put(lib, Symbol(q))
          BY <3>3, <4>1
        <5> QED BY <3>2, <4>1, <5>1, <2>1 DEF LibraryIsReady, Still
      <4>2. CASE lib.state = "absent" /\ lib' = Skeleton
        BY <3>2, <4>2, <2>1 DEF LibraryIsReady, Still, Skeleton
      <4> QED BY <3>1, <4>1, <4>2 DEF SameLibrary
    <3>5. /\ SymbolCount(q)' = SymbolCount(q) /\ FootprintCount(q)' = FootprintCount(q)
          /\ SvgCount(q)' = SvgCount(q) /\ ModelCount(q)' = ModelCount(q)
      <4>1. /\ SymbolDone(q)' <=> SymbolDone(q)
            /\ FootprintDone(q)' <=> FootprintDone(q)
            /\ SvgDone(q)' <=> SvgDone(q)
        BY <2>1 DEF Still, SymbolDone, FootprintDone, SvgDone, Kind, Writing
      <4> QED BY <4>1, <2>1 DEF Still, SymbolCount, FootprintCount, SvgCount, ModelCount
    <3> QED BY <3>1, <3>4, <3>5
  <2>3. \A key \in Artifacts : Course(q)' => Shown(q, key)' = Shown(q, key)
    BY <1>2, <2>1 DEF Course, Beside, Still, Shown
  <2>4. Course(q)' => (HalfOfModel(q) => HalfOfModel(q)')
    <3> SUFFICES ASSUME Course(q)', HalfOfModel(q) PROVE HalfOfModel(q)'
      OBVIOUS
    <3>1. Part(q)' = Part(q) /\ Kind(q)' = Kind(q)
      BY <2>1 DEF Still, Part, Id, Kind
    <3>2. Runs(q) /\ HoldsModel(q) /\ Id(q) \in Ids
      BY <1>2, PartAtHand DEF Holds, Runs
    <3>3. pc[q] = "step" \/ (pc[q] \in Writing /\ Kind(q) = "step") =>
            <<"wrl", Part(q).model>> \in Artifacts
      BY <3>2, FilesOfParts DEF HoldsModel, ModelSteps, ModelJob, Part
    <3> QED BY <2>1, <2>3, <3>1, <3>3 DEF HalfOfModel, ModelIn, Sound, Still
  <2>5. Course(q)' => TextStays(q)
    BY <2>1, <2>2 DEF TextStays, Text, Course, Beside, Still, SameLibrary, Active
  <2>6. Runs(q)
    BY DEF Holds
  <2>7. Progress(q) /\ Course(q) /\ Wants(q, "3d") => HalfOfModel(q)
    BY DEF Progress
  <2>8. /\ command'[q] = command[q] /\ since'[q] = since[q] /\ position'[q] \in Nat
        /\ lacking'[q] = {} => lacking[q] = {}
    BY <2>1 DEF Still
  <2>9. Course(q)' => SymbolsStay(q) /\ FootprintsStay(q) /\ DrawingsStay(q) /\ ModelsStay(q)
    BY <2>2, <2>3, <2>5, <2>8 DEF SymbolsStay, FootprintsStay, DrawingsStay, ModelsStay, KindStays
  <2>10. Course(q)' => /\ Course(q) /\ LibraryIsReady(q)'
                       /\ Wants(q, "3d") => HalfOfModel(q)'
    BY <2>2, <2>4, <2>7
  <2>11. Course(q)' => /\ Course(q) /\ LibraryIsReady(q)'
                       /\ Wants(q, "symbol") => SymbolsStay(q)
                       /\ Wants(q, "footprint") => FootprintsStay(q)
                       /\ Wants(q, "svg") => DrawingsStay(q)
                       /\ Wants(q, "3d") => ModelsStay(q) /\ HalfOfModel(q)'
    BY <2>9, <2>10
  <2>12. command'[q] = command[q] /\ since'[q] = since[q]
    BY <2>8
  <2> QED BY <1>2, <2>6, <2>11, <2>12, ProgressStays
<1> QED BY <1>1, <1>2

-----------------------------------------------------------------------------
(* Steps that write nothing.                                               *)

\* What is to be shown of a step of p: what p holds, and that the others may
\* stay as they are.
StepKeeps(p) ==
    /\ Typed' /\ CacheIsOfParts' /\ LibraryIsASet'
    /\ Holds(p)' /\ Keeps(p)' /\ Progress(p)' /\ \A q \in Procs \ {p} : Beside(q)

LEMMA QuietStep ==
  ASSUME IInv, NEW p \in Procs, Typed',
         UNCHANGED <<files, revision, touched>>, IsSet(update'[p]),
         \A q \in Procs \ {p} : Still(q), Holds(p)', Keeps(p)', Progress(p)'
  PROVE  StepKeeps(p)
<1>1. CacheIsOfParts'
  BY DEF IInv, CacheIsOfParts, files
<1>2. LibraryIsASet'
  <2>1. \A q \in Procs : IsSet(update'[q])
    BY DEF IInv, LibraryIsASet, Still
  <2>2. IsSet(lib')
    BY DEF IInv, LibraryIsASet, files
  <2> QED BY <2>1, <2>2 DEF LibraryIsASet
<1>3. \A q \in Procs \ {p} : Beside(q)
  BY DEF IInv, Typed, Beside, SameLibrary, files
<1> QED BY <1>1, <1>2, <1>3 DEF StepKeeps

LEMMA QuietProgress ==
  ASSUME NEW p, Runs(p), Active(p), Progress(p),
         UNCHANGED <<files, command, position, since, readable, touched>>,
         failed[p] => failed'[p], failed[p] \in BOOLEAN,
         pc[p] \notin {"write", "close"}, pc'[p] \notin {"truncate", "write", "close"},
         Course(p)' =>
            /\ Wants(p, "symbol") => (SymbolDone(p)' <=> SymbolDone(p))
            /\ Wants(p, "footprint") => (FootprintDone(p)' <=> FootprintDone(p))
            /\ Wants(p, "svg") => (SvgDone(p)' <=> SvgDone(p))
            /\ Wants(p, "3d") =>
                 /\ HalfOfModel(p)'
                 /\ \/ /\ (pc'[p] = "next") <=> (pc[p] = "next")
                       /\ lacking'[p] = {} => lacking[p] = {}
                    \/ \A d \in Nat : d = ModelCount(p)' => ModelsIn(p, d)'
  PROVE  Progress(p)'
<1>1. CASE ~Course(p)'
  BY <1>1 DEF Progress
<1>2. CASE Course(p)'
  <2>1. Course(p)
    BY <1>2 DEF Course
  <2>2. LibraryIsReady(p)'
    BY <2>1 DEF Progress, LibraryIsReady, files
  <2>3. TextStays(p)
    BY DEF TextStays, Text, files
  <2>4. \A kinds : KindStays(p, kinds)
    BY DEF KindStays, Shown, files
  <2>5. Wants(p, "symbol") => SymbolsStay(p)
    BY <1>2, <2>3 DEF SymbolsStay, SymbolCount
  <2>6. Wants(p, "footprint") => FootprintsStay(p)
    BY <1>2, <2>4 DEF FootprintsStay, FootprintCount
  <2>7. Wants(p, "svg") => DrawingsStay(p)
    BY <1>2, <2>4 DEF DrawingsStay, SvgCount
  <2>8. Wants(p, "3d") => ModelsStay(p) /\ HalfOfModel(p)'
    BY <1>2, <2>4 DEF ModelsStay, ModelCount
  <2> QED BY <2>1, <2>2, <2>5, <2>6, <2>7, <2>8, ProgressStays
<1> QED BY <1>1, <1>2

\* What the invariant says of the command p that is under way.
LEMMA AtHand ==
  ASSUME IInv, NEW p \in Procs, Active(p)
  PROVE  /\ Typed /\ Runs(p) /\ HoldsCad(p) /\ HoldsModel(p) /\ HoldsJob(p)
         /\ Keeps(p) /\ Progress(p) /\ command[p] \in Commands
         /\ position[p] \in 1 .. Len(command[p].ids) /\ Id(p) \in Ids
         /\ IsSet(update[p]) /\ failed[p] \in BOOLEAN
         /\ <<"json", Id(p)>> \in Keys /\ <<"footprint", Part(p).footprint>> \in Keys
         /\ <<"svg", Id(p)>> \in Keys
         /\ Part(p).model # None =>
              \A kind \in {"wrl", "step", "obj", "stp"} : <<kind, Part(p).model>> \in Keys
<1>1. Runs(p) /\ Holds(p)
  BY DEF IInv, Holds
<1>2. Id(p) \in Ids
  BY <1>1, PartAtHand DEF Runs
<1>3. /\ <<"json", Id(p)>> \in Keys /\ <<"footprint", Part(p).footprint>> \in Keys
      /\ <<"svg", Id(p)>> \in Keys
      /\ Part(p).model # None =>
              \A kind \in {"wrl", "step", "obj", "stp"} : <<kind, Part(p).model>> \in Keys
  BY <1>2, FilesOfParts DEF Part, FootprintKey, Keys
<1> QED BY <1>1, <1>2, <1>3 DEF IInv, Holds, Runs, LibraryIsASet, Typed

LEMMA FetchCachedStep ==
  ASSUME IInv, NEW p \in Procs, FetchCached(p)
  PROVE  StepKeeps(p)
<1> DEFINE content == file[<<"json", Id(p)>>]
           next == Following(p, None)
<1>1. /\ pc[p] = "fetch" /\ content # None /\ content.whole
      /\ command[p].cached
      /\ UNCHANGED <<files, revision, command, position, model, update, job, failed,
                     runs, faults, history>>
      /\ cad' = [cad EXCEPT ![p] = content] /\ pc' = [pc EXCEPT ![p] = next]
  BY DEF FetchCached, Valid, Goto
<1>2. Active(p)
  BY <1>1 DEF Active
<1>3. /\ Typed /\ Runs(p) /\ HoldsCad(p) /\ Progress(p) /\ Id(p) \in Ids
      /\ <<"json", Id(p)>> \in Keys
  BY <1>2, AtHand
<1>4. /\ next \in {"symbol", "footprint", "svg", "3d", "next"}
      /\ Wants(p, "symbol") => next = "symbol"
      /\ Wants(p, "footprint") => next \in {"symbol", "footprint"}
      /\ Wants(p, "svg") => next \in {"symbol", "footprint", "svg"}
      /\ Wants(p, "3d") => next # "next"
  BY NothingIsSkipped
<1>5. content \in Contents /\ content.id = Id(p)
  <2>1. content \in Contents \cup {None}
    BY <1>3 DEF Typed
  <2> QED BY <2>1, <1>1, <1>3 DEF IInv, CacheIsOfParts
<1> HIDE DEF content, next
<1>6. pc'[p] = next /\ cad'[p] = content
  BY <1>1, <1>3 DEF Typed
<1>7. Typed'
  BY <1>1, <1>3, <1>4, <1>5 DEF Typed, files, history, Pcs
<1>8. \A q \in Procs \ {p} : Still(q)
  BY <1>1, <1>3 DEF Typed, Still, history
<1>9. Holds(p)'
  <2>1. Runs(p)'
    BY <1>1, <1>2, <1>3 DEF Runs, Replaces, Active, history
  <2>2. HoldsCad(p)'
    BY <1>1, <1>3, <1>4, <1>5, <1>6, ImportAssumption
    DEF HoldsCad, Active, Id, Fresh, history, Contents
  <2>3. HoldsModel(p)' /\ HoldsJob(p)'
    BY <1>4, <1>6 DEF HoldsModel, HoldsJob, ModelJob, ModelSteps, Writing
  <2> QED BY <2>1, <2>2, <2>3 DEF Holds
<1>10. Keeps(p)'
  BY <1>4, <1>6 DEF Keeps, KeepsWhatExists, Writing
<1>11. Progress(p)'
  <2>1. /\ Wants(p, "symbol") => (SymbolDone(p)' <=> SymbolDone(p))
        /\ Wants(p, "footprint") => (FootprintDone(p)' <=> FootprintDone(p))
        /\ Wants(p, "svg") => (SvgDone(p)' <=> SvgDone(p))
    BY <1>1, <1>4, <1>6 DEF SymbolDone, FootprintDone, SvgDone
  <2>2. HalfOfModel(p)'
    BY <1>4, <1>6 DEF HalfOfModel, Writing
  <2>3. Wants(p, "3d") => ((pc'[p] = "next") <=> (pc[p] = "next"))
    BY <1>1, <1>4, <1>6
  <2>4. failed[p] \in BOOLEAN /\ failed'[p] = failed[p] /\ lacking'[p] = lacking[p]
    BY <1>1, <1>3 DEF Typed, history
  <2> QED BY <1>1, <1>2, <1>3, <1>4, <1>6, <2>1, <2>2, <2>3, <2>4, QuietProgress
          DEF history
<1>12. IsSet(update'[p])
  BY <1>1, <1>2, AtHand
<1> QED BY <1>1, <1>7, <1>8, <1>9, <1>10, <1>11, <1>12, QuietStep DEF history

\* A artifact that gives up: whatever it knew, the part is over and reported.
LEMMA GivingUp ==
  ASSUME IInv, NEW p \in Procs, Active(p),
         UNCHANGED <<files, revision, command, position, work, runs, faults, touched,
                     readable, lacking, since>>,
         pc' = [pc EXCEPT ![p] = "next"], failed' = [failed EXCEPT ![p] = TRUE],
         hindered' = [hindered EXCEPT ![p] = hindered'[p]], hindered'[p] \in BOOLEAN,
         ~Replaces(p) \/ hindered'[p]
  PROVE  StepKeeps(p)
<1>1. /\ Typed /\ Runs(p) /\ HoldsCad(p) /\ IsSet(update[p])
  BY AtHand
<1>2. pc'[p] = "next" /\ failed'[p] = TRUE
  BY <1>1 DEF Typed
<1>3. Typed'
  BY <1>1 DEF Typed, files, work, Pcs
<1>4. \A q \in Procs \ {p} : Still(q)
  BY <1>1 DEF Typed, Still, work
<1>5. Holds(p)'
  <2>1. Runs(p)'
    BY <1>1, <1>2 DEF Runs, Replaces
  <2>2. HoldsCad(p)'
    BY <1>1, <1>2 DEF HoldsCad, Active, Id, Fresh, work
  <2>3. HoldsModel(p)' /\ HoldsJob(p)'
    BY <1>2 DEF HoldsModel, HoldsJob, ModelJob, ModelSteps, Writing
  <2> QED BY <2>1, <2>2, <2>3 DEF Holds
<1>6. Keeps(p)' /\ Progress(p)'
  BY <1>2 DEF Keeps, KeepsWhatExists, Writing, Progress, Course
<1> QED BY <1>1, <1>3, <1>4, <1>5, <1>6, QuietStep DEF work

LEMMA FetchFailsStep ==
  ASSUME IInv, NEW p \in Procs, FetchFails(p)
  PROVE  StepKeeps(p)
<1>1. /\ pc[p] = "fetch"
      /\ pc' = [pc EXCEPT ![p] = "next"] /\ failed' = [failed EXCEPT ![p] = TRUE]
      /\ hindered' = [hindered EXCEPT ![p] = TRUE]
      /\ UNCHANGED <<files, revision, command, position, work, runs, faults, touched,
                     readable, lacking, since>>
  BY DEF FetchFails, Fails, Goto
<1>2. Active(p) /\ Typed
  BY <1>1 DEF Active, IInv
<1>3. hindered'[p] = TRUE
  BY <1>1, <1>2 DEF Typed
<1> QED BY <1>1, <1>2, <1>3, GivingUp

LEMMA FetchStep ==
  ASSUME IInv, NEW p \in Procs, Fetch(p)
  PROVE  StepKeeps(p)
<1> DEFINE answer == Content(Id(p), revision, TRUE)
           next == Following(p, None)
           write == [key |-> <<"json", Id(p)>>, content |-> answer, next |-> next]
<1>1. /\ pc[p] = "fetch" /\ cad' = [cad EXCEPT ![p] = answer]
      /\ UNCHANGED <<files, revision, command, position, model, update, failed, runs,
                     faults, history>>
      /\ \/ pc' = [pc EXCEPT ![p] = "open"] /\ job' = [job EXCEPT ![p] = write]
         \/ pc' = [pc EXCEPT ![p] = next] /\ UNCHANGED job
  BY DEF Fetch, Schedules, Goto
<1>2. Active(p)
  BY <1>1 DEF Active
<1>3. /\ Typed /\ Runs(p) /\ HoldsCad(p) /\ Progress(p) /\ Id(p) \in Ids
      /\ <<"json", Id(p)>> \in Keys /\ IsSet(update[p])
  BY <1>2, AtHand
<1>4. /\ next \in {"symbol", "footprint", "svg", "3d", "next"}
      /\ Wants(p, "symbol") => next = "symbol"
      /\ Wants(p, "footprint") => next \in {"symbol", "footprint"}
      /\ Wants(p, "svg") => next \in {"symbol", "footprint", "svg"}
      /\ Wants(p, "3d") => next # "next"
  BY NothingIsSkipped
<1>5. answer \in Contents /\ answer.id = Id(p) /\ answer.rev = revision /\ answer.whole
  BY <1>3 DEF Typed, Content, Contents
<1>6. write \in Jobs /\ write.key = <<"json", Id(p)>> /\ write.content = answer
      /\ write.next = next
  BY <1>3, <1>4, <1>5 DEF Jobs, Pcs
<1>7. next' = next /\ Id(p)' = Id(p)
  BY <1>1, FollowingStays DEF Id
<1> HIDE DEF answer, next, write
<1>8. /\ cad'[p] = answer
      /\ \/ pc'[p] = "open" /\ job'[p] = write
         \/ pc'[p] = next
  BY <1>1, <1>3 DEF Typed
<1>9. Typed'
  BY <1>1, <1>3, <1>4, <1>5, <1>6 DEF Typed, files, history, Pcs
<1>10. \A q \in Procs \ {p} : Still(q)
  BY <1>1, <1>3 DEF Typed, Still, history
<1>11. Holds(p)'
  <2>1. Runs(p)'
    BY <1>1, <1>2, <1>3 DEF Runs, Replaces, Active, history
  <2>2. HoldsCad(p)'
    BY <1>1, <1>3, <1>4, <1>5, <1>7, <1>8, <1>2, ImportAssumption
    DEF HoldsCad, Active, Fresh, Runs, history, Contents
  <2>3. CASE pc'[p] = next
    BY <1>4, <2>1, <2>2, <2>3
    DEF Holds, HoldsModel, HoldsJob, ModelJob, ModelSteps, Writing
  <2>4. CASE pc'[p] = "open" /\ job'[p] = write
    <3>1. Kind(p)' = "json"
      BY <1>6, <2>4 DEF Kind
    <3>2. HoldsModel(p)' /\ ~ModelJob(p)'
      BY <2>4, <3>1 DEF HoldsModel, ModelJob, ModelSteps
    <3>3. JobFits(p)'
      BY <1>6, <1>7, <1>8, <2>4 DEF JobFits, next
    <3> QED BY <1>5, <1>6, <2>1, <2>2, <2>4, <3>2, <3>3 DEF Holds, HoldsJob
  <2> QED BY <1>8, <2>3, <2>4
<1>12. pc'[p] = "open" => Kind(p)' = "json"
  BY <1>4, <1>6, <1>8 DEF Kind
<1>13. Keeps(p)'
  BY <1>4, <1>8, <1>12 DEF Keeps, KeepsWhatExists, Writing
<1>14. Progress(p)'
  <2>1. /\ Wants(p, "symbol") => (SymbolDone(p)' <=> SymbolDone(p))
        /\ Wants(p, "footprint") => (FootprintDone(p)' <=> FootprintDone(p))
        /\ Wants(p, "svg") => (SvgDone(p)' <=> SvgDone(p))
    BY <1>1, <1>4, <1>8, <1>12 DEF SymbolDone, FootprintDone, SvgDone, Writing
  <2>2. HalfOfModel(p)'
    BY <1>4, <1>8, <1>12 DEF HalfOfModel, Writing
  <2>3. Wants(p, "3d") => ((pc'[p] = "next") <=> (pc[p] = "next"))
    BY <1>1, <1>4, <1>8
  <2>4. failed[p] \in BOOLEAN /\ failed'[p] = failed[p] /\ lacking'[p] = lacking[p]
    BY <1>1, <1>3 DEF Typed, history
  <2>5. pc[p] \notin {"write", "close"} /\ pc'[p] \notin {"truncate", "write", "close"}
    BY <1>1, <1>4, <1>8
  <2> QED BY <1>1, <1>2, <1>3, <2>1, <2>2, <2>3, <2>4, <2>5, QuietProgress DEF history
<1> QED BY <1>1, <1>3, <1>9, <1>10, <1>11, <1>13, <1>14, QuietStep DEF history

-----------------------------------------------------------------------------
(* The symbol.                                                             *)

LEMMA CheckSymbolStep ==
  ASSUME IInv, NEW p \in Procs, CheckSymbol(p)
  PROVE  StepKeeps(p)
<1>1. /\ pc[p] = "symbol"
      /\ UNCHANGED <<files, revision, command, position, work, runs, faults, history>>
      /\ \/ /\ ~Replaces(p) /\ failed' = [failed EXCEPT ![p] = TRUE]
            /\ pc' = [pc EXCEPT ![p] = "next"]
         \/ /\ IndexOf(lib.symbols, Part(p).symbol) = 0 \/ Replaces(p)
            /\ pc' = [pc EXCEPT ![p] = "insert"] /\ UNCHANGED failed
  BY DEF CheckSymbol, Fails, Goto
<1>2. Active(p)
  BY <1>1 DEF Active
<1>3. /\ Typed /\ Runs(p) /\ HoldsCad(p) /\ Progress(p) /\ Id(p) \in Ids
      /\ IsSet(update[p])
  BY <1>2, AtHand
<1>4. CASE /\ ~Replaces(p) /\ failed' = [failed EXCEPT ![p] = TRUE]
           /\ pc' = [pc EXCEPT ![p] = "next"]
  <2>1. hindered' = [hindered EXCEPT ![p] = hindered'[p]] /\ hindered'[p] \in BOOLEAN
    BY <1>1, <1>3 DEF Typed, history
  <2> QED BY <1>1, <1>2, <1>4, <2>1, GivingUp DEF history
<1>5. CASE /\ IndexOf(lib.symbols, Part(p).symbol) = 0 \/ Replaces(p)
           /\ pc' = [pc EXCEPT ![p] = "insert"] /\ UNCHANGED failed
  <2>1. pc'[p] = "insert"
    BY <1>3, <1>5 DEF Typed
  <2>2. Typed'
    BY <1>1, <1>3, <1>5 DEF Typed, files, work, history, Pcs
  <2>3. \A q \in Procs \ {p} : Still(q)
    BY <1>1, <1>3, <1>5 DEF Typed, Still, work, history
  <2>4. Holds(p)'
    <3>1. Runs(p)'
      BY <1>1, <1>2, <1>3, <1>5 DEF Runs, Replaces, Active, history
    <3>2. HoldsCad(p)'
      BY <1>1, <1>3, <2>1 DEF HoldsCad, Active, Id, Fresh, work, history
    <3>3. HoldsModel(p)' /\ HoldsJob(p)'
      BY <2>1 DEF HoldsModel, HoldsJob, ModelJob, ModelSteps, Writing
    <3> QED BY <3>1, <3>2, <3>3 DEF Holds
  <2>5. Keeps(p)'
    <3>1. ~Replaces(p)' => IndexOf(lib.symbols, Part(p).symbol)' = 0
      BY <1>1, <1>5 DEF Replaces, files, Part, Id
    <3> QED BY <2>1, <3>1 DEF Keeps, KeepsWhatExists, Writing
  <2>6. Progress(p)'
    <3>1. /\ SymbolDone(p)' <=> SymbolDone(p)
          /\ FootprintDone(p)' <=> FootprintDone(p)
          /\ SvgDone(p)' <=> SvgDone(p)
      BY <1>1, <2>1 DEF SymbolDone, FootprintDone, SvgDone
    <3>2. HalfOfModel(p)'
      BY <2>1 DEF HalfOfModel, Writing
    <3>3. failed[p] \in BOOLEAN /\ failed'[p] = failed[p] /\ lacking'[p] = lacking[p]
      BY <1>1, <1>3, <1>5 DEF Typed, history
    <3> QED BY <1>1, <1>2, <1>3, <2>1, <3>1, <3>2, <3>3, QuietProgress DEF history
  <2> QED BY <1>1, <1>3, <2>2, <2>3, <2>4, <2>5, <2>6, QuietStep DEF work, history
<1> QED BY <1>1, <1>4, <1>5

\* A command that has ended holds nothing.
LEMMA Ended ==
  ASSUME NEW p, pc'[p] \in {"done", "dead"}, cad'[p] = None
  PROVE  Holds(p)' /\ Keeps(p)' /\ Progress(p)'
  BY DEF Holds, Runs, HoldsCad, HoldsModel, HoldsJob, Keeps, Progress, Course, Active,
         ModelSteps, ModelJob, Writing

LEMMA EmptyTexts ==
    /\ NoLib \in Libs /\ Empty \in Libs /\ Skeleton \in Libs
    /\ IsSet(NoLib) /\ IsSet(Empty) /\ IsSet(Skeleton)
<1>1. <<>> \in Seq(Entries) /\ Len(<<>>) = 0
  BY EmptySeq
<1>2. Distinct(<<>>)
  BY <1>1 DEF Distinct
<1> QED BY <1>1, <1>2 DEF NoLib, Empty, Skeleton, Libs, IsSet

\* The symbol that a command inserts.
LEMMA SymbolAtHand ==
  ASSUME IInv, NEW p \in Procs, Active(p), pc[p] # "fetch", pc[p] # "next"
  PROVE  /\ Symbol(p) \in Entries /\ Symbol(p).name = Part(p).symbol
         /\ Symbol(p).id = Id(p) /\ Fresh(p, Symbol(p))
<1>1. Typed /\ HoldsCad(p) /\ Runs(p)
  BY AtHand
<1>2. cad[p] # None /\ cad[p] \in Contents /\ Fresh(p, cad[p])
  BY <1>1 DEF HoldsCad, Active, Typed
<1>3. /\ Id(p) \in Ids /\ Part(p).symbol \in {Parts[i].symbol : i \in Ids}
      /\ Part(p).text \in Texts
  BY <1>1, PartAtHand DEF Runs
<1> QED BY <1>2, <1>3 DEF Symbol, Entries, Contents, Fresh

LEMMA InsertStep ==
  ASSUME IInv, NEW p \in Procs, Insert(p)
  PROVE  StepKeeps(p)
<1> DEFINE current == IF lib.state = "absent" THEN Skeleton ELSE lib
           new == Put(current, Symbol(p))
<1>1. /\ pc[p] = "insert" /\ lib' = current
      /\ UNCHANGED <<file, revision, command, position, failed, runs, faults, history>>
      /\ \/ Forget(p) /\ pc' = [pc EXCEPT ![p] = "dead"]
         \/ /\ current.state # "empty" /\ update' = [update EXCEPT ![p] = new]
            /\ pc' = [pc EXCEPT ![p] = "truncate"] /\ UNCHANGED <<cad, model, job>>
  BY DEF Insert, Goto, Unwritable
<1>2. Active(p)
  BY <1>1 DEF Active
<1>3. /\ Typed /\ Runs(p) /\ HoldsCad(p) /\ Keeps(p) /\ Progress(p) /\ Id(p) \in Ids
      /\ LibraryIsASet /\ CacheIsOfParts
  BY <1>2, AtHand DEF IInv
<1>4. /\ current \in Libs /\ IsSet(current) /\ current.symbols = lib.symbols
      /\ current.state # "absent" /\ (lib.state # "absent" => current = lib)
  BY <1>3, EmptyTexts DEF Typed, LibraryIsASet, Skeleton, IsSet
<1>5. /\ Symbol(p) \in Entries /\ Symbol(p).name = Part(p).symbol
  BY <1>1, <1>2, SymbolAtHand
<1>6. /\ new \in Libs /\ new.state = current.state /\ IsSet(new)
      /\ IndexOf(lib.symbols, Part(p).symbol) = 0 => Range(lib.symbols) \subseteq Range(new.symbols)
  <2> HIDE DEF current
  <2> QED BY <1>4, <1>5, PutChangesOne DEF IsSet
<1>7. SameLibrary
  BY <1>1, <1>3 DEF SameLibrary, LibraryIsASet, IsSet
<1>8. CacheIsOfParts'
  BY <1>1, <1>3 DEF CacheIsOfParts
<1>9. CASE Forget(p) /\ pc' = [pc EXCEPT ![p] = "dead"]
  <2>1. Typed'
    BY <1>1, <1>3, <1>4, <1>9, EmptyTexts DEF Typed, Forget, history, Pcs
  <2>2. pc'[p] = "dead" /\ cad'[p] = None
    BY <1>3, <1>9 DEF Typed, Forget
  <2>3. \A q \in Procs \ {p} : Still(q)
    BY <1>1, <1>3, <1>9 DEF Typed, Still, Forget, history
  <2>4. \A q \in Procs \ {p} : Beside(q)
    BY <1>1, <1>3, <1>7, <2>3 DEF Beside, Typed, history
  <2>5. LibraryIsASet'
    BY <1>1, <1>3, <1>4, <1>9, EmptyTexts DEF LibraryIsASet, Forget, Typed
  <2> QED BY <1>8, <2>1, <2>2, <2>4, <2>5, Ended DEF StepKeeps
<1>10. CASE /\ current.state # "empty" /\ update' = [update EXCEPT ![p] = new]
            /\ pc' = [pc EXCEPT ![p] = "truncate"] /\ UNCHANGED <<cad, model, job>>
  <2> HIDE DEF current, new
  <2>1. Typed'
    BY <1>1, <1>3, <1>4, <1>6, <1>10 DEF Typed, history, Pcs
  <2>2. pc'[p] = "truncate" /\ update'[p] = new
    BY <1>3, <1>10 DEF Typed
  <2>3. \A q \in Procs \ {p} : Still(q)
    BY <1>1, <1>3, <1>10 DEF Typed, Still, history
  <2>4. \A q \in Procs \ {p} : Beside(q)
    BY <1>1, <1>3, <1>7, <2>3 DEF Beside, Typed, history
  <2>5. LibraryIsASet'
    BY <1>1, <1>3, <1>4, <1>6, <1>10 DEF LibraryIsASet, Typed
  <2>6. Holds(p)'
    <3>1. Runs(p)'
      BY <1>1, <1>2, <1>3 DEF Runs, Replaces, Active, history
    <3>2. HoldsCad(p)'
      BY <1>1, <1>3, <1>10, <2>2 DEF HoldsCad, Active, Id, Fresh, history
    <3>3. HoldsModel(p)' /\ HoldsJob(p)'
      BY <2>2 DEF HoldsModel, HoldsJob, ModelJob, ModelSteps, Writing
    <3> QED BY <3>1, <3>2, <3>3 DEF Holds
  <2>7. Keeps(p)'
    <3>1. ASSUME ~Replaces(p)', ~touched'[p]
          PROVE  Range(lib'.symbols) \subseteq Range(update'[p].symbols)
      <4>1. IndexOf(lib.symbols, Part(p).symbol) = 0
        BY <1>1, <1>2, <1>3, <3>1 DEF Keeps, KeepsWhatExists, Replaces, history
      <4> QED BY <1>1, <1>4, <1>6, <2>2, <4>1
    <3> QED BY <2>2, <3>1 DEF Keeps, KeepsWhatExists, Writing
  <2>8. Progress(p)'
    <3>1. ASSUME Course(p)'
          PROVE  /\ Course(p) /\ LibraryIsReady(p)'
                 /\ SymbolsStay(p) /\ FootprintsStay(p) /\ DrawingsStay(p) /\ ModelsStay(p)
                 /\ HalfOfModel(p)'
      <4>1. Course(p)
        BY <1>1, <1>2, <3>1 DEF Course, history
      <4>2. LibraryIsReady(p)
        BY <1>3, <4>1 DEF Progress
      <4>3. lib'.state = "whole" /\ current = lib'
        BY <1>1, <1>10, <4>2 DEF LibraryIsReady, current, Skeleton
      <4>4. Symbol(p)' = Symbol(p)
        BY <1>1, <1>10 DEF Symbol, Part, Id
      <4>5. Put(lib, Symbol(p))' = new
        BY <4>3, <4>4 DEF new
      <4>6. LibraryIsReady(p)'
        BY <2>2, <4>3, <4>5 DEF LibraryIsReady
      <4>7. TextStays(p)
        BY <1>1, <2>2 DEF TextStays, Text, current
      <4>8. /\ SymbolDone(p)' <=> SymbolDone(p)
            /\ FootprintDone(p)' <=> FootprintDone(p)
            /\ SvgDone(p)' <=> SvgDone(p)
        BY <1>1, <2>2 DEF SymbolDone, FootprintDone, SvgDone
      <4>9. \A kinds : KindStays(p, kinds)
        BY <1>1, <2>2 DEF KindStays, Shown
      <4>10. HalfOfModel(p)'
        BY <2>2 DEF HalfOfModel, Writing
      <4> QED BY <1>1, <2>2, <4>1, <4>6, <4>7, <4>8, <4>9, <4>10
              DEF SymbolsStay, FootprintsStay, DrawingsStay, ModelsStay, history,
                  SymbolCount, FootprintCount, SvgCount, ModelCount
    <3> QED BY <1>1, <1>2, <1>3, <3>1, ProgressStays DEF history
  <2> QED BY <1>8, <2>1, <2>4, <2>5, <2>6, <2>7, <2>8 DEF StepKeeps
<1> QED BY <1>1, <1>9, <1>10

\* The new text has the symbol of the part at hand, which has the last word on
\* its name, and every other symbol that was there.
LEMMA PutImports ==
  ASSUME NEW p, command[p] \in Commands, position[p] \in 1 .. Len(command[p].ids),
         lib \in Libs, IsSet(lib), Symbol(p) \in Entries, Fresh(p, Symbol(p)),
         NEW d \in Nat, d = position[p] - 1, SymbolsIn(p, d), Text(p) = lib
  PROVE  \A m \in 1 .. (d + 1) :
           HasSymbol(p, Put(lib, Symbol(p)).symbols, command[p].ids[m], d + 1)
<1> DEFINE old == Range(lib.symbols)
           new == Range(Put(lib, Symbol(p)).symbols)
           ids == command[p].ids
<1>1. Id(p) = ids[d + 1] /\ Len(ids) \in Nat
  BY CommandFacts DEF Id
<1>2. Symbol(p).name = SymbolName(Id(p)) /\ Symbol(p).id = Id(p)
  BY DEF Symbol, SymbolName, Part
<1>3. PICK s0 \in {Symbol(p), Substituted(Symbol(p))} :
        new = {s \in old : s.name # Symbol(p).name} \cup {s0}
  BY PutChangesOne DEF IsSet
<1>4. s0.name = SymbolName(Id(p)) /\ s0.id = Id(p) /\ Fresh(p, s0)
  BY <1>2 DEF Substituted, Fresh, Entries
<1>5. \A m \in 1 .. d : HasSymbol(p, lib.symbols, ids[m], d)
  BY DEF SymbolsIn
<1> SUFFICES ASSUME NEW m \in 1 .. (d + 1)
             PROVE  HasSymbol(p, Put(lib, Symbol(p)).symbols, ids[m], d + 1)
  OBVIOUS
<1>6. CASE SymbolName(ids[m]) = SymbolName(Id(p))
  <2>1. IsLast(p, SymbolName, ids[m], d + 1, Id(p))
    <3>1. d + 1 \in 1 .. (d + 1) /\ \A k \in ((d + 1) + 1) .. (d + 1) : FALSE
      OBVIOUS
    <3> QED BY <1>1, <1>6, <3>1 DEF IsLast
  <2>2. \A s \in new : s.name = SymbolName(ids[m]) => s = s0
    BY <1>2, <1>3, <1>6
  <2>3. s0 \in new
    BY <1>3
  <2> QED BY <1>4, <1>6, <2>1, <2>2, <2>3 DEF HasSymbol
<1>7. CASE SymbolName(ids[m]) # SymbolName(Id(p))
  <2>1. m \in 1 .. d
    BY <1>1, <1>7
  <2>2. HasSymbol(p, lib.symbols, ids[m], d)
    BY <1>5, <2>1
  <2>3. \A s \in new : s.name = SymbolName(ids[m]) => s \in old
    BY <1>3, <1>4, <1>7
  <2>4. \A s \in old : s.name = SymbolName(ids[m]) => s \in new
    BY <1>2, <1>3, <1>7
  <2>5. ASSUME NEW id, IsLast(p, SymbolName, ids[m], d, id)
        PROVE  IsLast(p, SymbolName, ids[m], d + 1, id)
    <3>1. PICK n \in 1 .. d : /\ id = ids[n] /\ SymbolName(id) = SymbolName(ids[m])
                              /\ \A k \in (n + 1) .. d : SymbolName(ids[k]) # SymbolName(ids[m])
      BY <2>5 DEF IsLast
    <3>2. \A k \in (n + 1) .. (d + 1) : k = d + 1 \/ k \in (n + 1) .. d
      BY <3>1
    <3>3. \A k \in (n + 1) .. (d + 1) : SymbolName(ids[k]) # SymbolName(ids[m])
      BY <1>1, <1>7, <3>1, <3>2
    <3>4. n \in 1 .. (d + 1)
      OBVIOUS
    <3> QED BY <3>1, <3>3, <3>4 DEF IsLast
  <2>6. \E s \in new : s.name = SymbolName(ids[m])
    BY <2>2, <2>4 DEF HasSymbol
  <2>7. \A s \in new : s.name = SymbolName(ids[m]) =>
          Fresh(p, s) /\ IsLast(p, SymbolName, ids[m], d + 1, s.id)
    BY <2>2, <2>3, <2>5 DEF HasSymbol
  <2> QED BY <2>6, <2>7 DEF HasSymbol
<1> QED BY <1>6, <1>7

\* Who is at work is told when another command writes.
LEMMA TouchTells ==
  ASSUME Typed, NEW p \in Procs, Touch(p)
  PROVE  /\ touched' \in [Procs -> BOOLEAN] /\ touched'[p] = touched[p]
         /\ \A q \in Procs \ {p} : Active(q) => touched'[q] = TRUE
  BY DEF Typed, Touch, Active

LEMMA TruncateStep ==
  ASSUME IInv, NEW p \in Procs, Truncate(p)
  PROVE  StepKeeps(p)
<1>1. /\ pc[p] = "truncate" /\ lib' = Empty /\ Touch(p) /\ pc' = [pc EXCEPT ![p] = "write"]
      /\ UNCHANGED <<file, revision, command, position, work, failed, runs, faults,
                     readable, hindered, lacking, since>>
  BY DEF Truncate, Goto
<1>2. Active(p)
  BY <1>1 DEF Active
<1>3. /\ Typed /\ Runs(p) /\ HoldsCad(p) /\ Progress(p)
      /\ LibraryIsASet /\ CacheIsOfParts
  BY <1>2, AtHand DEF IInv
<1>4. pc'[p] = "write"
  BY <1>1, <1>3 DEF Typed
<1>5. /\ touched' \in [Procs -> BOOLEAN] /\ touched'[p] = touched[p]
      /\ \A q \in Procs \ {p} : Active(q) => touched'[q] = TRUE
  BY <1>1, <1>3, TouchTells
<1>6. Typed'
  BY <1>1, <1>3, <1>5, EmptyTexts DEF Typed, work, Pcs
<1>7. CacheIsOfParts' /\ LibraryIsASet'
  BY <1>1, <1>3, EmptyTexts DEF CacheIsOfParts, LibraryIsASet, work
<1>8. \A q \in Procs \ {p} : Beside(q)
  <2>1. \A q \in Procs \ {p} : Still(q)
    BY <1>1, <1>3 DEF Typed, Still, work
  <2> QED BY <1>1, <1>3, <1>5, <2>1 DEF Beside, Typed
<1>9. Holds(p)'
  <2>1. Runs(p)'
    BY <1>1, <1>2, <1>3 DEF Runs, Replaces, Active
  <2>2. HoldsCad(p)'
    BY <1>1, <1>3, <1>4 DEF HoldsCad, Active, Id, Fresh, work
  <2>3. HoldsModel(p)' /\ HoldsJob(p)'
    BY <1>4 DEF HoldsModel, HoldsJob, ModelJob, ModelSteps, Writing
  <2> QED BY <2>1, <2>2, <2>3 DEF Holds
<1>10. Keeps(p)'
  BY <1>4 DEF Keeps, KeepsWhatExists, Writing
<1>11. Progress(p)'
  <2>1. ASSUME Course(p)'
        PROVE  /\ Course(p) /\ LibraryIsReady(p)'
               /\ Wants(p, "symbol") => SymbolsStay(p)
               /\ FootprintsStay(p) /\ DrawingsStay(p) /\ ModelsStay(p)
               /\ HalfOfModel(p)'
    <3>1. Course(p)
      BY <1>1, <1>2, <1>5, <2>1 DEF Course
    <3>2. lib.state = "whole" /\ update[p] = Put(lib, Symbol(p))
      BY <1>1, <1>3, <3>1 DEF Progress, LibraryIsReady
    <3>3. Symbol(p) \in Entries /\ Fresh(p, Symbol(p))
      BY <1>1, <1>2, SymbolAtHand
    <3>4. lib \in Libs /\ IsSet(lib)
      BY <1>3 DEF Typed, LibraryIsASet
    <3>5. update[p].state = "whole"
      BY <3>2, <3>3, <3>4, PutChangesOne DEF IsSet
    <3>6. LibraryIsReady(p)'
      BY <1>1, <1>4, <3>5 DEF LibraryIsReady, work
    <3>7. ASSUME Wants(p, "symbol") PROVE SymbolsStay(p)
      <4>1. SymbolCount(p)' = position[p] /\ SymbolCount(p) = position[p] - 1
        BY <1>1, <1>4 DEF SymbolCount, SymbolDone, Writing
      <4>2. position[p] \in Nat /\ position[p] >= 1 /\ command[p] \in Commands
            /\ position[p] \in 1 .. Len(command[p].ids)
        BY <1>2, <1>3, PartAtHand DEF Runs
      <4>3. PICK d \in Nat : d = position[p] - 1
        BY <4>2
      <4>4. SymbolsIn(p, d) /\ Text(p) = lib
        BY <1>1, <1>3, <3>1, <3>7, <4>1, <4>3 DEF Progress, Text
      <4>5. \A m \in 1 .. (d + 1) :
              HasSymbol(p, Put(lib, Symbol(p)).symbols, command[p].ids[m], d + 1)
        BY <3>3, <3>4, <4>2, <4>3, <4>4, PutImports
      <4>6. Text(p)' = Put(lib, Symbol(p)) /\ Text(p)'.state = "whole"
        BY <1>1, <1>4, <3>2, <3>5 DEF Text, work
      <4>7. \A symbols, i : HasSymbol(p, symbols, i, d + 1) => HasSymbol(p, symbols, i, d + 1)'
        BY <1>1 DEF HasSymbol, IsLast, Fresh, SymbolName
      <4>8. SymbolsIn(p, d + 1)'
        BY <1>1, <4>5, <4>6, <4>7 DEF SymbolsIn
      <4>9. \A e \in Nat : e = SymbolCount(p)' => e = d + 1
        BY <4>1, <4>2, <4>3
      <4> QED BY <4>8, <4>9 DEF SymbolsStay
    <3>8. \A kinds : KindStays(p, kinds)
      BY <1>1, <1>4 DEF KindStays, Shown
    <3>9. /\ FootprintDone(p)' <=> FootprintDone(p)
          /\ SvgDone(p)' <=> SvgDone(p)
      BY <1>1, <1>4 DEF SymbolDone, FootprintDone, SvgDone
    <3>10. HalfOfModel(p)'
      BY <1>4 DEF HalfOfModel, Writing
    <3> QED BY <1>1, <1>4, <3>1, <3>6, <3>7, <3>8, <3>9, <3>10
            DEF FootprintsStay, DrawingsStay, ModelsStay, FootprintCount, SvgCount, ModelCount
  <2> QED BY <1>1, <1>2, <1>3, <2>1, ProgressStays
<1> QED BY <1>6, <1>7, <1>8, <1>9, <1>10, <1>11 DEF StepKeeps

LEMMA WriteStep ==
  ASSUME IInv, NEW p \in Procs, Write(p)
  PROVE  StepKeeps(p)
<1> DEFINE next == Following(p, "symbol")
<1>1. /\ pc[p] = "write" /\ lib' = update[p] /\ Touch(p)
      /\ update' = [update EXCEPT ![p] = NoLib] /\ pc' = [pc EXCEPT ![p] = next]
      /\ UNCHANGED <<file, revision, command, position, cad, model, job, failed, runs, faults,
                     readable, hindered, lacking, since>>
  BY DEF Write, Goto
<1>2. Active(p)
  BY <1>1 DEF Active
<1>3. /\ Typed /\ Runs(p) /\ HoldsCad(p) /\ Progress(p)
      /\ LibraryIsASet /\ CacheIsOfParts
  BY <1>2, AtHand DEF IInv
<1>4. /\ next \in {"footprint", "svg", "3d", "next"}
      /\ Wants(p, "footprint") => next = "footprint"
      /\ Wants(p, "svg") => next \in {"footprint", "svg"}
      /\ Wants(p, "3d") => next # "next"
  BY NothingIsSkipped
<1> HIDE DEF next
<1>5. /\ touched' \in [Procs -> BOOLEAN] /\ touched'[p] = touched[p]
      /\ \A q \in Procs \ {p} : Active(q) => touched'[q] = TRUE
  BY <1>1, <1>3, TouchTells
<1>6. pc'[p] = next
  BY <1>1, <1>3 DEF Typed
<1>7. Typed'
  BY <1>1, <1>3, <1>4, <1>5, EmptyTexts DEF Typed, Pcs
<1>8. CacheIsOfParts' /\ LibraryIsASet'
  BY <1>1, <1>3, EmptyTexts DEF CacheIsOfParts, LibraryIsASet, Typed
<1>9. \A q \in Procs \ {p} : Beside(q)
  <2>1. \A q \in Procs \ {p} : Still(q)
    BY <1>1, <1>3 DEF Typed, Still
  <2> QED BY <1>1, <1>3, <1>5, <2>1 DEF Beside, Typed
<1>10. Holds(p)'
  <2>1. Runs(p)'
    BY <1>1, <1>2, <1>3 DEF Runs, Replaces, Active
  <2>2. HoldsCad(p)'
    BY <1>1, <1>3, <1>4, <1>6 DEF HoldsCad, Active, Id, Fresh
  <2>3. HoldsModel(p)' /\ HoldsJob(p)'
    BY <1>4, <1>6 DEF HoldsModel, HoldsJob, ModelJob, ModelSteps, Writing
  <2> QED BY <2>1, <2>2, <2>3 DEF Holds
<1>11. Keeps(p)'
  BY <1>4, <1>6 DEF Keeps, KeepsWhatExists, Writing
<1>12. Progress(p)'
  <2>1. ASSUME Course(p)'
        PROVE  /\ Course(p) /\ LibraryIsReady(p)'
               /\ Wants(p, "symbol") => SymbolsStay(p)
               /\ Wants(p, "footprint") => FootprintsStay(p)
               /\ Wants(p, "svg") => DrawingsStay(p)
               /\ Wants(p, "3d") => ModelsStay(p) /\ HalfOfModel(p)'
    <3>1. Course(p)
      BY <1>1, <1>2, <1>5, <2>1 DEF Course
    <3>2. update[p].state = "whole"
      BY <1>1, <1>3, <3>1 DEF Progress, LibraryIsReady
    <3>3. LibraryIsReady(p)'
      BY <1>1, <1>4, <1>6, <3>2 DEF LibraryIsReady
    <3>4. TextStays(p)
      BY <1>1, <1>4, <1>6 DEF TextStays, Text
    <3>5. \A kinds : KindStays(p, kinds)
      BY <1>1, <1>4, <1>6 DEF KindStays, Shown
    <3>6. /\ SymbolDone(p)' <=> SymbolDone(p)
          /\ Wants(p, "footprint") => (FootprintDone(p)' <=> FootprintDone(p))
          /\ Wants(p, "svg") => (SvgDone(p)' <=> SvgDone(p))
      BY <1>1, <1>4, <1>6 DEF SymbolDone, FootprintDone, SvgDone, Writing
    <3>7. HalfOfModel(p)'
      BY <1>4, <1>6 DEF HalfOfModel, Writing
    <3> QED BY <1>1, <1>4, <1>6, <3>1, <3>3, <3>4, <3>5, <3>6, <3>7
            DEF SymbolsStay, FootprintsStay, DrawingsStay, ModelsStay,
                SymbolCount, FootprintCount, SvgCount, ModelCount
  <2> QED BY <1>1, <1>2, <1>3, <2>1, ProgressStays
<1> QED BY <1>7, <1>8, <1>9, <1>10, <1>11, <1>12 DEF StepKeeps

-----------------------------------------------------------------------------
(* Footprint, drawing and model.                                           *)

\* With the model of the part at hand, the models of one more part are there.
LEMMA NextModel ==
  ASSUME NEW p, command[p] \in Commands, position[p] \in 1 .. Len(command[p].ids),
         command'[p] = command[p], since'[p] = since[p], position'[p] = position[p],
         NEW d \in Nat, d = position[p] - 1, ModelsIn(p, d), KindStays(p, {"wrl", "step"}),
         lacking'[p] = {} => lacking[p] = {},
         \/ lacking'[p] # {} \/ Part(p).model = None
         \/ \A kind \in {"wrl", "step"} : ModelIn(p, kind, Part(p).model)'
  PROVE  ModelsIn(p, d + 1)'
<1>1. Id(p) = command[p].ids[d + 1] /\ Len(command[p].ids) \in Nat
  BY CommandFacts DEF Id
<1>2. ModelsIn(p, d)'
  BY <1>1, ImportedStays
<1>3. \A m \in 1 .. (d + 1) : m = d + 1 \/ m \in 1 .. d
  OBVIOUS
<1>4. CASE lacking'[p] # {}
  BY <1>4 DEF ModelsIn
<1>5. CASE lacking'[p] = {}
  <2>1. ASSUME NEW m \in 1 .. (d + 1), NEW kind \in {"wrl", "step"},
               Parts[command[p].ids[m]].model # None
        PROVE  ModelIn(p, kind, Parts[command[p].ids[m]].model)'
    <3>1. CASE m \in 1 .. d
      BY <1>2, <1>5, <2>1, <3>1 DEF ModelsIn, ModelIn, Shown, Sound
    <3>2. CASE m = d + 1
      BY <1>1, <1>5, <2>1, <3>2 DEF Part, Id, ModelIn, Shown, Sound
    <3> QED BY <1>3, <3>1, <3>2
  <2> QED BY <2>1 DEF ModelsIn
<1> QED BY <1>4, <1>5

\* What is scheduled at each artifact, and what else is known then.
Fits(p, key, content, next) ==
    \/ /\ pc[p] = "footprint" /\ key = <<"footprint", Part(p).footprint>>
       /\ content = cad[p] /\ next = Following(p, "footprint")
       /\ ~Replaces(p) => file[key] = None
    \/ /\ pc[p] = "svg" /\ key = <<"svg", Id(p)>>
       /\ content = cad[p] /\ next = Following(p, "svg")
    \/ /\ pc[p] = "export" /\ key = <<"wrl", Part(p).model>>
       /\ content = model[p].obj /\ next = "step"
       /\ ~Replaces(p) => file[key] = None /\ file[<<"step", Part(p).model>>] = None
    \/ /\ pc[p] = "step" /\ key = <<"step", Part(p).model>>
       /\ content = model[p].stp /\ next = "next"

LEMMA Scheduling ==
  ASSUME IInv, NEW p \in Procs, NEW key, NEW content, NEW next,
         Schedules(p, key, content, next), Fits(p, key, content, next), content # None,
         UNCHANGED <<files, revision, command, position, cad, model, update, failed,
                     runs, faults, history>>
  PROVE  StepKeeps(p)
<1> DEFINE write == [key |-> key, content |-> content, next |-> next]
<1>1. /\ pc' = [pc EXCEPT ![p] = "open"] /\ job' = [job EXCEPT ![p] = write]
      /\ pc[p] \in {"footprint", "svg", "export", "step"}
  BY DEF Schedules, Goto, Fits
<1>2. Active(p)
  BY <1>1 DEF Active
<1>3. /\ Typed /\ Runs(p) /\ HoldsCad(p) /\ HoldsModel(p) /\ Keeps(p) /\ Progress(p)
      /\ Id(p) \in Ids /\ IsSet(update[p])
      /\ <<"footprint", Part(p).footprint>> \in Keys /\ <<"svg", Id(p)>> \in Keys
      /\ Part(p).model # None =>
              \A kind \in {"wrl", "step", "obj", "stp"} : <<kind, Part(p).model>> \in Keys
  BY <1>2, AtHand
<1>4. /\ pc[p] \in {"export", "step"} =>
           /\ Part(p).model # None /\ model[p] \in Drafts
           /\ \A kind \in {"obj", "stp"} : model[p][kind] # None => Sound(p, model[p][kind])
      /\ pc[p] = "export" => \A kind \in {"obj", "stp"} :
                               lacking[p] = {} => model[p][kind] # None
  BY <1>3 DEF HoldsModel, ModelSteps, Drafted, Writing
<1>5. /\ content \in Contents /\ content.whole
      /\ pc[p] \in {"export", "step"} => Sound(p, content)
  <2>1. CASE pc[p] \in {"footprint", "svg"}
    <3>1. cad[p] # None /\ cad[p].whole /\ cad[p] \in Contents
      BY <1>3, <2>1 DEF HoldsCad, Typed
    <3> QED BY <2>1, <3>1 DEF Fits
  <2>2. CASE pc[p] = "export"
    <3>1. model[p].obj \in Contents \cup {None}
      BY <1>4, <2>2 DEF Drafts
    <3>2. content = model[p].obj
      BY <2>2 DEF Fits
    <3>3. Sound(p, content)
      BY <1>4, <2>2, <3>2
    <3> QED BY <3>1, <3>2, <3>3 DEF Sound
  <2>3. CASE pc[p] = "step"
    <3>1. model[p].stp \in Contents \cup {None}
      BY <1>4, <2>3 DEF Drafts
    <3>2. content = model[p].stp
      BY <2>3 DEF Fits
    <3>3. Sound(p, content)
      BY <1>4, <2>3, <3>2
    <3> QED BY <3>1, <3>2, <3>3 DEF Sound
  <2> QED BY <1>1, <2>1, <2>2, <2>3
<1>6. write \in Jobs /\ write.key = key /\ write.content = content /\ write.next = next
  <2>1. key \in Keys
    BY <1>3, <1>4 DEF Fits
  <2>2. next \in Pcs
    BY NothingIsSkipped DEF Fits, Pcs
  <2> QED BY <1>5, <2>1, <2>2 DEF Jobs
<1> HIDE DEF write
<1>7. pc'[p] = "open" /\ job'[p] = write
  BY <1>1, <1>3 DEF Typed
<1>8. /\ Id(p)' = Id(p) /\ Part(p)' = Part(p) /\ Replaces(p)' = Replaces(p)
      /\ \A artifact : Following(p, artifact)' = Following(p, artifact)
  <2>1. command'[p] = command[p] /\ position'[p] = position[p]
    OBVIOUS
  <2> QED BY <2>1, FollowingStays DEF Id, Part, Replaces
<1>9. Typed'
  BY <1>1, <1>3, <1>6 DEF Typed, files, history, Pcs
<1>10. \A q \in Procs \ {p} : Still(q)
  BY <1>1, <1>3 DEF Typed, Still, history
<1>11. /\ Kind(p)' = key[1]
       /\ pc[p] = "footprint" => Kind(p)' = "footprint"
       /\ pc[p] = "svg" => Kind(p)' = "svg"
       /\ pc[p] = "export" => Kind(p)' = "wrl"
       /\ pc[p] = "step" => Kind(p)' = "step"
  BY <1>6, <1>7 DEF Kind, Fits
<1>12. Holds(p)'
  <2>1. Runs(p)'
    BY <1>1, <1>2, <1>3 DEF Runs, Replaces, Active, history
  <2>2. HoldsCad(p)'
    BY <1>1, <1>3, <1>7 DEF HoldsCad, Active, Id, Fresh, history
  <2>3. ModelJob(p)' => pc[p] \in {"export", "step"}
    BY <1>1, <1>11 DEF ModelJob
  <2>4. HoldsModel(p)'
    <3>1. pc[p] \in {"export", "step"} =>
            /\ Part(p)'.model # None /\ model'[p] \in Drafts
            /\ \A kind \in {"obj", "stp"} : model'[p][kind] # None => Sound(p, model[p][kind])'
      BY <1>4, <1>8 DEF Sound
    <3>2. pc[p] \in {"export", "step"} /\ lacking'[p] = {} =>
            \A kind \in {"obj", "stp"} : kind \in Drafted(p)' => model'[p][kind] # None
      BY <1>4, <1>7, <1>11 DEF Drafted, Writing, history
    <3>3. pc'[p] \notin ModelSteps
      BY <1>7 DEF ModelSteps
    <3> QED BY <2>3, <3>1, <3>2, <3>3 DEF HoldsModel
  <2>5. HoldsJob(p)'
    <3>1. JobFits(p)'
      <4>1. /\ job'[p].key = key /\ job'[p].content = content /\ job'[p].next = next
            /\ cad'[p] = cad[p]
        BY <1>6, <1>7
      <4> QED BY <1>8, <4>1 DEF JobFits, Fits
    <3>2. ModelJob(p)' => Sound(p, job[p].content)'
      BY <1>5, <1>6, <1>7, <2>3 DEF Sound
    <3> QED BY <1>5, <1>6, <1>7, <3>1, <3>2 DEF HoldsJob, Jobs, Contents
  <2> QED BY <2>1, <2>2, <2>4, <2>5 DEF Holds
<1>13. Keeps(p)'
  <2> SUFFICES ASSUME ~Replaces(p), ~touched[p]
               PROVE  KeepsWhatExists(p)'
    BY <1>8 DEF Keeps, history
  <2>1. pc[p] = "step" => file[<<"step", Part(p).model>>] = None
    BY <1>2, <1>3 DEF Keeps, KeepsWhatExists
  <2>2. job'[p].key = key
    BY <1>6, <1>7
  <2>3. Kind(p)' \in {"footprint", "wrl", "step"} => file[key] = None
    BY <1>1, <1>11, <2>1 DEF Fits
  <2>4. Kind(p)' = "wrl" => file[<<"step", Part(p).model>>] = None
    BY <1>1, <1>11 DEF Fits
  <2> QED BY <1>7, <1>8, <2>2, <2>3, <2>4 DEF KeepsWhatExists, files
<1>14. Progress(p)'
  <2>1. /\ SymbolDone(p)' <=> SymbolDone(p)
        /\ FootprintDone(p)' <=> FootprintDone(p)
        /\ SvgDone(p)' <=> SvgDone(p)
    BY <1>1, <1>7, <1>11 DEF SymbolDone, FootprintDone, SvgDone, Writing
  <2>2. ASSUME Course(p)', Wants(p, "3d") PROVE HalfOfModel(p)'
    <3>1. Course(p)
      BY <1>2, <2>2 DEF Course, history
    <3>2. lacking[p] = {} /\ pc[p] = "step" => ModelIn(p, "wrl", Part(p).model)
      BY <1>3, <2>2, <3>1 DEF Progress, HalfOfModel
    <3>3. ModelIn(p, "wrl", Part(p).model) => ModelIn(p, "wrl", Part(p).model)'
      BY <1>1, <1>7, <1>8 DEF ModelIn, Shown, Sound, files
    <3> QED BY <1>1, <1>7, <1>8, <1>11, <3>2, <3>3 DEF HalfOfModel, Writing, history
  <2>3. failed[p] \in BOOLEAN /\ failed'[p] = failed[p] /\ lacking'[p] = lacking[p]
    BY <1>3 DEF Typed, history
  <2>4. pc[p] \notin {"write", "close"} /\ pc'[p] \notin {"truncate", "write", "close"}
        /\ ((pc'[p] = "next") <=> (pc[p] = "next"))
    BY <1>1, <1>7
  <2> QED BY <1>2, <1>3, <2>1, <2>2, <2>3, <2>4, QuietProgress DEF history
<1>15. IsSet(update'[p])
  BY <1>3
<1> QED BY <1>9, <1>10, <1>12, <1>13, <1>14, <1>15, QuietStep DEF history

LEMMA ExportFootprintStep ==
  ASSUME IInv, NEW p \in Procs, ExportFootprint(p)
  PROVE  StepKeeps(p)
<1> DEFINE key == <<"footprint", Part(p).footprint>>
           unsafe == "footprint" \in Part(p).unsafe
<1>1. /\ pc[p] = "footprint"
      /\ UNCHANGED <<files, revision, command, position, cad, model, update, runs, faults,
                     touched, readable, lacking, since>>
      /\ \/ /\ unsafe \/ Taken(p, key)
            /\ failed' = [failed EXCEPT ![p] = TRUE] /\ pc' = [pc EXCEPT ![p] = "next"]
            /\ hindered' = [hindered EXCEPT ![p] = @ \/ unsafe] /\ UNCHANGED job
         \/ /\ ~Taken(p, key) /\ Schedules(p, key, cad[p], Following(p, "footprint"))
            /\ UNCHANGED <<failed, hindered>>
  BY DEF ExportFootprint, Fails, Goto
<1>2. Active(p)
  BY <1>1 DEF Active
<1>3. Typed /\ Runs(p) /\ HoldsCad(p)
  BY <1>2, AtHand
<1>4. CASE /\ unsafe \/ Taken(p, key)
           /\ failed' = [failed EXCEPT ![p] = TRUE] /\ pc' = [pc EXCEPT ![p] = "next"]
           /\ hindered' = [hindered EXCEPT ![p] = @ \/ unsafe] /\ UNCHANGED job
  <2> HIDE DEF key, unsafe
  <2>1. /\ hindered'[p] = (hindered[p] \/ unsafe)
        /\ hindered' = [hindered EXCEPT ![p] = hindered'[p]] /\ hindered'[p] \in BOOLEAN
    BY <1>3, <1>4 DEF Typed
  <2>2. ~Replaces(p) \/ hindered'[p]
    BY <1>4, <2>1 DEF Taken
  <2> QED BY <1>1, <1>2, <1>4, <2>1, <2>2, GivingUp DEF work
<1>5. CASE /\ ~Taken(p, key) /\ Schedules(p, key, cad[p], Following(p, "footprint"))
           /\ UNCHANGED <<failed, hindered>>
  <2>1. Fits(p, key, cad[p], Following(p, "footprint"))
    BY <1>1, <1>5 DEF Fits, Taken
  <2>2. cad[p] # None
    BY <1>1, <1>3 DEF HoldsCad
  <2> QED BY <1>1, <1>5, <2>1, <2>2, Scheduling DEF history
<1> QED BY <1>1, <1>4, <1>5

LEMMA ExportSvgStep ==
  ASSUME IInv, NEW p \in Procs, ExportSvg(p)
  PROVE  StepKeeps(p)
<1>1. /\ pc[p] = "svg" /\ Schedules(p, <<"svg", Id(p)>>, cad[p], Following(p, "svg"))
      /\ UNCHANGED <<files, revision, command, position, cad, model, update, failed, runs,
                     faults, history>>
  BY DEF ExportSvg
<1>2. cad[p] # None
  BY <1>1, AtHand DEF HoldsCad, Active
<1>3. Fits(p, <<"svg", Id(p)>>, cad[p], Following(p, "svg"))
  BY <1>1 DEF Fits
<1> QED BY <1>1, <1>2, <1>3, Scheduling

\* A step within the artifact of the model that writes nothing.
LEMMA GoingOn ==
  ASSUME IInv, NEW p \in Procs, pc[p] \in {"3d", "obj", "stp", "export", "step"},
         NEW next \in {"obj", "stp", "export", "step", "next"}, pc' = [pc EXCEPT ![p] = next],
         UNCHANGED <<files, revision, command, position, cad, update, job, failed,
                     touched, readable, hindered, since>>,
         model' = [model EXCEPT ![p] = model'[p]], model'[p] \in Drafts \cup {None},
         lacking' = [lacking EXCEPT ![p] = lacking'[p]], lacking'[p] \subseteq Ids,
         lacking[p] \subseteq lacking'[p], HoldsModel(p)',
         next = "next" => lacking'[p] # {} \/ Part(p).model = None,
         next = "step" => /\ lacking'[p] # {}
                          /\ ~Replaces(p) => file[<<"step", Part(p).model>>] = None
  PROVE  StepKeeps(p)
<1>1. Active(p)
  BY DEF Active
<1>2. /\ Typed /\ Runs(p) /\ HoldsCad(p) /\ Progress(p) /\ IsSet(update[p])
      /\ command[p] \in Commands /\ position[p] \in 1 .. Len(command[p].ids)
      /\ failed[p] \in BOOLEAN
  BY <1>1, AtHand
<1>3. pc'[p] = next
  BY <1>2 DEF Typed
<1>4. Typed'
  BY <1>2 DEF Typed, files, Pcs
<1>5. \A q \in Procs \ {p} : Still(q)
  BY <1>2 DEF Typed, Still
<1>6. Holds(p)'
  <2>1. Runs(p)'
    BY <1>1, <1>2 DEF Runs, Replaces, Active
  <2>2. HoldsCad(p)'
    BY <1>2, <1>3 DEF HoldsCad, Active, Id, Fresh
  <2>3. HoldsJob(p)'
    BY <1>3 DEF HoldsJob, Writing
  <2> QED BY <2>1, <2>2, <2>3 DEF Holds
<1>7. Keeps(p)'
  <2>1. Part(p)' = Part(p) /\ Replaces(p)' = Replaces(p)
    BY DEF Part, Id, Replaces
  <2> QED BY <1>3, <2>1 DEF Keeps, KeepsWhatExists, Writing, files
<1>8. Progress(p)'
  <2>1. /\ SymbolDone(p)' <=> SymbolDone(p)
        /\ FootprintDone(p)' <=> FootprintDone(p)
        /\ SvgDone(p)' <=> SvgDone(p)
    BY <1>3 DEF SymbolDone, FootprintDone, SvgDone, Writing
  <2>2. HalfOfModel(p)'
    BY <1>3 DEF HalfOfModel, Writing
  <2>3. lacking'[p] = {} => lacking[p] = {}
    OBVIOUS
  <2>4. ASSUME Course(p)', Wants(p, "3d"), next = "next"
        PROVE  \A d \in Nat : d = ModelCount(p)' => ModelsIn(p, d)'
    <3>1. Course(p)
      BY <1>1, <2>4 DEF Course
    <3>2. ModelCount(p) = position[p] - 1 /\ ModelCount(p)' = position[p]
      BY <1>3, <2>4 DEF ModelCount
    <3>3. position[p] \in Nat /\ position[p] >= 1
      BY <1>2, PartAtHand
    <3>4. PICK d \in Nat : d = position[p] - 1
      BY <3>3
    <3>5. ModelsIn(p, d)
      BY <1>2, <2>4, <3>1, <3>2, <3>4 DEF Progress
    <3>6. KindStays(p, {"wrl", "step"})
      BY <1>3 DEF KindStays, Shown, files
    <3>7. ModelsIn(p, d + 1)'
      BY <1>2, <2>3, <2>4, <3>4, <3>5, <3>6, NextModel
    <3>8. \A e \in Nat : e = ModelCount(p)' => e = d + 1
      BY <3>2, <3>3, <3>4
    <3> QED BY <3>7, <3>8
  <2>5. next # "next" => ((pc'[p] = "next") <=> (pc[p] = "next"))
    BY <1>3
  <2>6. Course(p)' /\ Wants(p, "3d") =>
          \/ ((pc'[p] = "next") <=> (pc[p] = "next")) /\ (lacking'[p] = {} => lacking[p] = {})
          \/ \A d \in Nat : d = ModelCount(p)' => ModelsIn(p, d)'
    BY <2>3, <2>4, <2>5
  <2>7. pc[p] \notin {"write", "close"} /\ pc'[p] \notin {"truncate", "write", "close"}
        /\ (failed[p] => failed'[p])
    BY <1>3
  <2> QED BY <1>1, <1>2, <2>1, <2>2, <2>6, <2>7, QuietProgress
<1> QED BY <1>2, <1>4, <1>5, <1>6, <1>7, <1>8, QuietStep

LEMMA StartModelStep ==
  ASSUME IInv, NEW p \in Procs, StartModel(p)
  PROVE  StepKeeps(p)
<1>1. /\ pc[p] = "3d"
      /\ UNCHANGED <<files, revision, command, position, cad, update, job, failed,
                     runs, faults, history>>
      /\ \/ /\ Part(p).model = None /\ pc' = [pc EXCEPT ![p] = "next"] /\ UNCHANGED model
         \/ /\ Part(p).model # None /\ pc' = [pc EXCEPT ![p] = "obj"]
            /\ model' = [model EXCEPT ![p] = [obj |-> None, stp |-> None]]
  BY DEF StartModel, Goto
<1>2. Active(p) /\ Typed
  BY <1>1 DEF Active, IInv
<1>3. lacking' = [lacking EXCEPT ![p] = lacking'[p]] /\ lacking'[p] = lacking[p]
      /\ lacking[p] \subseteq Ids
  BY <1>1, <1>2 DEF Typed, history
<1>4. CASE Part(p).model = None /\ pc' = [pc EXCEPT ![p] = "next"] /\ UNCHANGED model
  <2>1. pc'[p] = "next" /\ model'[p] \in Drafts \cup {None}
        /\ model' = [model EXCEPT ![p] = model'[p]]
    BY <1>2, <1>4 DEF Typed
  <2>2. HoldsModel(p)'
    BY <2>1 DEF HoldsModel, ModelSteps, ModelJob, Writing
  <2> QED BY <1>1, <1>3, <1>4, <2>1, <2>2, GoingOn DEF history
<1>5. CASE /\ Part(p).model # None /\ pc' = [pc EXCEPT ![p] = "obj"]
           /\ model' = [model EXCEPT ![p] = [obj |-> None, stp |-> None]]
  <2>1. pc'[p] = "obj" /\ model'[p] = [obj |-> None, stp |-> None]
    BY <1>2, <1>5 DEF Typed
  <2>2. model'[p] \in Drafts /\ model' = [model EXCEPT ![p] = model'[p]]
    BY <1>2, <1>5, <2>1 DEF Drafts, Typed
  <2>3. HoldsModel(p)'
    <3>1. Drafted(p)' = {} /\ \A kind \in {"obj", "stp"} : model'[p][kind] = None
      BY <2>1 DEF Drafted, Writing
    <3>2. Part(p)'.model # None
      BY <1>1, <1>5 DEF Part, Id
    <3> QED BY <2>2, <3>1, <3>2 DEF HoldsModel
  <2> QED BY <1>1, <1>3, <1>5, <2>2, <2>3, GoingOn DEF history
<1> QED BY <1>1, <1>4, <1>5

\* The two kinds of data, in their order.
After(kind) == IF kind = "obj" THEN "stp" ELSE "export"
Upto(kind) == IF kind = "obj" THEN {"obj"} ELSE {"obj", "stp"}

\* The model with the data of one kind.
LEMMA Drafting ==
  ASSUME IInv, NEW p \in Procs, NEW kind \in {"obj", "stp"}, pc[p] = kind,
         NEW content \in Contents, Sound(p, content),
         model' = [model EXCEPT ![p][kind] = content],
         UNCHANGED <<command, position, lacking>>, Drafted(p)' = Upto(kind)
  PROVE  /\ model'[p] \in Drafts /\ model' = [model EXCEPT ![p] = model'[p]]
         /\ HoldsModel(p)'
<1>1. Active(p)
  BY DEF Active
<1>2. Typed /\ HoldsModel(p)
  BY <1>1, AtHand
<1>3. /\ Part(p).model # None /\ model[p] \in Drafts
      /\ \A k \in {"obj", "stp"} :
             /\ model[p][k] # None => Sound(p, model[p][k])
             /\ k \in Drafted(p) /\ lacking[p] = {} => model[p][k] # None
  BY <1>2 DEF HoldsModel, ModelSteps
<1>4. model'[p] = [model[p] EXCEPT ![kind] = content]
      /\ model' = [model EXCEPT ![p] = model'[p]]
  BY <1>2 DEF Typed
<1>5. model'[p] \in Drafts /\ model'[p][kind] = content
      /\ \A k \in {"obj", "stp"} : k # kind => model'[p][k] = model[p][k]
  BY <1>3, <1>4 DEF Drafts
<1>6. content # None
  BY ImportAssumption
<1>7. \A k \in {"obj", "stp"} :
        /\ model'[p][k] # None => Sound(p, model'[p][k])
        /\ k \in Drafted(p)' /\ lacking'[p] = {} => model'[p][k] # None
  <2>1. kind = "stp" => "obj" \in Drafted(p)
    BY DEF Drafted, Writing
  <2> QED BY <1>3, <1>5, <1>6, <2>1 DEF Upto
<1>8. /\ Part(p)'.model # None
      /\ \A c : Sound(p, c)' <=> Sound(p, c)
  BY <1>3 DEF Part, Id, Sound
<1> QED BY <1>4, <1>5, <1>7, <1>8 DEF HoldsModel, Sound

\* The part goes on without data of that kind.
LEMMA Lacking ==
  ASSUME IInv, NEW p \in Procs, NEW kind \in {"obj", "stp"}, pc[p] = kind, Lacks(p),
         pc' = [pc EXCEPT ![p] = After(kind)],
         UNCHANGED <<files, revision, command, position, work, failed,
                     touched, readable, hindered, since>>
  PROVE  StepKeeps(p)
<1>1. Active(p)
  BY DEF Active
<1>2. Typed /\ HoldsModel(p) /\ Id(p) \in Ids
  BY <1>1, AtHand
<1>3. lacking'[p] = lacking[p] \cup {Id(p)} /\ pc'[p] = After(kind)
      /\ lacking' = [lacking EXCEPT ![p] = lacking'[p]] /\ lacking[p] \subseteq Ids
  BY <1>2 DEF Typed, Lacks
<1>4. model'[p] \in Drafts \cup {None} /\ model' = [model EXCEPT ![p] = model'[p]]
  BY <1>2 DEF Typed, work
<1>5. HoldsModel(p)'
  <2>1. /\ Part(p).model # None /\ model[p] \in Drafts
        /\ \A k \in {"obj", "stp"} : model[p][k] # None => Sound(p, model[p][k])
    BY <1>2 DEF HoldsModel, ModelSteps
  <2>2. /\ Part(p)'.model # None
        /\ \A c : Sound(p, c)' <=> Sound(p, c)
    BY <2>1 DEF Part, Id, Sound
  <2>3. lacking'[p] # {}
    BY <1>3
  <2> QED BY <2>1, <2>2, <2>3 DEF HoldsModel, work, Sound
<1>6. After(kind) \in {"stp", "export"}
  BY DEF After
<1> QED BY <1>2, <1>3, <1>4, <1>5, <1>6, GoingOn DEF work

LEMMA ModelCachedStep ==
  ASSUME IInv, NEW p \in Procs, NEW kind \in {"obj", "stp"},
         ModelCached(p, kind, After(kind))
  PROVE  StepKeeps(p)
<1> DEFINE content == file[<<kind, Part(p).model>>]
           taken == [content EXCEPT !.sound = @ /\ content.whole, !.whole = TRUE]
<1>1. /\ pc[p] = kind /\ command[p].cached /\ content # None
      /\ pc' = [pc EXCEPT ![p] = After(kind)]
      /\ UNCHANGED <<files, revision, command, position, cad, update, job, failed,
                     runs, faults, touched, readable, hindered, since>>
      /\ \/ model' = [model EXCEPT ![p][kind] = taken] /\ UNCHANGED lacking
         \/ Lacks(p) /\ UNCHANGED model
  BY DEF ModelCached, Goto
<1>2. CASE Lacks(p) /\ UNCHANGED model
  BY <1>1, <1>2, Lacking DEF work
<1>3. CASE model' = [model EXCEPT ![p][kind] = taken] /\ UNCHANGED lacking
  <2>1. Active(p)
    BY <1>1 DEF Active
  <2>2. /\ Typed /\ HoldsModel(p)
        /\ Part(p).model # None =>
                \A k \in {"wrl", "step", "obj", "stp"} : <<k, Part(p).model>> \in Keys
    BY <2>1, AtHand
  <2>3. content \in Contents
    <3>1. Part(p).model # None
      BY <1>1, <2>2 DEF HoldsModel, ModelSteps
    <3> QED BY <1>1, <2>2, <3>1 DEF Typed
  <2>4. taken \in Contents /\ taken.whole
    BY <2>3 DEF Contents
  <2>5. Sound(p, taken)
    BY <1>1, <2>4 DEF Sound
  <2> HIDE DEF content, taken
  <2>6. pc'[p] = After(kind)
    BY <1>1, <2>2 DEF Typed
  <2>7. Drafted(p)' = Upto(kind)
    BY <2>6 DEF Drafted, Upto, After, Writing
  <2>8. lacking' = [lacking EXCEPT ![p] = lacking'[p]] /\ lacking'[p] = lacking[p]
        /\ lacking[p] \subseteq Ids
    BY <1>3, <2>2 DEF Typed
  <2>9. /\ model'[p] \in Drafts /\ model' = [model EXCEPT ![p] = model'[p]]
        /\ HoldsModel(p)'
    BY <1>1, <1>3, <2>4, <2>5, <2>7, Drafting
  <2>10. After(kind) \in {"stp", "export"}
    BY DEF After
  <2> QED BY <1>1, <2>8, <2>9, <2>10, GoingOn
<1> QED BY <1>1, <1>2, <1>3

LEMMA ModelMissingStep ==
  ASSUME IInv, NEW p \in Procs, NEW kind \in {"obj", "stp"},
         ModelMissing(p, kind, After(kind))
  PROVE  StepKeeps(p)
<1>1. /\ pc[p] = kind /\ Lacks(p) /\ pc' = [pc EXCEPT ![p] = After(kind)]
      /\ UNCHANGED <<files, revision, command, position, work, failed, runs, faults,
                     touched, readable, hindered, since>>
  BY DEF ModelMissing, Goto
<1> QED BY <1>1, Lacking

LEMMA FetchModelStep ==
  ASSUME IInv, NEW p \in Procs, NEW kind \in {"obj", "stp"},
         FetchModel(p, kind, After(kind))
  PROVE  StepKeeps(p)
<1> DEFINE answer == Content(Id(p), revision, TRUE)
           write == [key |-> <<kind, Part(p).model>>, content |-> answer,
                     next |-> After(kind)]
<1>1. /\ pc[p] = kind /\ model' = [model EXCEPT ![p][kind] = answer]
      /\ UNCHANGED <<files, revision, command, position, cad, update, failed, runs, faults,
                     history>>
      /\ \/ pc' = [pc EXCEPT ![p] = "open"] /\ job' = [job EXCEPT ![p] = write]
         \/ pc' = [pc EXCEPT ![p] = After(kind)] /\ UNCHANGED job
  BY DEF FetchModel, Schedules, Goto
<1>2. Active(p)
  BY <1>1 DEF Active
<1>3. /\ Typed /\ Runs(p) /\ HoldsCad(p) /\ HoldsModel(p) /\ Progress(p) /\ Id(p) \in Ids
      /\ IsSet(update[p]) /\ failed[p] \in BOOLEAN
      /\ Part(p).model # None =>
              \A k \in {"wrl", "step", "obj", "stp"} : <<k, Part(p).model>> \in Keys
  BY <1>2, AtHand
<1>4. Part(p).model # None /\ <<kind, Part(p).model>> \in Keys
  BY <1>1, <1>3 DEF HoldsModel, ModelSteps
<1>5. answer \in Contents /\ answer.whole /\ Sound(p, answer)
  BY <1>3 DEF Typed, Content, Contents, Sound
<1>6. After(kind) \in {"stp", "export"} /\ After(kind) \in Pcs
  BY DEF After, Pcs
<1>7. write \in Jobs /\ write.key = <<kind, Part(p).model>> /\ write.content = answer
      /\ write.next = After(kind)
  BY <1>4, <1>5, <1>6 DEF Jobs
<1> HIDE DEF answer, write
<1>8. lacking' = [lacking EXCEPT ![p] = lacking'[p]] /\ lacking'[p] = lacking[p]
      /\ lacking[p] \subseteq Ids
  BY <1>1, <1>3 DEF Typed, history
<1>9. CASE pc' = [pc EXCEPT ![p] = After(kind)] /\ UNCHANGED job
  <2>1. pc'[p] = After(kind)
    BY <1>3, <1>9 DEF Typed
  <2>2. Drafted(p)' = Upto(kind)
    BY <2>1 DEF Drafted, Upto, After, Writing
  <2>3. /\ model'[p] \in Drafts /\ model' = [model EXCEPT ![p] = model'[p]]
        /\ HoldsModel(p)'
    BY <1>1, <1>5, <2>2, Drafting DEF history
  <2> QED BY <1>1, <1>6, <1>8, <1>9, <2>3, GoingOn DEF history
<1>10. CASE pc' = [pc EXCEPT ![p] = "open"] /\ job' = [job EXCEPT ![p] = write]
  <2>1. pc'[p] = "open" /\ job'[p] = write
    BY <1>3, <1>10 DEF Typed
  <2>2. Kind(p)' = kind
    BY <1>7, <2>1 DEF Kind
  <2>3. Drafted(p)' = Upto(kind)
    BY <2>1, <2>2 DEF Drafted, Upto, Writing
  <2>4. /\ model'[p] \in Drafts /\ model' = [model EXCEPT ![p] = model'[p]]
        /\ HoldsModel(p)'
    BY <1>1, <1>5, <2>3, Drafting DEF history
  <2>5. Typed'
    BY <1>1, <1>3, <1>7, <1>10, <2>4 DEF Typed, files, history, Pcs
  <2>6. \A q \in Procs \ {p} : Still(q)
    BY <1>1, <1>3, <1>10, <2>4 DEF Typed, Still, history
  <2>7. Holds(p)'
    <3>1. Runs(p)'
      BY <1>1, <1>2, <1>3 DEF Runs, Replaces, Active, history
    <3>2. HoldsCad(p)'
      BY <1>1, <1>3, <2>1 DEF HoldsCad, Active, Id, Fresh, history
    <3>3. JobFits(p)'
      <4>1. Part(p)' = Part(p)
        BY <1>1 DEF Part, Id
      <4> QED BY <1>7, <2>1, <4>1 DEF JobFits, After
    <3>4. HoldsJob(p)'
      <4>1. job'[p] \in Jobs /\ job'[p].content = answer
        BY <1>7, <2>1
      <4>2. Sound(p, job[p].content)'
        BY <1>1, <1>5, <4>1 DEF Sound
      <4> QED BY <1>5, <3>3, <4>1, <4>2 DEF HoldsJob
    <3> QED BY <2>4, <3>1, <3>2, <3>4 DEF Holds
  <2>8. Keeps(p)'
    BY <2>1, <2>2 DEF Keeps, KeepsWhatExists, Writing
  <2>9. Progress(p)'
    <3>1. /\ SymbolDone(p)' <=> SymbolDone(p)
          /\ FootprintDone(p)' <=> FootprintDone(p)
          /\ SvgDone(p)' <=> SvgDone(p)
      BY <1>1, <2>1, <2>2 DEF SymbolDone, FootprintDone, SvgDone, Writing
    <3>2. HalfOfModel(p)'
      BY <2>1, <2>2 DEF HalfOfModel, Writing
    <3>3. pc[p] \notin {"write", "close"} /\ pc'[p] \notin {"truncate", "write", "close"}
          /\ ((pc'[p] = "next") <=> (pc[p] = "next")) /\ (failed[p] => failed'[p])
      BY <1>1, <2>1
    <3> QED BY <1>1, <1>2, <1>3, <1>8, <3>1, <3>2, <3>3, QuietProgress DEF history
  <2> QED BY <1>1, <1>3, <2>5, <2>6, <2>7, <2>8, <2>9, QuietStep DEF history
<1> QED BY <1>1, <1>9, <1>10

LEMMA ExportModelStep ==
  ASSUME IInv, NEW p \in Procs, ExportModel(p)
  PROVE  StepKeeps(p)
<1> DEFINE unsafe == "3d" \in Part(p).unsafe
<1>1. /\ pc[p] = "export"
      /\ UNCHANGED <<files, revision, command, position, cad, model, update, runs, faults,
                     touched, readable, since>>
  BY DEF ExportModel
<1>2. \/ /\ unsafe /\ failed' = [failed EXCEPT ![p] = TRUE] /\ pc' = [pc EXCEPT ![p] = "next"]
         /\ hindered' = [hindered EXCEPT ![p] = TRUE] /\ UNCHANGED <<job, lacking>>
      \/ /\ model[p].obj = None /\ pc' = [pc EXCEPT ![p] = "next"]
         /\ UNCHANGED <<failed, hindered, job, lacking>>
      \/ /\ ~Replaces(p) /\ failed' = [failed EXCEPT ![p] = TRUE]
         /\ pc' = [pc EXCEPT ![p] = "next"] /\ UNCHANGED <<hindered, job, lacking>>
      \/ /\ model[p].obj # None /\ (~Replaces(p) => ~ModelExists(Part(p).model))
         /\ Schedules(p, <<"wrl", Part(p).model>>, model[p].obj, "step")
         /\ UNCHANGED <<failed, hindered, lacking>>
      \/ /\ model[p].obj # None /\ (~Replaces(p) => ~ModelExists(Part(p).model))
         /\ Lacks(p) /\ pc' = [pc EXCEPT ![p] = "step"]
         /\ UNCHANGED <<failed, hindered, job>>
  <2>1. CASE unsafe
    BY <2>1 DEF ExportModel, Fails, Goto
  <2>2. CASE ~unsafe /\ model[p].obj = None
    BY <2>2 DEF ExportModel, Fails, Goto
  <2>3. CASE ~unsafe /\ model[p].obj # None /\ ~Replaces(p) /\ ModelExists(Part(p).model)
    BY <2>3 DEF ExportModel, Fails, Goto
  <2>4. CASE ~unsafe /\ model[p].obj # None /\ (Replaces(p) \/ ~ModelExists(Part(p).model))
    BY <2>4 DEF ExportModel, Goto
  <2> QED BY <2>1, <2>2, <2>3, <2>4
<1>3. Active(p)
  BY <1>1 DEF Active
<1>4. Typed /\ Runs(p) /\ HoldsModel(p)
  BY <1>3, AtHand
<1>5. /\ Part(p).model # None /\ model[p] \in Drafts
      /\ lacking[p] = {} => model[p].obj # None
  BY <1>1, <1>4 DEF HoldsModel, ModelSteps, Drafted, Writing
<1>6. CASE /\ unsafe /\ failed' = [failed EXCEPT ![p] = TRUE] /\ pc' = [pc EXCEPT ![p] = "next"]
           /\ hindered' = [hindered EXCEPT ![p] = TRUE] /\ UNCHANGED <<job, lacking>>
  <2>1. hindered'[p] = TRUE
    BY <1>4, <1>6 DEF Typed
  <2> QED BY <1>1, <1>3, <1>6, <2>1, GivingUp DEF work
<1>7. CASE /\ model[p].obj = None /\ pc' = [pc EXCEPT ![p] = "next"]
           /\ UNCHANGED <<failed, hindered, job, lacking>>
  <2>1. lacking' = [lacking EXCEPT ![p] = lacking'[p]] /\ lacking'[p] = lacking[p]
        /\ lacking[p] \subseteq Ids /\ pc'[p] = "next"
        /\ model'[p] \in Drafts /\ model' = [model EXCEPT ![p] = model'[p]]
    BY <1>1, <1>4, <1>5, <1>7 DEF Typed
  <2>2. HoldsModel(p)'
    BY <2>1 DEF HoldsModel, ModelSteps, ModelJob, Writing
  <2> QED BY <1>1, <1>5, <1>7, <2>1, <2>2, GoingOn
<1>8. CASE /\ ~Replaces(p) /\ failed' = [failed EXCEPT ![p] = TRUE]
           /\ pc' = [pc EXCEPT ![p] = "next"] /\ UNCHANGED <<hindered, job, lacking>>
  <2>1. hindered' = [hindered EXCEPT ![p] = hindered'[p]] /\ hindered'[p] \in BOOLEAN
    BY <1>4, <1>8 DEF Typed
  <2> QED BY <1>1, <1>3, <1>8, <2>1, GivingUp DEF work
<1>9. CASE /\ model[p].obj # None /\ (~Replaces(p) => ~ModelExists(Part(p).model))
           /\ Schedules(p, <<"wrl", Part(p).model>>, model[p].obj, "step")
           /\ UNCHANGED <<failed, hindered, lacking>>
  <2>1. Fits(p, <<"wrl", Part(p).model>>, model[p].obj, "step")
    BY <1>1, <1>9 DEF Fits, ModelExists
  <2> QED BY <1>1, <1>9, <2>1, Scheduling DEF history
<1>10. CASE /\ model[p].obj # None /\ (~Replaces(p) => ~ModelExists(Part(p).model))
            /\ Lacks(p) /\ pc' = [pc EXCEPT ![p] = "step"]
            /\ UNCHANGED <<failed, hindered, job>>
  <2>1. /\ Id(p) \in Ids
        /\ \A kind \in {"obj", "stp"} : model[p][kind] # None => Sound(p, model[p][kind])
    BY <1>1, <1>3, <1>4, AtHand DEF HoldsModel, ModelSteps
  <2>2. lacking'[p] = lacking[p] \cup {Id(p)} /\ pc'[p] = "step"
        /\ lacking' = [lacking EXCEPT ![p] = lacking'[p]] /\ lacking[p] \subseteq Ids
        /\ model'[p] \in Drafts /\ model' = [model EXCEPT ![p] = model'[p]]
    BY <1>1, <1>4, <1>5, <1>10 DEF Typed, Lacks
  <2>3. HoldsModel(p)'
    <3>1. Part(p)'.model # None /\ \A c : Sound(p, c)' <=> Sound(p, c)
      BY <1>1, <1>5 DEF Part, Id, Sound
    <3>2. lacking'[p] # {}
      BY <2>2
    <3> QED BY <1>1, <1>5, <2>1, <3>1, <3>2 DEF HoldsModel, Sound
  <2>4. ~Replaces(p) => file[<<"step", Part(p).model>>] = None
    BY <1>10 DEF ModelExists
  <2>5. lacking'[p] # {} /\ lacking'[p] \subseteq Ids /\ lacking[p] \subseteq lacking'[p]
    BY <2>1, <2>2
  <2> QED BY <1>1, <1>10, <2>2, <2>3, <2>4, <2>5, GoingOn
<1> QED BY <1>2, <1>6, <1>7, <1>8, <1>9, <1>10

LEMMA ExportStepStep ==
  ASSUME IInv, NEW p \in Procs, ExportStep(p)
  PROVE  StepKeeps(p)
<1>1. /\ pc[p] = "step"
      /\ UNCHANGED <<files, revision, command, position, cad, model, update, failed, runs,
                     faults, history>>
      /\ \/ model[p].stp = None /\ pc' = [pc EXCEPT ![p] = "next"] /\ UNCHANGED job
         \/ /\ model[p].stp # None
            /\ Schedules(p, <<"step", Part(p).model>>, model[p].stp, "next")
  BY DEF ExportStep, Goto
<1>2. Active(p)
  BY <1>1 DEF Active
<1>3. Typed /\ Runs(p) /\ HoldsModel(p)
  BY <1>2, AtHand
<1>4. /\ Part(p).model # None /\ model[p] \in Drafts
      /\ lacking[p] = {} => model[p].stp # None
  BY <1>1, <1>3 DEF HoldsModel, ModelSteps, Drafted, Writing
<1>5. CASE model[p].stp = None /\ pc' = [pc EXCEPT ![p] = "next"] /\ UNCHANGED job
  <2>1. lacking' = [lacking EXCEPT ![p] = lacking'[p]] /\ lacking'[p] = lacking[p]
        /\ lacking[p] \subseteq Ids /\ pc'[p] = "next"
        /\ model'[p] \in Drafts /\ model' = [model EXCEPT ![p] = model'[p]]
    BY <1>1, <1>3, <1>4, <1>5 DEF Typed, history
  <2>2. HoldsModel(p)'
    BY <2>1 DEF HoldsModel, ModelSteps, ModelJob, Writing
  <2> QED BY <1>1, <1>4, <1>5, <2>1, <2>2, GoingOn DEF history
<1>6. CASE /\ model[p].stp # None
           /\ Schedules(p, <<"step", Part(p).model>>, model[p].stp, "next")
  <2>1. Fits(p, <<"step", Part(p).model>>, model[p].stp, "next")
    BY <1>1 DEF Fits
  <2> QED BY <1>1, <1>6, <2>1, Scheduling
<1> QED BY <1>1, <1>5, <1>6

-----------------------------------------------------------------------------
(* Writing a file.                                                         *)

\* With the footprint of the part at hand, which has the last word on its name,
\* the footprints of one more part are there.
LEMMA NextFootprint ==
  ASSUME NEW p, command[p] \in Commands, position[p] \in 1 .. Len(command[p].ids),
         command'[p] = command[p], since'[p] = since[p],
         NEW d \in Nat, d = position[p] - 1, FootprintsIn(p, d),
         \A key \in Artifacts : key # FootprintKey(Id(p)) => Shown(p, key)' = Shown(p, key),
         NEW content, Shown(p, FootprintKey(Id(p)))' = content, content # None,
         content.whole, Fresh(p, content), content.id = Id(p), UNCHANGED position
  PROVE  FootprintsIn(p, d + 1)'
<1> DEFINE ids == command[p].ids
<1>1. /\ Id(p) = ids[d + 1] /\ Len(ids) \in Nat
      /\ \A n \in 1 .. (d + 1) : ids[n] \in Ids
  <2>1. Len(ids) \in Nat /\ \A n \in 1 .. Len(ids) : ids[n] \in Ids
    BY CommandFacts
  <2>2. Id(p) = ids[position[p]]
    BY DEF Id
  <2> HIDE DEF ids
  <2>3. position[p] = d + 1 /\ d + 1 <= Len(ids)
    BY <2>1 DEF ids
  <2> QED BY <2>1, <2>2, <2>3
<1>2. Id(p)' = Id(p) /\ command'[p].ids = ids
  BY DEF Id
<1>3. \A c : Fresh(p, c)' <=> Fresh(p, c)
  BY DEF Fresh
<1>4. \A i, id, e : IsLast(p, FootprintName, i, e, id)' <=> IsLast(p, FootprintName, i, e, id)
  BY DEF IsLast, FootprintName
<1>5. \A i \in Ids : FootprintKey(i) \in Artifacts
  BY FilesOfParts
<1>6. \A i : FootprintKey(i) = FootprintKey(Id(p)) <=> FootprintName(i) = FootprintName(Id(p))
  BY DEF FootprintKey, FootprintName
<1>7. ASSUME NEW m \in 1 .. (d + 1), NEW c, c = Shown(p, FootprintKey(ids[m]))'
      PROVE  /\ c # None /\ c.whole /\ Fresh(p, c)
             /\ IsLast(p, FootprintName, ids[m], d + 1, c.id)
  <2>1. CASE FootprintName(ids[m]) = FootprintName(Id(p))
    <3>1. FootprintKey(ids[m]) = FootprintKey(Id(p))
      BY <1>6, <2>1
    <3>2. c = content
      BY <1>2, <1>7, <3>1 DEF FootprintKey
    <3>3. d + 1 \in 1 .. (d + 1) /\ \A k \in ((d + 1) + 1) .. (d + 1) : FALSE
      OBVIOUS
    <3>4. IsLast(p, FootprintName, ids[m], d + 1, Id(p))
      BY <1>1, <2>1, <3>3 DEF IsLast
    <3> QED BY <3>2, <3>4
  <2>2. CASE FootprintName(ids[m]) # FootprintName(Id(p))
    <3>1. m \in 1 .. d
      <4>1. m # d + 1
        BY <1>1, <2>2
      <4> QED BY <4>1
    <3>2. c = Shown(p, FootprintKey(ids[m]))
      BY <1>1, <1>5, <1>6, <1>7, <2>2
    <3>3. c # None /\ c.whole /\ Fresh(p, c) /\ IsLast(p, FootprintName, ids[m], d, c.id)
      BY <3>1, <3>2 DEF FootprintsIn
    <3>4. PICK n \in 1 .. d :
            /\ c.id = ids[n] /\ FootprintName(c.id) = FootprintName(ids[m])
            /\ \A k \in (n + 1) .. d : FootprintName(ids[k]) # FootprintName(ids[m])
      BY <3>3 DEF IsLast
    <3>5. \A k \in (n + 1) .. (d + 1) : k = d + 1 \/ k \in (n + 1) .. d
      BY <3>4
    <3>6. \A k \in (n + 1) .. (d + 1) : FootprintName(ids[k]) # FootprintName(ids[m])
      BY <1>1, <2>2, <3>4, <3>5
    <3>7. n \in 1 .. (d + 1)
      OBVIOUS
    <3>8. IsLast(p, FootprintName, ids[m], d + 1, c.id)
      BY <3>4, <3>6, <3>7 DEF IsLast
    <3> QED BY <3>3, <3>8
  <2> QED BY <2>1, <2>2
<1>8. ASSUME NEW m \in 1 .. (d + 1)
      PROVE  /\ Shown(p, FootprintKey(command[p].ids[m]))' # None
             /\ Shown(p, FootprintKey(command[p].ids[m]))'.whole
             /\ Fresh(p, Shown(p, FootprintKey(command[p].ids[m])))'
             /\ IsLast(p, FootprintName, command[p].ids[m], d + 1,
                       Shown(p, FootprintKey(command[p].ids[m])).id)'
  <2>1. PICK c : c = Shown(p, FootprintKey(command[p].ids[m]))'
    OBVIOUS
  <2>2. /\ c # None /\ c.whole /\ Fresh(p, c)
        /\ IsLast(p, FootprintName, ids[m], d + 1, c.id)
    BY <1>7, <2>1
  <2>3. Fresh(p, c)' /\ IsLast(p, FootprintName, ids[m], d + 1, c.id)'
    BY <1>2, <1>3, <1>4, <2>2
  <2> QED BY <2>1, <2>2, <2>3
<1> QED BY <1>8 DEF FootprintsIn

LEMMA NextDrawing ==
  ASSUME NEW p, command[p] \in Commands, position[p] \in 1 .. Len(command[p].ids),
         command'[p] = command[p], since'[p] = since[p],
         NEW d \in Nat, d = position[p] - 1, DrawingsIn(p, d),
         \A key \in Artifacts : key # <<"svg", Id(p)>> => Shown(p, key)' = Shown(p, key),
         NEW content, Shown(p, <<"svg", Id(p)>>)' = content, content # None,
         content.whole, Fresh(p, content), content.id = Id(p), UNCHANGED position
  PROVE  DrawingsIn(p, d + 1)'
<1> DEFINE ids == command[p].ids
<1>1. /\ Id(p) = ids[d + 1] /\ Len(ids) \in Nat
      /\ \A n \in 1 .. (d + 1) : ids[n] \in Ids
  <2>1. Len(ids) \in Nat /\ \A n \in 1 .. Len(ids) : ids[n] \in Ids
    BY CommandFacts
  <2>2. Id(p) = ids[position[p]]
    BY DEF Id
  <2> HIDE DEF ids
  <2>3. position[p] = d + 1 /\ d + 1 <= Len(ids)
    BY <2>1 DEF ids
  <2> QED BY <2>1, <2>2, <2>3
<1>2. Id(p)' = Id(p) /\ command'[p].ids = ids
  BY DEF Id
<1>3. \A c : Fresh(p, c)' <=> Fresh(p, c)
  BY DEF Fresh
<1>4. ASSUME NEW i \in Ids PROVE <<"svg", i>> \in Artifacts
  BY FilesOfParts
<1>5. ASSUME NEW m \in 1 .. (d + 1), NEW c, c = Shown(p, <<"svg", ids[m]>>)'
      PROVE  c # None /\ c.whole /\ Fresh(p, c) /\ c.id = ids[m]
  <2>1. CASE ids[m] = Id(p)
    BY <1>2, <1>5, <2>1
  <2>2. CASE ids[m] # Id(p)
    <3>1. m \in 1 .. d
      <4>1. m # d + 1
        BY <1>1, <2>2
      <4> QED BY <4>1
    <3>2. c = Shown(p, <<"svg", ids[m]>>)
      BY <1>1, <1>4, <1>5, <2>2
    <3> QED BY <3>1, <3>2 DEF DrawingsIn
  <2> QED BY <2>1, <2>2
<1>6. ASSUME NEW m \in 1 .. (d + 1)
      PROVE  /\ Shown(p, <<"svg", command[p].ids[m]>>)' # None
             /\ Shown(p, <<"svg", command[p].ids[m]>>)'.whole
             /\ Fresh(p, Shown(p, <<"svg", command[p].ids[m]>>))'
             /\ Shown(p, <<"svg", command[p].ids[m]>>)'.id = command'[p].ids[m]
  <2>1. PICK c : c = Shown(p, <<"svg", command[p].ids[m]>>)'
    OBVIOUS
  <2>2. c # None /\ c.whole /\ Fresh(p, c) /\ c.id = ids[m]
    BY <1>5, <2>1
  <2>3. Fresh(p, c)' /\ command'[p].ids[m] = ids[m]
    BY <1>2, <1>3, <2>2
  <2> QED BY <2>1, <2>2, <2>3
<1> QED BY <1>6 DEF DrawingsIn

\* A file of a model that is written whole leaves the models that are there.
LEMMA ModelsAreKept ==
  ASSUME NEW p, command[p] \in Commands, command'[p] = command[p],
         UNCHANGED lacking, NEW d \in Nat, d <= Len(command[p].ids), ModelsIn(p, d), NEW written,
         \A key \in Artifacts : key # written => Shown(p, key)' = Shown(p, key),
         NEW content, \A key \in {written} : Shown(p, key)' = content,
         content # None, Sound(p, content)
  PROVE  ModelsIn(p, d)'
<1>1. \A m \in 1 .. d : command[p].ids[m] \in Ids
  BY CommandFacts
<1>2. ASSUME NEW i \in Ids, NEW kind \in {"wrl", "step"}, Parts[i].model # None,
             ModelIn(p, kind, Parts[i].model)
      PROVE  ModelIn(p, kind, Parts[i].model)'
  <2>1. <<kind, Parts[i].model>> \in Artifacts
    BY <1>2, FilesOfParts
  <2>2. CASE <<kind, Parts[i].model>> = written
    BY <2>2 DEF ModelIn, Sound
  <2>3. CASE <<kind, Parts[i].model>> # written
    BY <1>2, <2>1, <2>3 DEF ModelIn, Sound
  <2> QED BY <2>2, <2>3
<1> QED BY <1>1, <1>2 DEF ModelsIn

\* The file about to be written, artifact by artifact.
LEMMA JobAtHand ==
  ASSUME IInv, NEW p \in Procs, pc[p] \in Writing
  PROVE  /\ job[p] \in Jobs /\ job[p].content \in Contents /\ job[p].content.whole
         /\ job[p].key \in Keys /\ Kind(p) = job[p].key[1] /\ cad[p] # None
         /\ Kind(p) \in {"json", "footprint", "svg", "obj", "stp", "wrl", "step"}
         /\ (Kind(p) \in {"footprint", "svg", "wrl", "step"} <=> job[p].key \in Artifacts)
         /\ Kind(p) \in {"json", "footprint", "svg"} =>
              job[p].content = cad[p] /\ job[p].content.id = Id(p)
                /\ Fresh(p, job[p].content)
         /\ Kind(p) = "json" => job[p].key = <<"json", Id(p)>> /\ job[p].next = Following(p, None)
         /\ Kind(p) = "footprint" =>
              /\ job[p].key = FootprintKey(Id(p)) /\ job[p].next = Following(p, "footprint")
         /\ Kind(p) = "svg" =>
              job[p].key = <<"svg", Id(p)>> /\ job[p].next = Following(p, "svg")
         /\ Kind(p) \in {"obj", "stp", "wrl", "step"} =>
              /\ job[p].key = <<Kind(p), Part(p).model>> /\ Part(p).model # None
              /\ Sound(p, job[p].content)
              /\ job[p].next = CASE Kind(p) = "obj" -> "stp" [] Kind(p) = "stp" -> "export"
                                 [] Kind(p) = "wrl" -> "step" [] Kind(p) = "step" -> "next"
<1>1. Active(p)
  BY DEF Active, Writing
<1>2. Typed /\ Runs(p) /\ HoldsCad(p) /\ HoldsModel(p) /\ HoldsJob(p)
  BY <1>1, AtHand
<1>3. job[p] \in Jobs /\ JobFits(p) /\ job[p].content.whole
      /\ (ModelJob(p) => Sound(p, job[p].content) /\ Part(p).model # None)
  BY <1>2 DEF HoldsJob, HoldsModel
<1>4. cad[p] # None /\ cad[p].id = Id(p) /\ Fresh(p, cad[p])
  BY <1>2 DEF HoldsCad, Writing
<1>5. /\ Kind(p) \in {"footprint", "svg", "wrl", "step"} => job[p].key \in Artifacts
      /\ Kind(p) \in {"json", "obj", "stp"} => job[p].key \in Keys \ Artifacts
      /\ Kind(p) \in {"footprint", "svg", "wrl", "step", "json", "obj", "stp"}
  BY <1>1, <1>2, JobIsOfPart
<1>6. Kind(p) = job[p].key[1]
  BY DEF Kind
<1>7. job[p].content \in Contents /\ job[p].key \in Keys
  BY <1>3 DEF Jobs
<1>8. \/ /\ job[p].key = <<"json", Id(p)>> /\ Kind(p) = "json"
         /\ job[p].content = cad[p] /\ job[p].next = Following(p, None)
      \/ /\ job[p].key = FootprintKey(Id(p)) /\ Kind(p) = "footprint"
         /\ job[p].content = cad[p] /\ job[p].next = Following(p, "footprint")
      \/ /\ job[p].key = <<"svg", Id(p)>> /\ Kind(p) = "svg"
         /\ job[p].content = cad[p] /\ job[p].next = Following(p, "svg")
      \/ Kind(p) \in {"obj", "stp", "wrl", "step"}
  <2> DEFINE first == /\ job[p].key = <<"json", Id(p)>> /\ job[p].content = cad[p]
                      /\ job[p].next = Following(p, None)
             second == /\ job[p].key = <<"footprint", Part(p).footprint>>
                       /\ job[p].content = cad[p] /\ job[p].next = Following(p, "footprint")
             third == /\ job[p].key = <<"svg", Id(p)>> /\ job[p].content = cad[p]
                      /\ job[p].next = Following(p, "svg")
             fourth == \/ job[p].key = <<"obj", Part(p).model>>
                       \/ job[p].key = <<"stp", Part(p).model>>
                       \/ job[p].key = <<"wrl", Part(p).model>>
                       \/ job[p].key = <<"step", Part(p).model>>
  <2>1. first \/ second \/ third \/ fourth
    BY <1>3 DEF JobFits
  <2>2. CASE first
    BY <1>6, <2>2
  <2>3. CASE second
    BY <1>6, <2>3 DEF FootprintKey, Part
  <2>4. CASE third
    BY <1>6, <2>4
  <2>5. CASE fourth
    BY <1>6, <2>5
  <2> HIDE DEF first, second, third, fourth
  <2> QED BY <2>1, <2>2, <2>3, <2>4, <2>5
<1>9. Kind(p) \in {"json", "footprint", "svg"} => job[p].content = cad[p]
  BY <1>8
<1>10. /\ Kind(p) = "json" => job[p].key = <<"json", Id(p)>> /\ job[p].next = Following(p, None)
       /\ Kind(p) = "footprint" =>
            job[p].key = FootprintKey(Id(p)) /\ job[p].next = Following(p, "footprint")
       /\ Kind(p) = "svg" => job[p].key = <<"svg", Id(p)>> /\ job[p].next = Following(p, "svg")
  BY <1>8
<1>11. Kind(p) \in {"obj", "stp", "wrl", "step"} =>
              /\ job[p].key = <<Kind(p), Part(p).model>>
              /\ job[p].next = CASE Kind(p) = "obj" -> "stp" [] Kind(p) = "stp" -> "export"
                                 [] Kind(p) = "wrl" -> "step" [] Kind(p) = "step" -> "next"
  BY <1>3, <1>6 DEF JobFits
<1>12. Kind(p) \in {"obj", "stp", "wrl", "step"} => ModelJob(p)
  BY DEF ModelJob
<1> QED BY <1>3, <1>4, <1>5, <1>6, <1>7, <1>8, <1>9, <1>10, <1>11, <1>12

\* Of the files of a command only one changes, and that from the next step on
\* counts as written.
LEMMA OpenStep ==
  ASSUME IInv, NEW p \in Procs, Open(p)
  PROVE  StepKeeps(p)
<1> DEFINE key == job[p].key
           content == job[p].content
           torn == [content EXCEPT !.whole = FALSE]
<1>1. /\ pc[p] = "open" /\ file' = [file EXCEPT ![key] = torn]
      /\ IF key \in Artifacts THEN Touch(p) ELSE UNCHANGED touched
      /\ pc' = [pc EXCEPT ![p] = "close"]
      /\ UNCHANGED <<lib, revision, command, position, work, failed, runs, faults,
                     readable, hindered, lacking, since>>
  BY DEF Open, Goto
<1>2. Active(p) /\ pc[p] \in Writing
  BY <1>1 DEF Active, Writing
<1>3. /\ Typed /\ Runs(p) /\ HoldsCad(p) /\ HoldsModel(p) /\ HoldsJob(p) /\ Keeps(p)
      /\ Progress(p) /\ Id(p) \in Ids /\ command[p] \in Commands
      /\ position[p] \in 1 .. Len(command[p].ids) /\ failed[p] \in BOOLEAN
  BY <1>2, AtHand
<1>4. /\ job[p] \in Jobs /\ content \in Contents /\ content.whole
      /\ key \in Keys /\ Kind(p) = key[1] /\ cad[p] # None
      /\ Kind(p) \in {"json", "footprint", "svg", "obj", "stp", "wrl", "step"}
      /\ (Kind(p) \in {"footprint", "svg", "wrl", "step"} <=> key \in Artifacts)
      /\ Kind(p) \in {"json", "footprint", "svg"} =>
           content.id = Id(p) /\ Fresh(p, content)
      /\ Kind(p) = "json" => key = <<"json", Id(p)>>
      /\ Kind(p) = "footprint" => key = FootprintKey(Id(p))
      /\ Kind(p) = "svg" => key = <<"svg", Id(p)>>
      /\ Kind(p) \in {"obj", "stp", "wrl", "step"} =>
           /\ key = <<Kind(p), Part(p).model>> /\ Part(p).model # None
           /\ Sound(p, content)
  BY <1>2, JobAtHand
<1>5. torn \in Contents /\ torn.id = content.id
  BY <1>4 DEF Contents
<1>6. job'[p] = job[p] /\ cad'[p] = cad[p] /\ model'[p] = model[p] /\ update'[p] = update[p]
  BY <1>1 DEF work
<1> HIDE DEF content, torn, key
<1>7. /\ touched' \in [Procs -> BOOLEAN] /\ touched'[p] = touched[p]
      /\ \A q \in Procs \ {p} : /\ key \in Artifacts /\ Active(q) => touched'[q] = TRUE
                                /\ key \notin Artifacts => touched'[q] = touched[q]
  BY <1>1, <1>3, TouchTells DEF Typed
<1>8. pc'[p] = "close"
  BY <1>1, <1>3 DEF Typed
<1>9. /\ file' \in [Keys -> Contents \cup {None}] /\ file'[key] = torn
      /\ \A k \in Keys : k # key => file'[k] = file[k]
  BY <1>1, <1>3, <1>4, <1>5 DEF Typed
<1>10. Typed'
  BY <1>1, <1>3, <1>7, <1>9 DEF Typed, work, Pcs
<1>11. CacheIsOfParts'
  <2> SUFFICES ASSUME NEW i \in Ids, file'[<<"json", i>>] # None
               PROVE  file'[<<"json", i>>].id = i
    BY DEF CacheIsOfParts
  <2>1. <<"json", i>> \in Keys
    BY FilesOfParts
  <2>2. CASE <<"json", i>> = key
    <3>1. Kind(p) = "json" /\ key = <<"json", Id(p)>>
      BY <1>4, <2>2
    <3>2. i = Id(p)
      BY <2>2, <3>1
    <3> QED BY <1>4, <1>5, <1>9, <2>2, <3>1, <3>2
  <2>3. CASE <<"json", i>> # key
    BY <1>9, <2>1, <2>3 DEF IInv, CacheIsOfParts
  <2> QED BY <2>2, <2>3
<1>12. LibraryIsASet'
  BY <1>1 DEF IInv, LibraryIsASet, work
<1>13. \A q \in Procs \ {p} : Beside(q)
  <2>1. \A q \in Procs \ {p} : Still(q)
    BY <1>1, <1>3 DEF Typed, Still, work
  <2>2. key \notin Artifacts => \A k \in Artifacts : file'[k] = file[k]
    BY <1>9 DEF Keys
  <2> QED BY <1>1, <1>3, <1>7, <2>1, <2>2 DEF Beside, Typed, SameLibrary
<1>14. /\ Id(p)' = Id(p) /\ Part(p)' = Part(p) /\ Replaces(p)' = Replaces(p)
       /\ Kind(p)' = Kind(p)
       /\ \A artifact : Following(p, artifact)' = Following(p, artifact)
  <2>1. command'[p] = command[p] /\ position'[p] = position[p]
    BY <1>1
  <2> QED BY <1>6, <2>1, FollowingStays DEF Id, Part, Replaces, Kind
<1>15. Holds(p)'
  <2>1. Runs(p)'
    BY <1>1, <1>2, <1>3 DEF Runs, Replaces, Active
  <2>2. HoldsCad(p)'
    BY <1>1, <1>3, <1>4, <1>6, <1>8, <1>14 DEF HoldsCad, Active, Fresh
  <2>3. HoldsModel(p)'
    <3>1. (ModelJob(p)' <=> ModelJob(p)) /\ Drafted(p)' = Drafted(p)
      BY <1>1, <1>8, <1>14 DEF ModelJob, Drafted, Writing
    <3>2. \A c : Sound(p, c)' <=> Sound(p, c)
      BY <1>1 DEF Sound
    <3>3. pc'[p] \notin ModelSteps
      BY <1>8 DEF ModelSteps
    <3> QED BY <1>1, <1>3, <1>6, <1>14, <3>1, <3>2, <3>3 DEF HoldsModel
  <2>4. HoldsJob(p)'
    <3>1. JobFits(p)' <=> JobFits(p)
      BY <1>6, <1>14 DEF JobFits
    <3>2. \A c : Sound(p, c)' <=> Sound(p, c)
      BY <1>1 DEF Sound
    <3>3. ModelJob(p)' <=> ModelJob(p)
      BY <1>1, <1>8, <1>14 DEF ModelJob, Writing
    <3> QED BY <1>2, <1>3, <1>6, <3>1, <3>2, <3>3 DEF HoldsJob
  <2> QED BY <2>1, <2>2, <2>3, <2>4 DEF Holds
<1>16. Keeps(p)'
  <2> SUFFICES ASSUME ~Replaces(p), ~touched[p], Kind(p) = "wrl"
               PROVE  file'[<<"step", Part(p).model>>] = None
    BY <1>7, <1>8, <1>14 DEF Keeps, KeepsWhatExists
  <2>1. file[<<"step", Part(p).model>>] = None
    BY <1>2, <1>3 DEF Keeps, KeepsWhatExists
  <2>2. <<"step", Part(p).model>> # key
    BY <1>4
  <2>3. <<"step", Part(p).model>> \in Keys
    BY <1>3, <1>4, FilesOfParts DEF Part, Keys
  <2> QED BY <1>9, <2>1, <2>2, <2>3
<1>17. \A k \in Artifacts : k # key => Shown(p, k)' = Shown(p, k)
  <2>1. \A k : Shown(p, k)' = IF key = k THEN content ELSE file'[k]
    BY <1>6, <1>8 DEF Shown, key, content
  <2>2. \A k : Shown(p, k) = file[k]
    BY <1>1 DEF Shown
  <2>3. \A k \in Artifacts : k \in Keys
    BY DEF Keys
  <2> QED BY <1>9, <2>1, <2>2, <2>3
<1>18. Progress(p)'
  <2> SUFFICES ASSUME Course(p)'
               PROVE  /\ Course(p) /\ LibraryIsReady(p)'
                      /\ Wants(p, "symbol") => SymbolsStay(p)
                      /\ Wants(p, "footprint") => FootprintsStay(p)
                      /\ Wants(p, "svg") => DrawingsStay(p)
                      /\ Wants(p, "3d") => ModelsStay(p) /\ HalfOfModel(p)'
    BY <1>1, <1>2, <1>3, ProgressStays
  <2>1. Course(p)
    BY <1>1, <1>2, <1>7 DEF Course
  <2>2. LibraryIsReady(p)'
    BY <1>1, <1>3, <1>8, <2>1 DEF Progress, LibraryIsReady
  <2>3. position[p] \in Nat /\ position[p] >= 1 /\ Len(command[p].ids) \in Nat
    BY <1>3, PartAtHand, CommandFacts
  <2>4. PICK d \in Nat : d = position[p] - 1 /\ d + 1 = position[p]
    BY <2>3
  <2>5. \A kinds : Kind(p) \notin kinds => KindStays(p, kinds)
    BY <1>4, <1>17 DEF KindStays
  <2>6. SymbolsStay(p)
    <3>1. TextStays(p)
      BY <1>1, <1>8 DEF TextStays, Text
    <3>2. SymbolDone(p)' <=> SymbolDone(p)
      BY <1>1, <1>8, <1>14 DEF SymbolDone, Writing
    <3> QED BY <1>1, <3>1, <3>2 DEF SymbolsStay, SymbolCount
  <2>7. ASSUME Wants(p, "footprint") PROVE FootprintsStay(p)
    <3>1. CASE Kind(p) # "footprint"
      <4>1. FootprintDone(p)' <=> FootprintDone(p)
        BY <1>1, <1>8, <1>14, <3>1 DEF SymbolDone, FootprintDone, Writing
      <4>2. KindStays(p, {"footprint"})
        BY <2>5, <3>1
      <4> QED BY <1>1, <4>1, <4>2 DEF FootprintsStay, FootprintCount
    <3>2. CASE Kind(p) = "footprint"
      <4>1. FootprintCount(p) = position[p] - 1 /\ FootprintCount(p)' = position[p]
        BY <1>1, <1>8, <1>14, <3>2 DEF FootprintCount, SymbolDone, FootprintDone, Writing
      <4>2. FootprintsIn(p, d)
        BY <1>3, <2>1, <2>4, <2>7, <4>1 DEF Progress
      <4>3. FootprintsIn(p, d + 1)'
        <5>1. key = FootprintKey(Id(p)) /\ content.id = Id(p) /\ Fresh(p, content)
              /\ content # None /\ content.whole
          BY <1>4, <3>2, ImportAssumption
        <5>2. Shown(p, FootprintKey(Id(p)))' = content
          BY <1>6, <1>8, <1>14, <5>1 DEF Shown, FootprintKey, key, content
        <5> QED BY <1>1, <1>3, <1>17, <2>4, <4>2, <5>1, <5>2, NextFootprint
      <4> QED BY <2>4, <4>1, <4>3 DEF FootprintsStay
    <3> QED BY <3>1, <3>2
  <2>8. ASSUME Wants(p, "svg") PROVE DrawingsStay(p)
    <3>1. CASE Kind(p) # "svg"
      <4>1. SvgDone(p)' <=> SvgDone(p)
        BY <1>1, <1>8, <1>14, <3>1 DEF SymbolDone, FootprintDone, SvgDone, Writing
      <4>2. KindStays(p, {"svg"})
        BY <2>5, <3>1
      <4> QED BY <1>1, <4>1, <4>2 DEF DrawingsStay, SvgCount
    <3>2. CASE Kind(p) = "svg"
      <4>1. SvgCount(p) = position[p] - 1 /\ SvgCount(p)' = position[p]
        BY <1>1, <1>8, <1>14, <3>2 DEF SvgCount, SymbolDone, FootprintDone, SvgDone, Writing
      <4>2. DrawingsIn(p, d)
        BY <1>3, <2>1, <2>4, <2>8, <4>1 DEF Progress
      <4>3. DrawingsIn(p, d + 1)'
        <5>1. key = <<"svg", Id(p)>> /\ content.id = Id(p) /\ Fresh(p, content)
              /\ content # None /\ content.whole
          BY <1>4, <3>2, ImportAssumption
        <5>2. Shown(p, <<"svg", Id(p)>>)' = content
          BY <1>6, <1>8, <1>14, <5>1 DEF Shown, key, content
        <5> QED BY <1>1, <1>3, <1>17, <2>4, <4>2, <5>1, <5>2, NextDrawing
      <4> QED BY <2>4, <4>1, <4>3 DEF DrawingsStay
    <3> QED BY <3>1, <3>2
  <2>9. ModelCount(p)' = ModelCount(p) /\ ModelCount(p) = position[p] - 1
    BY <1>1, <1>8 DEF ModelCount
  <2>10. ASSUME Wants(p, "3d") PROVE ModelsStay(p)
    <3>1. CASE Kind(p) \notin {"wrl", "step"}
      <4>1. KindStays(p, {"wrl", "step"})
        BY <2>5, <3>1
      <4> QED BY <1>1, <2>9, <4>1 DEF ModelsStay
    <3>2. CASE Kind(p) \in {"wrl", "step"}
      <4>1. ModelsIn(p, d)
        BY <1>3, <2>1, <2>4, <2>9, <2>10 DEF Progress
      <4>2. content # None /\ Sound(p, content) /\ d <= Len(command[p].ids)
        BY <1>3, <1>4, <2>3, <2>4, <3>2, ImportAssumption
      <4>3. \A k \in {key} : Shown(p, k)' = content
        BY <1>6, <1>8 DEF Shown, key, content
      <4>4. ModelsIn(p, d)'
        BY <1>1, <1>3, <1>17, <4>1, <4>2, <4>3, ModelsAreKept
      <4> QED BY <2>4, <2>9, <4>4 DEF ModelsStay
    <3> QED BY <3>1, <3>2
  <2>11. ASSUME Wants(p, "3d") PROVE HalfOfModel(p)'
    <3>1. CASE Kind(p) # "step"
      BY <1>8, <1>14, <3>1 DEF HalfOfModel
    <3>2. CASE Kind(p) = "step"
      <4>1. lacking[p] = {} => ModelIn(p, "wrl", Part(p).model)
        BY <1>2, <1>3, <2>1, <2>11, <3>2 DEF Progress, HalfOfModel
      <4>2. <<"wrl", Part(p).model>> \in Artifacts
        BY <1>3, <1>4, <3>2, FilesOfParts DEF Part
      <4>3. <<"wrl", Part(p).model>> # key
        BY <1>4, <3>2
      <4>4. Shown(p, <<"wrl", Part(p).model>>)' = Shown(p, <<"wrl", Part(p).model>>)
        <5>1. \A k \in Artifacts : k # key => Shown(p, k)' = Shown(p, k)
          BY <1>17
        <5>2. Part(p)' = Part(p)
          BY <1>14
        <5> QED BY <4>2, <4>3, <5>1, <5>2
      <4>5. lacking'[p] = {} => ModelIn(p, "wrl", Part(p).model)'
        BY <1>1, <1>14, <4>1, <4>4 DEF ModelIn, Sound
      <4> QED BY <4>5 DEF HalfOfModel
    <3> QED BY <3>1, <3>2
  <2> QED BY <2>1, <2>2, <2>6, <2>7, <2>8, <2>10, <2>11
<1> QED BY <1>10, <1>11, <1>12, <1>13, <1>15, <1>16, <1>18 DEF StepKeeps

\* A command that closes its file goes on, whether or not a cache was filled.
LEMMA Closing ==
  ASSUME IInv, NEW p \in Procs, pc[p] = "close",
         pc' = [pc EXCEPT ![p] = job[p].next], job' = [job EXCEPT ![p] = None],
         UNCHANGED <<lib, revision, command, position, cad, model, update, failed,
                     readable, hindered, lacking, since>>,
         touched'[p] = touched[p],
         \A k \in Artifacts : file'[k] = IF k = job[p].key THEN job[p].content ELSE file[k]
  PROVE  /\ pc'[p] \in Pcs /\ Holds(p)' /\ Keeps(p)' /\ Progress(p)'
<1> DEFINE key == job[p].key
           content == job[p].content
           next == job[p].next
<1>1. Active(p) /\ pc[p] \in Writing
  BY DEF Active, Writing
<1>2. /\ Typed /\ Runs(p) /\ HoldsCad(p) /\ HoldsModel(p) /\ HoldsJob(p) /\ Keeps(p)
      /\ Progress(p) /\ Id(p) \in Ids /\ command[p] \in Commands
      /\ position[p] \in 1 .. Len(command[p].ids) /\ failed[p] \in BOOLEAN
  BY <1>1, AtHand
<1>3. /\ content \in Contents
      /\ Kind(p) = key[1] /\ cad[p] # None
      /\ Kind(p) \in {"json", "footprint", "svg", "obj", "stp", "wrl", "step"}
      /\ Kind(p) = "json" => next = Following(p, None)
      /\ Kind(p) = "footprint" => next = Following(p, "footprint")
      /\ Kind(p) = "svg" => next = Following(p, "svg")
      /\ Kind(p) \in {"obj", "stp", "wrl", "step"} =>
           /\ key = <<Kind(p), Part(p).model>> /\ Part(p).model # None /\ Sound(p, content)
           /\ next = CASE Kind(p) = "obj" -> "stp" [] Kind(p) = "stp" -> "export"
                       [] Kind(p) = "wrl" -> "step" [] Kind(p) = "step" -> "next"
  BY <1>1, JobAtHand
<1>4. pc'[p] = next
  BY <1>2 DEF Typed
<1>5. /\ Id(p)' = Id(p) /\ Part(p)' = Part(p) /\ Replaces(p)' = Replaces(p)
      /\ \A c : Sound(p, c)' <=> Sound(p, c)
  BY DEF Id, Part, Replaces, Sound
<1>6. \A k \in Artifacts : Shown(p, k)' = Shown(p, k)
  <2>1. next # "close"
    BY <1>3, NothingIsSkipped
  <2>2. \A k \in Artifacts : Shown(p, k)' = file'[k]
    BY <1>4, <2>1 DEF Shown
  <2>3. \A k \in Artifacts : Shown(p, k) = IF k = key THEN content ELSE file[k]
    BY DEF Shown
  <2> QED BY <2>2, <2>3
<1> HIDE DEF key, content, next
<1>7. /\ Kind(p) = "json" =>
           /\ next \in {"symbol", "footprint", "svg", "3d", "next"}
           /\ Wants(p, "symbol") => next = "symbol"
           /\ Wants(p, "footprint") => next \in {"symbol", "footprint"}
           /\ Wants(p, "svg") => next \in {"symbol", "footprint", "svg"}
           /\ Wants(p, "3d") => next # "next"
      /\ Kind(p) = "footprint" =>
           /\ next \in {"svg", "3d", "next"}
           /\ Wants(p, "svg") => next = "svg"
           /\ Wants(p, "3d") => next # "next"
      /\ Kind(p) = "svg" => next \in {"3d", "next"} /\ (Wants(p, "3d") => next # "next")
  BY <1>3, NothingIsSkipped
<1>8. /\ Kind(p) = "obj" => next = "stp"
      /\ Kind(p) = "stp" => next = "export"
      /\ Kind(p) = "wrl" => next = "step"
      /\ Kind(p) = "step" => next = "next"
  BY <1>3
<1>9. /\ next \in {"symbol", "footprint", "svg", "3d", "next", "stp", "export", "step"}
      /\ next \in Pcs
  BY <1>3, <1>7, <1>8 DEF Pcs
<1>10. Holds(p)'
  <2>1. Runs(p)'
    BY <1>1, <1>2 DEF Runs, Replaces, Active
  <2>2. HoldsCad(p)'
    BY <1>2, <1>3, <1>4, <1>5, <1>9 DEF HoldsCad, Active, Fresh
  <2>3. HoldsModel(p)'
    <3>1. next \in ModelSteps => ModelJob(p) /\ Drafted(p)' = Drafted(p)
      BY <1>1, <1>3, <1>4, <1>7, <1>8 DEF ModelSteps, ModelJob, Drafted, Writing
    <3>2. ~ModelJob(p)'
      BY <1>4, <1>9 DEF ModelJob, Writing
    <3> QED BY <1>2, <1>4, <1>5, <3>1, <3>2 DEF HoldsModel
  <2>4. HoldsJob(p)'
    BY <1>4, <1>9 DEF HoldsJob, Writing
  <2> QED BY <2>1, <2>2, <2>3, <2>4 DEF Holds
<1>11. Keeps(p)'
  <2> SUFFICES ASSUME ~Replaces(p), ~touched[p], next = "step"
               PROVE  file'[<<"step", Part(p).model>>] = None
    BY <1>4, <1>5, <1>9 DEF Keeps, KeepsWhatExists, Writing
  <2>1. Kind(p) = "wrl"
    BY <1>3, <1>7, <1>8
  <2>2. file[<<"step", Part(p).model>>] = None
    BY <1>1, <1>2, <2>1 DEF Keeps, KeepsWhatExists
  <2>3. <<"step", Part(p).model>> \in Artifacts
    BY <1>2, <1>3, <2>1, FilesOfParts DEF Part
  <2>4. <<"step", Part(p).model>> # key
    BY <1>3, <2>1
  <2> QED BY <2>2, <2>3, <2>4 DEF key
<1>12. Progress(p)'
  <2> SUFFICES ASSUME Course(p)'
               PROVE  /\ Course(p) /\ LibraryIsReady(p)'
                      /\ Wants(p, "symbol") => SymbolsStay(p)
                      /\ Wants(p, "footprint") => FootprintsStay(p)
                      /\ Wants(p, "svg") => DrawingsStay(p)
                      /\ Wants(p, "3d") => ModelsStay(p) /\ HalfOfModel(p)'
    BY <1>1, <1>2, ProgressStays
  <2>1. Course(p)
    BY <1>1 DEF Course
  <2>2. LibraryIsReady(p)'
    BY <1>2, <1>4, <1>9, <2>1 DEF Progress, LibraryIsReady
  <2>3. \A kinds : KindStays(p, kinds)
    BY <1>6 DEF KindStays
  <2>4. TextStays(p)
    BY <1>4, <1>9 DEF TextStays, Text
  <2>5. /\ Wants(p, "symbol") => (SymbolDone(p)' <=> SymbolDone(p))
        /\ Wants(p, "footprint") => (FootprintDone(p)' <=> FootprintDone(p))
        /\ Wants(p, "svg") => (SvgDone(p)' <=> SvgDone(p))
    <3>1. CASE Kind(p) = "json"
      BY <1>4, <1>7, <3>1 DEF SymbolDone, FootprintDone, SvgDone, Writing
    <3>2. CASE Kind(p) = "footprint"
      BY <1>4, <1>7, <3>2 DEF SymbolDone, FootprintDone, SvgDone, Writing
    <3>3. CASE Kind(p) = "svg"
      BY <1>4, <1>7, <3>3 DEF SymbolDone, FootprintDone, SvgDone, Writing
    <3>4. CASE Kind(p) \in {"obj", "stp", "wrl", "step"}
      BY <1>4, <1>8, <3>4 DEF SymbolDone, FootprintDone, SvgDone, Writing
    <3> QED BY <1>3, <3>1, <3>2, <3>3, <3>4
  <2>6. ASSUME Wants(p, "3d")
        PROVE  /\ Kind(p) # "step" => ModelCount(p)' = ModelCount(p)
               /\ ModelCount(p) = position[p] - 1
               /\ Kind(p) = "step" => ModelCount(p)' = position[p]
    <3>1. Kind(p) # "step" => next # "next"
      BY <1>3, <1>7, <1>8, <2>6
    <3> QED BY <1>4, <1>8, <3>1 DEF ModelCount
  <2>7. /\ Wants(p, "symbol") => SymbolsStay(p)
        /\ Wants(p, "footprint") => FootprintsStay(p)
        /\ Wants(p, "svg") => DrawingsStay(p)
    BY <2>3, <2>4, <2>5
    DEF SymbolsStay, FootprintsStay, DrawingsStay, SymbolCount, FootprintCount, SvgCount
  <2>8. \A kind \in {"wrl", "step"} : Part(p).model # None /\ ModelIn(p, kind, Part(p).model)
          => ModelIn(p, kind, Part(p).model)'
    <3> SUFFICES ASSUME NEW kind \in {"wrl", "step"}, Part(p).model # None,
                        ModelIn(p, kind, Part(p).model)
                 PROVE  ModelIn(p, kind, Part(p).model)'
      OBVIOUS
    <3>1. <<kind, Part(p).model>> \in Artifacts
      BY <1>2, FilesOfParts DEF Part
    <3>2. Shown(p, <<kind, Part(p).model>>)' = Shown(p, <<kind, Part(p).model>>)
      BY <1>5, <1>6, <3>1
    <3> QED BY <1>5, <3>2 DEF ModelIn
  <2>9. ASSUME NEW kind \in {"wrl", "step"}, Kind(p) = kind
        PROVE  Part(p).model # None /\ ModelIn(p, kind, Part(p).model)
    <3>1. /\ key = <<kind, Part(p).model>> /\ Sound(p, content) /\ content # None
          /\ Part(p).model # None
      BY <1>3, <2>9, ImportAssumption
    <3>2. Shown(p, key) = content
      BY DEF Shown, key, content
    <3> QED BY <3>1, <3>2 DEF ModelIn
  <2>10. ASSUME Wants(p, "3d") PROVE HalfOfModel(p)'
    <3>1. next = "step" => Kind(p) = "wrl"
      BY <1>3, <1>7, <1>8
    <3>2. next = "step" => ModelIn(p, "wrl", Part(p).model)'
      BY <2>8, <2>9, <3>1
    <3> QED BY <1>4, <1>9, <3>2 DEF HalfOfModel, Writing
  <2>11. ASSUME Wants(p, "3d") PROVE ModelsStay(p)
    <3>1. CASE Kind(p) # "step"
      BY <2>3, <2>6, <2>11, <3>1 DEF ModelsStay
    <3>2. CASE Kind(p) = "step"
      <4>1. position[p] \in Nat /\ position[p] >= 1
        BY <1>2, PartAtHand
      <4>2. PICK d \in Nat : d = position[p] - 1
        BY <4>1
      <4>3. ModelsIn(p, d)
        BY <1>2, <2>1, <2>6, <2>11, <4>2 DEF Progress
      <4>4. lacking[p] = {} => ModelIn(p, "wrl", Part(p).model)
        BY <1>1, <1>2, <2>1, <2>11, <3>2 DEF Progress, HalfOfModel
      <4>5. Part(p).model # None /\ ModelIn(p, "step", Part(p).model)
        BY <2>9, <3>2
      <4>6. \/ lacking'[p] # {}
            \/ \A kind \in {"wrl", "step"} : ModelIn(p, kind, Part(p).model)'
        BY <2>8, <4>4, <4>5
      <4>7. ModelsIn(p, d + 1)'
        BY <1>2, <2>3, <4>2, <4>3, <4>6, NextModel
      <4>8. \A e \in Nat : e = ModelCount(p)' => e = d + 1
        BY <2>6, <2>11, <3>2, <4>1, <4>2
      <4> QED BY <4>7, <4>8 DEF ModelsStay
    <3> QED BY <3>1, <3>2
  <2> QED BY <2>1, <2>2, <2>7, <2>10, <2>11
<1> QED BY <1>4, <1>9, <1>10, <1>11, <1>12

LEMMA CloseStep ==
  ASSUME IInv, NEW p \in Procs, Close(p)
  PROVE  StepKeeps(p)
<1> DEFINE key == job[p].key
           content == job[p].content
<1>1. /\ pc[p] = "close" /\ file' = [file EXCEPT ![key] = content]
      /\ IF key \in Artifacts THEN Touch(p) ELSE UNCHANGED touched
      /\ pc' = [pc EXCEPT ![p] = job[p].next] /\ job' = [job EXCEPT ![p] = None]
      /\ UNCHANGED <<lib, revision, command, position, cad, model, update, failed, runs,
                     faults, readable, hindered, lacking, since>>
  BY DEF Close, Goto
<1>2. Active(p) /\ pc[p] \in Writing
  BY <1>1 DEF Active, Writing
<1>3. Typed /\ IsSet(update[p]) /\ Id(p) \in Ids
  BY <1>2, AtHand
<1>4. /\ content \in Contents /\ key \in Keys
      /\ Kind(p) = key[1] /\ (Kind(p) = "json" => key = <<"json", Id(p)>> /\ content.id = Id(p))
  BY <1>2, JobAtHand
<1> HIDE DEF key, content
<1>5. /\ touched' \in [Procs -> BOOLEAN] /\ touched'[p] = touched[p]
      /\ \A q \in Procs \ {p} : /\ key \in Artifacts /\ Active(q) => touched'[q] = TRUE
                                /\ key \notin Artifacts => touched'[q] = touched[q]
  BY <1>1, <1>3, TouchTells DEF Typed
<1>6. /\ file' \in [Keys -> Contents \cup {None}]
      /\ \A k \in Keys : file'[k] = IF k = key THEN content ELSE file[k]
  BY <1>1, <1>3, <1>4 DEF Typed
<1>7. pc'[p] \in Pcs /\ Holds(p)' /\ Keeps(p)' /\ Progress(p)'
  <2>1. \A k \in Artifacts : file'[k] = IF k = key THEN content ELSE file[k]
    BY <1>6 DEF Keys
  <2> QED BY <1>1, <1>5, <2>1, Closing DEF key, content
<1>8. Typed'
  BY <1>1, <1>3, <1>5, <1>6, <1>7 DEF Typed
<1>9. CacheIsOfParts'
  <2> SUFFICES ASSUME NEW i \in Ids, file'[<<"json", i>>] # None
               PROVE  file'[<<"json", i>>].id = i
    BY DEF CacheIsOfParts
  <2>1. <<"json", i>> \in Keys
    BY FilesOfParts
  <2>2. CASE <<"json", i>> = key
    <3>1. Kind(p) = "json" /\ key = <<"json", Id(p)>>
      BY <1>4, <2>2
    <3>2. i = Id(p)
      BY <2>2, <3>1
    <3> QED BY <1>4, <1>6, <2>2, <3>1, <3>2
  <2>3. CASE <<"json", i>> # key
    BY <1>6, <2>1, <2>3 DEF IInv, CacheIsOfParts
  <2> QED BY <2>2, <2>3
<1>10. LibraryIsASet'
  BY <1>1 DEF IInv, LibraryIsASet
<1>11. \A q \in Procs \ {p} : Beside(q)
  <2>1. \A q \in Procs \ {p} : Still(q)
    BY <1>1, <1>3 DEF Typed, Still
  <2>2. key \notin Artifacts => \A k \in Artifacts : file'[k] = file[k]
    BY <1>6 DEF Keys
  <2> QED BY <1>1, <1>3, <1>5, <2>1, <2>2 DEF Beside, Typed, SameLibrary
<1> QED BY <1>7, <1>8, <1>9, <1>10, <1>11 DEF StepKeeps

LEMMA CacheFailsStep ==
  ASSUME IInv, NEW p \in Procs, CacheFails(p)
  PROVE  StepKeeps(p)
<1>1. /\ pc[p] = "close" /\ job[p].key \in Cache
      /\ pc' = [pc EXCEPT ![p] = job[p].next] /\ job' = [job EXCEPT ![p] = None]
      /\ UNCHANGED <<files, revision, command, position, cad, model, update, failed, runs,
                     history>>
  BY DEF CacheFails, Goto
<1>2. Active(p)
  BY <1>1 DEF Active
<1>3. Typed /\ IsSet(update[p])
  BY <1>2, AtHand
<1>4. job[p].key \notin Artifacts
  BY <1>1 DEF Cache, Artifacts
<1>5. pc'[p] \in Pcs /\ Holds(p)' /\ Keeps(p)' /\ Progress(p)'
  BY <1>1, <1>4, Closing DEF files, history
<1>6. Typed'
  BY <1>1, <1>3, <1>5 DEF Typed, files, history
<1>7. \A q \in Procs \ {p} : Still(q)
  BY <1>1, <1>3 DEF Typed, Still, history
<1> QED BY <1>1, <1>3, <1>5, <1>6, <1>7, QuietStep DEF history

-----------------------------------------------------------------------------
(* The end of a part and of a command.                                     *)

LEMMA Forgotten ==
  ASSUME Typed, NEW p \in Procs, Forget(p)
  PROVE  /\ cad' \in [Procs -> Contents \cup {None}] /\ model' \in [Procs -> Drafts \cup {None}]
         /\ update' \in [Procs -> Libs] /\ job' \in [Procs -> Jobs \cup {None}]
         /\ cad'[p] = None /\ IsSet(update'[p])
         /\ \A q \in Procs \ {p} : /\ cad'[q] = cad[q] /\ model'[q] = model[q]
                                   /\ update'[q] = update[q] /\ job'[q] = job[q]
  BY EmptyTexts DEF Typed, Forget

LEMMA NextPartStep ==
  ASSUME IInv, NEW p \in Procs, NextPart(p)
  PROVE  StepKeeps(p)
<1>1. /\ pc[p] = "next" /\ position[p] < Len(command[p].ids)
      /\ position' = [position EXCEPT ![p] = @ + 1] /\ Forget(p)
      /\ pc' = [pc EXCEPT ![p] = "fetch"]
      /\ UNCHANGED <<files, revision, command, failed, runs, faults, history>>
  BY DEF NextPart, Goto
<1>2. Active(p)
  BY <1>1 DEF Active
<1>3. /\ Typed /\ Runs(p) /\ Progress(p) /\ command[p] \in Commands
      /\ position[p] \in 1 .. Len(command[p].ids)
  BY <1>2, AtHand
<1>4. /\ cad' \in [Procs -> Contents \cup {None}] /\ model' \in [Procs -> Drafts \cup {None}]
      /\ update' \in [Procs -> Libs] /\ job' \in [Procs -> Jobs \cup {None}]
      /\ cad'[p] = None /\ IsSet(update'[p])
      /\ \A q \in Procs \ {p} : /\ cad'[q] = cad[q] /\ model'[q] = model[q]
                                /\ update'[q] = update[q] /\ job'[q] = job[q]
  BY <1>1, <1>3, Forgotten
<1>5. pc'[p] = "fetch"
  BY <1>1, <1>3 DEF Typed
<1>6. /\ position' \in [Procs -> Nat \ {0}] /\ position'[p] = position[p] + 1
      /\ \A q \in Procs \ {p} : position'[q] = position[q]
      /\ position[p] \in Nat /\ Len(command[p].ids) \in Nat
  <2>1. position[p] \in Nat /\ position[p] + 1 \in Nat \ {0} /\ Len(command[p].ids) \in Nat
    BY <1>3, CommandFacts DEF Typed
  <2> QED BY <1>1, <1>3, <2>1 DEF Typed
<1>7. Typed'
  BY <1>1, <1>3, <1>4, <1>6 DEF Typed, files, history, Pcs
<1>8. \A q \in Procs \ {p} : Still(q)
  BY <1>1, <1>3, <1>4, <1>6 DEF Typed, Still, history
<1>9. Holds(p)'
  <2>1. Runs(p)'
    BY <1>1, <1>2, <1>3, <1>6 DEF Runs, Replaces, Active, history
  <2>2. HoldsCad(p)'
    BY <1>4, <1>5 DEF HoldsCad
  <2>3. HoldsModel(p)' /\ HoldsJob(p)'
    BY <1>5 DEF HoldsModel, HoldsJob, ModelJob, ModelSteps, Writing
  <2> QED BY <2>1, <2>2, <2>3 DEF Holds
<1>10. Keeps(p)'
  BY <1>5 DEF Keeps, KeepsWhatExists, Writing
<1>11. Progress(p)'
  <2>1. Course(p)' => Course(p)
    BY <1>1, <1>2 DEF Course, history
  <2>2. Course(p)' => LibraryIsReady(p)'
    BY <1>1, <1>3, <1>5, <2>1 DEF Progress, LibraryIsReady, files
  <2>3. TextStays(p) /\ \A kinds : KindStays(p, kinds)
    BY <1>1, <1>5 DEF TextStays, Text, KindStays, Shown, files
  <2>4. /\ SymbolCount(p)' = SymbolCount(p) /\ FootprintCount(p)' = FootprintCount(p)
        /\ SvgCount(p)' = SvgCount(p) /\ ModelCount(p)' = ModelCount(p)
    BY <1>1, <1>5, <1>6 DEF SymbolCount, FootprintCount, SvgCount, ModelCount,
       SymbolDone, FootprintDone, SvgDone, Writing
  <2>5. HalfOfModel(p)'
    BY <1>5 DEF HalfOfModel, Writing
  <2>6. SymbolsStay(p) /\ FootprintsStay(p) /\ DrawingsStay(p) /\ ModelsStay(p)
    BY <1>1, <2>3, <2>4 DEF SymbolsStay, FootprintsStay, DrawingsStay, ModelsStay, history
  <2> QED BY <1>1, <1>2, <1>3, <2>1, <2>2, <2>5, <2>6, ProgressStays DEF history
<1> QED BY <1>1, <1>4, <1>7, <1>8, <1>9, <1>10, <1>11, QuietStep DEF history

LEMMA FinishStep ==
  ASSUME IInv, NEW p \in Procs, Finish(p)
  PROVE  StepKeeps(p)
<1>1. /\ failed' = [failed EXCEPT ![p] = failed'[p]] /\ failed'[p] \in BOOLEAN
      /\ Forget(p) /\ pc' = [pc EXCEPT ![p] = "done"]
      /\ UNCHANGED <<files, revision, command, position, runs, faults, history>>
  BY DEF Finish, Goto, IInv, Typed
<1>2. Typed
  BY DEF IInv
<1>3. /\ cad' \in [Procs -> Contents \cup {None}] /\ model' \in [Procs -> Drafts \cup {None}]
      /\ update' \in [Procs -> Libs] /\ job' \in [Procs -> Jobs \cup {None}]
      /\ cad'[p] = None /\ IsSet(update'[p])
      /\ \A q \in Procs \ {p} : /\ cad'[q] = cad[q] /\ model'[q] = model[q]
                                /\ update'[q] = update[q] /\ job'[q] = job[q]
  BY <1>1, <1>2, Forgotten
<1>4. pc'[p] = "done"
  BY <1>1, <1>2 DEF Typed
<1>5. Typed'
  BY <1>1, <1>2, <1>3 DEF Typed, files, history, Pcs
<1>6. \A q \in Procs \ {p} : Still(q)
  BY <1>1, <1>2, <1>3 DEF Typed, Still, history
<1> QED BY <1>1, <1>3, <1>4, <1>5, <1>6, Ended, QuietStep DEF history

LEMMA DieStep ==
  ASSUME IInv, NEW p \in Procs, Die(p)
  PROVE  StepKeeps(p)
<1>1. /\ Forget(p) /\ pc' = [pc EXCEPT ![p] = "dead"]
      /\ UNCHANGED <<files, revision, command, position, failed, runs, history>>
  BY DEF Die, Goto
<1>2. Typed
  BY DEF IInv
<1>3. /\ cad' \in [Procs -> Contents \cup {None}] /\ model' \in [Procs -> Drafts \cup {None}]
      /\ update' \in [Procs -> Libs] /\ job' \in [Procs -> Jobs \cup {None}]
      /\ cad'[p] = None /\ IsSet(update'[p])
      /\ \A q \in Procs \ {p} : /\ cad'[q] = cad[q] /\ model'[q] = model[q]
                                /\ update'[q] = update[q] /\ job'[q] = job[q]
  BY <1>1, <1>2, Forgotten
<1>4. pc'[p] = "dead"
  BY <1>1, <1>2 DEF Typed
<1>5. Typed'
  BY <1>1, <1>2, <1>3 DEF Typed, files, history, Pcs
<1>6. \A q \in Procs \ {p} : Still(q)
  BY <1>1, <1>2, <1>3 DEF Typed, Still, history
<1> QED BY <1>1, <1>3, <1>4, <1>5, <1>6, Ended, QuietStep DEF history

LEMMA DieWritingStep ==
  ASSUME IInv, NEW p \in Procs, DieWriting(p)
  PROVE  StepKeeps(p)
<1>1. /\ pc[p] = "write" /\ Touch(p) /\ Forget(p) /\ pc' = [pc EXCEPT ![p] = "dead"]
      /\ UNCHANGED <<file, revision, command, position, failed, runs, readable,
                     hindered, lacking, since>>
  BY DEF DieWriting, Goto
<1>2. PICK n \in 0 .. Len(update[p].symbols) :
        lib' = [symbols |-> SubSeq(update[p].symbols, 1, n), state |-> "broken"]
  BY DEF DieWriting
<1>3. Typed /\ Active(p) /\ update[p] \in Libs /\ IsSet(update[p])
  BY <1>1 DEF IInv, Active, Typed, LibraryIsASet
<1>4. lib' \in Libs /\ IsSet(lib')
  <2> DEFINE all == update[p].symbols
             part == SubSeq(all, 1, n)
  <2>1. all \in Seq(Entries) /\ Len(all) \in Nat /\ \A k \in 1 .. Len(all) : all[k] \in Entries
    BY <1>3, LenProperties, ElementOfSeq DEF Libs
  <2>2. n \in Nat /\ n <= Len(all) /\ 1 \in Int /\ n \in Int
    BY <2>1
  <2>3. \A k \in 1 .. n : all[k] \in Entries
    BY <2>1, <2>2
  <2>4. Distinct(all)
    BY <1>3 DEF IsSet
  <2> HIDE DEF all
  <2>5. /\ part \in Seq(Entries)
        /\ Len(part) = IF 1 <= n THEN n - 1 + 1 ELSE 0
        /\ \A k \in 1 .. n - 1 + 1 : part[k] = all[1 + k - 1]
    BY <2>1, <2>2, <2>3, SubSeqProperties
  <2>6. Len(part) = n /\ \A k \in 1 .. n : part[k] = all[k]
    BY <2>2, <2>5
  <2>7. lib'.symbols = part /\ lib'.state = "broken"
    BY <1>2 DEF all
  <2>8. lib' \in Libs
    BY <1>2, <2>5 DEF Libs, all
  <2> HIDE DEF part
  <2>9. Distinct(part)
    BY <2>1, <2>2, <2>4, <2>6 DEF Distinct
  <2> QED BY <2>7, <2>8, <2>9 DEF IsSet
<1>5. /\ cad' \in [Procs -> Contents \cup {None}] /\ model' \in [Procs -> Drafts \cup {None}]
      /\ update' \in [Procs -> Libs] /\ job' \in [Procs -> Jobs \cup {None}]
      /\ cad'[p] = None /\ IsSet(update'[p])
      /\ \A q \in Procs \ {p} : /\ cad'[q] = cad[q] /\ model'[q] = model[q]
                                /\ update'[q] = update[q] /\ job'[q] = job[q]
  BY <1>1, <1>3, Forgotten
<1>6. /\ touched' \in [Procs -> BOOLEAN]
      /\ \A q \in Procs \ {p} : Active(q) => touched'[q] = TRUE
  BY <1>1, <1>3, TouchTells
<1>7. pc'[p] = "dead"
  BY <1>1, <1>3 DEF Typed
<1>8. Typed'
  BY <1>1, <1>3, <1>4, <1>5, <1>6 DEF Typed, Pcs
<1>9. CacheIsOfParts'
  BY <1>1 DEF IInv, CacheIsOfParts
<1>10. LibraryIsASet'
  BY <1>4, <1>5 DEF IInv, LibraryIsASet
<1>11. \A q \in Procs \ {p} : Beside(q)
  <2>1. \A q \in Procs \ {p} : Still(q)
    BY <1>1, <1>3, <1>5 DEF Typed, Still
  <2> QED BY <1>1, <1>3, <1>6, <2>1 DEF Beside, Typed
<1> QED BY <1>5, <1>7, <1>8, <1>9, <1>10, <1>11, Ended DEF StepKeeps

LEMMA StartStep ==
  ASSUME IInv, NEW p \in Procs, NEW c \in Commands, Start(p, c)
  PROVE  StepKeeps(p)
<1>1. /\ ~Active(p) /\ command' = [command EXCEPT ![p] = c]
      /\ position' = [position EXCEPT ![p] = 1] /\ failed' = [failed EXCEPT ![p] = FALSE]
      /\ touched' = [touched EXCEPT ![p] = FALSE]
      /\ readable' = [readable EXCEPT ![p] = lib.state \in {"absent", "whole"}]
      /\ hindered' = [hindered EXCEPT ![p] = FALSE] /\ lacking' = [lacking EXCEPT ![p] = {}]
      /\ since' = [since EXCEPT ![p] = revision] /\ pc' = [pc EXCEPT ![p] = "fetch"]
      /\ UNCHANGED <<files, revision, work, faults>>
  BY DEF Start, Goto, Active
<1>2. Typed /\ cad[p] = None
  BY <1>1 DEF IInv, Holds, HoldsCad
<1>3. /\ pc'[p] = "fetch" /\ command'[p] = c /\ position'[p] = 1 /\ failed'[p] = FALSE
      /\ touched'[p] = FALSE /\ lacking'[p] = {} /\ since'[p] = revision
      /\ readable'[p] = (lib.state \in {"absent", "whole"})
  BY <1>1, <1>2 DEF Typed
<1>4. Typed'
  <2>1. revision \in Nat /\ 1 \in Nat \ {0}
    BY <1>2 DEF Typed
  <2>2. (lib.state \in {"absent", "whole"}) \in BOOLEAN
    OBVIOUS
  <2> QED BY <1>1, <1>2, <2>1, <2>2 DEF Typed, files, work, Pcs
<1>5. CacheIsOfParts' /\ LibraryIsASet'
  BY <1>1 DEF IInv, CacheIsOfParts, LibraryIsASet, files, work
<1>6. \A q \in Procs \ {p} : Beside(q)
  <2>1. \A q \in Procs \ {p} : Still(q) /\ touched'[q] = touched[q]
    BY <1>1, <1>2 DEF Typed, Still, work
  <2> QED BY <1>1, <1>2, <2>1 DEF Beside, Typed, SameLibrary, files
<1>7. Holds(p)'
  <2>1. Len(c.ids) \in Nat /\ Len(c.ids) >= 1
    BY CommandFacts
  <2>2. Runs(p)'
    BY <1>1, <1>2, <1>3, <2>1 DEF Runs, Typed
  <2>3. HoldsCad(p)'
    BY <1>1, <1>2, <1>3 DEF HoldsCad, work
  <2>4. HoldsModel(p)' /\ HoldsJob(p)'
    BY <1>3 DEF HoldsModel, HoldsJob, ModelJob, ModelSteps, Writing
  <2> QED BY <2>2, <2>3, <2>4 DEF Holds
<1>8. Keeps(p)'
  BY <1>3 DEF Keeps, KeepsWhatExists, Writing
<1>9. Progress(p)'
  <2>1. Course(p)' => LibraryIsReady(p)'
    BY <1>1, <1>3 DEF Course, LibraryIsReady, files
  <2>2. /\ SymbolCount(p)' = 0 /\ FootprintCount(p)' = 0
        /\ SvgCount(p)' = 0 /\ ModelCount(p)' = 0
    BY <1>3 DEF SymbolCount, FootprintCount, SvgCount, ModelCount,
       SymbolDone, FootprintDone, SvgDone, Writing
  <2>3. SymbolsIn(p, 0)' /\ FootprintsIn(p, 0)' /\ DrawingsIn(p, 0)' /\ ModelsIn(p, 0)'
    BY DEF SymbolsIn, FootprintsIn, DrawingsIn, ModelsIn
  <2>4. HalfOfModel(p)'
    BY <1>3 DEF HalfOfModel, Writing
  <2> QED BY <2>1, <2>2, <2>3, <2>4 DEF Progress
<1> QED BY <1>4, <1>5, <1>6, <1>7, <1>8, <1>9 DEF StepKeeps

-----------------------------------------------------------------------------
(* The invariant.                                                          *)

LEMMA InitInv == Init => IInv
<1> SUFFICES ASSUME Init PROVE IInv
  OBVIOUS
<1>1. Typed
  BY EmptyTexts DEF Init, Typed, Keys, Pcs
<1>2. CacheIsOfParts
  BY FilesOfParts DEF Init, CacheIsOfParts, Keys
<1>3. LibraryIsASet
  BY EmptyTexts DEF Init, LibraryIsASet
<1>4. \A p \in Procs : pc[p] = "idle" /\ cad[p] = None
  BY DEF Init
<1>5. \A p \in Procs : Holds(p) /\ Keeps(p) /\ Progress(p)
  BY <1>4 DEF Holds, Runs, HoldsCad, HoldsModel, HoldsJob, Keeps, Progress, Course,
     Active, ModelSteps, ModelJob, Writing
<1> QED BY <1>1, <1>2, <1>3, <1>5 DEF IInv

\* What a step leaves to the others is enough for them.
LEMMA BesideIsEnough ==
  ASSUME IInv, Typed', NEW q \in Procs, Beside(q)
  PROVE  Holds(q)' /\ Keeps(q)' /\ Progress(q)'
<1>1. Holds(q) /\ Keeps(q) /\ Progress(q) /\ Typed
  BY DEF IInv
<1>2. Still(q) /\ revision <= revision'
  BY DEF Beside
<1>3. revision \in Nat /\ revision' \in Nat /\ since[q] \in Nat /\ position[q] \in Nat
  BY <1>1 DEF Typed
<1> QED BY <1>1, <1>2, <1>3, HoldsStays, KeepsStays, OthersProgress

LEMMA OneStep ==
  ASSUME IInv, NEW p \in Procs, StepKeeps(p)
  PROVE  IInv'
<1>1. /\ Typed' /\ CacheIsOfParts' /\ LibraryIsASet'
      /\ Holds(p)' /\ Keeps(p)' /\ Progress(p)'
      /\ \A q \in Procs \ {p} : Beside(q)
  BY DEF StepKeeps
<1>2. \A q \in Procs \ {p} : Holds(q)' /\ Keeps(q)' /\ Progress(q)'
  BY <1>1, BesideIsEnough
<1>3. \A q \in Procs : Holds(q)' /\ Keeps(q)' /\ Progress(q)'
  BY <1>1, <1>2
<1> QED BY <1>1, <1>3 DEF IInv

LEMMA PublishStep ==
  ASSUME IInv, Publish
  PROVE  IInv'
<1>1. /\ revision' = revision + 1
      /\ UNCHANGED <<files, pc, command, position, work, failed, runs, faults, history>>
  BY DEF Publish
<1>2. Typed /\ revision \in Nat
  BY DEF IInv, Typed
<1>3. Typed'
  BY <1>1, <1>2 DEF Typed, files, work, history
<1>4. CacheIsOfParts' /\ LibraryIsASet'
  BY <1>1 DEF IInv, CacheIsOfParts, LibraryIsASet, files, work
<1>5. \A q \in Procs : Beside(q)
  BY <1>1, <1>2 DEF Beside, Still, SameLibrary, files, work, history
<1>6. \A q \in Procs : Holds(q)' /\ Keeps(q)' /\ Progress(q)'
  BY <1>3, <1>5, BesideIsEnough
<1> QED BY <1>3, <1>4, <1>6 DEF IInv

LEMMA StepInv == IInv /\ [Next]_vars => IInv'
<1> SUFFICES ASSUME IInv, [Next]_vars PROVE IInv'
  OBVIOUS
<1>1. CASE Publish
  BY <1>1, PublishStep
<1>2. ASSUME NEW p \in Procs, Step(p) PROVE IInv'
  <2>1. ASSUME NEW kind \in {"obj", "stp"},
               LET next == IF kind = "obj" THEN "stp" ELSE "export"
               IN ModelCached(p, kind, next) \/ ModelMissing(p, kind, next)
                  \/ FetchModel(p, kind, next)
        PROVE  StepKeeps(p)
    <3>1. \/ ModelCached(p, kind, After(kind)) \/ ModelMissing(p, kind, After(kind))
          \/ FetchModel(p, kind, After(kind))
      BY <2>1 DEF After
    <3> QED BY <3>1, ModelCachedStep, ModelMissingStep, FetchModelStep
  <2>2. CASE FetchCached(p) \/ FetchFails(p) \/ Fetch(p)
    BY <2>2, FetchCachedStep, FetchFailsStep, FetchStep, OneStep
  <2>3. CASE CheckSymbol(p) \/ Insert(p) \/ Truncate(p) \/ Write(p)
    BY <2>3, CheckSymbolStep, InsertStep, TruncateStep, WriteStep, OneStep
  <2>4. CASE ExportFootprint(p) \/ ExportSvg(p) \/ StartModel(p)
    BY <2>4, ExportFootprintStep, ExportSvgStep, StartModelStep, OneStep
  <2>5. CASE ExportModel(p) \/ ExportStep(p)
    BY <2>5, ExportModelStep, ExportStepStep, OneStep
  <2>6. CASE Open(p) \/ Close(p) \/ CacheFails(p) \/ NextPart(p) \/ Finish(p)
    BY <2>6, OpenStep, CloseStep, CacheFailsStep, NextPartStep, FinishStep, OneStep
  <2>7. CASE Die(p) \/ DieWriting(p)
    BY <2>7, DieStep, DieWritingStep, OneStep
  <2> QED BY <1>2, <2>1, <2>2, <2>3, <2>4, <2>5, <2>6, <2>7, OneStep DEF Step
<1>3. ASSUME NEW p \in Procs, NEW c \in Commands, Start(p, c) PROVE IInv'
  BY <1>3, StartStep, OneStep
<1>4. CASE UNCHANGED vars
  <2>1. /\ UNCHANGED <<files, revision, pc, command, position, work, failed, history>>
    BY <1>4 DEF vars
  <2>2. Typed' /\ CacheIsOfParts' /\ LibraryIsASet'
    BY <2>1 DEF IInv, Typed, CacheIsOfParts, LibraryIsASet, files, work, history
  <2>3. \A q \in Procs : Beside(q)
    BY <2>1 DEF IInv, Typed, Beside, Still, SameLibrary, files, work, history
  <2>4. \A q \in Procs : Holds(q)' /\ Keeps(q)' /\ Progress(q)'
    BY <2>2, <2>3, BesideIsEnough
  <2> QED BY <2>2, <2>4 DEF IInv
<1> QED BY <1>1, <1>2, <1>3, <1>4 DEF Next

-----------------------------------------------------------------------------
(* What the invariant says at the end of a command.                        *)

LEMMA GreatestIs ==
  ASSUME NEW S, S \subseteq Nat, NEW n \in S, \A y \in S : y <= n
  PROVE  Max(S) = n
<1>1. \A y \in S : n >= y
  OBVIOUS
<1>2. Max(S) \in S /\ \A y \in S : Max(S) >= y
  BY <1>1 DEF Max
<1>3. Max(S) \in Nat /\ n \in Nat /\ Max(S) >= n /\ Max(S) <= n
  BY <1>2
<1> QED BY <1>3

\* The last part of a name among all parts of a command has the last word.
LEMMA LastWordIs ==
  ASSUME NEW p, command[p] \in Commands, NEW d, d = Len(command[p].ids), NEW i, NEW id
  PROVE  /\ IsLast(p, SymbolName, i, d, id) => id = LastWord(p, SymbolName, i)
         /\ IsLast(p, FootprintName, i, d, id) => id = LastWord(p, FootprintName, i)
<1> DEFINE ids == command[p].ids
<1>1. d \in Nat /\ d = Len(ids)
  BY CommandFacts
<1>2. ASSUME IsLast(p, SymbolName, i, d, id) PROVE id = LastWord(p, SymbolName, i)
  <2> DEFINE same == {k \in 1 .. Len(ids) : SymbolName(ids[k]) = SymbolName(i)}
  <2>1. PICK n \in 1 .. d : /\ id = ids[n] /\ SymbolName(id) = SymbolName(i)
                            /\ \A k \in (n + 1) .. d : SymbolName(ids[k]) # SymbolName(i)
    BY <1>2 DEF IsLast
  <2>2. same \subseteq Nat /\ n \in same /\ \A k \in same : k <= n
    BY <1>1, <2>1
  <2>3. LastWord(p, SymbolName, i) = ids[Max(same)]
    BY DEF LastWord
  <2> HIDE DEF same
  <2>4. Max(same) = n
    BY <2>2, GreatestIs
  <2> QED BY <2>1, <2>3, <2>4
<1>3. ASSUME IsLast(p, FootprintName, i, d, id) PROVE id = LastWord(p, FootprintName, i)
  <2> DEFINE same == {k \in 1 .. Len(ids) : FootprintName(ids[k]) = FootprintName(i)}
  <2>1. PICK n \in 1 .. d : /\ id = ids[n] /\ FootprintName(id) = FootprintName(i)
                            /\ \A k \in (n + 1) .. d : FootprintName(ids[k]) # FootprintName(i)
    BY <1>3 DEF IsLast
  <2>2. same \subseteq Nat /\ n \in same /\ \A k \in same : k <= n
    BY <1>1, <2>1
  <2>3. LastWord(p, FootprintName, i) = ids[Max(same)]
    BY DEF LastWord
  <2> HIDE DEF same
  <2>4. Max(same) = n
    BY <2>2, GreatestIs
  <2> QED BY <2>1, <2>3, <2>4
<1> QED BY <1>2, <1>3

\* A command that ends its last part without an error or another's help has
\* imported them all.
LEMMA FinishedIsImported ==
  ASSUME IInv, NEW p \in Procs, Finished(p), ~failed[p], ~touched[p], readable[p]
  PROVE  \A i \in Range(command[p].ids) : Imported(p, i)
<1> SUFFICES ASSUME NEW i \in Range(command[p].ids) PROVE Imported(p, i)
  OBVIOUS
<1>1. pc[p] = "next" /\ position[p] = Len(command[p].ids) /\ Active(p) /\ Course(p)
  BY DEF Finished, Active, Course
<1>2. command[p] \in Commands /\ Progress(p)
  BY <1>1, AtHand
<1>3. PICK d \in Nat : d = Len(command[p].ids)
  BY <1>2, CommandFacts
<1>4. PICK m \in 1 .. d : i = command[p].ids[m]
  <2>1. command[p].ids \in Seq(Ids)
    BY <1>2, CommandFacts
  <2> QED BY <1>3, <2>1, ElementsOfSeq
<1>5. i \in Ids /\ d > 0
  BY <1>2, <1>3, <1>4, CommandFacts
<1>6. /\ SymbolCount(p) = d /\ FootprintCount(p) = d /\ SvgCount(p) = d /\ ModelCount(p) = d
  BY <1>1, <1>3 DEF SymbolCount, FootprintCount, SvgCount, ModelCount, SymbolDone,
     FootprintDone, SvgDone, Writing
<1>7. /\ Wants(p, "symbol") => SymbolsIn(p, d)
      /\ Wants(p, "footprint") => FootprintsIn(p, d)
      /\ Wants(p, "svg") => DrawingsIn(p, d)
      /\ Wants(p, "3d") => ModelsIn(p, d)
  BY <1>1, <1>2, <1>6 DEF Progress
<1>8. Text(p) = lib /\ \A key : Shown(p, key) = file[key]
  BY <1>1 DEF Text, Shown
<1>9. ASSUME Wants(p, "symbol")
      PROVE  /\ lib.state = "whole"
             /\ \E s \in Range(lib.symbols) : s.name = SymbolName(i)
             /\ \A s \in Range(lib.symbols) : s.name = SymbolName(i) =>
                  s.id = LastWord(p, SymbolName, i) /\ Fresh(p, s)
  <2>1. lib.state = "whole" /\ HasSymbol(p, lib.symbols, i, d)
    BY <1>4, <1>5, <1>7, <1>8, <1>9 DEF SymbolsIn
  <2>2. \A s \in Range(lib.symbols) : s.name = SymbolName(i) =>
          Fresh(p, s) /\ IsLast(p, SymbolName, i, d, s.id)
    BY <2>1 DEF HasSymbol
  <2>3. \A s : IsLast(p, SymbolName, i, d, s.id) => s.id = LastWord(p, SymbolName, i)
    BY <1>2, <1>3, LastWordIs
  <2> QED BY <2>1, <2>2, <2>3 DEF HasSymbol
<1>10. ASSUME Wants(p, "footprint")
       PROVE  /\ Written(FootprintKey(i)) /\ Fresh(p, file[FootprintKey(i)])
              /\ file[FootprintKey(i)].id = LastWord(p, FootprintName, i)
  <2>1. /\ file[FootprintKey(i)] # None /\ file[FootprintKey(i)].whole
        /\ Fresh(p, file[FootprintKey(i)])
        /\ IsLast(p, FootprintName, i, d, file[FootprintKey(i)].id)
    BY <1>4, <1>7, <1>8, <1>10 DEF FootprintsIn
  <2> QED BY <1>2, <1>3, <2>1, LastWordIs DEF Written
<1>11. ASSUME Wants(p, "svg")
       PROVE  /\ Written(<<"svg", i>>) /\ Fresh(p, file[<<"svg", i>>])
              /\ file[<<"svg", i>>].id = i
  BY <1>4, <1>7, <1>8, <1>11 DEF DrawingsIn, Written
<1>12. ASSUME Wants(p, "3d"), Parts[i].model # None, lacking[p] = {},
              NEW kind \in {"wrl", "step"}
       PROVE  /\ Written(<<kind, Parts[i].model>>)
              /\ command[p].cached \/ file[<<kind, Parts[i].model>>].sound
  BY <1>4, <1>7, <1>8, <1>12 DEF ModelsIn, ModelIn, Sound, Written
<1> QED BY <1>9, <1>10, <1>11, <1>12 DEF Imported, Wants, FootprintKey

-----------------------------------------------------------------------------
(* The theorems.                                                           *)

LEMMA Invariance == Spec => []IInv
  BY InitInv, StepInv, PTL DEF Spec

\* Whatever the commands, their parts and the faults, every file is absent or
\* made from a part, every library is a list of symbols of parts, and a command
\* holds only data of its kind (__main__.py, easyeda_api.py, the exporters).
THEOREM TypesAreKept == Spec => []Typed
<1>1. IInv => Typed
  BY DEF IInv
<1> QED BY <1>1, Invariance, PTL

\* No command takes a torn cache file, or the data of another part, for the
\* CAD data of the part at hand, for any number of commands that die while they
\* fill the cache or fill it at the same time (easyeda_api.py:218-262).
THEOREM TornDataAreRefused == Spec => []CadDataIsWhole
<1>1. IInv => CadDataIsWhole
  BY DEF IInv, CadDataIsWhole, Holds, HoldsCad
<1> QED BY <1>1, Invariance, PTL

\* Without --overwrite a command that no other disturbs opens no artifact that
\* exists and keeps every symbol of the library, for any number of parts that
\* share names and models (export_kicad_3d_model.py:268,
\* export_kicad_symbol.py:706).
THEOREM ExistingWorkIsKept == Spec => []NothingIsReplaced
<1>1. IInv => NothingIsReplaced
  <2> SUFFICES ASSUME IInv, NEW p \in Procs, command[p] # None, ~Replaces(p), ~touched[p]
               PROVE  /\ pc[p] = "open" /\ job[p].key \in Artifacts /\ job[p].key[1] # "svg"
                           => file[job[p].key] = None
                      /\ pc[p] = "truncate" =>
                           Range(lib.symbols) \subseteq Range(update[p].symbols)
    BY DEF NothingIsReplaced
  <2>1. pc[p] \in {"open", "truncate"} => KeepsWhatExists(p)
    BY DEF IInv, Keeps, Active
  <2>2. ASSUME pc[p] = "open", job[p].key \in Artifacts, job[p].key[1] # "svg"
        PROVE  file[job[p].key] = None
    <3>1. Kind(p) \in {"footprint", "wrl", "step"}
      BY <2>2 DEF Kind, Artifacts
    <3> QED BY <2>1, <2>2, <3>1 DEF KeepsWhatExists
  <2> QED BY <2>1, <2>2 DEF KeepsWhatExists
<1> QED BY <1>1, Invariance, PTL

\* A command that reports no error, was not disturbed by another and found a
\* library that can be read has imported every one of its parts, for any number
\* of parts and whatever earlier commands left.  For 3D models it says so of a
\* command none of whose parts lacked model data: data that are refused, empty in
\* the cache or without materials are no error (__main__.py:2445-2460).
THEOREM NoErrorMeansImported == Spec => []SuccessIsImported
<1>1. IInv => SuccessIsImported
  BY FinishedIsImported DEF SuccessIsImported
<1> QED BY <1>1, Invariance, PTL

\* With --overwrite nothing but refused or unsafe data is an error, so that a
\* second command makes good whatever a dead one left, for any number of parts
\* and of files left half done; 3D models if no part lacked model data, which a
\* cached file that a dead command left empty is (__main__.py:1235-1334).
THEOREM OverwritingImports == Spec => []OverwriteRepairs
<1>1. IInv => OverwriteRepairs
  <2> SUFFICES ASSUME IInv, NEW p \in Procs, Finished(p), command[p].overwrite,
                      ~hindered[p], ~touched[p], readable[p]
               PROVE  \A i \in Range(command[p].ids) : Imported(p, i)
    BY DEF OverwriteRepairs
  <2>1. Active(p)
    BY DEF Finished, Active
  <2>2. ~failed[p]
    BY <2>1 DEF IInv, Holds, Runs, Replaces
  <2> QED BY <2>2, FinishedIsImported
<1> QED BY <1>1, Invariance, PTL


-----------------------------------------------------------------------------
(* Lengths on the grid, and ink that is moved.                             *)

LEMMA DivisionTheorem ==
    ASSUME NEW d \in Nat \ {0}, NEW n \in Int
    PROVE  n = d * (n \div d) + (n % d)
  OBVIOUS

LEMMA MultipleDivides ==
    ASSUME NEW d \in Nat \ {0}, NEW a \in Int
    PROVE  (a * d) \div d = a /\ (a * d) % d = 0
  <1>1. a * d \in Int
    OBVIOUS
  <1>2. (a * d) \div d \in Int /\ (a * d) % d \in 0..d - 1
    BY <1>1
  <1>3. a * d = d * ((a * d) \div d) + ((a * d) % d)
    BY <1>1, DivisionTheorem
  <1> DEFINE q == (a * d) \div d  r == (a * d) % d
  <1> HIDE DEF q, r
  <1>4. q \in Int /\ r \in Int /\ 0 <= r /\ r < d /\ a * d = d * q + r
    BY <1>2, <1>3 DEF q, r
  <1>5. d * (a - q) = r
    BY <1>4
  <1>6. a - q = 0
    <2>1. CASE a - q >= 1
      <3>1. d * (a - q) >= d
        BY <2>1, <1>4
      <3> QED  BY <3>1, <1>5, <1>4
    <2>2. CASE a - q <= -1
      <3>1. d * (a - q) <= -d
        BY <2>2, <1>4
      <3> QED  BY <3>1, <1>5, <1>4
    <2> QED  BY <2>1, <2>2, <1>4
  <1>7. r = 0
    BY <1>4, <1>5, <1>6
  <1> QED  BY <1>4, <1>6, <1>7 DEF q, r

LEMMA RoundOfMultiple ==
    ASSUME NEW a \in Int
    PROVE  Round(a * Grid, Grid) = a
  BY GridAssumption, MultipleDivides DEF Round

LEMMA MovedInk ==
    ASSUME NEW what, NEW ends, NEW via, NEW tag, NEW o
    PROVE  Flipped(Ink(what, ends, via, tag), o) =
             Ink(what, {Rel(p, o) : p \in ends}, [i \in DOMAIN via |-> Rel(via[i], o)], tag)
  BY DEF Flipped, Moved, Ink

-----------------------------------------------------------------------------
(* Paths: what convert_ee_paths traces is what SVG draws.                  *)

LEMMA NatSetInduction ==
    ASSUME NEW S, 0 \in S, \A n \in Nat : n \in S => n + 1 \in S
    PROVE  Nat \subseteq S
  <1> SUFFICES ASSUME Nat \ S # {} PROVE FALSE
    OBVIOUS
  <1>1. PICK n \in Nat \ S : \A m \in Nat \ S : <<m, n>> \notin OpToRel(<, Nat)
    BY NatLessThanWellFounded, WFMin
  <1>2. \A m \in Nat \ S : ~(m < n)
    BY <1>1 DEF OpToRel
  <1>3. n \in Nat /\ n \notin S /\ n # 0
    OBVIOUS
  <1>4. n - 1 \in Nat /\ n - 1 < n /\ (n - 1) + 1 = n
    BY <1>3
  <1>5. n - 1 \in S
    BY <1>2, <1>4
  <1> QED  BY <1>3, <1>4, <1>5

IsLoop(f, S, s0, M, G) ==
    /\ f \in [0..M -> S] /\ f[0] = s0
    /\ \A n \in 1..M : f[n] = G[<<f[n - 1], n>>]

\* A loop of M rounds, round n of which takes state s to G[<<s, n>>], goes

\* through some states.
LEMMA LoopExists ==
    ASSUME NEW S, NEW s0 \in S, NEW M \in Nat, NEW G \in [S \X (1..M) -> S]
    PROVE  \E f : IsLoop(f, S, s0, M, G)
  <1> DEFINE T == {m \in Nat : m <= M => \E f : IsLoop(f, S, s0, m, G)}
  <1>1. 0 \in T
    <2>1. [n \in 0..0 |-> s0] \in [0..0 -> S] /\ \A n \in 0..0 : [m \in 0..0 |-> s0][n] = s0
      OBVIOUS
    <2>2. IsLoop([n \in 0..0 |-> s0], S, s0, 0, G)
      BY <2>1 DEF IsLoop
    <2> QED  BY <2>2
  <1>2. ASSUME NEW m \in Nat, m \in T PROVE m + 1 \in T
    <2> SUFFICES ASSUME m + 1 <= M PROVE \E f : IsLoop(f, S, s0, m + 1, G)
      OBVIOUS
    <2>1. PICK f : IsLoop(f, S, s0, m, G)
      BY <1>2
    <2> USE DEF IsLoop
    <2> DEFINE g == [n \in 0..m + 1 |-> IF n = m + 1 THEN G[<<f[m], m + 1>>] ELSE f[n]]
    <2>2. <<f[m], m + 1>> \in S \X (1..M) /\ G[<<f[m], m + 1>>] \in S
      BY <2>1
    <2>3. g \in [0..m + 1 -> S]
      BY <2>1, <2>2
    <2>4. g[0] = s0
      BY <2>1
    <2>5. g[m + 1] = G[<<f[m], m + 1>>] /\ \A n \in 0..m : g[n] = f[n]
      OBVIOUS
    <2> HIDE DEF g
    <2>6. ASSUME NEW n \in 1..m + 1 PROVE g[n] = G[<<g[n - 1], n>>]
      <3>1. CASE n = m + 1
        <4>1. n - 1 = m /\ m \in 0..m
          BY <3>1
        <4> QED  BY <3>1, <4>1, <2>5
      <3>2. CASE n # m + 1
        <4>1. n \in 1..m /\ n \in 0..m /\ n - 1 \in 0..m
          BY <3>2
        <4> QED  BY <4>1, <2>1, <2>5
      <3> QED  BY <3>1, <3>2
    <2> QED  BY <2>3, <2>4, <2>6
  <1> HIDE DEF T
  <1>3. M \in T
    BY <1>1, <1>2, NatSetInduction
  <1> QED  BY <1>3 DEF T

PathStates ==
    [poly : Seq(Points), cur : Points, first : Points \cup {Nothing},
     polygons : Seq(Seq(Points)), beziers : Seq(Seq(Points))]

LEMMA FlushIsTyped ==
    ASSUME NEW s \in PathStates
    PROVE  Flush(s) \in PathStates
  <1>1. s.poly \in Seq(Points) /\ s.polygons \in Seq(Seq(Points))
    BY DEF PathStates
  <1>2. Append(s.polygons, s.poly) \in Seq(Seq(Points)) /\ <<>> \in Seq(Points)
    BY <1>1
  <1> QED  BY <1>1, <1>2 DEF Flush, PathStates

LEMMA BezierIsTyped ==
    ASSUME NEW s \in PathStates, NEW c1 \in Points, NEW c2 \in Points, NEW to \in Points
    PROVE  Bezier(s, c1, c2, to) \in PathStates
  <1>1. Flush(s) \in PathStates
    BY FlushIsTyped
  <1>2. <<s.cur, c1, c2, to>> \in Seq(Points) /\ <<to>> \in Seq(Points)
    BY DEF PathStates
  <1>3. Flush(s).beziers \in Seq(Seq(Points))
    BY <1>1 DEF PathStates
  <1>4. Append(Flush(s).beziers, <<s.cur, c1, c2, to>>) \in Seq(Seq(Points))
    BY <1>2, <1>3
  <1> QED  BY <1>1, <1>2, <1>4 DEF Bezier, PathStates

LEMMA ElevatedIsPoint ==
    ASSUME NEW p \in Points, NEW q \in Points
    PROVE  Elevated(p, q) \in Points
  BY DEF Points, Elevated

LEMMA CommandIsTyped ==
    ASSUME NEW s \in PathStates, NEW c, PathCommand(c)
    PROVE  Command(s, c) \in PathStates
  <1> USE DEF PathCommand
  <1>0. s.cur \in Points /\ s.poly \in Seq(Points)
    BY DEF PathStates
  <1>1. CASE c.cmd \in {"M", "L"}
    <2>1. Append(s.poly, c.to) \in Seq(Points)
      BY <1>0
    <2> QED  BY <1>1, <2>1 DEF Command, PathStates
  <1>2. CASE c.cmd = "Z"
    <2>1. CASE s.poly # <<>> /\ s.first # Nothing
      <3>1. s.first \in Points
        BY <2>1 DEF PathStates
      <3>2. Append(s.poly, s.first) \in Seq(Points)
        BY <1>0, <3>1
      <3>3. Command(s, c) = [s EXCEPT !.poly = Append(s.poly, s.first)]
        BY <1>2, <2>1 DEF Command
      <3> QED  BY <3>2, <3>3 DEF PathStates
    <2>2. CASE ~(s.poly # <<>> /\ s.first # Nothing)
      BY <1>2, <2>2 DEF Command
    <2> QED  BY <2>1, <2>2
  <1>3. CASE c.cmd = "C"
    <2>1. c.via[1] \in Points /\ c.via[2] \in Points
      BY <1>3
    <2> QED  BY <1>3, <2>1, BezierIsTyped DEF Command
  <1>4. CASE c.cmd = "Q"
    <2>1. c.via[1] \in Points
      BY <1>4
    <2>2. Elevated(s.cur, c.via[1]) \in Points /\ Elevated(c.to, c.via[1]) \in Points
      BY <1>0, <2>1, ElevatedIsPoint
    <2>3. Command(s, c) = Bezier(s, Elevated(s.cur, c.via[1]), Elevated(c.to, c.via[1]), c.to)
      BY <1>4 DEF Command
    <2> QED  BY <2>2, <2>3, BezierIsTyped
  <1>5. CASE c.cmd \notin {"M", "L", "Z", "C", "Q"}
    BY <1>5 DEF Command
  <1> QED  BY <1>1, <1>2, <1>3, <1>4, <1>5

LEMMA PathIsTraced ==
    ASSUME NEW cmds, cmds \in Seq(Range(cmds)), \A c \in Range(cmds) : PathCommand(c)
    PROVE  /\ Traced(cmds) \in [0..Len(cmds) -> PathStates]
           /\ Traced(cmds)[0] = PathStart
           /\ \A n \in 1..Len(cmds) : Traced(cmds)[n] = Command(Traced(cmds)[n - 1], cmds[n])
  <1> DEFINE N == Len(cmds)
             F == [x \in PathStates \X (1..N) |-> Command(x[1], cmds[x[2]])]
  <1>1. N \in Nat /\ \A n \in 1..N : PathCommand(cmds[n])
    <2>1. N \in Nat /\ DOMAIN cmds = 1..N
      BY LenProperties
    <2> QED  BY <2>1 DEF Range
  <1>2. F \in [PathStates \X (1..N) -> PathStates]
    <2>1. ASSUME NEW x \in PathStates \X (1..N) PROVE Command(x[1], cmds[x[2]]) \in PathStates
      <3>1. x[1] \in PathStates /\ x[2] \in 1..N
        OBVIOUS
      <3>2. PathCommand(cmds[x[2]])
        BY <1>1, <3>1
      <3> HIDE DEF N
      <3> QED  BY <3>1, <3>2, CommandIsTyped
    <2> QED  BY <2>1
  <1>3. PathStart \in PathStates
    BY DEF PathStart, PathStates, Points
  <1> HIDE DEF F
  <1> HIDE DEF N
  <1>4. PICK f : IsLoop(f, PathStates, PathStart, N, F)
    BY <1>1, <1>2, <1>3, LoopExists
  <1> USE DEF N, IsLoop
  <1>5. ASSUME NEW n \in 1..N PROVE f[n] = Command(f[n - 1], cmds[n])
    <2>1. n - 1 \in 0..N /\ f[n - 1] \in PathStates
      BY <1>1, <1>4
    <2>2. F[<<f[n - 1], n>>] = Command(f[n - 1], cmds[n])
      BY <2>1 DEF F
    <2> QED  BY <1>4, <2>2
  <1>6. f = [n \in 0..N |-> IF n = 0 THEN PathStart ELSE Command(f[n - 1], cmds[n])]
    <2>1. \A n \in 0..N : n = 0 \/ n \in 1..N
      BY <1>1
    <2> QED  BY <1>4, <1>5, <2>1
  <1>7. Traced(cmds) = [n \in 0..N |-> IF n = 0 THEN PathStart ELSE Command(Traced(cmds)[n - 1], cmds[n])]
    BY <1>6 DEF Traced
  <1> HIDE DEF N, IsLoop
  <1>9. Traced(cmds)[0] = PathStart
    BY <1>1, <1>7
  <1>10. ASSUME NEW n \in 1..N PROVE Traced(cmds)[n] = Command(Traced(cmds)[n - 1], cmds[n])
    BY <1>1, <1>7
  <1> DEFINE OK(n) == Traced(cmds)[n] \in PathStates
  <1>11. \A n \in Nat : n \in {m \in Nat : m \in 0..N => OK(m)} => n + 1 \in {m \in Nat : m \in 0..N => OK(m)}
    <2> SUFFICES ASSUME NEW n \in Nat, n + 1 \in 0..N, OK(n)
                 PROVE  OK(n + 1)
      BY <1>1
    <2>1. Traced(cmds)[n + 1] = Command(Traced(cmds)[(n + 1) - 1], cmds[n + 1])
      BY <1>1, <1>10
    <2>2. (n + 1) - 1 = n /\ n + 1 \in 1..N
      BY <1>1
    <2> QED  BY <1>1, <2>1, <2>2, CommandIsTyped
  <1>12. 0 \in {m \in Nat : m \in 0..N => OK(m)}
    BY <1>3, <1>9
  <1>13. \A n \in 0..N : OK(n)
    <2> DEFINE T == {m \in Nat : m \in 0..N => OK(m)}
    <2> HIDE DEF T
    <2>1. Nat \subseteq T
      BY <1>11, <1>12, NatSetInduction DEF T
    <2> QED  BY <2>1, <1>1 DEF T
  <1>14. Traced(cmds) \in [0..N -> PathStates]
    BY <1>7, <1>13
  <1> QED  BY <1>9, <1>10, <1>14 DEF N

Curves(s) == UNION {CurveInk(b) : b \in Range(s.beziers)}

\* What a path has left on the canvas so far.
Inked(s) ==
    (UNION {Strokes(pts, Nothing) : pts \in Range(s.polygons)})
    \cup Strokes(s.poly, Nothing) \cup Curves(s)

LEMMA StrokesOfAppend ==
    ASSUME NEW S, NEW s \in Seq(S), s # <<>>, NEW p, NEW tag
    PROVE  Strokes(Append(s, p), tag) = Strokes(s, tag) \cup Line(s[Len(s)], p, tag)
  <1> DEFINE t == Append(s, p)
             n == Len(s)
  <1>1. /\ n \in Nat \ {0} /\ Len(t) = n + 1 /\ t[n + 1] = p
        /\ \A i \in 1..n : t[i] = s[i]
    <2>1. s \in Seq(S \cup {p}) /\ p \in S \cup {p} /\ Len(s) \in Nat /\ Len(s) # 0
      BY EmptySeq, LenProperties
    <2> QED  BY <2>1, AppendProperties
  <1>2. Strokes(s, tag) = UNION {Line(s[i], s[i + 1], tag) : i \in 1..n - 1}
    BY DEF Strokes
  <1> HIDE DEF t, n
  <1>3. Strokes(t, tag) = UNION {Line(t[i], t[i + 1], tag) : i \in 1..n}
    BY <1>1 DEF Strokes
  <1>4. \A i \in 1..n - 1 : i \in 1..n /\ Line(t[i], t[i + 1], tag) = Line(s[i], s[i + 1], tag)
    BY <1>1
  <1>5. Line(t[n], t[n + 1], tag) = Line(s[n], p, tag) /\ n \in 1..n
    BY <1>1
  <1>6. \A i \in 1..n : i \in 1..n - 1 \/ i = n
    BY <1>1
  <1>7. Strokes(t, tag) = Strokes(s, tag) \cup Line(s[n], p, tag)
    BY <1>2, <1>3, <1>4, <1>5, <1>6
  <1> QED  BY <1>7 DEF t, n

LEMMA ShortHasNoStrokes ==
    ASSUME NEW s, Len(s) < 2, Len(s) \in Nat, NEW tag
    PROVE  Strokes(s, tag) = {}
  <1>1. 1..Len(s) - 1 = {}
    OBVIOUS
  <1> QED  BY <1>1 DEF Strokes

LEMMA RangeOfAppend ==
    ASSUME NEW S, NEW s \in Seq(S), NEW x
    PROVE  Range(Append(s, x)) = Range(s) \cup {x}
  <1>1. s \in Seq(S \cup {x}) /\ x \in S \cup {x} /\ Len(s) \in Nat /\ DOMAIN s = 1..Len(s)
    BY LenProperties
  <1>2. /\ DOMAIN Append(s, x) = 1..Len(s) + 1 /\ Append(s, x)[Len(s) + 1] = x
        /\ \A i \in 1..Len(s) : Append(s, x)[i] = s[i]
    BY <1>1, AppendProperties
  <1> HIDE <1>1
  <1>3. Len(s) \in Nat /\ DOMAIN s = 1..Len(s)
    BY <1>1
  <1>4. \A i : i \in 1..Len(s) + 1 <=> i \in 1..Len(s) \/ i = Len(s) + 1
    BY <1>3
  <1> QED  BY <1>2, <1>3, <1>4 DEF Range

LEMMA FlushKeepsInk ==
    ASSUME NEW s \in PathStates
    PROVE  /\ Inked(Flush(s)) = Inked(s)
           /\ Inked(s) = (UNION {Strokes(pts, Nothing) : pts \in Range(Flush(s).polygons)})
                         \cup (UNION {CurveInk(b) : b \in Range(Flush(s).beziers)})
  <1>1. s.poly \in Seq(Points) /\ s.polygons \in Seq(Seq(Points))
    BY DEF PathStates
  <1>2. Flush(s).poly = <<>> /\ Flush(s).beziers = s.beziers
    BY DEF Flush, PathStates
  <1>3. Strokes(<<>>, Nothing) = {}
    BY ShortHasNoStrokes
  <1>4. (UNION {Strokes(pts, Nothing) : pts \in Range(Flush(s).polygons)})
          = (UNION {Strokes(pts, Nothing) : pts \in Range(s.polygons)}) \cup Strokes(s.poly, Nothing)
    <2>1. CASE Len(s.poly) >= 2
      <3>1. Flush(s).polygons = Append(s.polygons, s.poly)
        BY <2>1 DEF Flush, PathStates
      <3>2. Range(Flush(s).polygons) = Range(s.polygons) \cup {s.poly}
        BY <3>1, <1>1, RangeOfAppend
      <3> QED  BY <3>2
    <2>2. CASE ~(Len(s.poly) >= 2)
      <3>1. Flush(s).polygons = s.polygons
        BY <2>2 DEF Flush, PathStates
      <3>2. Len(s.poly) \in Nat
        BY <1>1, LenProperties
      <3>3. Strokes(s.poly, Nothing) = {}
        BY <2>2, <3>2, ShortHasNoStrokes
      <3> QED  BY <3>1, <3>3
    <2> QED  BY <2>1, <2>2
  <1> QED  BY <1>2, <1>3, <1>4 DEF Inked, Curves

LEMMA BezierInk ==
    ASSUME NEW s \in PathStates, NEW c1, NEW c2, NEW to
    PROVE  Inked(Bezier(s, c1, c2, to))
             = Inked(s) \cup CurveInk(<<s.cur, c1, c2, to>>)
  <1> DEFINE f == Flush(s)  b == Bezier(s, c1, c2, to)
  <1>1. f \in PathStates
    BY FlushIsTyped
  <1>2. /\ b.polygons = f.polygons /\ b.poly = <<to>>
        /\ b.beziers = Append(f.beziers, <<s.cur, c1, c2, to>>)
    BY <1>1 DEF Bezier, PathStates
  <1>3. f.beziers \in Seq(Seq(Points)) /\ f.poly = <<>>
    BY <1>1 DEF Flush, PathStates
  <1>4. Range(b.beziers) = Range(f.beziers) \cup {<<s.cur, c1, c2, to>>}
    BY <1>2, <1>3, RangeOfAppend
  <1>5. Len(b.poly) \in Nat /\ Len(b.poly) < 2 /\ Len(f.poly) \in Nat /\ Len(f.poly) < 2
    <2>1. Len(b.poly) = 1 /\ Len(f.poly) = 0
      BY <1>2, <1>3
    <2> QED  BY <2>1
  <1>6. Curves(b) = Curves(f) \cup CurveInk(<<s.cur, c1, c2, to>>)
    <2> HIDE DEF b, f
    <2> QED  BY <1>4 DEF Curves
  <1>7. Inked(f) = Inked(s)
    BY FlushKeepsInk
  <1> HIDE DEF b, f
  <1>8. Strokes(b.poly, Nothing) = {} /\ Strokes(f.poly, Nothing) = {}
    BY <1>5, ShortHasNoStrokes
  <1>9. b.polygons = f.polygons
    BY <1>2
  <1>10. Inked(b) = Inked(f) \cup CurveInk(<<s.cur, c1, c2, to>>)
    BY <1>6, <1>8, <1>9 DEF Inked
  <1> QED  BY <1>7, <1>10 DEF b

LEMMA ElevatedIsMix ==
    ASSUME NEW p \in Points, NEW q \in Points
    PROVE  Elevated(p, q) = Mix(p, q)
  <1>1. p[1] \in Int /\ p[2] \in Int /\ q[1] \in Int /\ q[2] \in Int
    BY DEF Points
  <1>2. \A a, b \in Int : a + (2 * (b - a)) \div 3 = (a + 2 * b) \div 3
    OBVIOUS
  <1> QED  BY <1>1, <1>2 DEF Elevated, Mix

\* A command of a path draws its segment from where the last one ended.

LEMMA CommandDraws ==
    ASSUME NEW s \in PathStates, NEW c, PathCommand(c), c.cmd \in {"L", "Z", "C", "Q"},
           NEW pen \in Points, s.poly # <<>>, s.poly[Len(s.poly)] = pen,
           s.first \in Points, c.cmd \in {"C", "Q"} => s.cur = pen
    PROVE  /\ Inked(Command(s, c)) = Inked(s) \cup Segment(pen, s.first, c)
           /\ Command(s, c).poly # <<>> /\ Command(s, c).first = s.first
           /\ Command(s, c).poly[Len(Command(s, c).poly)] = IF c.cmd = "Z" THEN s.first ELSE c.to
           /\ c.cmd # "Z" => Command(s, c).cur = c.to
  <1> DEFINE t == Command(s, c)
  <1>1. s.poly \in Seq(Points) /\ s.cur \in Points /\ c.to \in Points /\ s.first # Nothing
    BY UnitAssumption DEF PathStates, PathCommand
  <1>2. ASSUME NEW p \in Points, t = [s EXCEPT !.poly = Append(s.poly, p), !.cur = t.cur]
        PROVE  /\ Inked(t) = Inked(s) \cup Line(pen, p, Nothing)
               /\ t.poly # <<>> /\ t.first = s.first /\ t.poly[Len(t.poly)] = p
    <2>1. /\ t.poly = Append(s.poly, p) /\ t.first = s.first
          /\ t.polygons = s.polygons /\ t.beziers = s.beziers
      BY <1>2 DEF PathStates
    <2> HIDE DEF t
    <2>2. Strokes(t.poly, Nothing) = Strokes(s.poly, Nothing) \cup Line(pen, p, Nothing)
      BY <1>1, <2>1, StrokesOfAppend
    <2>3. t.poly # <<>> /\ t.poly[Len(t.poly)] = p
      BY <1>1, <2>1, AppendProperties
    <2>4. Curves(t) = Curves(s)
      BY <2>1 DEF Curves
    <2>5. Inked(t) = Inked(s) \cup Line(pen, p, Nothing)
      BY <2>1, <2>2, <2>4 DEF Inked
    <2> QED  BY <2>1, <2>3, <2>5
  <1>3. ASSUME NEW c1, NEW c2, t = Bezier(s, c1, c2, c.to), s.cur = pen
        PROVE  /\ Inked(t) = Inked(s) \cup CurveInk(<<pen, c1, c2, c.to>>)
               /\ t.poly # <<>> /\ t.first = s.first /\ t.poly[Len(t.poly)] = c.to /\ t.cur = c.to
    <2>1. t.poly = <<c.to>> /\ t.first = s.first /\ t.cur = c.to
      BY <1>3 DEF Bezier, Flush, PathStates
    <2>2. Inked(t) = Inked(s) \cup CurveInk(<<pen, c1, c2, c.to>>)
      BY <1>3, BezierInk
    <2> HIDE DEF t
    <2>3. t.poly # <<>> /\ t.poly[Len(t.poly)] = c.to
      BY <2>1
    <2> QED  BY <2>1, <2>2, <2>3
  <1>4. CASE c.cmd = "L"
    <2>1. t = [s EXCEPT !.poly = Append(s.poly, c.to), !.cur = c.to]
      BY <1>4 DEF Command, PathStates
    <2>2. t.cur = c.to
      BY <2>1 DEF PathStates
    <2>3. t = [s EXCEPT !.poly = Append(s.poly, c.to), !.cur = t.cur]
      BY <2>1, <2>2
    <2>4. Segment(pen, s.first, c) = Line(pen, c.to, Nothing)
      BY <1>4 DEF Segment
    <2> QED  BY <1>1, <1>2, <1>4, <2>2, <2>3, <2>4
  <1>5. CASE c.cmd = "Z"
    <2>1. t = [s EXCEPT !.poly = Append(s.poly, s.first)]
      BY <1>1, <1>5 DEF Command
    <2>2. t.cur = s.cur
      BY <2>1 DEF PathStates
    <2>3. t = [s EXCEPT !.poly = Append(s.poly, s.first), !.cur = t.cur]
      BY <2>1, <2>2 DEF PathStates
    <2>4. Segment(pen, s.first, c) = Line(pen, s.first, Nothing)
      BY <1>5 DEF Segment
    <2> QED  BY <1>2, <1>5, <2>3, <2>4
  <1>6. CASE c.cmd = "C"
    <2>1. t = Bezier(s, c.via[1], c.via[2], c.to)
      BY <1>6 DEF Command
    <2>2. Segment(pen, s.first, c) = CurveInk(<<pen, c.via[1], c.via[2], c.to>>)
      BY <1>6 DEF Segment, CurveInk
    <2> QED  BY <1>3, <1>6, <2>1, <2>2
  <1>7. CASE c.cmd = "Q"
    <2>1. t = Bezier(s, Elevated(s.cur, c.via[1]), Elevated(c.to, c.via[1]), c.to)
      BY <1>7 DEF Command
    <2>2. c.via[1] \in Points
      BY <1>7 DEF PathCommand
    <2>3. Elevated(s.cur, c.via[1]) = Mix(pen, c.via[1]) /\ Elevated(c.to, c.via[1]) = Mix(c.to, c.via[1])
      BY <1>1, <1>7, <2>2, ElevatedIsMix
    <2>4. Segment(pen, s.first, c)
            = CurveInk(<<pen, Mix(pen, c.via[1]), Mix(c.to, c.via[1]), c.to>>)
      BY <1>7 DEF Segment, CurveInk
    <2> QED  BY <1>3, <1>7, <2>1, <2>3, <2>4
  <1> QED  BY <1>4, <1>5, <1>6, <1>7

\* After each command the loop has drawn the segments so far.

\* After all its commands, a path of one subpath has left its segments.
LEMMA PathIsDrawn ==
    ASSUME NEW cmds, cmds \in Seq(Range(cmds)), \A c \in Range(cmds) : PathCommand(c),
           Simple(cmds)
    PROVE  /\ Traced(cmds)[Len(cmds)] \in PathStates
           /\ Inked(Traced(cmds)[Len(cmds)]) = Segments(cmds)
  <1> DEFINE N == Len(cmds)
             t == Traced(cmds)
             Piece(i) == Segment(Pen(cmds, i), cmds[1].to, cmds[i])
             OK(n) == /\ t[n].poly # <<>> /\ t[n].first = cmds[1].to
                      /\ t[n].poly[Len(t[n].poly)] = IF cmds[n].cmd = "Z" THEN cmds[1].to ELSE cmds[n].to
                      /\ cmds[n].cmd # "Z" => t[n].cur = cmds[n].to
                      /\ Inked(t[n]) = UNION {Piece(i) : i \in 2..n}
  <1>1. /\ N \in Nat \ {0} /\ cmds[1].cmd = "M"
        /\ \A n \in 1..N : PathCommand(cmds[n]) /\ cmds[n].to \in Points
    <2>1. N \in Nat /\ DOMAIN cmds = 1..N /\ cmds # <<>>
      BY LenProperties DEF Simple
    <2>2. N # 0
      BY <2>1, EmptySeq
    <2> QED  BY <2>1, <2>2 DEF Range, PathCommand, Simple
  <1>2. /\ t \in [0..N -> PathStates] /\ t[0] = PathStart
        /\ \A n \in 1..N : t[n] = Command(t[n - 1], cmds[n])
    BY PathIsTraced
  <1>3. OK(1)
    <2>1. t[1] = Command(PathStart, cmds[1]) /\ 1 - 1 = 0
      BY <1>1, <1>2
    <2>2. t[1] = [PathStart EXCEPT !.cur = cmds[1].to, !.first = cmds[1].to, !.poly = Append(<<>>, cmds[1].to)]
      BY <1>1, <2>1 DEF Command, PathStart
    <2>3. /\ t[1].poly = <<cmds[1].to>> /\ t[1].first = cmds[1].to /\ t[1].cur = cmds[1].to
          /\ t[1].polygons = <<>> /\ t[1].beziers = <<>>
      BY <2>2 DEF PathStart
    <2> HIDE DEF t
    <2>4. Len(t[1].poly) = 1 /\ t[1].poly # <<>> /\ t[1].poly[Len(t[1].poly)] = cmds[1].to
      BY <2>3
    <2>5. Len(t[1].poly) \in Nat /\ Len(t[1].poly) < 2
      BY <2>4
    <2>6. Strokes(t[1].poly, Nothing) = {}
      BY <2>5, ShortHasNoStrokes
    <2>7. Range(t[1].polygons) = {} /\ Range(t[1].beziers) = {}
      BY <2>3 DEF Range
    <2>8. Inked(t[1]) = {}
      BY <2>6, <2>7 DEF Inked, Curves
    <2>9. UNION {Piece(i) : i \in 2..1} = {}
      OBVIOUS
    <2> QED  BY <1>1, <2>3, <2>4, <2>8, <2>9
  <1>4. ASSUME NEW n \in Nat, n \in 1..N - 1, OK(n) PROVE OK(n + 1)
    <2> DEFINE s == t[n]  c == cmds[n + 1]  pen == Pen(cmds, n + 1)
    <2>0. N \in Nat /\ n >= 1 /\ n <= N - 1
      BY <1>1, <1>4
    <2>1. n + 1 \in 1..N /\ n \in 1..N /\ n + 1 \in 2..N /\ (n + 1) - 1 = n /\ n \in 0..N
      <3> HIDE DEF N
      <3> QED  BY <2>0
    <2>2. s \in PathStates /\ PathCommand(c) /\ t[n + 1] = Command(s, c)
      BY <1>1, <1>2, <2>1
    <2>3. c.cmd \in {"L", "Z", "C", "Q"} /\ (c.cmd \in {"C", "Q"} => cmds[n].cmd # "Z")
      BY <2>1 DEF Simple
    <2>4. pen = (IF cmds[n].cmd = "Z" THEN cmds[1].to ELSE cmds[n].to) /\ pen \in Points
      BY <1>1, <2>1 DEF Pen
    <2>5. s.first \in Points /\ s.poly # <<>> /\ s.poly[Len(s.poly)] = pen
      BY <1>1, <1>4, <2>4
    <2>6. c.cmd \in {"C", "Q"} => s.cur = pen
      BY <1>4, <2>3, <2>4
    <2>7. Piece(n + 1) = Segment(pen, s.first, c)
      BY <1>4
    <2>8. UNION {Piece(i) : i \in 2..n + 1} = (UNION {Piece(i) : i \in 2..n}) \cup Piece(n + 1)
      <3> HIDE DEF Piece
      <3>1. \A i : i \in 2..n + 1 <=> i \in 2..n \/ i = n + 1
        BY <2>1
      <3> QED  BY <3>1
    <2>9. s.first = cmds[1].to /\ Inked(s) = UNION {Piece(i) : i \in 2..n}
      BY <1>4
    <2> HIDE DEF s, c, pen, Piece, t
    <2>10. /\ Inked(Command(s, c)) = Inked(s) \cup Segment(pen, s.first, c)
           /\ Command(s, c).poly # <<>> /\ Command(s, c).first = s.first
           /\ Command(s, c).poly[Len(Command(s, c).poly)] = IF c.cmd = "Z" THEN s.first ELSE c.to
           /\ c.cmd # "Z" => Command(s, c).cur = c.to
      BY <2>2, <2>3, <2>4, <2>5, <2>6, CommandDraws
    <2>11. Inked(Command(s, c)) = UNION {Piece(i) : i \in 2..n + 1}
      BY <2>7, <2>8, <2>9, <2>10
    <2> QED  BY <2>2, <2>9, <2>10, <2>11 DEF c
  <1> HIDE DEF OK
  <1>5. N \in {n \in Nat : n \in 1..N => OK(n)}
    <2> DEFINE T == {n \in Nat : n \in 1..N => OK(n)}
    <2>1. 0 \in T
      OBVIOUS
    <2>2. ASSUME NEW n \in Nat, n \in T PROVE n + 1 \in T
      <3>1. CASE n + 1 \in 1..N
        <4>1. n = 0 \/ (n \in 1..N - 1 /\ n \in 1..N)
          BY <1>1, <3>1
        <4>2. OK(n + 1)
          BY <1>3, <1>4, <2>2, <4>1
        <4> QED  BY <4>2
      <3>2. CASE n + 1 \notin 1..N
        BY <3>2
      <3> QED  BY <3>1, <3>2
    <2> HIDE DEF T
    <2>3. Nat \subseteq T
      BY <2>1, <2>2, NatSetInduction
    <2> QED  BY <1>1, <2>3 DEF T
  <1>6. OK(N)
    BY <1>1, <1>5
  <1>7. UNION {Piece(i) : i \in 2..N} = Segments(cmds)
    BY DEF Segments
  <1>8. t[N] \in PathStates
    BY <1>1, <1>2
  <1> QED  BY <1>6, <1>7, <1>8 DEF OK

LEMMA PathIsAsDrawn ==
    ASSUME NEW l \in SymbolLines, l.kind = "PT", Simple(l.cmds), NEW o
    PROVE  PathInk(l, o) = {Flipped(k, o) : k \in Segments(l.cmds)}
  <1> DEFINE t == Traced(l.cmds)[Len(l.cmds)]
  <1>1. l.cmds \in Seq(Range(l.cmds)) /\ \A c \in Range(l.cmds) : PathCommand(c)
    BY SymbolAssumption
  <1>2. t \in PathStates /\ Inked(t) = Segments(l.cmds)
    <2> DEFINE cmds == l.cmds
    <2>1. cmds \in Seq(Range(cmds)) /\ (\A c \in Range(cmds) : PathCommand(c)) /\ Simple(cmds)
      BY <1>1
    <2> HIDE DEF cmds
    <2>2. Traced(cmds)[Len(cmds)] \in PathStates /\ Inked(Traced(cmds)[Len(cmds)]) = Segments(cmds)
      BY <2>1, PathIsDrawn
    <2> QED  BY <2>2 DEF cmds
  <1>3. PathInk(l, o) = {Flipped(k, o) : k \in
            (UNION {Strokes(pts, Nothing) : pts \in Range(Flush(t).polygons)})
            \cup (UNION {CurveInk(b) : b \in Range(Flush(t).beziers)})}
    BY DEF PathInk, All
  <1> HIDE DEF t
  <1>4. Inked(t) = (UNION {Strokes(pts, Nothing) : pts \in Range(Flush(t).polygons)})
                   \cup (UNION {CurveInk(b) : b \in Range(Flush(t).beziers)})
    BY <1>2, FlushKeepsInk
  <1> QED  BY <1>2, <1>3, <1>4

-----------------------------------------------------------------------------
(* The lines of a symbol, each as it is drawn.                             *)

OnGrid(o) == \E a, b \in Int : o = <<a * Grid, b * Grid>>

LEMMA SnapIsOnGrid ==
    ASSUME NEW p \in Points
    PROVE  OnGrid(Snap(p)) /\ Snap(p) \in Points
  <1>1. p[1] \in Int /\ p[2] \in Int /\ Grid \in Int
    BY GridAssumption DEF Points
  <1>2. \A n \in Int : Round(n, Grid) \in Int
    BY GridAssumption DEF Round
  <1>3. \A a, b \in Int : <<a * Grid, b * Grid>> \in Points
    BY <1>1 DEF Points
  <1> QED  BY <1>1, <1>2, <1>3 DEF Snap, OnGrid

LEMMA GridIsDivided ==
    ASSUME NEW o, OnGrid(o)
    PROVE  o[1] % Grid = 0 /\ o[2] % Grid = 0
  BY GridAssumption, MultipleDivides DEF OnGrid

\* What lies on the grid lies on it relative to a snapped origin as well.

LEMMA OnGridStays ==
    ASSUME NEW p, OnGrid(p), NEW o, OnGrid(o)
    PROVE  Snap(Rel(p, o)) = Rel(p, o)
  <1>1. PICK a \in Int, b \in Int : p = <<a * Grid, b * Grid>>
    BY DEF OnGrid
  <1>2. PICK c \in Int, d \in Int : o = <<c * Grid, d * Grid>>
    BY DEF OnGrid
  <1>3. a * Grid - c * Grid = (a - c) * Grid /\ d * Grid - b * Grid = (d - b) * Grid
    BY GridAssumption
  <1>4. Rel(p, o) = <<(a - c) * Grid, (d - b) * Grid>>
    BY <1>1, <1>2, <1>3 DEF Rel
  <1>5. Round((a - c) * Grid, Grid) = a - c /\ Round((d - b) * Grid, Grid) = d - b
    BY RoundOfMultiple
  <1> QED  BY <1>4, <1>5 DEF Snap

\* The ink that a line leaves in the exported symbol.
LineInk(l, o) ==
    CASE l.kind = "P" -> PinInk(PinOf(l), o)
      [] l.kind = "R" -> RectangleInk(RectangleOf(l), o)
      [] l.kind = "C" -> CircleInk(l, o)
      [] l.kind = "A" -> ArcInk(l, o)
      [] l.kind = "E" -> EllipseInk(l, o)
      [] l.kind = "PT" -> PathInk(l, o)
      [] l.kind \in {"PL", "PG"} -> PolylineInk(l, o)
      [] l.kind = "T" -> IF l.parts < 13 \/ l.text = Nothing THEN {} ELSE TextInk(l, o)
      [] OTHER -> {}

LEMMA PointInk ==
    ASSUME NEW what, NEW p, NEW tag, NEW o
    PROVE  Flipped(Ink(what, {p}, <<>>, tag), o) = Ink(what, {Rel(p, o)}, <<>>, tag)
  <1> DEFINE none == <<>>
  <1>1. {Rel(q, o) : q \in {p}} = {Rel(p, o)} /\ [i \in DOMAIN none |-> Rel(none[i], o)] = none
    OBVIOUS
  <1> HIDE DEF none
  <1>2. Flipped(Ink(what, {p}, none, tag), o) = Ink(what, {Rel(p, o)}, none, tag)
    BY <1>1, MovedInk
  <1> QED  BY <1>2 DEF none

LEMMA PinIsAsDrawn ==
    ASSUME NEW l \in SymbolLines, l.kind = "P", Regular(l), NEW o, OnGrid(o)
    PROVE  LineInk(l, o) = {Flipped(k, o) : k \in Canvas(l)}
  <1>1. l.at \in Points /\ Snap(l.at) = l.at /\ l.number # Nothing
    BY SymbolAssumption DEF Regular
  <1>2. Snap(Rel(l.at, o)) = Rel(l.at, o)
    BY <1>1, SnapIsOnGrid, OnGridStays
  <1>3. LineInk(l, o) = {Ink("pin", {Rel(l.at, o)}, <<>>, l.number)}
    BY <1>1, <1>2 DEF LineInk, PinInk, PinOf, PinNumber
  <1>4. Canvas(l) = {Ink("pin", {l.at}, <<>>, l.number)}
    BY DEF Canvas
  <1> QED  BY <1>3, <1>4, PointInk

LEMMA RectangleIsAsDrawn ==
    ASSUME NEW l \in SymbolLines, l.kind = "R", Regular(l), NEW o \in Points
    PROVE  LineInk(l, o) = {Flipped(k, o) : k \in Canvas(l)}
  <1> DEFINE a == l.at  w == l.fields[3]  h == l.fields[4]
             b == <<a[1] + w, a[2] + h>>
  <1>0. /\ l.fields \in Seq(Range(l.fields)) /\ Len(l.fields) >= 4
        /\ {l.fields[3], l.fields[4]} \subseteq Int
        /\ l.at \in Points
    BY SymbolAssumption DEF Regular
  <1>1. /\ a[1] \in Int /\ a[2] \in Int /\ w \in Int /\ h \in Int
        /\ o[1] \in Int /\ o[2] \in Int
    BY <1>0 DEF Points
  <1>2. RectangleOf(l).size = <<w, h>> /\ RectangleOf(l).at = a
    BY DEF RectangleOf, RectangleSize, Regular
  <1>3. Rel(b, o) = <<Rel(a, o)[1] + w, Rel(a, o)[2] - h>>
    BY <1>1 DEF Rel
  <1>4. LineInk(l, o) = Box(Rel(a, o), Rel(b, o))
    BY <1>2, <1>3 DEF LineInk, RectangleInk
  <1>5. Canvas(l) = Box(a, b)
    BY DEF Canvas
  <1> HIDE DEF a, b
  <1> DEFINE none == <<>>
  <1>6. {Rel(q, o) : q \in {a, b}} = {Rel(a, o), Rel(b, o)} /\ [i \in DOMAIN none |-> Rel(none[i], o)] = none
    OBVIOUS
  <1>7. /\ Box(a, b) = {Ink("box", {a, b}, none, Nothing)}
        /\ Box(Rel(a, o), Rel(b, o)) = {Ink("box", {Rel(a, o), Rel(b, o)}, none, Nothing)}
    BY DEF Box
  <1> HIDE DEF none
  <1>8. Flipped(Ink("box", {a, b}, none, Nothing), o) = Ink("box", {Rel(a, o), Rel(b, o)}, none, Nothing)
    BY <1>6, MovedInk
  <1> QED  BY <1>4, <1>5, <1>7, <1>8

LEMMA RoundIsAsDrawn ==
    ASSUME NEW l \in SymbolLines, l.kind \in {"C", "E"}, NEW o
    PROVE  LineInk(l, o) = {Flipped(k, o) : k \in Canvas(l)}
  <1>1. CASE l.kind = "C" \/ l.radii[1] = l.radii[2]
    <2>1. LineInk(l, o) = {Ink("circle", {Rel(l.at, o)}, <<>>, l.radii[1])}
      BY <1>1 DEF LineInk, CircleInk, EllipseInk
    <2>2. Canvas(l) = {Ink("circle", {l.at}, <<>>, l.radii[1])}
      BY <1>1 DEF Canvas
    <2> QED  BY <2>1, <2>2, PointInk
  <1>2. CASE l.kind = "E" /\ l.radii[1] # l.radii[2]
    <2>1. LineInk(l, o) = {} /\ Canvas(l) = {}
      BY <1>2 DEF LineInk, EllipseInk, Canvas
    <2> QED  BY <2>1
  <1> QED  BY <1>1, <1>2

LEMMA ArcIsAsDrawn ==
    ASSUME NEW l \in SymbolLines, l.kind = "A", NEW o
    PROVE  LineInk(l, o) = {Flipped(k, o) : k \in Canvas(l)}
  <1>1. 0 \in Range(l.radii) <=> l.radii[1] = 0 \/ l.radii[2] = 0
    BY SymbolAssumption DEF Range
  <1>2. CASE ~l.wellformed \/ l.radii[1] = 0 \/ l.radii[2] = 0
    <2>1. LineInk(l, o) = {} /\ Canvas(l) = {}
      BY <1>1, <1>2 DEF LineInk, ArcInk, Canvas
    <2> QED  BY <2>1
  <1>3. CASE ~(~l.wellformed \/ l.radii[1] = 0 \/ l.radii[2] = 0)
    <2> DEFINE via == <<l.middle>>
    <2>1. LineInk(l, o) = {Ink("arc", {Rel(l.start, o), Rel(l.end, o)}, <<Rel(l.middle, o)>>, Nothing)}
      BY <1>3 DEF LineInk, ArcInk
    <2>2. Canvas(l) = {Ink("arc", {l.start, l.end}, via, Nothing)}
      BY <1>1, <1>3 DEF Canvas
    <2>3. {Rel(q, o) : q \in {l.start, l.end}} = {Rel(l.start, o), Rel(l.end, o)}
      OBVIOUS
    <2>4. [i \in DOMAIN via |-> Rel(via[i], o)] = <<Rel(l.middle, o)>>
      OBVIOUS
    <2> HIDE DEF via
    <2>5. Flipped(Ink("arc", {l.start, l.end}, via, Nothing), o)
            = Ink("arc", {Rel(l.start, o), Rel(l.end, o)}, <<Rel(l.middle, o)>>, Nothing)
      BY <2>3, <2>4, MovedInk
    <2> QED  BY <2>1, <2>2, <2>5
  <1> QED  BY <1>2, <1>3

LEMMA TextIsAsDrawn ==
    ASSUME NEW l \in SymbolLines, l.kind = "T", NEW o
    PROVE  LineInk(l, o) = {Flipped(k, o) : k \in Canvas(l)}
  <1>0. l.parts >= 13 <=> ~(l.parts < 13)
    BY SymbolAssumption
  <1>1. CASE l.parts < 13 \/ l.text = Nothing
    <2>1. LineInk(l, o) = {} /\ Canvas(l) = {}
      BY <1>0, <1>1 DEF LineInk, Canvas
    <2> QED  BY <2>1
  <1>2. CASE ~(l.parts < 13 \/ l.text = Nothing)
    <2>1. LineInk(l, o) = {Ink("text", {Rel(l.at, o)}, <<>>, l.text)}
      BY <1>2 DEF LineInk, TextInk
    <2>2. Canvas(l) = {Ink("text", {l.at}, <<>>, l.text)}
      BY <1>0, <1>2 DEF Canvas
    <2> QED  BY <2>1, <2>2, PointInk
  <1> QED  BY <1>1, <1>2

\* Going back to the first point draws the last side.

LEMMA RingIsTheOutline ==
    ASSUME NEW l \in SymbolLines, l.kind \in {"PL", "PG"}
    PROVE  Strokes(Ring(l), Nothing) = Outline(l)
  <1> DEFINE s == l.points  p == s[1]
  <1>1. s \in Seq(Points)
    BY SymbolAssumption
  <1>2. CASE ~(l.kind = "PG" \/ l.filled)
    BY <1>2 DEF Ring, Closes, Outline
  <1>3. CASE (l.kind = "PG" \/ l.filled) /\ s # <<>>
    <2>1. Ring(l) = Append(s, p) /\ Outline(l) = Strokes(s, Nothing) \cup Line(s[Len(s)], p, Nothing)
      BY <1>3 DEF Ring, Closes, Outline
    <2> HIDE DEF s, p
    <2>2. Strokes(Append(s, p), Nothing) = Strokes(s, Nothing) \cup Line(s[Len(s)], p, Nothing)
      BY <1>1, <1>3, StrokesOfAppend
    <2> QED  BY <2>1, <2>2
  <1>4. CASE (l.kind = "PG" \/ l.filled) /\ s = <<>>
    <2>1. Ring(l) = Append(s, p) /\ Outline(l) = Strokes(s, Nothing) /\ Len(s) = 0
      BY <1>4 DEF Ring, Closes, Outline
    <2> DEFINE r == Append(s, p)
    <2>2. Len(r) = 1
      <3> HIDE DEF p
      <3>1. s = <<>>
        BY <1>4
      <3>2. r = <<p>>
        BY <3>1
      <3> QED  BY <3>2
    <2> HIDE DEF s, p, r
    <2>3. Len(r) \in Nat /\ Len(r) < 2 /\ Len(s) \in Nat /\ Len(s) < 2
      BY <2>1, <2>2
    <2>4. Strokes(r, Nothing) = {} /\ Strokes(s, Nothing) = {}
      BY <2>3, ShortHasNoStrokes
    <2> QED  BY <2>1, <2>4 DEF r
  <1> QED  BY <1>2, <1>3, <1>4

\* On the grid, every line in EasyEDA's formats comes out as it was drawn.

LEMMA LineIsAsDrawn ==
    ASSUME NEW l \in SymbolLines, Regular(l), NEW o, OnGrid(o), o \in Points
    PROVE  LineInk(l, o) = {Flipped(k, o) : k \in Canvas(l)}
  <1>1. CASE l.kind \in {"P", "R", "C", "E", "A", "T"}
    BY <1>1, PinIsAsDrawn, RectangleIsAsDrawn, RoundIsAsDrawn, ArcIsAsDrawn, TextIsAsDrawn
  <1>2. CASE l.kind \in {"PL", "PG"}
    <2>1. LineInk(l, o) = PolylineInk(l, o) /\ Canvas(l) = Strokes(Ring(l), Nothing)
      BY <1>2, RingIsTheOutline DEF LineInk, Canvas
    <2> QED  BY <2>1 DEF PolylineInk
  <1>3. CASE l.kind = "PT"
    <2>1. LineInk(l, o) = PathInk(l, o) /\ Canvas(l) = Segments(l.cmds) /\ Simple(l.cmds)
      BY <1>3 DEF LineInk, Canvas, Regular
    <2> QED  BY <1>3, <2>1, PathIsAsDrawn
  <1>4. CASE l.kind \notin {"P", "R", "C", "E", "A", "T", "PL", "PG", "PT"}
    <2>1. LineInk(l, o) = {} /\ Canvas(l) = {}
      BY <1>4 DEF LineInk, Canvas
    <2> QED  BY <2>1
  <1> QED  BY <1>1, <1>2, <1>3, <1>4

-----------------------------------------------------------------------------
(* Symbols as they are read.                                               *)

ListNames == {"pins", "rectangles", "circles", "ellipses", "arcs", "polylines",
              "polygons", "paths", "texts"}
Fields == ListNames \cup {"name", "origin"}
Items == SymbolLines \cup {PinOf(l) : l \in SymbolLines} \cup {RectangleOf(l) : l \in SymbolLines}
SymbolRecords == [Fields -> STRING \cup Points \cup Seq(Items)]
UnitRecords ==
    [name : STRING, at : Points, size : Points, head : Points, lines : Seq(SymbolLines)]

\* What a line leaves in which list.
Leaves(l, list, x) ==
    \/ l.kind = "P" /\ list = "pins" /\ x = PinOf(l)
    \/ l.kind = "R" /\ list = "rectangles" /\ x = RectangleOf(l)
    \/ l.kind = "T" /\ ~(l.parts < 13) /\ l.text # Nothing /\ list = "texts" /\ x = l
    \/ l.kind \in DOMAIN Lists /\ list = Lists[l.kind] /\ x = l

\* A unit as it was read holds what its lines leave, and nothing else.
HoldsLines(u, lines) ==
    \A list \in ListNames :
        /\ u[list] \in Seq(Items)
        /\ \A x : x \in Range(u[list]) <=> \E l \in Range(lines) : Leaves(l, list, x)

UnitsAreRead ==
    /\ drawn \in Seq(UnitRecords) /\ Len(drawn) >= 1
    /\ symbol \in Seq(SymbolRecords)
    /\ unit \in 1..Len(drawn) /\ Len(symbol) \in {unit - 1, unit}
    /\ \A i \in 1..Len(symbol) :
          /\ symbol[i].name = drawn[i].name /\ symbol[i].origin = Origin(drawn[i])
          /\ HoldsLines(symbol[i], drawn[i].lines)
    /\ \A i \in 1..Len(drawn) : i > Len(symbol) => drawn[i].lines = <<>>

LEMMA ListKeeps ==
    ASSUME symbol \in Seq(SymbolRecords), unit \in 1..Len(symbol),
           NEW list \in ListNames, symbol[unit][list] \in Seq(Items), NEW item \in Items, Keep(list, item)
    PROVE  /\ symbol' \in Seq(SymbolRecords) /\ Len(symbol') = Len(symbol)
           /\ \A i \in 1..Len(symbol) : i # unit => symbol'[i] = symbol[i]
           /\ \A f \in Fields : f # list => symbol'[unit][f] = symbol[unit][f]
           /\ symbol'[unit][list] = Append(symbol[unit][list], item)
           /\ symbol'[unit][list] \in Seq(Items)
           /\ Range(symbol'[unit][list]) = Range(symbol[unit][list]) \cup {item}
  <1> DEFINE u == symbol[unit]  s == Append(u[list], item)  r == [u EXCEPT ![list] = s]
  <1>1. u \in SymbolRecords /\ s \in Seq(Items)
    BY AppendProperties
  <1>2. Range(s) = Range(u[list]) \cup {item}
    BY RangeOfAppend
  <1>3. list \in Fields
    BY DEF Fields
  <1>4. r \in SymbolRecords /\ r[list] = s /\ \A f \in Fields : f # list => r[f] = u[f]
    BY <1>1, <1>3 DEF SymbolRecords
  <1>5. symbol' = [symbol EXCEPT ![unit] = r]
    BY DEF Keep
  <1> HIDE DEF r, s, u
  <1>6. symbol' \in Seq(SymbolRecords) /\ Len(symbol') = Len(symbol)
    BY <1>4, <1>5, ExceptSeq
  <1>7. symbol'[unit] = r /\ \A i \in 1..Len(symbol) : i # unit => symbol'[i] = symbol[i]
    BY <1>5
  <1> QED  BY <1>1, <1>2, <1>4, <1>6, <1>7 DEF s, u

\* A step that reads a line into the unit at hand, and leaves what the line leaves.

LEMMA LineIsRead ==
    ASSUME UnitsAreRead, stage = "symbol", NEW l \in SymbolLines, ReadsSymbol(l),
           symbol' \in Seq(SymbolRecords), Len(symbol') = Len(symbol),
           \A i \in 1..Len(symbol) : i # unit => symbol'[i] = symbol[i],
           symbol'[unit].name = symbol[unit].name, symbol'[unit].origin = symbol[unit].origin,
           \A list \in ListNames :
              /\ symbol'[unit][list] \in Seq(Items)
              /\ \A x : x \in Range(symbol'[unit][list])
                          <=> x \in Range(symbol[unit][list]) \/ Leaves(l, list, x)
    PROVE  UnitsAreRead' /\ stage' = "symbol"
  <1> DEFINE d == drawn[unit]  s == Append(d.lines, l)  r == [d EXCEPT !.lines = s]
  <1>1. Len(symbol) = unit /\ drawn' = [drawn EXCEPT ![unit] = r] /\ unit' = unit /\ stage' = stage
    BY DEF ReadsSymbol, Reads
  <1>2. d \in UnitRecords /\ d.lines \in Seq(SymbolLines)
    <2>1. unit \in 1..Len(drawn) /\ drawn \in Seq(UnitRecords)
      BY DEF UnitsAreRead
    <2>2. d \in UnitRecords
      BY <2>1
    <2> QED  BY <2>2 DEF UnitRecords
  <1>3. s \in Seq(SymbolLines) /\ Range(s) = Range(d.lines) \cup {l}
    BY <1>2, RangeOfAppend, AppendProperties
  <1>4. r \in UnitRecords /\ r.lines = s /\ r.name = d.name /\ r.at = d.at /\ r.size = d.size /\ r.head = d.head
    BY <1>2, <1>3 DEF UnitRecords
  <1> HIDE DEF r, s
  <1>5. unit \in 1..Len(drawn) /\ drawn \in Seq(UnitRecords)
    BY DEF UnitsAreRead
  <1>6. drawn' \in Seq(UnitRecords) /\ Len(drawn') = Len(drawn)
    BY <1>1, <1>4, <1>5, ExceptSeq
  <1>7. drawn'[unit] = r /\ \A i \in 1..Len(drawn) : i # unit => drawn'[i] = drawn[i]
    BY <1>1, <1>5
  <1>8. \A i \in 1..Len(drawn) : /\ drawn'[i].name = drawn[i].name /\ drawn'[i].at = drawn[i].at
                                 /\ drawn'[i].size = drawn[i].size /\ drawn'[i].head = drawn[i].head
    BY <1>4, <1>5, <1>7
  <1>9. SharedOrigin' = SharedOrigin
    <2>1. Len(drawn) \in Nat
      BY <1>5
    <2>2. Len(drawn) > 1 => drawn'[2].head = drawn[2].head
      BY <1>8, <2>1
    <2> QED  BY <1>6, <2>2 DEF SharedOrigin
  <1>10. \A i \in 1..Len(drawn) : Origin(drawn[i])' = Origin(drawn[i])
    BY <1>8, <1>9 DEF Origin
  <1>11. HoldsLines(symbol'[unit], r.lines)
    <2> SUFFICES ASSUME NEW list \in ListNames, NEW x
                 PROVE  x \in Range(symbol'[unit][list]) <=> \E k \in Range(r.lines) : Leaves(k, list, x)
      BY DEF HoldsLines
    <2>1. HoldsLines(symbol[unit], d.lines)
      BY <1>1, <1>5 DEF UnitsAreRead
    <2>2. x \in Range(symbol[unit][list]) <=> \E k \in Range(d.lines) : Leaves(k, list, x)
      BY <2>1 DEF HoldsLines
    <2> QED  BY <1>3, <1>4, <2>2
  <1>12. \A i \in 1..Len(symbol) : HoldsLines(symbol'[i], drawn'[i].lines)
    <2> SUFFICES ASSUME NEW i \in 1..Len(symbol)
                 PROVE  HoldsLines(symbol'[i], drawn'[i].lines)
      OBVIOUS
    <2>1. CASE i = unit
      BY <1>7, <1>11, <2>1
    <2>2. CASE i # unit
      <3>1. symbol'[i] = symbol[i] /\ drawn'[i] = drawn[i]
        BY <1>1, <1>5, <1>7, <2>2
      <3> QED  BY <3>1 DEF UnitsAreRead
    <2> QED  BY <2>1, <2>2
  <1>13. \A i \in 1..Len(symbol) : symbol'[i].name = drawn'[i].name /\ symbol'[i].origin = Origin(drawn[i])'
    <2> SUFFICES ASSUME NEW i \in 1..Len(symbol)
                 PROVE  symbol'[i].name = drawn'[i].name /\ symbol'[i].origin = Origin(drawn[i])'
      OBVIOUS
    <2>1. i \in 1..Len(drawn) /\ symbol[i].name = drawn[i].name /\ symbol[i].origin = Origin(drawn[i])
      <3>1. symbol[i].name = drawn[i].name /\ symbol[i].origin = Origin(drawn[i])
        BY DEF UnitsAreRead
      <3>2. Len(symbol) <= Len(drawn)
        <4>1. Len(symbol) \in {unit - 1, unit}
          BY DEF UnitsAreRead
        <4> QED  BY <1>5, <4>1
      <3>3. Len(symbol) \in Nat /\ Len(drawn) \in Nat
        BY <1>5 DEF UnitsAreRead
      <3>4. i \in 1..Len(drawn)
        BY <3>2, <3>3
      <3> QED  BY <3>1, <3>4
    <2>2. symbol'[i].name = symbol[i].name /\ symbol'[i].origin = symbol[i].origin
      OBVIOUS
    <2> QED  BY <1>8, <1>10, <2>1, <2>2
  <1>14. \A i \in 1..Len(drawn) : i > Len(symbol) => drawn'[i].lines = <<>>
    BY <1>1, <1>5, <1>7 DEF UnitsAreRead
  <1>15. Len(drawn) >= 1 /\ Len(symbol) \in {unit - 1, unit}
    BY DEF UnitsAreRead
  <1> QED  BY <1>1, <1>5, <1>6, <1>12, <1>13, <1>14, <1>15 DEF UnitsAreRead

LEMMA OneItemIsKept ==
    ASSUME UnitsAreRead, stage = "symbol", NEW l \in SymbolLines, ReadsSymbol(l),
           NEW list \in ListNames, NEW item \in Items, Keep(list, item),
           \A other \in ListNames : \A x : Leaves(l, other, x) <=> other = list /\ x = item
    PROVE  UnitsAreRead' /\ stage' = "symbol"
  <1>1. symbol \in Seq(SymbolRecords) /\ unit \in 1..Len(symbol) /\ HoldsLines(symbol[unit], drawn[unit].lines)
    BY DEF UnitsAreRead, ReadsSymbol
  <1>2. \A other \in ListNames : symbol[unit][other] \in Seq(Items)
    BY <1>1 DEF HoldsLines
  <1>3. /\ symbol' \in Seq(SymbolRecords) /\ Len(symbol') = Len(symbol)
        /\ \A i \in 1..Len(symbol) : i # unit => symbol'[i] = symbol[i]
        /\ \A f \in Fields : f # list => symbol'[unit][f] = symbol[unit][f]
        /\ symbol'[unit][list] \in Seq(Items)
        /\ Range(symbol'[unit][list]) = Range(symbol[unit][list]) \cup {item}
    BY <1>1, <1>2, ListKeeps
  <1>4. symbol'[unit].name = symbol[unit].name /\ symbol'[unit].origin = symbol[unit].origin
    BY <1>3 DEF Fields, ListNames
  <1>5. \A other \in ListNames :
           /\ symbol'[unit][other] \in Seq(Items)
           /\ \A x : x \in Range(symbol'[unit][other])
                       <=> x \in Range(symbol[unit][other]) \/ Leaves(l, other, x)
    <2> SUFFICES ASSUME NEW other \in ListNames
                 PROVE  /\ symbol'[unit][other] \in Seq(Items)
                        /\ \A x : x \in Range(symbol'[unit][other])
                                    <=> x \in Range(symbol[unit][other]) \/ Leaves(l, other, x)
      OBVIOUS
    <2>1. CASE other = list
      BY <1>3, <2>1
    <2>2. CASE other # list
      <3>1. symbol'[unit][other] = symbol[unit][other]
        BY <1>3, <2>2 DEF Fields
      <3> QED  BY <1>2, <2>2, <3>1
    <2> QED  BY <2>1, <2>2
  <1> QED  BY <1>3, <1>4, <1>5, LineIsRead

LEMMA NothingIsKept ==
    ASSUME UnitsAreRead, stage = "symbol", NEW l \in SymbolLines, ReadsSymbol(l), symbol' = symbol,
           \A other \in ListNames : \A x : ~Leaves(l, other, x)
    PROVE  UnitsAreRead' /\ stage' = "symbol"
  <1>1. symbol \in Seq(SymbolRecords) /\ unit \in 1..Len(symbol) /\ HoldsLines(symbol[unit], drawn[unit].lines)
    BY DEF UnitsAreRead, ReadsSymbol
  <1>2. \A list \in ListNames :
           /\ symbol'[unit][list] \in Seq(Items)
           /\ \A x : x \in Range(symbol'[unit][list])
                       <=> x \in Range(symbol[unit][list]) \/ Leaves(l, list, x)
    BY <1>1 DEF HoldsLines
  <1> QED  BY <1>1, <1>2, LineIsRead

LEMMA ReadingKeepsUnits ==
    ASSUME UnitsAreRead, stage = "symbol", AddPin \/ AddRectangle \/ AddText \/ AddShape \/ SkipUnknown
    PROVE  UnitsAreRead' /\ stage' = "symbol"
  <1>1. CASE AddPin
    <2>1. PICK l \in SymbolLines : l.kind = "P" /\ ReadsSymbol(l) /\ Keep("pins", PinOf(l))
      BY <1>1 DEF AddPin
    <2>2. \A other, x : Leaves(l, other, x) <=> other = "pins" /\ x = PinOf(l)
      BY <2>1 DEF Leaves, Lists
    <2>3. "pins" \in ListNames /\ PinOf(l) \in Items
      BY DEF ListNames, Items
    <2> QED  BY <2>1, <2>2, <2>3, OneItemIsKept
  <1>2. CASE AddRectangle
    <2>1. PICK l \in SymbolLines : l.kind = "R" /\ ReadsSymbol(l) /\ Keep("rectangles", RectangleOf(l))
      BY <1>2 DEF AddRectangle
    <2>2. \A other, x : Leaves(l, other, x) <=> other = "rectangles" /\ x = RectangleOf(l)
      BY <2>1 DEF Leaves, Lists
    <2>3. "rectangles" \in ListNames /\ RectangleOf(l) \in Items
      BY DEF ListNames, Items
    <2> QED  BY <2>1, <2>2, <2>3, OneItemIsKept
  <1>3. CASE AddText
    <2>1. PICK l \in SymbolLines :
             /\ l.kind = "T" /\ ReadsSymbol(l)
             /\ IF l.parts < 13 \/ l.text = Nothing THEN UNCHANGED symbol ELSE Keep("texts", l)
      BY <1>3 DEF AddText
    <2>2. \A other, x : Leaves(l, other, x)
             <=> ~(l.parts < 13) /\ l.text # Nothing /\ other = "texts" /\ x = l
      BY <2>1 DEF Leaves, Lists
    <2>3. "texts" \in ListNames /\ l \in Items
      BY DEF ListNames, Items
    <2>4. CASE l.parts < 13 \/ l.text = Nothing
      BY <2>1, <2>2, <2>4, NothingIsKept
    <2>5. CASE ~(l.parts < 13 \/ l.text = Nothing)
      BY <2>1, <2>2, <2>3, <2>5, OneItemIsKept
    <2> QED  BY <2>4, <2>5
  <1>4. CASE AddShape
    <2>1. PICK l \in SymbolLines : l.kind \in DOMAIN Lists /\ ReadsSymbol(l) /\ Keep(Lists[l.kind], l)
      BY <1>4 DEF AddShape
    <2>2. l.kind \in {"C", "E", "A", "PL", "PG", "PT"} /\ Lists[l.kind] \in ListNames /\ l \in Items
      BY <2>1 DEF Lists, ListNames, Items
    <2>3. \A other, x : Leaves(l, other, x) <=> other = Lists[l.kind] /\ x = l
      BY <2>1, <2>2 DEF Leaves
    <2> QED  BY <2>1, <2>2, <2>3, OneItemIsKept
  <1>5. CASE SkipUnknown
    <2>1. PICK l \in SymbolLines :
             l.kind \notin DOMAIN Lists \union {"P", "R", "T"} /\ ReadsSymbol(l) /\ UNCHANGED symbol
      BY <1>5 DEF SkipUnknown
    <2>2. \A other, x : ~Leaves(l, other, x)
      BY <2>1 DEF Leaves
    <2> QED  BY <2>1, <2>2, NothingIsKept
  <1> QED  BY <1>1, <1>2, <1>3, <1>4, <1>5

LEMMA OriginIsPoint ==
    ASSUME drawn \in Seq(UnitRecords), NEW u \in UnitRecords
    PROVE  Origin(u) \in Points
  <1>1. u.at[1] \in Int /\ u.at[2] \in Int /\ u.size[1] \in Int /\ u.size[2] \in Int /\ u.head \in Points
    BY DEF UnitRecords, Points
  <1>2. <<u.at[1] + u.size[1] \div 2, u.at[2] + u.size[2] \div 2>> \in Points
    BY <1>1 DEF Points
  <1>3. SharedOrigin # Nothing => SharedOrigin \in Points
    <2>1. CASE Len(drawn) > 1
      <3>1. drawn[2] \in UnitRecords
        BY <2>1
      <3> QED  BY <2>1, <3>1 DEF SharedOrigin, UnitRecords
    <2>2. CASE ~(Len(drawn) > 1)
      BY <2>2 DEF SharedOrigin
    <2> QED  BY <2>1, <2>2
  <1> QED  BY <1>1, <1>2, <1>3 DEF Origin

LEMMA NewSymbolIsEmpty ==
    ASSUME drawn \in Seq(UnitRecords), NEW u \in UnitRecords
    PROVE  /\ EmptySymbol(u) \in SymbolRecords /\ EmptySymbol(u).name = u.name
           /\ EmptySymbol(u).origin = Origin(u) /\ HoldsLines(EmptySymbol(u), <<>>)
  <1> DEFINE e == EmptySymbol(u)
  <1>1. Origin(u) \in Points /\ u.name \in STRING
    BY OriginIsPoint DEF UnitRecords
  <1>2. e.name = u.name /\ e.origin = Origin(u) /\ DOMAIN e = Fields
    BY DEF EmptySymbol, Fields, ListNames
  <1>3. \A list \in ListNames : e[list] = <<>>
    BY DEF EmptySymbol, ListNames
  <1>4. <<>> \in Seq(Items) /\ Range(<<>>) = {}
    BY DEF Range
  <1>5. e = [f \in Fields |-> e[f]]
    BY <1>2 DEF EmptySymbol
  <1> HIDE DEF e
  <1>6. \A f \in Fields : e[f] \in STRING \cup Points \cup Seq(Items)
    BY <1>1, <1>2, <1>3, <1>4 DEF Fields
  <1>7. e \in SymbolRecords
    BY <1>5, <1>6 DEF SymbolRecords
  <1>8. HoldsLines(e, <<>>)
    BY <1>3, <1>4 DEF HoldsLines
  <1> QED  BY <1>2, <1>7, <1>8 DEF e

LEMMA OpeningKeepsUnits ==
    ASSUME UnitsAreRead, OpenUnit
    PROVE  UnitsAreRead' /\ stage' = "symbol"
  <1> DEFINE e == EmptySymbol(drawn[unit])
  <1>1. /\ stage = "symbol" /\ stage' = stage /\ Len(symbol) = unit - 1
        /\ symbol' = Append(symbol, e) /\ drawn' = drawn /\ unit' = unit
    BY DEF OpenUnit
  <1>2. /\ drawn \in Seq(UnitRecords) /\ unit \in 1..Len(drawn) /\ symbol \in Seq(SymbolRecords)
        /\ drawn[unit] \in UnitRecords /\ Len(drawn) >= 1 /\ Len(drawn) \in Nat
    <2>1. drawn \in Seq(UnitRecords) /\ unit \in 1..Len(drawn) /\ symbol \in Seq(SymbolRecords) /\ Len(drawn) >= 1
      BY DEF UnitsAreRead
    <2> QED  BY <2>1
  <1>3. /\ e \in SymbolRecords /\ e.name = drawn[unit].name
        /\ e.origin = Origin(drawn[unit]) /\ HoldsLines(e, <<>>)
    BY <1>2, NewSymbolIsEmpty
  <1>4. drawn[unit].lines = <<>>
    BY <1>1, <1>2 DEF UnitsAreRead
  <1> HIDE DEF e
  <1>5. /\ symbol' \in Seq(SymbolRecords) /\ Len(symbol') = unit /\ symbol'[unit] = e
        /\ \A i \in 1..unit - 1 : symbol'[i] = symbol[i]
    BY <1>1, <1>2, <1>3, AppendProperties
  <1>6. \A i \in 1..unit : Origin(drawn[i])' = Origin(drawn[i])
    BY <1>1 DEF Origin, SharedOrigin
  <1>7. \A i \in 1..Len(symbol') :
          /\ symbol'[i].name = drawn'[i].name /\ symbol'[i].origin = Origin(drawn[i])'
          /\ HoldsLines(symbol'[i], drawn'[i].lines)
    <2> SUFFICES ASSUME NEW i \in 1..unit
                 PROVE  /\ symbol'[i].name = drawn[i].name /\ symbol'[i].origin = Origin(drawn[i])
                        /\ HoldsLines(symbol'[i], drawn[i].lines)
      BY <1>1, <1>5, <1>6
    <2>1. CASE i = unit
      BY <1>3, <1>4, <1>5, <2>1
    <2>2. CASE i # unit
      <3>1. i \in 1..unit - 1
        BY <1>2, <2>2
      <3> QED  BY <1>1, <1>5, <3>1 DEF UnitsAreRead
    <2> QED  BY <2>1, <2>2
  <1>8. \A i \in 1..Len(drawn) : i > unit => drawn[i].lines = <<>>
    BY <1>1, <1>2 DEF UnitsAreRead
  <1> QED  BY <1>1, <1>2, <1>5, <1>7, <1>8 DEF UnitsAreRead

LEMMA TurningKeepsUnits ==
    ASSUME UnitsAreRead, NextUnit
    PROVE  UnitsAreRead' /\ stage' = "symbol"
  <1>1. /\ stage' = "symbol" /\ Len(symbol) = unit /\ unit < Len(drawn) /\ unit' = unit + 1
        /\ symbol' = symbol /\ drawn' = drawn
    BY DEF NextUnit
  <1>2. unit \in 1..Len(drawn) /\ drawn \in Seq(UnitRecords)
    BY DEF UnitsAreRead
  <1>3. unit' \in 1..Len(drawn) /\ Len(symbol) = unit' - 1
    BY <1>1, <1>2
  <1>4. \A i \in 1..Len(symbol) : Origin(drawn[i])' = Origin(drawn[i])
    BY <1>1 DEF Origin, SharedOrigin
  <1> QED  BY <1>1, <1>3, <1>4 DEF UnitsAreRead

-----------------------------------------------------------------------------
(* Symbols as they are exported.                                           *)

\* The ink of an item of a list.
ItemInk(list, x, o) ==
    CASE list = "pins" -> PinInk(x, o)
      [] list = "rectangles" -> RectangleInk(x, o)
      [] list = "circles" -> CircleInk(x, o)
      [] list = "arcs" -> ArcInk(x, o)
      [] list = "ellipses" -> EllipseInk(x, o)
      [] list = "paths" -> PathInk(x, o)
      [] list \in {"polylines", "polygons"} -> PolylineInk(x, o)
      [] list = "texts" -> TextInk(x, o)

LEMMA InkOfItems ==
    ASSUME NEW u, NEW k
    PROVE  k \in SymbolInk(u)
             <=> \E list \in ListNames : \E x \in Range(u[list]) : k \in ItemInk(list, x, Snap(u.origin))
  BY DEF SymbolInk, All, ListNames, ItemInk

LEMMA LeftInk ==
    ASSUME NEW l, NEW o, NEW k
    PROVE  k \in LineInk(l, o)
             <=> \E list \in ListNames : \E x : Leaves(l, list, x) /\ k \in ItemInk(list, x, o)
  <1>1. CASE l.kind \in {"C", "E", "A", "PL", "PG", "PT"}
    <2>1. Lists[l.kind] \in ListNames /\ \A list, x : Leaves(l, list, x) <=> list = Lists[l.kind] /\ x = l
      BY <1>1 DEF Leaves, Lists, ListNames
    <2>2. LineInk(l, o) = ItemInk(Lists[l.kind], l, o)
      BY <1>1 DEF LineInk, ItemInk, Lists
    <2> QED  BY <2>1, <2>2
  <1>2. CASE l.kind = "P"
    <2>1. "pins" \in ListNames /\ \A list, x : Leaves(l, list, x) <=> list = "pins" /\ x = PinOf(l)
      BY <1>2 DEF Leaves, Lists, ListNames
    <2>2. LineInk(l, o) = ItemInk("pins", PinOf(l), o)
      BY <1>2 DEF LineInk, ItemInk
    <2> QED  BY <2>1, <2>2
  <1>3. CASE l.kind = "R"
    <2>1. "rectangles" \in ListNames /\ \A list, x : Leaves(l, list, x) <=> list = "rectangles" /\ x = RectangleOf(l)
      BY <1>3 DEF Leaves, Lists, ListNames
    <2>2. LineInk(l, o) = ItemInk("rectangles", RectangleOf(l), o)
      BY <1>3 DEF LineInk, ItemInk
    <2> QED  BY <2>1, <2>2
  <1>4. CASE l.kind = "T"
    <2>1. /\ "texts" \in ListNames
          /\ \A list, x : Leaves(l, list, x)
               <=> ~(l.parts < 13) /\ l.text # Nothing /\ list = "texts" /\ x = l
      BY <1>4 DEF Leaves, Lists, ListNames
    <2>2. LineInk(l, o) = IF l.parts < 13 \/ l.text = Nothing THEN {} ELSE ItemInk("texts", l, o)
      BY <1>4 DEF LineInk, ItemInk
    <2> QED  BY <2>1, <2>2
  <1>5. CASE l.kind \notin {"C", "E", "A", "PL", "PG", "PT", "P", "R", "T"}
    <2>1. \A list, x : ~Leaves(l, list, x)
      BY <1>5 DEF Leaves, Lists
    <2>2. LineInk(l, o) = {}
      BY <1>5 DEF LineInk
    <2> QED  BY <2>1, <2>2
  <1> QED  BY <1>1, <1>2, <1>3, <1>4, <1>5

LEMMA InkOfLines ==
    ASSUME NEW u, NEW lines, HoldsLines(u, lines)
    PROVE  SymbolInk(u) = UNION {LineInk(l, Snap(u.origin)) : l \in Range(lines)}
  <1> SUFFICES ASSUME NEW k
               PROVE  k \in SymbolInk(u) <=> \E l \in Range(lines) : k \in LineInk(l, Snap(u.origin))
    OBVIOUS
  <1> DEFINE o == Snap(u.origin)
  <1>1. k \in SymbolInk(u)
          <=> \E list \in ListNames : \E x : x \in Range(u[list]) /\ k \in ItemInk(list, x, o)
    BY InkOfItems
  <1>2. \A list \in ListNames : \A x :
           x \in Range(u[list]) <=> \E l \in Range(lines) : Leaves(l, list, x)
    BY DEF HoldsLines
  <1>3. \A l : k \in LineInk(l, o) <=> \E list \in ListNames : \E x : Leaves(l, list, x) /\ k \in ItemInk(list, x, o)
    BY LeftInk
  <1> HIDE DEF o
  <1> QED  BY <1>1, <1>2, <1>3 DEF o

\* A unit of regular lines is exported as it was drawn.

LEMMA UnitIsAsDrawn ==
    ASSUME NEW u, NEW lines \in Seq(SymbolLines), HoldsLines(u, lines), u.origin \in Points,
           \A l \in Range(lines) : Regular(l)
    PROVE  SymbolInk(u) = {Flipped(k, Snap(u.origin)) : k \in All(lines, Canvas)}
  <1> DEFINE o == Snap(u.origin)
  <1>1. OnGrid(o) /\ o \in Points
    BY SnapIsOnGrid
  <1>2. \A l \in Range(lines) : l \in SymbolLines
    BY DEF Range
  <1> HIDE DEF o
  <1>3. \A l \in Range(lines) : LineInk(l, o) = {Flipped(k, o) : k \in Canvas(l)}
    BY <1>1, <1>2, LineIsAsDrawn
  <1>4. SymbolInk(u) = UNION {LineInk(l, o) : l \in Range(lines)}
    BY InkOfLines DEF o
  <1>5. {Flipped(k, o) : k \in All(lines, Canvas)} = UNION {LineInk(l, o) : l \in Range(lines)}
    BY <1>3 DEF All
  <1> QED  BY <1>4, <1>5 DEF o

\* Only texts go through re.sub's template, and none of several units' changes.

LEMMA OnlyTextsSpeak ==
    ASSUME NEW l, Regular(l), NEW k \in Canvas(l), k.what = "text"
    PROVE  l.kind = "T" /\ k.tag = l.text
  <1>0. \A what, ends, via, tag : Ink(what, ends, via, tag).what = what /\ Ink(what, ends, via, tag).tag = tag
    BY DEF Ink
  <1>1. \A p, q, tag, x : x \in Line(p, q, tag) => x.what = "line"
    BY <1>0 DEF Line
  <1>2. CASE l.kind \in {"PL", "PG"}
    <2>1. k \in Outline(l)
      BY <1>2 DEF Canvas
    <2> QED  BY <1>1, <2>1 DEF Outline, Strokes
  <1>3. CASE l.kind = "PT"
    <2>1. PICK i \in 2..Len(l.cmds) : k \in Segment(Pen(l.cmds, i), l.cmds[1].to, l.cmds[i])
      BY <1>3 DEF Canvas, Segments
    <2> DEFINE c == l.cmds[i]  pen == Pen(l.cmds, i)  start == l.cmds[1].to
    <2>2. c.cmd \in {"L", "Z", "C", "Q"}
      BY <1>3 DEF Regular, Simple
    <2> HIDE DEF c, pen, start
    <2>3. CASE c.cmd \in {"L", "Z"}
      BY <1>1, <2>1, <2>3 DEF Segment, c, pen, start
    <2>4. CASE c.cmd \in {"C", "Q"}
      <3>1. Segment(pen, start, c) \in {{Ink("curve", {}, <<pen, c.via[1], c.via[2], c.to>>, Nothing)},
               {Ink("curve", {}, <<pen, Mix(pen, c.via[1]), Mix(c.to, c.via[1]), c.to>>, Nothing)},
               Line(pen, c.to, Nothing)}
        BY <2>4 DEF Segment
      <3> QED  BY <1>0, <1>1, <2>1, <3>1 DEF c, pen, start
    <2> QED  BY <2>2, <2>3, <2>4
  <1>4. CASE l.kind \notin {"PL", "PG", "PT"}
    BY <1>0, <1>4 DEF Canvas, Box
  <1> QED  BY <1>2, <1>3, <1>4

LEMMA InkKeepsItsKind ==
    ASSUME NEW k, NEW o
    PROVE  Flipped(k, o).what = k.what /\ Flipped(k, o).tag = k.tag
  BY DEF Flipped, Moved, Ink

LEMMA SeveralUnitsAreDecoded ==
    ASSUME NEW lines, \A l \in Range(lines) : Regular(l), Len(drawn) # 1, NEW o
    PROVE  {Decoded(i) : i \in {Flipped(k, o) : k \in All(lines, Canvas)}}
             = {Flipped(k, o) : k \in All(lines, Canvas)}
  <1>1. ASSUME NEW k \in All(lines, Canvas)
        PROVE  Decoded(Flipped(k, o)) = Flipped(k, o)
    <2>1. PICK l \in Range(lines) : k \in Canvas(l)
      BY DEF All
    <2>2. k.what = "text" => k.tag # "escape"
      BY <2>1, OnlyTextsSpeak DEF Regular
    <2> QED  BY <2>2, InkKeepsItsKind DEF Decoded
  <1> HIDE DEF All
  <1> QED  BY <1>1

\* An exported symbol is what the export makes of the units that were read.
SymbolIsExported ==
    /\ UnitsAreRead /\ Len(symbol) = Len(drawn) /\ symbol # <<>>
    /\ stage = "done" => exported = Integrated

\* All units share their origin, and every unit is exported under its number.

LEMMA ExportedSymbolIsTheDrawing ==
    ASSUME SymbolIsExported
    PROVE  SymbolIsTheDrawing
  <1> SUFFICES ASSUME stage = "done",
                      \A u \in Range(drawn) : u.name = drawn[1].name /\ \A l \in Range(u.lines) : Regular(l)
               PROVE  /\ DOMAIN exported = Units
                      /\ \E v \in Places : \A n \in Units :
                            exported[n] = {Flipped(k, v) : k \in All(drawn[n + 1].lines, Canvas)}
    BY DEF SymbolIsTheDrawing
  <1> DEFINE N == Len(drawn)  v == Snap(symbol[1].origin)
             Drawn(n) == {Flipped(k, v) : k \in All(drawn[n].lines, Canvas)}
  <1>1. /\ drawn \in Seq(UnitRecords) /\ N >= 1 /\ N \in Nat /\ Len(symbol) = N
        /\ symbol \in Seq(SymbolRecords)
    BY DEF SymbolIsExported, UnitsAreRead
  <1>2. \A i \in 1..N : /\ symbol[i].name = drawn[i].name /\ symbol[i].origin = Origin(drawn[i])
                         /\ HoldsLines(symbol[i], drawn[i].lines)
    BY DEF SymbolIsExported, UnitsAreRead
  <1>3. \A i \in 1..N : /\ drawn[i] \in UnitRecords /\ drawn[i].name = drawn[1].name
                         /\ \A l \in Range(drawn[i].lines) : Regular(l)
    BY <1>1 DEF Range
  <1>4. \A i \in 1..N : drawn[i].lines \in Seq(SymbolLines) /\ symbol[i].origin \in Points
    BY <1>1, <1>2, <1>3, OriginIsPoint DEF UnitRecords
  <1>5. \A i \in 1..N : symbol[i].origin = symbol[1].origin
    <2>1. CASE N = 1
      BY <2>1
    <2>2. CASE N > 1
      <3>1. drawn[2].head \in Points /\ SharedOrigin = drawn[2].head
        BY <1>1, <1>3, <2>2 DEF SharedOrigin, UnitRecords
      <3>2. SharedOrigin # Nothing
        BY <3>1, UnitAssumption
      <3>3. \A u : Origin(u) = SharedOrigin
        BY <3>2 DEF Origin
      <3> QED  BY <1>1, <1>2, <3>3
    <2> QED  BY <1>1, <2>1, <2>2
  <1>6. \A i \in 1..N : SymbolInk(symbol[i]) = Drawn(i)
    <2> SUFFICES ASSUME NEW i \in 1..N
                 PROVE  SymbolInk(symbol[i]) = Drawn(i)
      OBVIOUS
    <2> DEFINE u == symbol[i]  lines == drawn[i].lines
    <2>1. HoldsLines(u, lines) /\ lines \in Seq(SymbolLines) /\ u.origin \in Points /\ \A l \in Range(lines) : Regular(l)
      BY <1>2, <1>3, <1>4
    <2>2. Snap(u.origin) = v
      BY <1>5
    <2> HIDE DEF u, lines, v
    <2>3. SymbolInk(u) = {Flipped(k, Snap(u.origin)) : k \in All(lines, Canvas)}
      BY <2>1, UnitIsAsDrawn
    <2> QED  BY <2>2, <2>3 DEF u, lines
  <1>7. v \in Places
    <2>1. OnGrid(v)
      BY <1>1, <1>4, SnapIsOnGrid
    <2>2. v[1] % Grid = 0 /\ v[2] % Grid = 0
      BY <2>1, GridIsDivided
    <2>3. symbol[1] \in Range(symbol)
      BY <1>1 DEF Range
    <2> QED  BY <2>2, <2>3 DEF Places
  <1> HIDE DEF v, Drawn
  <1>8. CASE N = 1
    <2>1. Matched = {} /\ Units = {0}
      <3>1. 2..Len(symbol) = {}
        BY <1>1, <1>8
      <3> QED  BY <1>8, <3>1 DEF Matched, Units
    <2>2. exported = [i \in {0} |-> SymbolInk(symbol[1])]
      BY <2>1 DEF SymbolIsExported, Integrated
    <2>3. exported[0] = Drawn(1) /\ 0 + 1 = 1
      BY <1>1, <1>6, <2>2
    <2> QED  BY <1>7, <2>1, <2>2, <2>3 DEF Drawn
  <1>9. CASE N # 1
    <2>1. Matched = 2..N /\ Units = 1..N - 1
      BY <1>1, <1>2, <1>3, <1>9 DEF Matched, Units
    <2>2. {i - 1 : i \in Matched} = Units /\ Matched # {}
      <3>1. \A n \in 1..N - 1 : n + 1 \in 2..N /\ n = (n + 1) - 1
        BY <1>1
      <3>2. \A i \in 2..N : i - 1 \in 1..N - 1
        BY <1>1
      <3>3. 2 \in 2..N
        BY <1>1, <1>9
      <3> QED  BY <2>1, <3>1, <3>2, <3>3
    <2>3. exported = [n \in Units |-> {Decoded(k) : k \in SymbolInk(symbol[n + 1])}]
      BY <2>2 DEF SymbolIsExported, Integrated
    <2>4. \A n \in Units : n + 1 \in 1..N
      BY <1>1, <2>1
    <2>5. \A n \in Units : exported[n] = Drawn(n + 1)
      <3> SUFFICES ASSUME NEW n \in Units
                   PROVE  {Decoded(k) : k \in Drawn(n + 1)} = Drawn(n + 1)
        BY <1>6, <2>3, <2>4
      <3> DEFINE lines == drawn[n + 1].lines
      <3>1. \A l \in Range(lines) : Regular(l)
        BY <1>3, <2>4
      <3> HIDE DEF lines
      <3>2. {Decoded(i) : i \in {Flipped(k, v) : k \in All(lines, Canvas)}}
             = {Flipped(k, v) : k \in All(lines, Canvas)}
        BY <1>9, <3>1, SeveralUnitsAreDecoded
      <3> QED  BY <3>2 DEF Drawn, lines
    <2> QED  BY <1>7, <2>3, <2>5 DEF Drawn
  <1> QED  BY <1>8, <1>9

-----------------------------------------------------------------------------
(* Packages: holes, texts, lines and pads, each as it is drawn.            *)

LEMMA ShiftedInk ==
    ASSUME NEW what, NEW ends, NEW via, NEW tag, NEW o
    PROVE  Shifted(Ink(what, ends, via, tag), o) =
             Ink(what, {Off(p, o) : p \in ends}, [i \in DOMAIN via |-> Off(via[i], o)], tag)
  BY DEF Shifted, Moved, Ink

LEMMA ShiftedPoint ==
    ASSUME NEW what, NEW p, NEW tag, NEW o
    PROVE  Shifted(Ink(what, {p}, <<>>, tag), o) = Ink(what, {Off(p, o)}, <<>>, tag)
  <1> DEFINE none == <<>>
  <1>1. {Off(q, o) : q \in {p}} = {Off(p, o)} /\ [i \in DOMAIN none |-> Off(none[i], o)] = none
    OBVIOUS
  <1> HIDE DEF none
  <1>2. Shifted(Ink(what, {p}, none, tag), o) = Ink(what, {Off(p, o)}, none, tag)
    BY <1>1, ShiftedInk
  <1> QED  BY <1>2 DEF none

LEMMA AngleIsTheSame ==
    ASSUME NEW a \in Int
    PROVE  AngleToKi(a) % 360 = a % 360
  BY DEF AngleToKi

LEMMA SideOfText ==
    ASSUME NEW l
    PROVE  TextLayer(l)[1] = "B" <=> l.layer \in Bottom
  <1>1. TextLayer(l)[1] = LayerOf(l.layer)[1]
    BY DEF TextLayer
  <1>2. CASE l.layer \in DOMAIN KiLayers
    <2>1. l.layer \in 1..8 \union {10, 12, 13, 14, 15, 99, 100, 101} /\ LayerOf(l.layer) = KiLayers[l.layer]
      BY <1>2 DEF LayerOf, KiLayers
    <2>2. KiLayers[l.layer][1] = CASE l.layer \in {2, 4, 6, 8, 14} -> "B"
                                   [] l.layer \in {10, 12, 15} -> Nothing [] OTHER -> "F"
      BY <2>1 DEF KiLayers
    <2>3. Nothing # "B"
      BY UnitAssumption
    <2> QED  BY <1>1, <2>1, <2>2, <2>3 DEF Bottom
  <1>3. CASE l.layer \notin DOMAIN KiLayers
    <2>1. LayerOf(l.layer)[1] = "F" /\ l.layer \notin Bottom
      BY <1>3 DEF LayerOf, KiLayers, Bottom
    <2> QED  BY <1>1, <2>1
  <1> QED  BY <1>2, <1>3

LEMMA SpotIsAsDrawn ==
    ASSUME NEW l \in PackageLines, RegularGraphic(l), l.kind \in {"HOLE", "VIA", "CIRCLE", "ARC", "TEXT"}, NEW o
    PROVE  GraphicInk(l, o) = {Shifted(k, o) : k \in PackageCanvas(l)}
  <1>1. CASE l.kind = "HOLE"
    <2>1. GraphicInk(l, o) = {Ink("hole", {Off(l.at, o)}, <<>>, 2 * l.radius)}
      BY <1>1 DEF GraphicInk
    <2>2. PackageCanvas(l) = {Ink("hole", {l.at}, <<>>, 2 * l.radius)}
      BY <1>1 DEF PackageCanvas
    <2> QED  BY <2>1, <2>2, ShiftedPoint
  <1>2. CASE l.kind = "VIA"
    <2> DEFINE tag == <<2 * l.radius, l.diameter>>
    <2>1. GraphicInk(l, o) = {Ink("via", {Off(l.at, o)}, <<>>, tag)}
      BY <1>2 DEF GraphicInk
    <2>2. PackageCanvas(l) = {Ink("via", {l.at}, <<>>, tag)}
      BY <1>2 DEF PackageCanvas
    <2> HIDE DEF tag
    <2> QED  BY <2>1, <2>2, ShiftedPoint
  <1>3. CASE l.kind = "CIRCLE"
    <2> DEFINE tag == <<l.radius, LayerOf(l.layer)>>
    <2>1. GraphicInk(l, o) = {Ink("circle", {Off(l.at, o)}, <<>>, tag)}
      BY <1>3 DEF GraphicInk
    <2>2. PackageCanvas(l) = {Ink("circle", {l.at}, <<>>, tag)}
      BY <1>3 DEF PackageCanvas
    <2> HIDE DEF tag
    <2> QED  BY <2>1, <2>2, ShiftedPoint
  <1>4. CASE l.kind = "ARC"
    <2> DEFINE tag == <<l.extent, LayerOf(l.layer)>>  via == <<l.centre>>
    <2>1. GraphicInk(l, o) = {Ink("arc", {Off(l.end, o)}, <<Off(l.centre, o)>>, tag)}
      BY <1>4 DEF GraphicInk, FootprintArc, RegularGraphic
    <2>2. PackageCanvas(l) = {Ink("arc", {l.end}, via, tag)}
      BY <1>4 DEF PackageCanvas
    <2>3. [i \in DOMAIN via |-> Off(via[i], o)] = <<Off(l.centre, o)>> /\ {Off(q, o) : q \in {l.end}} = {Off(l.end, o)}
      OBVIOUS
    <2> HIDE DEF tag, via
    <2>4. Shifted(Ink("arc", {l.end}, via, tag), o) = Ink("arc", {Off(l.end, o)}, <<Off(l.centre, o)>>, tag)
      BY <2>3, ShiftedInk
    <2> QED  BY <2>1, <2>2, <2>4
  <1>5. CASE l.kind = "TEXT"
    <2> DEFINE tag == <<l.turn % 360, TextLayer(l), l.layer \in Bottom>>
    <2>1. AngleToKi(l.turn) % 360 = l.turn % 360
      BY <1>5, AngleIsTheSame, PackageAssumption
    <2>2. (TextLayer(l)[1] = "B") = (l.layer \in Bottom)
      BY SideOfText
    <2>3. GraphicInk(l, o) = {Ink("text", {Off(l.at, o)}, <<>>, tag)}
      BY <1>5, <2>1, <2>2 DEF GraphicInk, FootprintText
    <2>4. PackageCanvas(l) = {Ink("text", {l.at}, <<>>, tag)}
      BY <1>5 DEF PackageCanvas
    <2> HIDE DEF tag
    <2> QED  BY <2>3, <2>4, ShiftedPoint
  <1> QED  BY <1>1, <1>2, <1>3, <1>4, <1>5

LEMMA FourStrokes ==
    ASSUME NEW s, Len(s) = 5, NEW tag
    PROVE  Strokes(s, tag) = UNION {Line(s[1], s[2], tag), Line(s[2], s[3], tag),
                                    Line(s[3], s[4], tag), Line(s[4], s[5], tag)}
  <1>1. 1..Len(s) - 1 = {1, 2, 3, 4}
    OBVIOUS
  <1>2. Strokes(s, tag) = UNION {Line(s[i], s[i + 1], tag) : i \in {1, 2, 3, 4}}
    BY <1>1 DEF Strokes
  <1>3. {Line(s[i], s[i + 1], tag) : i \in {1, 2, 3, 4}}
          = {Line(s[1], s[1 + 1], tag), Line(s[2], s[2 + 1], tag),
             Line(s[3], s[3 + 1], tag), Line(s[4], s[4 + 1], tag)}
    OBVIOUS
  <1>4. 1 + 1 = 2 /\ 2 + 1 = 3 /\ 3 + 1 = 4 /\ 4 + 1 = 5
    OBVIOUS
  <1> QED  BY <1>2, <1>3, <1>4

LEMMA LineHasNoDirection ==
    ASSUME NEW p, NEW q, NEW tag
    PROVE  Line(p, q, tag) = Line(q, p, tag) /\ Line(p, p, tag) = {}
  <1>1. {p, q} = {q, p}
    OBVIOUS
  <1> QED  BY <1>1 DEF Line

\* The four segments of a rectangle are its sides, also when it is flat.

LEMMA SidesAreTheFrame ==
    ASSUME NEW l
    PROVE  Strokes(Sides(l), LayerOf(l.layer)) = Frame(l)
  <1> DEFINE x == l.at[1]  y == l.at[2]  u == l.at[1] + l.size[1]  v == l.at[2] + l.size[2]
             a == <<x, y>>  b == <<u, y>>  c == <<u, v>>  d == <<x, v>>  tag == LayerOf(l.layer)
             s == Sides(l)
             S(p, q) == IF p[1] = q[1] \/ p[2] = q[2] THEN Line(p, q, tag) ELSE {}
  <1>1. Len(s) = 5 /\ s[1] = a /\ s[2] = b /\ s[3] = c /\ s[4] = d /\ s[5] = a
    BY DEF Sides
  <1>2. {x, u} \X {y, v} = {a, b, c, d}
    OBVIOUS
  <1>3. Frame(l) = UNION {S(p, q) : p, q \in {a, b, c, d}}
    BY <1>2 DEF Frame
  <1>4. /\ a[1] = d[1] /\ b[1] = c[1] /\ a[2] = b[2] /\ c[2] = d[2]
        /\ a[1] = c[1] \/ a[2] = c[2] => a = b \/ a = d
        /\ a[1] = c[1] => a = b /\ c = d
        /\ a[2] = c[2] => a = d /\ b = c
        /\ b[1] = d[1] => a = b /\ c = d
        /\ b[2] = d[2] => a = d /\ b = c
    OBVIOUS
  <1> HIDE DEF a, b, c, d, s, tag
  <1>5. Strokes(s, tag) = UNION {Line(a, b, tag), Line(b, c, tag), Line(c, d, tag), Line(d, a, tag)}
    BY <1>1, FourStrokes
  <1>6. /\ S(a, a) = {} /\ S(b, b) = {} /\ S(c, c) = {} /\ S(d, d) = {}
        /\ S(a, b) = Line(a, b, tag) /\ S(b, a) = Line(a, b, tag)
        /\ S(b, c) = Line(b, c, tag) /\ S(c, b) = Line(b, c, tag)
        /\ S(c, d) = Line(c, d, tag) /\ S(d, c) = Line(c, d, tag)
        /\ S(d, a) = Line(d, a, tag) /\ S(a, d) = Line(d, a, tag)
    BY <1>4, LineHasNoDirection
  <1>7. S(a, c) \subseteq Strokes(s, tag) /\ S(c, a) \subseteq Strokes(s, tag)
    <2>1. CASE a[1] = c[1] \/ a[2] = c[2]
      <3>1. (a = b /\ c = d) \/ (a = d /\ b = c)
        BY <1>4, <2>1
      <3>2. S(a, c) = Line(a, c, tag) /\ S(c, a) = Line(a, c, tag)
        BY <2>1, LineHasNoDirection
      <3>3. Line(a, c, tag) \in {Line(b, c, tag), Line(a, b, tag)}
        BY <3>1
      <3> QED  BY <1>5, <3>2, <3>3
    <2>2. CASE ~(a[1] = c[1] \/ a[2] = c[2])
      BY <2>2
    <2> QED  BY <2>1, <2>2
  <1>8. S(b, d) \subseteq Strokes(s, tag) /\ S(d, b) \subseteq Strokes(s, tag)
    <2>1. CASE b[1] = d[1] \/ b[2] = d[2]
      <3>1. (a = b /\ c = d) \/ (a = d /\ b = c)
        BY <1>4, <2>1
      <3>2. S(b, d) = Line(b, d, tag) /\ S(d, b) = Line(b, d, tag)
        BY <2>1, LineHasNoDirection
      <3>3. Line(b, d, tag) \in {Line(b, c, tag), Line(c, d, tag)}
        BY <3>1
      <3> QED  BY <1>5, <3>2, <3>3
    <2>2. CASE ~(b[1] = d[1] \/ b[2] = d[2])
      BY <2>2
    <2> QED  BY <2>1, <2>2
  <1> HIDE DEF S
  <1>9. UNION {S(p, q) : p, q \in {a, b, c, d}} = Strokes(s, tag)
    BY <1>5, <1>6, <1>7, <1>8
  <1> QED  BY <1>3, <1>9 DEF s, tag, a, b, c, d

LEMMA LinesAreAsDrawn ==
    ASSUME NEW l, l.kind \in {"TRACK", "RECT"}, NEW o
    PROVE  GraphicInk(l, o) = {Shifted(k, o) : k \in PackageCanvas(l)}
  BY SidesAreTheFrame DEF GraphicInk, PackageCanvas

\* drill_to_ki turns a long slot the one way in which it fits its pad.

LEMMA SlotFitsOneWay ==
    ASSUME NEW l \in PackageLines, l.kind = "PAD", RegularGraphic(l)
    PROVE  Drill(l) = IF DrillToKi(l.hole, l.slot, l.size) = Nothing THEN {}
                      ELSE {Ink("drill", {l.at}, <<>>, DrillToKi(l.hole, l.slot, l.size))}
  <1> DEFINE h == l.hole  s == l.slot  x == l.size[1]  y == l.size[2]  d == DrillToKi(h, s, l.size)
             Fit(e) == e[1] <= x /\ e[2] <= y
  <1>1. h \in Int /\ s \in Int /\ x \in Int /\ y \in Int /\ h >= 0
    BY PackageAssumption DEF Points
  <1>2. CASE h = 0
    <2>1. d = Nothing
      BY <1>1, <1>2 DEF DrillToKi
    <2>2. Drill(l) = {}
      BY <1>2 DEF Drill
    <2> QED  BY <2>1, <2>2
  <1>3. CASE h # 0 /\ s = 0
    <2>1. d = <<h, h>> /\ d # Nothing
      BY <1>1, <1>3, UnitAssumption DEF DrillToKi, Points
    <2>2. Drill(l) = {Ink("drill", {l.at}, <<>>, d)}
      BY <1>3, <2>1 DEF Drill
    <2> QED  BY <2>1, <2>2
  <1>4. CASE h # 0 /\ s # 0
    <2>1. s >= h /\ Cardinality(Slots(l)) = 1
      BY <1>1, <1>4 DEF RegularGraphic
    <2>2. d = (IF y >= x THEN <<h, s>> ELSE <<s, h>>) /\ d # Nothing
      BY <1>1, <1>4, UnitAssumption DEF DrillToKi, Points
    <2>3. Slots(l) = {e \in {<<h, s>>, <<s, h>>} : Fit(e)}
      BY DEF Slots
    <2>4. IsFiniteSet(Slots(l))
      <3>1. IsFiniteSet({<<h, s>>, <<s, h>>})
        <4>1. IsFiniteSet({<<h, s>>} \cup {<<s, h>>})
          BY FS_Singleton, FS_Union
        <4> QED  BY <4>1
      <3> QED  BY <2>3, <3>1, FS_Subset
    <2>5. PICK e : Slots(l) = {e}
      BY <2>1, <2>4, FS_Singleton
    <2>6. e = d
      <3>1. CASE y >= x
        <4>1. Fit(<<s, h>>) => Fit(<<h, s>>)
          BY <1>1, <2>1, <3>1
        <4>2. <<h, s>> \in Slots(l)
          BY <2>3, <2>5, <4>1
        <4> QED  BY <2>2, <2>5, <3>1, <4>2
      <3>2. CASE ~(y >= x)
        <4>1. Fit(<<h, s>>) => Fit(<<s, h>>)
          BY <1>1, <2>1, <3>2
        <4>2. <<s, h>> \in Slots(l)
          BY <2>3, <2>5, <4>1
        <4> QED  BY <2>2, <2>5, <3>2, <4>2
      <3> QED  BY <3>1, <3>2
    <2>7. Drill(l) = {Ink("drill", {l.at}, <<>>, d)}
      BY <1>4, <2>5, <2>6 DEF Drill
    <2> QED  BY <2>2, <2>7
  <1> QED  BY <1>2, <1>3, <1>4

\* A pad's polygon is taken relative to the pad and is not turned again.

LEMMA PadIsAsDrawn ==
    ASSUME NEW l \in PackageLines, RegularGraphic(l), l.kind = "PAD", NEW o \in Points
    PROVE  GraphicInk(l, o) = {Shifted(k, o) : k \in PackageCanvas(l)}
  <1> DEFINE k == Pad(l, o)  tag == <<PadNumber(l), l.hole > 0>>
             drill == DrillToKi(l.hole, l.slot, l.size)
             outlined == l.shape = "POLYGON" /\ l.points # <<>>
             Body == IF outlined THEN Ink("outline", {}, l.points, tag)
                     ELSE Ink("pad", {l.at}, <<>>, <<tag, l.size, l.turn % 360>>)
             KiBody == IF k.polygon = <<>> THEN Ink("pad", {k.at}, <<>>, <<tag, k.size, k.turn % 360>>)
                       ELSE Ink("outline", {},
                                [i \in DOMAIN k.polygon |->
                                    LET q == Turned(k.polygon[i], k.turn) IN <<q[1] + k.at[1], q[2] + k.at[2]>>],
                                tag)
  <1>1. /\ l.shape \in {"ELLIPSE", "RECT", "OVAL", "POLYGON"} /\ l.turn \in Int
        /\ l.at \in Points /\ l.points \in Seq(Points)
    BY PackageAssumption
  <1>2. /\ k.at = Off(l.at, o) /\ k.size = l.size /\ k.through = (l.hole > 0) /\ k.number = PadNumber(l)
        /\ k.drill = drill
        /\ k.turn = (IF outlined THEN 0 ELSE AngleToKi(l.turn))
        /\ k.polygon = (IF outlined THEN [i \in DOMAIN l.points |-> Off(Off(l.points[i], o), k.at)] ELSE <<>>)
    BY <1>1 DEF Pad, PadShape
  <1>3. GraphicInk(l, o) = {KiBody} \union (IF drill = Nothing THEN {} ELSE {Ink("drill", {k.at}, <<>>, drill)})
    BY <1>2 DEF GraphicInk, PadInk
  <1>4. PackageCanvas(l) = Drill(l) \union {Body}
    BY DEF PackageCanvas
  <1>5. Shifted(Body, o) = KiBody
    <2>1. CASE ~outlined
      <3> DEFINE t == <<tag, l.size, l.turn % 360>>
      <3>1. AngleToKi(l.turn) % 360 = l.turn % 360
        BY <1>1, AngleIsTheSame
      <3>2. KiBody = Ink("pad", {Off(l.at, o)}, <<>>, t)
        BY <1>2, <2>1, <3>1
      <3>3. Body = Ink("pad", {l.at}, <<>>, t)
        BY <2>1
      <3> HIDE DEF KiBody, Body, t
      <3> QED  BY <3>2, <3>3, ShiftedPoint
    <2>2. CASE outlined
      <3> DEFINE via == l.points  at == k.at
      <3>0. at \in Points
        BY <1>1, <1>2 DEF Off, Points
      <3>1. DOMAIN via # {} /\ at \in Points /\ \A i \in DOMAIN via : via[i] \in Points
        <4>1. via \in Seq(Points) /\ via # <<>>
          BY <1>1, <2>2
        <4>2. Len(via) \in Nat /\ Len(via) # 0 /\ DOMAIN via = 1..Len(via)
          <5> HIDE DEF via
          <5> QED  BY <4>1, EmptySeq, LenProperties
        <4>3. DOMAIN via # {}
          BY <4>2
        <4> HIDE DEF via, at
        <4> QED  BY <3>0, <4>1, <4>3
      <3>2. k.turn % 360 = 0 /\ k.polygon = [i \in DOMAIN via |-> Off(Off(via[i], o), at)]
        BY <1>2, <2>2
      <3>3. DOMAIN k.polygon = DOMAIN via /\ k.polygon # <<>>
        BY <3>1, <3>2
      <3>4. \A p : Turned(p, k.turn) = p
        BY <3>2 DEF Turned
      <3>5. \A i \in DOMAIN via : <<k.polygon[i][1] + at[1], k.polygon[i][2] + at[2]>> = Off(via[i], o)
        <4> SUFFICES ASSUME NEW i \in DOMAIN via
                     PROVE  <<k.polygon[i][1] + at[1], k.polygon[i][2] + at[2]>> = Off(via[i], o)
          OBVIOUS
        <4>1. via[i] \in Points
          BY <3>1
        <4>2. k.polygon[i] = Off(Off(via[i], o), at)
          BY <3>2
        <4> HIDE DEF via, at, k
        <4> QED  BY <3>1, <4>1, <4>2 DEF Off, Points
      <3>6. KiBody = Ink("outline", {}, [i \in DOMAIN via |-> Off(via[i], o)], tag)
        BY <3>3, <3>4, <3>5
      <3>7. Body = Ink("outline", {}, via, tag)
        BY <2>2
      <3>8. {Off(p, o) : p \in {}} = {}
        OBVIOUS
      <3> HIDE DEF KiBody, Body, via, tag
      <3> QED  BY <3>6, <3>7, <3>8, ShiftedInk
    <2> QED  BY <2>1, <2>2
  <1>6. Drill(l) = IF drill = Nothing THEN {} ELSE {Ink("drill", {l.at}, <<>>, drill)}
    BY SlotFitsOneWay
  <1> HIDE DEF Body, KiBody, drill, tag
  <1>7. Shifted(Ink("drill", {l.at}, <<>>, drill), o) = Ink("drill", {k.at}, <<>>, drill)
    BY <1>2, ShiftedPoint
  <1> DEFINE D == IF drill = Nothing THEN {} ELSE {Ink("drill", {l.at}, <<>>, drill)}
  <1>8. {Shifted(i, o) : i \in D} = IF drill = Nothing THEN {} ELSE {Ink("drill", {k.at}, <<>>, drill)}
    BY <1>7
  <1>9. PackageCanvas(l) = D \union {Body}
    BY <1>4, <1>6
  <1> HIDE DEF D, k
  <1>10. {Shifted(i, o) : i \in D \union {Body}} = {KiBody} \union {Shifted(i, o) : i \in D}
    BY <1>5
  <1> QED  BY <1>3, <1>8, <1>9, <1>10

-----------------------------------------------------------------------------
(* The regions of packages.                                                *)

IsLastBut(cmds, i, keeps, j) ==
    j \in 1..i /\ cmds[j].cmd # keeps /\ \A k \in j + 1..i : cmds[k].cmd = keeps

LEMMA LastIsUnique ==
    ASSUME NEW cmds, NEW i \in Nat, NEW keeps, NEW j, IsLastBut(cmds, i, keeps, j)
    PROVE  LastBut(cmds, i, keeps) = j
  <1>1. \A a, b : IsLastBut(cmds, i, keeps, a) /\ IsLastBut(cmds, i, keeps, b) => ~(a < b)
    <2> SUFFICES ASSUME NEW a, NEW b, IsLastBut(cmds, i, keeps, a), IsLastBut(cmds, i, keeps, b), a < b
                 PROVE  FALSE
      OBVIOUS
    <2>1. a \in 1..i /\ b \in 1..i
      BY DEF IsLastBut
    <2>2. b \in a + 1..i
      BY <2>1
    <2> QED  BY <2>2 DEF IsLastBut
  <1>2. LastBut(cmds, i, keeps) =
           CHOOSE a \in 1..i : cmds[a].cmd # keeps /\ \A k \in a + 1..i : cmds[k].cmd = keeps
    BY DEF LastBut
  <1>3. IsLastBut(cmds, i, keeps, LastBut(cmds, i, keeps))
    BY <1>2 DEF IsLastBut
  <1>4. LastBut(cmds, i, keeps) \in Int /\ j \in Int
    BY <1>3 DEF IsLastBut
  <1> QED  BY <1>1, <1>3, <1>4

LEMMA LastOfOther ==
    ASSUME NEW cmds, NEW i \in Nat \ {0}, NEW keeps, cmds[i].cmd # keeps
    PROVE  LastBut(cmds, i, keeps) = i
  <1>1. IsLastBut(cmds, i, keeps, i)
    BY DEF IsLastBut
  <1> QED  BY <1>1, LastIsUnique

LEMMA LastExists ==
    ASSUME NEW cmds, NEW keeps, cmds[1].cmd # keeps
    PROVE  \A i \in Nat \ {0} : \E j : IsLastBut(cmds, i, keeps, j)
  <1> DEFINE T == {i \in Nat : i = 0 \/ \E j : IsLastBut(cmds, i, keeps, j)}
  <1>1. 0 \in T
    OBVIOUS
  <1>2. ASSUME NEW i \in Nat, i \in T PROVE i + 1 \in T
    <2>1. CASE cmds[i + 1].cmd # keeps
      <3>1. IsLastBut(cmds, i + 1, keeps, i + 1)
        BY <2>1 DEF IsLastBut
      <3> QED  BY <3>1
    <2>2. CASE cmds[i + 1].cmd = keeps
      <3>1. i # 0
        BY <2>2
      <3>2. PICK j : IsLastBut(cmds, i, keeps, j)
        BY <1>2, <3>1
      <3>3. j \in 1..i /\ cmds[j].cmd # keeps /\ \A k \in j + 1..i : cmds[k].cmd = keeps
        BY <3>2 DEF IsLastBut
      <3>4. j \in 1..i + 1 /\ \A k \in j + 1..i + 1 : k \in j + 1..i \/ k = i + 1
        BY <3>3
      <3>5. IsLastBut(cmds, i + 1, keeps, j)
        BY <2>2, <3>3, <3>4 DEF IsLastBut
      <3> QED  BY <3>5
    <2> QED  BY <2>1, <2>2
  <1> HIDE DEF T
  <1>3. Nat \subseteq T
    BY <1>1, <1>2, NatSetInduction
  <1> QED  BY <1>3 DEF T

LEMMA LastOfSame ==
    ASSUME NEW cmds, NEW i \in Nat \ {0}, NEW keeps, cmds[1].cmd # keeps, cmds[i + 1].cmd = keeps
    PROVE  LastBut(cmds, i + 1, keeps) = LastBut(cmds, i, keeps)
  <1>1. PICK j : IsLastBut(cmds, i, keeps, j)
    BY LastExists
  <1>2. j \in 1..i /\ cmds[j].cmd # keeps /\ \A k \in j + 1..i : cmds[k].cmd = keeps
    BY <1>1 DEF IsLastBut
  <1>3. j \in 1..i + 1 /\ \A k \in j + 1..i + 1 : k \in j + 1..i \/ k = i + 1
    BY <1>2
  <1>4. IsLastBut(cmds, i + 1, keeps, j)
    BY <1>2, <1>3 DEF IsLastBut
  <1> QED  BY <1>1, <1>4, LastIsUnique

\* Each command's corner follows from the one before.

LEMMA CornerFollows ==
    ASSUME NEW cmds, cmds[1].cmd = "M", NEW i \in Nat \ {0}, cmds[i + 1].to \in Points
    PROVE  Corner(cmds, i + 1) =
              CASE cmds[i + 1].cmd = "H" -> <<cmds[i + 1].to[1], Corner(cmds, i)[2]>>
                [] cmds[i + 1].cmd = "V" -> <<Corner(cmds, i)[1], cmds[i + 1].to[2]>>
                [] OTHER -> cmds[i + 1].to
  <1> DEFINE c == cmds[i + 1]
  <1>1. i + 1 \in Nat \ {0}
    OBVIOUS
  <1>2. /\ c.cmd # "V" => LastBut(cmds, i + 1, "V") = i + 1
        /\ c.cmd # "H" => LastBut(cmds, i + 1, "H") = i + 1
    BY <1>1, LastOfOther
  <1>3. /\ c.cmd = "V" => LastBut(cmds, i + 1, "V") = LastBut(cmds, i, "V")
        /\ c.cmd = "H" => LastBut(cmds, i + 1, "H") = LastBut(cmds, i, "H")
    BY LastOfSame
  <1>4. c.to = <<c.to[1], c.to[2]>>
    BY DEF Points
  <1> QED  BY <1>2, <1>3, <1>4 DEF Corner

LEMMA FirstCorner ==
    ASSUME NEW cmds, cmds[1].cmd = "M", cmds[1].to \in Points
    PROVE  Corner(cmds, 1) = cmds[1].to
  <1>1. LastBut(cmds, 1, "V") = 1 /\ LastBut(cmds, 1, "H") = 1
    BY LastOfOther
  <1>2. cmds[1].to = <<cmds[1].to[1], cmds[1].to[2]>>
    BY DEF Points
  <1> QED  BY <1>1, <1>2 DEF Corner

RegionStates == [points : Seq(Points), cur : Points]

LEMMA RegionCommandIsTyped ==
    ASSUME NEW s \in RegionStates, NEW c, c.to \in Points
    PROVE  RegionCommand(s, c) \in RegionStates
  <1>1. s.points \in Seq(Points) /\ s.cur \in Points
    BY DEF RegionStates
  <1>2. <<c.to[1], s.cur[2]>> \in Points /\ <<s.cur[1], c.to[2]>> \in Points
    BY <1>1 DEF Points
  <1>3. \A p \in Points : [points |-> Append(s.points, p), cur |-> p] \in RegionStates
    BY <1>1, AppendProperties DEF RegionStates
  <1>4. s.points # <<>> => Append(s.points, Head(s.points)) \in Seq(Points)
    BY <1>1, HeadTailProperties, AppendProperties
  <1>5. CASE c.cmd \in {"M", "L", "A"}
    BY <1>3, <1>5 DEF RegionCommand
  <1>6. CASE c.cmd = "H"
    BY <1>2, <1>3, <1>6 DEF RegionCommand
  <1>7. CASE c.cmd = "V"
    BY <1>2, <1>3, <1>7 DEF RegionCommand
  <1>8. CASE c.cmd = "Z" /\ s.points # <<>> /\ Head(s.points) # Last(s.points)
    <2>1. RegionCommand(s, c) = [s EXCEPT !.points = Append(@, Head(@))]
      BY <1>8 DEF RegionCommand
    <2> QED  BY <1>1, <1>4, <1>8, <2>1 DEF RegionStates
  <1>9. CASE ~(c.cmd \in {"M", "L", "A", "H", "V"} \/ (c.cmd = "Z" /\ s.points # <<>> /\ Head(s.points) # Last(s.points)))
    <2>1. RegionCommand(s, c) = s
      BY <1>9 DEF RegionCommand
    <2> QED  BY <2>1
  <1> QED  BY <1>5, <1>6, <1>7, <1>8, <1>9

LEMMA RegionIsTraced ==
    ASSUME NEW cmds, cmds \in Seq(Range(cmds)), \A c \in Range(cmds) : c.to \in Points
    PROVE  /\ RegionTraced(cmds) \in [0..Len(cmds) -> RegionStates]
           /\ RegionTraced(cmds)[0] = RegionStart
           /\ \A n \in 1..Len(cmds) :
                 RegionTraced(cmds)[n] = RegionCommand(RegionTraced(cmds)[n - 1], cmds[n])
  <1> DEFINE N == Len(cmds)
             G == [x \in RegionStates \X (1..N) |-> RegionCommand(x[1], cmds[x[2]])]
  <1>1. N \in Nat /\ \A n \in 1..N : cmds[n].to \in Points
    <2>1. N \in Nat /\ DOMAIN cmds = 1..N
      BY LenProperties
    <2> QED  BY <2>1 DEF Range
  <1>2. G \in [RegionStates \X (1..N) -> RegionStates]
    <2>1. ASSUME NEW x \in RegionStates \X (1..N) PROVE RegionCommand(x[1], cmds[x[2]]) \in RegionStates
      <3>1. x[1] \in RegionStates /\ x[2] \in 1..N
        OBVIOUS
      <3>2. cmds[x[2]].to \in Points
        BY <1>1, <3>1
      <3> HIDE DEF N
      <3> QED  BY <3>1, <3>2, RegionCommandIsTyped
    <2> QED  BY <2>1
  <1>3. RegionStart \in RegionStates
    BY DEF RegionStart, RegionStates, Points
  <1> HIDE DEF G
  <1> HIDE DEF N
  <1>4. PICK f : IsLoop(f, RegionStates, RegionStart, N, G)
    BY <1>1, <1>2, <1>3, LoopExists
  <1> USE DEF N, IsLoop
  <1>5. ASSUME NEW n \in 1..N PROVE f[n] = RegionCommand(f[n - 1], cmds[n])
    <2>1. n - 1 \in 0..N /\ f[n - 1] \in RegionStates
      BY <1>1, <1>4
    <2>2. G[<<f[n - 1], n>>] = RegionCommand(f[n - 1], cmds[n])
      BY <2>1 DEF G
    <2> QED  BY <1>4, <2>2
  <1>6. f = [n \in 0..N |-> IF n = 0 THEN RegionStart ELSE RegionCommand(f[n - 1], cmds[n])]
    <2>1. \A n \in 0..N : n = 0 \/ n \in 1..N
      BY <1>1
    <2> QED  BY <1>4, <1>5, <2>1
  <1>7. RegionTraced(cmds) =
           [n \in 0..N |-> IF n = 0 THEN RegionStart
                           ELSE RegionCommand(RegionTraced(cmds)[n - 1], cmds[n])]
    BY <1>6 DEF RegionTraced
  <1> HIDE DEF N, IsLoop
  <1>8. RegionTraced(cmds)[0] = RegionStart
    BY <1>1, <1>7
  <1>9. ASSUME NEW n \in 1..N
        PROVE  RegionTraced(cmds)[n] = RegionCommand(RegionTraced(cmds)[n - 1], cmds[n])
    BY <1>1, <1>7
  <1>10. \A n \in 0..N : RegionTraced(cmds)[n] \in RegionStates
    <2> DEFINE T == {n \in Nat : n \in 0..N => RegionTraced(cmds)[n] \in RegionStates}
    <2>1. 0 \in T
      BY <1>3, <1>8
    <2>2. ASSUME NEW n \in Nat, n \in T PROVE n + 1 \in T
      <3> SUFFICES ASSUME n + 1 \in 0..N
                   PROVE  RegionTraced(cmds)[n + 1] \in RegionStates
        OBVIOUS
      <3>1. n \in 0..N /\ n + 1 \in 1..N /\ (n + 1) - 1 = n
        BY <1>1
      <3>2. RegionTraced(cmds)[n] \in RegionStates
        BY <2>2, <3>1
      <3>3. RegionTraced(cmds)[n + 1] = RegionCommand(RegionTraced(cmds)[n], cmds[n + 1])
        BY <1>9, <3>1
      <3> QED  BY <1>1, <3>1, <3>2, <3>3, RegionCommandIsTyped
    <2> HIDE DEF T
    <2>3. Nat \subseteq T
      BY <2>1, <2>2, NatSetInduction
    <2> QED  BY <1>1, <2>3 DEF T
  <1>11. RegionTraced(cmds) \in [0..N -> RegionStates]
    BY <1>7, <1>10
  <1> QED  BY <1>8, <1>9, <1>11 DEF N

Outlined(cmds) ==
    /\ cmds # <<>> /\ cmds[1].cmd = "M"
    /\ \A i \in 2..Len(cmds) :
          /\ cmds[i].cmd \in {"L", "H", "V", "A", "Z"}
          /\ cmds[i].cmd = "Z" => i = Len(cmds)

\* What the tracing has after n commands.
Cornered(cmds, n) ==
    LET s == RegionTraced(cmds)[n]
    IN  /\ s.points \in Seq(Points) /\ Len(s.points) = n /\ s.cur = Corner(cmds, n)
        /\ \A i \in 1..n : s.points[i] = Corner(cmds, i)

LEMMA RegionGoesOn ==
    ASSUME NEW s \in RegionStates, NEW c, c.to \in Points, c.cmd \in {"M", "L", "A", "H", "V"},
           NEW p, p = CASE c.cmd = "H" -> <<c.to[1], s.cur[2]>>
                        [] c.cmd = "V" -> <<s.cur[1], c.to[2]>>
                        [] OTHER -> c.to
    PROVE  /\ RegionCommand(s, c).points = Append(s.points, p) /\ RegionCommand(s, c).cur = p
           /\ p \in Points
  <1>1. s.cur[1] \in Int /\ s.cur[2] \in Int /\ c.to[1] \in Int /\ c.to[2] \in Int
    BY DEF RegionStates, Points
  <1>2. p \in Points
    BY <1>1 DEF Points
  <1>3. RegionCommand(s, c) = [points |-> Append(s.points, p), cur |-> p]
    BY DEF RegionCommand
  <1> QED  BY <1>2, <1>3

\* Up to its closing, the importer's points are the corners of the path.

LEMMA CornersAreTraced ==
    ASSUME NEW cmds, cmds \in Seq(Range(cmds)), \A c \in Range(cmds) : c.to \in Points,
           Outlined(cmds)
    PROVE  \A n \in 1..Len(cmds) : cmds[n].cmd # "Z" => Cornered(cmds, n)
  <1> DEFINE N == Len(cmds)  t == RegionTraced(cmds)
  <1>1. N \in Nat /\ DOMAIN cmds = 1..N /\ \A n \in 1..N : cmds[n].to \in Points
    <2>1. N \in Nat /\ DOMAIN cmds = 1..N
      BY LenProperties
    <2> QED  BY <2>1 DEF Range
  <1>2. /\ \A n \in 0..N : t[n] \in RegionStates
        /\ t[0] = RegionStart
        /\ \A n \in 1..N : t[n] = RegionCommand(t[n - 1], cmds[n])
    BY RegionIsTraced
  <1>3. N >= 1 /\ cmds[1].cmd = "M"
    <2>1. cmds # <<>> /\ cmds[1].cmd = "M"
      BY DEF Outlined
    <2>2. N # 0
      BY <2>1, EmptySeq
    <2> QED  BY <1>1, <2>1, <2>2
  <1>4. \A n \in 2..N : cmds[n].cmd \in {"L", "H", "V", "A", "Z"} /\ (cmds[n].cmd = "Z" => n = N)
    BY DEF Outlined
  <1> HIDE DEF N, t
  <1>5. Cornered(cmds, 1)
    <2> DEFINE c == cmds[1]
    <2>1. t[1] = RegionCommand(RegionStart, c) /\ RegionStart \in RegionStates /\ c.to \in Points
      <3>1. 1 - 1 = 0 /\ 1 \in 1..N /\ 0 \in 0..N
        BY <1>1, <1>3
      <3> QED  BY <1>1, <1>2, <3>1
    <2>2. c.cmd = "M" /\ Corner(cmds, 1) = c.to
      BY <1>3, <2>1, FirstCorner
    <2> HIDE DEF c
    <2>3. t[1].points = Append(RegionStart.points, c.to) /\ t[1].cur = c.to
      BY <2>1, <2>2, RegionGoesOn
    <2>4. t[1].points = <<c.to>>
      BY <2>3 DEF RegionStart
    <2>5. t[1].points \in Seq(Points) /\ Len(t[1].points) = 1 /\ t[1].points[1] = c.to
      BY <2>1, <2>4
    <2> QED  BY <2>2, <2>3, <2>5 DEF Cornered, t
  <1>6. ASSUME NEW n \in Nat \ {0}, n + 1 <= N, cmds[n + 1].cmd # "Z", Cornered(cmds, n)
        PROVE  Cornered(cmds, n + 1)
    <2> DEFINE c == cmds[n + 1]  s == t[n]  p == Corner(cmds, n + 1)
    <2>1. n + 1 \in 2..N /\ n + 1 \in 1..N /\ n \in 0..N /\ (n + 1) - 1 = n
      BY <1>1, <1>6
    <2>2. s \in RegionStates /\ c.to \in Points /\ c.cmd \in {"L", "A", "H", "V"} /\ t[n + 1] = RegionCommand(s, c)
      BY <1>1, <1>2, <1>4, <1>6, <2>1
    <2>3. /\ s.points \in Seq(Points) /\ Len(s.points) = n /\ s.cur = Corner(cmds, n)
          /\ \A i \in 1..n : s.points[i] = Corner(cmds, i)
      BY <1>6 DEF Cornered, t
    <2>4. p = CASE c.cmd = "H" -> <<c.to[1], s.cur[2]>>
                [] c.cmd = "V" -> <<s.cur[1], c.to[2]>>
                [] OTHER -> c.to
      BY <1>1, <1>3, <2>1, <2>3, CornerFollows
    <2> HIDE DEF c, s, p
    <2>5. t[n + 1].points = Append(s.points, p) /\ t[n + 1].cur = p /\ p \in Points
      BY <2>2, <2>4, RegionGoesOn
    <2>6. /\ t[n + 1].points \in Seq(Points) /\ Len(t[n + 1].points) = n + 1
          /\ t[n + 1].points[n + 1] = p
          /\ \A i \in 1..n : t[n + 1].points[i] = s.points[i]
      BY <2>3, <2>5, AppendProperties
    <2>7. \A i \in 1..n + 1 : i \in 1..n \/ i = n + 1
      OBVIOUS
    <2> QED  BY <2>3, <2>5, <2>6, <2>7 DEF Cornered, t, p
  <1>7. N \in Nat /\ \A n \in Nat : n \in {m \in Nat : m \in 1..N /\ cmds[m].cmd # "Z" => Cornered(cmds, m)}
    <2> DEFINE T == {m \in Nat : m \in 1..N /\ cmds[m].cmd # "Z" => Cornered(cmds, m)}
    <2>1. 0 \in T
      OBVIOUS
    <2>2. ASSUME NEW n \in Nat, n \in T PROVE n + 1 \in T
      <3> SUFFICES ASSUME n + 1 \in 1..N, cmds[n + 1].cmd # "Z"
                   PROVE  Cornered(cmds, n + 1)
        OBVIOUS
      <3>1. CASE n = 0
        BY <1>5, <3>1
      <3>2. CASE n # 0
        <4>1. n \in 1..N /\ n + 1 <= N /\ n # N /\ n \in Nat \ {0}
          BY <1>1, <3>2
        <4>2. cmds[n].cmd # "Z"
          <5>1. n = 1 \/ n \in 2..N
            BY <4>1
          <5> QED  BY <1>3, <1>4, <4>1, <5>1
        <4> QED  BY <1>6, <2>2, <4>1, <4>2
      <3> QED  BY <3>1, <3>2
    <2> HIDE DEF T
    <2>3. Nat \subseteq T
      BY <2>1, <2>2, NatSetInduction
    <2> QED  BY <1>1, <2>3 DEF T
  <1> QED  BY <1>1, <1>7 DEF N

LEMMA CourtyardIsAlone ==
    ASSUME NEW n \in {3, 4, 13, 14, 99}
    PROVE  LayerOf(n) = <<"F", "CrtYd">> <=> n = 99
  <1>1. n \in DOMAIN KiLayers /\ LayerOf(n) = KiLayers[n]
    BY DEF KiLayers, LayerOf
  <1>2. KiLayers[n][2] = CASE n \in {1, 2} -> "Cu"         [] n \in {3, 4, 101} -> "SilkS"
                           [] n \in {5, 6} -> "Paste"      [] n \in {7, 8} -> "Mask"
                           [] n \in {13, 14, 100} -> "Fab" [] n = 99 -> "CrtYd"
                           [] n = 10 -> "Edge"             [] n = 12 -> "Cmts"
                           [] n = 15 -> "Dwgs"
    BY DEF KiLayers
  <1>3. n = 99 => LayerOf(n) = <<"F", "CrtYd">>
    BY <1>1 DEF KiLayers
  <1>4. n # 99 => LayerOf(n)[2] # "CrtYd"
    BY <1>1, <1>2
  <1>5. <<"F", "CrtYd">>[2] = "CrtYd"
    OBVIOUS
  <1> QED  BY <1>3, <1>4, <1>5

\* The corners of a region, and what closing it adds to them.
Corners(cmds) ==
    LET n == Len(cmds)
    IN  [i \in 1..(IF cmds[n].cmd = "Z" THEN n - 1 ELSE n) |-> Corner(cmds, i)]

\* The points pts are the corners s of a region, closed if it is to be closed.
ClosesAt(cmds, s, pts) ==
    /\ s \in Seq(Points) /\ s # <<>> /\ Len(cmds) \in Nat
    /\ cmds[Len(cmds)].cmd # "Z" => pts = s /\ Len(s) = Len(cmds)
    /\ cmds[Len(cmds)].cmd = "Z" =>
          /\ Len(s) = Len(cmds) - 1
          /\ pts = IF s[1] # s[Len(s)] THEN Append(s, s[1]) ELSE s

LEMMA RegionIsItsCorners ==
    ASSUME NEW cmds, cmds \in Seq(Range(cmds)), \A c \in Range(cmds) : c.to \in Points,
           Outlined(cmds)
    PROVE  ClosesAt(cmds, Corners(cmds), RegionTraced(cmds)[Len(cmds)].points)
  <1> DEFINE n == Len(cmds)  t == RegionTraced(cmds)
             s == Corners(cmds)  pts == t[n].points
  <1> SUFFICES /\ s \in Seq(Points) /\ s # <<>> /\ n \in Nat
               /\ cmds[n].cmd # "Z" => pts = s /\ Len(s) = n
               /\ cmds[n].cmd = "Z" =>
                     /\ Len(s) = n - 1
                     /\ pts = IF s[1] # s[Len(s)] THEN Append(s, s[1]) ELSE s
    BY DEF ClosesAt
  <1>1. n \in Nat /\ n >= 1 /\ cmds[1].cmd = "M"
    <2>1. cmds # <<>> /\ cmds[1].cmd = "M"
      BY DEF Outlined
    <2>2. n # 0 /\ n \in Nat
      BY <2>1, EmptySeq, LenProperties
    <2> QED  BY <2>1, <2>2
  <1>2. /\ \A i \in 0..n : t[i] \in RegionStates
        /\ \A i \in 1..n : t[i] = RegionCommand(t[i - 1], cmds[i])
    BY RegionIsTraced
  <1>3. \A i \in 1..n : cmds[i].cmd # "Z" => Cornered(cmds, i)
    BY CornersAreTraced
  <1>4. \A i \in 2..n : cmds[i].cmd = "Z" => i = n
    BY DEF Outlined
  <1>5. CASE cmds[n].cmd # "Z"
    <2>1. Cornered(cmds, n) /\ s = [i \in 1..n |-> Corner(cmds, i)]
      <3> HIDE DEF n
      <3> QED  BY <1>1, <1>3, <1>5 DEF Corners, n
    <2>2. pts \in Seq(Points) /\ Len(pts) = n /\ \A i \in 1..n : pts[i] = Corner(cmds, i)
      BY <2>1 DEF Cornered
    <2>3. pts = s
      <3> HIDE DEF pts, n, s
      <3>1. pts = [i \in 1..n |-> pts[i]]
        BY <2>2
      <3>2. [i \in 1..n |-> pts[i]] = [i \in 1..n |-> Corner(cmds, i)]
        BY <2>2
      <3> QED  BY <2>1, <3>1, <3>2
    <2>4. pts # <<>>
      BY <1>1, <2>2
    <2> QED  BY <1>1, <1>5, <2>2, <2>3, <2>4
  <1>6. CASE cmds[n].cmd = "Z"
    <2> DEFINE m == n - 1  q == t[m].points  c == cmds[n]
    <2>1. m \in Nat /\ m >= 1 /\ m \in 1..n /\ m \in 0..n /\ n \in 1..n
      <3>1. n # 1
        BY <1>1, <1>6
      <3> HIDE DEF n
      <3> QED  BY <1>1, <3>1
    <2>2. cmds[m].cmd # "Z"
      <3>1. m = 1 \/ m \in 2..n
        <4> HIDE DEF n
        <4> QED  BY <1>1, <2>1
      <3>2. m # n
        BY <1>1
      <3> QED  BY <1>1, <1>4, <3>1, <3>2
    <2>3. Cornered(cmds, m) /\ s = [i \in 1..m |-> Corner(cmds, i)]
      BY <1>3, <1>6, <2>1, <2>2 DEF Corners
    <2>4. q \in Seq(Points) /\ Len(q) = m /\ \A i \in 1..m : q[i] = Corner(cmds, i)
      BY <2>3 DEF Cornered
    <2>5. q = s
      <3> HIDE DEF q, m, s
      <3>1. q = [i \in 1..m |-> q[i]]
        BY <2>4
      <3>2. [i \in 1..m |-> q[i]] = [i \in 1..m |-> Corner(cmds, i)]
        BY <2>4
      <3> QED  BY <2>3, <3>1, <3>2
    <2>6. t[m] \in RegionStates /\ t[n] = RegionCommand(t[m], c) /\ c.cmd = "Z"
      BY <1>2, <1>6, <2>1
    <2>7. q # <<>> /\ Head(q) = q[1] /\ Last(q) = q[Len(q)]
      BY <2>1, <2>4 DEF Last
    <2> HIDE DEF n, t, c
    <2>8. t[n].points = IF q[1] # q[Len(q)] THEN Append(q, q[1]) ELSE q
      <3>1. CASE Head(q) # Last(q)
        <4>1. t[n] = [t[m] EXCEPT !.points = Append(@, Head(@))]
          BY <2>6, <2>7, <3>1 DEF RegionCommand
        <4> QED  BY <2>6, <2>7, <3>1, <4>1 DEF RegionStates
      <3>2. CASE Head(q) = Last(q)
        <4>1. t[n] = t[m]
          BY <2>6, <2>7, <3>2 DEF RegionCommand
        <4> QED  BY <2>7, <3>2, <4>1
      <3> QED  BY <3>1, <3>2
    <2> HIDE DEF q
    <2>9. pts = IF s[1] # s[Len(s)] THEN Append(s, s[1]) ELSE s
      BY <2>5, <2>8 DEF t, n
    <2> QED  BY <1>1, <1>6, <2>4, <2>5, <2>7, <2>9 DEF n
  <1> QED  BY <1>5, <1>6

LEMMA NoLineToItself ==
    ASSUME NEW p, NEW tag
    PROVE  Line(p, p, tag) = {}
  BY DEF Line

LEMMA TwoPointsOneStroke ==
    ASSUME NEW s, Len(s) = 2, NEW tag
    PROVE  Strokes(s, tag) = Line(s[1], s[2], tag)
  <1>1. 1..Len(s) - 1 = {1}
    OBVIOUS
  <1>2. Strokes(s, tag) = UNION {Line(s[i], s[i + 1], tag) : i \in {1}}
    BY <1>1 DEF Strokes
  <1>3. UNION {Line(s[i], s[i + 1], tag) : i \in {1}} = Line(s[1], s[1 + 1], tag)
    OBVIOUS
  <1> QED  BY <1>2, <1>3

\* A closed line gains nothing by being closed again.

LEMMA ClosedStaysClosed ==
    ASSUME NEW s \in Seq(Points), s # <<>>, NEW tag
    PROVE  /\ s[1] = s[Len(s)] => Strokes(Append(s, s[1]), tag) = Strokes(s, tag)
           /\ Strokes(Append(Append(s, s[1]), s[1]), tag) = Strokes(Append(s, s[1]), tag)
  <1> DEFINE p == s[1]  t == Append(s, p)
  <1>1. Strokes(t, tag) = Strokes(s, tag) \cup Line(s[Len(s)], p, tag)
    BY StrokesOfAppend
  <1>2. p \in Points /\ t \in Seq(Points) /\ t # <<>> /\ t[Len(t)] = p
    <2>1. Len(s) \in Nat /\ Len(s) # 0
      BY EmptySeq, LenProperties
    <2>2. p \in Points
      BY <2>1
    <2> HIDE DEF p
    <2> QED  BY <2>1, <2>2, AppendProperties
  <1> HIDE DEF t, p
  <1>3. Strokes(Append(t, p), tag) = Strokes(t, tag) \cup Line(t[Len(t)], p, tag)
    BY <1>2, StrokesOfAppend
  <1>4. s[1] = s[Len(s)] => Strokes(t, tag) = Strokes(s, tag)
    BY <1>1, NoLineToItself DEF p
  <1>5. Strokes(Append(t, p), tag) = Strokes(t, tag)
    BY <1>2, <1>3, NoLineToItself
  <1> QED  BY <1>4, <1>5 DEF t, p

\* A region is exported by the edges it has on the canvas, closed once.

LEMMA RegionIsAsDrawn ==
    ASSUME NEW l \in PackageLines, RegularGraphic(l), l.kind = "SOLIDREGION", l.parts >= 4, NEW o
    PROVE  RegionInk(l, o) = {Shifted(k, o) : k \in Edges(l)}
  <1> DEFINE cmds == l.cmds  n == Len(cmds)  pts == RegionPoints(l)  s == Corners(cmds)
             tag == LayerOf(l.layer)  closed == cmds[n].cmd = "Z"
             front == tag = <<"F", "CrtYd">>
             known == l.layer \in {3, 4, 13, 14, 99} /\ l.type \in {"solid", "npth"}
             Ours == Strokes(IF front THEN pts ELSE Append(pts, Head(pts)), tag)
             Theirs == Strokes(IF l.layer = 99 /\ ~closed THEN s ELSE Append(s, s[1]), tag)
  <1>1. /\ l.type \in {"solid", "npth", "cutout"} /\ l.parts \in Nat
        /\ cmds \in Seq(Range(cmds)) /\ (\A c \in Range(cmds) : c.to \in Points) /\ Outlined(cmds)
    BY PackageAssumption DEF RegularGraphic, Outlined
  <1>2. RegionInk(l, o) = IF ~known \/ Len(pts) < 3 THEN {} ELSE {Shifted(k, o) : k \in Ours}
    BY DEF RegionInk
  <1>3. Edges(l) = IF ~known \/ n < 3 THEN {} ELSE Theirs
    BY <1>1 DEF Edges, Corners
  <1>4. known => (front <=> l.layer = 99)
    BY CourtyardIsAlone
  <1>5. pts = RegionTraced(cmds)[Len(cmds)].points
    BY DEF RegionPoints
  <1> HIDE DEF cmds, pts, s
  <1>6. /\ s \in Seq(Points) /\ s # <<>> /\ n \in Nat
        /\ ~closed => pts = s /\ Len(s) = n
        /\ closed => Len(s) = n - 1 /\ pts = IF s[1] # s[Len(s)] THEN Append(s, s[1]) ELSE s
    <2>1. cmds \in Seq(Range(cmds)) /\ (\A c \in Range(cmds) : c.to \in Points) /\ Outlined(cmds)
      BY <1>1
    <2>2. ClosesAt(cmds, Corners(cmds), RegionTraced(cmds)[Len(cmds)].points)
      BY <2>1, RegionIsItsCorners
    <2>3. ClosesAt(cmds, s, pts)
      BY <1>5, <2>2 DEF s
    <2> QED  BY <2>3 DEF ClosesAt
  <1>7. Len(s) \in Nat /\ Len(s) # 0 /\ Head(s) = s[1] /\ s[1] \in Points
    <2>1. Len(s) \in Nat /\ Len(s) # 0
      BY <1>6, EmptySeq, LenProperties
    <2> QED  BY <1>6, <2>1
  <1> DEFINE a == Append(s, s[1])
  <1>8. Len(a) = Len(s) + 1 /\ Head(a) = s[1]
    <2> DEFINE p == s[1]
    <2>1. p \in Points
      BY <1>7
    <2> HIDE DEF p
    <2>2. Len(Append(s, p)) = Len(s) + 1 /\ Append(s, p)[1] = s[1] /\ Append(s, p) \in Seq(Points)
      BY <1>6, <1>7, <2>1, AppendProperties
    <2> QED  BY <1>7, <2>2 DEF p
  <1>9. /\ s[1] = s[Len(s)] => Strokes(a, tag) = Strokes(s, tag)
        /\ Strokes(Append(a, s[1]), tag) = Strokes(a, tag)
    BY <1>6, ClosedStaysClosed
  <1> HIDE DEF n, closed, a, tag
  <1>10. known => (IF Len(pts) < 3 THEN {} ELSE Ours) = (IF n < 3 THEN {} ELSE Theirs)
    <2> SUFFICES ASSUME known
                 PROVE  (IF Len(pts) < 3 THEN {} ELSE Ours) = (IF n < 3 THEN {} ELSE Theirs)
      OBVIOUS
    <2>1. front <=> l.layer = 99
      BY <1>4
    <2> HIDE DEF known, front
    <2>2. CASE ~closed
      <3>1. Ours = Theirs /\ Len(pts) = n
        BY <1>6, <1>7, <2>1, <2>2
      <3> QED  BY <3>1
    <2>3. CASE closed /\ s[1] # s[Len(s)]
      <3>1. pts = a /\ Len(pts) = n /\ Head(pts) = s[1]
        BY <1>6, <1>8, <2>3 DEF a
      <3>2. Ours = Strokes(a, tag)
        BY <1>9, <3>1
      <3>3. Theirs = Strokes(a, tag)
        BY <2>3 DEF a
      <3> QED  BY <3>1, <3>2, <3>3
    <2>4. CASE closed /\ s[1] = s[Len(s)]
      <3>1. pts = s /\ Len(pts) = n - 1 /\ Head(pts) = s[1]
        BY <1>6, <1>7, <2>4
      <3>2. Theirs = Strokes(s, tag)
        BY <1>9, <2>4 DEF a
      <3>3. Ours = Strokes(s, tag)
        BY <1>9, <2>4, <3>1 DEF a
      <3>4. n = 3 => Theirs = {}
        <4> SUFFICES ASSUME n = 3 PROVE Strokes(s, tag) = {}
          BY <3>2
        <4>1. Len(s) = 2 /\ s[1] = s[2]
          BY <2>4, <3>1
        <4>2. Strokes(s, tag) = Line(s[1], s[2], tag)
          BY <4>1, TwoPointsOneStroke
        <4> QED  BY <4>1, <4>2, NoLineToItself
      <3> HIDE DEF Ours, Theirs
      <3>5. Ours = Theirs
        BY <3>2, <3>3
      <3>6. n \in Nat /\ Len(pts) = n - 1
        BY <1>6, <3>1
      <3>7. CASE n < 3
        BY <3>6, <3>7
      <3>8. CASE n = 3
        BY <3>4, <3>6, <3>8
      <3>9. CASE n > 3
        BY <3>5, <3>6, <3>9
      <3> QED  BY <3>6, <3>7, <3>8, <3>9
    <2> QED  BY <2>2, <2>3, <2>4
  <1> HIDE DEF Ours, Theirs
  <1>11. CASE ~known
    BY <1>2, <1>3, <1>11
  <1>12. CASE known
    BY <1>2, <1>3, <1>10, <1>12
  <1> QED  BY <1>11, <1>12

\* The ink that a line leaves in the exported footprint.
PackageInk(l, o) ==
    CASE l.kind \in Graphics -> GraphicInk(l, o)
      [] l.kind = "SOLIDREGION" -> IF l.parts >= 4 THEN RegionInk(l, o) ELSE {}
      [] l.kind = "SVGNODE" -> ModelInk(l.model)
      [] OTHER -> {}

LEMMA ModelIsAsDrawn ==
    ASSUME NEW l, l.kind = "SVGNODE", NEW o
    PROVE  ModelInk(l.model) = {Shifted(k, o) : k \in PackageCanvas(l)}
  <1>1. CASE l.model = Nothing
    BY <1>1 DEF ModelInk, PackageCanvas
  <1>2. CASE l.model # Nothing
    <2> DEFINE none == <<>>  m == l.model
    <2>1. ModelInk(m) = {Ink("model", {}, none, m)} /\ PackageCanvas(l) = {Ink("model", {}, none, m)}
      BY <1>2 DEF ModelInk, PackageCanvas
    <2>2. {Off(p, o) : p \in {}} = {} /\ [i \in DOMAIN none |-> Off(none[i], o)] = none
      OBVIOUS
    <2> HIDE DEF none, m
    <2>3. Shifted(Ink("model", {}, none, m), o) = Ink("model", {}, none, m)
      BY <2>2, ShiftedInk
    <2> QED  BY <2>1, <2>3 DEF m
  <1> QED  BY <1>1, <1>2

\* Every line of a regular package comes out as it was drawn.

LEMMA GraphicIsAsDrawn ==
    ASSUME NEW l \in PackageLines, RegularGraphic(l), NEW o \in Points
    PROVE  PackageInk(l, o) = {Shifted(k, o) : k \in PackageCanvas(l)}
  <1>1. CASE l.kind \in Graphics
    <2>1. PackageInk(l, o) = GraphicInk(l, o)
      BY <1>1 DEF PackageInk, Graphics
    <2>2. CASE l.kind = "PAD"
      BY <2>1, <2>2, PadIsAsDrawn
    <2>3. CASE l.kind \in {"TRACK", "RECT"}
      BY <2>1, <2>3, LinesAreAsDrawn
    <2>4. CASE l.kind \in {"HOLE", "VIA", "CIRCLE", "ARC", "TEXT"}
      BY <2>1, <2>4, SpotIsAsDrawn
    <2> QED  BY <1>1, <2>2, <2>3, <2>4 DEF Graphics
  <1>2. CASE l.kind = "SOLIDREGION"
    <2>1. PackageInk(l, o) = (IF l.parts >= 4 THEN RegionInk(l, o) ELSE {}) /\ PackageCanvas(l) = Edges(l)
      BY <1>2 DEF PackageInk, PackageCanvas, Graphics
    <2>2. CASE l.parts >= 4
      BY <1>2, <2>1, <2>2, RegionIsAsDrawn
    <2>3. CASE ~(l.parts >= 4)
      <3>1. Edges(l) = {}
        <4>1. l.parts \in Nat
          BY <1>2, PackageAssumption
        <4>2. l.parts < 4
          BY <2>3, <4>1
        <4> QED  BY <4>2 DEF Edges
      <3> QED  BY <2>1, <2>3, <3>1
    <2> QED  BY <2>2, <2>3
  <1>3. CASE l.kind = "SVGNODE"
    <2>1. PackageInk(l, o) = ModelInk(l.model)
      BY <1>3 DEF PackageInk, Graphics
    <2> QED  BY <1>3, <2>1, ModelIsAsDrawn
  <1>4. CASE l.kind \notin Graphics \union {"SOLIDREGION", "SVGNODE"}
    <2>1. PackageInk(l, o) = {} /\ PackageCanvas(l) = {}
      BY <1>4 DEF PackageInk, PackageCanvas, Graphics
    <2> QED  BY <2>1
  <1> QED  BY <1>1, <1>2, <1>3, <1>4

-----------------------------------------------------------------------------
(* Packages as they are read and exported.                                 *)

PackageRecords == [head : Heads, lines : Seq(PackageLines)]

\* A package as it was read holds its lines, and the model of one of them.
PackageIsRead ==
    /\ drawn \in Seq(PackageRecords) /\ Len(drawn) = 1 /\ unit = 1 /\ symbol = <<>>
    /\ DOMAIN footprint = {"regions", "model", "shapes"}
    /\ footprint.shapes \in Seq(PackageLines) /\ footprint.regions \in Seq(PackageLines)
    /\ Range(footprint.shapes) = {l \in Range(drawn[1].lines) : l.kind \in Graphics}
    /\ Range(footprint.regions) =
          {l \in Range(drawn[1].lines) : l.kind = "SOLIDREGION" /\ l.parts >= 4}
    /\ \/ footprint.model = Nothing /\ \A l \in Range(drawn[1].lines) : l.kind # "SVGNODE"
       \/ \E l \in Range(drawn[1].lines) : l.kind = "SVGNODE" /\ footprint.model = l.model

\* A step that reads a line adds it to the package's lines, and no other.

LEMMA GraphicIsRead ==
    ASSUME PackageIsRead, NEW l \in PackageLines, ReadsFootprint(l)
    PROVE  /\ drawn' \in Seq(PackageRecords) /\ Len(drawn') = 1 /\ unit' = 1 /\ symbol' = <<>>
           /\ stage' = "footprint"
           /\ Range(drawn'[1].lines) = Range(drawn[1].lines) \cup {l}
  <1> DEFINE d == drawn[1]  s == Append(d.lines, l)  r == [d EXCEPT !.lines = s]
  <1>1. /\ drawn \in Seq(PackageRecords) /\ Len(drawn) = 1 /\ unit = 1 /\ symbol = <<>>
        /\ 1 \in 1..Len(drawn)
    BY DEF PackageIsRead
  <1>2. /\ stage' = "footprint" /\ unit' = 1 /\ symbol' = <<>>
        /\ drawn' = [drawn EXCEPT ![1] = r]
    BY <1>1 DEF ReadsFootprint, Reads
  <1>3. d \in PackageRecords
    BY <1>1
  <1>4. s \in Seq(PackageLines) /\ Range(s) = Range(d.lines) \cup {l}
    BY <1>3, RangeOfAppend, AppendProperties DEF PackageRecords
  <1>5. r \in PackageRecords /\ r.lines = s
    BY <1>3, <1>4 DEF PackageRecords
  <1> HIDE DEF r, s, d
  <1>6. drawn' \in Seq(PackageRecords) /\ Len(drawn') = 1
    <2> DEFINE n == 1
    <2>1. drawn \in Seq(PackageRecords) /\ n \in 1..Len(drawn) /\ r \in PackageRecords
      BY <1>1, <1>5
    <2> HIDE DEF n
    <2>2. [drawn EXCEPT ![n] = r] \in Seq(PackageRecords) /\ Len([drawn EXCEPT ![n] = r]) = Len(drawn)
      BY <2>1, ExceptSeq
    <2> QED  BY <1>1, <1>2, <2>2 DEF n
  <1>7. drawn'[1] = r
    BY <1>1, <1>2
  <1> QED  BY <1>2, <1>4, <1>5, <1>6, <1>7 DEF d

LEMMA ReadingKeepsPackage ==
    ASSUME PackageIsRead, AddGraphic \/ AddModel \/ AddRegion \/ SkipGraphic
    PROVE  PackageIsRead' /\ stage' = "footprint"
  <1> DEFINE lines == drawn[1].lines
  <1>0. /\ DOMAIN footprint = {"regions", "model", "shapes"}
        /\ footprint.shapes \in Seq(PackageLines) /\ footprint.regions \in Seq(PackageLines)
        /\ Range(footprint.shapes) = {l \in Range(lines) : l.kind \in Graphics}
        /\ Range(footprint.regions) = {l \in Range(lines) : l.kind = "SOLIDREGION" /\ l.parts >= 4}
        /\ \/ footprint.model = Nothing /\ \A l \in Range(lines) : l.kind # "SVGNODE"
           \/ \E l \in Range(lines) : l.kind = "SVGNODE" /\ footprint.model = l.model
    BY DEF PackageIsRead
  <1>1. CASE AddGraphic
    <2>1. PICK l \in PackageLines :
             /\ l.kind \in Graphics /\ ReadsFootprint(l)
             /\ footprint' = [footprint EXCEPT !.shapes = Append(@, l)]
      BY <1>1 DEF AddGraphic
    <2>2. l.kind \notin {"SVGNODE", "SOLIDREGION"}
      BY <2>1 DEF Graphics
    <2>3. /\ footprint'.shapes \in Seq(PackageLines)
          /\ Range(footprint'.shapes) = Range(footprint.shapes) \cup {l}
          /\ DOMAIN footprint' = DOMAIN footprint
          /\ footprint'.regions = footprint.regions /\ footprint'.model = footprint.model
      BY <1>0, <2>1, RangeOfAppend, AppendProperties
    <2>4. /\ drawn' \in Seq(PackageRecords) /\ Len(drawn') = 1 /\ unit' = 1 /\ symbol' = <<>>
          /\ stage' = "footprint"
          /\ Range(drawn'[1].lines) = Range(lines) \cup {l}
      BY <2>1, GraphicIsRead
    <2> HIDE DEF lines
    <2> QED  BY <1>0, <2>1, <2>2, <2>3, <2>4 DEF PackageIsRead
  <1>2. CASE AddModel
    <2>1. PICK l \in PackageLines :
             /\ l.kind = "SVGNODE" /\ ReadsFootprint(l)
             /\ footprint' = [footprint EXCEPT !.model = l.model]
      BY <1>2 DEF AddModel
    <2>2. l.kind \notin Graphics
      BY <2>1 DEF Graphics
    <2>3. /\ footprint'.model = l.model
          /\ DOMAIN footprint' = DOMAIN footprint
          /\ footprint'.regions = footprint.regions /\ footprint'.shapes = footprint.shapes
      BY <1>0, <2>1
    <2>4. /\ drawn' \in Seq(PackageRecords) /\ Len(drawn') = 1 /\ unit' = 1 /\ symbol' = <<>>
          /\ stage' = "footprint"
          /\ Range(drawn'[1].lines) = Range(lines) \cup {l}
      BY <2>1, GraphicIsRead
    <2> HIDE DEF lines
    <2> QED  BY <1>0, <2>1, <2>2, <2>3, <2>4 DEF PackageIsRead
  <1>3. CASE AddRegion
    <2>1. PICK l \in PackageLines :
             /\ l.kind = "SOLIDREGION" /\ ReadsFootprint(l)
             /\ footprint' = IF l.parts >= 4
                             THEN [footprint EXCEPT !.regions = Append(@, l)] ELSE footprint
      BY <1>3 DEF AddRegion
    <2>2. l.kind \notin Graphics
      BY <2>1 DEF Graphics
    <2>3. /\ footprint'.regions \in Seq(PackageLines)
          /\ Range(footprint'.regions) = Range(footprint.regions) \cup (IF l.parts >= 4 THEN {l} ELSE {})
          /\ DOMAIN footprint' = DOMAIN footprint
          /\ footprint'.shapes = footprint.shapes /\ footprint'.model = footprint.model
      <3>1. CASE l.parts >= 4
        BY <1>0, <2>1, <3>1, RangeOfAppend, AppendProperties
      <3>2. CASE ~(l.parts >= 4)
        BY <1>0, <2>1, <3>2
      <3> QED  BY <3>1, <3>2
    <2>4. /\ drawn' \in Seq(PackageRecords) /\ Len(drawn') = 1 /\ unit' = 1 /\ symbol' = <<>>
          /\ stage' = "footprint"
          /\ Range(drawn'[1].lines) = Range(lines) \cup {l}
      BY <2>1, GraphicIsRead
    <2> HIDE DEF lines
    <2> QED  BY <1>0, <2>1, <2>2, <2>3, <2>4 DEF PackageIsRead
  <1>4. CASE SkipGraphic
    <2>1. PICK l \in PackageLines :
             /\ l.kind \notin Graphics \union {"SVGNODE", "SOLIDREGION"} /\ ReadsFootprint(l)
             /\ UNCHANGED footprint
      BY <1>4 DEF SkipGraphic
    <2>2. /\ drawn' \in Seq(PackageRecords) /\ Len(drawn') = 1 /\ unit' = 1 /\ symbol' = <<>>
          /\ stage' = "footprint"
          /\ Range(drawn'[1].lines) = Range(lines) \cup {l}
      BY <2>1, GraphicIsRead
    <2> HIDE DEF lines
    <2> QED  BY <1>0, <2>1, <2>2 DEF PackageIsRead
  <1> QED  BY <1>1, <1>2, <1>3, <1>4

PackageIsExported ==
    /\ PackageIsRead /\ stage = "done"
    /\ exported = [i \in {0} |-> FootprintInk(footprint, drawn[1].head)]

\* Of at most one there are no two.

LEMMA OneAtMost ==
    ASSUME NEW S, IsFiniteSet(S), Cardinality(S) <= 1, NEW a \in S, NEW b \in S
    PROVE  a = b
  <1> SUFFICES ASSUME a # b PROVE FALSE
    OBVIOUS
  <1> DEFINE P == {a} \cup {b}
  <1>1. IsFiniteSet({a}) /\ Cardinality({a}) = 1
    BY FS_Singleton
  <1>2. Cardinality(P) = 2
    BY <1>1, FS_AddElement
  <1>3. P \subseteq S
    OBVIOUS
  <1>4. Cardinality(P) \in Nat /\ Cardinality(S) \in Nat /\ Cardinality(P) <= Cardinality(S)
    BY <1>3, FS_Subset, FS_CardinalityType
  <1> QED  BY <1>2, <1>4

\* The footprint is the union of what its lines leave, each as it was drawn.

LEMMA ExportedPackageIsTheDrawing ==
    ASSUME PackageIsExported
    PROVE  FootprintIsTheDrawing
  <1> DEFINE lines == drawn[1].lines  v == drawn[1].head  f == footprint
             Nodes == {i \in DOMAIN lines : lines[i].kind = "SVGNODE"}
  <1> SUFFICES ASSUME \A l \in Range(lines) : RegularGraphic(l), Cardinality(Nodes) <= 1
               PROVE  \E o \in Heads : exported[0] = {Shifted(k, o) : k \in All(lines, PackageCanvas)}
    BY DEF FootprintIsTheDrawing
  <1>1. /\ drawn[1] \in PackageRecords
        /\ Range(f.shapes) = {l \in Range(lines) : l.kind \in Graphics}
        /\ Range(f.regions) = {l \in Range(lines) : l.kind = "SOLIDREGION" /\ l.parts >= 4}
        /\ \/ f.model = Nothing /\ \A l \in Range(lines) : l.kind # "SVGNODE"
           \/ \E l \in Range(lines) : l.kind = "SVGNODE" /\ f.model = l.model
    <2>1. PackageIsRead
      BY DEF PackageIsExported
    <2>2. drawn \in Seq(PackageRecords) /\ Len(drawn) = 1
      BY <2>1 DEF PackageIsRead
    <2>3. drawn[1] \in PackageRecords
      BY <2>2
    <2> QED  BY <2>1, <2>3 DEF PackageIsRead
  <1>2. v \in Heads /\ v \in Points /\ lines \in Seq(PackageLines)
    BY <1>1, UnitAssumption DEF PackageRecords
  <1>3. exported[0] = FootprintInk(f, v)
    BY DEF PackageIsExported
  <1> HIDE DEF v, lines
  <1>4. \A l \in Range(lines) : l \in PackageLines
    BY <1>2 DEF Range
  <1>5. \A l \in Range(lines) : PackageInk(l, v) = {Shifted(k, v) : k \in PackageCanvas(l)}
    BY <1>2, <1>4, GraphicIsAsDrawn
  <1>6. \A l, m \in Range(lines) : l.kind = "SVGNODE" /\ m.kind = "SVGNODE" => l = m
    <2> SUFFICES ASSUME NEW i \in DOMAIN lines, NEW j \in DOMAIN lines,
                        lines[i].kind = "SVGNODE", lines[j].kind = "SVGNODE"
                 PROVE  i = j
      BY DEF Range
    <2>1. IsFiniteSet(DOMAIN lines)
      <3>1. Len(lines) \in Nat /\ DOMAIN lines = 1..Len(lines)
        BY <1>2, LenProperties
      <3> QED  BY <3>1, FS_Interval
    <2>2. IsFiniteSet(Nodes) /\ i \in Nodes /\ j \in Nodes
      BY <2>1, FS_Subset
    <2> HIDE DEF Nodes
    <2> QED  BY <2>2, OneAtMost
  <1>7. ModelInk(f.model) = UNION {PackageInk(l, v) : l \in {m \in Range(lines) : m.kind = "SVGNODE"}}
    <2>1. CASE \A l \in Range(lines) : l.kind # "SVGNODE"
      <3>1. f.model = Nothing /\ {m \in Range(lines) : m.kind = "SVGNODE"} = {}
        BY <1>1, <2>1
      <3> QED  BY <3>1 DEF ModelInk
    <2>2. CASE \E l \in Range(lines) : l.kind = "SVGNODE"
      <3>1. PICK l \in Range(lines) : l.kind = "SVGNODE" /\ f.model = l.model
        BY <1>1, <2>2
      <3>2. {m \in Range(lines) : m.kind = "SVGNODE"} = {l}
        BY <1>6, <3>1
      <3>3. PackageInk(l, v) = ModelInk(l.model)
        BY <3>1 DEF PackageInk, Graphics
      <3> QED  BY <3>1, <3>2, <3>3
    <2> QED  BY <2>1, <2>2
  <1>8. FootprintInk(f, v) = UNION {PackageInk(l, v) : l \in Range(lines)}
    <2> SUFFICES ASSUME NEW k
                 PROVE  k \in FootprintInk(f, v) <=> \E l \in Range(lines) : k \in PackageInk(l, v)
      OBVIOUS
    <2>1. k \in FootprintInk(f, v)
            <=> \/ \E l \in Range(f.shapes) : k \in GraphicInk(l, v)
                \/ \E l \in Range(f.regions) : k \in RegionInk(l, v)
                \/ k \in ModelInk(f.model)
      BY DEF FootprintInk, All
    <2>2. \A l : k \in PackageInk(l, v)
            <=> \/ l.kind \in Graphics /\ k \in GraphicInk(l, v)
                \/ l.kind = "SOLIDREGION" /\ l.parts >= 4 /\ k \in RegionInk(l, v)
                \/ l.kind = "SVGNODE" /\ k \in PackageInk(l, v)
      <3> SUFFICES ASSUME NEW l
                   PROVE  k \in PackageInk(l, v)
                            <=> \/ l.kind \in Graphics /\ k \in GraphicInk(l, v)
                                \/ l.kind = "SOLIDREGION" /\ l.parts >= 4 /\ k \in RegionInk(l, v)
                                \/ l.kind = "SVGNODE" /\ k \in PackageInk(l, v)
        OBVIOUS
      <3>1. CASE l.kind \in Graphics
        BY <3>1 DEF PackageInk, Graphics
      <3>2. CASE l.kind = "SOLIDREGION"
        BY <3>2 DEF PackageInk, Graphics
      <3>3. CASE l.kind = "SVGNODE"
        BY <3>3 DEF Graphics
      <3>4. CASE l.kind \notin Graphics \union {"SOLIDREGION", "SVGNODE"}
        BY <3>4 DEF PackageInk, Graphics
      <3> QED  BY <3>1, <3>2, <3>3, <3>4
    <2> QED  BY <1>1, <1>7, <2>1, <2>2
  <1>9. {Shifted(k, v) : k \in All(lines, PackageCanvas)} = UNION {PackageInk(l, v) : l \in Range(lines)}
    BY <1>5 DEF All
  <1> QED  BY <1>2, <1>3, <1>8, <1>9

\* What is read so far and what is exported, of a symbol or of a package.
DrawingIsKept ==
    \/ stage = "symbol" /\ UnitsAreRead
    \/ stage \in {"done", "failed"} /\ SymbolIsExported
    \/ stage = "footprint" /\ PackageIsRead
    \/ PackageIsExported

LEMMA DrawingStartsKept ==
    ASSUME DrawingInit
    PROVE  DrawingIsKept
  <1>1. unit = 1 /\ symbol = <<>> /\ footprint = EmptyFootprint /\ exported = <<>>
    BY DEF DrawingInit
  <1>2. CASE stage = "symbol" /\ \E us \in Symbols : drawn = Blank(us)
    <2>1. PICK us \in Symbols : drawn = Blank(us)
      BY <1>2
    <2>2. us \in Seq([name : STRING, at : Points, size : Points, head : Points]) /\ us # <<>>
      BY UnitAssumption
    <2>3. Len(us) \in Nat /\ DOMAIN us = 1..Len(us) /\ Len(us) # 0
      BY <2>2, EmptySeq, LenProperties
    <2>4. \A i \in 1..Len(us) : drawn[i] \in UnitRecords /\ drawn[i].lines = <<>>
      <3> SUFFICES ASSUME NEW i \in 1..Len(us)
                   PROVE  drawn[i] \in UnitRecords /\ drawn[i].lines = <<>>
        OBVIOUS
      <3> DEFINE BlankUnits == [name : STRING, at : Points, size : Points, head : Points]
      <3>0. us \in Seq(BlankUnits)
        BY <2>2
      <3> HIDE DEF BlankUnits
      <3>1. us[i] \in BlankUnits
        BY <3>0
      <3> USE DEF BlankUnits
      <3>2. drawn[i] = [name |-> us[i].name, at |-> us[i].at, size |-> us[i].size,
                        head |-> us[i].head, lines |-> <<>>]
        BY <2>1, <2>3 DEF Blank
      <3>3. <<>> \in Seq(SymbolLines)
        OBVIOUS
      <3> QED  BY <3>1, <3>2, <3>3 DEF UnitRecords
    <2>5. drawn \in Seq(UnitRecords) /\ Len(drawn) = Len(us)
      <3>1. drawn = [i \in 1..Len(us) |-> drawn[i]]
        BY <2>1, <2>3 DEF Blank
      <3> QED  BY <2>3, <2>4, <3>1
    <2>6. symbol \in Seq(SymbolRecords) /\ Len(symbol) = 0
      BY <1>1
    <2>7. unit \in 1..Len(drawn) /\ Len(symbol) = unit - 1 /\ Len(drawn) >= 1
      BY <1>1, <2>3, <2>5, <2>6
    <2>8. UnitsAreRead
      BY <2>3, <2>4, <2>5, <2>6, <2>7 DEF UnitsAreRead
    <2> QED  BY <1>2, <2>8 DEF DrawingIsKept
  <1>3. CASE stage = "footprint" /\ \E h \in Heads : drawn = <<[head |-> h, lines |-> <<>>]>>
    <2>1. PICK h \in Heads : drawn = <<[head |-> h, lines |-> <<>>]>>
      BY <1>3
    <2>2. [head |-> h, lines |-> <<>>] \in PackageRecords
      BY DEF PackageRecords
    <2>3. drawn \in Seq(PackageRecords) /\ Len(drawn) = 1 /\ drawn[1].lines = <<>>
      BY <2>1, <2>2
    <2>4. Range(<<>>) = {}
      BY DEF Range
    <2>5. /\ DOMAIN footprint = {"regions", "model", "shapes"}
          /\ footprint.shapes = <<>> /\ footprint.regions = <<>> /\ footprint.model = Nothing
      BY <1>1 DEF EmptyFootprint
    <2>6. PackageIsRead
      BY <1>1, <2>3, <2>4, <2>5 DEF PackageIsRead
    <2> QED  BY <1>3, <2>6 DEF DrawingIsKept
  <1> QED  BY <1>2, <1>3 DEF DrawingInit

\* What a symbol leaves on the canvas changes only with the library's format.
LEMMA FormatDecides ==
    ASSUME curves' = curves, symbol' = symbol
    PROVE  Integrated' = Integrated
  <1>1. \A b : CurveInk(b)' = CurveInk(b)
    BY DEF CurveInk
  <1>2. \A l, o : PathInk(l, o)' = PathInk(l, o)
    BY <1>1 DEF PathInk, All
  <1>3. \A u : SymbolInk(u)' = SymbolInk(u)
    BY <1>2 DEF SymbolInk, All
  <1> QED  BY <1>3 DEF Integrated, Matched

LEMMA DrawingStaysKept ==
    ASSUME DrawingIsKept, [DrawingNext]_drawingVars
    PROVE  DrawingIsKept'
  <1>1. CASE UNCHANGED drawingVars
    <2>1. /\ UnitsAreRead => UnitsAreRead'
          /\ PackageIsRead => PackageIsRead'
      BY <1>1 DEF drawingVars, UnitsAreRead, PackageIsRead, Origin, SharedOrigin
    <2>2. Integrated' = Integrated
      BY <1>1, FormatDecides DEF drawingVars
    <2>3. SymbolIsExported => SymbolIsExported'
      BY <1>1, <2>1, <2>2 DEF drawingVars, SymbolIsExported
    <2>4. PackageIsExported => PackageIsExported'
      BY <1>1, <2>1 DEF drawingVars, PackageIsExported
    <2>5. stage' = stage
      BY <1>1 DEF drawingVars
    <2> QED  BY <2>1, <2>3, <2>4, <2>5 DEF DrawingIsKept
  <1>2. CASE DrawingNext /\ stage = "symbol" /\ UnitsAreRead
    <2>1. CASE AddPin \/ AddRectangle \/ AddText \/ AddShape \/ SkipUnknown
      BY <1>2, <2>1, ReadingKeepsUnits DEF DrawingIsKept
    <2>2. CASE OpenUnit
      BY <1>2, <2>2, OpeningKeepsUnits DEF DrawingIsKept
    <2>3. CASE NextUnit
      BY <1>2, <2>3, TurningKeepsUnits DEF DrawingIsKept
    <2>4. CASE ExportSymbol
      <3>1. /\ Len(symbol) = Len(drawn) /\ drawn' = drawn /\ unit' = unit /\ symbol' = symbol
            /\ curves' = curves
            /\ stage' \in {"done", "failed"} /\ (stage' = "done" => exported' = Integrated)
        BY <2>4 DEF ExportSymbol
      <3>2. UnitsAreRead'
        BY <1>2, <3>1 DEF UnitsAreRead, Origin, SharedOrigin
      <3>3. Integrated' = Integrated
        BY <3>1, FormatDecides
      <3>4. symbol # <<>>
        <4>1. Len(symbol) >= 1
          BY <1>2, <3>1 DEF UnitsAreRead
        <4>2. Len(<<>>) = 0
          OBVIOUS
        <4> QED  BY <4>1, <4>2
      <3> QED  BY <3>1, <3>2, <3>3, <3>4 DEF SymbolIsExported, DrawingIsKept
    <2>5. ~(AddGraphic \/ AddModel \/ AddRegion \/ SkipGraphic \/ ExportPackage)
      BY <1>2 DEF AddGraphic, AddModel, AddRegion, SkipGraphic, ExportPackage, ReadsFootprint
    <2> QED  BY <1>2, <2>1, <2>2, <2>3, <2>4, <2>5 DEF DrawingNext
  <1>3. CASE DrawingNext /\ stage = "footprint" /\ PackageIsRead
    <2>1. CASE AddGraphic \/ AddModel \/ AddRegion \/ SkipGraphic
      BY <1>3, <2>1, ReadingKeepsPackage DEF DrawingIsKept
    <2>2. CASE ExportPackage
      <3>1. /\ stage' = "done" /\ exported' = [i \in {0} |-> FootprintInk(footprint, drawn[1].head)]
            /\ drawn' = drawn /\ unit' = unit /\ symbol' = symbol /\ footprint' = footprint
        BY <2>2 DEF ExportPackage
      <3>2. PackageIsRead'
        BY <1>3, <3>1 DEF PackageIsRead
      <3> QED  BY <3>1, <3>2 DEF PackageIsExported, DrawingIsKept
    <2>3. ~(OpenUnit \/ AddPin \/ AddRectangle \/ AddText \/ AddShape \/ SkipUnknown \/ NextUnit \/ ExportSymbol)
      BY <1>3 DEF OpenUnit, AddPin, AddRectangle, AddText, AddShape, SkipUnknown, NextUnit,
                  ExportSymbol, ReadsSymbol
    <2> QED  BY <1>3, <2>1, <2>2, <2>3 DEF DrawingNext
  <1>4. stage \in {"symbol", "footprint"} \/ ~DrawingNext
    BY DEF DrawingNext, OpenUnit, AddPin, AddRectangle, AddText, AddShape, SkipUnknown, NextUnit,
           ExportSymbol, ReadsSymbol, AddGraphic, AddModel, AddRegion, SkipGraphic, ExportPackage,
           ReadsFootprint
  <1>5. CASE DrawingNext
    <2>1. (stage = "symbol" /\ UnitsAreRead) \/ (stage = "footprint" /\ PackageIsRead)
      BY <1>4, <1>5 DEF DrawingIsKept, PackageIsExported
    <2> QED  BY <1>2, <1>3, <1>5, <2>1
  <1> QED  BY <1>1, <1>5

LEMMA KeptIsTheDrawing ==
    ASSUME DrawingIsKept
    PROVE  SymbolIsTheDrawing /\ FootprintIsTheDrawing
  <1>1. CASE stage \in {"symbol", "footprint"}
    BY <1>1 DEF SymbolIsTheDrawing, FootprintIsTheDrawing
  <1>2. CASE SymbolIsExported
    <2>1. symbol # <<>>
      BY <1>2 DEF SymbolIsExported
    <2> QED  BY <1>2, <2>1, ExportedSymbolIsTheDrawing DEF FootprintIsTheDrawing
  <1>3. CASE PackageIsExported
    <2>1. symbol = <<>>
      BY <1>3 DEF PackageIsExported, PackageIsRead
    <2> QED  BY <1>3, <2>1, ExportedPackageIsTheDrawing DEF SymbolIsTheDrawing
  <1> QED  BY <1>1, <1>2, <1>3 DEF DrawingIsKept

\* Every exported symbol is the drawing as a whole, moved by one vector of the
\* grid, however many units, shapes and path commands it has; the curves of its
\* paths are as drawn where the library's format has curves, else the lines between
\* their ends (convert_to_kicad, convert_ee_paths, snap_bbox, integrate_sub_units,
\* KiSymbolBezier.export).
THEOREM SymbolsAreDrawn == DrawingSpec => []SymbolIsTheDrawing
  BY DrawingStartsKept, DrawingStaysKept, KeptIsTheDrawing, PTL DEF DrawingSpec

\* Every exported footprint is the package's drawing as a whole, moved by one
\* vector, however many shapes, corners and commands it has
\* (generate_kicad_footprint, drill_to_ki, angle_to_ki, _parse_solid_region_path).
THEOREM FootprintsAreDrawn == DrawingSpec => []FootprintIsTheDrawing
  BY DrawingStartsKept, DrawingStaysKept, KeptIsTheDrawing, PTL DEF DrawingSpec
=============================================================================

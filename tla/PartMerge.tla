------------------------------- MODULE PartMerge -------------------------------
(***************************************************************************)
(* One part out of the answers of several sources (metadata/merge.py), and *)
(* the symbol that is exported for it (metadata/symbol_fields.py and       *)
(* _reconcile_symbol_identity of __main__.py).                             *)
(*                                                                         *)
(* The answers arrive one by one (metadata/service.py keeps them, with the *)
(* manufacturers that they prove); then merge_records sorts them, leaves   *)
(* out those of another part, selects one value per field and lists the    *)
(* values that disagree; then the symbol of the CAD data is completed.     *)
(* merge_records checks every answer again and trusts no provider to have  *)
(* done so.  Values are compared in a normal form, Normal.  The numbered   *)
(* labels of a conflict's values are left out: its values are pairs of a   *)
(* source and what it said.                                                *)
(***************************************************************************)
EXTENDS Naturals, Sequences, FiniteSets, SequencesExt, FiniteSetsExt

CONSTANTS
    Answers,    \* [provider, mpn, maker, package, lifecycle, sheet, page,
                \*  number]
    Requests,   \* [mpn, maker, link]: the user's words; None if not given
    Symbols,    \* [maker, mpn, number, sheet] of the CAD data
    Normal(_),  \* the normal form of a value
    Links,      \* the values that are http(s) URLs
    Mirrors,    \* URLs on a distributor's host
    None, Mismatch, Refused

Providers == {"lcsc", "digikey", "mouser"}
Scalars == {"package", "lifecycle"}

Agree(v, w) == Normal(v) = Normal(w)

ASSUME MergeAssumption ==
    /\ \A a \in Answers : a.provider \in Providers /\ a.mpn # None
    /\ \A q \in Requests : q.mpn # None
    /\ \A v \in {a.maker : a \in Answers} : Agree(v, None) => v = None
    /\ None \notin Providers \cup {"manufacturer"} \cup Links
    /\ \A v \in {x.maker : x \in Answers \cup Symbols}, s \in {"easyeda", "lcsc"} :
         [source |-> s, value |-> v] # None

VARIABLES
    request, cad,   \* what was asked, and the symbol of the CAD data
    records,        \* distributor_records, in the order of arrival
    seed,           \* trusted_manufacturer: [source, value] or None
    evidence,       \* manufacturer_evidence: pairs of a source and a value
    rejected,       \* rejected_manufacturers: such pairs
    errors,         \* providers with an error
    merged,         \* None, Mismatch or the MergedPart
    symbol,         \* the exported symbol, None or Refused
    heard           \* every answer; LCSC's is also the JLCPCB resolution

told == <<records, seed, evidence, rejected, errors>>
vars == <<request, cad, told, merged, symbol, heard>>

\* EasyEDA's manufacturer is the first evidence.
Init ==
    /\ request \in Requests /\ cad \in Symbols
    /\ records = <<>> /\ rejected = {} /\ errors = {} /\ heard = {}
    /\ evidence = IF cad.maker = None THEN {} ELSE {<<"easyeda", cad.maker>>}
    /\ seed = IF cad.maker = None THEN None
              ELSE [source |-> "easyeda", value |-> cad.maker]
    /\ merged = None /\ symbol = None

-----------------------------------------------------------------------------
(* The answers.                                                            *)

Unheard(a) == merged = None /\ \A b \in heard : b.provider # a.provider

\* _manufacturer_is_evidenced
Evidenced(maker) == maker # None /\ \E e \in evidence : Agree(e[2], maker)

ArriveLcsc(a) ==
    /\ a.provider = "lcsc" /\ Unheard(a)
    /\ heard' = heard \cup {a} /\ records' = Append(records, a)
    /\ IF a.maker = None THEN UNCHANGED <<evidence, seed>>
       ELSE /\ evidence' = evidence \cup {<<"lcsc", a.maker>>}
            /\ seed' = IF seed # None THEN seed
                       ELSE [source |-> "lcsc", value |-> a.maker]
    /\ UNCHANGED <<request, cad, rejected, errors, merged, symbol>>

\* A manufacturer that nothing proves is kept for the diagnostics only, unless
\* the user named one.
Arrive(a) ==
    /\ a.provider # "lcsc" /\ Unheard(a)
    /\ heard' = heard \cup {a}
    /\ IF request.maker # None \/ Evidenced(a.maker)
       THEN records' = Append(records, a) /\ UNCHANGED <<rejected, errors>>
       ELSE /\ errors' = errors \cup {a.provider}
            /\ rejected' = rejected \cup
                 (IF a.maker = None THEN {} ELSE {<<a.provider, a.maker>>})
            /\ UNCHANGED records
    /\ UNCHANGED <<request, cad, seed, evidence, merged, symbol>>

-----------------------------------------------------------------------------
(* merge_records.                                                          *)

\* Mutant: the records stay in the order of arrival.
AsArrived(rs) == rs
\* LCSC first, then DigiKey, then Mouser.
Sorted(rs) ==
    LET of(provider) == SetToSeq({r \in Range(rs) : r.provider = provider})
    IN of("lcsc") \o of("digikey") \o of("mouser")

\* Those that fit, in their order and at their places.
Those(rs, Fits(_)) == [n \in {m \in DOMAIN rs : Fits(rs[m])} |-> rs[n]]

\* Of the exact part; a manufacturer counts only if the user named it.
Exact(r) ==
    /\ Agree(r.mpn, request.mpn)
    /\ request.maker # None => Agree(r.maker, request.maker)

Fatal(rs) == \E r \in Range(rs) : r.provider = "lcsc" /\ ~Exact(r)

\* _first_value: the first record that says anything of the field.
First(rs, f) ==
    LET said == {n \in DOMAIN rs : rs[n][f] # None}
    IN IF said = {} THEN [source |-> None, value |-> None]
       ELSE [source |-> rs[Min(said)].provider, value |-> rs[Min(said)][f]]

\* _select_manufacturer
Maker(rs) ==
    IF request.maker # None THEN [source |-> "user", value |-> request.maker]
    ELSE IF seed # None THEN seed
    ELSE First(rs, "maker")

Backers(rs, f, value) ==
    {r.provider : r \in {s \in Range(rs) : s[f] # None /\ Agree(s[f], value)}}

\* _select_datasheet: only a link, no product page, and no mirror if there is a
\* better link.
Pages(rs) == {Normal(r.page) : r \in {s \in Range(rs) : s.page # None}}
Sheet(rs) ==
    LET fit == Those(rs, LAMBDA r : r.sheet # None /\ r.sheet \in Links
                                    /\ Normal(r.sheet) \notin Pages(rs))
        own == Those(fit, LAMBDA r : r.sheet \notin Mirrors)
    IN First(IF DOMAIN own = {} THEN fit ELSE own, "sheet").value

Said(rs, f) == {<<r.provider, r[f]>> : r \in {s \in Range(rs) : s[f] # None}}

\* Mutant: what was rejected is forgotten.
ClaimsAccepted(rs) ==
    Said(rs, "maker") \cup (IF request.maker # None THEN {} ELSE evidence)
\* What is compared for the manufacturer: the seed and the evidence only where
\* the user named none, and what was rejected.
Claims(rs) ==
    Said(rs, "maker") \cup rejected
    \cup IF request.maker # None THEN {}
         ELSE evidence \cup (IF seed = None THEN {} ELSE {<<seed.source, seed.value>>})

\* _append_conflict_if_needed
Conflict(f, said, selected) ==
    IF \A s, t \in said : Agree(s[2], t[2]) THEN {}
    ELSE {[field |-> f, values |-> said, selected |-> selected]}

Part(rs) ==
    LET maker == Maker(rs)
        exact == Those(rs, Exact)
        value == [f \in Scalars |-> First(exact, f).value]
        sheet == Sheet(exact)
    IN [maker |-> maker.value, from |-> maker.source, mpn |-> request.mpn,
        value |-> value, sheet |-> sheet, records |-> exact,
        backers |-> [f \in Scalars |-> Backers(exact, f, value[f])],
        errors |-> errors \cup {r.provider : r \in Range(rs) \ Range(exact)},
        conflicts |-> Conflict("maker", Claims(exact), maker.value)
                      \cup (UNION {Conflict(f, Said(exact, f), value[f]) : f \in Scalars})
                      \cup Conflict("sheet", Said(exact, "sheet"), sheet)]

Merged(rs) == IF Fatal(rs) THEN Mismatch ELSE Part(Sorted(rs))

Merge ==
    /\ merged = None
    /\ merged' = Merged(records)
    /\ UNCHANGED <<request, cad, told, symbol, heard>>

-----------------------------------------------------------------------------
(* The symbol.                                                             *)

RecordOf(p) == CHOOSE r \in Range(merged.records) : r.provider = p
Has(p) == \E r \in Range(merged.records) : r.provider = p

IsPageOf(sheet, r) == r.page \in Links /\ Agree(sheet, r.page)

\* select_datasheet: the link that was asked for, or a ValueError.
Unavailable ==
    CASE request.link = None -> FALSE
      [] request.link = "manufacturer" -> merged.sheet = None
      [] OTHER -> \/ ~Has(request.link)
                  \/ LET r == RecordOf(request.link)
                     IN r.sheet \notin Links \/ IsPageOf(r.sheet, r)
Link ==
    CASE request.link = None -> cad.sheet
      [] request.link = "manufacturer" -> merged.sheet
      [] OTHER -> RecordOf(request.link).sheet

\* The number that LCSC answered to the JLCPCB lookup, or that of the CAD data.
Number ==
    LET lcsc == {a \in heard : a.provider = "lcsc"}
    IN IF lcsc = {} THEN cad.number ELSE (CHOOSE a \in lcsc : TRUE).number

Fill(old, new) == IF old = None THEN new ELSE old
\* Mutant: what the CAD data say is kept unseen.
ContradictsNothing(old, new) == FALSE
Contradicts(old, new) == old # None /\ new # None /\ ~Agree(old, new)

\* _reconcile_symbol_identity keeps what the CAD data say; another part number
\* is an error, another manufacturer a warning.  CAD data of another part are
\* stopped before (MetadataResolution); this check does not rely on it.
Export ==
    /\ merged \notin {None, Mismatch} /\ symbol = None
    /\ symbol' = IF \/ Unavailable \/ Contradicts(cad.mpn, merged.mpn)
                    \/ Contradicts(cad.number, Number)
                 THEN Refused
                 ELSE [maker |-> Fill(cad.maker, merged.maker),
                       mpn |-> Fill(cad.mpn, merged.mpn),
                       number |-> Fill(cad.number, Number), sheet |-> Link]
    /\ UNCHANGED <<request, cad, told, merged, heard>>

Next == (\E a \in Answers : ArriveLcsc(a) \/ Arrive(a)) \/ Merge \/ Export

Spec == Init /\ [][Next]_vars

-----------------------------------------------------------------------------
(* Properties.                                                             *)

IsPart == merged \notin {None, Mismatch}
Selected(f) ==
    CASE f = "maker" -> merged.maker
      [] f = "sheet" -> merged.sheet
      [] OTHER -> merged.value[f]

\* What a provider said of a field was selected or is listed as a conflict.
Kept(a, f) ==
    a[f] # None =>
        \/ Agree(a[f], Selected(f))
        \/ \E c \in merged.conflicts : c.field = f /\ <<a.provider, a[f]>> \in c.values

\* A datasheet that _select_datasheet passes over, while it selects no other.
Dropped(a) ==
    /\ merged.sheet = None
    /\ a.sheet \notin Links \/ \E b \in heard : b.page # None /\ Agree(a.sheet, b.page)

\* No provider's word is lost between its answer and the manifest: an answer of
\* another part, or of a manufacturer the user did not name, leaves an error, and
\* no part at all if it is LCSC's, whose number names the CAD data. What every
\* other one says was selected or is listed as a conflict, the manufacturer also
\* of an answer that was rejected for it, once any manufacturer is selected. The
\* code drops one word without a trace: the datasheet that is a link to a product
\* page or no http(s) URL at all, where no provider has a better one
\* (merge.py:100-185, 378-404, service.py:549-576).
EveryWordIsKept ==
    IsPart => \A a \in heard :
        IF ~Exact(a) THEN a.provider # "lcsc" /\ a.provider \in merged.errors
        ELSE /\ merged.maker # None => Kept(a, "maker")
             /\ a \in Range(merged.records) =>
                  /\ \A f \in Scalars : Kept(a, f)
                  /\ Kept(a, "sheet") \/ Dropped(a)
             /\ a \in Range(merged.records) \/ a.provider \in merged.errors

\* The same records give the same part, whichever provider answered first
\* (records.sort and _deduplicate_provenance in merge.py).
OrderDoesNotMatter ==
    merged # None => \A rs \in SetToSeqs(Range(records)) : Merged(rs) = merged

\* The exported symbol names the part of the manifest: number and MPN agree, a
\* datasheet that was asked for is a link and no product page of its provider, and the
\* manufacturer agrees unless the user named another than the CAD data do
\* (__main__.py:1159-1187, 1782-1800).
SymbolAgrees ==
    symbol \notin {None, Refused} =>
        /\ Agree(symbol.mpn, merged.mpn)
        /\ Number # None => Agree(symbol.number, Number)
        /\ request.link # None => symbol.sheet \in Links
        /\ request.link \in Providers => ~IsPageOf(symbol.sheet, RecordOf(request.link))
        /\ request.link = None => symbol.sheet = cad.sheet
        /\ request.maker = None => Agree(symbol.maker, merged.maker)
=============================================================================

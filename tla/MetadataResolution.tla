------------------------- MODULE MetadataResolution -------------------------
(***************************************************************************)
(* One exact metadata resolution (metadata/service.py, resolve_metadata).  *)
(*                                                                         *)
(* The run trusts an MPN, a manufacturer and an LCSC number step by step:  *)
(* from the request, from the LCSC catalogue, from the EasyEDA payload and *)
(* again from the catalogue.  Distributors are asked for the trusted MPN,  *)
(* and their records are kept only when the manufacturer is requested or   *)
(* evidenced.  Every lookup may hit the cache, miss it, fail or abort the  *)
(* run, and what it answers is arbitrary up to the provider's own exact    *)
(* match; the cache may hold any record that a provider can return, since  *)
(* no provider returns one without an MPN or a manufacturer.               *)
(*                                                                         *)
(* A name stands for its normalized form.  Distributors may be asked in    *)
(* any order, which is the order the user wrote them in.                   *)
(***************************************************************************)
EXTENDS Naturals, FiniteSets

CONSTANTS
    Mpns, Mfrs,
    Ids,        \* canonical LCSC numbers
    BadId,      \* a part number that is not canonical
    None,
    Requests    \* the requests considered

VARIABLES
    request,
    stage,
    mpn, mfr,    \* trusted_mpn, trusted_manufacturer
    id,          \* lcsc_id
    evidence,    \* manufacturer_evidence: [source -> name or None]
    lcsc,        \* lcsc_record
    attempted,   \* lcsc_id_lookup_attempted
    cad,         \* status of result.cad, None when there is none
    cadIdentity, \* identity in the CAD payload, None without CAD data
    records,     \* distributor_records: [provider -> record or None]
    errors,      \* provider_errors: [source -> code or None]
    jlcpcb, blocking,
    discovery,   \* status of cad_discovery, or None
    todo,        \* distributors still to be asked
    pending,     \* <<distributor, record>> that waits for alias evidence
    raised,      \* code of the MetadataServiceError that ended the run
    asked        \* some server was contacted

identity == <<mpn, mfr, id, evidence, lcsc>>
products == <<cad, cadIdentity, records, jlcpcb>>
progress == <<attempted, todo, pending>>
resolution == <<request, stage, identity, products, progress, errors,
                blocking, discovery, raised, asked>>

Distributors == {"digikey", "mouser"}
Providers == {"lcsc"} \cup Distributors
CadSources == {"easyeda", "auto"} \cup Distributors
Cached == Providers \ {"mouser"}   \* Mouser forbids a persistent cache

Optional(S) == S \cup {None}
LcscRecords == [mpn : Mpns, mfr : Mfrs, id : Ids \cup {BadId}]
PartRecords == [mpn : Mpns, mfr : Mfrs, id : {None}]
RecordsOf(p) == IF p = "lcsc" THEN LcscRecords ELSE PartRecords
Payloads == [ids : SUBSET Ids, mpns : SUBSET Mpns, mfrs : SUBSET Mfrs]

\* NETWORK_ERROR stands for RATE_LIMITED as well.
ProviderCodes == {"NOT_FOUND", "AMBIGUOUS", "MPN_MISMATCH", "AUTH_MISSING",
                  "AUTH_FAILED", "NETWORK_ERROR", "INVALID_RESPONSE",
                  "OFFLINE_CACHE_MISS", "CACHE_CORRUPT"}
\* A MetadataServiceError of the lookup itself, which no handler of provider
\* errors sees: a fetched record that fails validation (its code is another
\* INVALID_RESPONSE in the source), or a cache that cannot be written.
AbortCodes == {"INVALID_RECORD", "CACHE_WRITE_ERROR"}
ErrorCodes == ProviderCodes \cup
    {"GUEST_LOOKUP_UNSUPPORTED", "IDENTITY_UNRESOLVED",
     "MANUFACTURER_UNVERIFIED"}
DiscoveryStatuses == {"CAD_IDENTITY_UNRESOLVED", "CAD_NOT_ACQUIRED",
                      "CAD_AUTH_REQUIRED", "CAD_DOWNLOAD_UNAVAILABLE",
                      "CAD_MANUAL_DOWNLOAD_REQUIRED"}
JlcpcbStatuses == {"PART_FOUND", "MANUAL_GLOBAL_SOURCING_REQUIRED",
                   "LOOKUP_FAILED", "IDENTITY_AMBIGUOUS", "IDENTITY_CONFLICT"}

AllRequests ==
    {r \in [mpn : Optional(Mpns), mfr : Optional(Mfrs), id : Optional(Ids),
            providers : SUBSET Providers, cadSource : CadSources,
            offline : BOOLEAN] : r.mpn # None \/ r.id # None}

\* What extract_cad_identity reads out of a payload.
PayloadIdentities == [mpn : Optional(Mpns), mfr : Optional(Mfrs)]
ConflictCodes == {"LCSC_ID_MISMATCH", "MPN_MISMATCH", "MANUFACTURER_MISMATCH"}

\* Python's None is no name, no code and no record.
ASSUME ResolutionAssumption ==
    /\ Requests \subseteq AllRequests
    /\ BadId \notin Ids
    /\ None \notin Mpns \cup Mfrs \cup Ids \cup {BadId}
    /\ None \notin LcscRecords \cup PartRecords \cup PayloadIdentities
    /\ None \notin ErrorCodes \cup ConflictCodes \cup JlcpcbStatuses \cup DiscoveryStatuses

-----------------------------------------------------------------------------
(* What a lookup answers: a code, a record, and whether a server was asked. *)

Found(r, a) == [code |-> "OK", record |-> r, asked |-> a]
Failed(c, a) == [code |-> c, record |-> None, asked |-> a]

KeepLatest(old, new) == IF new = None THEN old ELSE new
Keep(old, new) == IF old = None THEN new ELSE old
Uses(r) == r.cadSource \in {"easyeda", "auto"}

\* validate_exact_match over what one search returned.
ExactMatch(p, S, m, f) ==
    LET sameMpn == {r \in S : r.mpn = m}
        exact == {r \in sameMpn : f = None \/ r.mfr = f}
    IN IF exact = {}
       THEN Failed(IF p = "lcsc" /\ f # None /\ sameMpn # {}
                   THEN "MPN_MISMATCH" ELSE "NOT_FOUND", TRUE)
       ELSE IF Cardinality(exact) > 1 THEN Failed("AMBIGUOUS", TRUE)
       ELSE Found(CHOOSE r \in exact : TRUE, TRUE)

IdMatch(S, i) ==
    LET matches == {r \in S : r.id = i}
    IN IF matches = {} THEN Failed("NOT_FOUND", TRUE)
       ELSE IF Cardinality(matches) > 1 THEN Failed("AMBIGUOUS", TRUE)
       ELSE Found(CHOOSE r \in matches : TRUE, TRUE)

\* Two records are enough for every outcome of a match.
SearchResults(p) == {S \in SUBSET RecordsOf(p) : Cardinality(S) <= 2}

Unavailable(p) ==
    {Failed(c, TRUE) : c \in {"NETWORK_ERROR", "INVALID_RESPONSE"}} \cup
    IF p \in Distributors
    THEN {Failed("AUTH_MISSING", FALSE), Failed("AUTH_FAILED", TRUE)}
    ELSE {}

SearchExact(p, m, f) ==
    {ExactMatch(p, S, m, f) : S \in SearchResults(p)} \cup Unavailable(p)
SearchId(i) == {IdMatch(S, i) : S \in SearchResults("lcsc")} \cup Unavailable("lcsc")

\* _validate_cached_record.
ExactRecords(p, m, f) ==
    {r \in RecordsOf(p) : r.mpn = m /\ (f = None \/ r.mfr = f)}
CachedRecords(i) == LcscRecords
IdRecords(i) == {r \in LcscRecords : r.id = i}

\* Mutant: a miss offline is read as absence.
LookupAbsent(p, offline, answers, valid) ==
    {Found(r, FALSE) : r \in valid} \cup
    IF offline THEN {Failed("NOT_FOUND", FALSE)} ELSE answers

\* _cached_lookup: a validated hit, else a miss that offline is an error,
\* else an answer that is validated again and written.
Lookup(p, offline, answers, valid) ==
    LET accepted == {o \in answers : o.code = "OK" /\ o.record \in valid}
        fetched ==
            {o \in answers : o.code # "OK"} \cup accepted
            \cup (IF \E o \in answers : o.code = "OK" /\ o.record \notin valid
                  THEN {Failed("INVALID_RECORD", TRUE)} ELSE {})
            \cup (IF p \in Cached /\ accepted # {}
                  THEN {Failed("CACHE_WRITE_ERROR", TRUE)} ELSE {})
        missed == IF ~offline THEN fetched
                  ELSE {Failed("OFFLINE_CACHE_MISS", FALSE)} \cup
                       IF p \in Cached THEN {Failed("CACHE_CORRUPT", FALSE)}
                                       ELSE {}
        hits == IF p \in Cached THEN {Found(r, FALSE) : r \in valid} ELSE {}
    IN hits \cup missed

LookupExact(p, m, f) ==
    Lookup(p, request.offline, SearchExact(p, m, f), ExactRecords(p, m, f))
LookupId(i) == Lookup("lcsc", request.offline, SearchId(i), IdRecords(i))

-----------------------------------------------------------------------------
(* Identity in a CAD payload (metadata/cad_identity.py).                    *)

Reconcile(S) == IF S = {} THEN None ELSE CHOOSE v \in S : TRUE
PayloadIdentity(p) == [mpn |-> Reconcile(p.mpns), mfr |-> Reconcile(p.mfrs)]

\* The first error of extract_cad_identity for the LCSC number i and, where
\* the payload has an MPN, the trusted one; None if there is none.
IdentityError(p, i, m) ==
    IF \E S \in {p.ids, p.mpns, p.mfrs} : \E v, w \in S : v # w
    THEN "INVALID_RESPONSE"
    ELSE IF p.ids = {} THEN "INVALID_RESPONSE"
    ELSE IF p.ids # {i} THEN "LCSC_ID_MISMATCH"
    ELSE IF m # None /\ p.mpns # {} /\ m \notin p.mpns THEN "MPN_MISMATCH"
    ELSE None

\* EasyedaProvider.get_cad_data; the response cache is consulted first.
CadAnswers ==
    {Found(p, a) : p \in Payloads, a \in {FALSE} \cup {~request.offline}}
    \cup {Failed("NOT_FOUND", FALSE)}
    \cup IF request.offline
         THEN {Failed(c, FALSE) : c \in {"OFFLINE_CACHE_MISS", "CACHE_CORRUPT"}}
         ELSE {Failed(c, TRUE) :
                 c \in {"NOT_FOUND", "NETWORK_ERROR", "INVALID_RESPONSE"}}

-----------------------------------------------------------------------------
(* Results.                                                                *)

Jlcpcb(status) == [status |-> status, part |-> None, candidates |-> {}]
FoundJlcpcb(i) == [status |-> "PART_FOUND", part |-> i, candidates |-> {}]

Evidences(source, f) == evidence' = [evidence EXCEPT ![source] = Keep(@, f)]
Reports(p, code) == errors' = [errors EXCEPT ![p] = code]
Goto(s) == stage' = s /\ UNCHANGED raised
Raise(code) ==
    /\ raised' = code /\ stage' = "raised"
    /\ UNCHANGED <<request, identity, products, progress, errors, blocking,
                   discovery>>

\* _manufacturer_is_evidenced.
NotContradicted(f) == \A source \in DOMAIN evidence : evidence[source] \in {None, f}
Evidenced(f) == \E source \in DOMAIN evidence : evidence[source] = f

InitWith(r) ==
    /\ request = r
    /\ stage = "exact"
    /\ mpn = r.mpn /\ mfr = r.mfr /\ id = r.id
    /\ evidence = [source \in {"lcsc", "easyeda"} |-> None]
    /\ lcsc = None /\ attempted = FALSE
    /\ cad = None /\ cadIdentity = None
    /\ records = [p \in Providers |-> None]
    /\ errors = [p \in Providers \cup {"easyeda"} |-> None]
    /\ jlcpcb = None /\ blocking = None /\ discovery = None
    /\ todo = r.providers \ {"lcsc"}
    /\ pending = None /\ raised = None /\ asked = FALSE

Init == \E r \in Requests : InitWith(r)

-----------------------------------------------------------------------------
(* The catalogue is asked for the requested MPN.                           *)

SkipExact ==
    /\ stage = "exact" /\ (id # None \/ mpn = None)
    /\ Goto("cad")
    /\ UNCHANGED <<request, identity, products, progress, errors, blocking,
                   discovery, asked>>

ExactFound(r) ==
    /\ lcsc' = r /\ id' = r.id
    /\ jlcpcb' = FoundJlcpcb(r.id)
    /\ mfr' = Keep(mfr, r.mfr)
    /\ Evidences("lcsc", r.mfr)
    /\ Goto("cad")
    /\ UNCHANGED <<request, mpn, cad, cadIdentity, records, progress, errors,
                   blocking, discovery>>

ExactNotFound ==
    /\ jlcpcb' = Jlcpcb("MANUAL_GLOBAL_SOURCING_REQUIRED")
    /\ cad' = IF Uses(request) THEN "CAD_NOT_FOUND" ELSE cad
    /\ Goto("cad")
    /\ UNCHANGED <<request, identity, cadIdentity, records, progress, errors,
                   blocking, discovery>>

\* Ambiguity, a conflict or a failed lookup blocks the run but does not end it.
ExactFails(code) ==
    LET status == CASE code = "AMBIGUOUS" -> "IDENTITY_AMBIGUOUS"
                    [] code = "MPN_MISMATCH" -> "IDENTITY_CONFLICT"
                    [] OTHER -> "LOOKUP_FAILED"
    IN /\ Reports("lcsc", code)
       /\ jlcpcb' = Jlcpcb(status)
       /\ blocking' = IF status = "LOOKUP_FAILED" THEN code ELSE status
       /\ Goto("cad")
       /\ UNCHANGED <<request, identity, cad, cadIdentity, records, progress,
                      discovery>>

LookupExactMpn ==
    /\ stage = "exact" /\ id = None /\ mpn # None
    /\ \E o \in LookupExact("lcsc", mpn, mfr) :
         /\ asked' = (asked \/ o.asked)
         /\ \/ o.code = "OK" /\ o.record.id \in Ids /\ ExactFound(o.record)
            \/ o.code = "OK" /\ o.record.id \notin Ids /\ Raise("INVALID_RESPONSE")
            \/ o.code = "NOT_FOUND" /\ ExactNotFound
            \/ o.code \in ProviderCodes \ {"NOT_FOUND"} /\ ExactFails(o.code)
            \/ o.code \in AbortCodes /\ Raise(o.code)

-----------------------------------------------------------------------------
(* EasyEDA is asked for the CAD data of the LCSC number.                   *)

WantsCad == Uses(request) /\ id # None /\ blocking = None

SkipCad ==
    /\ stage = "cad" /\ ~WantsCad
    /\ Goto("identity")
    /\ UNCHANGED <<request, identity, products, progress, errors, blocking,
                   discovery, asked>>

CadFound(p) ==
    LET proved == PayloadIdentity(p)
    IN /\ cad' = "PARTIAL" /\ cadIdentity' = proved
       /\ mpn' = Keep(mpn, proved.mpn)
       /\ mfr' = Keep(mfr, proved.mfr)
       /\ Evidences("easyeda", proved.mfr)
       /\ Goto("identity")
       /\ UNCHANGED <<request, id, lcsc, records, jlcpcb, progress, errors,
                      blocking, discovery>>

CadNotFound ==
    /\ cad' = "CAD_NOT_FOUND"
    /\ Goto("identity")
    /\ UNCHANGED <<request, identity, cadIdentity, records, jlcpcb, progress,
                   errors, blocking, discovery>>

CadFails(code) ==
    /\ Reports("easyeda", code)
    /\ blocking' = code
    /\ Goto("identity")
    /\ UNCHANGED <<request, identity, products, progress, discovery>>

FetchCad ==
    /\ stage = "cad" /\ WantsCad
    /\ \E o \in CadAnswers :
         /\ asked' = (asked \/ o.asked)
         /\ \/ /\ o.code = "OK"
               /\ LET wrong == IdentityError(o.record, id, mpn)
                  IN IF wrong = None THEN CadFound(o.record) ELSE Raise(wrong)
            \/ o.code = "NOT_FOUND" /\ CadNotFound
            \/ o.code \in ProviderCodes \ {"NOT_FOUND"} /\ CadFails(o.code)

-----------------------------------------------------------------------------
(* The catalogue is asked for the LCSC number, when the record is wanted   *)
(* or an identity is still unproved.                                       *)

ProvedMpn == IF cadIdentity = None THEN None ELSE cadIdentity.mpn
ProvedMfr == IF cadIdentity = None THEN None ELSE cadIdentity.mfr

IdentityIncomplete ==
    ProvedMpn = None \/ (request.mfr # None /\ ProvedMfr = None)

PairUnproved == request.id # None /\ request.mpn # None /\ IdentityIncomplete

ManufacturerUnproved ==
    /\ id # None /\ request.mfr # None
    /\ ProvedMfr # request.mfr

DistributorsNeedMpn ==
    /\ id # None /\ mpn = None
    /\ request.providers \cap Distributors # {}
    /\ cad = "CAD_NOT_FOUND" \/ cadIdentity # None

PairMandatory == PairUnproved \/ DistributorsNeedMpn
Mandatory == PairUnproved \/ ManufacturerUnproved \/ DistributorsNeedMpn

WantsLcsc ==
    /\ lcsc = None /\ id # None /\ blocking = None
    /\ "lcsc" \in request.providers \/ Mandatory

SkipId ==
    /\ stage = "identity" /\ ~WantsLcsc
    /\ Goto("publish")
    /\ UNCHANGED <<request, identity, products, progress, errors, blocking,
                   discovery, asked>>

\* _validate_record_identity; None when the record fits.
Mismatch(r, m, f) ==
    IF m # None /\ r.mpn # m THEN "MPN_MISMATCH"
    ELSE IF f # None /\ r.mfr # f THEN "MANUFACTURER_MISMATCH"
    ELSE None

IdFound(r) ==
    /\ lcsc' = r /\ attempted' = TRUE
    /\ mpn' = Keep(mpn, r.mpn)
    /\ mfr' = Keep(mfr, r.mfr)
    /\ Evidences("lcsc", r.mfr)
    /\ jlcpcb' = FoundJlcpcb(r.id)
    /\ Goto("publish")
    /\ UNCHANGED <<request, id, cad, cadIdentity, records, todo, pending,
                   errors, blocking, discovery>>

IdNotFound ==
    /\ attempted' = TRUE
    /\ IF mpn # None
       THEN jlcpcb' = Jlcpcb("MANUAL_GLOBAL_SOURCING_REQUIRED") /\ UNCHANGED errors
       ELSE Reports("lcsc", "NOT_FOUND") /\ UNCHANGED jlcpcb
    /\ Goto("publish")
    /\ UNCHANGED <<request, identity, cad, cadIdentity, records, todo, pending,
                   blocking, discovery>>

IdFails(code) ==
    /\ attempted' = TRUE
    /\ Reports("lcsc", code)
    /\ jlcpcb' = IF mpn # None THEN Jlcpcb("LOOKUP_FAILED") ELSE jlcpcb
    /\ Goto("publish")
    /\ UNCHANGED <<request, identity, cad, cadIdentity, records, todo, pending,
                   blocking, discovery>>

LookupLcscId ==
    /\ stage = "identity" /\ WantsLcsc
    /\ \E o \in LookupId(id) :
         /\ asked' = (asked \/ o.asked)
         /\ \/ /\ o.code = "OK"
               /\ LET wrong == Mismatch(o.record, mpn, request.mfr)
                  IN IF wrong = None THEN IdFound(o.record) ELSE Raise(wrong)
            \/ o.code = "NOT_FOUND" /\ ~Mandatory /\ IdNotFound
            \/ /\ o.code \in ProviderCodes \ {"NOT_FOUND", "AMBIGUOUS", "MPN_MISMATCH"}
               /\ ~Mandatory /\ IdFails(o.code)
            \/ /\ o.code \in ProviderCodes
               /\ Mandatory \/ o.code \in {"AMBIGUOUS", "MPN_MISMATCH"}
               /\ Raise(o.code)
            \/ o.code \in AbortCodes /\ Raise(o.code)

-----------------------------------------------------------------------------
(* Distributors are asked for the trusted MPN.                             *)

PublishLcsc ==
    /\ stage = "publish"
    /\ records' = IF "lcsc" \in request.providers /\ lcsc # None
                  THEN [records EXCEPT !["lcsc"] = lcsc] ELSE records
    /\ Goto("providers")
    /\ UNCHANGED <<request, identity, cad, cadIdentity, jlcpcb, progress,
                   errors, blocking, discovery, asked>>

Unresolved(p) ==
    /\ stage = "providers" /\ p \in todo /\ mpn = None
    /\ Reports(p, "IDENTITY_UNRESOLVED")
    /\ todo' = todo \ {p}
    /\ UNCHANGED <<request, stage, identity, products, attempted, pending,
                   blocking, discovery, raised, asked>>

\* The record of p is published when its manufacturer was requested or is
\* evidenced; otherwise it is rejected.
Admit(p, r) ==
    IF request.mfr # None \/ Evidenced(r.mfr)
    THEN records' = [records EXCEPT ![p] = r] /\ UNCHANGED errors
    ELSE Reports(p, "MANUFACTURER_UNVERIFIED") /\ UNCHANGED records

NeedsAlias(r) ==
    /\ request.mfr = None /\ ~Evidenced(r.mfr)
    /\ id # None /\ lcsc = None /\ ~attempted

DistributorFails(p, code) ==
    /\ Reports(p, IF code = "AUTH_MISSING" THEN "GUEST_LOOKUP_UNSUPPORTED" ELSE code)
    /\ todo' = todo \ {p}
    /\ UNCHANGED <<request, stage, identity, products, attempted, pending,
                   blocking, discovery, raised>>

\* The record of p is published or rejected, unless an alias may still be
\* proved: then the catalogue is asked first.
Receives(p, r) ==
    \/ /\ ~NeedsAlias(r)
       /\ Admit(p, r)
       /\ todo' = todo \ {p}
       /\ UNCHANGED <<request, stage, identity, cad, cadIdentity, jlcpcb,
                      attempted, pending, blocking, discovery, raised>>
    \/ /\ NeedsAlias(r)
       /\ pending' = <<p, r>> /\ attempted' = TRUE
       /\ Goto("alias")
       /\ UNCHANGED <<request, identity, products, todo, errors, blocking,
                      discovery>>

AskDistributor(p) ==
    /\ stage = "providers" /\ p \in todo /\ mpn # None
    /\ \E o \in LookupExact(p, mpn, request.mfr) :
         /\ asked' = (asked \/ o.asked)
         /\ \/ /\ o.code = "OK"
               /\ LET wrong == Mismatch(o.record, mpn, request.mfr)
                  IN IF wrong = None THEN Receives(p, o.record) ELSE Raise(wrong)
            \/ /\ o.code \in ProviderCodes \ {"AMBIGUOUS", "MPN_MISMATCH"}
               /\ DistributorFails(p, o.code)
            \/ /\ o.code \in AbortCodes \cup {"AMBIGUOUS", "MPN_MISMATCH"}
               /\ Raise(o.code)

\* The catalogue record of the LCSC number may prove another name of the
\* manufacturer.  Only a record of another MPN ends the run.
AliasFound(r) ==
    /\ lcsc' = r
    /\ mfr' = Keep(mfr, r.mfr)
    /\ Evidences("lcsc", r.mfr)
    /\ records' = IF "lcsc" \in request.providers
                  THEN [records EXCEPT !["lcsc"] = r] ELSE records
    /\ Goto("admit")
    /\ UNCHANGED <<request, mpn, id, cad, cadIdentity, jlcpcb, progress,
                   errors, blocking, discovery>>

AliasUnavailable ==
    /\ Goto("admit")
    /\ UNCHANGED <<request, identity, products, progress, errors, blocking,
                   discovery>>

LookupAlias ==
    /\ stage = "alias"
    /\ \E o \in LookupId(id) :
         /\ asked' = (asked \/ o.asked)
         /\ \/ o.code = "OK" /\ o.record.mpn = mpn /\ AliasFound(o.record)
            \/ o.code = "OK" /\ o.record.mpn # mpn /\ Raise("MPN_MISMATCH")
            \/ o.code # "OK" /\ AliasUnavailable

AdmitPending ==
    /\ stage = "admit"
    /\ Admit(pending[1], pending[2])
    /\ todo' = todo \ {pending[1]} /\ pending' = None
    /\ Goto("providers")
    /\ UNCHANGED <<request, identity, cad, cadIdentity, jlcpcb, attempted,
                   blocking, discovery, asked>>

\* _attach_global_sourcing_candidates.
AttachCandidates ==
    /\ stage = "providers" /\ todo = {}
    /\ jlcpcb' =
         IF jlcpcb # None /\ mpn # None
            /\ jlcpcb.status = "MANUAL_GLOBAL_SOURCING_REQUIRED"
         THEN [jlcpcb EXCEPT !.candidates =
                 {p \in Distributors : records[p] # None /\ records[p].mpn = mpn}]
         ELSE jlcpcb
    /\ Goto(IF request.cadSource \in Distributors THEN "discover" ELSE "resolved")
    /\ UNCHANGED <<request, identity, cad, cadIdentity, records, progress,
                   errors, blocking, discovery, asked>>

-----------------------------------------------------------------------------
(* A distributor is asked for an official CAD handoff.                      *)

AuthCodes == {"AUTH_MISSING", "AUTH_FAILED", "GUEST_LOOKUP_UNSUPPORTED"}
DiscoveryFailure(code) ==
    IF code \in AuthCodes THEN "CAD_AUTH_REQUIRED" ELSE "CAD_DOWNLOAD_UNAVAILABLE"
Discovered(status, code, a) == [status |-> status, code |-> code, asked |-> a]

\* The record of p found again for the trusted identity, or searched when
\* there is none.
MatchedAgain(p) ==
    IF records[p] # None
    THEN {[ExactMatch(p, {records[p]}, mpn, mfr) EXCEPT !.asked = FALSE]}
    ELSE SearchExact(p, mpn, mfr)

\* The product's own resources, which only Digi-Key is asked for.
MediaFailures(p) ==
    IF p = "digikey"
    THEN {Failed(c, TRUE) : c \in {"NETWORK_ERROR", "AUTH_FAILED", "INVALID_RESPONSE"}}
         \cup {Failed("AUTH_MISSING", FALSE)}
    ELSE {Failed("INVALID_RESPONSE", records[p] = None)}

HandoffFailures(p) ==
    {o \in MatchedAgain(p) : o.code # "OK"}
    \cup IF \E o \in MatchedAgain(p) : o.code = "OK" THEN MediaFailures(p) ELSE {}

\* A code that is not None is a new provider error; a status of None ends the
\* run with it.
FailedHandoff(o) ==
    Discovered(IF o.code \in {"AMBIGUOUS", "MPN_MISMATCH"} THEN None
               ELSE DiscoveryFailure(o.code),
               IF o.code = "AUTH_MISSING" THEN "GUEST_LOOKUP_UNSUPPORTED"
               ELSE o.code, o.asked)

Handoffs(p) ==
    {FailedHandoff(o) : o \in HandoffFailures(p)}
    \cup {Discovered(status, None, o.asked \/ p = "digikey") :
            o \in {m \in MatchedAgain(p) : m.code = "OK"},
            status \in {"CAD_MANUAL_DOWNLOAD_REQUIRED", "CAD_DOWNLOAD_UNAVAILABLE"}}

\* Mutant: a rejected or failed distributor is searched again.
DiscoveriesAgain(p) ==
    IF mfr = None \/ mpn = None
    THEN {Discovered("CAD_IDENTITY_UNRESOLVED", None, FALSE)}
    ELSE IF request.offline
    THEN {Discovered("CAD_NOT_ACQUIRED", None, FALSE)}
    ELSE Handoffs(p)

\* _discover_digikey_cad, _discover_mouser_cad.
Discoveries(p) ==
    IF mfr = None \/ mpn = None
    THEN {Discovered("CAD_IDENTITY_UNRESOLVED", None, FALSE)}
    ELSE IF request.offline
    THEN {Discovered("CAD_NOT_ACQUIRED", None, FALSE)}
    ELSE IF records[p] = None /\ errors[p] # None
    THEN {Discovered(DiscoveryFailure(errors[p]), None, FALSE)}
    ELSE Handoffs(p)

DiscoverCad ==
    /\ stage = "discover"
    /\ \E d \in Discoveries(request.cadSource) :
         /\ asked' = (asked \/ d.asked)
         /\ IF d.status = None
            THEN Raise(d.code)
            ELSE /\ discovery' = d.status
                 /\ blocking' = d.status
                 /\ IF d.code = None THEN UNCHANGED errors
                    ELSE Reports(request.cadSource, d.code)
                 /\ Goto("resolved")
                 /\ UNCHANGED <<request, identity, products, progress>>

Resolve ==
    \/ SkipExact \/ LookupExactMpn
    \/ SkipCad \/ FetchCad
    \/ SkipId \/ LookupLcscId
    \/ PublishLcsc
    \/ \E p \in Distributors : Unresolved(p) \/ AskDistributor(p)
    \/ LookupAlias \/ AdmitPending
    \/ AttachCandidates \/ DiscoverCad

Spec == Init /\ [][Resolve]_resolution

-----------------------------------------------------------------------------
(* Properties.                                                             *)

LookupStages == {"exact", "cad", "identity"}
Stages == LookupStages \cup {"publish", "providers", "alias", "admit",
                             "discover", "resolved", "raised"}
Jlcpcbs == [status : JlcpcbStatuses, part : Optional(Ids \cup {BadId}),
            candidates : SUBSET Distributors]

\* Types of the state of a resolution.
TypeOK ==
    /\ request \in Requests
    /\ stage \in Stages
    /\ mpn \in Optional(Mpns) /\ mfr \in Optional(Mfrs) /\ id \in Optional(Ids)
    /\ evidence \in [{"lcsc", "easyeda"} -> Optional(Mfrs)]
    /\ lcsc \in Optional(LcscRecords)
    /\ attempted \in BOOLEAN /\ asked \in BOOLEAN
    /\ cad \in {None, "PARTIAL", "CAD_NOT_FOUND"}
    /\ cadIdentity \in Optional(PayloadIdentities)
    /\ records \in [Providers -> Optional(LcscRecords \cup PartRecords)]
    /\ errors \in [Providers \cup {"easyeda"} -> Optional(ErrorCodes)]
    /\ jlcpcb \in Optional(Jlcpcbs)
    /\ blocking \in Optional(ErrorCodes \cup JlcpcbStatuses \cup DiscoveryStatuses)
    /\ discovery \in Optional(DiscoveryStatuses)
    /\ todo \subseteq Distributors
    /\ pending \in Optional(Distributors \X PartRecords)
    /\ raised \in Optional(ErrorCodes \cup AbortCodes \cup ConflictCodes)

\* CAD data that survives the identity stage is proved to be the requested
\* part (service.py:338-465): its own payload names the requested MPN and
\* manufacturer, or a catalogue record of the same LCSC number does.
CadIsProved ==
    cadIdentity # None /\ stage \notin LookupStages \cup {"raised"} =>
        /\ request.mpn # None =>
             \/ cadIdentity.mpn = request.mpn
             \/ lcsc # None /\ lcsc.mpn = request.mpn
        /\ request.mfr # None =>
             \/ cadIdentity.mfr = request.mfr
             \/ lcsc # None /\ lcsc.mfr = request.mfr
        /\ lcsc # None => lcsc.id = id
        /\ request.id # None => id = request.id

\* Every published record is of the trusted MPN and of the requested
\* manufacturer, or of one that part-scoped evidence proves
\* (service.py:515-576), so merge_records never rejects one.
RecordsAreEvidenced ==
    \A p \in Providers : records[p] # None =>
        /\ records[p].mpn = mpn
        /\ request.mfr # None => records[p].mfr = request.mfr
        /\ Evidenced(records[p].mfr) \/ request.mfr # None

\* Evidence for a manufacturer comes from the CAD payload or the catalogue
\* record of one LCSC number, and a JLCPCB part that was found is that number.
EvidenceIsOfOnePart ==
    /\ evidence["lcsc"] # None => /\ lcsc # None /\ lcsc.id = id
                                  /\ lcsc.mfr = evidence["lcsc"]
                                  /\ lcsc.mpn = mpn
    /\ evidence["easyeda"] # None =>
         cadIdentity # None /\ cadIdentity.mfr = evidence["easyeda"]
    /\ jlcpcb # None /\ jlcpcb.status = "PART_FOUND" => jlcpcb.part = id

\* Absence from the catalogue is reported only when the catalogue said so in
\* this run: never for a miss offline, never beside a record or an error, and
\* the alternatives it offers are published records.
AbsenceIsProved ==
    jlcpcb # None /\ jlcpcb.status = "MANUAL_GLOBAL_SOURCING_REQUIRED" =>
        /\ asked /\ ~request.offline
        /\ lcsc = None /\ errors["lcsc"] = None
        /\ \A p \in jlcpcb.candidates : records[p] # None

\* A distributor's CAD is offered only for a manufacturer and MPN that are
\* both trusted, and never from one whose own record was rejected or failed
\* (service.py:932-1008).
HandoffIsExact ==
    discovery = "CAD_MANUAL_DOWNLOAD_REQUIRED" =>
        LET source == request.cadSource
        IN /\ mpn # None /\ mfr # None
           /\ errors[source] = None
           /\ records[source] # None => records[source].mfr = mfr

\* What is trusted is never replaced, the user's identity least of all, and
\* a published record stays.
TrustIsKept ==
    [][/\ mpn # None => mpn' = mpn
       /\ mfr # None => mfr' = mfr
       /\ id # None => id' = id
       /\ \A p \in Providers : records[p] # None => records'[p] = records[p]
      ]_resolution

=============================================================================

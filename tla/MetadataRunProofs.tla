-------------------------- MODULE MetadataRunProofs --------------------------
(***************************************************************************)
(* What one exact metadata resolution may trust and publish, for every set *)
(* of names, of LCSC numbers and of requests; then what one metadata run   *)
(* writes and answers, for every command line and every outcome of its     *)
(* resolution.                                                             *)
(*                                                                         *)
(* While a run resolves, the invariant of the resolution holds and what    *)
(* blocks it leaves it no CAD data, but for a handoff.  Past the search    *)
(* the written effects and the merged part say what the run has done, and  *)
(* the machine result is computed from these alone.                        *)
(***************************************************************************)
EXTENDS MetadataRun, TLAPS


-----------------------------------------------------------------------------
(* Lookups.                                                                *)

\* A lookup answers only with a valid record, and never says that there is
\* none unless a server said so.
LEMMA LookupIsSound ==
    ASSUME NEW p, NEW offline \in BOOLEAN, NEW answers, NEW valid,
           \A o \in answers : o.code = "NOT_FOUND" => o.asked,
           NEW o \in Lookup(p, offline, answers, valid)
    PROVE  /\ o.code = "OK" => o.record \in valid
           /\ o.code = "NOT_FOUND" => o.asked /\ ~offline
  BY DEF Lookup, Found, Failed

LEMMA ExactMatchIsSound ==
    ASSUME NEW p, NEW S, NEW m, NEW f
    PROVE  LET o == ExactMatch(p, S, m, f)
           IN /\ o.asked
              /\ o.code \in {"OK", "NOT_FOUND", "AMBIGUOUS", "MPN_MISMATCH"}
              /\ o.code = "OK" => o.record \in S /\ (f = None \/ o.record.mfr = f)
  BY DEF ExactMatch, Found, Failed

LEMMA ExactMatchIsRecord ==
    ASSUME NEW p, NEW S, NEW m, NEW f, NEW a
    PROVE  [ExactMatch(p, S, m, f) EXCEPT !.asked = a].code = ExactMatch(p, S, m, f).code
  BY DEF ExactMatch, Found, Failed

LEMMA SearchExactIsSound ==
    ASSUME NEW p, NEW m, NEW f, NEW o \in SearchExact(p, m, f)
    PROVE  /\ o.code = "NOT_FOUND" => o.asked
           /\ o.code \in ProviderCodes \cup {"OK"}
  BY ExactMatchIsSound DEF SearchExact, Unavailable, Failed, ProviderCodes

LEMMA LookupExactIsSound ==
    ASSUME request.offline \in BOOLEAN,
           NEW p, NEW m, NEW f, NEW o \in LookupExact(p, m, f)
    PROVE  /\ o.code = "OK" => o.record \in ExactRecords(p, m, f)
           /\ o.code = "NOT_FOUND" => o.asked /\ ~request.offline
  BY SearchExactIsSound, LookupIsSound DEF LookupExact

LEMMA LookupIdIsSound ==
    ASSUME request.offline \in BOOLEAN, NEW i, NEW o \in LookupId(i)
    PROVE  /\ o.code = "OK" => o.record \in IdRecords(i)
           /\ o.code = "NOT_FOUND" => o.asked /\ ~request.offline
  <1>1. \A S : IdMatch(S, i).asked
    BY DEF IdMatch, Found, Failed
  <1>2. "lcsc" \notin Distributors
    BY DEF Distributors
  <1>3. \A a \in SearchId(i) : a.code = "NOT_FOUND" => a.asked
    BY <1>1, <1>2 DEF SearchId, Unavailable, Failed
  <1> QED  BY <1>3, LookupIsSound DEF LookupId

\* A payload that names one MPN proves that one.
LEMMA PayloadIsSound ==
    ASSUME NEW p \in Payloads, NEW i, NEW m, IdentityError(p, i, m) = None
    PROVE  /\ PayloadIdentity(p) \in PayloadIdentities
           /\ m # None => PayloadIdentity(p).mpn \in {None, m}
  <1>1. /\ \A v, w \in p.mpns : v = w
        /\ m # None /\ p.mpns # {} => m \in p.mpns
    BY ResolutionAssumption DEF IdentityError, ErrorCodes, ProviderCodes, ConflictCodes
  <1>2. p.mpns # {} => Reconcile(p.mpns) \in p.mpns
    BY DEF Reconcile
  <1>3. p.mfrs # {} => Reconcile(p.mfrs) \in p.mfrs
    BY DEF Reconcile
  <1>4. p.mpns = {} => Reconcile(p.mpns) = None
    BY DEF Reconcile
  <1>5. p.mfrs = {} => Reconcile(p.mfrs) = None
    BY DEF Reconcile
  <1> QED  BY <1>1, <1>2, <1>3, <1>4, <1>5
              DEF PayloadIdentity, PayloadIdentities, Payloads, Optional

-----------------------------------------------------------------------------
(* What one step does: the outcome of each lookup that the run sees.       *)

FindsExact(r) ==
    /\ stage = "exact" /\ id = None /\ mpn # None
    /\ r \in ExactRecords("lcsc", mpn, mfr) /\ r.id \in Ids
    /\ ExactFound(r)
LacksExact ==
    /\ stage = "exact" /\ id = None /\ mpn # None
    /\ asked' /\ ~request.offline
    /\ ExactNotFound
FailsExact(word) ==
    /\ stage = "exact" /\ word \in ProviderCodes \ {"NOT_FOUND"} /\ ExactFails(word)
FindsCad(p) ==
    /\ stage = "cad" /\ WantsCad
    /\ p \in Payloads /\ IdentityError(p, id, mpn) = None
    /\ CadFound(p)
LacksCad == stage = "cad" /\ WantsCad /\ CadNotFound
FailsCad(word) ==
    /\ stage = "cad" /\ WantsCad
    /\ word \in ProviderCodes \ {"NOT_FOUND"} /\ CadFails(word)
FindsId(r) ==
    /\ stage = "identity" /\ WantsLcsc
    /\ r \in IdRecords(id) /\ Mismatch(r, mpn, request.mfr) = None
    /\ IdFound(r)
LacksId ==
    /\ stage = "identity" /\ WantsLcsc /\ ~Mandatory
    /\ asked' /\ ~request.offline
    /\ IdNotFound
FailsId(word) ==
    /\ stage = "identity" /\ WantsLcsc /\ ~Mandatory
    /\ word \in ProviderCodes \ {"NOT_FOUND"} /\ IdFails(word)
Delivers(p, r) ==
    /\ stage = "providers" /\ p \in todo /\ mpn # None
    /\ r \in ExactRecords(p, mpn, request.mfr)
    /\ Receives(p, r)
FailsDistributor(p, word) ==
    /\ stage = "providers" /\ p \in todo
    /\ word \in ProviderCodes /\ DistributorFails(p, word)
FindsAlias(r) ==
    stage = "alias" /\ r \in IdRecords(id) /\ r.mpn = mpn /\ AliasFound(r)
LacksAlias == stage = "alias" /\ AliasUnavailable
Discovers(d) ==
    /\ stage = "discover" /\ d \in Discoveries(request.cadSource) /\ d.status # None
    /\ discovery' = d.status /\ blocking' = d.status
    /\ IF d.code = None THEN UNCHANGED errors ELSE Reports(request.cadSource, d.code)
    /\ Goto("resolved")
    /\ UNCHANGED <<request, identity, products, progress>>

RaisedCodes == ErrorCodes \cup AbortCodes \cup ConflictCodes
Raises == stage \notin {"resolved", "raised"} /\ \E word \in Optional(RaisedCodes) : Raise(word)

Move ==
    \/ SkipExact \/ LacksExact \/ SkipCad \/ LacksCad \/ SkipId \/ LacksId
    \/ PublishLcsc \/ LacksAlias \/ AdmitPending \/ AttachCandidates \/ Raises
    \/ \E r \in LcscRecords : FindsExact(r) \/ FindsId(r) \/ FindsAlias(r)
    \/ \E c \in ProviderCodes : FailsExact(c) \/ FailsCad(c) \/ FailsId(c)
    \/ \E y \in Payloads : FindsCad(y)
    \/ \E p \in Distributors :
         \/ Unresolved(p)
         \/ \E r \in PartRecords : Delivers(p, r)
         \/ \E c \in ProviderCodes : FailsDistributor(p, c)
    \/ \E d \in Discoveries(request.cadSource) : Discovers(d)

LEMMA RaisedCodesTyped ==
    /\ ProviderCodes \cup AbortCodes \subseteq Optional(RaisedCodes)
    /\ {"INVALID_RESPONSE", "LCSC_ID_MISMATCH", "MPN_MISMATCH", "MANUFACTURER_MISMATCH"}
         \subseteq Optional(RaisedCodes)
  BY DEF RaisedCodes, Optional, ErrorCodes, ProviderCodes, AbortCodes, ConflictCodes

\* What a distributor may answer about a CAD handoff, whatever it searched:
\* a failure, or a status for a record that was matched exactly.
LEMMA HandoffCases ==
    ASSUME NEW p \in Distributors, NEW d \in Handoffs(p)
    PROVE  \/ /\ d.code \in ErrorCodes
              /\ d.status \in {None, "CAD_AUTH_REQUIRED", "CAD_DOWNLOAD_UNAVAILABLE"}
           \/ /\ d.code = None
              /\ d.status \in {"CAD_MANUAL_DOWNLOAD_REQUIRED", "CAD_DOWNLOAD_UNAVAILABLE"}
              /\ records[p] # None =>
                   ExactMatch(p, {records[p]}, mpn, mfr).code = "OK"
  <1>0. records[p] # None => \A o \in MatchedAgain(p) :
          o.code = ExactMatch(p, {records[p]}, mpn, mfr).code
    <2> DEFINE again == [ExactMatch(p, {records[p]}, mpn, mfr) EXCEPT !.asked = FALSE]
    <2>1. again.code = ExactMatch(p, {records[p]}, mpn, mfr).code
      BY ExactMatchIsRecord
    <2>2. records[p] # None => MatchedAgain(p) = {again}
      BY DEF MatchedAgain
    <2> HIDE DEF again
    <2> QED  BY <2>1, <2>2
  <1>1. \A o \in MatchedAgain(p) : o.code \in ProviderCodes \cup {"OK"}
    <2>1. CASE records[p] = None
      BY <2>1, SearchExactIsSound DEF MatchedAgain
    <2>2. CASE records[p] # None
      BY <1>0, <2>2, ExactMatchIsSound DEF ProviderCodes
    <2> QED  BY <2>1, <2>2
  <1>2. \A o \in HandoffFailures(p) : o.code \in ProviderCodes
    BY <1>1 DEF HandoffFailures, MediaFailures, Failed, ProviderCodes
  <1>3. CASE d \in {FailedHandoff(o) : o \in HandoffFailures(p)}
    BY <1>2, <1>3 DEF FailedHandoff, Discovered, DiscoveryFailure, ErrorCodes, ProviderCodes
  <1>4. CASE \E o \in {m \in MatchedAgain(p) : m.code = "OK"},
                status \in {"CAD_MANUAL_DOWNLOAD_REQUIRED", "CAD_DOWNLOAD_UNAVAILABLE"} :
               d = Discovered(status, None, o.asked \/ p = "digikey")
    BY <1>0, <1>4 DEF Discovered
  <1> QED  BY <1>3, <1>4 DEF Handoffs

LEMMA DiscoveriesAreTyped ==
    ASSUME TypeOK, request.cadSource \in Distributors,
           NEW d \in Discoveries(request.cadSource)
    PROVE  /\ d.code \in Optional(ErrorCodes)
           /\ d.status \in Optional(DiscoveryStatuses)
  <1>1. CASE d \in Handoffs(request.cadSource)
    BY <1>1, HandoffCases DEF Optional, DiscoveryStatuses
  <1>2. CASE \E status \in {"CAD_IDENTITY_UNRESOLVED", "CAD_NOT_ACQUIRED",
                            DiscoveryFailure(errors[request.cadSource])} :
               d = Discovered(status, None, FALSE)
    BY <1>2 DEF Discovered, Optional, DiscoveryFailure, DiscoveryStatuses
  <1> QED  BY <1>1, <1>2 DEF Discoveries

LEMMA StepMoves ==
    TypeOK /\ (stage = "discover" => request.cadSource \in Distributors) /\ Resolve
    => Move /\ asked' \in BOOLEAN /\ (asked => asked')
  <1> SUFFICES ASSUME TypeOK, Resolve,
                      stage = "discover" => request.cadSource \in Distributors
               PROVE  Move /\ asked' \in BOOLEAN /\ (asked => asked')
    OBVIOUS
  <1>0. request.offline \in BOOLEAN /\ asked \in BOOLEAN
    BY ResolutionAssumption DEF TypeOK, AllRequests
  <1>1. CASE SkipExact \/ SkipCad \/ SkipId \/ PublishLcsc \/ AdmitPending \/ AttachCandidates
    BY <1>0, <1>1 DEF Move, SkipExact, SkipCad, SkipId, PublishLcsc, AdmitPending, AttachCandidates
  <1>2. CASE LookupExactMpn
    <2>1. PICK o \in LookupExact("lcsc", mpn, mfr) :
            /\ asked' = (asked \/ o.asked)
            /\ \/ o.code = "OK" /\ o.record.id \in Ids /\ ExactFound(o.record)
               \/ o.code = "OK" /\ Raise("INVALID_RESPONSE")
               \/ o.code = "NOT_FOUND" /\ ExactNotFound
               \/ o.code \in ProviderCodes \ {"NOT_FOUND"} /\ ExactFails(o.code)
               \/ o.code \in AbortCodes /\ Raise(o.code)
      BY <1>2 DEF LookupExactMpn
    <2>2. /\ stage = "exact" /\ id = None /\ mpn # None
          /\ o.code = "OK" => o.record \in ExactRecords("lcsc", mpn, mfr)
          /\ o.code = "NOT_FOUND" => o.asked /\ ~request.offline
      BY <1>0, <1>2, LookupExactIsSound DEF LookupExactMpn
    <2>3. o.code = "OK" => o.record \in LcscRecords
      BY <2>2 DEF ExactRecords, RecordsOf
    <2> QED  BY <1>0, <2>1, <2>2, <2>3, RaisedCodesTyped
             DEF Move, Raises, FindsExact, LacksExact, FailsExact
  <1>3. CASE FetchCad
    <2>1. PICK o \in CadAnswers :
            /\ asked' = (asked \/ o.asked)
            /\ \/ /\ o.code = "OK"
                  /\ IF IdentityError(o.record, id, mpn) = None
                     THEN CadFound(o.record)
                     ELSE Raise(IdentityError(o.record, id, mpn))
               \/ o.code = "NOT_FOUND" /\ CadNotFound
               \/ o.code \in ProviderCodes \ {"NOT_FOUND"} /\ CadFails(o.code)
      BY <1>3 DEF FetchCad
    <2>2. o.code = "OK" => o.record \in Payloads
      BY <2>1 DEF CadAnswers, Found, Failed
    <2>3. IdentityError(o.record, id, mpn) \in Optional(RaisedCodes)
      BY RaisedCodesTyped DEF IdentityError, Optional
    <2> QED  BY <1>0, <1>3, <2>1, <2>2, <2>3
             DEF FetchCad, Move, Raises, FindsCad, LacksCad, FailsCad
  <1>4. CASE LookupLcscId
    <2>1. PICK o \in LookupId(id) :
            /\ asked' = (asked \/ o.asked)
            /\ \/ /\ o.code = "OK"
                  /\ IF Mismatch(o.record, mpn, request.mfr) = None
                     THEN IdFound(o.record)
                     ELSE Raise(Mismatch(o.record, mpn, request.mfr))
               \/ o.code = "NOT_FOUND" /\ ~Mandatory /\ IdNotFound
               \/ /\ o.code \in ProviderCodes \ {"NOT_FOUND", "AMBIGUOUS", "MPN_MISMATCH"}
                  /\ ~Mandatory /\ IdFails(o.code)
               \/ o.code \in ProviderCodes \cup AbortCodes /\ Raise(o.code)
      BY <1>4 DEF LookupLcscId
    <2>2. /\ o.code = "OK" => o.record \in IdRecords(id)
          /\ o.code = "NOT_FOUND" => o.asked /\ ~request.offline
      BY <1>0, LookupIdIsSound
    <2>3. o.code = "OK" => o.record \in LcscRecords
      BY <2>2 DEF IdRecords
    <2>4. Mismatch(o.record, mpn, request.mfr) \in Optional(RaisedCodes)
      BY RaisedCodesTyped DEF Mismatch, Optional
    <2> QED  BY <1>0, <1>4, <2>1, <2>2, <2>3, <2>4, RaisedCodesTyped
             DEF LookupLcscId, Move, Raises, FindsId, LacksId, FailsId
  <1>5. ASSUME NEW p \in Distributors, Unresolved(p)
        PROVE  Move /\ asked' \in BOOLEAN /\ (asked => asked')
    BY <1>0, <1>5 DEF Move, Unresolved
  <1>6. ASSUME NEW p \in Distributors, AskDistributor(p)
        PROVE  Move /\ asked' \in BOOLEAN /\ (asked => asked')
    <2>1. PICK o \in LookupExact(p, mpn, request.mfr) :
            /\ asked' = (asked \/ o.asked)
            /\ \/ /\ o.code = "OK"
                  /\ IF Mismatch(o.record, mpn, request.mfr) = None
                     THEN Receives(p, o.record)
                     ELSE Raise(Mismatch(o.record, mpn, request.mfr))
               \/ o.code \in ProviderCodes /\ DistributorFails(p, o.code)
               \/ o.code \in ProviderCodes \cup AbortCodes /\ Raise(o.code)
      BY <1>6 DEF AskDistributor, ProviderCodes
    <2>2. o.code = "OK" => o.record \in ExactRecords(p, mpn, request.mfr)
      BY <1>0, LookupExactIsSound
    <2>3. ExactRecords(p, mpn, request.mfr) \subseteq PartRecords
      BY DEF ExactRecords, RecordsOf, Distributors
    <2>4. Mismatch(o.record, mpn, request.mfr) \in Optional(RaisedCodes)
      BY RaisedCodesTyped DEF Mismatch, Optional
    <2> QED  BY <1>0, <1>6, <2>1, <2>2, <2>3, <2>4, RaisedCodesTyped
             DEF AskDistributor, Move, Raises, Delivers, FailsDistributor
  <1>7. CASE LookupAlias
    <2>1. PICK o \in LookupId(id) :
            /\ asked' = (asked \/ o.asked)
            /\ \/ o.code = "OK" /\ o.record.mpn = mpn /\ AliasFound(o.record)
               \/ Raise("MPN_MISMATCH")
               \/ AliasUnavailable
      BY <1>7 DEF LookupAlias
    <2>2. o.code = "OK" => o.record \in IdRecords(id) /\ o.record \in LcscRecords
      BY <1>0, LookupIdIsSound DEF IdRecords
    <2> QED  BY <1>0, <1>7, <2>1, <2>2, RaisedCodesTyped
             DEF LookupAlias, Move, Raises, FindsAlias, LacksAlias
  <1>8. CASE DiscoverCad
    <2>1. PICK d \in Discoveries(request.cadSource) :
            /\ asked' = (asked \/ d.asked)
            /\ IF d.status = None THEN Raise(d.code) ELSE Discovers(d)
      BY <1>8 DEF DiscoverCad, Discovers
    <2>2. d.code \in Optional(RaisedCodes)
      BY <1>0, <1>8, DiscoveriesAreTyped DEF DiscoverCad, Optional, RaisedCodes
    <2> QED  BY <1>0, <1>8, <2>1, <2>2 DEF DiscoverCad, Move, Raises
  <1> QED  BY <1>1, <1>2, <1>3, <1>4, <1>5, <1>6, <1>7, <1>8 DEF Resolve

-----------------------------------------------------------------------------
(* The inductive invariant.                                                *)

\* What is still untouched at each stage.
Untouched ==
    /\ stage = "exact" => /\ mpn = request.mpn /\ mfr = request.mfr
                          /\ cad = None /\ jlcpcb = None /\ blocking = None
                          /\ lcsc = None /\ errors["lcsc"] = None
    /\ stage \in {"exact", "cad"} => cadIdentity = None
    /\ stage \in LookupStages =>
         /\ ~attempted /\ \A p \in Providers : records[p] = None
         /\ errors["lcsc"] # None => blocking # None
    /\ \A p \in todo : records[p] = None /\ errors[p] = None
    /\ stage = "discover" => request.cadSource \in Distributors
    /\ stage \in {"discover", "resolved"} => todo = {}
    /\ discovery # None => stage = "resolved"

\* What the user named is what the run trusts.
RequestIsKept ==
    /\ request.mpn # None => mpn = request.mpn
    /\ request.mfr # None => mfr = request.mfr
    /\ request.id # None => id = request.id
    /\ lcsc = None => id = request.id

\* The catalogue record is of the LCSC number, of the trusted MPN and of the
\* requested manufacturer.
CatalogueIsTrusted ==
    /\ lcsc = None => evidence["lcsc"] = None
    /\ lcsc # None => /\ lcsc.id = id /\ lcsc.mpn = mpn
                      /\ evidence["lcsc"] = lcsc.mfr
                      /\ request.mfr # None => lcsc.mfr = request.mfr

\* CAD data is of an LCSC number, and never contradicts the requested MPN.
PayloadIsTrusted ==
    /\ cadIdentity = None => evidence["easyeda"] = None
    /\ cadIdentity # None =>
         /\ id # None
         /\ cadIdentity.mfr = evidence["easyeda"]
         /\ request.mpn # None => cadIdentity.mpn \in {None, request.mpn}
         /\ stage = "identity" => blocking = None

\* A distributor's record that waits for the catalogue.
PendingIsExact ==
    stage \in {"alias", "admit"} =>
        /\ pending \in todo \X PartRecords /\ pending[2].mpn = mpn
        /\ request.mfr = None /\ attempted /\ id # None
        /\ stage = "alias" =>
             /\ lcsc = None
             /\ jlcpcb # None => jlcpcb.status # "MANUAL_GLOBAL_SOURCING_REQUIRED"

\* Published records; a distributor has no error beside its record.
RecordsAreTrusted ==
    /\ records["lcsc"] # None => records["lcsc"] = lcsc
    /\ \A p \in Distributors :
         records[p] # None /\ stage # "resolved" => errors[p] = None

\* After the catalogue said that there is no such part, nothing asks it again.
AbsenceIsFinal ==
    jlcpcb # None /\ jlcpcb.status = "MANUAL_GLOBAL_SOURCING_REQUIRED" =>
        id = None \/ attempted

Facts == /\ Untouched /\ RequestIsKept /\ CatalogueIsTrusted /\ PayloadIsTrusted
         /\ PendingIsExact /\ RecordsAreTrusted /\ AbsenceIsFinal

Properties == /\ CadIsProved /\ RecordsAreEvidenced /\ EvidenceIsOfOnePart
              /\ AbsenceIsProved /\ HandoffIsExact

IInv == TypeOK /\ Facts /\ Properties

-----------------------------------------------------------------------------
(* The initial states.                                                     *)

LEMMA Sources ==
    /\ Distributors \subseteq Providers /\ "lcsc" \in Providers
    /\ "lcsc" \notin Distributors /\ Providers = {"lcsc"} \cup Distributors
    /\ "easyeda" \notin Providers
  BY DEF Distributors, Providers

LEMMA InitInv == Init => IInv
  <1> SUFFICES ASSUME NEW r \in Requests, InitWith(r) PROVE IInv
    BY DEF Init
  <1> USE DEF InitWith
  <1>0. r \in AllRequests
    BY ResolutionAssumption
  <1>1. TypeOK
    BY <1>0 DEF TypeOK, AllRequests, Optional, Stages, LookupStages, Providers, Distributors
  <1>2. Untouched
    <2>1. todo \subseteq Distributors
      BY <1>1 DEF TypeOK
    <2> QED  BY <2>1, Sources DEF Untouched, LookupStages
  <1>3. Facts
    BY <1>2, Sources DEF Facts, RequestIsKept, CatalogueIsTrusted, PayloadIsTrusted,
                         PendingIsExact, RecordsAreTrusted, AbsenceIsFinal
  <1>4. discovery # "CAD_MANUAL_DOWNLOAD_REQUIRED"
    BY ResolutionAssumption DEF DiscoveryStatuses
  <1>5. Properties
    BY <1>4 DEF Properties, CadIsProved, RecordsAreEvidenced, EvidenceIsOfOnePart,
                AbsenceIsProved, HandoffIsExact
  <1> QED  BY <1>1, <1>3, <1>5 DEF IInv

-----------------------------------------------------------------------------
(* Types.                                                                  *)

\* Names and records are no None.
LEMMA NoneIsNothing ==
    /\ \A r \in LcscRecords : r # None /\ r.mpn \in Mpns /\ r.mfr \in Mfrs
                             /\ r.id \in Ids \cup {BadId}
    /\ \A r \in PartRecords : r # None /\ r.mpn \in Mpns /\ r.mfr \in Mfrs
    /\ \A i \in PayloadIdentities : i # None
    /\ None \notin Mpns /\ None \notin Mfrs /\ None \notin Ids
  BY ResolutionAssumption DEF LcscRecords, PartRecords

LEMMA KeepTyped ==
    ASSUME NEW S, NEW a \in Optional(S), NEW b \in Optional(S)
    PROVE  Keep(a, b) \in Optional(S)
  BY DEF Keep

LEMMA ReportsTyped ==
    ASSUME TypeOK, NEW p \in Providers \cup {"easyeda"}, NEW c \in ErrorCodes, Reports(p, c)
    PROVE  errors' \in [Providers \cup {"easyeda"} -> Optional(ErrorCodes)]
  BY DEF TypeOK, Reports, Optional

LEMMA AdmitTyped ==
    ASSUME TypeOK, NEW p \in Distributors, NEW r \in PartRecords, Admit(p, r)
    PROVE  /\ errors' \in [Providers \cup {"easyeda"} -> Optional(ErrorCodes)]
           /\ records' \in [Providers -> Optional(LcscRecords \cup PartRecords)]
  BY Sources, ReportsTyped DEF TypeOK, Admit, Reports, Optional, ErrorCodes

LEMMA StepTyped == IInv /\ Move /\ asked' \in BOOLEAN => TypeOK'
  <1> SUFFICES ASSUME TypeOK, Facts, Move, asked' \in BOOLEAN PROVE TypeOK'
    BY DEF IInv
  <1> USE NoneIsNothing DEF TypeOK, identity, products, progress, Goto, Optional, Stages,
            LookupStages
  <1>1. ASSUME SkipExact \/ SkipCad \/ SkipId \/ LacksAlias PROVE TypeOK'
    BY <1>1 DEF SkipExact, SkipCad, SkipId, LacksAlias, AliasUnavailable
  <1>2. ASSUME NEW r \in LcscRecords, FindsExact(r) PROVE TypeOK'
    BY <1>2 DEF FindsExact, ExactFound, FoundJlcpcb, Jlcpcbs, JlcpcbStatuses, Evidences, Keep
  <1>3. ASSUME LacksExact PROVE TypeOK'
    BY <1>3 DEF LacksExact, ExactNotFound, Jlcpcb, Jlcpcbs, JlcpcbStatuses
  <1>4. ASSUME NEW c \in ProviderCodes, FailsExact(c) PROVE TypeOK'
    <2>1. c \in ErrorCodes
      BY DEF ErrorCodes
    <2>2. errors' \in [Providers \cup {"easyeda"} -> Optional(ErrorCodes)]
      BY <1>4, <2>1, Sources, ReportsTyped DEF FailsExact, ExactFails
    <2> QED  BY <1>4, <2>1, <2>2 DEF FailsExact, ExactFails, Jlcpcb, Jlcpcbs, JlcpcbStatuses
  <1>5. ASSUME NEW y \in Payloads, FindsCad(y) PROVE TypeOK'
    <2>1. PayloadIdentity(y) \in PayloadIdentities
      BY <1>5, PayloadIsSound DEF FindsCad
    <2> QED  BY <1>5, <2>1 DEF FindsCad, CadFound, PayloadIdentities, Evidences, Keep
  <1>6. ASSUME LacksCad PROVE TypeOK'
    BY <1>6 DEF LacksCad, CadNotFound
  <1>7. ASSUME NEW c \in ProviderCodes, FailsCad(c) PROVE TypeOK'
    BY <1>7 DEF FailsCad, CadFails, Reports, ErrorCodes
  <1>8. ASSUME NEW r \in LcscRecords, FindsId(r) PROVE TypeOK'
    BY <1>8 DEF FindsId, IdFound, FoundJlcpcb, Jlcpcbs, JlcpcbStatuses, Evidences, Keep
  <1>9. ASSUME LacksId PROVE TypeOK'
    BY <1>9 DEF LacksId, IdNotFound, Reports, Jlcpcb, Jlcpcbs, JlcpcbStatuses, ErrorCodes,
                ProviderCodes
  <1>10. ASSUME NEW c \in ProviderCodes, FailsId(c) PROVE TypeOK'
    <2>1. c \in ErrorCodes
      BY DEF ErrorCodes
    <2>2. errors' \in [Providers \cup {"easyeda"} -> Optional(ErrorCodes)]
      BY <1>10, <2>1, Sources, ReportsTyped DEF FailsId, IdFails
    <2> QED  BY <1>10, <2>1, <2>2 DEF FailsId, IdFails, Jlcpcb, Jlcpcbs, JlcpcbStatuses
  <1>11. ASSUME PublishLcsc PROVE TypeOK'
    BY <1>11, Sources DEF PublishLcsc
  <1>12. ASSUME NEW p \in Distributors, Unresolved(p) PROVE TypeOK'
    <2>1. errors' \in [Providers \cup {"easyeda"} -> Optional(ErrorCodes)]
      BY <1>12, Sources, ReportsTyped DEF Unresolved, ErrorCodes
    <2> QED  BY <1>12, <2>1 DEF Unresolved
  <1>13. ASSUME NEW p \in Distributors, NEW r \in PartRecords, Delivers(p, r) PROVE TypeOK'
    <2>1. CASE NeedsAlias(r)
      BY <1>13, <2>1 DEF Delivers, Receives
    <2>2. CASE ~NeedsAlias(r)
      BY <1>13, <2>2, AdmitTyped DEF Delivers, Receives
    <2> QED  BY <2>1, <2>2
  <1>14. ASSUME NEW p \in Distributors, NEW c \in ProviderCodes, FailsDistributor(p, c)
         PROVE TypeOK'
    <2>1. errors' \in [Providers \cup {"easyeda"} -> Optional(ErrorCodes)]
      BY <1>14, Sources, ReportsTyped DEF FailsDistributor, DistributorFails, ErrorCodes
    <2> QED  BY <1>14, <2>1 DEF FailsDistributor, DistributorFails
  <1>15. ASSUME NEW r \in LcscRecords, FindsAlias(r) PROVE TypeOK'
    <2>1. evidence' \in [{"lcsc", "easyeda"} -> Optional(Mfrs)] /\ mfr' \in Optional(Mfrs)
      BY <1>15 DEF FindsAlias, AliasFound, Evidences, Keep
    <2> QED  BY <1>15, <2>1, Sources DEF FindsAlias, AliasFound
  <1>16. ASSUME AdmitPending PROVE TypeOK'
    <2>1. pending[1] \in Distributors /\ pending[2] \in PartRecords
      BY <1>16 DEF AdmitPending, Facts, PendingIsExact
    <2> QED  BY <1>16, <2>1, AdmitTyped DEF AdmitPending
  <1>17. ASSUME AttachCandidates PROVE TypeOK'
    BY <1>17 DEF AttachCandidates, Jlcpcbs
  <1>18. ASSUME NEW d \in Discoveries(request.cadSource), Discovers(d) PROVE TypeOK'
    <2>1. request.cadSource \in Distributors
      BY <1>18 DEF Discovers, Facts, Untouched
    <2>2. d.code \in Optional(ErrorCodes) /\ d.status \in Optional(DiscoveryStatuses)
      BY <2>1, DiscoveriesAreTyped
    <2> QED  BY <1>18, <2>1, <2>2 DEF Discovers, Reports
  <1>19. ASSUME Raises PROVE TypeOK'
    BY <1>19 DEF Raises, Raise, RaisedCodes
  <1> QED  BY <1>1, <1>2, <1>3, <1>4, <1>5, <1>6, <1>7, <1>8, <1>9, <1>10, <1>11, <1>12,
              <1>13, <1>14, <1>15, <1>16, <1>17, <1>18, <1>19 DEF Move

-----------------------------------------------------------------------------
(* What each part of the invariant needs of a step.                        *)

\* The stages, one after the other.
LEMMA StepUntouched == IInv /\ Move => Untouched'
  <1> SUFFICES ASSUME TypeOK, Facts, Move PROVE Untouched'
    BY DEF IInv
  <1> USE Sources, NoneIsNothing
      DEF Facts, Untouched, TypeOK, identity, products, progress, Goto, LookupStages
  <1>1. ASSUME SkipExact \/ SkipCad \/ SkipId \/ LacksAlias \/ LacksExact \/ LacksCad \/ LacksId
        PROVE  Untouched'
    BY <1>1 DEF SkipExact, SkipCad, SkipId, LacksAlias, AliasUnavailable, LacksExact,
                ExactNotFound, LacksCad, CadNotFound, LacksId, IdNotFound, Reports
  <1>2. ASSUME NEW r \in LcscRecords, FindsExact(r) \/ FindsId(r) PROVE Untouched'
    BY <1>2 DEF FindsExact, ExactFound, FindsId, IdFound
  <1>3. ASSUME NEW c \in ProviderCodes, FailsExact(c) PROVE Untouched'
    <2>1. blocking' # None
      BY <1>3, ResolutionAssumption DEF FailsExact, ExactFails, ErrorCodes, JlcpcbStatuses
    <2>2. errors' = [errors EXCEPT !["lcsc"] = c]
      BY <1>3 DEF FailsExact, ExactFails, Reports
    <2> QED  BY <1>3, <2>1, <2>2 DEF FailsExact, ExactFails
  <1>4. ASSUME NEW y \in Payloads, FindsCad(y) PROVE Untouched'
    BY <1>4 DEF FindsCad, CadFound
  <1>5. ASSUME NEW c \in ProviderCodes, FailsCad(c) \/ FailsId(c) PROVE Untouched'
    <2>1. CASE FailsCad(c)
      <3>1. errors' = [errors EXCEPT !["easyeda"] = c] /\ errors["lcsc"] = None
        BY <2>1 DEF FailsCad, CadFails, Reports, WantsCad
      <3> QED  BY <2>1, <3>1 DEF FailsCad, CadFails
    <2>2. CASE FailsId(c)
      <3>1. errors' = [errors EXCEPT !["lcsc"] = c]
        BY <2>2 DEF FailsId, IdFails, Reports
      <3> QED  BY <2>2, <3>1 DEF FailsId, IdFails
    <2> QED  BY <1>5, <2>1, <2>2
  <1>6. ASSUME PublishLcsc PROVE Untouched'
    BY <1>6 DEF PublishLcsc
  <1>7. ASSUME NEW p \in Distributors, Unresolved(p) PROVE Untouched'
    BY <1>7 DEF Unresolved, Reports
  <1>8. ASSUME NEW p \in Distributors, NEW r \in PartRecords, Delivers(p, r) PROVE Untouched'
    BY <1>8 DEF Delivers, Receives, Admit, Reports
  <1>9. ASSUME NEW p \in Distributors, NEW c \in ProviderCodes, FailsDistributor(p, c)
        PROVE  Untouched'
    BY <1>9 DEF FailsDistributor, DistributorFails, Reports
  <1>10. ASSUME NEW r \in LcscRecords, FindsAlias(r) PROVE Untouched'
    BY <1>10 DEF FindsAlias, AliasFound
  <1>11. ASSUME AdmitPending PROVE Untouched'
    BY <1>11 DEF AdmitPending, PendingIsExact, Admit, Reports
  <1>12. ASSUME AttachCandidates PROVE Untouched'
    <2>1. stage' = IF request.cadSource \in Distributors THEN "discover" ELSE "resolved"
      BY <1>12 DEF AttachCandidates
    <2>2. discovery = None /\ todo = {}
      BY <1>12 DEF AttachCandidates
    <2> QED  BY <1>12, <2>1, <2>2 DEF AttachCandidates
  <1>13. ASSUME NEW d \in Discoveries(request.cadSource), Discovers(d) PROVE Untouched'
    BY <1>13 DEF Discovers, Reports
  <1>14. ASSUME Raises PROVE Untouched'
    BY <1>14 DEF Raises, Raise
  <1> QED  BY <1>1, <1>2, <1>3, <1>4, <1>5, <1>6, <1>7, <1>8, <1>9, <1>10, <1>11, <1>12,
              <1>13, <1>14 DEF Move

\* Names are trusted once and records published once.
LEMMA StepKeeps ==
    IInv /\ Move =>
        /\ request' = request
        /\ mpn # None => mpn' = mpn
        /\ mfr # None => mfr' = mfr
        /\ id # None => id' = id
        /\ \A p \in Providers : records[p] # None => records'[p] = records[p]
        /\ \A source \in {"lcsc", "easyeda"} :
             evidence[source] # None => evidence'[source] = evidence[source]
  <1> SUFFICES ASSUME TypeOK, Facts, Move
               PROVE  /\ request' = request
                      /\ mpn # None => mpn' = mpn
                      /\ mfr # None => mfr' = mfr
                      /\ id # None => id' = id
                      /\ \A p \in Providers : records[p] # None => records'[p] = records[p]
                      /\ \A source \in {"lcsc", "easyeda"} :
                           evidence[source] # None => evidence'[source] = evidence[source]
    BY DEF IInv
  <1> USE Sources DEF TypeOK, identity, products, progress, Goto
  <1>1. CASE SkipExact \/ SkipCad \/ SkipId \/ LacksAlias \/ LacksExact \/ LacksCad \/ LacksId
             \/ AttachCandidates \/ Raises
    BY <1>1 DEF SkipExact, SkipCad, SkipId, LacksAlias, AliasUnavailable, LacksExact,
                ExactNotFound, LacksCad, CadNotFound, LacksId, IdNotFound, AttachCandidates,
                Raises, Raise
  <1>2. CASE \E r \in LcscRecords : FindsExact(r)
    BY <1>2 DEF FindsExact, ExactFound, Evidences, Keep
  <1>3. CASE \E r \in LcscRecords : FindsId(r)
    BY <1>3 DEF FindsId, IdFound, Evidences, Keep
  <1>4. CASE \E c \in ProviderCodes : FailsExact(c) \/ FailsCad(c) \/ FailsId(c)
    BY <1>4 DEF FailsExact, ExactFails, FailsCad, CadFails, FailsId, IdFails
  <1>5. CASE \E y \in Payloads : FindsCad(y)
    BY <1>5 DEF FindsCad, CadFound, Evidences, Keep
  <1>6. CASE PublishLcsc
    BY <1>6 DEF PublishLcsc, Facts, RecordsAreTrusted
  <1>7. CASE \E p \in Distributors : Unresolved(p)
    BY <1>7 DEF Unresolved
  <1>8. CASE \E p \in Distributors, r \in PartRecords : Delivers(p, r)
    BY <1>8 DEF Delivers, Receives, Admit, Facts, Untouched
  <1>9. CASE \E p \in Distributors, c \in ProviderCodes : FailsDistributor(p, c)
    BY <1>9 DEF FailsDistributor, DistributorFails
  <1>10. CASE \E r \in LcscRecords : FindsAlias(r)
    BY <1>10 DEF FindsAlias, AliasFound, Evidences, Keep, Facts, RecordsAreTrusted, PendingIsExact
  <1>11. CASE AdmitPending
    BY <1>11 DEF AdmitPending, Admit, Facts, PendingIsExact, Untouched
  <1>12. CASE \E d \in Discoveries(request.cadSource) : Discovers(d)
    BY <1>12 DEF Discovers
  <1> QED  BY <1>1, <1>2, <1>3, <1>4, <1>5, <1>6, <1>7, <1>8, <1>9, <1>10, <1>11, <1>12
           DEF Move

\* Only a found record, an absent part or CAD data changes what is trusted.
LEMMA StepTrust ==
    IInv /\ Move =>
        \/ UNCHANGED <<mpn, mfr, id, evidence, lcsc, cadIdentity>>
        \/ \E r \in LcscRecords : FindsExact(r) \/ FindsId(r) \/ FindsAlias(r)
        \/ \E y \in Payloads : FindsCad(y)
  <1> SUFFICES ASSUME Move,
                      ~ \E r \in LcscRecords : FindsExact(r) \/ FindsId(r) \/ FindsAlias(r),
                      ~ \E y \in Payloads : FindsCad(y)
               PROVE  UNCHANGED <<mpn, mfr, id, evidence, lcsc, cadIdentity>>
    OBVIOUS
  <1> USE DEF identity, products
  <1>1. CASE SkipExact \/ SkipCad \/ SkipId \/ LacksAlias \/ LacksExact \/ LacksCad \/ LacksId
    BY <1>1 DEF SkipExact, SkipCad, SkipId, LacksAlias, AliasUnavailable, LacksExact,
                ExactNotFound, LacksCad, CadNotFound, LacksId, IdNotFound
  <1>2. CASE PublishLcsc \/ AdmitPending \/ AttachCandidates \/ Raises
    BY <1>2 DEF PublishLcsc, AdmitPending, AttachCandidates, Raises, Raise
  <1>3. CASE \E c \in ProviderCodes : FailsExact(c) \/ FailsCad(c) \/ FailsId(c)
    BY <1>3 DEF FailsExact, ExactFails, FailsCad, CadFails, FailsId, IdFails
  <1>4. CASE \E p \in Distributors :
               \/ Unresolved(p)
               \/ \E r \in PartRecords : Delivers(p, r)
               \/ \E c \in ProviderCodes : FailsDistributor(p, c)
    BY <1>4 DEF Unresolved, Delivers, Receives, FailsDistributor, DistributorFails
  <1>5. CASE \E d \in Discoveries(request.cadSource) : Discovers(d)
    BY <1>5 DEF Discovers
  <1> QED  BY <1>1, <1>2, <1>3, <1>4, <1>5 DEF Move

\* The stages follow each other: only a record that needs an alias leads to
\* the catalogue again.
LEMMA StepStages ==
    Move =>
        /\ stage' = "identity" => stage = "cad"
        /\ stage' \in LookupStages => stage \in LookupStages
        /\ stage' = "admit" => LacksAlias \/ \E r \in LcscRecords : FindsAlias(r)
        /\ stage' = "resolved" =>
            AttachCandidates \/ \E d \in Discoveries(request.cadSource) : Discovers(d)
        /\ stage' = "alias" => \E p \in Distributors, r \in PartRecords :
                                 Delivers(p, r) /\ NeedsAlias(r)
        /\ stage \in LookupStages /\ stage' \notin LookupStages \cup {"raised"} =>
            \/ SkipId \/ LacksId
            \/ \E r \in LcscRecords : FindsId(r)
            \/ \E c \in ProviderCodes : FailsId(c)
  <1> SUFFICES ASSUME Move
               PROVE  /\ stage' = "identity" => stage = "cad"
                      /\ stage' \in LookupStages => stage \in LookupStages
                      /\ stage' = "admit" =>
                           LacksAlias \/ \E r \in LcscRecords : FindsAlias(r)
                      /\ stage' = "resolved" =>
                          AttachCandidates \/ \E d \in Discoveries(request.cadSource) : Discovers(d)
                      /\ stage' = "alias" => \E p \in Distributors, r \in PartRecords :
                                               Delivers(p, r) /\ NeedsAlias(r)
                      /\ stage \in LookupStages /\ stage' \notin LookupStages \cup {"raised"} =>
                          \/ SkipId \/ LacksId
                          \/ \E r \in LcscRecords : FindsId(r)
                          \/ \E c \in ProviderCodes : FailsId(c)
    OBVIOUS
  <1> USE DEF Goto, LookupStages
  <1>1. CASE SkipExact \/ SkipCad \/ SkipId \/ LacksAlias \/ LacksExact \/ LacksCad \/ LacksId
    BY <1>1 DEF SkipExact, SkipCad, SkipId, LacksAlias, AliasUnavailable, LacksExact,
                ExactNotFound, LacksCad, CadNotFound, LacksId, IdNotFound
  <1>2. CASE PublishLcsc \/ AdmitPending \/ AttachCandidates \/ Raises
    BY <1>2 DEF PublishLcsc, AdmitPending, AttachCandidates, Raises, Raise
  <1>3. CASE \E c \in ProviderCodes : FailsExact(c) \/ FailsCad(c) \/ FailsId(c)
    BY <1>3 DEF FailsExact, ExactFails, FailsCad, CadFails, FailsId, IdFails
  <1>4. CASE \E p \in Distributors, r \in PartRecords : Delivers(p, r)
    BY <1>4 DEF Delivers, Receives
  <1>5. CASE \E p \in Distributors :
               \/ Unresolved(p)
               \/ \E c \in ProviderCodes : FailsDistributor(p, c)
    BY <1>5 DEF Unresolved, FailsDistributor, DistributorFails
  <1>6. CASE \E d \in Discoveries(request.cadSource) : Discovers(d)
    BY <1>6 DEF Discovers
  <1>7. CASE \E r \in LcscRecords : FindsExact(r) \/ FindsId(r) \/ FindsAlias(r)
    BY <1>7 DEF FindsExact, ExactFound, FindsId, IdFound, FindsAlias, AliasFound
  <1>8. CASE \E y \in Payloads : FindsCad(y)
    BY <1>8 DEF FindsCad, CadFound
  <1> QED  BY <1>1, <1>2, <1>3, <1>4, <1>5, <1>6, <1>7, <1>8 DEF Move

\* A run that was ended does not go on.
LEMMA RaisedIsFinal == Move => stage # "raised"
  <1> SUFFICES ASSUME Move PROVE stage # "raised"
    OBVIOUS
  <1>1. CASE SkipExact \/ SkipCad \/ SkipId \/ LacksAlias \/ LacksExact \/ LacksCad \/ LacksId
             \/ PublishLcsc \/ AdmitPending \/ AttachCandidates \/ Raises
    BY <1>1 DEF SkipExact, SkipCad, SkipId, LacksAlias, LacksExact, LacksCad, LacksId,
                PublishLcsc, AdmitPending, AttachCandidates, Raises
  <1>2. CASE \E r \in LcscRecords : FindsExact(r) \/ FindsId(r) \/ FindsAlias(r)
    BY <1>2 DEF FindsExact, FindsId, FindsAlias
  <1>3. CASE \E c \in ProviderCodes : FailsExact(c) \/ FailsCad(c) \/ FailsId(c)
    BY <1>3 DEF FailsExact, FailsCad, FailsId
  <1>4. CASE \E y \in Payloads : FindsCad(y)
    BY <1>4 DEF FindsCad
  <1>5. CASE \E p \in Distributors :
               \/ Unresolved(p)
               \/ \E r \in PartRecords : Delivers(p, r)
               \/ \E c \in ProviderCodes : FailsDistributor(p, c)
    BY <1>5 DEF Unresolved, Delivers, FailsDistributor
  <1>6. CASE \E d \in Discoveries(request.cadSource) : Discovers(d)
    BY <1>6 DEF Discovers
  <1> QED  BY <1>1, <1>2, <1>3, <1>4, <1>5, <1>6 DEF Move

\* The user's identity.
LEMMA StepRequestIsKept == IInv /\ Move => RequestIsKept'
  <1> SUFFICES ASSUME IInv, Move PROVE RequestIsKept'
    OBVIOUS
  <1> USE NoneIsNothing, StepKeeps DEF IInv, Facts, RequestIsKept
  <1>1. CASE UNCHANGED <<mpn, mfr, id, evidence, lcsc, cadIdentity>>
    BY <1>1
  <1>2. ASSUME NEW r \in LcscRecords, FindsExact(r) \/ FindsId(r) \/ FindsAlias(r)
        PROVE  RequestIsKept'
    BY <1>2 DEF FindsExact, ExactFound, FindsId, IdFound, FindsAlias, AliasFound
  <1>3. ASSUME NEW y \in Payloads, FindsCad(y) PROVE RequestIsKept'
    BY <1>3 DEF FindsCad, CadFound
  <1> QED  BY <1>1, <1>2, <1>3, StepTrust

\* The catalogue record: it is trusted only when it agrees with what is.
LEMMA StepCatalogueIsTrusted == IInv /\ Move => CatalogueIsTrusted'
  <1> SUFFICES ASSUME IInv, Move PROVE CatalogueIsTrusted'
    OBVIOUS
  <1> USE NoneIsNothing, StepKeeps DEF IInv, Facts, CatalogueIsTrusted
  <1>0. evidence \in [{"lcsc", "easyeda"} -> Optional(Mfrs)]
    BY DEF TypeOK
  <1>1. CASE UNCHANGED <<mpn, mfr, id, evidence, lcsc, cadIdentity>>
    BY <1>1
  <1>2. ASSUME NEW r \in LcscRecords, FindsExact(r) PROVE CatalogueIsTrusted'
    <2>1. lcsc = None /\ r.mpn = mpn /\ (mfr # None => r.mfr = mfr)
      BY <1>2 DEF FindsExact, ExactRecords, Untouched
    <2> QED  BY <1>0, <1>2, <2>1 DEF FindsExact, ExactFound, Evidences, Keep, Untouched
  <1>3. ASSUME NEW r \in LcscRecords, FindsId(r) PROVE CatalogueIsTrusted'
    <2>1. /\ lcsc = None /\ r.id = id
          /\ mpn # None => r.mpn = mpn
          /\ request.mfr # None => r.mfr = request.mfr
      BY <1>3, ResolutionAssumption
         DEF FindsId, IdRecords, WantsLcsc, Mismatch, ErrorCodes, ProviderCodes, ConflictCodes
    <2> QED  BY <1>0, <1>3, <2>1 DEF FindsId, IdFound, Evidences, Keep
  <1>4. ASSUME NEW r \in LcscRecords, FindsAlias(r) PROVE CatalogueIsTrusted'
    <2>1. lcsc = None /\ r.id = id /\ r.mpn = mpn /\ request.mfr = None
      BY <1>4 DEF FindsAlias, IdRecords, PendingIsExact
    <2> QED  BY <1>0, <1>4, <2>1 DEF FindsAlias, AliasFound, Evidences, Keep
  <1>5. ASSUME NEW y \in Payloads, FindsCad(y) PROVE CatalogueIsTrusted'
    <2>1. lcsc # None => lcsc \in LcscRecords /\ mpn # None
      BY DEF TypeOK, Optional
    <2> QED  BY <1>0, <1>5, <2>1 DEF FindsCad, CadFound, Evidences, Keep
  <1> QED  BY <1>1, <1>2, <1>3, <1>4, <1>5, StepTrust

\* The CAD payload: it is accepted only for the LCSC number it names.
LEMMA StepPayloadIsTrusted == IInv /\ Move => PayloadIsTrusted'
  <1> SUFFICES ASSUME IInv, Move PROVE PayloadIsTrusted'
    OBVIOUS
  <1> USE NoneIsNothing, StepKeeps DEF IInv, Facts, PayloadIsTrusted
  <1>0. evidence \in [{"lcsc", "easyeda"} -> Optional(Mfrs)]
    BY DEF TypeOK
  <1>1. ASSUME NEW y \in Payloads, FindsCad(y) PROVE PayloadIsTrusted'
    <2>1. /\ cadIdentity' = PayloadIdentity(y) /\ PayloadIdentity(y) # None
          /\ evidence["easyeda"] = None /\ id # None /\ blocking' = None
      BY <1>1, PayloadIsSound DEF FindsCad, CadFound, WantsCad, Untouched
    <2>2. request.mpn # None => PayloadIdentity(y).mpn \in {None, request.mpn}
      BY <1>1, PayloadIsSound DEF FindsCad, RequestIsKept
    <2>3. evidence'["easyeda"] = PayloadIdentity(y).mfr
      BY <1>0, <1>1, <2>1 DEF FindsCad, CadFound, Evidences, Keep
    <2> QED  BY <2>1, <2>2, <2>3
  <1>2. ASSUME NEW r \in LcscRecords, FindsExact(r) \/ FindsId(r) \/ FindsAlias(r)
        PROVE  PayloadIsTrusted'
    <2>1. UNCHANGED cadIdentity /\ stage' # "identity"
      BY <1>2 DEF FindsExact, ExactFound, FindsId, IdFound, FindsAlias, AliasFound, Goto
    <2>2. evidence'["easyeda"] = evidence["easyeda"]
      BY <1>0, <1>2 DEF FindsExact, ExactFound, FindsId, IdFound, FindsAlias, AliasFound, Evidences
    <2> QED  BY <2>1, <2>2
  <1>3. CASE UNCHANGED <<mpn, mfr, id, evidence, lcsc, cadIdentity>>
    <2>1. stage' = "identity" => cadIdentity = None
      BY StepStages DEF Untouched
    <2> QED  BY <1>3, <2>1
  <1> QED  BY <1>1, <1>2, <1>3, StepTrust

\* A record that waits for the catalogue.
LEMMA StepPendingIsExact == IInv /\ Move => PendingIsExact'
  <1> SUFFICES ASSUME IInv, Move PROVE PendingIsExact'
    OBVIOUS
  <1> USE StepKeeps DEF IInv, Facts, PendingIsExact
  <1>1. ASSUME NEW p \in Distributors, NEW r \in PartRecords, Delivers(p, r), NeedsAlias(r)
        PROVE  PendingIsExact'
    <2>1. r.mpn = mpn /\ mpn # None /\ p \in todo
      BY <1>1 DEF Delivers, ExactRecords
    <2>2. /\ request.mfr = None /\ id # None /\ lcsc = None
          /\ jlcpcb # None => jlcpcb.status # "MANUAL_GLOBAL_SOURCING_REQUIRED"
      BY <1>1 DEF NeedsAlias, AbsenceIsFinal
    <2> QED  BY <1>1, <2>1, <2>2 DEF Delivers, Receives, identity, products, Goto
  <1>2. ASSUME stage' = "admit", LacksAlias \/ \E r \in LcscRecords : FindsAlias(r)
        PROVE  PendingIsExact'
    BY <1>2 DEF LacksAlias, AliasUnavailable, FindsAlias, AliasFound, identity, progress
  <1> QED  BY <1>1, <1>2, StepStages

\* Published records and their errors.
LEMMA StepRecordsAreTrusted == IInv /\ Move => RecordsAreTrusted'
  <1> SUFFICES ASSUME TypeOK, Facts, Move PROVE RecordsAreTrusted'
    BY DEF IInv
  <1> USE Sources, NoneIsNothing
      DEF Facts, RecordsAreTrusted, TypeOK, identity, products, progress, Goto
  <1>1. CASE SkipExact \/ SkipCad \/ SkipId \/ LacksAlias \/ LacksExact \/ LacksCad \/ LacksId
    BY <1>1 DEF SkipExact, SkipCad, SkipId, LacksAlias, AliasUnavailable, LacksExact,
                ExactNotFound, LacksCad, CadNotFound, LacksId, IdNotFound, Reports
  <1>2. CASE \E r \in LcscRecords : FindsExact(r) \/ FindsId(r)
    BY <1>2 DEF FindsExact, ExactFound, FindsId, IdFound, Untouched, LookupStages
  <1>3. CASE \E c \in ProviderCodes : FailsExact(c) \/ FailsCad(c) \/ FailsId(c)
    BY <1>3 DEF FailsExact, ExactFails, FailsCad, CadFails, FailsId, IdFails, Untouched,
                LookupStages
  <1>4. CASE \E y \in Payloads : FindsCad(y)
    BY <1>4 DEF FindsCad, CadFound
  <1>5. CASE PublishLcsc
    BY <1>5 DEF PublishLcsc
  <1>6. ASSUME NEW p \in Distributors, Unresolved(p) PROVE RecordsAreTrusted'
    BY <1>6 DEF Unresolved, Reports, Untouched
  <1>7. ASSUME NEW p \in Distributors, NEW r \in PartRecords, Delivers(p, r)
        PROVE  RecordsAreTrusted'
    BY <1>7 DEF Delivers, Receives, Admit, Reports, Untouched
  <1>8. ASSUME NEW p \in Distributors, NEW c \in ProviderCodes, FailsDistributor(p, c)
        PROVE  RecordsAreTrusted'
    BY <1>8 DEF FailsDistributor, DistributorFails, Reports, Untouched
  <1>9. CASE \E r \in LcscRecords : FindsAlias(r)
    BY <1>9 DEF FindsAlias, AliasFound, PendingIsExact
  <1>10. CASE AdmitPending
    <2>1. pending[1] \in todo /\ pending[1] \in Distributors
      BY <1>10 DEF AdmitPending, PendingIsExact
    <2> QED  BY <1>10, <2>1 DEF AdmitPending, Admit, Reports, Untouched
  <1>11. CASE AttachCandidates
    BY <1>11 DEF AttachCandidates
  <1>12. CASE \E d \in Discoveries(request.cadSource) : Discovers(d)
    BY <1>12 DEF Discovers
  <1>13. CASE Raises
    BY <1>13 DEF Raises, Raise
  <1> QED  BY <1>1, <1>2, <1>3, <1>4, <1>5, <1>6, <1>7, <1>8, <1>9, <1>10, <1>11, <1>12,
              <1>13 DEF Move

\* What is said of the catalogue: nothing but these moves changes it.
LEMMA StepJlcpcb ==
    Move =>
        \/ UNCHANGED jlcpcb
        \/ LacksExact \/ LacksId \/ AttachCandidates
        \/ jlcpcb'.status # "MANUAL_GLOBAL_SOURCING_REQUIRED"
  <1> SUFFICES ASSUME Move, ~LacksExact, ~LacksId, ~AttachCandidates
               PROVE  \/ UNCHANGED jlcpcb
                      \/ jlcpcb'.status # "MANUAL_GLOBAL_SOURCING_REQUIRED"
    OBVIOUS
  <1> USE DEF products
  <1>1. CASE SkipExact \/ SkipCad \/ SkipId \/ LacksAlias \/ LacksCad \/ PublishLcsc
             \/ AdmitPending \/ Raises
    BY <1>1 DEF SkipExact, SkipCad, SkipId, LacksAlias, AliasUnavailable, LacksCad, CadNotFound,
                PublishLcsc, AdmitPending, Raises, Raise
  <1>2. CASE \E r \in LcscRecords : FindsExact(r) \/ FindsId(r) \/ FindsAlias(r)
    BY <1>2 DEF FindsExact, ExactFound, FindsId, IdFound, FindsAlias, AliasFound, FoundJlcpcb
  <1>3. CASE \E c \in ProviderCodes : FailsExact(c)
    BY <1>3 DEF FailsExact, ExactFails, Jlcpcb
  <1>4. CASE \E c \in ProviderCodes : FailsCad(c) \/ FailsId(c)
    BY <1>4 DEF FailsCad, CadFails, FailsId, IdFails, Jlcpcb
  <1>5. CASE \E y \in Payloads : FindsCad(y)
    BY <1>5 DEF FindsCad, CadFound
  <1>6. CASE \E p \in Distributors :
               \/ Unresolved(p)
               \/ \E r \in PartRecords : Delivers(p, r)
               \/ \E c \in ProviderCodes : FailsDistributor(p, c)
    BY <1>6 DEF Unresolved, Delivers, Receives, FailsDistributor, DistributorFails
  <1>7. CASE \E d \in Discoveries(request.cadSource) : Discovers(d)
    BY <1>7 DEF Discovers
  <1> QED  BY <1>1, <1>2, <1>3, <1>4, <1>5, <1>6, <1>7 DEF Move

\* Who was asked for an alias, and the number once it is absent, stay.
LEMMA StepAttempted == Move => (attempted => attempted')
  <1> SUFFICES ASSUME Move PROVE attempted => attempted'
    OBVIOUS
  <1> USE DEF progress
  <1>1. CASE SkipExact \/ SkipCad \/ SkipId \/ LacksAlias \/ LacksExact \/ LacksCad \/ LacksId
             \/ PublishLcsc \/ AdmitPending \/ AttachCandidates \/ Raises
    BY <1>1 DEF SkipExact, SkipCad, SkipId, LacksAlias, AliasUnavailable, LacksExact,
                ExactNotFound, LacksCad, CadNotFound, LacksId, IdNotFound, PublishLcsc,
                AdmitPending, AttachCandidates, Raises, Raise
  <1>2. CASE \E r \in LcscRecords : FindsExact(r) \/ FindsId(r) \/ FindsAlias(r)
    BY <1>2 DEF FindsExact, ExactFound, FindsId, IdFound, FindsAlias, AliasFound
  <1>3. CASE \E c \in ProviderCodes : FailsExact(c) \/ FailsCad(c) \/ FailsId(c)
    BY <1>3 DEF FailsExact, ExactFails, FailsCad, CadFails, FailsId, IdFails
  <1>4. CASE \E y \in Payloads : FindsCad(y)
    BY <1>4 DEF FindsCad, CadFound
  <1>5. CASE \E p \in Distributors :
               \/ Unresolved(p)
               \/ \E r \in PartRecords : Delivers(p, r)
               \/ \E c \in ProviderCodes : FailsDistributor(p, c)
    BY <1>5 DEF Unresolved, Delivers, Receives, FailsDistributor, DistributorFails
  <1>6. CASE \E d \in Discoveries(request.cadSource) : Discovers(d)
    BY <1>6 DEF Discovers
  <1> QED  BY <1>1, <1>2, <1>3, <1>4, <1>5, <1>6 DEF Move

ReportedAbsent(j) == j # None /\ j.status = "MANUAL_GLOBAL_SOURCING_REQUIRED"

LEMMA StepAbsenceIsFinal == IInv /\ Move => AbsenceIsFinal'
  <1> SUFFICES ASSUME IInv, Move, ReportedAbsent(jlcpcb)' PROVE (id = None \/ attempted)'
    BY DEF AbsenceIsFinal, ReportedAbsent
  <1> USE DEF IInv, Facts, TypeOK, ReportedAbsent
  <1>1. CASE LacksExact
    BY <1>1 DEF LacksExact, ExactNotFound, identity
  <1>2. CASE LacksId
    BY <1>2 DEF LacksId, IdNotFound
  <1>3. ASSUME ReportedAbsent(jlcpcb), id = None => id' = None PROVE (id = None \/ attempted)'
    BY <1>3, StepAttempted DEF AbsenceIsFinal
  <1>4. CASE AttachCandidates
    <2>1. ReportedAbsent(jlcpcb) /\ id' = id
      BY <1>4 DEF AttachCandidates, identity, Jlcpcbs, Optional
    <2> QED  BY <1>3, <2>1
  <1>5. CASE UNCHANGED jlcpcb
    <2>1. ASSUME NEW r \in LcscRecords, FindsExact(r) PROVE FALSE
      BY <1>5, <2>1 DEF FindsExact, Untouched
    <2>2. id' = id
      BY <2>1, StepTrust DEF FindsId, IdFound, FindsAlias, AliasFound, FindsCad, CadFound
    <2> QED  BY <1>3, <1>5, <2>2
  <1> QED  BY <1>1, <1>2, <1>4, <1>5, StepJlcpcb

-----------------------------------------------------------------------------
(* The properties.                                                         *)

LEMMA StepCadIsProved == IInv /\ Move => CadIsProved'
  <1> SUFFICES ASSUME IInv, Move, cadIdentity' # None,
                      stage' \notin LookupStages \cup {"raised"}
               PROVE  /\ request'.mpn # None => \/ cadIdentity'.mpn = request'.mpn
                                                \/ lcsc' # None /\ lcsc'.mpn = request'.mpn
                      /\ request'.mfr # None => \/ cadIdentity'.mfr = request'.mfr
                                                \/ lcsc' # None /\ lcsc'.mfr = request'.mfr
                      /\ lcsc' # None => lcsc'.id = id'
                      /\ request'.id # None => id' = request'.id
    BY DEF CadIsProved
  <1>0. CatalogueIsTrusted' /\ RequestIsKept' /\ request' = request
    BY StepCatalogueIsTrusted, StepRequestIsKept, StepKeeps
  <1>1. CASE lcsc' # None
    BY <1>0, <1>1 DEF CatalogueIsTrusted, RequestIsKept
  <1>2. CASE lcsc' = None
    <2>1. UNCHANGED <<mpn, id, lcsc, cadIdentity>>
      <3>1. ASSUME NEW r \in LcscRecords, FindsExact(r) \/ FindsId(r) \/ FindsAlias(r) PROVE FALSE
        BY <1>2, <3>1, NoneIsNothing DEF FindsExact, ExactFound, FindsId, IdFound, FindsAlias, AliasFound
      <3>2. ASSUME NEW y \in Payloads, FindsCad(y) PROVE FALSE
        BY <3>2 DEF FindsCad, CadFound, Goto, LookupStages
      <3> QED  BY <3>1, <3>2, StepTrust
    <2>2. CASE stage \notin LookupStages
      <3>1. stage # "raised"
        BY RaisedIsFinal
      <3> QED  BY <1>0, <1>2, <2>1, <2>2, <3>1 DEF IInv, Properties, CadIsProved
    <2>3. CASE stage \in LookupStages
      <3>1. \/ SkipId \/ LacksId
            \/ \E r \in LcscRecords : FindsId(r)
            \/ \E c \in ProviderCodes : FailsId(c)
        BY <2>3, StepStages
      <3>2. ASSUME NEW r \in LcscRecords, FindsId(r) PROVE FALSE
        BY <1>2, <3>2, NoneIsNothing DEF FindsId, IdFound
      <3>3. stage = "identity" /\ lcsc = None /\ (~WantsLcsc \/ ~Mandatory)
        BY <1>2, <2>1, <3>1, <3>2 DEF SkipId, LacksId, FailsId
      <3>4. id # None /\ blocking = None /\ id = request.id
        BY <1>2, <2>1, <3>3 DEF IInv, Facts, PayloadIsTrusted, RequestIsKept
      <3>5. ~PairUnproved /\ ~ManufacturerUnproved
        BY <3>3, <3>4 DEF WantsLcsc, Mandatory
      <3>6. request.mpn # None => cadIdentity.mpn = request.mpn
        BY <2>1, <3>4, <3>5
           DEF PairUnproved, IdentityIncomplete, ProvedMpn, IInv, Facts, PayloadIsTrusted
      <3>7. request.mfr # None => cadIdentity.mfr = request.mfr
        BY <2>1, <3>4, <3>5 DEF ManufacturerUnproved, ProvedMfr
      <3> QED  BY <1>0, <1>2, <2>1, <3>4, <3>6, <3>7
    <2> QED  BY <2>2, <2>3
  <1> QED  BY <1>1, <1>2

\* A record that is published now.
Publishes(p) == records'[p] # None /\ records'[p] # records[p]
IsEvidenced(r) ==
    /\ r.mpn = mpn
    /\ request.mfr # None => r.mfr = request.mfr
    /\ Evidenced(r.mfr) \/ request.mfr # None

LEMMA AdmitIsEvidenced ==
    ASSUME TypeOK, NEW p \in Distributors, NEW r \in PartRecords, Admit(p, r),
           r.mpn = mpn, request.mfr # None => r.mfr = request.mfr,
           NEW q \in Providers, Publishes(q)
    PROVE  IsEvidenced(records'[q])
  BY Sources DEF Admit, Publishes, IsEvidenced, TypeOK

LEMMA StepPublishes ==
    ASSUME IInv, Move, NEW q \in Providers, Publishes(q)
    PROVE  IsEvidenced(records[q])'
  <1> USE Sources, NoneIsNothing DEF TypeOK, identity, products, progress, Publishes
  <1>0. TypeOK /\ Facts
    BY DEF IInv
  <1>1. CASE SkipExact \/ SkipCad \/ SkipId \/ LacksAlias \/ LacksExact \/ LacksCad \/ LacksId
             \/ AttachCandidates \/ Raises
    BY <1>1 DEF SkipExact, SkipCad, SkipId, LacksAlias, AliasUnavailable, LacksExact,
                ExactNotFound, LacksCad, CadNotFound, LacksId, IdNotFound, AttachCandidates,
                Raises, Raise
  <1>2. CASE \E r \in LcscRecords : FindsExact(r) \/ FindsId(r)
    BY <1>2 DEF FindsExact, ExactFound, FindsId, IdFound
  <1>3. CASE \E c \in ProviderCodes : FailsExact(c) \/ FailsCad(c) \/ FailsId(c)
    BY <1>3 DEF FailsExact, ExactFails, FailsCad, CadFails, FailsId, IdFails
  <1>4. CASE \E y \in Payloads : FindsCad(y)
    BY <1>4 DEF FindsCad, CadFound
  <1>5. CASE PublishLcsc
    <2>1. records'[q] = lcsc /\ lcsc # None
      BY <1>0, <1>5 DEF PublishLcsc
    <2>2. UNCHANGED <<request, mpn, lcsc, evidence>>
      BY <1>5 DEF PublishLcsc
    <2> QED  BY <1>0, <2>1, <2>2 DEF Facts, CatalogueIsTrusted, IsEvidenced, Evidenced
  <1>6. CASE \E p \in Distributors :
               \/ Unresolved(p)
               \/ \E c \in ProviderCodes : FailsDistributor(p, c)
    BY <1>6 DEF Unresolved, FailsDistributor, DistributorFails
  <1>7. ASSUME NEW p \in Distributors, NEW r \in PartRecords, Delivers(p, r)
        PROVE  IsEvidenced(records[q])'
    <2>1. Admit(p, r) /\ UNCHANGED <<request, mpn, evidence>>
      BY <1>7 DEF Delivers, Receives
    <2>2. r.mpn = mpn /\ (request.mfr # None => r.mfr = request.mfr)
      BY <1>7 DEF Delivers, ExactRecords
    <2>3. IsEvidenced(records'[q])
      BY <1>0, <2>1, <2>2, AdmitIsEvidenced
    <2> QED  BY <2>1, <2>3 DEF IsEvidenced, Evidenced
  <1>8. ASSUME NEW r \in LcscRecords, FindsAlias(r) PROVE IsEvidenced(records[q])'
    <2>1. records'[q] = r
      BY <1>0, <1>8 DEF FindsAlias, AliasFound
    <2>2. CatalogueIsTrusted' /\ lcsc' = r
      BY <1>8, StepCatalogueIsTrusted DEF FindsAlias, AliasFound
    <2>3. DOMAIN evidence' = {"lcsc", "easyeda"}
      BY <1>0, <1>8 DEF FindsAlias, AliasFound, Evidences
    <2> QED  BY <2>1, <2>2, <2>3 DEF CatalogueIsTrusted, IsEvidenced, Evidenced
  <1>9. CASE AdmitPending
    <2>1. Admit(pending[1], pending[2]) /\ UNCHANGED <<request, mpn, evidence>>
      BY <1>9 DEF AdmitPending
    <2>2. /\ pending[1] \in Distributors /\ pending[2] \in PartRecords
          /\ pending[2].mpn = mpn /\ request.mfr = None
      BY <1>0, <1>9 DEF AdmitPending, Facts, PendingIsExact
    <2>3. IsEvidenced(records'[q])
      BY <1>0, <2>1, <2>2, AdmitIsEvidenced
    <2> QED  BY <2>1, <2>3 DEF IsEvidenced, Evidenced
  <1>10. CASE \E d \in Discoveries(request.cadSource) : Discovers(d)
    BY <1>10 DEF Discovers
  <1> QED  BY <1>1, <1>2, <1>3, <1>4, <1>5, <1>6, <1>7, <1>8, <1>9, <1>10 DEF Move

LEMMA StepRecordsAreEvidenced ==
    IInv /\ Move /\ asked' \in BOOLEAN => RecordsAreEvidenced'
  <1> SUFFICES ASSUME IInv, Move, asked' \in BOOLEAN, NEW q \in Providers, records'[q] # None
               PROVE  IsEvidenced(records[q])'
    BY DEF RecordsAreEvidenced, IsEvidenced
  <1>1. CASE Publishes(q)
    BY <1>1, StepPublishes
  <1>2. CASE records'[q] = records[q]
    <2>1. IsEvidenced(records[q])
      BY <1>2 DEF IInv, Properties, RecordsAreEvidenced, IsEvidenced
    <2>2. records[q].mpn # None /\ records[q].mfr # None
      BY <1>2, NoneIsNothing DEF IInv, TypeOK, Optional
    <2>3. DOMAIN evidence = {"lcsc", "easyeda"} /\ DOMAIN evidence' = {"lcsc", "easyeda"}
      BY StepTyped DEF IInv, TypeOK
    <2> QED  BY <1>2, <2>1, <2>2, <2>3, StepKeeps DEF IsEvidenced, Evidenced
  <1> QED  BY <1>1, <1>2 DEF Publishes

LEMMA StepEvidenceIsOfOnePart == IInv /\ Move => EvidenceIsOfOnePart'
  <1> SUFFICES ASSUME IInv, Move PROVE EvidenceIsOfOnePart'
    OBVIOUS
  <1> USE DEF identity, products
  <1>1. CatalogueIsTrusted' /\ PayloadIsTrusted'
    BY StepCatalogueIsTrusted, StepPayloadIsTrusted
  <1>2. jlcpcb' # None /\ jlcpcb'.status = "PART_FOUND" => jlcpcb'.part = id'
    <2> SUFFICES ASSUME jlcpcb' # None, jlcpcb'.status = "PART_FOUND" PROVE jlcpcb'.part = id'
      OBVIOUS
    <2>1. CASE \E r \in LcscRecords : FindsExact(r)
      BY <2>1 DEF FindsExact, ExactFound, FoundJlcpcb
    <2>2. CASE \E r \in LcscRecords : FindsId(r)
      BY <2>2 DEF FindsId, IdFound, FoundJlcpcb, IdRecords
    <2>3. ASSUME ~ \E r \in LcscRecords : FindsExact(r), jlcpcb' = jlcpcb
          PROVE  jlcpcb'.part = id'
      <3>1. id' = id
        BY <2>3, StepTrust DEF FindsId, IdFound, FindsAlias, AliasFound, FindsCad, CadFound
      <3> QED  BY <2>3, <3>1 DEF IInv, Properties, EvidenceIsOfOnePart
    <2>4. CASE SkipExact \/ SkipCad \/ SkipId \/ LacksAlias \/ LacksCad \/ PublishLcsc
               \/ AdmitPending \/ Raises
      <3>1. jlcpcb' = jlcpcb /\ id' = id
        BY <2>4 DEF SkipExact, SkipCad, SkipId, LacksAlias, AliasUnavailable, LacksCad,
                    CadNotFound, PublishLcsc, AdmitPending, Raises, Raise
      <3> QED  BY <3>1 DEF IInv, Properties, EvidenceIsOfOnePart
    <2>5. CASE LacksExact
      BY <2>5 DEF LacksExact, ExactNotFound, Jlcpcb
    <2>6. CASE LacksId
      <3>1. jlcpcb' = jlcpcb \/ jlcpcb'.status # "PART_FOUND"
        BY <2>6 DEF LacksId, IdNotFound, Jlcpcb
      <3>2. id' = id
        BY <2>6 DEF LacksId, IdNotFound
      <3> QED  BY <3>1, <3>2 DEF IInv, Properties, EvidenceIsOfOnePart
    <2>7. ASSUME NEW c \in ProviderCodes, FailsExact(c) \/ FailsCad(c) \/ FailsId(c)
          PROVE  jlcpcb'.part = id'
      <3>1. jlcpcb' = jlcpcb \/ jlcpcb'.status # "PART_FOUND"
        BY <2>7 DEF FailsExact, ExactFails, FailsCad, CadFails, FailsId, IdFails, Jlcpcb
      <3>2. id' = id
        BY <2>7 DEF FailsExact, ExactFails, FailsCad, CadFails, FailsId, IdFails
      <3> QED  BY <3>1, <3>2 DEF IInv, Properties, EvidenceIsOfOnePart
    <2>8. CASE AttachCandidates
      <3>1. /\ id' = id
            /\ jlcpcb' # None => /\ jlcpcb # None
                                 /\ jlcpcb'.status = jlcpcb.status /\ jlcpcb'.part = jlcpcb.part
        BY <2>8 DEF AttachCandidates, IInv, TypeOK, Optional, Jlcpcbs
      <3> QED  BY <3>1 DEF IInv, Properties, EvidenceIsOfOnePart
    <2>9. CASE jlcpcb' = jlcpcb
      BY <2>1, <2>3, <2>9
    <2>10. CASE \E r \in LcscRecords : FindsAlias(r)
      BY <2>9, <2>10 DEF FindsAlias, AliasFound
    <2>11. CASE \E y \in Payloads : FindsCad(y)
      BY <2>9, <2>11 DEF FindsCad, CadFound
    <2>12. CASE \E p \in Distributors :
                 \/ Unresolved(p)
                 \/ \E r \in PartRecords : Delivers(p, r)
                 \/ \E c \in ProviderCodes : FailsDistributor(p, c)
      BY <2>9, <2>12 DEF Unresolved, Delivers, Receives, FailsDistributor, DistributorFails
    <2>13. CASE \E d \in Discoveries(request.cadSource) : Discovers(d)
      BY <2>9, <2>13 DEF Discovers
    <2> QED  BY <2>1, <2>2, <2>4, <2>5, <2>6, <2>7, <2>8, <2>10, <2>11, <2>12, <2>13 DEF Move
  <1> QED  BY <1>1, <1>2, NoneIsNothing
           DEF CatalogueIsTrusted, PayloadIsTrusted, EvidenceIsOfOnePart

\* The catalogue's error is its own.
LEMMA StepLcscError ==
    IInv /\ Move =>
        \/ errors'["lcsc"] = errors["lcsc"]
        \/ LacksId /\ mpn = None
        \/ \E c \in ProviderCodes : FailsExact(c) \/ FailsId(c)
  <1> SUFFICES ASSUME TypeOK, Facts, Move,
                      ~ \E c \in ProviderCodes : FailsExact(c) \/ FailsId(c)
               PROVE  errors'["lcsc"] = errors["lcsc"] \/ (LacksId /\ mpn = None)
    BY DEF IInv
  <1> USE Sources DEF TypeOK, products, Reports
  <1>1. CASE SkipExact \/ SkipCad \/ SkipId \/ LacksAlias \/ LacksExact \/ LacksCad \/ LacksId
             \/ PublishLcsc \/ AttachCandidates \/ Raises
    BY <1>1 DEF SkipExact, SkipCad, SkipId, LacksAlias, AliasUnavailable, LacksExact,
                ExactNotFound, LacksCad, CadNotFound, LacksId, IdNotFound, PublishLcsc,
                AttachCandidates, Raises, Raise
  <1>2. CASE \E r \in LcscRecords : FindsExact(r) \/ FindsId(r) \/ FindsAlias(r)
    BY <1>2 DEF FindsExact, ExactFound, FindsId, IdFound, FindsAlias, AliasFound
  <1>3. CASE \E c \in ProviderCodes : FailsCad(c)
    BY <1>3 DEF FailsCad, CadFails
  <1>4. CASE \E y \in Payloads : FindsCad(y)
    BY <1>4 DEF FindsCad, CadFound
  <1>5. CASE \E p \in Distributors : Unresolved(p)
    BY <1>5 DEF Unresolved
  <1>6. CASE \E p \in Distributors, r \in PartRecords : Delivers(p, r)
    BY <1>6 DEF Delivers, Receives, Admit
  <1>7. CASE \E p \in Distributors, c \in ProviderCodes : FailsDistributor(p, c)
    BY <1>7 DEF FailsDistributor, DistributorFails
  <1>8. CASE AdmitPending
    <2>1. pending[1] \in Distributors
      BY <1>8 DEF AdmitPending, Facts, PendingIsExact
    <2> QED  BY <1>8, <2>1 DEF AdmitPending, Admit
  <1>9. CASE \E d \in Discoveries(request.cadSource) : Discovers(d)
    BY <1>9 DEF Discovers, Facts, Untouched
  <1> QED  BY <1>1, <1>2, <1>3, <1>4, <1>5, <1>6, <1>7, <1>8, <1>9 DEF Move

Proof(j) ==
    /\ asked /\ ~request.offline
    /\ lcsc = None /\ errors["lcsc"] = None
    /\ \A p \in j.candidates : records[p] # None

LEMMA StepAbsenceIsProved ==
    IInv /\ Move /\ (asked => asked') => AbsenceIsProved'
  <1> SUFFICES ASSUME IInv, Move, asked => asked', ReportedAbsent(jlcpcb)' PROVE Proof(jlcpcb)'
    BY DEF AbsenceIsProved, ReportedAbsent, Proof
  <1>0. TypeOK /\ Facts
    BY DEF IInv
  <1>1. CASE LacksExact
    BY <1>0, <1>1 DEF LacksExact, ExactNotFound, Jlcpcb, Proof, identity, Facts, Untouched
  <1>2. CASE LacksId /\ mpn # None
    <2>1. errors["lcsc"] = None /\ lcsc = None
      BY <1>0, <1>2 DEF LacksId, WantsLcsc, Facts, Untouched, LookupStages
    <2> QED  BY <1>2, <2>1 DEF LacksId, IdNotFound, Jlcpcb, Proof, identity
  <1>3. ASSUME NEW r \in LcscRecords, FindsExact(r) \/ FindsId(r) PROVE FALSE
    BY <1>3 DEF FindsExact, ExactFound, FindsId, IdFound, FoundJlcpcb, ReportedAbsent
  <1>4. ASSUME NEW c \in ProviderCodes, FailsExact(c) PROVE FALSE
    BY <1>4 DEF FailsExact, ExactFails, Jlcpcb, ReportedAbsent
  <1>5. ASSUME ReportedAbsent(jlcpcb), jlcpcb' = jlcpcb \/ AttachCandidates PROVE Proof(jlcpcb)'
    <2>1. Proof(jlcpcb)
      BY <1>5 DEF ReportedAbsent, Proof, IInv, Properties, AbsenceIsProved
    <2>2. ~(stage = "identity" /\ WantsLcsc) /\ stage # "alias"
      BY <1>0, <1>5 DEF ReportedAbsent, Facts, AbsenceIsFinal, Untouched, LookupStages, WantsLcsc,
                        PendingIsExact, TypeOK
    <2>3. lcsc' = lcsc
      BY <1>3, <2>2, StepTrust DEF FindsAlias, FindsCad, CadFound
    <2>4. errors'["lcsc"] = errors["lcsc"]
      BY <1>4, <2>2, StepLcscError DEF LacksId, FailsId
    <2>5. \A p \in jlcpcb'.candidates : records'[p] # None
      <3>1. CASE jlcpcb' = jlcpcb
        <4>1. jlcpcb.candidates \subseteq Providers
          BY <1>0, <1>5, Sources DEF TypeOK, Optional, Jlcpcbs, ReportedAbsent
        <4> QED  BY <2>1, <3>1, <4>1, StepKeeps DEF Proof
      <3>2. CASE AttachCandidates
        <4>1. jlcpcb \in Jlcpcbs
          BY <1>0, <1>5 DEF TypeOK, Optional, ReportedAbsent
        <4>2. jlcpcb' = jlcpcb \/ \A p \in jlcpcb'.candidates : records[p] # None
          BY <3>2, <4>1 DEF AttachCandidates, Jlcpcbs
        <4>3. records' = records
          BY <3>2 DEF AttachCandidates
        <4> QED  BY <3>1, <4>2, <4>3
      <3> QED  BY <1>5, <3>1, <3>2
    <2> QED  BY <2>1, <2>3, <2>4, <2>5, StepKeeps DEF Proof
  <1>6. CASE AttachCandidates
    <2>1. ReportedAbsent(jlcpcb)
      BY <1>0, <1>6 DEF AttachCandidates, ReportedAbsent, TypeOK, Optional, Jlcpcbs
    <2> QED  BY <1>5, <1>6, <2>1
  <1>7. CASE jlcpcb' = jlcpcb
    BY <1>5, <1>7 DEF ReportedAbsent
  <1>8. CASE LacksId /\ mpn = None
    BY <1>7, <1>8 DEF LacksId, IdNotFound
  <1> QED  BY <1>1, <1>2, <1>6, <1>7, <1>8, StepJlcpcb DEF ReportedAbsent

LEMMA StepHandoffIsExact == IInv /\ Move => HandoffIsExact'
  <1> SUFFICES ASSUME IInv, Move, discovery' = "CAD_MANUAL_DOWNLOAD_REQUIRED"
               PROVE  HandoffIsExact'
    BY DEF HandoffIsExact
  <1>0. "CAD_MANUAL_DOWNLOAD_REQUIRED" # None
    BY ResolutionAssumption DEF DiscoveryStatuses
  <1>1. stage' = "resolved"
    BY <1>0, StepUntouched DEF Untouched
  <1>2. CASE AttachCandidates
    BY <1>0, <1>2 DEF AttachCandidates, IInv, Facts, Untouched
  <1>3. ASSUME NEW d \in Discoveries(request.cadSource), Discovers(d) PROVE HandoffIsExact'
    <2> DEFINE source == request.cadSource
    <2>1. source \in Distributors /\ source \in Providers
      BY <1>3, Sources DEF Discovers, IInv, Facts, Untouched
    <2>2. /\ d.status = "CAD_MANUAL_DOWNLOAD_REQUIRED"
          /\ UNCHANGED <<request, mpn, mfr, records>>
          /\ d.code = None => errors' = errors
      BY <1>3 DEF Discovers, identity, products
    <2>3. /\ mpn # None /\ mfr # None
          /\ records[source] # None \/ errors[source] = None
          /\ d \in Handoffs(source)
      BY <2>2 DEF Discoveries, Discovered, DiscoveryFailure
    <2>4. d.code = None /\ (records[source] # None =>
                             ExactMatch(source, {records[source]}, mpn, mfr).code = "OK")
      BY <1>0, <2>1, <2>2, <2>3, HandoffCases
    <2>5. errors[source] = None
      BY <1>3, <2>1, <2>3 DEF Discovers, IInv, Facts, RecordsAreTrusted
    <2>6. records[source] # None => records[source].mfr = mfr
      BY <2>3, <2>4 DEF ExactMatch, Failed, Found
    <2> QED  BY <2>2, <2>3, <2>4, <2>5, <2>6 DEF HandoffIsExact
  <1> QED  BY <1>1, <1>2, <1>3, StepStages

-----------------------------------------------------------------------------
(* The theorems.                                                           *)

LEMMA StepInv == IInv /\ [Resolve]_resolution => IInv'
  <1>1. ASSUME IInv, Resolve PROVE IInv'
    <2>1. Move /\ asked' \in BOOLEAN /\ (asked => asked')
      BY <1>1, StepMoves DEF IInv, Facts, Untouched
    <2>2. TypeOK'
      BY <1>1, <2>1, StepTyped
    <2>3. Facts'
      BY <1>1, <2>1, StepUntouched, StepRequestIsKept, StepCatalogueIsTrusted,
         StepPayloadIsTrusted, StepPendingIsExact, StepRecordsAreTrusted, StepAbsenceIsFinal
         DEF Facts
    <2>4. Properties'
      BY <1>1, <2>1, StepCadIsProved, StepRecordsAreEvidenced, StepEvidenceIsOfOnePart,
         StepAbsenceIsProved, StepHandoffIsExact DEF Properties
    <2> QED  BY <2>2, <2>3, <2>4 DEF IInv
  <1>2. ASSUME IInv, UNCHANGED resolution PROVE IInv'
    <2> USE <1>2 DEF resolution, identity, products, progress, IInv
    <2>1. TypeOK'
      BY DEF TypeOK
    <2>2. /\ Untouched' /\ RequestIsKept' /\ CatalogueIsTrusted' /\ PayloadIsTrusted'
          /\ PendingIsExact' /\ RecordsAreTrusted' /\ AbsenceIsFinal'
      BY DEF Facts, Untouched, RequestIsKept, CatalogueIsTrusted, PayloadIsTrusted,
             PendingIsExact, RecordsAreTrusted, AbsenceIsFinal
    <2>3. CadIsProved' /\ RecordsAreEvidenced' /\ EvidenceIsOfOnePart'
      BY DEF Properties, CadIsProved, RecordsAreEvidenced, Evidenced, EvidenceIsOfOnePart
    <2>4. AbsenceIsProved' /\ HandoffIsExact'
      BY DEF Properties, AbsenceIsProved, HandoffIsExact
    <2> QED  BY <2>1, <2>2, <2>3, <2>4 DEF Facts, Properties
  <1> QED  BY <1>1, <1>2

LEMMA Invariance == Spec => []IInv
  BY InitInv, StepInv, PTL DEF Spec

\* The state of a resolution has its types for every set of names, of LCSC
\* numbers and of requests (resolve_metadata, service.py:208-623).
THEOREM TypeCorrect == Spec => []TypeOK
  BY Invariance, PTL DEF IInv

\* CAD data that a run keeps is proved to be the part the user named, by its
\* own payload or by the catalogue record of the same LCSC number
\* (service.py:338-465).
THEOREM CadDataIsProved == Spec => []CadIsProved
  <1>1. IInv => CadIsProved
    BY DEF IInv, Properties
  <1> QED  BY <1>1, Invariance, PTL

\* No record is published whose manufacturer is neither requested nor
\* evidenced for this part (service.py:515-576).
THEOREM PublishedRecordsAreEvidenced == Spec => []RecordsAreEvidenced
  <1>1. IInv => RecordsAreEvidenced
    BY DEF IInv, Properties
  <1> QED  BY <1>1, Invariance, PTL

\* All evidence and the JLCPCB part are of one LCSC number
\* (service.py:272-295, 359-373, 446-465).
THEOREM OnePartIsEvidenced == Spec => []EvidenceIsOfOnePart
  <1>1. IInv => EvidenceIsOfOnePart
    BY DEF IInv, Properties
  <1> QED  BY <1>1, Invariance, PTL

\* A part is reported absent from JLCPCB only when the catalogue answered so
\* in this run, and nothing it answers later contradicts the report
\* (service.py:296-306, 466-481, 667-696).
THEOREM AbsenceWasAnswered == Spec => []AbsenceIsProved
  <1>1. IInv => AbsenceIsProved
    BY DEF IInv, Properties
  <1> QED  BY <1>1, Invariance, PTL

\* A distributor's CAD is handed off only for a trusted identity that its own
\* record, if it has one, agrees with (service.py:932-1008).
THEOREM HandoffsAreExact == Spec => []HandoffIsExact
  <1>1. IInv => HandoffIsExact
    BY DEF IInv, Properties
  <1> QED  BY <1>1, Invariance, PTL

\* No step replaces a trusted name or a published record (resolve_metadata).
THEOREM TrustIsNeverReplaced == Spec => TrustIsKept
  <1> DEFINE Kept == /\ mpn # None => mpn' = mpn
                     /\ mfr # None => mfr' = mfr
                     /\ id # None => id' = id
                     /\ \A p \in Providers : records[p] # None => records'[p] = records[p]
  <1>1. IInv /\ [Resolve]_resolution => [Kept]_resolution
    <2>1. IInv /\ Resolve => Kept
      BY StepMoves, StepKeeps DEF IInv, Facts, Untouched
    <2> QED  BY <2>1
  <1>2. [][Kept]_resolution <=> TrustIsKept
    BY DEF TrustIsKept
  <1> QED  BY <1>1, <1>2, Invariance, PTL DEF Spec


-----------------------------------------------------------------------------
(* The inductive invariant of a run.                                       *)

\* While it resolves: what blocks a run leaves it without CAD data, but for a
\* handoff, which names itself.
Blocked ==
    /\ discovery # None => blocking # None
    /\ blocking # None /\ discovery = None => cadIdentity = None
    /\ errors["easyeda"] # None => cadIdentity = None
    /\ stage \in {"exact", "cad"} => errors["easyeda"] = None
    /\ jlcpcb # None /\ jlcpcb.status \in {"IDENTITY_AMBIGUOUS", "IDENTITY_CONFLICT"}
         => blocking # None /\ cadIdentity = None

Before == {"resolve", "verify"}
Searching == {"source", "digikey", "mouser", "export", "select"}
Writing == {"register", "report"}
After == Writing \cup {"answer", "ended"}

WhileResolving ==
    phase = "resolve" => IInv /\ Blocked

\* CAD data that the resolution left is the requested part's.
WhatIsProved ==
    /\ request.mpn # None => request.mpn \in {cadIdentity.mpn,
                                              IF lcsc = None THEN None ELSE lcsc.mpn}
    /\ jlcpcb # None => jlcpcb.status \in {"PART_FOUND", "LOOKUP_FAILED",
                                           "MANUAL_GLOBAL_SOURCING_REQUIRED"}
CadIsTrusted ==
    phase \in {"verify"} \cup Searching /\ cadIdentity # None => WhatIsProved

JlcpcbIsExact == jlcpcb # None /\ jlcpcb.status = "PART_FOUND" => jlcpcb.part = id

WhileVerifying ==
    phase = "verify" =>
        /\ cad \in {None, "PARTIAL", "CAD_NOT_FOUND"}
        /\ cadIdentity # None => errors["easyeda"] = None
        /\ blocking # None /\ discovery = None => cadIdentity = None
        /\ discovery # None => blocking # None

\* What verified CAD is, and that only a handoff keeps it from the libraries.
WhileSearching ==
    phase \in Searching =>
        /\ verification \in Statuses /\ cad \in Optional(Statuses)
        /\ verification = "VERIFIED" =>
             /\ cadIdentity # None /\ parsed = Wanted /\ errors["easyeda"] = None
             /\ blocking # None => discovery # None
        /\ cad = "VERIFIED" => verification = "VERIFIED"
        /\ discovery # None => blocking # None
        /\ phase \in {"digikey", "mouser", "export"} => ~options.locked

\* Only a run that looks for local packages is bound by a source lock.
LockIsLocal == phase \in {"verify"} \cup Searching => (options.locked => options.candidates)

ErrorsAreOfSources == "easyeda" \in DOMAIN errors

ReadyIsInstalled == discovery = "CAD_PACKAGE_READY" => library = "package"

\* The order of the effects.
Effects ==
    /\ library \in {None, "easyeda", "package"} /\ registered \in BOOLEAN
    /\ phase \in Before \cup Searching => library = None /\ part = None
    /\ phase \in Before \cup Searching \cup {"register"} => ~registered
    /\ phase \in Before \cup Searching \cup Writing => manifest = None
    /\ phase \in Writing => part \in Parts /\ (library = "package" => blocking = None)
    /\ phase = "report" /\ library = "package" /\ options.register => registered

\* What the merged part says of CAD is in the libraries, or was blocked.
PartIsHonest ==
    part # None =>
        /\ part.status = "VERIFIED" => library = "easyeda" \/ discovery # None
        /\ part.cad = "VERIFIED" => library = "easyeda" \/ blocking # None

\* What exit code 0 of the command means to the machine result.
CoreIsComplete ==
    phase = "answer" /\ core = 0 =>
        /\ options.register => registered
        /\ options.manifest => manifest # None
        /\ blocking = None

ResultIsLast == result # None => phase = "ended"

Course == /\ WhileResolving /\ WhileVerifying /\ WhileSearching /\ CadIsTrusted
          /\ LockIsLocal /\ ErrorsAreOfSources /\ JlcpcbIsExact
Written == /\ Effects /\ ReadyIsInstalled /\ PartIsHonest /\ ExportIsProved /\ ManifestIsHonest
Answered == /\ CoreIsComplete /\ ResultIsLast /\ SuccessIsComplete /\ FailureIsExplained

RunIInv == Course /\ Written /\ Answered
-----------------------------------------------------------------------------
(* The words of a run.                                                     *)

LEMMA NoneIsNoWord ==
    /\ \A w \in Statuses \cup PackageStatuses \cup LockCodes \cup Parts : w # None
    /\ \A w \in ErrorCodes \cup JlcpcbStatuses \cup DiscoveryStatuses : w # None
    /\ "easyeda" # None /\ "package" # None
    /\ "DATASHEET_UNAVAILABLE" # None /\ "EXPORT_FAILED" # None
  BY RunAssumption, ResolutionAssumption

LEMMA PartTyped ==
    ASSUME NEW s \in Statuses, NEW c \in Optional(Statuses)
    PROVE  [status |-> s, cad |-> c] \in Parts
  BY DEF Parts

\* A run that has no result yet promises nothing of it.
LEMMA NoResult ==
    ASSUME result' = None
    PROVE  ResultIsLast' /\ SuccessIsComplete' /\ FailureIsExplained'
  BY DEF ResultIsLast, SuccessIsComplete, FailureIsExplained

\* A result that only names an internal failure.
LEMMA InternalFailure ==
    ASSUME NEW c, result' = [exit |-> 70, errors |-> {c}, actions |-> {}], phase' = "ended"
    PROVE  CoreIsComplete' /\ ResultIsLast' /\ SuccessIsComplete' /\ FailureIsExplained'
  BY DEF CoreIsComplete, ResultIsLast, SuccessIsComplete, FailureIsExplained

\* Past the resolution and the search, only JLCPCB and the sources of errors
\* are still described.
LEMMA CourseIsOver ==
    ASSUME Course, phase' \in After,
           UNCHANGED <<jlcpcb, id, errors>>
    PROVE  Course'
  <1>1. WhileResolving' /\ WhileVerifying' /\ WhileSearching'
    BY DEF WhileResolving, WhileVerifying, WhileSearching, After, Writing, Searching
  <1>2. CadIsTrusted' /\ LockIsLocal'
    BY DEF CadIsTrusted, LockIsLocal, After, Writing, Searching
  <1>3. ErrorsAreOfSources' /\ JlcpcbIsExact'
    BY DEF Course, ErrorsAreOfSources, JlcpcbIsExact
  <1> QED  BY <1>1, <1>2, <1>3 DEF Course

\* Until the export nothing is in the libraries and nothing is reported.
LEMMA NothingIsWritten ==
    ASSUME library' = None, manifest' = None, part' = None, registered' = FALSE,
           phase' \notin Writing, discovery' # "CAD_PACKAGE_READY"
    PROVE  Written'
  <1>1. Effects'
    BY DEF Effects, Writing
  <1>2. ReadyIsInstalled' /\ PartIsHonest'
    BY DEF ReadyIsInstalled, PartIsHonest
  <1>3. ExportIsProved' /\ ManifestIsHonest'
    BY NoneIsNoWord DEF ExportIsProved, ManifestIsHonest, Statuses
  <1> QED  BY <1>1, <1>2, <1>3 DEF Written

-----------------------------------------------------------------------------
(* The initial states and the resolution.                                  *)

LEMMA RunInitInv == RunInit => RunIInv
  <1> SUFFICES ASSUME RunInit PROVE RunIInv
    OBVIOUS
  <1>1. IInv
    BY InitInv DEF RunInit
  <1>2. /\ discovery = None /\ blocking = None /\ jlcpcb = None /\ phase = "resolve"
        /\ errors = [p \in Providers \cup {"easyeda"} |-> None]
    BY DEF RunInit, Init, InitWith
  <1>3. Course
    BY <1>1, <1>2 DEF Course, WhileResolving, Blocked, WhileVerifying, WhileSearching,
                      CadIsTrusted, LockIsLocal, ErrorsAreOfSources, JlcpcbIsExact, Searching
  <1>4. Written
    BY <1>2, NoneIsNoWord
       DEF Written, RunInit, Effects, ReadyIsInstalled, PartIsHonest, ExportIsProved,
           ManifestIsHonest, Before, Searching, Writing, Statuses, PackageStatuses
  <1>5. Answered
    BY <1>2 DEF Answered, RunInit, CoreIsComplete, ResultIsLast, SuccessIsComplete,
                FailureIsExplained
  <1> QED  BY <1>3, <1>4, <1>5 DEF RunIInv

\* The error of EasyEDA is its own.
LEMMA StepEasyedaError ==
    IInv /\ Move =>
        \/ errors'["easyeda"] = errors["easyeda"]
        \/ \E c \in ProviderCodes : FailsCad(c)
  <1> SUFFICES ASSUME TypeOK, Facts, Move, ~ \E c \in ProviderCodes : FailsCad(c)
               PROVE  errors'["easyeda"] = errors["easyeda"]
    BY DEF IInv
  <1> USE Sources DEF TypeOK, products, Reports
  <1>1. CASE SkipExact \/ SkipCad \/ SkipId \/ LacksAlias \/ LacksExact \/ LacksCad \/ LacksId
             \/ PublishLcsc \/ AttachCandidates \/ Raises
    BY <1>1 DEF SkipExact, SkipCad, SkipId, LacksAlias, AliasUnavailable, LacksExact,
                ExactNotFound, LacksCad, CadNotFound, LacksId, IdNotFound, PublishLcsc,
                AttachCandidates, Raises, Raise
  <1>2. CASE \E r \in LcscRecords : FindsExact(r) \/ FindsId(r) \/ FindsAlias(r)
    BY <1>2 DEF FindsExact, ExactFound, FindsId, IdFound, FindsAlias, AliasFound
  <1>3. CASE \E c \in ProviderCodes : FailsExact(c) \/ FailsId(c)
    BY <1>3 DEF FailsExact, ExactFails, FailsId, IdFails
  <1>4. CASE \E y \in Payloads : FindsCad(y)
    BY <1>4 DEF FindsCad, CadFound
  <1>5. CASE \E p \in Distributors : Unresolved(p)
    BY <1>5 DEF Unresolved
  <1>6. CASE \E p \in Distributors, r \in PartRecords : Delivers(p, r)
    BY <1>6 DEF Delivers, Receives, Admit
  <1>7. CASE \E p \in Distributors, c \in ProviderCodes : FailsDistributor(p, c)
    BY <1>7 DEF FailsDistributor, DistributorFails
  <1>8. CASE AdmitPending
    <2>1. pending[1] \in Distributors
      BY <1>8 DEF AdmitPending, Facts, PendingIsExact
    <2> QED  BY <1>8, <2>1 DEF AdmitPending, Admit
  <1>9. CASE \E d \in Discoveries(request.cadSource) : Discovers(d)
    BY <1>9 DEF Discovers, Facts, Untouched
  <1> QED  BY <1>1, <1>2, <1>3, <1>4, <1>5, <1>6, <1>7, <1>8, <1>9 DEF Move

\* What blocks a run is the failure of a lookup or a handoff.
LEMMA StepBlocking ==
    Move =>
        \/ UNCHANGED <<blocking, discovery>>
        \/ \E c \in ProviderCodes : FailsExact(c) \/ FailsCad(c)
        \/ \E d \in Discoveries(request.cadSource) : Discovers(d)
  <1> SUFFICES ASSUME Move, ~ \E c \in ProviderCodes : FailsExact(c) \/ FailsCad(c),
                      ~ \E d \in Discoveries(request.cadSource) : Discovers(d)
               PROVE  UNCHANGED <<blocking, discovery>>
    OBVIOUS
  <1>1. CASE SkipExact \/ SkipCad \/ SkipId \/ LacksAlias \/ LacksExact \/ LacksCad \/ LacksId
             \/ PublishLcsc \/ AdmitPending \/ AttachCandidates \/ Raises
    BY <1>1 DEF SkipExact, SkipCad, SkipId, LacksAlias, AliasUnavailable, LacksExact,
                ExactNotFound, LacksCad, CadNotFound, LacksId, IdNotFound, PublishLcsc,
                AdmitPending, AttachCandidates, Raises, Raise
  <1>2. CASE \E r \in LcscRecords : FindsExact(r) \/ FindsId(r) \/ FindsAlias(r)
    BY <1>2 DEF FindsExact, ExactFound, FindsId, IdFound, FindsAlias, AliasFound
  <1>3. CASE \E c \in ProviderCodes : FailsId(c)
    BY <1>3 DEF FailsId, IdFails
  <1>4. CASE \E y \in Payloads : FindsCad(y)
    BY <1>4 DEF FindsCad, CadFound
  <1>5. CASE \E p \in Distributors :
               \/ Unresolved(p)
               \/ \E r \in PartRecords : Delivers(p, r)
               \/ \E c \in ProviderCodes : FailsDistributor(p, c)
    BY <1>5 DEF Unresolved, Delivers, Receives, FailsDistributor, DistributorFails
  <1> QED  BY <1>1, <1>2, <1>3, <1>4, <1>5 DEF Move

Conflicts == {"IDENTITY_AMBIGUOUS", "IDENTITY_CONFLICT"}
InConflict(j) == j # None /\ j.status \in Conflicts

\* Only the first lookup finds an ambiguity or a conflict in the catalogue.
LEMMA StepConflict ==
    IInv /\ Move =>
        \/ InConflict(jlcpcb)' => InConflict(jlcpcb)
        \/ \E c \in ProviderCodes : FailsExact(c)
  <1> SUFFICES ASSUME TypeOK, Move, ~ \E c \in ProviderCodes : FailsExact(c)
               PROVE  InConflict(jlcpcb)' => InConflict(jlcpcb)
    BY DEF IInv
  <1> USE DEF InConflict, Conflicts, products
  <1>1. CASE SkipExact \/ SkipCad \/ SkipId \/ LacksAlias \/ LacksCad \/ PublishLcsc
             \/ AdmitPending \/ Raises
    BY <1>1 DEF SkipExact, SkipCad, SkipId, LacksAlias, AliasUnavailable, LacksCad, CadNotFound,
                PublishLcsc, AdmitPending, Raises, Raise
  <1>2. CASE \E r \in LcscRecords : FindsExact(r) \/ FindsId(r) \/ FindsAlias(r)
    BY <1>2 DEF FindsExact, ExactFound, FindsId, IdFound, FindsAlias, AliasFound, FoundJlcpcb
  <1>3. CASE LacksExact \/ LacksId
    BY <1>3 DEF LacksExact, ExactNotFound, LacksId, IdNotFound, Jlcpcb
  <1>4. CASE AttachCandidates
    <2>1. jlcpcb = None \/ jlcpcb \in Jlcpcbs
      BY DEF TypeOK, Optional
    <2>2. jlcpcb' = jlcpcb \/ (jlcpcb # None /\ jlcpcb'.status = jlcpcb.status)
      BY <1>4, <2>1 DEF AttachCandidates, Jlcpcbs
    <2> QED  BY <2>2
  <1>5. CASE \E c \in ProviderCodes : FailsCad(c) \/ FailsId(c)
    BY <1>5 DEF FailsCad, CadFails, FailsId, IdFails, Jlcpcb
  <1>6. CASE \E y \in Payloads : FindsCad(y)
    BY <1>6 DEF FindsCad, CadFound
  <1>7. CASE \E p \in Distributors :
               \/ Unresolved(p)
               \/ \E r \in PartRecords : Delivers(p, r)
               \/ \E c \in ProviderCodes : FailsDistributor(p, c)
    BY <1>7 DEF Unresolved, Delivers, Receives, FailsDistributor, DistributorFails
  <1>8. CASE \E d \in Discoveries(request.cadSource) : Discovers(d)
    BY <1>8 DEF Discovers
  <1> QED  BY <1>1, <1>2, <1>3, <1>4, <1>5, <1>6, <1>7, <1>8 DEF Move

\* Only the first lookup leads to the CAD data.
LEMMA StepEarly == Move => (stage' \in {"exact", "cad"} => stage = "exact")
  <1> SUFFICES ASSUME Move PROVE stage' \in {"exact", "cad"} => stage = "exact"
    OBVIOUS
  <1> USE DEF Goto
  <1>1. CASE SkipExact \/ SkipCad \/ SkipId \/ LacksAlias \/ LacksExact \/ LacksCad \/ LacksId
    BY <1>1 DEF SkipExact, SkipCad, SkipId, LacksAlias, AliasUnavailable, LacksExact,
                ExactNotFound, LacksCad, CadNotFound, LacksId, IdNotFound
  <1>2. CASE PublishLcsc \/ AdmitPending \/ AttachCandidates \/ Raises
    BY <1>2 DEF PublishLcsc, AdmitPending, AttachCandidates, Raises, Raise
  <1>3. CASE \E c \in ProviderCodes : FailsExact(c) \/ FailsCad(c) \/ FailsId(c)
    BY <1>3 DEF FailsExact, ExactFails, FailsCad, CadFails, FailsId, IdFails
  <1>4. CASE \E p \in Distributors :
               \/ Unresolved(p)
               \/ \E r \in PartRecords : Delivers(p, r)
               \/ \E c \in ProviderCodes : FailsDistributor(p, c)
    BY <1>4 DEF Unresolved, Delivers, Receives, FailsDistributor, DistributorFails
  <1>5. CASE \E d \in Discoveries(request.cadSource) : Discovers(d)
    BY <1>5 DEF Discovers
  <1>6. CASE \E r \in LcscRecords : FindsExact(r) \/ FindsId(r) \/ FindsAlias(r)
    BY <1>6 DEF FindsExact, ExactFound, FindsId, IdFound, FindsAlias, AliasFound
  <1>7. CASE \E y \in Payloads : FindsCad(y)
    BY <1>7 DEF FindsCad, CadFound
  <1> QED  BY <1>1, <1>2, <1>3, <1>4, <1>5, <1>6, <1>7 DEF Move

LEMMA StepBlocked == IInv /\ Blocked /\ Move => Blocked'
  <1> SUFFICES ASSUME IInv, Blocked, Move PROVE Blocked'
    OBVIOUS
  <1>0. TypeOK /\ Untouched
    BY DEF IInv, Facts
  <1>1. CASE \E c \in ProviderCodes : FailsExact(c)
    <2>1. PICK c \in ProviderCodes : FailsExact(c)
      BY <1>1
    <2>2. /\ cadIdentity' = None /\ blocking' # None /\ discovery' = discovery
          /\ stage = "exact" /\ stage' = "cad"
      BY <1>0, <2>1, NoneIsNoWord
         DEF FailsExact, ExactFails, Goto, Untouched, ErrorCodes, JlcpcbStatuses
    <2>3. errors'["easyeda"] = errors["easyeda"]
      BY <2>2, <1>0, <2>1, Sources DEF FailsExact, ExactFails, Reports, TypeOK
    <2> QED  BY <2>2, <2>3 DEF Blocked
  <1>2. CASE \E c \in ProviderCodes : FailsCad(c)
    <2>1. PICK c \in ProviderCodes : FailsCad(c)
      BY <1>2
    <2>2. /\ cadIdentity' = None /\ blocking' # None /\ discovery' = discovery
          /\ stage' = "identity" /\ jlcpcb' = jlcpcb
      BY <1>0, <2>1, NoneIsNoWord
         DEF FailsCad, CadFails, Goto, Untouched, ErrorCodes, products
    <2> QED  BY <2>2 DEF Blocked
  <1>3. CASE \E d \in Discoveries(request.cadSource) : Discovers(d)
    <2>1. PICK d \in Discoveries(request.cadSource) : Discovers(d)
      BY <1>3
    <2>2. /\ cadIdentity' = cadIdentity /\ jlcpcb' = jlcpcb /\ stage' = "resolved"
          /\ blocking' # None /\ discovery' # None
      BY <2>1 DEF Discovers, Goto, products
    <2>3. errors'["easyeda"] = errors["easyeda"]
      BY <1>0, <2>1, Sources DEF Discovers, Reports, TypeOK, Untouched
    <2> QED  BY <2>2, <2>3 DEF Blocked
  <1>4. CASE \E y \in Payloads : FindsCad(y)
    <2>1. PICK y \in Payloads : FindsCad(y)
      BY <1>4
    <2>2. /\ UNCHANGED <<blocking, discovery, errors, jlcpcb>> /\ blocking = None
          /\ stage = "cad" /\ stage' = "identity"
      BY <2>1 DEF FindsCad, CadFound, Goto, WantsCad
    <2> QED  BY <2>2 DEF Blocked
  <1>5. CASE /\ UNCHANGED <<blocking, discovery, cadIdentity>>
             /\ errors'["easyeda"] = errors["easyeda"]
             /\ InConflict(jlcpcb)' => InConflict(jlcpcb)
    <2>1. stage' \in {"exact", "cad"} => stage \in {"exact", "cad"}
      BY StepEarly
    <2> QED  BY <1>5, <2>1 DEF Blocked, InConflict, Conflicts
  <1>6. \/ cadIdentity' = cadIdentity
        \/ \E y \in Payloads : FindsCad(y)
    BY StepTrust DEF FindsExact, ExactFound, FindsId, IdFound, FindsAlias, AliasFound
  <1> QED  BY <1>1, <1>2, <1>3, <1>4, <1>5, <1>6, StepEasyedaError, StepBlocking, StepConflict

\* Before the first write nothing is written, and there is no result.
LEMMA NothingYet ==
    ASSUME RunIInv, phase \in Before \cup Searching
    PROVE  /\ library = None /\ manifest = None /\ part = None /\ registered = FALSE
           /\ result = None /\ discovery # "CAD_PACKAGE_READY"
  <1>1. library = None /\ manifest = None /\ part = None /\ registered = FALSE
    BY DEF RunIInv, Written, Effects
  <1>2. discovery # "CAD_PACKAGE_READY"
    BY <1>1, NoneIsNoWord DEF RunIInv, Written, ReadyIsInstalled
  <1>3. result = None
    BY DEF RunIInv, Answered, ResultIsLast, Before, Searching
  <1> QED  BY <1>1, <1>2, <1>3

LEMMA StepResolving == RunIInv /\ Resolving => RunIInv'
  <1> SUFFICES ASSUME RunIInv, Resolving PROVE RunIInv'
    OBVIOUS
  <1>1. /\ phase = "resolve" /\ phase' = "resolve"
        /\ UNCHANGED <<library, manifest, part, registered, result>>
    BY DEF Resolving, runVars, effects, outcome
  <1>2. IInv /\ Blocked
    BY <1>1 DEF RunIInv, Course, WhileResolving
  <1>3. IInv' /\ Blocked'
    <2>1. Move
      BY <1>2, StepMoves DEF Resolving, IInv, Facts, Untouched
    <2>2. IInv'
      BY <1>2, StepInv DEF Resolving
    <2> QED  BY <1>2, <2>1, <2>2, StepBlocked
  <1>4. Course'
    <2>1. WhileResolving'
      BY <1>3 DEF WhileResolving
    <2>2. WhileVerifying' /\ WhileSearching' /\ CadIsTrusted' /\ LockIsLocal'
      BY <1>1 DEF WhileVerifying, WhileSearching, CadIsTrusted, LockIsLocal, Searching
    <2>3. ErrorsAreOfSources' /\ JlcpcbIsExact'
      BY <1>3 DEF ErrorsAreOfSources, JlcpcbIsExact, IInv, TypeOK, Properties,
                  EvidenceIsOfOnePart
    <2> QED  BY <2>1, <2>2, <2>3 DEF Course
  <1>5. Written'
    <2>1. discovery' # "CAD_PACKAGE_READY"
      BY <1>3, NoneIsNoWord
         DEF IInv, TypeOK, Optional, DiscoveryStatuses, PackageStatuses
    <2> QED  BY <1>1, <2>1, NothingYet, NothingIsWritten DEF Before, Writing
  <1>6. Answered'
    BY <1>1, NothingYet, NoResult DEF Answered, CoreIsComplete, Before
  <1> QED  BY <1>4, <1>5, <1>6 DEF RunIInv

LEMMA StepBegin == RunIInv /\ Begin => RunIInv'
  <1> SUFFICES ASSUME RunIInv, Begin PROVE RunIInv'
    OBVIOUS
  <1>1. /\ phase = "resolve" /\ UNCHANGED resolution
        /\ UNCHANGED <<library, manifest, part, registered, result>>
    BY DEF Begin, effects
  <1>2. UNCHANGED <<request, stage, id, lcsc, cad, cadIdentity, jlcpcb, errors, blocking, discovery>>
    BY <1>1 DEF resolution, identity, products
  <1>3. IInv /\ Blocked
    BY <1>1 DEF RunIInv, Course, WhileResolving
  <1>4. \/ phase' = "verify" /\ stage = "resolved"
        \/ phase' = "answer" /\ core' = 1
    BY DEF Begin, Enter, Return
  <1>5. options'.locked => options'.candidates
    BY DEF Begin, Accepted
  <1>6. Course'
    <2>1. WhileResolving' /\ WhileSearching' /\ LockIsLocal'
      BY <1>4, <1>5 DEF WhileResolving, WhileSearching, Searching, LockIsLocal
    <2>2. WhileVerifying'
      BY <1>2, <1>3 DEF WhileVerifying, IInv, TypeOK, Blocked
    <2>3. CadIsTrusted'
      <3> SUFFICES ASSUME phase' = "verify", cadIdentity # None PROVE WhatIsProved
        BY <1>2, <1>4 DEF CadIsTrusted, WhatIsProved, Searching
      <3>1. request.mpn # None => \/ cadIdentity.mpn = request.mpn
                                  \/ lcsc # None /\ lcsc.mpn = request.mpn
        BY <1>3, <1>4 DEF IInv, Properties, CadIsProved, LookupStages
      <3>2. jlcpcb # None => jlcpcb.status \in JlcpcbStatuses
        BY <1>3 DEF IInv, TypeOK, Optional, Jlcpcbs
      <3> QED  BY <1>3, <3>1, <3>2 DEF WhatIsProved, Blocked, JlcpcbStatuses
    <2>4. ErrorsAreOfSources' /\ JlcpcbIsExact'
      BY <1>2, <1>3 DEF ErrorsAreOfSources, JlcpcbIsExact, IInv, TypeOK, Properties,
                        EvidenceIsOfOnePart
    <2> QED  BY <2>1, <2>2, <2>3, <2>4 DEF Course
  <1>7. Written'
    BY <1>1, <1>2, <1>4, NothingYet, NothingIsWritten DEF Before, Writing
  <1>8. Answered'
    BY <1>1, <1>4, NothingYet, NoResult DEF Answered, CoreIsComplete, Before
  <1> QED  BY <1>6, <1>7, <1>8 DEF RunIInv

-----------------------------------------------------------------------------
(* The verification and the search.                                        *)

\* A verification with a code of its own is not VERIFIED.
LEMMA ChecksAreTyped ==
    ASSUME cad \in {None, "PARTIAL", "CAD_NOT_FOUND"}, NEW c \in Checks
    PROVE  /\ c.status \in Statuses
           /\ c.status = "VERIFIED" =>
                cadIdentity # None /\ c.found = Wanted /\ c.source = None /\ c.code = None
           /\ c.code # None => c.code \in {"INVALID_RESPONSE", "CAD_PIN_PAD_MISMATCH"}
  <1>1. CASE cadIdentity = None
    BY <1>1 DEF Checks, Check, Statuses
  <1>2. CASE cadIdentity # None
    <2>1. \/ c = Check("VERIFIED", Wanted, None, None)
          \/ \E a \in Wanted : c = Check("PARTIAL", IF a = "symbol" THEN {} ELSE Wanted \ {a},
                                         "easyeda", "INVALID_RESPONSE")
          \/ \E S \in SUBSET Wanted :
               c = Check("PARTIAL", Wanted \ S, "cad_verification", "INVALID_RESPONSE")
          \/ c = Check("CAD_PIN_PAD_MISMATCH", Wanted, "cad_verification",
                       "CAD_PIN_PAD_MISMATCH")
      BY <1>2 DEF Checks
    <2> QED  BY <1>2, <2>1 DEF Check, Statuses
  <1> QED  BY <1>1, <1>2

LEMMA StepVerify == RunIInv /\ Verify => RunIInv'
  <1> SUFFICES ASSUME RunIInv, Verify PROVE RunIInv'
    OBVIOUS
  <1>1. /\ phase = "verify" /\ phase' = "source"
        /\ UNCHANGED <<library, manifest, part, registered, result, discovery, options,
                       request, id, lcsc, jlcpcb, cadIdentity>>
    BY DEF Verify, Enter, effects, identity
  <1>2. PICK c \in Checks :
          /\ verification' = c.status /\ parsed' = c.found
          /\ cad' = IF cad = None THEN None ELSE c.status
          /\ blocking' = IF c.code = None THEN blocking ELSE c.code
          /\ errors' = IF c.source = "easyeda"
                       THEN [errors EXCEPT !["easyeda"] = c.code] ELSE errors
    BY DEF Verify
  <1>3. /\ cad \in {None, "PARTIAL", "CAD_NOT_FOUND"}
        /\ cadIdentity # None => errors["easyeda"] = None
        /\ blocking # None /\ discovery = None => cadIdentity = None
        /\ discovery # None => blocking # None
    BY <1>1 DEF RunIInv, Course, WhileVerifying
  <1>4. /\ c.status \in Statuses
        /\ c.status = "VERIFIED" =>
             cadIdentity # None /\ c.found = Wanted /\ c.source = None /\ c.code = None
        /\ c.code # None => c.code \in {"INVALID_RESPONSE", "CAD_PIN_PAD_MISMATCH"}
    BY <1>3, ChecksAreTyped
  <1>5. Course'
    <2>1. WhileResolving' /\ WhileVerifying'
      BY <1>1 DEF WhileResolving, WhileVerifying
    <2>2. WhileSearching'
      <3>1. verification' \in Statuses /\ cad' \in Optional(Statuses)
        BY <1>2, <1>4 DEF Optional
      <3>2. verification' = "VERIFIED" =>
              /\ cadIdentity # None /\ parsed' = Wanted /\ errors' = errors
              /\ blocking' = blocking /\ errors["easyeda"] = None
        BY <1>2, <1>3, <1>4, NoneIsNoWord
      <3>3. cad' = "VERIFIED" => verification' = "VERIFIED"
        BY <1>2, NoneIsNoWord DEF Statuses
      <3>4. discovery' # None => blocking' # None
        BY <1>1, <1>2, <1>3
      <3>5. Wanted' = Wanted
        BY <1>1 DEF Wanted
      <3> QED  BY <1>1, <1>3, <3>1, <3>2, <3>3, <3>4, <3>5 DEF WhileSearching
    <2>3. CadIsTrusted' /\ LockIsLocal' /\ JlcpcbIsExact'
      BY <1>1 DEF CadIsTrusted, WhatIsProved, LockIsLocal, JlcpcbIsExact, RunIInv, Course,
                  Searching
    <2>4. ErrorsAreOfSources'
      BY <1>2 DEF ErrorsAreOfSources, RunIInv, Course
    <2> QED  BY <2>1, <2>2, <2>3, <2>4 DEF Course
  <1>6. Written'
    BY <1>1, NothingYet, NothingIsWritten DEF Before, Writing
  <1>7. Answered'
    BY <1>1, NothingYet, NoResult DEF Answered, CoreIsComplete, Before
  <1> QED  BY <1>5, <1>6, <1>7 DEF RunIInv

LEMMA StepChooseSource == RunIInv /\ ChooseSource => RunIInv'
  <1> SUFFICES ASSUME RunIInv, ChooseSource PROVE RunIInv'
    OBVIOUS
  <1>1. /\ phase = "source" /\ phase' \in {"export", "select", "digikey"}
        /\ options.locked => phase' = "select" \/ ~options.candidates
    BY DEF ChooseSource, Enter
  <1>2. /\ UNCHANGED <<library, manifest, part, registered, result, discovery, options>>
        /\ UNCHANGED <<request, id, lcsc, jlcpcb, cad, cadIdentity, errors, blocking>>
        /\ UNCHANGED <<verification, parsed>>
    BY DEF ChooseSource, effects, verdict, resolution, identity, products
  <1>3. options.locked => phase' = "select"
    BY <1>1 DEF RunIInv, Course, LockIsLocal, Searching
  <1>4. Course'
    <2>1. WhileResolving' /\ WhileVerifying'
      BY <1>1 DEF WhileResolving, WhileVerifying
    <2>2. WhileSearching'
      BY <1>1, <1>2, <1>3 DEF WhileSearching, Wanted, RunIInv, Course, Searching
    <2>3. CadIsTrusted' /\ LockIsLocal' /\ JlcpcbIsExact' /\ ErrorsAreOfSources'
      BY <1>1, <1>2 DEF CadIsTrusted, WhatIsProved, LockIsLocal, JlcpcbIsExact,
                        ErrorsAreOfSources, RunIInv, Course, Searching
    <2> QED  BY <2>1, <2>2, <2>3 DEF Course
  <1>5. Written'
    BY <1>1, <1>2, NothingYet, NothingIsWritten DEF Searching, Writing
  <1>6. Answered'
    BY <1>1, <1>2, NothingYet, NoResult DEF Answered, CoreIsComplete, Searching
  <1> QED  BY <1>4, <1>5, <1>6 DEF RunIInv

LEMMA StepTryHandoff ==
    ASSUME RunIInv, NEW p \in Distributors, TryHandoff(p)
    PROVE  RunIInv'
  <1>1. /\ phase \in {"digikey", "mouser"}
        /\ UNCHANGED <<library, manifest, part, registered, options>>
        /\ UNCHANGED <<request, id, lcsc, jlcpcb, cad, cadIdentity>>
        /\ UNCHANGED <<verification, parsed>>
    BY DEF TryHandoff, Distributors, effects, verdict, identity, products
  <1>2. /\ errors'["easyeda"] = errors["easyeda"]
        /\ DOMAIN errors' = DOMAIN errors
    <2>1. p # "easyeda"
      BY DEF Distributors
    <2>2. errors' = errors \/ \E c : errors' = [errors EXCEPT ![p] = c]
      BY DEF TryHandoff
    <2> QED  BY <2>1, <2>2 DEF RunIInv, Course, ErrorsAreOfSources
  <1>3. \/ Crash
        \/ phase' = "mouser" /\ UNCHANGED <<discovery, blocking, result>>
        \/ \E s \in {"CAD_MANUAL_DOWNLOAD_REQUIRED", "CAD_AUTH_REQUIRED",
                     "CAD_DOWNLOAD_UNAVAILABLE"} : Adopt(s)
    BY DEF TryHandoff, Enter, Fallback
  <1>4. CASE Crash
    <2>1. /\ phase' = "ended" /\ UNCHANGED <<discovery, blocking>>
          /\ result' = [exit |-> 70, errors |-> {"INTERNAL_ERROR"}, actions |-> {}]
      BY <1>4 DEF Crash
    <2>2. Course'
      <3>1. WhileResolving' /\ WhileVerifying' /\ WhileSearching'
        BY <2>1 DEF WhileResolving, WhileVerifying, WhileSearching, Searching
      <3>2. CadIsTrusted' /\ LockIsLocal'
        BY <2>1 DEF CadIsTrusted, LockIsLocal, Searching
      <3>3. ErrorsAreOfSources' /\ JlcpcbIsExact'
        BY <1>1, <1>2 DEF RunIInv, Course, ErrorsAreOfSources, JlcpcbIsExact
      <3> QED  BY <3>1, <3>2, <3>3 DEF Course
    <2>3. Written'
      BY <1>1, <2>1, NothingYet, NothingIsWritten DEF Searching, Writing
    <2>4. Answered'
      BY <2>1, InternalFailure DEF Answered
    <2> QED  BY <2>2, <2>3, <2>4 DEF RunIInv
  <1>5. CASE ~Crash
    <2>1. /\ phase' \in {"mouser", "export"} /\ result' = result
          /\ \/ UNCHANGED <<discovery, blocking>>
             \/ /\ discovery' \in {"CAD_MANUAL_DOWNLOAD_REQUIRED", "CAD_AUTH_REQUIRED",
                                   "CAD_DOWNLOAD_UNAVAILABLE"}
                /\ blocking' = discovery'
      BY <1>3, <1>5 DEF Adopt, Blocks, Enter
    <2>2. discovery' # "CAD_PACKAGE_READY"
      BY <1>1, <2>1, NothingYet DEF Searching
    <2>3. WhileSearching'
      <3>1. WhileSearching /\ phase \in Searching /\ Wanted' = Wanted
        BY <1>1 DEF RunIInv, Course, Searching, Wanted
      <3>2. \/ UNCHANGED <<discovery, blocking>>
            \/ discovery' # None /\ blocking' # None
        BY <2>1, NoneIsNoWord DEF DiscoveryStatuses
      <3> QED  BY <1>1, <1>2, <2>1, <3>1, <3>2 DEF WhileSearching
    <2>4. Course'
      <3>1. WhileResolving' /\ WhileVerifying'
        BY <2>1 DEF WhileResolving, WhileVerifying
      <3>2. CadIsTrusted' /\ LockIsLocal' /\ JlcpcbIsExact' /\ ErrorsAreOfSources'
        BY <1>1, <1>2, <2>1 DEF CadIsTrusted, WhatIsProved, LockIsLocal, JlcpcbIsExact,
                                ErrorsAreOfSources, RunIInv, Course, Searching
      <3> QED  BY <2>3, <3>1, <3>2 DEF Course
    <2>5. Written'
      BY <1>1, <2>1, <2>2, NothingYet, NothingIsWritten DEF Searching, Writing
    <2>6. Answered'
      BY <1>1, <2>1, NothingYet, NoResult DEF Answered, CoreIsComplete, Searching
    <2> QED  BY <2>4, <2>5, <2>6 DEF RunIInv
  <1> QED  BY <1>4, <1>5

-----------------------------------------------------------------------------
(* The export.                                                             *)

\* What is still open when a step goes on to the registration.
LEMMA RegisterNext ==
    ASSUME RunIInv, phase \in Before \cup Searching, phase' = "register",
           UNCHANGED <<registered, manifest, result, jlcpcb, id, errors>>,
           library' \in {None, "easyeda", "package"}, part' \in Parts,
           library' = "package" => blocking' = None,
           ReadyIsInstalled', PartIsHonest', ExportIsProved'
    PROVE  RunIInv'
  <1>1. manifest = None /\ registered = FALSE /\ result = None
    BY NothingYet
  <1>2. Course'
    BY CourseIsOver DEF RunIInv, After, Writing
  <1>3. Effects'
    BY <1>1 DEF Effects, Before, Searching, Writing
  <1>4. Written'
    BY <1>1, <1>3, NoneIsNoWord DEF Written, ManifestIsHonest, Statuses
  <1>5. Answered'
    BY <1>1, NoResult DEF Answered, CoreIsComplete
  <1> QED  BY <1>2, <1>4, <1>5 DEF RunIInv

LEMMA StepSkipExport == RunIInv /\ SkipExport => RunIInv'
  <1> SUFFICES ASSUME RunIInv, SkipExport PROVE RunIInv'
    OBVIOUS
  <1>1. /\ phase = "export" /\ phase' = "register" /\ ~CanExport
        /\ part' = Merged(verification)
        /\ UNCHANGED <<library, registered, manifest, result, jlcpcb, id, errors, blocking,
                       discovery>>
    BY DEF SkipExport, Enter, effects, resolution, identity, products
  <1>2. WhileSearching /\ phase \in Searching /\ library = None /\ discovery # "CAD_PACKAGE_READY"
    BY <1>1, NothingYet DEF RunIInv, Course, Searching
  <1>3. /\ part'.cad = cad
        /\ part'.status = "VERIFIED" => verification = "VERIFIED"
        /\ part' \in Parts
    <2>1. part'.cad = cad /\ (part'.status = "VERIFIED" => verification = "VERIFIED")
      BY <1>1 DEF Merged
    <2>2. (IF verification = "VERIFIED" /\ mpn # None /\ AnyError
           THEN "PARTIAL" ELSE verification) \in Statuses
      BY <1>2 DEF WhileSearching, Statuses
    <2> QED  BY <1>1, <1>2, <2>1, <2>2, PartTyped DEF WhileSearching, Merged
  <1>4. verification = "VERIFIED" => blocking # None /\ discovery # None
    BY <1>1, <1>2 DEF CanExport, WhileSearching
  <1>5. PartIsHonest'
    BY <1>1, <1>2, <1>3, <1>4 DEF PartIsHonest, WhileSearching
  <1>6. ReadyIsInstalled' /\ ExportIsProved'
    BY <1>1, <1>2, NoneIsNoWord DEF ReadyIsInstalled, ExportIsProved
  <1> QED  BY <1>1, <1>2, <1>3, <1>5, <1>6, RegisterNext, NoneIsNoWord

LEMMA StepExport == RunIInv /\ Export => RunIInv'
  <1> SUFFICES ASSUME RunIInv, Export PROVE RunIInv'
    OBVIOUS
  <1>1. /\ phase = "export" /\ phase' = "register" /\ CanExport
        /\ part' = Merged("VERIFIED") /\ library' = "easyeda"
        /\ UNCHANGED <<registered, manifest, result, jlcpcb, id, errors, blocking, discovery>>
        /\ UNCHANGED <<request, lcsc, cad, cadIdentity, options, verification, parsed>>
    BY DEF Export, Enter, resolution, identity, products, verdict
  <1>2. /\ WhileSearching /\ CadIsTrusted
        /\ phase \in Searching /\ discovery # "CAD_PACKAGE_READY"
    BY <1>1, NothingYet DEF RunIInv, Course, Searching
  <1>3. part' \in Parts
    <2>1. (IF "VERIFIED" = "VERIFIED" /\ mpn # None /\ AnyError
           THEN "PARTIAL" ELSE "VERIFIED") \in Statuses
      BY DEF Statuses
    <2> QED  BY <1>1, <1>2, <2>1, PartTyped DEF WhileSearching, Merged
  <1>4. /\ verification = "VERIFIED" /\ parsed = Wanted /\ cadIdentity # None
        /\ errors["easyeda"] = None /\ blocking = None /\ discovery = None
        /\ ~options.locked /\ WhatIsProved
    BY <1>1, <1>2 DEF CanExport, WhileSearching, CadIsTrusted
  <1>5. ExportIsProved'
    BY <1>1, <1>4 DEF ExportIsProved, WhatIsProved, Wanted
  <1>6. PartIsHonest' /\ ReadyIsInstalled'
    BY <1>1, <1>2 DEF PartIsHonest, ReadyIsInstalled
  <1> QED  BY <1>1, <1>2, <1>3, <1>5, <1>6, RegisterNext

LEMMA StepExportFails ==
    ASSUME RunIInv, NEW note, NEW c \in {"DATASHEET_UNAVAILABLE", "EXPORT_FAILED"}, NEW m,
           ExportFails(note, c, m)
    PROVE  RunIInv'
  <1>1. /\ phase = "export" /\ phase' = "register"
        /\ part' = [status |-> "PARTIAL", cad |-> cad] /\ blocking' = c
        /\ UNCHANGED <<library, registered, manifest, result, jlcpcb, id, errors, discovery>>
    BY DEF ExportFails, Enter, Blocks, effects, identity, products
  <1>2. /\ WhileSearching /\ phase \in Searching /\ library = None
        /\ discovery # "CAD_PACKAGE_READY" /\ blocking' # None
    BY <1>1, NothingYet, NoneIsNoWord DEF RunIInv, Course, Searching
  <1>3. part' \in Parts
    BY <1>1, <1>2, PartTyped DEF WhileSearching, Statuses
  <1>4. PartIsHonest' /\ ReadyIsInstalled' /\ ExportIsProved'
    BY <1>1, <1>2, NoneIsNoWord DEF PartIsHonest, ReadyIsInstalled, ExportIsProved
  <1> QED  BY <1>1, <1>2, <1>3, <1>4, RegisterNext, NoneIsNoWord

-----------------------------------------------------------------------------
(* Local packages.                                                         *)

\* A run that fails before anything is written.
LEMMA FailsUnwritten ==
    ASSUME RunIInv, phase \in Before \cup Searching, phase' = "answer", core' = 1,
           UNCHANGED <<library, registered, result, jlcpcb, id, errors>>,
           discovery' # "CAD_PACKAGE_READY",
           manifest' # "VERIFIED",
           part' = None \/ part' = [status |-> "PARTIAL", cad |-> None]
    PROVE  RunIInv'
  <1>1. library = None /\ registered = FALSE /\ result = None
    BY NothingYet
  <1>2. Course'
    BY CourseIsOver DEF RunIInv, After
  <1>3. Effects' /\ ReadyIsInstalled' /\ ManifestIsHonest' /\ ExportIsProved'
    BY <1>1, NoneIsNoWord DEF Effects, ReadyIsInstalled, ManifestIsHonest, ExportIsProved,
                              Before, Searching, Writing
  <1>4. PartIsHonest'
    BY NoneIsNoWord DEF PartIsHonest, Statuses
  <1>5. Answered'
    BY <1>1, NoResult DEF Answered, CoreIsComplete
  <1> QED  BY <1>2, <1>3, <1>4, <1>5 DEF RunIInv, Written

LEMMA StepInstalls ==
    ASSUME RunIInv, phase \in Before \cup Searching,
           UNCHANGED <<registered, manifest, result, jlcpcb, id, errors>>,
           NEW s \in PackageStatuses, Installs(s)
    PROVE  RunIInv'
  <1>1. /\ phase' = "register" /\ library' = "package" /\ blocking' = None
        /\ part' = [status |-> "PARTIAL", cad |-> "PARTIAL"]
    BY DEF Installs, Enter
  <1>2. part' \in Parts
    BY <1>1, PartTyped DEF Statuses, Optional
  <1>3. PartIsHonest' /\ ReadyIsInstalled' /\ ExportIsProved'
    BY <1>1 DEF PartIsHonest, ReadyIsInstalled, ExportIsProved
  <1> QED  BY <1>1, <1>2, <1>3, RegisterNext

LEMMA StepPackageFails ==
    ASSUME RunIInv, phase \in Before \cup Searching,
           UNCHANGED <<registered, manifest, result, jlcpcb, id, errors>>,
           NEW c, PackageFails(c)
    PROVE  RunIInv'
  <1>1. /\ phase' = "answer" /\ core' = 1 /\ UNCHANGED <<library, discovery, part>>
    BY DEF PackageFails, Return
  <1>2. part = None /\ manifest = None /\ discovery # "CAD_PACKAGE_READY"
    BY NothingYet
  <1> QED  BY <1>1, <1>2, FailsUnwritten, NoneIsNoWord DEF Statuses

LEMMA StepImportPackage == RunIInv /\ ImportPackage => RunIInv'
  <1> SUFFICES ASSUME RunIInv, ImportPackage PROVE RunIInv'
    OBVIOUS
  <1>1. /\ phase \in Before \cup Searching
        /\ UNCHANGED <<registered, manifest, result, jlcpcb, id, errors>>
        /\ \/ \E s \in PackageStatuses : Installs(s)
           \/ PackageFails("CAD_PACKAGE_INVALID")
    BY DEF ImportPackage, Before, identity
  <1> QED  BY <1>1, StepInstalls, StepPackageFails

LEMMA StepSelectPackage == RunIInv /\ SelectPackage => RunIInv'
  <1> SUFFICES ASSUME RunIInv, SelectPackage PROVE RunIInv'
    OBVIOUS
  <1>1. /\ phase \in Before \cup Searching
        /\ UNCHANGED <<registered, manifest, result, jlcpcb, id, errors>>
        /\ \/ \E s \in PackageStatuses : Installs(s)
           \/ PackageFails("CAD_PACKAGE_INVALID")
    BY DEF SelectPackage, Searching, identity
  <1> QED  BY <1>1, StepInstalls, StepPackageFails

LEMMA StepSelectionConflict ==
    ASSUME RunIInv, NEW c \in LockCodes, SelectionConflict(c)
    PROVE  RunIInv'
  <1>1. /\ phase \in Before \cup Searching /\ phase' = "answer" /\ core' = 1
        /\ UNCHANGED <<library, registered, result, jlcpcb, id, errors>>
        /\ discovery' = c /\ part' = [status |-> "PARTIAL", cad |-> None]
        /\ manifest' = manifest \/ manifest' \in {"PARTIAL", None}
    BY DEF SelectionConflict, Searching, Return, identity
  <1>2. manifest = None
    BY <1>1, NothingYet
  <1>3. manifest' # "VERIFIED" /\ discovery' # "CAD_PACKAGE_READY"
    BY <1>1, <1>2, NoneIsNoWord DEF Statuses, LockCodes
  <1> QED  BY <1>1, <1>3, FailsUnwritten

-----------------------------------------------------------------------------
(* Registration, manifests and answers.                                    *)

\* What the end of a run leaves alone.
LEMMA NothingIsTaken ==
    ASSUME RunIInv, phase' \in After,
           UNCHANGED <<resolution, options, verdict, library, part>>
    PROVE  Course' /\ ReadyIsInstalled' /\ PartIsHonest' /\ ExportIsProved'
  <1>1. UNCHANGED <<request, id, lcsc, cad, cadIdentity, jlcpcb, errors, blocking, discovery,
                    verification, parsed>>
    BY DEF resolution, identity, products, verdict
  <1>2. Course'
    BY <1>1, CourseIsOver DEF RunIInv
  <1>3. ReadyIsInstalled' /\ PartIsHonest'
    BY <1>1 DEF RunIInv, Written, ReadyIsInstalled, PartIsHonest
  <1>4. ExportIsProved'
    BY <1>1 DEF RunIInv, Written, ExportIsProved, Wanted
  <1> QED  BY <1>2, <1>3, <1>4

LEMMA StepRegister == RunIInv /\ Register => RunIInv'
  <1> SUFFICES ASSUME RunIInv, Register PROVE RunIInv'
    OBVIOUS
  <1>1. /\ phase = "register"
        /\ UNCHANGED <<resolution, options, verdict, library, manifest, part, result>>
        /\ blocking' = blocking /\ discovery' = discovery
    BY DEF Register, resolution
  <1>2. \/ /\ phase' = "report" /\ registered' \in BOOLEAN
           /\ library = "package" /\ options.register => registered'
        \/ phase' = "answer" /\ core' = 1 /\ registered' = FALSE
    <2>1. CASE ~options.register \/ library = None
      BY <2>1, NoneIsNoWord DEF Register, Enter, RunIInv, Written, Effects
    <2>2. CASE ~(~options.register \/ library = None)
      BY <2>2 DEF Register, Registered, Enter, Return
    <2> QED  BY <2>1, <2>2
  <1>3. /\ manifest = None /\ result = None /\ part \in Parts
        /\ library \in {None, "easyeda", "package"}
        /\ library = "package" => blocking = None
    BY <1>1 DEF RunIInv, Written, Effects, Writing, Answered, ResultIsLast
  <1>4. phase' \in After
    BY <1>2 DEF After, Writing
  <1>5. Effects'
    BY <1>1, <1>2, <1>3 DEF Effects, Before, Searching, Writing
  <1>6. Written'
    BY <1>1, <1>3, <1>4, <1>5, NothingIsTaken, NoneIsNoWord DEF Written, ManifestIsHonest, Statuses
  <1>7. Answered'
    BY <1>1, <1>2, <1>3, NoResult DEF Answered, CoreIsComplete
  <1> QED  BY <1>1, <1>4, <1>6, <1>7, NothingIsTaken DEF RunIInv

LEMMA StepReport == RunIInv /\ Report => RunIInv'
  <1> SUFFICES ASSUME RunIInv, Report PROVE RunIInv'
    OBVIOUS
  <1>1. /\ phase = "report" /\ phase' = "answer"
        /\ UNCHANGED <<resolution, options, verdict, library, registered, part, result>>
        /\ UNCHANGED <<blocking, discovery>>
    BY DEF Report, Return, resolution
  <1>2. /\ manifest = None /\ result = None /\ part \in Parts
        /\ library \in {None, "easyeda", "package"} /\ registered \in BOOLEAN
        /\ library = "package" => blocking = None
        /\ library = "package" /\ options.register => registered
    BY <1>1 DEF RunIInv, Written, Effects, Writing, Answered, ResultIsLast
  <1>3. part # None /\ part.status # None
    BY <1>2, NoneIsNoWord DEF Parts
  <1>4. \/ manifest' = IF options.manifest THEN part.status ELSE None
        \/ manifest' = None
    BY <1>2 DEF Report
  <1>5. Written'
    <2>1. Effects'
      BY <1>1, <1>2 DEF Effects, Before, Searching, Writing
    <2>2. ManifestIsHonest'
      BY <1>1, <1>3, <1>4, NoneIsNoWord
         DEF ManifestIsHonest, RunIInv, Written, PartIsHonest, Statuses
    <2> QED  BY <1>1, <2>1, <2>2, NothingIsTaken DEF Written, After
  <1>6. CoreIsComplete'
    <2> SUFFICES ASSUME core' = 0
                 PROVE  /\ options.register => registered
                        /\ options.manifest => manifest' # None
                        /\ blocking = None
      BY <1>1 DEF CoreIsComplete
    <2>1. \/ /\ manifest' = IF options.manifest THEN part.status ELSE None
             /\ core' = ExitCode(TRUE)
          \/ core' = ExitCode(FALSE)
      BY DEF Report, Return
    <2>2. /\ manifest' = IF options.manifest THEN part.status ELSE None
          /\ library # "package" => (options.register => registered) /\ blocking = None
      BY <2>1 DEF ExitCode
    <2> QED  BY <1>2, <1>3, <2>2
  <1>7. Answered'
    BY <1>1, <1>2, <1>6, NoResult DEF Answered
  <1> QED  BY <1>1, <1>5, <1>7, NothingIsTaken DEF RunIInv, After

\* A manual action is one of the codes that ask for it.
LEMMA ExitIsKnown ==
    ASSUME NEW c, NEW p
    PROVE  /\ ExitFor(c, p) \in {70, 5, 7, 8, 6, 4, 3}
           /\ ExitFor(c, p) = 3 => c \in ActionCodes
  BY DEF ExitFor

LEMMA FailuresAreTyped ==
    /\ \A f \in RequiredFailures \cup ExecutionFailures :
         /\ f.exit \in {70, 5, 7, 8, 6, 4, 3}
         /\ f.exit = 3 => f.code \in ActionCodes
    /\ core # 0 => RequiredFailures \cup ExecutionFailures # {}
  <1>1. \A f \in RequiredFailures : \E c, p : f = Failure(c, p)
    BY DEF RequiredFailures
  <1>2. \A f \in ExecutionFailures :
          f = [exit |-> 70, code |-> "INTERNAL_ERROR"] \/ \E c : f = Failure(c, None)
    BY DEF ExecutionFailures
  <1>3. core # 0 => RequiredFailures # {} \/ ExecutionFailures # {}
    BY DEF ExecutionFailures
  <1>4. \A c, p : Failure(c, p).exit = ExitFor(c, p) /\ Failure(c, p).code = c
    BY DEF Failure
  <1> QED  BY <1>1, <1>2, <1>3, <1>4, ExitIsKnown

\* The exit code is that of some failure, and 3 only when every failure is a
\* manual action.
LEMMA SelectExitIsSound ==
    ASSUME NEW F, \A f \in F : f.exit \in {70, 5, 7, 8, 6, 4, 3}
    PROVE  /\ F = {} => SelectExit(F) = 0
           /\ F # {} => \E f \in F : f.exit = SelectExit(F)
           /\ F # {} /\ SelectExit(F) = 3 => \A f \in F : f.exit = 3
  <1>1. CASE F = {}
    BY <1>1 DEF SelectExit
  <1>2. CASE F # {}
    <2> DEFINE Least(i) == /\ \E f \in F : f.exit = Severity[i]
                           /\ \A j \in 1 .. (i - 1) : \A f \in F : f.exit # Severity[j]
               least == CHOOSE i \in DOMAIN Severity : Least(i)
    <2>1. /\ DOMAIN Severity = 1 .. 7
          /\ Severity[1] = 70 /\ Severity[2] = 5 /\ Severity[3] = 7 /\ Severity[4] = 8
          /\ Severity[5] = 6 /\ Severity[6] = 4 /\ Severity[7] = 3
      BY DEF Severity
    <2>2. \E i \in 1 .. 7 : Least(i)
      <3> DEFINE Has(i) == \E f \in F : f.exit = Severity[i]
      <3>1. Has(1) \/ Has(2) \/ Has(3) \/ Has(4) \/ Has(5) \/ Has(6) \/ Has(7)
        BY <1>2, <2>1
      <3>2. \E i \in 1 .. 7 : Has(i) /\ \A j \in 1 .. (i - 1) : ~Has(j)
        <4> HIDE DEF Has
        <4> QED  BY <3>1
      <3> QED  BY <3>2
    <2>3. least \in 1 .. 7 /\ Least(least) /\ SelectExit(F) = Severity[least]
      <3>1. SelectExit(F) = Severity[least]
        BY <1>2 DEF SelectExit
      <3>2. least \in DOMAIN Severity /\ Least(least)
        <4> HIDE DEF Least
        <4> QED  BY <2>1, <2>2
      <3> QED  BY <2>1, <3>1, <3>2
    <2> HIDE DEF least
    <2>4. SelectExit(F) = 3 => least = 7
      <3>1. least \in {1, 2, 3, 4, 5, 6, 7}
        BY <2>3
      <3>2. \A i \in {1, 2, 3, 4, 5, 6, 7} : Severity[i] = 3 => i = 7
        BY <2>1
      <3> QED  BY <2>3, <3>1, <3>2
    <2>5. SelectExit(F) = 3 => \A f \in F : f.exit = 3
      BY <2>1, <2>3, <2>4
    <2> QED  BY <1>2, <2>3, <2>5
  <1> QED  BY <1>1, <1>2

\* Exit code 0 leaves nothing that was required undone.
LEMMA NoFailureIsSuccess ==
    ASSUME RunIInv, phase = "answer", RequiredFailures = {}, core = 0
    PROVE  /\ \A p \in options.required : records[p] # None
           /\ options.register => registered
           /\ options.manifest => manifest # None
           /\ options.requireCad => library # None
           /\ options.requireJlcpcb => jlcpcb # None /\ jlcpcb.part = id
           /\ blocking = None
  <1>1. /\ options.register => registered
        /\ options.manifest => manifest # None
        /\ blocking = None
    BY DEF RunIInv, Answered, CoreIsComplete
  <1>2. \A p \in options.required : records[p] # None
    BY DEF RequiredFailures, Absent
  <1>3. ~CadUnsatisfied /\ (options.requireJlcpcb => JlcpcbStatus = "PART_FOUND")
    BY DEF RequiredFailures
  <1>4. options.requireJlcpcb => jlcpcb # None /\ jlcpcb.part = id
    BY <1>3, NoneIsNoWord
       DEF JlcpcbStatus, JlcpcbStatuses, RunIInv, Course, JlcpcbIsExact
  <1>5. options.requireCad => library # None
    <2> SUFFICES ASSUME options.requireCad PROVE library # None
      OBVIOUS
    <2>1. part # None /\ (part.cad = "VERIFIED" \/ discovery = "CAD_PACKAGE_READY")
      BY <1>3 DEF CadUnsatisfied
    <2> QED  BY <1>1, <2>1, NoneIsNoWord
             DEF RunIInv, Written, PartIsHonest, ReadyIsInstalled
  <1> QED  BY <1>1, <1>2, <1>4, <1>5

LEMMA StepAnswer == RunIInv /\ Answer => RunIInv'
  <1> SUFFICES ASSUME RunIInv, Answer PROVE RunIInv'
    OBVIOUS
  <1> DEFINE failures == RequiredFailures \cup ExecutionFailures
  <1>1. /\ phase = "answer" /\ phase' = "ended"
        /\ UNCHANGED <<resolution, options, verdict, library, registered, manifest, part, core>>
        /\ UNCHANGED <<blocking, discovery, id, jlcpcb, records>>
    BY DEF Answer, effects, resolution, identity, products
  <1>2. /\ result'.exit = SelectExit(failures)
        /\ result'.errors = {f.code : f \in {g \in failures : g.exit # 3}}
        /\ {f.code : f \in failures} \cap ActionCodes \subseteq result'.actions
    BY DEF Answer
  <1>3. /\ \A f \in failures : /\ f.exit \in {70, 5, 7, 8, 6, 4, 3}
                               /\ f.exit = 3 => f.code \in ActionCodes
        /\ core # 0 => failures # {}
    BY FailuresAreTyped
  <1>4. /\ failures = {} => result'.exit = 0
        /\ failures # {} => \E f \in failures : f.exit = result'.exit
        /\ failures # {} /\ result'.exit = 3 => \A f \in failures : f.exit = 3
    <2> HIDE DEF failures
    <2> QED  BY <1>2, <1>3, SelectExitIsSound
  <1>5. result'.exit = 0 => failures = {} /\ core = 0
    BY <1>3, <1>4
  <1>6. SuccessIsComplete'
    <2> SUFFICES ASSUME result'.exit = 0 PROVE SuccessIsComplete'
      BY DEF SuccessIsComplete
    <2>1. RequiredFailures = {} /\ core = 0
      BY <1>5
    <2> QED  BY <1>1, <2>1, NoFailureIsSuccess DEF SuccessIsComplete
  <1>7. FailureIsExplained'
    <2>1. result'.exit = 3 => result'.errors = {} /\ result'.actions \cap ActionCodes # {}
      <3> SUFFICES ASSUME result'.exit = 3
                   PROVE  result'.errors = {} /\ result'.actions \cap ActionCodes # {}
        OBVIOUS
      <3>1. \A f \in failures : f.exit = 3
        BY <1>4
      <3>2. PICK f \in failures : f.exit = 3
        BY <1>4
      <3>3. f.code \in ActionCodes
        BY <1>3, <3>2
      <3> HIDE DEF failures
      <3> QED  BY <1>2, <3>1, <3>2, <3>3
    <2>2. result'.exit \notin {0, 3} => result'.errors # {}
      <3> SUFFICES ASSUME result'.exit \notin {0, 3} PROVE result'.errors # {}
        OBVIOUS
      <3>1. PICK f \in failures : f.exit = result'.exit
        BY <1>4
      <3> HIDE DEF failures
      <3> QED  BY <1>2, <3>1
    <2>3. core' # 0 => result'.exit # 0
      BY <1>1, <1>5
    <2> QED  BY <2>1, <2>2, <2>3 DEF FailureIsExplained
  <1>8. Written'
    <2>1. Effects'
      BY <1>1 DEF Effects, Before, Searching, Writing, RunIInv, Written
    <2>2. ManifestIsHonest'
      BY <1>1 DEF ManifestIsHonest, RunIInv, Written
    <2> QED  BY <1>1, <2>1, <2>2, NothingIsTaken DEF Written, After
  <1>9. CoreIsComplete' /\ ResultIsLast'
    BY <1>1 DEF CoreIsComplete, ResultIsLast
  <1> QED  BY <1>1, <1>6, <1>7, <1>8, <1>9, NothingIsTaken DEF RunIInv, Answered, After

LEMMA StepInterrupt == RunIInv /\ Interrupt => RunIInv'
  <1> SUFFICES ASSUME RunIInv, Interrupt PROVE RunIInv'
    OBVIOUS
  <1>1. /\ phase' = "ended"
        /\ result' = [exit |-> 70, errors |-> {"INTERRUPTED"}, actions |-> {}]
        /\ UNCHANGED <<resolution, options, verdict, library, registered, manifest, part>>
        /\ UNCHANGED discovery
    BY DEF Interrupt, effects, resolution
  <1>2. Written'
    <2>1. Effects'
      BY <1>1 DEF Effects, Before, Searching, Writing, RunIInv, Written
    <2>2. ManifestIsHonest'
      BY <1>1 DEF ManifestIsHonest, RunIInv, Written
    <2> QED  BY <1>1, <2>1, <2>2, NothingIsTaken DEF Written, After
  <1>3. Answered'
    BY <1>1, InternalFailure DEF Answered
  <1> QED  BY <1>1, <1>2, <1>3, NothingIsTaken DEF RunIInv, After

-----------------------------------------------------------------------------
(* The theorems.                                                           *)

LEMMA RunStepInv == RunIInv /\ [RunStep]_vars => RunIInv'
  <1>1. ASSUME RunIInv, RunStep PROVE RunIInv'
    <2>1. CASE Resolving \/ Begin \/ Verify \/ ChooseSource
      BY <1>1, <2>1, StepResolving, StepBegin, StepVerify, StepChooseSource
    <2>2. CASE TryHandoff("digikey") \/ TryHandoff("mouser")
      BY <1>1, <2>2, StepTryHandoff DEF Distributors
    <2>3. CASE SkipExport \/ Export
      BY <1>1, <2>3, StepSkipExport, StepExport
    <2>4. CASE \/ ExportFails("datasheet", "DATASHEET_UNAVAILABLE", None)
               \/ ExportFails("export", "EXPORT_FAILED", "CAD_EXPORT_FAILED")
      BY <1>1, <2>4, StepExportFails
    <2>5. CASE ImportPackage \/ SelectPackage \/ \E c \in LockCodes : SelectionConflict(c)
      BY <1>1, <2>5, StepImportPackage, StepSelectPackage, StepSelectionConflict
    <2>6. CASE Register \/ Report \/ Answer \/ Interrupt
      BY <1>1, <2>6, StepRegister, StepReport, StepAnswer, StepInterrupt
    <2> QED  BY <1>1, <2>1, <2>2, <2>3, <2>4, <2>5, <2>6 DEF RunStep
  <1>2. ASSUME RunIInv, UNCHANGED vars PROVE RunIInv'
    <2>1. /\ UNCHANGED <<phase, options, verification, parsed, library, registered, manifest,
                         part, core, result>>
          /\ UNCHANGED resolution
      BY <1>2 DEF vars, runVars, verdict, effects, outcome
    <2>2. UNCHANGED <<request, stage, id, lcsc, cad, cadIdentity, records, jlcpcb, errors,
                      blocking, discovery>>
      BY <2>1 DEF resolution, identity, products
    <2>3. Course'
      <3>1. WhileResolving'
        <4>1. CASE phase = "resolve"
          <5>1. IInv /\ Blocked
            BY <1>2, <4>1 DEF RunIInv, Course, WhileResolving
          <5>2. IInv'
            BY <2>1, <5>1, StepInv
          <5>3. Blocked'
            BY <2>2, <5>1 DEF Blocked
          <5> QED  BY <5>2, <5>3 DEF WhileResolving
        <4>2. CASE phase # "resolve"
          BY <2>1, <4>2 DEF WhileResolving
        <4> QED  BY <4>1, <4>2
      <3>2. WhileVerifying' /\ WhileSearching'
        BY <1>2, <2>1, <2>2 DEF RunIInv, Course, WhileVerifying, WhileSearching, Wanted
      <3>3. CadIsTrusted' /\ LockIsLocal' /\ ErrorsAreOfSources' /\ JlcpcbIsExact'
        BY <1>2, <2>1, <2>2 DEF RunIInv, Course, CadIsTrusted, WhatIsProved, LockIsLocal,
                                ErrorsAreOfSources, JlcpcbIsExact
      <3> QED  BY <3>1, <3>2, <3>3 DEF Course
    <2>4. Written'
      BY <1>2, <2>1, <2>2 DEF RunIInv, Written, Effects, ReadyIsInstalled, PartIsHonest,
                              ExportIsProved, ManifestIsHonest, Wanted
    <2>5. Answered'
      BY <1>2, <2>1, <2>2 DEF RunIInv, Answered, CoreIsComplete, ResultIsLast,
                              SuccessIsComplete, FailureIsExplained
    <2> QED  BY <2>3, <2>4, <2>5 DEF RunIInv
  <1> QED  BY <1>1, <1>2

LEMMA RunInvariance == RunSpec => []RunIInv
  BY RunInitInv, RunStepInv, PTL DEF RunSpec

\* For every request and every command line, EasyEDA's CAD data is written to
\* the libraries only when it is whole, proved to be the requested part and
\* blocked by nothing: no ambiguity in the catalogue, no handoff to a
\* distributor, no source lock (__main__.py:1773, 1893).
THEOREM OnlyProvedCadIsExported == RunSpec => []ExportIsProved
  <1>1. RunIInv => ExportIsProved
    BY DEF RunIInv, Written
  <1> QED  BY <1>1, RunInvariance, PTL

\* No manifest calls VERIFIED what this run neither exported nor handed off.
THEOREM ManifestsAreHonest == RunSpec => []ManifestIsHonest
  <1>1. RunIInv => ManifestIsHonest
    BY DEF RunIInv, Written
  <1> QED  BY <1>1, RunInvariance, PTL

\* A machine result of 0 means that all that the command line requires is
\* there: records, libraries, registration, manifests and the JLCPCB part of
\* the very LCSC number (machine.py:130).
THEOREM ExitZeroIsComplete == RunSpec => []SuccessIsComplete
  <1>1. RunIInv => SuccessIsComplete
    BY DEF RunIInv, Answered
  <1> QED  BY <1>1, RunInvariance, PTL

\* A machine result that is not 0 names what went wrong, and one that asks for
\* a manual action names the action and nothing else.
THEOREM FailuresAreExplained == RunSpec => []FailureIsExplained
  <1>1. RunIInv => FailureIsExplained
    BY DEF RunIInv, Answered
  <1> QED  BY <1>1, RunInvariance, PTL

\* Libraries, registration and manifests are written in this order, whatever
\* fails in between (__main__.py:1837, 2099).
THEOREM LibrariesComeFirst == RunSpec => EffectsInOrder
  <1> DEFINE Ordered == /\ library' # library => ~registered /\ manifest = None
                        /\ registered' # registered => library # None /\ manifest = None
                        /\ manifest' # manifest /\ library = "package" /\ options.register
                             => registered
  <1>1. ASSUME RunIInv, RunStep PROVE Ordered
    <2>1. /\ phase \in Before \cup Searching =>
               library = None /\ registered = FALSE /\ manifest = None
          /\ phase = "register" => manifest = None
          /\ phase = "report" /\ library = "package" /\ options.register => registered
      BY <1>1, NothingYet DEF RunIInv, Written, Effects, Writing
    <2>2. CASE Resolving \/ Begin \/ Verify \/ ChooseSource \/ Answer \/ Interrupt
      BY <2>2 DEF Resolving, runVars, Begin, Verify, ChooseSource, Answer, Interrupt, effects
    <2>3. CASE TryHandoff("digikey") \/ TryHandoff("mouser") \/ SkipExport
      BY <2>3 DEF TryHandoff, SkipExport, effects
    <2>4. CASE Export
      BY <2>1, <2>4 DEF Export, Searching
    <2>5. CASE \/ ExportFails("datasheet", "DATASHEET_UNAVAILABLE", None)
               \/ ExportFails("export", "EXPORT_FAILED", "CAD_EXPORT_FAILED")
      BY <2>5 DEF ExportFails, effects
    <2>6. CASE ImportPackage \/ SelectPackage
      BY <2>1, <2>6 DEF ImportPackage, SelectPackage, Before, Searching
    <2>7. CASE \E c \in LockCodes : SelectionConflict(c)
      BY <2>1, <2>7, NoneIsNoWord DEF SelectionConflict, Searching
    <2>8. CASE Register
      BY <2>1, <2>8 DEF Register, Registered
    <2>9. CASE Report
      BY <2>1, <2>9 DEF Report
    <2> QED  BY <1>1, <2>2, <2>3, <2>4, <2>5, <2>6, <2>7, <2>8, <2>9 DEF RunStep
  <1>2. RunIInv /\ [RunStep]_vars => [Ordered]_<<library, registered, manifest>>
    <2>1. UNCHANGED vars => UNCHANGED <<library, registered, manifest>>
      BY DEF vars, runVars, effects
    <2> QED  BY <1>1, <2>1
  <1>3. [][Ordered]_<<library, registered, manifest>> <=> EffectsInOrder
    BY DEF EffectsInOrder
  <1> QED  BY <1>2, <1>3, RunInvariance, PTL DEF RunSpec
=============================================================================

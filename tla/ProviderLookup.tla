---------------------------- MODULE ProviderLookup ----------------------------
(***************************************************************************)
(* The lookups that one provider object makes over the network             *)
(* (providers/base.py, digikey.py, mouser.py, lcsc.py, lcsc_client.py):    *)
(* retries, DigiKey's access token, the pages of the JLCPCB catalogue and  *)
(* the choice of the one exact part among what the server returns.         *)
(*                                                                         *)
(* The server answers anything a caller can tell apart.  Its catalogue may *)
(* change between two requests, it may refuse or revoke a token, and it    *)
(* may leave out or miscount the total of a search.  Time is the time of   *)
(* the token only; a unit stands for 15 seconds.                           *)
(***************************************************************************)
EXTENDS Naturals, Sequences, FiniteSets, SequencesExt, FiniteSetsExt

CONSTANTS
    Items,        \* what a catalogue may hold: [mpn, mfr, number]
    Catalogues,   \* the catalogues considered, sequences of Items
    Requests,     \* the lookups: [op, mpn, mfr, number]
    PageSize, MaxPages, MaxAttempts,
    Margin, MaxDelay, Lifetimes,
    MaxLookups, MaxTime, MaxEdits,
    None

ASSUME LookupAssumption ==
    /\ PageSize \in Nat \ {0} /\ MaxPages \in Nat \ {0} /\ MaxAttempts \in Nat \ {0}
    /\ Margin \in Nat /\ MaxDelay \in Nat /\ Lifetimes \subseteq Nat \ {0}
    /\ Catalogues \subseteq Seq(Items)
    /\ \A i \in Items : i.number \in Nat \cup {None}
    /\ None \notin Nat
    /\ None \notin {"FOUND", "NOT_FOUND", "NETWORK_ERROR", "INVALID_RESPONSE"}
    /\ \A r \in Requests : r.op \in {"exact", "id", "media", "page"}

VARIABLES
    provider, credentials,  \* which provider, and what the environment holds
    catalogue, edits,       \* the server's catalogue and how often it changed
    now,
    token,                  \* until when the provider uses its token
    live,                   \* until when the server accepts it
    request, phase, attempt,
    page, total, seen,      \* the pages of a catalogue read so far
    answer,
    lookups, changed, counted  \* history of the lookup under way

keys == <<provider, credentials>>
server == <<catalogue, edits, live, changed>>
scan == <<page, total, seen, counted>>
vars == <<keys, server, now, token, request, phase, attempt, scan, answer, lookups>>

Failed(e) == [status |-> e, part |-> None]
Part(i) == [status |-> "FOUND", part |-> i]
End(a) == phase' = "idle" /\ answer' = a
Forget == page' = 1 /\ total' = None /\ seen' = <<>>
Raise(e) == End(Failed(e))

Init ==
    /\ provider \in {"digikey", "mouser", "lcsc"}
    /\ credentials \in IF provider = "lcsc" THEN {"ok"} ELSE {"ok", "missing"}
    /\ catalogue \in Catalogues /\ edits = 0
    /\ now = 0 /\ token = 0 /\ live = 0
    /\ request = None /\ phase = "idle" /\ attempt = 0
    /\ page = 1 /\ total = None /\ seen = <<>>
    /\ answer = Failed(None)
    /\ lookups = 0 /\ changed = FALSE /\ counted = TRUE

-----------------------------------------------------------------------------
(* The rest of the world.                                                  *)

\* Between two pages an offer ends, so that the others move up, or one is
\* added.  Other changes are those of another catalogue.
Edit ==
    /\ edits < MaxEdits /\ page > 1
    /\ \/ catalogue # <<>> /\ catalogue' = Tail(catalogue)
       \/ \E i \in Items : catalogue' = Append(catalogue, i)
    /\ edits' = edits + 1 /\ changed' = TRUE
    /\ UNCHANGED <<keys, live, now, token, request, phase, attempt, scan, answer, lookups>>

Revoke ==
    /\ edits < MaxEdits /\ live > now
    /\ live' = 0 /\ edits' = edits + 1
    /\ UNCHANGED <<keys, catalogue, changed, now, token, request, phase, attempt,
                   scan, answer, lookups>>

Pass ==
    /\ phase = "idle" /\ provider = "digikey" /\ now < MaxTime
    /\ now' = now + 1
    /\ UNCHANGED <<keys, server, token, request, phase, attempt, scan, answer, lookups>>

-----------------------------------------------------------------------------
(* Starting a lookup, and DigiKey's access token.                          *)

Cached == token # 0 /\ now < token

\* A public model page needs no credentials; media are asked of DigiKey only.
Start(r) ==
    /\ phase = "idle" /\ lookups < MaxLookups
    /\ r.op \in {"media", "page"} => provider = "digikey"
    /\ request' = r /\ lookups' = lookups + 1
    /\ attempt' = 0 /\ changed' = FALSE /\ counted' = TRUE
    /\ CASE r.op = "page" -> phase' = "call" /\ answer' = Failed(None)
         [] r.op # "page" /\ credentials = "missing" -> Raise("AUTH_MISSING")
         [] OTHER -> /\ phase' = IF provider = "digikey" /\ ~Cached THEN "oauth" ELSE "call"
                     /\ answer' = Failed(None)
    /\ UNCHANGED <<keys, catalogue, edits, live, now, token, page, total, seen>>

\* Mutant: the token is used for as long as the server said.
UsableFor(life) == life
\* "Refresh a little early".
Usable(life) == IF life > Margin THEN life - Margin ELSE 0

\* The server counts from when it grants the token, the provider from when
\* the answer has come, which takes at most the timeout of a request.
Grant ==
    /\ phase = "oauth"
    /\ \E life \in Lifetimes, latency \in 0 .. Margin :
         /\ latency < life
         /\ now' = now + latency
         /\ live' = now + life
         /\ token' = now' + Usable(life)
    /\ phase' = "call" /\ attempt' = 0
    /\ UNCHANGED <<keys, catalogue, edits, changed, request, scan, answer, lookups>>

GrantRefused ==
    /\ phase = "oauth"
    /\ \E e \in {"AUTH_FAILED", "INVALID_RESPONSE"} : Raise(e)
    /\ UNCHANGED <<keys, server, now, token, request, attempt, scan, lookups>>

-----------------------------------------------------------------------------
(* _request_json: attempts that fail.                                      *)

Retries == provider # "lcsc" /\ (request.op # "page" \/ phase = "oauth")

\* Mutant: the last wait starts the count anew.
RetryAnew ==
    /\ phase \in {"oauth", "call"} /\ Retries
    /\ \E d \in IF provider = "digikey" THEN 0 .. MaxDelay ELSE {0} : now' = now + d
    /\ attempt' = IF attempt + 1 = MaxAttempts THEN 1 ELSE attempt + 1
    /\ UNCHANGED <<keys, server, token, request, phase, scan, answer, lookups>>

\* A busy server or a network failure: wait and try again.  The delay is the
\* Retry-After of the server, clamped, or the backoff.
Retry ==
    /\ phase \in {"oauth", "call"} /\ Retries /\ attempt + 1 < MaxAttempts
    /\ \E d \in IF provider = "digikey" THEN 0 .. MaxDelay ELSE {0} : now' = now + d
    /\ attempt' = attempt + 1
    /\ UNCHANGED <<keys, server, token, request, phase, scan, answer, lookups>>

\* What cannot be retried, or was retried often enough.
RequestErrors ==
    {"NETWORK_ERROR", "INVALID_RESPONSE"}
    \cup (IF attempt + 1 = MaxAttempts \/ ~Retries THEN {"RATE_LIMITED"} ELSE {})
    \cup (IF request.op # "page" \/ phase = "oauth" THEN {"AUTH_FAILED"} ELSE {})

RequestFails ==
    /\ phase \in {"oauth", "call"} /\ provider # "lcsc"
    /\ \E e \in RequestErrors : Raise(e)
    /\ UNCHANGED <<keys, server, now, token, request, attempt, scan, lookups>>

-----------------------------------------------------------------------------
(* The exact part among the items of a response.                           *)

Named(i) == i.mpn # None /\ i.mfr # None
Listed(i) == Named(i) /\ i.number # None
Complete(i) == IF provider = "lcsc" THEN Listed(i) ELSE Named(i)

\* An item that may be the part and cannot be read spoils the response; one
\* whose MPN differs is passed over.
SpoilsExact(items) ==
    \E i \in items : i.mpn = None \/ (i.mpn = request.mpn /\ ~Complete(i))

\* A search by number reads every item, but DigiKey's passes over those that
\* name no part.
SpoilsNumber(items) == provider # "digikey" /\ \E i \in items : ~Complete(i)

OfMpn(items) == {i \in items : Complete(i) /\ i.mpn = request.mpn}
OfMaker(items) == {i \in OfMpn(items) : request.mfr \in {None, i.mfr}}
OfNumber(items) == {i \in items : Complete(i) /\ i.number = request.number}

\* Mutant: the manufacturers of the matches are not compared.
NumbersOnly(matches) == IF provider = "lcsc" THEN {i.number : i \in matches} ELSE {0}

\* What must be one: the identity, for LCSC also the part number.
Identities(matches) ==
    {<<i.mfr, IF provider = "lcsc" THEN i.number ELSE None>> : i \in matches}

\* The least distributor number stands for the part, a number before none.
Preferred(matches) ==
    LET listed == {i \in matches : i.number # None}
    IN IF listed = {} THEN CHOOSE i \in matches : TRUE
       ELSE CHOOSE i \in listed : \A j \in listed : i.number <= j.number

\* LCSC tells another manufacturer's part from no part.
JudgeExact(items) ==
    LET matches == OfMaker(items)
    IN IF SpoilsExact(items) THEN Failed("INVALID_RESPONSE")
       ELSE IF matches = {}
            THEN Failed(IF provider = "lcsc" /\ OfMpn(items) # {}
                        THEN "MPN_MISMATCH" ELSE "NOT_FOUND")
       ELSE IF Cardinality(Identities(matches)) > 1 THEN Failed("AMBIGUOUS")
       ELSE Part(Preferred(matches))

\* A number belongs to one record.
JudgeNumber(items) ==
    LET matches == OfNumber(items)
    IN IF SpoilsNumber(items) THEN Failed("INVALID_RESPONSE")
       ELSE IF matches = {} THEN Failed("NOT_FOUND")
       ELSE IF Cardinality(matches) > 1 THEN Failed("AMBIGUOUS")
       ELSE Part(CHOOSE i \in matches : TRUE)

Judge(items) == IF request.op = "exact" THEN JudgeExact(items) ELSE JudgeNumber(items)

\* The total of a search is right, missing or more than there is.
Totals == {Len(catalogue), None, Len(catalogue) + 1}
FirstPage == SubSeq(catalogue, 1, Min({PageSize, Len(catalogue)}))

\* A page that is not the whole result is not guessed from.
Whole(n, returned) ==
    IF n = None \/ n < returned THEN Failed("INVALID_RESPONSE")
    ELSE IF n > returned THEN Failed("AMBIGUOUS")
    ELSE Judge(Range(FirstPage))

\* DigiKey lists a product among its exact matches again; it counts once.
Products(n) == Whole(n, Cardinality(Range(FirstPage)))
Parts(n) == Whole(n, Len(FirstPage))

\* A bearer token works while the server accepts it.
Authorized == request.op # "page" => now < live

SearchDigiKey ==
    /\ phase = "call" /\ provider = "digikey" /\ request.op \in {"exact", "id"}
    /\ Authorized
    /\ \E n \in Totals : End(Products(n))
    /\ UNCHANGED <<keys, server, now, token, request, attempt, scan, lookups>>

SearchMouser ==
    /\ phase = "call" /\ provider = "mouser"
    /\ \E n \in Totals : End(Parts(n))
    /\ UNCHANGED <<keys, server, now, token, request, attempt, scan, lookups>>

\* Media and a public page are handed on as they are.
FetchMedia ==
    /\ phase = "call" /\ request.op = "media" /\ Authorized
    /\ Raise("FETCHED")
    /\ UNCHANGED <<keys, server, now, token, request, attempt, scan, lookups>>

FetchPage ==
    /\ phase = "call" /\ request.op = "page"
    /\ Raise("FETCHED")
    /\ UNCHANGED <<keys, server, now, token, request, attempt, scan, lookups>>

-----------------------------------------------------------------------------
(* LCSC: the pages of the anonymous JLCPCB catalogue, without retries.     *)

PageOf(n) == SubSeq(catalogue, (n - 1) * PageSize + 1, Min({n * PageSize, Len(catalogue)}))

\* The first verdict whose condition holds.
FirstOf(verdicts) ==
    verdicts[CHOOSE i \in DOMAIN verdicts :
                /\ verdicts[i][1]
                /\ \A j \in 1 .. (i - 1) : ~verdicts[j][1]][2]

Spoils(items) == IF request.op = "exact" THEN SpoilsExact(items) ELSE SpoilsNumber(items)

\* What _search_all concludes from a page: an error, MORE or END.
Verdict(items, n, error) ==
    LET count == Len(seen) + Len(items)
        first == IF page = 1 THEN n ELSE total
    IN FirstOf(<<
         <<n # first, "INVALID_RESPONSE">>,
         <<Spoils(Range(items)), "INVALID_RESPONSE">>,
         <<page = 1 /\ first # None /\ first > PageSize * MaxPages, "AMBIGUOUS">>,
         <<first # None /\ count > first, "INVALID_RESPONSE">>,
         <<items = <<>> /\ error # None, error>>,
         <<items = <<>> /\ first # None /\ count < first, "AMBIGUOUS">>,
         <<items = <<>> \/ (first # None /\ count >= first), "END">>,
         <<first = None /\ Len(items) < PageSize, "END">>,
         <<page < MaxPages, "MORE">>,
         <<TRUE, "AMBIGUOUS">> >>)

\* Mutant: every empty page leaves NOT_FOUND.
ClientErrorAlways(items, n) == IF items = <<>> THEN "NOT_FOUND" ELSE None

\* The client leaves NOT_FOUND as the error of an empty page without a total.
ClientError(items, n) == IF items = <<>> /\ n \in {None, 0} THEN "NOT_FOUND" ELSE None

Conclude(verdict, items, n) ==
    /\ counted' = (counted /\ n # None)
    /\ CASE verdict = "MORE" -> /\ page' = page + 1
                                /\ seen' = seen \o items
                                /\ total' = IF page = 1 THEN n ELSE total
                                /\ UNCHANGED <<phase, answer>>
         [] verdict = "END" -> End(Judge(Range(seen \o items))) /\ Forget
         [] OTHER -> Raise(verdict) /\ Forget
    /\ UNCHANGED <<keys, server, now, token, request, attempt, lookups>>

ReadPage ==
    /\ phase = "call" /\ provider = "lcsc"
    /\ \E n \in Totals :
         Conclude(Verdict(PageOf(page), n, ClientError(PageOf(page), n)), PageOf(page), n)

\* The client returns no page at all, only the reason.
PageFails ==
    /\ phase = "call" /\ provider = "lcsc"
    /\ \E e \in {"NETWORK_ERROR", "INVALID_RESPONSE"} :
         Conclude(Verdict(<<>>, None, e), <<>>, None)

-----------------------------------------------------------------------------

Work == Grant \/ GrantRefused \/ Retry \/ RequestFails \/ SearchDigiKey \/ SearchMouser
        \/ FetchMedia \/ FetchPage \/ ReadPage \/ PageFails
Next == Edit \/ Revoke \/ Pass \/ Work \/ (\E r \in Requests : Start(r))

\* A lookup is a sequential call: it goes on until it returns or raises.
Spec == Init /\ [][Next]_vars /\ WF_vars(Work)

-----------------------------------------------------------------------------
(* Properties.                                                             *)

Wanted == LET items == Range(catalogue)
          IN IF request.op = "exact" THEN OfMaker(items) ELSE OfNumber(items)

\* A part that is returned from a catalogue at rest is the only identity, and
\* for LCSC the only number, with the requested MPN: no second one is hidden
\* on a page that was not read or behind an item that could not be read
\* (lcsc.py:228-285, digikey.py:499-555, mouser.py:242-267, base.py:345-406).
UniqueAnswer ==
    answer.status = "FOUND" /\ ~changed =>
        /\ answer.part \in Wanted
        /\ request.op = "exact" => Cardinality({i.mfr : i \in Wanted}) = 1
        /\ provider = "lcsc" => Cardinality({i.number : i \in Wanted}) = 1
        /\ request.op = "exact" => \A i \in Range(catalogue) : i.mpn # None

\* NOT_FOUND from a catalogue at rest whose totals were given means that it
\* has no such part (lcsc.py:267-283).
AbsenceIsComplete ==
    answer.status = "NOT_FOUND" /\ ~changed /\ counted => Wanted = {}

\* The first attempt of a request never carries a token that has expired at
\* the server: "Refresh a little early" (digikey.py:136-137).  A token that the
\* server revoked (live = 0) is used on, and retries can outlast a token.
TokenIsFresh ==
    phase = "call" /\ attempt = 0 /\ provider = "digikey" /\ request.op # "page"
        => live = 0 \/ now < live

\* Every lookup ends, however often the server asks to come back.
EveryLookupEnds == phase # "idle" ~> phase = "idle"

=============================================================================

------------------------- MODULE ProviderLookupProofs -------------------------
(***************************************************************************)
(* What a provider concludes from a catalogue, and the token it asks with, *)
(* for every catalogue, page size, number of pages, margin and lifetime.   *)
(***************************************************************************)
EXTENDS ProviderLookup, FiniteSetTheorems, SequenceTheorems, WellFoundedInduction, TLAPS

-----------------------------------------------------------------------------
(* The inductive invariant.                                                *)

Typed ==
    /\ provider \in {"digikey", "mouser", "lcsc"} /\ catalogue \in Seq(Items)
    /\ now \in Nat /\ token \in Nat /\ live \in Nat /\ attempt \in Nat
    /\ phase \in {"idle", "oauth", "call"}
    /\ page \in Nat \ {0} /\ total \in Nat \cup {None} /\ seen \in Seq(Items)
    /\ changed \in BOOLEAN /\ counted \in BOOLEAN

\* The provider gives a token up before the server does.
TokenIsShorter == live = 0 \/ token <= live

\* Only a search of the JLCPCB catalogue reads more than one page.
OnlyScansTurnPages ==
    provider # "lcsc" \/ phase # "call" => page = 1 /\ total = None /\ seen = <<>>

\* The items of the pages before the given one.
Before(n) == SubSeq(catalogue, 1, Min({(n - 1) * PageSize, Len(catalogue)}))

\* As long as nobody edits it, what was read is the beginning of the catalogue,
\* and the total that is kept is one the server may give.
ScanIsPrefix ==
    ~changed => seen = Before(page) /\ total \in Totals

\* Media and public pages are asked of DigiKey.
OnlyDigiKeyFetches ==
    phase # "idle" /\ request.op \in {"media", "page"} => provider = "digikey"

IInv == /\ Typed /\ TokenIsShorter /\ OnlyScansTurnPages /\ ScanIsPrefix
        /\ OnlyDigiKeyFetches
        /\ UniqueAnswer /\ AbsenceIsComplete /\ TokenIsFresh

-----------------------------------------------------------------------------
(* Numbers, sets and sequences.                                            *)

\* A set of natural numbers that is not empty has a least one: of the finite
\* sets of those up to n, n \in S, one has none below it.
LEMMA LeastExists ==
  ASSUME NEW S, S \subseteq Nat, S # {}
  PROVE  \E x \in S : \A y \in S : x <= y
<1> DEFINE UpTo(n) == {s \in S : s <= n}
           Family == {UpTo(n) : n \in S}
<1>1. \A n \in S : IsFiniteSet(UpTo(n)) /\ UpTo(n) \in SUBSET Nat
  <2> TAKE n \in S
  <2>1. UpTo(n) \in SUBSET Nat /\ n \in Nat /\ \A s \in UpTo(n) : s <= n
    OBVIOUS
  <2> QED BY <2>1, FS_BoundedSetOfNaturals
<1>2. Family \subseteq FiniteSubsetsOf(Nat) /\ Family # {}
  BY <1>1 DEF FiniteSubsetsOf
<1>3. PICK T \in Family : \A U \in Family : <<U, T>> \notin StrictSubsetOrdering(Nat)
  BY <1>2, FS_StrictSubsetOrderingWellFounded, WFMin
<1>4. PICK x \in S : T = UpTo(x)
  BY <1>3
<1>5. ASSUME NEW y \in S, y < x PROVE FALSE
  <2>1. x \in Nat /\ y \in Nat /\ ~(x <= y) /\ \A s \in Nat : s <= y => s <= x
    BY <1>5
  <2> HIDE <1>5
  <2>2. UpTo(y) \subseteq UpTo(x) /\ x \in UpTo(x) /\ x \notin UpTo(y)
    BY <2>1, x <= x
  <2>3. <<UpTo(y), UpTo(x)>> \in StrictSubsetOrdering(Nat)
    BY <2>2, <1>1 DEF StrictSubsetOrdering
  <2> QED BY <2>3, <1>3, <1>4
<1> QED BY <1>5

LEMMA LesserOfTwo ==
  ASSUME NEW a \in Int, NEW b \in Int
  PROVE  Min({a, b}) = IF a <= b THEN a ELSE b
<1>1. \E x \in {a, b} : \A y \in {a, b} : x =< y
  OBVIOUS
<1>2. Min({a, b}) \in {a, b} /\ \A y \in {a, b} : Min({a, b}) =< y
  BY <1>1 DEF Min
<1> QED BY <1>2

\* A sequence has no more elements than places.
LEMMA RangeIsFinite ==
  ASSUME NEW S, NEW s \in Seq(S)
  PROVE  /\ Range(s) \subseteq S /\ IsFiniteSet(Range(s))
         /\ Cardinality(Range(s)) \in Nat /\ Cardinality(Range(s)) <= Len(s)
<1>1. Len(s) \in Nat /\ s \in [1 .. Len(s) -> S] /\ DOMAIN s = 1 .. Len(s)
  BY LenProperties
<1>2. s \in Surjection(1 .. Len(s), Range(s))
  BY <1>1 DEF Surjection, Range
<1>3. ExistsSurjection(1 .. Len(s), Range(s))
  BY <1>2 DEF ExistsSurjection
<1>4. IsFiniteSet(Range(s)) /\ Cardinality(Range(s)) <= Len(s)
  BY <1>1, <1>3, FS_NatSurjection, FS_SurjCardinalityBound
<1> QED BY <1>1, <1>4, FS_CardinalityType DEF Range

\* A finite set that is not empty and has not more than one element has one.
LEMMA OneElement ==
  ASSUME NEW S, IsFiniteSet(S), S # {}, ~(Cardinality(S) > 1)
  PROVE  \E x : S = {x}
<1>1. Cardinality(S) \in Nat /\ Cardinality(S) # 0
  BY FS_CardinalityType, FS_EmptySet
<1>2. Cardinality(S) = 1
  BY <1>1
<1> QED BY <1>2, FS_Singleton

\* The images of a finite set are finitely many.
LEMMA ImageIsFinite ==
  ASSUME NEW S, NEW f, f = [x \in S |-> f[x]], IsFiniteSet(S)
  PROVE  IsFiniteSet({f[x] : x \in S})
<1>1. f \in Surjection(S, {f[x] : x \in S})
  BY DEF Surjection
<1> QED BY <1>1, FS_Surjection

-----------------------------------------------------------------------------
(* The judgement of all items of a catalogue.                              *)

\* What UniqueAnswer asks of the part that is chosen among the items.
Matches(items) == IF request.op = "exact" THEN OfMaker(items) ELSE OfNumber(items)
Proved(items, part) ==
    /\ part \in Matches(items)
    /\ request.op = "exact" => Cardinality({i.mfr : i \in Matches(items)}) = 1
    /\ provider = "lcsc" => Cardinality({i.number : i \in Matches(items)}) = 1
    /\ request.op = "exact" => \A i \in items : i.mpn # None

\* The preferred offer is one of the offers.
LEMMA PreferredMatches ==
  ASSUME NEW M \in SUBSET Items, M # {}
  PROVE  Preferred(M) \in M
<1> DEFINE Numbered == {i \in M : i.number # None}
<1>1. CASE Numbered = {}
  BY <1>1 DEF Preferred
<1>2. CASE Numbered # {}
  <2> DEFINE Numbers == {i.number : i \in Numbered}
  <2>1. \A i \in Numbered : i.number \in Nat
    BY LookupAssumption
  <2>2. PICK n \in Numbers : \A k \in Numbers : n <= k
    <3>1. Numbers \subseteq Nat /\ Numbers # {}
      BY <1>2, <2>1
    <3> HIDE DEF Numbers
    <3> QED BY <3>1, LeastExists
  <2>3. \E i \in Numbered : \A j \in Numbered : i.number <= j.number
    BY <2>2
  <2>4. Preferred(M) \in Numbered
    BY <1>2, <2>3 DEF Preferred
  <2> QED BY <2>4
<1> QED BY <1>1, <1>2

\* One identity is one maker and, at LCSC, one number.
LEMMA IdentityIsOne ==
  ASSUME NEW M, IsFiniteSet(M), M # {}, ~(Cardinality(Identities(M)) > 1)
  PROVE  /\ Cardinality({i.mfr : i \in M}) = 1
         /\ provider = "lcsc" => Cardinality({i.number : i \in M}) = 1
<1> DEFINE id == [i \in M |-> <<i.mfr, IF provider = "lcsc" THEN i.number ELSE None>>]
<1>1. Identities(M) = {id[i] : i \in M} /\ id = [i \in M |-> id[i]]
  BY DEF Identities
<1>2. IsFiniteSet(Identities(M))
  <2> HIDE DEF id
  <2> QED BY <1>1, ImageIsFinite
<1>3. PICK x : Identities(M) = {x}
  <2>1. Identities(M) # {}
    BY DEF Identities
  <2> QED BY <1>2, <2>1, OneElement
<1>4. \A i \in M : <<i.mfr, IF provider = "lcsc" THEN i.number ELSE None>> = x
  BY <1>3 DEF Identities
<1>5. {i.mfr : i \in M} = {x[1]}
  BY <1>4
<1>6. provider = "lcsc" => {i.number : i \in M} = {x[2]}
  BY <1>4
<1> QED BY <1>5, <1>6, FS_Singleton

LEMMA JudgeExactIsProved ==
  ASSUME NEW items \in SUBSET Items, IsFiniteSet(items), request.op = "exact"
  PROVE  /\ JudgeExact(items).status = "FOUND" => Proved(items, JudgeExact(items).part)
         /\ JudgeExact(items).status = "NOT_FOUND" => Matches(items) = {}
<1> DEFINE M == OfMaker(items)
<1>1. M \in SUBSET Items /\ IsFiniteSet(M) /\ M = Matches(items)
  BY FS_Subset DEF OfMaker, OfMpn, Matches
<1>2. CASE SpoilsExact(items)
  BY <1>2 DEF JudgeExact, Failed
<1>3. CASE ~SpoilsExact(items) /\ M = {}
  BY <1>3, <1>1 DEF JudgeExact, Failed
<1>4. CASE ~SpoilsExact(items) /\ M # {} /\ Cardinality(Identities(M)) > 1
  BY <1>4 DEF JudgeExact, Failed
<1>5. CASE ~SpoilsExact(items) /\ M # {} /\ ~(Cardinality(Identities(M)) > 1)
  <2>1. JudgeExact(items) = [status |-> "FOUND", part |-> Preferred(M)]
    BY <1>5 DEF JudgeExact, Part
  <2>2. Preferred(M) \in M
    BY <1>1, <1>5, PreferredMatches
  <2>3. /\ Cardinality({i.mfr : i \in M}) = 1
        /\ provider = "lcsc" => Cardinality({i.number : i \in M}) = 1
    BY <1>1, <1>5, IdentityIsOne
  <2>4. \A i \in items : i.mpn # None
    BY <1>5 DEF SpoilsExact
  <2>5. Proved(items, Preferred(M))
    <3> HIDE DEF M
    <3> QED BY <1>1, <2>2, <2>3, <2>4 DEF Proved
  <2> QED BY <2>1, <2>5
<1> QED BY <1>2, <1>3, <1>4, <1>5

LEMMA JudgeNumberIsProved ==
  ASSUME NEW items \in SUBSET Items, IsFiniteSet(items), request.op # "exact"
  PROVE  /\ JudgeNumber(items).status = "FOUND" => Proved(items, JudgeNumber(items).part)
         /\ JudgeNumber(items).status = "NOT_FOUND" => Matches(items) = {}
<1> DEFINE M == OfNumber(items)
<1>1. IsFiniteSet(M) /\ M = Matches(items) /\ \A i \in M : i.number = request.number
  BY FS_Subset DEF OfNumber, Matches
<1>2. CASE SpoilsNumber(items)
  BY <1>2 DEF JudgeNumber, Failed
<1>3. CASE ~SpoilsNumber(items) /\ M = {}
  BY <1>3, <1>1 DEF JudgeNumber, Failed
<1>4. CASE ~SpoilsNumber(items) /\ M # {} /\ Cardinality(M) > 1
  BY <1>4 DEF JudgeNumber, Failed
<1>5. CASE ~SpoilsNumber(items) /\ M # {} /\ ~(Cardinality(M) > 1)
  <2>1. JudgeNumber(items) = [status |-> "FOUND", part |-> CHOOSE i \in M : TRUE]
    BY <1>5 DEF JudgeNumber, Part
  <2>2. (CHOOSE i \in M : TRUE) \in M
    BY <1>5
  <2>3. {i.number : i \in M} = {request.number}
    BY <1>1, <1>5
  <2>4. Cardinality({i.number : i \in M}) = 1
    BY <2>3, FS_Singleton
  <2>5. Proved(items, CHOOSE i \in M : TRUE)
    <3> HIDE DEF M
    <3> QED BY <1>1, <2>2, <2>4 DEF Proved
  <2> QED BY <2>1, <2>5
<1> QED BY <1>2, <1>3, <1>4, <1>5

\* Judged from all it holds, a catalogue proves the part or its absence.
LEMMA JudgeIsProved ==
  ASSUME NEW c \in Seq(Items)
  PROVE  /\ Judge(Range(c)).status = "FOUND" => Proved(Range(c), Judge(Range(c)).part)
         /\ Judge(Range(c)).status = "NOT_FOUND" => Matches(Range(c)) = {}
<1>1. Range(c) \in SUBSET Items /\ IsFiniteSet(Range(c))
  BY RangeIsFinite
<1> QED BY <1>1, JudgeExactIsProved, JudgeNumberIsProved DEF Judge

-----------------------------------------------------------------------------
(* Pages.                                                                  *)

LEMMA FirstOfIs ==
  ASSUME NEW V, NEW m \in Nat, DOMAIN V = 1 .. m, NEW k \in 1 .. m,
         V[k][1], \A j \in 1 .. (k - 1) : ~V[j][1]
  PROVE  FirstOf(V) = V[k][2]
<1> DEFINE P(i) == V[i][1] /\ \A j \in 1 .. (i - 1) : ~V[j][1]
           c == CHOOSE i \in DOMAIN V : P(i)
<1>1. k \in DOMAIN V /\ P(k)
  OBVIOUS
<1>2. c \in DOMAIN V /\ P(c)
  <2> HIDE DEF P
  <2> QED BY <1>1
<1>3. c = k
  <2>1. CASE c < k
    BY <1>2, <2>1
  <2>2. CASE k < c
    BY <1>2, <2>2
  <2> HIDE DEF c, P
  <2> QED BY <1>2, <2>1, <2>2
<1> QED BY <1>3 DEF FirstOf

\* The verdict on a page, condition by condition.
LEMMA VerdictIs ==
  ASSUME NEW items, NEW n, NEW error
  PROVE  LET count == Len(seen) + Len(items)
             first == IF page = 1 THEN n ELSE total
         IN  Verdict(items, n, error) =
               IF n # first THEN "INVALID_RESPONSE"
               ELSE IF Spoils(Range(items)) THEN "INVALID_RESPONSE"
               ELSE IF page = 1 /\ first # None /\ first > PageSize * MaxPages
                    THEN "AMBIGUOUS"
               ELSE IF first # None /\ count > first THEN "INVALID_RESPONSE"
               ELSE IF items = <<>> /\ error # None THEN error
               ELSE IF items = <<>> /\ first # None /\ count < first THEN "AMBIGUOUS"
               ELSE IF items = <<>> \/ (first # None /\ count >= first) THEN "END"
               ELSE IF first = None /\ Len(items) < PageSize THEN "END"
               ELSE IF page < MaxPages THEN "MORE" ELSE "AMBIGUOUS"
<1> DEFINE count == Len(seen) + Len(items)
           first == IF page = 1 THEN n ELSE total
           c1 == n # first
           c2 == Spoils(Range(items))
           c3 == page = 1 /\ first # None /\ first > PageSize * MaxPages
           c4 == first # None /\ count > first
           c5 == items = <<>> /\ error # None
           c6 == items = <<>> /\ first # None /\ count < first
           c7 == items = <<>> \/ (first # None /\ count >= first)
           c8 == first = None /\ Len(items) < PageSize
           c9 == page < MaxPages
           V == << <<c1, "INVALID_RESPONSE">>, <<c2, "INVALID_RESPONSE">>,
                   <<c3, "AMBIGUOUS">>, <<c4, "INVALID_RESPONSE">>, <<c5, error>>,
                   <<c6, "AMBIGUOUS">>, <<c7, "END">>, <<c8, "END">>, <<c9, "MORE">>,
                   <<TRUE, "AMBIGUOUS">> >>
<1>1. Verdict(items, n, error) = FirstOf(V)
  BY DEF Verdict
<1> HIDE DEF c1, c2, c3, c4, c5, c6, c7, c8, c9
<1>2. DOMAIN V = 1 .. 10
  OBVIOUS
<1>3. /\ V[1][1] = c1 /\ V[2][1] = c2 /\ V[3][1] = c3 /\ V[4][1] = c4 /\ V[5][1] = c5
      /\ V[6][1] = c6 /\ V[7][1] = c7 /\ V[8][1] = c8 /\ V[9][1] = c9 /\ V[10][1] = TRUE
  OBVIOUS
<1>4. /\ V[1][2] = "INVALID_RESPONSE" /\ V[2][2] = "INVALID_RESPONSE"
      /\ V[3][2] = "AMBIGUOUS" /\ V[4][2] = "INVALID_RESPONSE" /\ V[5][2] = error
      /\ V[6][2] = "AMBIGUOUS" /\ V[7][2] = "END" /\ V[8][2] = "END"
      /\ V[9][2] = "MORE" /\ V[10][2] = "AMBIGUOUS"
  OBVIOUS
<1> HIDE DEF V
<1>first. \A k \in 1 .. 10 : V[k][1] /\ (\A j \in 1 .. (k - 1) : ~V[j][1]) => FirstOf(V) = V[k][2]
  BY <1>2, FirstOfIs
<1>5. ASSUME c1 PROVE FirstOf(V) = V[1][2]
  <2>1. V[1][1] /\ \A j \in 1 .. (1 - 1) : ~V[j][1]
    BY <1>3, <1>5
  <2> QED BY <1>first, <2>1
<1>6. ASSUME ~c1, c2 PROVE FirstOf(V) = V[2][2]
  <2>1. V[2][1] /\ \A j \in 1 .. (2 - 1) : ~V[j][1]
    BY <1>3, <1>6
  <2> QED BY <1>first, <2>1
<1>7. ASSUME ~c1, ~c2, c3 PROVE FirstOf(V) = V[3][2]
  <2>1. V[3][1] /\ \A j \in 1 .. (3 - 1) : ~V[j][1]
    BY <1>3, <1>7
  <2> QED BY <1>first, <2>1
<1>8. ASSUME ~c1, ~c2, ~c3, c4 PROVE FirstOf(V) = V[4][2]
  <2>1. V[4][1] /\ \A j \in 1 .. (4 - 1) : ~V[j][1]
    BY <1>3, <1>8
  <2> QED BY <1>first, <2>1
<1>9. ASSUME ~c1, ~c2, ~c3, ~c4, c5 PROVE FirstOf(V) = V[5][2]
  <2>1. V[5][1] /\ \A j \in 1 .. (5 - 1) : ~V[j][1]
    BY <1>3, <1>9
  <2> QED BY <1>first, <2>1
<1>10. ASSUME ~c1, ~c2, ~c3, ~c4, ~c5, c6 PROVE FirstOf(V) = V[6][2]
  <2>1. V[6][1] /\ \A j \in 1 .. (6 - 1) : ~V[j][1]
    BY <1>3, <1>10
  <2> QED BY <1>first, <2>1
<1>11. ASSUME ~c1, ~c2, ~c3, ~c4, ~c5, ~c6, c7 PROVE FirstOf(V) = V[7][2]
  <2>1. V[7][1] /\ \A j \in 1 .. (7 - 1) : ~V[j][1]
    BY <1>3, <1>11
  <2> QED BY <1>first, <2>1
<1>12. ASSUME ~c1, ~c2, ~c3, ~c4, ~c5, ~c6, ~c7, c8 PROVE FirstOf(V) = V[8][2]
  <2>1. V[8][1] /\ \A j \in 1 .. (8 - 1) : ~V[j][1]
    BY <1>3, <1>12
  <2> QED BY <1>first, <2>1
<1>13. ASSUME ~c1, ~c2, ~c3, ~c4, ~c5, ~c6, ~c7, ~c8, c9 PROVE FirstOf(V) = V[9][2]
  <2>1. V[9][1] /\ \A j \in 1 .. (9 - 1) : ~V[j][1]
    BY <1>3, <1>13
  <2> QED BY <1>first, <2>1
<1>14. ASSUME ~c1, ~c2, ~c3, ~c4, ~c5, ~c6, ~c7, ~c8, ~c9 PROVE FirstOf(V) = V[10][2]
  <2>1. V[10][1] /\ \A j \in 1 .. (10 - 1) : ~V[j][1]
    BY <1>3, <1>14
  <2> QED BY <1>first, <2>1
<1> QED
  BY <1>1, <1>4, <1>5, <1>6, <1>7, <1>8, <1>9, <1>10, <1>11, <1>12, <1>13, <1>14
     DEF c1, c2, c3, c4, c5, c6, c7, c8, c9

LEMMA VerdictRange ==
  ASSUME NEW items, NEW n, NEW error
  PROVE  \/ Verdict(items, n, error) \in {"INVALID_RESPONSE", "AMBIGUOUS", "END", "MORE"}
         \/ Verdict(items, n, error) = error /\ items = <<>> /\ error # None
BY VerdictIs

\* An empty page with an error neither ends a scan nor lets it go on.
LEMMA VerdictOfNothing ==
  ASSUME NEW n, NEW error, error # None
  PROVE  Verdict(<<>>, n, error) \in {"INVALID_RESPONSE", "AMBIGUOUS", error}
BY VerdictIs

\* A page continues where the earlier ones ended, and one that is not full is
\* the last.
LEMMA PagesJoin ==
  ASSUME Typed, NEW n \in Nat \ {0}
  PROVE  /\ Before(n) \in Seq(Items) /\ PageOf(n) \in Seq(Items)
         /\ Before(n) \o PageOf(n) = Before(n + 1)
         /\ Len(Before(n + 1)) >= Len(catalogue) => Before(n + 1) = catalogue
         /\ Len(PageOf(n)) < PageSize => Before(n + 1) = catalogue
<1> DEFINE k == (n - 1) * PageSize
           size == Len(catalogue)
<1>1. size \in Nat /\ catalogue \in Seq(Items) /\ PageSize \in Nat \ {0}
      /\ catalogue \in [1 .. size -> Items]
  BY LookupAssumption, LenProperties DEF Typed
<1>2. k \in Nat /\ n * PageSize = k + PageSize /\ ((n + 1) - 1) * PageSize = k + PageSize
  BY <1>1
<1> HIDE DEF k, size
<1>3. /\ Before(n) = SubSeq(catalogue, 1, IF k <= size THEN k ELSE size)
      /\ PageOf(n) = SubSeq(catalogue, k + 1,
                            IF k + PageSize <= size THEN k + PageSize ELSE size)
      /\ Before(n + 1) = SubSeq(catalogue, 1,
                                IF k + PageSize <= size THEN k + PageSize ELSE size)
  <2>1. /\ Min({k, size}) = IF k <= size THEN k ELSE size
        /\ Min({k + PageSize, size}) = IF k + PageSize <= size THEN k + PageSize ELSE size
    BY <1>1, <1>2, LesserOfTwo
  <2>2. /\ Before(n) = SubSeq(catalogue, 1, Min({k, size}))
        /\ PageOf(n) = SubSeq(catalogue, k + 1, Min({n * PageSize, size}))
        /\ Before(n + 1) = SubSeq(catalogue, 1, Min({((n + 1) - 1) * PageSize, size}))
    BY DEF Before, PageOf, k, size
  <2> QED BY <1>2, <2>1, <2>2
<1>4. SubSeq(catalogue, 1, size) = catalogue
  BY <1>1, SubSeqFull DEF size
<1>5. CASE size <= k
  <2>1. Before(n) = catalogue /\ Before(n + 1) = catalogue
    BY <1>1, <1>2, <1>3, <1>4, <1>5
  <2>2. PageOf(n) = <<>>
    BY <1>1, <1>2, <1>3, <1>5, SubSeqEmpty
  <2> QED BY <1>1, <2>1, <2>2, ConcatEmptySeq
<1>6. CASE k < size
  <2> DEFINE end == IF k + PageSize <= size THEN k + PageSize ELSE size
  <2>1. end \in k + 1 .. size /\ end \in k .. size /\ k \in 0 .. size
    BY <1>1, <1>2, <1>6
  <2>3. /\ \A i \in 1 .. k : catalogue[i] \in Items
        /\ \A i \in k + 1 .. end : catalogue[i] \in Items
        /\ \A i \in 1 .. end : catalogue[i] \in Items
    BY <1>1, <1>2, <2>1
  <2>4. Before(n) = SubSeq(catalogue, 1, k) /\ PageOf(n) = SubSeq(catalogue, k + 1, end)
        /\ Before(n + 1) = SubSeq(catalogue, 1, end)
    BY <1>1, <1>2, <1>3, <1>6
  <2> HIDE DEF end
  <2>2. SubSeq(catalogue, 1, k) \o SubSeq(catalogue, k + 1, end) = SubSeq(catalogue, 1, end)
    <3>1. 1 \in 1 .. Len(catalogue) + 1 /\ k \in 1 - 1 .. Len(catalogue) /\ end \in k .. Len(catalogue)
      BY <1>1, <2>1 DEF size
    <3> QED BY <1>1, <3>1, ConcatAdjacentSubSeq
  <2>5. Before(n) \in Seq(Items)
    BY <1>2, <2>3, <2>4, SubSeqProperties
  <2>6. PageOf(n) \in Seq(Items) /\ Len(PageOf(n)) = end - k
    <3>1. k + 1 \in Int /\ end \in Int /\ k + 1 <= end
      BY <1>1, <1>2, <2>1
    <3>2. /\ SubSeq(catalogue, k + 1, end) \in Seq(Items)
          /\ Len(SubSeq(catalogue, k + 1, end)) = (end - (k + 1)) + 1
      BY <3>1, <2>3, SubSeqProperties
    <3> QED BY <3>1, <3>2, <2>4, <1>2
  <2>7. Len(Before(n + 1)) = end
    <3>1. 1 \in Int /\ end \in Int /\ 1 <= end
      BY <1>1, <1>2, <2>1
    <3>2. Len(SubSeq(catalogue, 1, end)) = (end - 1) + 1
      BY <3>1, <2>3, SubSeqProperties
    <3> QED BY <3>1, <3>2, <2>4
  <2>8. end >= size => end = size
    BY <1>1, <2>1
  <2>9. end - k < PageSize => end = size
    BY <1>1, <1>2 DEF end
  <2> QED BY <1>4, <2>2, <2>4, <2>5, <2>6, <2>7, <2>8, <2>9 DEF size
<1> QED BY <1>1, <1>2, <1>5, <1>6

LEMMA StartsEmpty == ASSUME Typed PROVE Before(1) = <<>>
<1>1. Len(catalogue) \in Nat /\ (1 - 1) * PageSize = 0
  BY LookupAssumption DEF Typed
<1>2. Min({(1 - 1) * PageSize, Len(catalogue)}) = 0
  BY <1>1, LesserOfTwo
<1> QED BY <1>2, SubSeqEmpty DEF Before

LEMMA FirstPageIsSeq == ASSUME Typed PROVE FirstPage \in Seq(Items)
<1>1. PageOf(1) \in Seq(Items)
  BY PagesJoin
<1>2. PageSize \in Nat /\ (1 - 1) * PageSize + 1 = 1 /\ 1 * PageSize = PageSize
  BY LookupAssumption
<1> QED BY <1>1, <1>2 DEF PageOf, FirstPage

\* A scan that ends has read the whole catalogue.
LEMMA EndIsWhole ==
  ASSUME Typed, ScanIsPrefix, ~changed, NEW n \in Totals, NEW error,
         Verdict(PageOf(page), n, error) = "END",
         error = None \/ error \notin {"END", "MORE"}
  PROVE  seen \o PageOf(page) = catalogue
<1> DEFINE items == PageOf(page)
           first == IF page = 1 THEN n ELSE total
<1>1. /\ seen = Before(page) /\ seen \in Seq(Items) /\ items \in Seq(Items)
      /\ seen \o items = Before(page + 1)
      /\ Len(Before(page + 1)) >= Len(catalogue) => Before(page + 1) = catalogue
      /\ Len(items) < PageSize => Before(page + 1) = catalogue
      /\ first \in Totals /\ Len(seen) + Len(items) = Len(Before(page + 1))
  <2>1. page \in Nat \ {0} /\ seen = Before(page) /\ total \in Totals
    BY DEF Typed, ScanIsPrefix
  <2> QED BY <2>1, PagesJoin, ConcatProperties
<1>2. \/ items = <<>>
      \/ first # None /\ Len(seen) + Len(items) >= first
      \/ first = None /\ Len(items) < PageSize
  BY VerdictIs
<1>3. Len(catalogue) \in Nat /\ PageSize \in Nat \ {0} /\ Len(<<>>) = 0
      /\ Totals = {Len(catalogue), None, Len(catalogue) + 1}
      /\ Len(Before(page + 1)) \in Nat
  <2>1. Before(page + 1) \in Seq(Items)
    BY <1>1, ConcatProperties
  <2> QED BY <2>1, LenProperties, EmptySeq, LookupAssumption DEF Typed, Totals
<1> HIDE DEF items, first
<1>4. Before(page + 1) = catalogue
  BY <1>1, <1>2, <1>3
<1> QED BY <1>1, <1>4 DEF items

-----------------------------------------------------------------------------
(* Answers.                                                                *)

Unjudged == answer.status \notin {"FOUND", "NOT_FOUND"}
Answers == UniqueAnswer /\ AbsenceIsComplete

LEMMA UnjudgedIsSafe == ASSUME Unjudged' PROVE Answers'
BY DEF Unjudged, Answers, UniqueAnswer, AbsenceIsComplete

LEMMA StaleIsSafe == ASSUME changed' PROVE Answers'
BY DEF Answers, UniqueAnswer, AbsenceIsComplete

LEMMA JudgedIsSafe ==
  ASSUME Typed, UNCHANGED <<provider, catalogue, request>>,
         answer' = Judge(Range(catalogue))
  PROVE  Answers'
<1>1. /\ Judge(Range(catalogue)).status = "FOUND" =>
           Proved(Range(catalogue), Judge(Range(catalogue)).part)
      /\ Judge(Range(catalogue)).status = "NOT_FOUND" => Matches(Range(catalogue)) = {}
  BY JudgeIsProved DEF Typed
<1>2. Wanted' = Matches(Range(catalogue))
  BY DEF Wanted, Matches, OfMaker, OfMpn, OfNumber, Complete, Listed, Named
<1>3. answer'.status = "FOUND" =>
        /\ answer'.part \in Wanted'
        /\ request'.op = "exact" => Cardinality({i.mfr : i \in Wanted'}) = 1
        /\ provider' = "lcsc" => Cardinality({i.number : i \in Wanted'}) = 1
        /\ request'.op = "exact" => \A i \in Range(catalogue') : i.mpn # None
  BY <1>1, <1>2 DEF Proved
<1>4. answer'.status = "NOT_FOUND" => Wanted' = {}
  BY <1>1, <1>2
<1> HIDE DEF Wanted
<1> QED BY <1>3, <1>4 DEF Answers, UniqueAnswer, AbsenceIsComplete

LEMMA KeptIsSafe ==
  ASSUME Answers, UNCHANGED <<provider, catalogue, request, answer, changed>>,
         counted' => counted
  PROVE  Answers'
<1>1. Wanted' = Wanted
  BY DEF Wanted, OfMaker, OfMpn, OfNumber, Complete, Listed, Named
<1>2. UniqueAnswer'
  BY <1>1 DEF Answers, UniqueAnswer
<1>3. AbsenceIsComplete'
  BY <1>1 DEF Answers, AbsenceIsComplete
<1> QED BY <1>2, <1>3 DEF Answers

-----------------------------------------------------------------------------
(* Invariance.                                                             *)

LEMMA Initially == Init => IInv
<1> SUFFICES ASSUME Init PROVE IInv
  OBVIOUS
<1>1. Typed
  <2>1. <<>> \in Seq(Items) /\ catalogue \in Seq(Items)
    BY LookupAssumption, EmptySeq DEF Init
  <2>2. /\ now = 0 /\ token = 0 /\ live = 0 /\ attempt = 0 /\ page = 1 /\ total = None
        /\ phase = "idle" /\ seen = <<>> /\ changed = FALSE /\ counted = TRUE
        /\ provider \in {"digikey", "mouser", "lcsc"}
    BY DEF Init
  <2>3. seen \in Seq(Items)
    BY <2>1, <2>2
  <2>4. now \in Nat /\ token \in Nat /\ live \in Nat /\ attempt \in Nat /\ page \in Nat \ {0}
    BY <2>2
  <2>5. changed \in BOOLEAN /\ counted \in BOOLEAN
    BY <2>2
  <2>6. total \in Nat \cup {None} /\ phase \in {"idle", "oauth", "call"}
    BY <2>2
  <2> QED BY <2>1, <2>2, <2>3, <2>4, <2>5, <2>6 DEF Typed
<1>2. TokenIsShorter /\ OnlyScansTurnPages /\ OnlyDigiKeyFetches /\ TokenIsFresh
  BY DEF Init, TokenIsShorter, OnlyScansTurnPages, OnlyDigiKeyFetches, TokenIsFresh
<1>3. ScanIsPrefix
  BY <1>1, StartsEmpty DEF Init, ScanIsPrefix, Totals
<1>4. UniqueAnswer /\ AbsenceIsComplete
  BY LookupAssumption DEF Init, Failed, UniqueAnswer, AbsenceIsComplete
<1> QED BY <1>1, <1>2, <1>3, <1>4 DEF IInv

\* The end of a lookup leaves no scan behind.
LEMMA Ends ==
  ASSUME IInv, Answers', phase' = "idle", page' = 1, total' = None, seen' = <<>>,
         counted' \in BOOLEAN, UNCHANGED <<keys, server, now, token, request, attempt>>
  PROVE  IInv'
<1>1. Typed'
  BY EmptySeq DEF IInv, Typed, keys, server
<1>2. TokenIsShorter' /\ OnlyScansTurnPages' /\ OnlyDigiKeyFetches' /\ TokenIsFresh'
  BY DEF IInv, TokenIsShorter, OnlyScansTurnPages, OnlyDigiKeyFetches, TokenIsFresh, server
<1>3. ScanIsPrefix'
  <2>1. Before(1) = <<>> /\ catalogue' = catalogue
    BY StartsEmpty DEF IInv, server
  <2>2. (Before(1) = <<>>)'
    BY <2>1 DEF Before
  <2> QED BY <2>2 DEF ScanIsPrefix, Totals
<1> QED BY <1>1, <1>2, <1>3 DEF IInv, Answers

\* What a grant hands out ends before the server's token does.
LEMMA GrantIsShorter ==
  ASSUME NEW life \in Lifetimes, NEW latency \in 0 .. Margin, latency < life
  PROVE  /\ Usable(life) \in Nat /\ latency \in Nat /\ life \in Nat
         /\ latency + Usable(life) <= life
BY LookupAssumption DEF Usable

LEMMA GrantStep == ASSUME IInv, Grant PROVE IInv'
<1>1. PICK life \in Lifetimes, latency \in 0 .. Margin :
        /\ latency < life
        /\ now' = now + latency /\ live' = now + life
        /\ token' = now' + Usable(life)
  BY DEF Grant
<1>2. now \in Nat /\ Usable(life) \in Nat /\ latency \in Nat /\ life \in Nat
      /\ latency + Usable(life) <= life
  BY <1>1, GrantIsShorter DEF IInv, Typed
<1>3. now' \in Nat /\ live' \in Nat /\ token' \in Nat /\ token' <= live' /\ now' < live'
  BY <1>1, <1>2
<1>4. UNCHANGED <<provider, catalogue, page, total, seen, changed, counted, request, answer>>
      /\ phase' = "call" /\ attempt' = 0 /\ phase = "oauth"
  BY DEF Grant, keys, scan
<1>5. Typed' /\ TokenIsShorter' /\ TokenIsFresh'
  BY <1>3, <1>4 DEF IInv, Typed, TokenIsShorter, TokenIsFresh
<1>6. OnlyScansTurnPages' /\ OnlyDigiKeyFetches'
  BY <1>4 DEF IInv, OnlyScansTurnPages, OnlyDigiKeyFetches
<1>7. ScanIsPrefix'
  BY <1>4 DEF IInv, ScanIsPrefix, Before, Totals
<1>8. Answers'
  BY <1>4, KeptIsSafe DEF IInv, Answers
<1> QED BY <1>5, <1>6, <1>7, <1>8 DEF IInv, Answers

LEMMA StartStep == ASSUME IInv, NEW r \in Requests, Start(r) PROVE IInv'
<1>1. UNCHANGED <<provider, catalogue, live, now, token, page, total, seen>>
      /\ phase = "idle" /\ changed' = FALSE /\ counted' = TRUE /\ attempt' = 0
      /\ request' = r /\ (r.op \in {"media", "page"} => provider = "digikey")
  BY DEF Start, keys
<1>2. phase' \in {"idle", "oauth", "call"} /\ answer'.status \notin {"FOUND", "NOT_FOUND"}
  BY LookupAssumption DEF Start, Raise, End, Failed
<1>3. provider = "digikey" /\ phase' = "call" /\ r.op # "page" => Cached
  BY DEF Start, Raise, End
<1>4. page = 1 /\ total = None /\ seen = <<>>
  BY <1>1 DEF IInv, OnlyScansTurnPages
<1>5. Typed' /\ TokenIsShorter' /\ OnlyScansTurnPages' /\ OnlyDigiKeyFetches'
  BY <1>1, <1>2, <1>4 DEF IInv, Typed, TokenIsShorter, OnlyScansTurnPages, OnlyDigiKeyFetches
<1>6. ScanIsPrefix'
  <2>1. Before(1) = <<>>
    BY StartsEmpty DEF IInv
  <2> QED BY <1>1, <1>4, <2>1 DEF ScanIsPrefix, Before, Totals
<1>7. Answers'
  BY <1>2, UnjudgedIsSafe DEF Unjudged
<1>8. TokenIsFresh'
  BY <1>1, <1>3 DEF IInv, Typed, TokenIsShorter, TokenIsFresh, Cached
<1> QED BY <1>5, <1>6, <1>7, <1>8 DEF IInv, Answers

LEMMA EditStep == ASSUME IInv, Edit PROVE IInv'
<1>1. UNCHANGED <<provider, live, now, token, request, phase, attempt, page, total, seen,
                  counted, answer>> /\ changed' = TRUE
  BY DEF Edit, keys, scan
<1>2. catalogue' \in Seq(Items)
  <2>1. CASE catalogue # <<>> /\ catalogue' = Tail(catalogue)
    BY <2>1, HeadTailProperties DEF IInv, Typed
  <2>2. CASE \E i \in Items : catalogue' = Append(catalogue, i)
    BY <2>2, AppendProperties DEF IInv, Typed
  <2> QED BY <2>1, <2>2 DEF Edit
<1>3. Typed' /\ TokenIsShorter' /\ OnlyScansTurnPages' /\ OnlyDigiKeyFetches' /\ TokenIsFresh'
  BY <1>1, <1>2
     DEF IInv, Typed, TokenIsShorter, OnlyScansTurnPages, OnlyDigiKeyFetches, TokenIsFresh
<1>4. ScanIsPrefix' /\ Answers'
  BY <1>1, StaleIsSafe DEF ScanIsPrefix
<1> QED BY <1>3, <1>4 DEF IInv, Answers

\* Time, revocation and failed attempts touch neither scan nor answer.
LEMMA ClockStep ==
  ASSUME IInv, Revoke \/ Pass \/ Retry
  PROVE  IInv'
<1>1. UNCHANGED <<provider, catalogue, token, request, phase, page, total, seen, counted,
                  changed, answer>>
  BY DEF Revoke, Pass, Retry, keys, server, scan
<1>2. Typed' /\ TokenIsShorter' /\ TokenIsFresh'
  <2>1. CASE Revoke
    BY <1>1, <2>1 DEF IInv, Typed, TokenIsShorter, TokenIsFresh, Revoke
  <2>2. CASE Pass
    BY <1>1, <2>2 DEF IInv, Typed, TokenIsShorter, TokenIsFresh, Pass, server
  <2>3. CASE Retry
    <3>1. PICK d \in Nat : now' = now + d
      BY <2>3, LookupAssumption DEF Retry
    <3>2. now' \in Nat /\ attempt' \in Nat /\ attempt' # 0 /\ live' = live
      BY <3>1, <2>3 DEF Retry, IInv, Typed, server
    <3> QED BY <1>1, <3>2 DEF IInv, Typed, TokenIsShorter, TokenIsFresh
  <2> QED BY <2>1, <2>2, <2>3
<1>3. OnlyScansTurnPages' /\ OnlyDigiKeyFetches' /\ ScanIsPrefix'
  BY <1>1 DEF IInv, OnlyScansTurnPages, OnlyDigiKeyFetches, ScanIsPrefix, Before, Totals
<1>4. Answers'
  BY <1>1, KeptIsSafe DEF IInv, Answers
<1> QED BY <1>2, <1>3, <1>4 DEF IInv, Answers

\* One page of a search is judged only if it is the whole catalogue.
LEMMA WholeIsJudged ==
  ASSUME Typed, NEW n \in Totals, NEW returned \in Nat, returned <= Len(FirstPage)
  PROVE  \/ Whole(n, returned) = Judge(Range(catalogue))
         \/ Whole(n, returned).status \notin {"FOUND", "NOT_FOUND"}
<1> DEFINE size == Len(catalogue)
           end == IF PageSize <= size THEN PageSize ELSE size
<1>1. size \in Nat /\ PageSize \in Nat /\ SubSeq(catalogue, 1, size) = catalogue
      /\ \A i \in 1 .. size : catalogue[i] \in Items
  BY LookupAssumption, LenProperties, SubSeqFull DEF Typed
<1>2. FirstPage = SubSeq(catalogue, 1, end)
  BY <1>1, LesserOfTwo DEF FirstPage
<1>3. end \in Nat /\ end <= size
  BY <1>1
<1>4. Totals = {size, None, size + 1}
  BY DEF Totals
<1> HIDE DEF size, end
<1>5. Len(FirstPage) = end
  <2>1. 1 \in Int /\ end \in Int /\ \A i \in 1 .. end : catalogue[i] \in Items
    BY <1>1, <1>3
  <2>2. Len(SubSeq(catalogue, 1, end)) = IF 1 <= end THEN end - 1 + 1 ELSE 0
    BY <2>1, SubSeqProperties
  <2> QED BY <1>2, <1>3, <2>2
<1>6. CASE n = None
  BY <1>6 DEF Whole, Failed
<1>7. CASE n # None /\ n < returned
  BY <1>7 DEF Whole, Failed
<1>8. CASE n # None /\ n > returned
  BY <1>8 DEF Whole, Failed
<1>9. CASE n = returned
  <2>1. n \in {size, size + 1}
    BY <1>4, <1>9, LookupAssumption
  <2>2. n = size /\ end = size
    BY <1>1, <1>3, <1>5, <1>9, <2>1
  <2>3. FirstPage = catalogue
    BY <1>1, <1>2, <2>2
  <2>4. ~(n < returned) /\ ~(n > returned) /\ n # None
    BY <1>9, LookupAssumption
  <2> QED BY <2>3, <2>4 DEF Whole
<1>10. n = None \/ n < returned \/ n > returned \/ n = returned
  BY <1>1, <1>4
<1> QED BY <1>6, <1>7, <1>8, <1>9, <1>10

\* A lookup that ends with one request, or an error.
LEMMA CallStep ==
  ASSUME IInv, GrantRefused \/ RequestFails \/ SearchDigiKey \/ SearchMouser
               \/ FetchMedia \/ FetchPage
  PROVE  IInv'
<1>1. /\ phase' = "idle" /\ phase # "idle"
      /\ UNCHANGED <<keys, server, now, token, request, attempt, page, total, seen, counted>>
  BY DEF GrantRefused, RequestFails, SearchDigiKey, SearchMouser, FetchMedia, FetchPage,
         Raise, End, scan
<1>2. page = 1 /\ total = None /\ seen = <<>>
  BY DEF IInv, OnlyScansTurnPages, OnlyDigiKeyFetches, GrantRefused, RequestFails,
         SearchDigiKey, SearchMouser, FetchMedia, FetchPage
<1>3. Answers'
  <2>1. CASE SearchDigiKey
    <3>1. PICK n \in Totals : answer' = Whole(n, Cardinality(Range(FirstPage)))
      BY <2>1 DEF SearchDigiKey, End, Products
    <3>2. FirstPage \in Seq(Items)
      BY FirstPageIsSeq DEF IInv
    <3>3. Cardinality(Range(FirstPage)) \in Nat
          /\ Cardinality(Range(FirstPage)) <= Len(FirstPage)
      BY <3>2, RangeIsFinite
    <3>4. answer' = Judge(Range(catalogue)) \/ answer'.status \notin {"FOUND", "NOT_FOUND"}
      BY <3>1, <3>3, WholeIsJudged DEF IInv
    <3> QED BY <1>1, <3>4, JudgedIsSafe, UnjudgedIsSafe DEF IInv, Unjudged, keys, server
  <2>2. CASE SearchMouser
    <3>1. PICK n \in Totals : answer' = Whole(n, Len(FirstPage))
      BY <2>2 DEF SearchMouser, End, Parts
    <3>2. FirstPage \in Seq(Items)
      BY FirstPageIsSeq DEF IInv
    <3>3. Len(FirstPage) \in Nat /\ Len(FirstPage) <= Len(FirstPage)
      BY <3>2, LenProperties
    <3>4. answer' = Judge(Range(catalogue)) \/ answer'.status \notin {"FOUND", "NOT_FOUND"}
      BY <3>1, <3>3, WholeIsJudged DEF IInv
    <3> QED BY <1>1, <3>4, JudgedIsSafe, UnjudgedIsSafe DEF IInv, Unjudged, keys, server
  <2>3. CASE GrantRefused \/ RequestFails \/ FetchMedia \/ FetchPage
    <3>1. answer'.status \notin {"FOUND", "NOT_FOUND"}
      BY <2>3 DEF GrantRefused, RequestFails, RequestErrors, FetchMedia, FetchPage,
                  Raise, End, Failed
    <3> QED BY <3>1, UnjudgedIsSafe DEF Unjudged
  <2> QED BY <2>1, <2>2, <2>3
<1>4. counted' \in BOOLEAN
  BY <1>1 DEF IInv, Typed
<1> QED BY <1>1, <1>2, <1>3, <1>4, Ends

\* What the scan of a catalogue concludes from a page.
LEMMA ConcludeStep ==
  ASSUME IInv, phase = "call", provider = "lcsc",
         NEW items \in Seq(Items), NEW n \in Nat \cup {None}, NEW verdict,
         Conclude(verdict, items, n),
         verdict # "FOUND",
         verdict = "END" /\ ~changed => seen \o items = catalogue,
         verdict = "MORE" /\ ~changed => seen \o items = Before(page + 1) /\ n \in Totals,
         verdict = "NOT_FOUND" /\ ~changed /\ n # None => catalogue = <<>>
  PROVE  IInv'
<1>1. UNCHANGED <<keys, server, now, token, request, attempt>> /\ counted' \in BOOLEAN
      /\ counted' = (counted /\ n # None)
  BY DEF Conclude
<1>2. CASE verdict = "MORE"
  <2>1. page' = page + 1 /\ seen' = seen \o items
        /\ total' = (IF page = 1 THEN n ELSE total) /\ UNCHANGED <<phase, answer>>
    BY <1>2 DEF Conclude
  <2>2. Typed'
    <3>1. seen' \in Seq(Items)
      BY <2>1, ConcatProperties DEF IInv, Typed
    <3> QED BY <1>1, <2>1, <3>1 DEF IInv, Typed, keys, server
  <2>3. TokenIsShorter' /\ OnlyScansTurnPages' /\ OnlyDigiKeyFetches' /\ TokenIsFresh'
    BY <1>1, <2>1 DEF IInv, TokenIsShorter, OnlyScansTurnPages, OnlyDigiKeyFetches,
                      TokenIsFresh, keys, server
  <2>4. ScanIsPrefix'
    BY <1>1, <1>2, <2>1 DEF IInv, ScanIsPrefix, Before, Totals, server
  <2>5. Answers'
    BY <1>1, <2>1, KeptIsSafe DEF IInv, Answers, keys, server
  <2> QED BY <2>2, <2>3, <2>4, <2>5 DEF IInv, Answers
<1>3. CASE verdict # "MORE"
  <2>1. phase' = "idle" /\ page' = 1 /\ total' = None /\ seen' = <<>>
        /\ answer' = IF verdict = "END" THEN Judge(Range(seen \o items)) ELSE Failed(verdict)
    BY <1>3 DEF Conclude, Forget, Raise, End
  <2>2. Answers'
    <3>1. CASE changed
      BY <1>1, <3>1, StaleIsSafe DEF server
    <3>2. CASE ~changed /\ verdict = "END"
      BY <1>1, <2>1, <3>2, JudgedIsSafe DEF IInv, keys, server
    <3>3. CASE ~changed /\ verdict # "END" /\ verdict # "NOT_FOUND"
      BY <2>1, <3>3, UnjudgedIsSafe DEF Unjudged, Failed
    <3>4. CASE ~changed /\ verdict = "NOT_FOUND" /\ n = None
      BY <1>1, <2>1, <3>4 DEF Answers, UniqueAnswer, AbsenceIsComplete, Failed
    <3>5. CASE ~changed /\ verdict = "NOT_FOUND" /\ n # None
      <4>1. catalogue' = <<>> /\ answer'.status = "NOT_FOUND"
        BY <1>1, <2>1, <3>5 DEF server, Failed
      <4>2. Range(catalogue') = {}
        BY <4>1 DEF Range
      <4>3. Wanted' = {}
        BY <4>2 DEF Wanted, OfMaker, OfMpn, OfNumber
      <4> QED BY <4>1, <4>3 DEF Answers, UniqueAnswer, AbsenceIsComplete
    <3> QED BY <3>1, <3>2, <3>3, <3>4, <3>5
  <2> QED BY <1>1, <2>1, <2>2, Ends
<1> QED BY <1>2, <1>3

LEMMA ReadPageStep == ASSUME IInv, ReadPage PROVE IInv'
<1> DEFINE items == PageOf(page)
<1>1. PICK n \in Totals : Conclude(Verdict(items, n, ClientError(items, n)), items, n)
  BY DEF ReadPage
<1> DEFINE verdict == Verdict(items, n, ClientError(items, n))
<1>2. phase = "call" /\ provider = "lcsc"
  BY DEF ReadPage
<1>3. page \in Nat \ {0} /\ Typed
  BY DEF IInv, Typed
<1>4. items \in Seq(Items) /\ Before(page) \o items = Before(page + 1)
  BY <1>3, PagesJoin
<1>5. n \in Nat \cup {None} /\ Len(catalogue) \in Nat
  BY <1>3 DEF Typed, Totals
<1>6. ClientError(items, n) \in {None, "NOT_FOUND"}
      /\ (ClientError(items, n) # None => n \in {None, 0})
  BY LookupAssumption DEF ClientError
<1>7. \/ verdict \in {"INVALID_RESPONSE", "AMBIGUOUS", "END", "MORE"}
      \/ verdict = ClientError(items, n) /\ ClientError(items, n) # None
  BY VerdictRange
<1>8. verdict # "FOUND"
  BY <1>6, <1>7
<1>9. verdict = "END" /\ ~changed => seen \o items = catalogue
  <2> SUFFICES ASSUME verdict = "END", ~changed PROVE seen \o items = catalogue
    OBVIOUS
  <2>1. ClientError(items, n) = None \/ ClientError(items, n) \notin {"END", "MORE"}
    BY DEF ClientError
  <2>2. ScanIsPrefix
    BY DEF IInv
  <2> QED BY <1>3, <2>1, <2>2, EndIsWhole
<1>10. verdict = "MORE" /\ ~changed => seen \o items = Before(page + 1) /\ n \in Totals
  BY <1>4 DEF IInv, ScanIsPrefix
<1>11. verdict = "NOT_FOUND" /\ ~changed /\ n # None => catalogue = <<>>
  <2> SUFFICES ASSUME verdict = "NOT_FOUND", n # None PROVE catalogue = <<>>
    OBVIOUS
  <2>1. n = 0
    BY <1>6, <1>7
  <2>2. Len(catalogue) = 0
    BY <1>5, <2>1, LookupAssumption DEF Totals
  <2> QED BY <1>3, <2>2, EmptySeq DEF Typed
<1> HIDE DEF items, verdict
<1> QED BY <1>1, <1>2, <1>4, <1>5, <1>8, <1>9, <1>10, <1>11, ConcludeStep DEF verdict

LEMMA PageFailsStep == ASSUME IInv, PageFails PROVE IInv'
<1>1. PICK e \in {"NETWORK_ERROR", "INVALID_RESPONSE"} :
        Conclude(Verdict(<<>>, None, e), <<>>, None)
  BY DEF PageFails
<1>2. phase = "call" /\ provider = "lcsc" /\ <<>> \in Seq(Items)
  BY EmptySeq DEF PageFails
<1>3. Verdict(<<>>, None, e) \in {"NETWORK_ERROR", "INVALID_RESPONSE", "AMBIGUOUS"}
  <2>1. e # None
    BY LookupAssumption
  <2> QED BY <2>1, VerdictOfNothing
<1> DEFINE verdict == Verdict(<<>>, None, e)
<1>4. verdict \notin {"FOUND", "END", "MORE", "NOT_FOUND"}
  BY <1>3
<1> HIDE DEF verdict
<1> QED BY <1>1, <1>2, <1>4, ConcludeStep DEF verdict

LEMMA Invariance == Spec => []IInv
<1>1. IInv /\ [Next]_vars => IInv'
  <2> SUFFICES ASSUME IInv, [Next]_vars PROVE IInv'
    OBVIOUS
  <2>1. CASE UNCHANGED vars
    <3>1. UNCHANGED <<provider, catalogue, live, changed, now, token, request, phase,
                      attempt, page, total, seen, counted, answer>>
      BY <2>1 DEF vars, keys, server, scan
    <3>2. Answers'
      BY <3>1, KeptIsSafe DEF IInv, Answers
    <3>3. Typed' /\ TokenIsShorter' /\ TokenIsFresh'
      BY <3>1 DEF IInv, Typed, TokenIsShorter, TokenIsFresh
    <3>4. OnlyScansTurnPages' /\ OnlyDigiKeyFetches' /\ ScanIsPrefix'
      BY <3>1 DEF IInv, OnlyScansTurnPages, OnlyDigiKeyFetches, ScanIsPrefix, Before, Totals
    <3> QED BY <3>2, <3>3, <3>4 DEF IInv, Answers
  <2>2. CASE Edit \/ Revoke \/ Pass \/ Retry
    BY <2>2, EditStep, ClockStep
  <2>3. CASE \E r \in Requests : Start(r)
    BY <2>3, StartStep
  <2>4. CASE Grant
    BY <2>4, GrantStep
  <2>5. CASE GrantRefused \/ RequestFails \/ SearchDigiKey \/ SearchMouser
             \/ FetchMedia \/ FetchPage
    BY <2>5, CallStep
  <2>6. CASE ReadPage \/ PageFails
    BY <2>6, ReadPageStep, PageFailsStep
  <2> QED BY <2>1, <2>2, <2>3, <2>4, <2>5, <2>6 DEF Next, Work
<1> QED BY <1>1, Initially, PTL DEF Spec

-----------------------------------------------------------------------------
(* Theorems.                                                               *)

\* A part that a provider returns from a catalogue at rest is the only one of
\* its identity there, whatever the catalogue and however it falls into pages
\* (lcsc.py:228-285, digikey.py:499-555, mouser.py:242-267, base.py:345-406).
THEOREM AnswersAreUnique == Spec => []UniqueAnswer
<1>1. IInv => UniqueAnswer
  BY DEF IInv
<1> QED BY <1>1, Invariance, PTL

\* NOT_FOUND from a catalogue at rest whose totals were given means that there
\* is no such part on any of its pages (lcsc.py:267-283).
THEOREM AbsencesAreComplete == Spec => []AbsenceIsComplete
<1>1. IInv => AbsenceIsComplete
  BY DEF IInv
<1> QED BY <1>1, Invariance, PTL

\* The first attempt of a request never carries an expired token, for every
\* lifetime a server grants and every delay within the margin (digikey.py:136-137).
THEOREM TokensAreFresh == Spec => []TokenIsFresh
<1>1. IInv => TokenIsFresh
  BY DEF IInv
<1> QED BY <1>1, Invariance, PTL

==============================================================================

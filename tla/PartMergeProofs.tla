--------------------------- MODULE PartMergeProofs ---------------------------
(***************************************************************************)
(* One part out of the answers, for every set of answers, requests, CAD    *)
(* data and mirrors and every normal form of a value.                      *)
(***************************************************************************)
EXTENDS PartMerge, FiniteSetTheorems, SequenceTheorems, WellFoundedInduction, TLAPS

-----------------------------------------------------------------------------
(* The inductive invariant.                                                *)

Pairs(source, value) == [source |-> source, value |-> value]

\* Each provider answered once, and every answer is kept, or, if it is not LCSC's,
\* rejected with an error and, if it names one, its manufacturer.
EveryAnswerIsKept ==
    /\ heard \subseteq Answers /\ records \in Seq(Answers) /\ Range(records) \subseteq heard
    /\ \A a, b \in heard : a.provider = b.provider => a = b
    /\ \A a \in heard : \/ a \in Range(records)
                        \/ /\ request.maker = None /\ a.provider # "lcsc" /\ a.provider \in errors
                           /\ a.maker # None => <<a.provider, a.maker>> \in rejected

\* The first evidence is the seed; without one no answer names a manufacturer
\* unless the user does.
SeedIsFirst ==
    /\ request \in Requests /\ cad \in Symbols
    /\ cad.maker # None => seed = Pairs("easyeda", cad.maker)
    /\ seed = None => /\ evidence = {}
                      /\ request.maker = None =>
                           \A r \in Range(records) : r.maker = None

MergedIsOfRecords == merged # None => merged = Merged(records)

\* The symbol was completed from the merged part.
SymbolIsOfPart ==
    /\ symbol # None => merged \notin {None, Mismatch}
    /\ symbol \notin {None, Refused} =>
         /\ ~Unavailable /\ ~Contradicts(cad.mpn, merged.mpn)
         /\ ~Contradicts(cad.number, Number)
         /\ symbol = [maker |-> Fill(cad.maker, merged.maker),
                      mpn |-> Fill(cad.mpn, merged.mpn),
                      number |-> Fill(cad.number, Number), sheet |-> Link]

IInv == EveryAnswerIsKept /\ SeedIsFirst /\ MergedIsOfRecords /\ SymbolIsOfPart

-----------------------------------------------------------------------------
(* Sequences.                                                              *)

LEMMA ElementsOfRange ==
  ASSUME NEW S, NEW s \in Seq(S)
  PROVE  /\ Len(s) \in Nat /\ DOMAIN s = 1 .. Len(s) /\ Range(s) \subseteq S
         /\ \A n \in 1 .. Len(s) : s[n] \in Range(s)
         /\ \A x \in Range(s) : \E n \in 1 .. Len(s) : s[n] = x
         /\ IsFiniteSet(Range(s))
<1>1. Len(s) \in Nat /\ DOMAIN s = 1 .. Len(s) /\ \A n \in 1 .. Len(s) : s[n] \in S
  BY LenProperties, ElementOfSeq
<1>2. s \in Surjection(1 .. Len(s), Range(s))
  <2>1. s \in [1 .. Len(s) -> Range(s)]
    BY <1>1, LenProperties DEF Range
  <2> QED BY <1>1, <2>1 DEF Range, Surjection
<1>3. IsFiniteSet(1 .. Len(s))
  BY <1>1, FS_Interval
<1>4. IsFiniteSet(Range(s))
  BY <1>2, <1>3, FS_Surjection
<1> QED BY <1>1, <1>4 DEF Range

LEMMA RangeOfAppend ==
  ASSUME NEW S, NEW s \in Seq(S), NEW x \in S
  PROVE  Append(s, x) \in Seq(S) /\ Range(Append(s, x)) = Range(s) \cup {x}
<1> DEFINE t == Append(s, x)
<1>1. /\ t \in Seq(S) /\ Len(t) = Len(s) + 1 /\ t[Len(s) + 1] = x
      /\ \A n \in 1 .. Len(s) : t[n] = s[n]
  BY AppendProperties
<1>2. /\ Len(s) \in Nat /\ DOMAIN s = 1 .. Len(s)
  BY ElementsOfRange
<1>3. DOMAIN t = 1 .. (Len(s) + 1)
  BY <1>1, ElementsOfRange
<1> HIDE DEF t
<1>4. \A n \in 1 .. (Len(s) + 1) : n = Len(s) + 1 \/ n \in 1 .. Len(s)
  BY <1>2
<1>5. Len(s) + 1 \in 1 .. (Len(s) + 1) /\ \A n \in 1 .. Len(s) : n \in 1 .. (Len(s) + 1)
  BY <1>2
<1>6. Range(t) \subseteq Range(s) \cup {x}
  BY <1>1, <1>2, <1>3, <1>4 DEF Range
<1>7. Range(s) \subseteq Range(t) /\ x \in Range(t)
  BY <1>1, <1>2, <1>3, <1>5 DEF Range
<1> QED BY <1>1, <1>6, <1>7 DEF t

LEMMA RangeOfConcat ==
  ASSUME NEW S, NEW s \in Seq(S), NEW t \in Seq(S)
  PROVE  s \o t \in Seq(S) /\ Range(s \o t) = Range(s) \cup Range(t)
<1> DEFINE u == s \o t
<1>1. /\ u \in Seq(S) /\ Len(u) = Len(s) + Len(t)
      /\ \A n \in 1 .. Len(u) : u[n] = IF n <= Len(s) THEN s[n] ELSE t[n - Len(s)]
  BY ConcatProperties
<1>2. /\ Len(s) \in Nat /\ DOMAIN s = 1 .. Len(s) /\ Len(t) \in Nat /\ DOMAIN t = 1 .. Len(t)
  BY ElementsOfRange
<1>3. DOMAIN u = 1 .. Len(u) /\ \A x \in Range(u) : \E n \in 1 .. Len(u) : u[n] = x
  BY <1>1, ElementsOfRange
<1> HIDE DEF u
<1>4. ASSUME NEW x \in Range(u) PROVE x \in Range(s) \cup Range(t)
  <2>1. PICK n \in 1 .. Len(u) : u[n] = x
    BY <1>3
  <2>2. CASE n <= Len(s)
    BY <1>1, <1>2, <2>1, <2>2 DEF Range
  <2>3. CASE ~(n <= Len(s))
    <3>1. n - Len(s) \in 1 .. Len(t) /\ x = t[n - Len(s)]
      BY <1>1, <1>2, <2>1, <2>3
    <3> QED BY <1>2, <3>1 DEF Range
  <2> QED BY <2>2, <2>3
<1>5. ASSUME NEW n \in 1 .. Len(s) PROVE s[n] \in Range(u)
  <2>1. n \in 1 .. Len(u) /\ u[n] = s[n]
    BY <1>1, <1>2
  <2> QED BY <1>3, <2>1 DEF Range
<1>6. ASSUME NEW n \in 1 .. Len(t) PROVE t[n] \in Range(u)
  <2>1. n + Len(s) \in 1 .. Len(u) /\ ~(n + Len(s) <= Len(s)) /\ n + Len(s) - Len(s) = n
    BY <1>1, <1>2
  <2>2. u[n + Len(s)] = t[n]
    BY <1>1, <2>1
  <2> QED BY <1>3, <2>1, <2>2 DEF Range
<1> QED BY <1>1, <1>2, <1>4, <1>5, <1>6 DEF Range, u

\* A finite set is the range of each sequence that has its elements once.
LEMMA SequencesOfASet ==
  ASSUME NEW S, IsFiniteSet(S)
  PROVE  /\ \A s \in SetToSeqs(S) : Range(s) = S
         /\ SetToSeq(S) \in Seq(S) /\ Range(SetToSeq(S)) = S
<1> DEFINE n == Cardinality(S)
           D == 1 .. n
<1>1. n \in Nat /\ ExistsBijection(D, S)
  BY FS_CardinalityType
<1>2. IsFiniteSet(D) /\ Cardinality(D) = n
  <2>1. IsFiniteSet(D) /\ Cardinality(D) = IF 1 > n THEN 0 ELSE n - 1 + 1
    BY <1>1, FS_Interval
  <2> QED BY <1>1, <2>1
<1>3. ASSUME NEW s \in [D -> S], IsInjective(s) PROVE Range(s) = S /\ s \in Seq(S)
  <2>1. s \in Injection(D, S)
    BY <1>3 DEF Injection
  <2>2. s \in Surjection(D, S)
    BY <1>2, <2>1, FS_Injection
  <2>3. Range(s) = S
    BY <2>2 DEF Surjection, Range
  <2>4. s \in Seq(S)
    BY <1>1
  <2> QED BY <2>3, <2>4
<1>4. SetToSeq(S) \in [D -> S] /\ IsInjective(SetToSeq(S))
  <2>1. \E s \in [D -> S] : IsInjective(s)
    BY <1>1 DEF ExistsBijection, Bijection, Injection
  <2> QED BY <2>1 DEF SetToSeq
<1>5. ASSUME NEW s \in SetToSeqs(S) PROVE Range(s) = S
  <2>1. s \in [D -> S] /\ \A i, j \in D : i # j => s[i] # s[j]
    BY DEF SetToSeqs
  <2>2. IsInjective(s)
    BY <2>1 DEF IsInjective
  <2> QED BY <1>3, <2>1, <2>2
<1> QED BY <1>3, <1>4, <1>5

\* A set of natural numbers that is not empty has a least one: of the finite
\* sets of those up to n, n \in S, one has none below it.
LEMMA LeastExists ==
  ASSUME NEW S, S \subseteq Nat, S # {}
  PROVE  Min(S) \in S
<1> DEFINE UpTo(n) == {s \in S : s <= n}
           Family == {UpTo(n) : n \in S}
<1>1. \A n \in S : IsFiniteSet(UpTo(n)) /\ UpTo(n) \in SUBSET Nat
  <2> TAKE n \in S
  <2>1. UpTo(n) \in SUBSET Nat /\ n \in Nat /\ \A s \in UpTo(n) : s <= n
    OBVIOUS
  <2> QED BY <2>1, FS_BoundedSetOfNaturals
<1>2. Family \subseteq FiniteSubsetsOf(Nat) /\ Family # {}
  BY <1>1 DEF FiniteSubsetsOf
<1>3. PICK T \in Family : \A U \in Family : <<U, T>> \notin StrictSubsetOrdering(Nat)
  BY <1>2, FS_StrictSubsetOrderingWellFounded, WFMin
<1>4. PICK x \in S : T = UpTo(x)
  BY <1>3
<1>5. ASSUME NEW y \in S, y < x PROVE FALSE
  <2>1. x \in Nat /\ y \in Nat /\ ~(x <= y) /\ \A s \in Nat : s <= y => s <= x
    BY <1>5
  <2> HIDE <1>5
  <2>2. UpTo(y) \subseteq UpTo(x) /\ x \in UpTo(x) /\ x \notin UpTo(y)
    BY <2>1, x <= x
  <2>3. <<UpTo(y), UpTo(x)>> \in StrictSubsetOrdering(Nat)
    BY <2>2, <1>1 DEF StrictSubsetOrdering
  <2> QED BY <2>3, <1>3, <1>4
<1>6. \A y \in S : x =< y
  BY <1>5
<1> QED BY <1>6 DEF Min

-----------------------------------------------------------------------------
(* The helpers of merge_records.                                           *)

\* Sorting loses no record and adds none.
LEMMA SortedHasAll ==
  ASSUME NEW rs \in Seq(Answers)
  PROVE  Sorted(rs) \in Seq(Answers) /\ Range(Sorted(rs)) = Range(rs)
<1> DEFINE Of(provider) == {r \in Range(rs) : r.provider = provider}
<1>1. IsFiniteSet(Range(rs)) /\ Range(rs) \subseteq Answers
  BY ElementsOfRange
<1>2. ASSUME NEW provider
      PROVE  SetToSeq(Of(provider)) \in Seq(Answers)
             /\ Range(SetToSeq(Of(provider))) = Of(provider)
  <2>1. IsFiniteSet(Of(provider)) /\ Of(provider) \subseteq Answers
    BY <1>1, FS_Subset
  <2> HIDE DEF Of
  <2>2. SetToSeq(Of(provider)) \in Seq(Of(provider))
        /\ Range(SetToSeq(Of(provider))) = Of(provider)
    BY <2>1, SequencesOfASet
  <2> QED BY <2>1, <2>2
<1>3. Sorted(rs) = SetToSeq(Of("lcsc")) \o SetToSeq(Of("digikey")) \o SetToSeq(Of("mouser"))
  BY DEF Sorted
<1>4. Range(rs) = Of("lcsc") \cup Of("digikey") \cup Of("mouser")
  BY <1>1, MergeAssumption DEF Providers
<1> DEFINE lcsc == SetToSeq(Of("lcsc"))
           digikey == SetToSeq(Of("digikey"))
           mouser == SetToSeq(Of("mouser"))
           first == lcsc \o digikey
<1>5. /\ lcsc \in Seq(Answers) /\ digikey \in Seq(Answers) /\ mouser \in Seq(Answers)
      /\ Range(rs) = Range(lcsc) \cup Range(digikey) \cup Range(mouser)
      /\ Sorted(rs) = first \o mouser
  BY <1>2, <1>3, <1>4
<1> HIDE DEF lcsc, digikey, mouser
<1>6. first \in Seq(Answers) /\ Range(first) = Range(lcsc) \cup Range(digikey)
  BY <1>5, RangeOfConcat
<1> HIDE DEF first
<1>7. first \o mouser \in Seq(Answers) /\ Range(first \o mouser) = Range(first) \cup Range(mouser)
  BY <1>5, <1>6, RangeOfConcat
<1> QED BY <1>5, <1>6, <1>7

LEMMA ThoseFit ==
  ASSUME NEW rs
  PROVE  /\ Range(Those(rs, Exact)) = {r \in Range(rs) : Exact(r)}
         /\ DOMAIN Those(rs, Exact) \subseteq DOMAIN rs
  BY DEF Those, Range

\* The first value of a field is one that a record says, if any does.
LEMMA FirstIsSaid ==
  ASSUME NEW rs, DOMAIN rs \subseteq Nat, NEW f
  PROVE  /\ \A r \in Range(rs) : r[f] # None =>
              \E s \in Range(rs) : s[f] # None /\ First(rs, f).value = s[f]
         /\ (\A r \in Range(rs) : r[f] = None) => First(rs, f).value = None
<1> DEFINE said == {n \in DOMAIN rs : rs[n][f] # None}
<1>1. First(rs, f).value = IF said = {} THEN None ELSE rs[Min(said)][f]
  BY DEF First
<1>2. said # {} => Min(said) \in said
  BY LeastExists
<1>3. ASSUME NEW r \in Range(rs), r[f] # None
      PROVE  \E s \in Range(rs) : s[f] # None /\ First(rs, f).value = s[f]
  <2>1. said # {}
    BY <1>3 DEF Range
  <2> QED BY <1>1, <1>2, <2>1 DEF Range
<1>4. ASSUME \A r \in Range(rs) : r[f] = None PROVE First(rs, f).value = None
  BY <1>1, <1>4 DEF Range
<1> QED BY <1>3, <1>4

\* Two values that are compared agree or are in the conflict.
LEMMA ComparedOrListed ==
  ASSUME NEW f, NEW said, NEW selected, NEW s \in said, NEW t \in said
  PROVE  \/ Agree(s[2], t[2])
         \/ \E c \in Conflict(f, said, selected) : c.field = f /\ s \in c.values
  BY DEF Conflict

\* The datasheet is the first that fits, and a link that is no product page fits.
LEMMA SheetIsSaid ==
  ASSUME NEW rs, DOMAIN rs \subseteq Nat
  PROVE  /\ Sheet(rs) # None =>
              /\ Sheet(rs) \in Links
              /\ \E r \in Range(rs) : r.sheet # None /\ Sheet(rs) = r.sheet
         /\ \A a \in Range(rs) :
              \/ a.sheet = None \/ a.sheet \notin Links \/ Sheet(rs) # None
              \/ \E b \in Range(rs) : b.page # None /\ Agree(a.sheet, b.page)
<1> DEFINE Fits(r) == r.sheet # None /\ r.sheet \in Links /\ Normal(r.sheet) \notin Pages(rs)
           fit == Those(rs, Fits)
           own == Those(fit, LAMBDA r : r.sheet \notin Mirrors)
           best == IF DOMAIN own = {} THEN fit ELSE own
<1>1. fit = [n \in {m \in DOMAIN rs : Fits(rs[m])} |-> rs[n]]
  BY DEF Those
<1>2. own = [n \in {m \in DOMAIN fit : fit[m].sheet \notin Mirrors} |-> fit[n]]
  BY DEF Those
<1>3. Sheet(rs) = First(best, "sheet").value
  BY DEF Sheet
<1> HIDE DEF fit, own
<1>4. /\ DOMAIN fit \subseteq DOMAIN rs
      /\ \A n \in DOMAIN fit : fit[n] = rs[n] /\ fit[n].sheet # None /\ fit[n].sheet \in Links
      /\ DOMAIN own \subseteq DOMAIN fit /\ \A n \in DOMAIN own : own[n] = fit[n]
  BY <1>1, <1>2
<1>5. /\ DOMAIN best \subseteq DOMAIN rs
      /\ \A n \in DOMAIN best : best[n] = rs[n] /\ best[n].sheet # None /\ best[n].sheet \in Links
      /\ DOMAIN fit # {} => DOMAIN best # {}
  BY <1>4
<1> HIDE DEF best, Fits
<1>6. /\ Range(best) \subseteq Range(rs)
      /\ \A r \in Range(best) : r["sheet"] # None /\ r["sheet"] \in Links
      /\ DOMAIN fit # {} => Range(best) # {}
  BY <1>5 DEF Range
<1>7. /\ \A r \in Range(best) : r["sheet"] # None =>
           \E s \in Range(best) : s["sheet"] # None /\ Sheet(rs) = s["sheet"]
      /\ (\A r \in Range(best) : r["sheet"] = None) => Sheet(rs) = None
  BY <1>3, <1>5, FirstIsSaid
<1>8. ASSUME Sheet(rs) # None
      PROVE  Sheet(rs) \in Links /\ \E r \in Range(rs) : r.sheet # None /\ Sheet(rs) = r.sheet
  <2>1. PICK s \in Range(best) : s["sheet"] # None /\ Sheet(rs) = s["sheet"]
    BY <1>6, <1>7, <1>8
  <2> QED BY <1>6, <2>1
<1>9. ASSUME NEW a \in Range(rs), Fits(a) PROVE Sheet(rs) # None
  <2>1. DOMAIN fit # {}
    BY <1>1, <1>9 DEF Range
  <2>2. PICK r \in Range(best) : TRUE
    BY <1>6, <2>1
  <2>3. PICK s \in Range(best) : s["sheet"] # None /\ Sheet(rs) = s["sheet"]
    BY <1>6, <1>7, <2>2
  <2> QED BY <2>3
<1>10. ASSUME NEW a \in Range(rs), ~Fits(a), a.sheet # None, a.sheet \in Links
       PROVE  \E b \in Range(rs) : b.page # None /\ Agree(a.sheet, b.page)
  BY <1>10 DEF Fits, Pages, Agree
<1> QED BY <1>8, <1>9, <1>10

-----------------------------------------------------------------------------
(* The invariant.                                                          *)

LEMMA InitInv == Init => IInv
<1> SUFFICES ASSUME Init PROVE IInv
  OBVIOUS
<1>1. records \in Seq(Answers) /\ Range(records) = {}
  BY EmptySeq DEF Init, Range
<1>2. EveryAnswerIsKept
  BY <1>1 DEF Init, EveryAnswerIsKept
<1>3. SeedIsFirst
  <2>1. /\ request \in Requests /\ cad \in Symbols
        /\ seed = IF cad.maker = None THEN None ELSE Pairs("easyeda", cad.maker)
        /\ cad.maker = None => evidence = {}
    BY DEF Init, Pairs
  <2>2. cad.maker # None => Pairs("easyeda", cad.maker) # None
    BY <2>1, MergeAssumption DEF Pairs
  <2> QED BY <1>1, <2>1, <2>2 DEF SeedIsFirst
<1> QED BY <1>2, <1>3 DEF Init, IInv, MergedIsOfRecords, SymbolIsOfPart

\* While answers come, nothing is merged yet, and an answer is of a provider
\* that has not answered.
LEMMA HearingOnly ==
  ASSUME IInv, NEW a \in Answers, Unheard(a), heard' = heard \cup {a},
         UNCHANGED <<request, cad, merged, symbol>>
  PROVE  /\ MergedIsOfRecords' /\ SymbolIsOfPart' /\ heard' \subseteq Answers
         /\ \A x, y \in heard' : x.provider = y.provider => x = y
<1>1. merged = None /\ \A b \in heard : b.provider # a.provider
  BY DEF Unheard
<1>2. symbol = None
  BY <1>1 DEF IInv, SymbolIsOfPart
<1> QED BY <1>1, <1>2 DEF IInv, EveryAnswerIsKept, MergedIsOfRecords, SymbolIsOfPart

LEMMA ArriveLcscStep ==
  ASSUME IInv, NEW a \in Answers, ArriveLcsc(a)
  PROVE  IInv'
<1>1. /\ Unheard(a) /\ heard' = heard \cup {a} /\ records' = Append(records, a)
      /\ UNCHANGED <<request, cad, rejected, errors, merged, symbol>>
  BY DEF ArriveLcsc
<1>2. /\ MergedIsOfRecords' /\ SymbolIsOfPart' /\ heard' \subseteq Answers
      /\ \A x, y \in heard' : x.provider = y.provider => x = y
  BY <1>1, HearingOnly
<1>3. records' \in Seq(Answers) /\ Range(records') = Range(records) \cup {a}
  BY <1>1, RangeOfAppend DEF IInv, EveryAnswerIsKept
<1>4. EveryAnswerIsKept'
  <2>1. \A x \in heard' : \/ x \in Range(records')
                          \/ /\ request.maker = None /\ x.provider # "lcsc" /\ x.provider \in errors
                             /\ x.maker # None => <<x.provider, x.maker>> \in rejected
    BY <1>1, <1>3 DEF IInv, EveryAnswerIsKept
  <2>2. Range(records') \subseteq heard'
    BY <1>1, <1>3 DEF IInv, EveryAnswerIsKept
  <2> QED BY <1>1, <1>2, <1>3, <2>1, <2>2 DEF EveryAnswerIsKept
<1>5. SeedIsFirst'
  <2>1. SeedIsFirst
    BY DEF IInv
  <2>2. request' \in Requests /\ cad' \in Symbols
    BY <1>1, <2>1 DEF SeedIsFirst
  <2>3. CASE a.maker = None
    <3>1. UNCHANGED <<evidence, seed>>
      BY <2>3 DEF ArriveLcsc
    <3> QED BY <1>1, <1>3, <2>1, <2>2, <2>3, <3>1 DEF SeedIsFirst
  <2>4. CASE a.maker # None
    <3>1. seed' = IF seed # None THEN seed ELSE Pairs("lcsc", a.maker)
      BY <2>4 DEF ArriveLcsc, Pairs
    <3>2. Pairs("lcsc", a.maker) # None
      BY MergeAssumption DEF Pairs
    <3>3. cad.maker # None => Pairs("easyeda", cad.maker) # None
      BY <2>1, MergeAssumption DEF SeedIsFirst, Pairs
    <3>4. seed' # None /\ (cad.maker # None => seed' = seed)
      BY <2>1, <3>1, <3>2, <3>3 DEF SeedIsFirst
    <3> QED BY <1>1, <2>1, <2>2, <3>4 DEF SeedIsFirst, Pairs
  <2> QED BY <2>3, <2>4
<1> QED BY <1>2, <1>4, <1>5 DEF IInv

LEMMA ArriveStep ==
  ASSUME IInv, NEW a \in Answers, Arrive(a)
  PROVE  IInv'
<1>1. /\ Unheard(a) /\ heard' = heard \cup {a}
      /\ UNCHANGED <<request, cad, seed, evidence, merged, symbol>>
  BY DEF Arrive
<1>2. /\ MergedIsOfRecords' /\ SymbolIsOfPart' /\ heard' \subseteq Answers
      /\ \A x, y \in heard' : x.provider = y.provider => x = y
  BY <1>1, HearingOnly
<1>3. EveryAnswerIsKept /\ SeedIsFirst
  BY DEF IInv
<1>4. CASE request.maker # None \/ Evidenced(a.maker)
  <2>1. records' = Append(records, a) /\ UNCHANGED <<rejected, errors>>
    BY <1>4 DEF Arrive
  <2>2. records' \in Seq(Answers) /\ Range(records') = Range(records) \cup {a}
    BY <1>3, <2>1, RangeOfAppend DEF EveryAnswerIsKept
  <2>3. EveryAnswerIsKept'
    <3>1. \A x \in heard' : \/ x \in Range(records')
                            \/ /\ request.maker = None /\ x.provider # "lcsc" /\ x.provider \in errors
                               /\ x.maker # None => <<x.provider, x.maker>> \in rejected
      BY <1>1, <1>3, <2>2 DEF EveryAnswerIsKept
    <3>2. Range(records') \subseteq heard'
      BY <1>1, <1>3, <2>2 DEF EveryAnswerIsKept
    <3> QED BY <1>1, <1>2, <2>1, <2>2, <3>1, <3>2 DEF EveryAnswerIsKept
  <2>4. SeedIsFirst'
    <3>1. evidence = {} => request.maker # None
      BY <1>4 DEF Evidenced
    <3> QED BY <1>1, <1>3, <3>1 DEF SeedIsFirst
  <2> QED BY <1>2, <2>3, <2>4 DEF IInv
<1>5. CASE ~(request.maker # None \/ Evidenced(a.maker))
  <2>1. /\ a.provider # "lcsc"
        /\ errors' = errors \cup {a.provider} /\ UNCHANGED records
        /\ rejected' = rejected \cup
             (IF a.maker = None THEN {} ELSE {<<a.provider, a.maker>>})
    BY <1>5 DEF Arrive
  <2>2. EveryAnswerIsKept'
    <3>1. \A x \in heard' : \/ x \in Range(records')
                            \/ /\ request'.maker = None /\ x.provider # "lcsc" /\ x.provider \in errors'
                               /\ x.maker # None => <<x.provider, x.maker>> \in rejected'
      BY <1>1, <1>3, <1>5, <2>1 DEF EveryAnswerIsKept
    <3> QED BY <1>1, <1>2, <1>3, <2>1, <3>1 DEF EveryAnswerIsKept
  <2>3. SeedIsFirst'
    BY <1>1, <1>3, <2>1 DEF SeedIsFirst
  <2> QED BY <1>2, <2>2, <2>3 DEF IInv
<1> QED BY <1>4, <1>5

\* Nothing that merge_records reads has changed.
LEMMA MergedStays ==
  ASSUME UNCHANGED <<request, told>>, NEW rs
  PROVE  Merged(rs)' = Merged(rs)
<1>1. request' = request /\ seed' = seed /\ evidence' = evidence /\ rejected' = rejected
      /\ errors' = errors /\ records' = records
  BY DEF told
<1>2. \A r : Exact(r)' <=> Exact(r)
  BY <1>1 DEF Exact
<1>3. Fatal(rs)' <=> Fatal(rs)
  BY <1>2 DEF Fatal
<1>4. Part(Sorted(rs))' = Part(Sorted(rs))
  BY <1>1 DEF Part, Maker, Claims, Those, Exact
<1> QED BY <1>3, <1>4 DEF Merged

LEMMA StepInv == IInv /\ [Next]_vars => IInv'
<1> SUFFICES ASSUME IInv, [Next]_vars PROVE IInv'
  OBVIOUS
<1>1. ASSUME NEW a \in Answers, ArriveLcsc(a) \/ Arrive(a) PROVE IInv'
  BY <1>1, ArriveLcscStep, ArriveStep
<1>2. ASSUME UNCHANGED <<request, cad, told, heard>>
      PROVE  EveryAnswerIsKept' /\ SeedIsFirst' /\ Merged(records)' = Merged(records)
  <2>1. EveryAnswerIsKept' /\ SeedIsFirst'
    BY <1>2 DEF IInv, EveryAnswerIsKept, SeedIsFirst, told
  <2>2. records' = records
    BY <1>2 DEF told
  <2> QED BY <1>2, <2>1, <2>2, MergedStays
<1>3. CASE Merge
  <2>1. /\ merged = None /\ merged' = Merged(records)
        /\ UNCHANGED <<request, cad, told, symbol, heard>>
    BY <1>3 DEF Merge
  <2>2. symbol' = None
    BY <2>1 DEF IInv, SymbolIsOfPart
  <2> QED BY <1>2, <2>1, <2>2 DEF IInv, MergedIsOfRecords, SymbolIsOfPart
<1>4. CASE Export
  <2>1. /\ merged \notin {None, Mismatch} /\ symbol = None
        /\ UNCHANGED <<request, cad, told, merged, heard>>
    BY <1>4 DEF Export
  <2>2. /\ Unavailable' <=> Unavailable
        /\ Number' = Number /\ Link' = Link
    BY <2>1 DEF Unavailable, Number, Link, Has, RecordOf
  <2>3. symbol' # Refused =>
          /\ ~Unavailable /\ ~Contradicts(cad.mpn, merged.mpn) /\ ~Contradicts(cad.number, Number)
          /\ symbol' = [maker |-> Fill(cad.maker, merged.maker),
                        mpn |-> Fill(cad.mpn, merged.mpn),
                        number |-> Fill(cad.number, Number), sheet |-> Link]
    BY <1>4 DEF Export
  <2>4. SymbolIsOfPart'
    BY <2>1, <2>2, <2>3 DEF SymbolIsOfPart, Contradicts, Fill
  <2> QED BY <1>2, <2>1, <2>4 DEF IInv, MergedIsOfRecords
<1>5. CASE UNCHANGED vars
  <2>1. UNCHANGED <<request, cad, told, merged, symbol, heard>>
    BY <1>5 DEF vars
  <2>2. /\ Unavailable' <=> Unavailable
        /\ Number' = Number /\ Link' = Link
    BY <2>1 DEF Unavailable, Number, Link, Has, RecordOf
  <2>3. SymbolIsOfPart'
    BY <2>1, <2>2 DEF IInv, SymbolIsOfPart, Contradicts, Fill
  <2> QED BY <1>2, <2>1, <2>3 DEF IInv, MergedIsOfRecords
<1> QED BY <1>1, <1>3, <1>4, <1>5 DEF Next

LEMMA Invariance == Spec => []IInv
  BY InitInv, StepInv, PTL DEF Spec

-----------------------------------------------------------------------------
(* The theorems.                                                           *)

\* What the merged part is made of: the records of the exact part, whatever
\* their order.
LEMMA PartOfRecords ==
  ASSUME IInv, IsPart, NEW rs, rs = Sorted(records), NEW exact, exact = Those(rs, Exact)
  PROVE  /\ merged = Part(rs) /\ ~Fatal(records)
         /\ Range(rs) = Range(records) /\ DOMAIN rs \subseteq Nat
         /\ Range(exact) = {r \in Range(records) : Exact(r)} /\ DOMAIN exact \subseteq Nat
<1>1. merged = Merged(records) /\ merged # Mismatch
  BY DEF IInv, MergedIsOfRecords, IsPart
<1>2. rs \in Seq(Answers) /\ Range(rs) = Range(records)
  BY SortedHasAll DEF IInv, EveryAnswerIsKept
<1>3. DOMAIN rs \subseteq Nat
  BY <1>2, ElementsOfRange
<1>4. merged = Part(rs) /\ ~Fatal(records)
  BY <1>1 DEF Merged
<1> QED BY <1>2, <1>3, <1>4, ThoseFit

LEMMA FieldsOfPart ==
  ASSUME NEW rs, NEW exact, exact = Those(rs, Exact), merged = Part(rs)
  PROVE  /\ merged.maker = Maker(rs).value /\ merged.mpn = request.mpn
         /\ \A f \in Scalars : merged.value[f] = First(exact, f).value
         /\ merged.sheet = Sheet(exact) /\ merged.records = exact
         /\ errors \subseteq merged.errors
         /\ \A r \in Range(rs) \ Range(exact) : r.provider \in merged.errors
         /\ Conflict("maker", Claims(exact), merged.maker) \subseteq merged.conflicts
         /\ \A f \in Scalars :
              Conflict(f, Said(exact, f), merged.value[f]) \subseteq merged.conflicts
         /\ Conflict("sheet", Said(exact, "sheet"), merged.sheet) \subseteq merged.conflicts
<1> DEFINE value == [f \in Scalars |-> First(exact, f).value]
<1>1. /\ merged.maker = Maker(rs).value /\ merged.mpn = request.mpn
      /\ merged.value = value /\ merged.sheet = Sheet(exact) /\ merged.records = exact
      /\ merged.errors = errors \cup {r.provider : r \in Range(rs) \ Range(exact)}
      /\ merged.conflicts = Conflict("maker", Claims(exact), merged.maker)
                      \cup (UNION {Conflict(f, Said(exact, f), value[f]) : f \in Scalars})
                      \cup Conflict("sheet", Said(exact, "sheet"), merged.sheet)
  BY DEF Part
<1>2. \A f \in Scalars : merged.value[f] = First(exact, f).value
  BY <1>1
<1>3. \A r \in Range(rs) \ Range(exact) : r.provider \in merged.errors
  BY <1>1
<1> HIDE DEF value
<1> QED BY <1>1, <1>2, <1>3

\* What a record says of a field is compared with what was selected of it.
LEMMA SaidIsKept ==
  ASSUME NEW a, NEW f, NEW said, <<a.provider, a[f]>> \in said,
         NEW t \in said, t[2] = Selected(f),
         Conflict(f, said, Selected(f)) \subseteq merged.conflicts
  PROVE  Kept(a, f)
<1> DEFINE s == <<a.provider, a[f]>>
<1>1. s[2] = a[f]
  OBVIOUS
<1>2. s \in said
  OBVIOUS
<1> HIDE DEF s
<1>3. \/ Agree(s[2], t[2])
      \/ \E c \in Conflict(f, said, Selected(f)) : c.field = f /\ s \in c.values
  BY <1>2, ComparedOrListed
<1> QED BY <1>1, <1>3 DEF Kept, s

LEMMA SelectedOfField ==
  /\ Selected("maker") = merged.maker /\ Selected("sheet") = merged.sheet
  /\ \A f \in Scalars : Selected(f) = merged.value[f]
  BY DEF Selected, Scalars

LEMMA WordsAreKept == IInv => EveryWordIsKept
<1> SUFFICES ASSUME IInv, IsPart, NEW a \in heard
             PROVE  IF ~Exact(a) THEN a.provider # "lcsc" /\ a.provider \in merged.errors
                    ELSE /\ merged.maker # None => Kept(a, "maker")
                         /\ a \in Range(merged.records) =>
                              /\ \A f \in Scalars : Kept(a, f)
                              /\ Kept(a, "sheet") \/ Dropped(a)
                         /\ a \in Range(merged.records) \/ a.provider \in merged.errors
  BY DEF EveryWordIsKept
<1> DEFINE rs == Sorted(records)
           exact == Those(rs, Exact)
<1>1. /\ merged = Part(rs) /\ ~Fatal(records)
      /\ Range(rs) = Range(records) /\ DOMAIN rs \subseteq Nat
      /\ Range(exact) = {r \in Range(records) : Exact(r)} /\ DOMAIN exact \subseteq Nat
  BY PartOfRecords
<1> HIDE DEF rs, exact
<1>2. /\ merged.maker = Maker(rs).value /\ merged.records = exact
      /\ merged.sheet = Sheet(exact)
      /\ \A f \in Scalars : merged.value[f] = First(exact, f).value
      /\ errors \subseteq merged.errors
      /\ \A r \in Range(rs) \ Range(exact) : r.provider \in merged.errors
      /\ Conflict("maker", Claims(exact), Selected("maker")) \subseteq merged.conflicts
      /\ \A f \in Scalars :
           Conflict(f, Said(exact, f), Selected(f)) \subseteq merged.conflicts
      /\ Conflict("sheet", Said(exact, "sheet"), Selected("sheet")) \subseteq merged.conflicts
  <2>1. exact = Those(rs, Exact)
    BY DEF exact
  <2>2. /\ Selected("maker") = merged.maker /\ Selected("sheet") = merged.sheet
        /\ \A f \in Scalars : Selected(f) = merged.value[f]
    BY SelectedOfField
  <2>3. /\ merged.maker = Maker(rs).value /\ merged.mpn = request.mpn
        /\ \A f \in Scalars : merged.value[f] = First(exact, f).value
        /\ merged.sheet = Sheet(exact) /\ merged.records = exact
        /\ errors \subseteq merged.errors
        /\ \A r \in Range(rs) \ Range(exact) : r.provider \in merged.errors
        /\ Conflict("maker", Claims(exact), merged.maker) \subseteq merged.conflicts
        /\ \A f \in Scalars :
             Conflict(f, Said(exact, f), merged.value[f]) \subseteq merged.conflicts
        /\ Conflict("sheet", Said(exact, "sheet"), merged.sheet) \subseteq merged.conflicts
    BY <1>1, <2>1, FieldsOfPart
  <2> QED BY <2>2, <2>3
<1>3. /\ Range(records) \subseteq heard
      /\ \/ a \in Range(records)
         \/ /\ request.maker = None /\ a.provider # "lcsc" /\ a.provider \in errors
            /\ a.maker # None => <<a.provider, a.maker>> \in rejected
  BY DEF IInv, EveryAnswerIsKept
<1>4. CASE ~Exact(a)
  <2>1. a \in Range(records) => a.provider # "lcsc"
    BY <1>1, <1>4 DEF Fatal
  <2> QED BY <1>1, <1>2, <1>3, <1>4, <2>1
<1>5. CASE Exact(a)
  <2>1. a \in Range(exact) \/ a.provider \in errors
    BY <1>1, <1>3, <1>5
  <2>2. ASSUME NEW f, a \in Range(exact), a[f] # None
        PROVE  <<a.provider, a[f]>> \in Said(exact, f)
    BY <2>2 DEF Said
  <2>3. ASSUME merged.maker # None, a.maker # None PROVE Kept(a, "maker")
    <3>1. <<a.provider, a["maker"]>> \in Claims(exact)
      BY <1>1, <1>3, <1>5, <2>2, <2>3 DEF Claims
    <3>2. CASE request.maker # None
      <4>1. Maker(rs).value = request.maker /\ Agree(a.maker, request.maker)
        BY <1>5, <3>2 DEF Maker, Exact
      <4> QED BY <1>2, <4>1, SelectedOfField DEF Kept
    <3>3. CASE request.maker = None /\ seed # None
      <4>1. Selected("maker") = seed.value
        BY <1>2, <3>3, SelectedOfField DEF Maker
      <4>2. <<seed.source, seed.value>> \in Claims(exact)
        BY <3>3 DEF Claims
      <4>3. <<seed.source, seed.value>>[2] = Selected("maker")
        BY <4>1
      <4> QED BY <1>2, <3>1, <4>2, <4>3, SaidIsKept
    <3>4. CASE request.maker = None /\ seed = None
      <4>1. \A r \in Range(rs) : r["maker"] = None
        BY <1>1, <3>4 DEF IInv, SeedIsFirst
      <4>2. First(rs, "maker").value = None
        BY <1>1, <4>1, FirstIsSaid
      <4> QED BY <1>2, <2>3, <3>4, <4>2 DEF Maker
    <3> QED BY <3>2, <3>3, <3>4
  <2>4. ASSUME a \in Range(exact), NEW f \in Scalars, a[f] # None PROVE Kept(a, f)
    <3>1. PICK s \in Range(exact) : s[f] # None /\ First(exact, f).value = s[f]
      BY <1>1, <2>4, FirstIsSaid
    <3>2. <<s.provider, s[f]>> \in Said(exact, f) /\ <<s.provider, s[f]>>[2] = Selected(f)
      BY <1>2, <3>1, SelectedOfField DEF Said
    <3> QED BY <1>2, <2>2, <2>4, <3>2, SaidIsKept
  <2>5. ASSUME a \in Range(exact), a.sheet # None, ~Dropped(a) PROVE Kept(a, "sheet")
    <3>1. merged.sheet # None
      <4> SUFFICES ASSUME merged.sheet = None, a.sheet \in Links,
                          \A b \in heard : b.page = None \/ ~Agree(a.sheet, b.page)
                   PROVE  FALSE
        BY <2>5 DEF Dropped
      <4>1. Range(exact) \subseteq heard
        BY <1>1, <1>3
      <4> QED BY <1>1, <1>2, <2>5, <4>1, SheetIsSaid
    <3>2. PICK s \in Range(exact) : s.sheet # None /\ merged.sheet = s.sheet
      BY <1>1, <1>2, <3>1, SheetIsSaid
    <3>3. /\ <<s.provider, s["sheet"]>> \in Said(exact, "sheet")
          /\ <<s.provider, s["sheet"]>>[2] = Selected("sheet")
      BY <3>2, SelectedOfField DEF Said
    <3> QED BY <1>2, <2>2, <2>5, <3>3, SaidIsKept
  <2>6. merged.maker # None => Kept(a, "maker")
    BY <2>3 DEF Kept
  <2>7. a \in Range(merged.records) =>
          /\ \A f \in Scalars : Kept(a, f)
          /\ Kept(a, "sheet") \/ Dropped(a)
    BY <1>2, <2>4, <2>5 DEF Kept
  <2> QED BY <1>2, <1>5, <2>1, <2>6, <2>7
<1> QED BY <1>4, <1>5

LEMMA OrderIsLost == IInv => OrderDoesNotMatter
<1> SUFFICES ASSUME IInv, merged # None, NEW rs \in SetToSeqs(Range(records))
             PROVE  Merged(rs) = merged
  BY DEF OrderDoesNotMatter
<1>1. merged = Merged(records)
  BY DEF IInv, MergedIsOfRecords
<1>2. IsFiniteSet(Range(records))
  BY ElementsOfRange DEF IInv, EveryAnswerIsKept
<1>3. Range(rs) = Range(records)
  BY <1>2, SequencesOfASet
<1>4. Sorted(rs) = Sorted(records) /\ (Fatal(rs) <=> Fatal(records))
  BY <1>3 DEF Sorted, Fatal
<1> QED BY <1>1, <1>4 DEF Merged

LEMMA SymbolIsNamed == IInv => SymbolAgrees
<1> SUFFICES ASSUME IInv, symbol \notin {None, Refused}
             PROVE  /\ Agree(symbol.mpn, merged.mpn)
                    /\ Number # None => Agree(symbol.number, Number)
                    /\ request.link # None => symbol.sheet \in Links
                    /\ request.link \in Providers =>
                         ~IsPageOf(symbol.sheet, RecordOf(request.link))
                    /\ request.link = None => symbol.sheet = cad.sheet
                    /\ request.maker = None => Agree(symbol.maker, merged.maker)
  BY DEF SymbolAgrees
<1>1. /\ IsPart /\ ~Unavailable /\ ~Contradicts(cad.mpn, merged.mpn)
      /\ ~Contradicts(cad.number, Number)
      /\ symbol.maker = Fill(cad.maker, merged.maker) /\ symbol.mpn = Fill(cad.mpn, merged.mpn)
      /\ symbol.number = Fill(cad.number, Number) /\ symbol.sheet = Link
  BY DEF IInv, SymbolIsOfPart, IsPart
<1>2. request \in Requests /\ cad \in Symbols
  BY DEF IInv, SeedIsFirst
<1> DEFINE rs == Sorted(records)
<1>3. merged = Part(rs)
  BY <1>1, PartOfRecords
<1>4. merged.maker = Maker(rs).value /\ merged.mpn = request.mpn
  BY <1>3, FieldsOfPart
<1>5. Agree(symbol.mpn, merged.mpn)
  <2>1. merged.mpn # None
    BY <1>2, <1>4, MergeAssumption
  <2> QED BY <1>1, <2>1 DEF Contradicts, Fill, Agree
<1>6. Number # None => Agree(symbol.number, Number)
  BY <1>1 DEF Contradicts, Fill, Agree
<1>7. request.link = None => symbol.sheet = cad.sheet
  BY <1>1, MergeAssumption DEF Link
<1>8. request.link = "manufacturer" => request.link = None \/ symbol.sheet \in Links
  <2>1. merged.sheet # None => merged.sheet \in Links
    <3>1. DOMAIN Those(rs, Exact) \subseteq Nat
      BY <1>1, PartOfRecords
    <3> QED BY <1>3, <3>1, FieldsOfPart, SheetIsSaid
  <2> QED BY <1>1, <2>1 DEF Link, Unavailable
<1>9. ASSUME request.link # None, request.link # "manufacturer"
      PROVE  symbol.sheet \in Links /\ ~IsPageOf(symbol.sheet, RecordOf(request.link))
  BY <1>1, <1>9 DEF Link, Unavailable
<1>10. request.maker = None => Agree(symbol.maker, merged.maker)
  <2>1. ASSUME cad.maker # None, request.maker = None PROVE merged.maker = cad.maker
    <3>1. seed = Pairs("easyeda", cad.maker) /\ Pairs("easyeda", cad.maker) # None
      BY <1>2, <2>1, MergeAssumption DEF IInv, SeedIsFirst, Pairs
    <3> QED BY <1>4, <2>1, <3>1 DEF Maker, Pairs
  <2> QED BY <1>1, <2>1 DEF Fill, Agree
<1>11. request.link \in Providers =>
         ~IsPageOf(symbol.sheet, RecordOf(request.link))
  BY <1>9, MergeAssumption DEF Providers
<1> QED BY <1>5, <1>6, <1>7, <1>8, <1>9, <1>10, <1>11

\* No word is lost: once the answers are merged, an answer of another part, or
\* of a manufacturer the user did not name, was not LCSC's and has left an error,
\* and every other value was selected or is in a conflict, but for a datasheet that
\* is a product page or no http(s) URL where none is selected (merge.py:100-185,
\* 378-404, service.py:549-576).
THEOREM NothingIsLost == Spec => []EveryWordIsKept
  BY Invariance, WordsAreKept, PTL

\* The part does not depend on which provider answered first (the sort of
\* merge.py:68, 301-309): every sequence of the same records gives the same part.
THEOREM PartIsOfTheSet == Spec => []OrderDoesNotMatter
  BY Invariance, OrderIsLost, PTL

\* The exported symbol and the manifest name one part, and a datasheet that was
\* asked for is a link and no product page of its provider (_reconcile_symbol_identity,
\* __main__.py:1159-1187, and select_datasheet, 1782-1800).
THEOREM SymbolIsOfThePart == Spec => []SymbolAgrees
  BY Invariance, SymbolIsNamed, PTL

==============================================================================

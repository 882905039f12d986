-------------------------- MODULE ReportModelProofs --------------------------
(***************************************************************************)
(* Proofs about ReportModel: sorting the causes is a rearrangement that    *)
(* leaves a sorted list alone, so wrapping a finding settles it, so a file *)
(* that nobody edited is read back as it was saved and an edited one never *)
(* disagrees with itself.                                                  *)
(***************************************************************************)
EXTENDS ReportModel, FiniteSetTheorems, SequenceTheorems, TLAPS

LEMMA ToSetIs == \A s : ToSet(s) = {s[i] : i \in DOMAIN s}
BY DEF ToSet

LEMMA SeqIs ==
  ASSUME NEW S, NEW s \in Seq(S)
  PROVE /\ Len(s) \in Nat /\ DOMAIN s = 1..Len(s)
        /\ \A i \in DOMAIN s : i \in Nat /\ i \in Int /\ s[i] \in S
        /\ s \in [1..Len(s) -> S]
OBVIOUS

-----------------------------------------------------------------------------
(* Sorting the causes *)

CauseRecords == [layer : ToSet(Layers), cause : Causes]
CauseList == Seq(CauseRecords)

\* A layer's rank is its index in the list of layers.
LEMMA Ranks ==
  /\ \A l \in ToSet(Layers) : Rank(l) \in DOMAIN Layers /\ Layers[Rank(l)] = l /\ Rank(l) \in Nat
  /\ \A l, m \in ToSet(Layers) : Rank(l) = Rank(m) => l = m
<1>1. ASSUME NEW l \in ToSet(Layers) PROVE Rank(l) \in DOMAIN Layers /\ Layers[Rank(l)] = l
  <2>1. \E i \in DOMAIN Layers : Layers[i] = l
    BY ToSetIs
  <2> QED BY <2>1 DEF Rank
<1>2. DOMAIN Layers \subseteq Nat
  BY ReportAssumption
<1> QED BY <1>1, <1>2

\* Cause j stays before cause i.
NotAfter(causes, j, i) ==
  \/ Rank(causes[j].layer) < Rank(causes[i].layer)
  \/ Rank(causes[j].layer) = Rank(causes[i].layer) /\ j <= i

LEMMA PlaceIs ==
  ASSUME NEW causes, NEW i
  PROVE Place(causes, i) = Cardinality({j \in DOMAIN causes : NotAfter(causes, j, i)})
BY DEF Place, NotAfter

LEMMA RankOf ==
  ASSUME NEW causes \in CauseList, NEW i \in DOMAIN causes
  PROVE causes[i].layer \in ToSet(Layers) /\ Rank(causes[i].layer) \in Nat /\ i \in Nat
<1>1. causes[i] \in CauseRecords /\ i \in Nat
  BY SeqIs DEF CauseList
<1> QED BY <1>1, Ranks DEF CauseRecords

\* Everyone has a place in the list, and who is before another has a lower one.
LEMMA Places ==
  ASSUME NEW causes \in CauseList, NEW i \in DOMAIN causes
  PROVE /\ Place(causes, i) \in 1..Len(causes)
        /\ \A j \in DOMAIN causes : j # i /\ NotAfter(causes, j, i) => Place(causes, j) < Place(causes, i)
<1> DEFINE B(k) == {j \in DOMAIN causes : NotAfter(causes, j, k)}
<1>1. Len(causes) \in Nat /\ DOMAIN causes = 1..Len(causes)
  BY DEF CauseList
<1>2. IsFiniteSet(DOMAIN causes) /\ Cardinality(DOMAIN causes) = Len(causes)
  <2>1. /\ IsFiniteSet(1..Len(causes))
        /\ Cardinality(1..Len(causes)) = IF 1 > Len(causes) THEN 0 ELSE Len(causes) - 1 + 1
    BY <1>1, FS_Interval
  <2> QED BY <2>1, <1>1
<1>3. \A k : B(k) \in SUBSET (DOMAIN causes)
  OBVIOUS
<1>4. \A k : IsFiniteSet(B(k)) /\ Cardinality(B(k)) <= Len(causes) /\ Cardinality(B(k)) \in Nat
  <2> HIDE DEF B
  <2> QED BY <1>2, <1>3, FS_Subset, FS_CardinalityType
<1>5. \A k : Place(causes, k) = Cardinality(B(k))
  BY PlaceIs
<1>6. \A k \in DOMAIN causes : k \in B(k)
  BY RankOf DEF NotAfter
<1>7. B(i) # {}
  BY <1>6
<1>8. Cardinality(B(i)) # 0
  <2> HIDE DEF B
  <2> QED BY <1>4, <1>7, FS_EmptySet
<1>9. ASSUME NEW j \in DOMAIN causes, j # i, NotAfter(causes, j, i)
      PROVE Cardinality(B(j)) < Cardinality(B(i))
  <2>1. ASSUME NEW k \in DOMAIN causes, NotAfter(causes, k, j) PROVE NotAfter(causes, k, i)
    BY <1>9, <2>1, RankOf DEF NotAfter
  <2>2. B(j) \subseteq B(i)
    BY <2>1
  <2>3. i \notin B(j)
    BY <1>9, RankOf DEF NotAfter
  <2>4. B(j) \in SUBSET B(i) /\ B(j) # B(i)
    BY <2>2, <2>3, <1>6
  <2> HIDE DEF B
  <2> QED BY <2>4, <1>4, FS_Subset
<1> HIDE DEF B
<1> QED BY <1>1, <1>4, <1>5, <1>8, <1>9

\* The place that each position is filled from.
From(causes, k) == CHOOSE i \in DOMAIN causes : Place(causes, i) = k

LEMMA InOrderIs ==
  ASSUME NEW causes
  PROVE InOrder(causes) = [k \in DOMAIN causes |-> causes[From(causes, k)]]
BY DEF InOrder, From

LEMMA Placed ==
  ASSUME NEW causes \in CauseList
  PROVE /\ \A i, j \in DOMAIN causes : Place(causes, i) = Place(causes, j) => i = j
        /\ \A k \in DOMAIN causes : From(causes, k) \in DOMAIN causes /\ Place(causes, From(causes, k)) = k
        /\ \A i \in DOMAIN causes : Place(causes, i) \in DOMAIN causes /\ From(causes, Place(causes, i)) = i
<1> DEFINE D == DOMAIN causes
           f == [i \in D |-> Place(causes, i)]
<1>0. D = 1..Len(causes) /\ Len(causes) \in Nat
  BY DEF CauseList
<1>1. ASSUME NEW i \in D, NEW j \in D, i # j PROVE Place(causes, i) # Place(causes, j)
  <2>1. NotAfter(causes, i, j) \/ NotAfter(causes, j, i)
    BY RankOf DEF NotAfter
  <2>2. Place(causes, i) \in Nat /\ Place(causes, j) \in Nat
    BY Places, <1>0
  <2>3. CASE NotAfter(causes, i, j)
    <3>1. Place(causes, i) < Place(causes, j)
      BY Places, <2>3, <1>1
    <3> QED BY <3>1, <2>2
  <2>4. CASE NotAfter(causes, j, i)
    <3>1. Place(causes, j) < Place(causes, i)
      BY Places, <2>4, <1>1
    <3> QED BY <3>1, <2>2
  <2> QED BY <2>1, <2>3, <2>4
<1>2. \A i \in D : Place(causes, i) \in D
  BY Places, <1>0
<1>3. f \in Injection(D, D)
  BY <1>1, <1>2 DEF Injection, IsInjective
<1>4. IsFiniteSet(D)
  BY <1>0, FS_Interval
<1>5. f \in Surjection(D, D)
  <2> HIDE DEF f, D
  <2> QED BY <1>3, <1>4, FS_Injection
<1>6. \A k \in D : \E i \in D : f[i] = k
  <2> HIDE DEF f, D
  <2> QED BY <1>5 DEF Surjection
<1>7. \A k \in D : \E i \in D : Place(causes, i) = k
  BY <1>6
<1>8. \A k \in D : From(causes, k) \in D /\ Place(causes, From(causes, k)) = k
  BY <1>7 DEF From
<1> QED BY <1>1, <1>2, <1>8
Ascending(causes) ==
  \A k, l \in DOMAIN causes : k < l => Rank(causes[k].layer) <= Rank(causes[l].layer)

LEMMA Sorted ==
  ASSUME NEW causes \in CauseList
  PROVE /\ InOrder(causes) \in CauseList
        /\ Len(InOrder(causes)) = Len(causes) /\ DOMAIN InOrder(causes) = DOMAIN causes
        /\ Ascending(InOrder(causes))
<1> DEFINE f == InOrder(causes)
<1>1. f = [k \in DOMAIN causes |-> causes[From(causes, k)]]
  BY InOrderIs
<1>2. DOMAIN causes = 1..Len(causes) /\ Len(causes) \in Nat
  BY SeqIs DEF CauseList
<1>3. DOMAIN f = DOMAIN causes
  BY <1>1
<1>4. \A k \in DOMAIN causes : f[k] = causes[From(causes, k)] /\ From(causes, k) \in DOMAIN causes
  BY <1>1, Placed
<1>5. \A k \in DOMAIN causes : f[k] \in CauseRecords
  BY <1>4, SeqIs DEF CauseList
<1>6. f \in [1..Len(causes) -> CauseRecords]
  <2>1. f = [k \in 1..Len(causes) |-> f[k]]
    BY <1>1, <1>2
  <2>2. \A k \in 1..Len(causes) : f[k] \in CauseRecords
    BY <1>5, <1>2
  <2> HIDE DEF f
  <2> QED BY <2>1, <2>2
<1>7. f \in CauseList /\ Len(f) = Len(causes)
  <2> HIDE DEF f
  <2>1. f \in CauseList
    BY <1>6, <1>2 DEF CauseList
  <2> QED BY <2>1, <1>6, <1>2 DEF CauseList
<1>8. ASSUME NEW k \in DOMAIN f, NEW l \in DOMAIN f, k < l
      PROVE Rank(f[k].layer) <= Rank(f[l].layer)
  <2> DEFINE i == From(causes, k)
             j == From(causes, l)
  <2>1. i \in DOMAIN causes /\ j \in DOMAIN causes /\ f[k] = causes[i] /\ f[l] = causes[j]
    BY <1>3, <1>4, <1>8
  <2>2. Place(causes, i) = k /\ Place(causes, j) = l
    BY <1>3, <1>8, Placed
  <2>3. k \in Nat /\ l \in Nat /\ ~ l < k /\ k # l
    BY <1>8, <1>3, <1>2
  <2> HIDE DEF i, j
  <2>4. i # j
    BY <2>2, <2>3
  <2>5. ~ NotAfter(causes, j, i)
    BY <2>1, <2>2, <2>3, <2>4, Places
  <2>6. Rank(causes[i].layer) \in Nat /\ Rank(causes[j].layer) \in Nat
    BY <2>1, RankOf
  <2> HIDE DEF f
  <2> QED BY <2>1, <2>5, <2>6 DEF NotAfter
<1>9. Ascending(f)
  BY <1>8 DEF Ascending
<1> QED BY <1>7, <1>3, <1>9

\* A list that is sorted stays as it is.
LEMMA SortedStays ==
  ASSUME NEW causes \in CauseList, Ascending(causes)
  PROVE InOrder(causes) = causes
<1>1. DOMAIN causes = 1..Len(causes) /\ Len(causes) \in Nat
  BY SeqIs DEF CauseList
<1>2. ASSUME NEW i \in DOMAIN causes PROVE Place(causes, i) = i
  <2>0. i \in 1..Len(causes) /\ i \in Nat /\ i \in Int /\ i >= 1
    BY <1>1
  <2>1. \A j \in DOMAIN causes : NotAfter(causes, j, i) <=> j <= i
    <3> TAKE j \in DOMAIN causes
    <3>1. Rank(causes[i].layer) \in Nat /\ Rank(causes[j].layer) \in Nat /\ i \in Nat /\ j \in Nat
      BY RankOf
    <3>2. j < i => Rank(causes[j].layer) <= Rank(causes[i].layer)
      BY DEF Ascending
    <3>3. i < j => Rank(causes[i].layer) <= Rank(causes[j].layer)
      BY DEF Ascending
    <3>4. CASE j < i
      BY <3>1, <3>2, <3>4 DEF NotAfter
    <3>5. CASE i < j
      BY <3>1, <3>3, <3>5 DEF NotAfter
    <3>6. CASE i = j
      BY <3>1, <3>6 DEF NotAfter
    <3> QED BY <3>1, <3>4, <3>5, <3>6
  <2>2. {j \in DOMAIN causes : NotAfter(causes, j, i)} = 1..i
    BY <2>0, <2>1, <1>1
  <2>3. Cardinality(1..i) = IF 1 > i THEN 0 ELSE i - 1 + 1
    <3>1. 1 \in Int /\ i \in Int
      BY <2>0
    <3> QED BY <3>1, FS_Interval
  <2>4. Cardinality(1..i) = i
    BY <2>0, <2>3
  <2> QED BY <2>2, <2>4, PlaceIs
<1>3. \A k \in DOMAIN causes : From(causes, k) = k
  BY <1>2, Placed
<1>4. InOrder(causes) = [k \in DOMAIN causes |-> causes[k]]
  BY <1>3, InOrderIs
<1>5. causes = [k \in DOMAIN causes |-> causes[k]]
  BY <1>1, SeqIs DEF CauseList
<1> QED BY <1>4, <1>5

-----------------------------------------------------------------------------
(* Wrapping a finding *)

LEMMA LayersOfIs ==
  ASSUME NEW causes
  PROVE /\ DOMAIN LayersOf(causes) = DOMAIN causes
        /\ \A k \in DOMAIN causes : LayersOf(causes)[k] = causes[k].layer
        /\ ToSet(LayersOf(causes)) = {causes[k].layer : k \in DOMAIN causes}
BY DEF LayersOf, ToSet

\* Sorting keeps the layers that are explained.
LEMMA SortedLayers ==
  ASSUME NEW causes \in CauseList
  PROVE ToSet(LayersOf(InOrder(causes))) = ToSet(LayersOf(causes))
<1> DEFINE f == InOrder(causes)
<1>1. DOMAIN f = DOMAIN causes
  BY Sorted
<1>2. \A k \in DOMAIN causes : f[k] = causes[From(causes, k)]
  BY InOrderIs
<1> HIDE DEF f
<1>3. {f[k].layer : k \in DOMAIN f} = {causes[k].layer : k \in DOMAIN causes}
  <2>1. ASSUME NEW k \in DOMAIN f PROVE \E i \in DOMAIN causes : f[k].layer = causes[i].layer
    BY <1>1, <1>2, Placed
  <2>2. ASSUME NEW i \in DOMAIN causes PROVE \E k \in DOMAIN f : f[k].layer = causes[i].layer
    <3>1. Place(causes, i) \in DOMAIN f /\ f[Place(causes, i)] = causes[i]
      BY <1>1, <1>2, Placed
    <3> QED BY <3>1
  <2> QED BY <2>1, <2>2
<1> QED BY <1>3, LayersOfIs DEF f

\* Causes that match a finding name each layer once.
LEMMA MatchedAreDistinct ==
  ASSUME NEW causes \in CauseList, Cardinality(ToSet(LayersOf(causes))) = Len(causes)
  PROVE \A k, l \in DOMAIN causes : causes[k].layer = causes[l].layer => k = l
<1> DEFINE D == DOMAIN causes
           f == LayersOf(causes)
           T == ToSet(f)
<1>1. D = 1..Len(causes) /\ Len(causes) \in Nat
  BY SeqIs DEF CauseList
<1>2. IsFiniteSet(D) /\ Cardinality(D) = Len(causes)
  <2>1. /\ IsFiniteSet(1..Len(causes))
        /\ Cardinality(1..Len(causes)) = IF 1 > Len(causes) THEN 0 ELSE Len(causes) - 1 + 1
    <3>1. 1 \in Int /\ Len(causes) \in Int
      BY <1>1
    <3> QED BY <3>1, FS_Interval
  <2> QED BY <2>1, <1>1
<1>3. f = [k \in D |-> f[k]] /\ T = {f[k] : k \in D}
  BY DEF LayersOf, ToSet
<1>4. f \in Surjection(D, T)
  <2> HIDE DEF f, D, T
  <2> QED BY <1>3 DEF Surjection
<1>5. f \in Injection(D, T)
  <2>1. Cardinality(T) = Cardinality(D)
    BY <1>2
  <2> HIDE DEF f, D, T
  <2> QED BY <1>2, <1>4, <2>1, FS_Surjection
<1>6. \A k, l \in D : f[k] = f[l] => k = l
  <2> HIDE DEF f, D, T
  <2> QED BY <1>5 DEF Injection, IsInjective
<1> QED BY <1>6, LayersOfIs
FindingRecords ==
  [source : {f.source : f \in Findings}, reachability : Populations, layers : Seq(ToSet(Layers))]

LEMMA WireItemsAre == WireItems = [finding : FindingRecords, causes : CauseList]
BY DEF WireItems, FindingRecords, CauseList, CauseRecords

LEMMA WrapIs ==
  ASSUME NEW item \in WireItems
  PROVE /\ Wrap(item).finding = item.finding
        /\ Wrap(item).causes =
             IF item.finding.reachability = "indeterminate" THEN InOrder(item.causes) ELSE <<>>
        /\ Wrap(item) \in WireItems
<1> DEFINE c == IF item.finding.reachability = "indeterminate" THEN InOrder(item.causes) ELSE <<>>
<1>1. item \in [finding : FindingRecords, causes : CauseList]
  BY WireItemsAre
<1>2. InOrder(item.causes) \in CauseList
  BY <1>1, Sorted
<1>3. <<>> \in CauseList
  BY DEF CauseList
<1>4. c \in CauseList
  BY <1>2, <1>3
<1>5. Wrap(item) = [item EXCEPT !.causes = c]
  BY DEF Wrap
<1> HIDE DEF c
<1>6. Wrap(item) \in [finding : FindingRecords, causes : CauseList] /\ Wrap(item).finding = item.finding /\ Wrap(item).causes = c
  BY <1>1, <1>4, <1>5
<1> QED BY <1>6, WireItemsAre DEF c

\* What a constructor lets pass, it lets pass again, unchanged.
LEMMA WrapSettles ==
  ASSUME NEW p, NEW item \in WireItems, Accepts(p, item)
  PROVE /\ Wrap(item) \in WireItems
        /\ Accepts(p, Wrap(item))
        /\ Wrap(Wrap(item)) = Wrap(item)
<1> DEFINE w == Wrap(item)
<1>1. w \in WireItems /\ w.finding = item.finding
  BY WrapIs
<1>2. w \in [finding : FindingRecords, causes : CauseList] /\ Wrap(w) \in [finding : FindingRecords, causes : CauseList]
  BY <1>1, WrapIs, WireItemsAre
<1>3. item.causes \in CauseList
  BY WireItemsAre
<1>4. item.finding.reachability = p
  BY DEF Accepts
<1>5. CASE p = "indeterminate"
  <2>1. w.causes = InOrder(item.causes)
    BY <1>4, <1>5, WrapIs
  <2>2. CausesMatch(item.finding, item.causes)
    BY <1>5 DEF Accepts
  <2>3. CausesMatch(w.finding, w.causes)
    BY <1>1, <1>3, <2>1, <2>2, Sorted, SortedLayers DEF CausesMatch
  <2>4. InOrder(w.causes) = w.causes
    BY <2>1, <1>3, Sorted, SortedStays
  <2>5. Wrap(w).finding = w.finding /\ Wrap(w).causes = w.causes
    BY <1>1, <1>4, <1>5, <2>4, WrapIs
  <2> HIDE DEF w
  <2>6. Wrap(w) = w
    BY <1>2, <2>5
  <2> QED BY <1>1, <1>4, <2>3, <2>6 DEF Accepts, w
<1>6. CASE p # "indeterminate"
  <2>1. Wrap(w).finding = w.finding /\ Wrap(w).causes = <<>> /\ w.causes = <<>>
    BY <1>1, <1>4, <1>6, WrapIs
  <2> HIDE DEF w
  <2>2. Wrap(w) = w
    BY <1>2, <2>1
  <2> QED BY <1>1, <1>4, <1>6, <2>2 DEF Accepts, w
<1> QED BY <1>5, <1>6

-----------------------------------------------------------------------------
(* Reading a file *)

Instants == [clock : Int, offset : Int]

LEMMA UtcIsUtc ==
  ASSUME NEW t \in Instants
  PROVE to_utc(t) \in Instants /\ to_utc(to_utc(t)) = to_utc(t)
BY DEF Instants, to_utc

ScopeRecords == [accounts : SUBSET Accounts, regions : SUBSET Regions, unresolved_reference_count : References]
Summaries == [scope : ScopeRecords, generated_at : Instants, counts : [Populations -> Int]]
Lists == [Populations -> Seq(WireItems)]

LEMMA WireReportsAre == WireReports = [summary : Summaries, findings : Lists]
BY DEF WireReports, Summaries, ScopeRecords, Instants, Lists

WrapAll(findings) == [p \in Populations |-> [i \in DOMAIN findings[p] |-> Wrap(findings[p][i])]]

\* The file passes every constructor and its counts are right.
Readable(w) ==
  /\ \A p \in Populations : \A i \in DOMAIN w.findings[p] : Accepts(p, w.findings[p][i])
  /\ ScopeAccepted(w.summary.scope)
  /\ w.summary.counts = from_populations(w.findings)

LEMMA TryFromIs ==
  ASSUME NEW w
  PROVE TryFrom(w) = IF Readable(w)
                     THEN [summary |-> [w.summary EXCEPT !.generated_at = to_utc(@)], findings |-> WrapAll(w.findings)]
                     ELSE NoReport
BY DEF TryFrom, Readable, WrapAll

LEMMA ListsIs ==
  ASSUME NEW findings \in Lists, NEW p \in Populations
  PROVE /\ findings[p] \in Seq(WireItems) /\ Len(findings[p]) \in Nat
        /\ DOMAIN findings[p] = 1..Len(findings[p])
        /\ \A i \in DOMAIN findings[p] : findings[p][i] \in WireItems
<1>1. findings[p] \in Seq(WireItems)
  BY DEF Lists
<1> QED BY <1>1, SeqIs

LEMMA WrapAllIs ==
  ASSUME NEW findings \in Lists
  PROVE /\ WrapAll(findings) \in Lists
        /\ \A p \in Populations :
             /\ DOMAIN WrapAll(findings)[p] = DOMAIN findings[p]
             /\ Len(WrapAll(findings)[p]) = Len(findings[p])
             /\ \A i \in DOMAIN findings[p] : WrapAll(findings)[p][i] = Wrap(findings[p][i])
<1> DEFINE l(p) == [i \in DOMAIN findings[p] |-> Wrap(findings[p][i])]
<1>1. ASSUME NEW p \in Populations
      PROVE /\ l(p) \in Seq(WireItems)
            /\ DOMAIN l(p) = DOMAIN findings[p]
            /\ Len(l(p)) = Len(findings[p])
            /\ \A i \in DOMAIN findings[p] : l(p)[i] = Wrap(findings[p][i])
  <2> DEFINE f == l(p)
             n == Len(findings[p])
  <2>1. n \in Nat /\ DOMAIN findings[p] = 1..n
    BY ListsIs
  <2>2. \A i \in DOMAIN findings[p] : Wrap(findings[p][i]) \in WireItems
    BY ListsIs, WrapIs
  <2>3. f = [i \in 1..n |-> f[i]] /\ \A i \in 1..n : f[i] \in WireItems /\ f[i] = Wrap(findings[p][i])
    BY <2>1, <2>2
  <2>4. f \in [1..n -> WireItems]
    <3> HIDE DEF f, n
    <3> QED BY <2>3
  <2>5. f \in Seq(WireItems) /\ Len(f) = n /\ DOMAIN f = 1..n
    <3> HIDE DEF f, n
    <3>1. f \in Seq(WireItems)
      BY <2>1, <2>4
    <3> QED BY <3>1, <2>1, <2>4
  <2> QED BY <2>1, <2>3, <2>5
<1>2. WrapAll(findings) = [p \in Populations |-> l(p)]
  BY DEF WrapAll
<1>3. \A p \in Populations : WrapAll(findings)[p] = l(p)
  BY <1>2
<1> HIDE DEF l
<1>4. WrapAll(findings) \in Lists
  BY <1>1, <1>2 DEF Lists
<1> QED BY <1>1, <1>3, <1>4

\* Lists that are settled wrap to themselves.
LEMMA SettledStays ==
  ASSUME NEW findings \in Lists, Settled(findings)
  PROVE WrapAll(findings) = findings
<1>1. ASSUME NEW p \in Populations PROVE WrapAll(findings)[p] = findings[p]
  <2> DEFINE a == WrapAll(findings)[p]
             b == findings[p]
  <2>1. a \in Seq(WireItems) /\ b \in Seq(WireItems) /\ Len(a) = Len(b) /\ DOMAIN a = 1..Len(b) /\ DOMAIN b = 1..Len(b)
    BY WrapAllIs, ListsIs
  <2>2. \A i \in 1..Len(b) : a[i] = b[i]
    BY <2>1, WrapAllIs DEF Settled
  <2> HIDE DEF a, b
  <2>3. a = b
    BY <2>1, <2>2, SeqIs
  <2> QED BY <2>3 DEF a, b
<1>2. WrapAll(findings) \in Lists
  BY WrapAllIs
<1> QED BY <1>1, <1>2 DEF Lists
LEMMA SoundIs ==
  ASSUME NEW r, Sound(r)
  PROVE /\ r \in [summary : Summaries, findings : Lists]
        /\ r.findings \in Lists
        /\ r.summary \in Summaries
        /\ Settled(r.findings)
BY WireReportsAre DEF Sound

\* What is settled is read back as it is.
LEMMA SoundIsRead ==
  ASSUME NEW r, Sound(r)
  PROVE TryFrom(r) = r
<1>1. r \in [summary : Summaries, findings : Lists] /\ r.findings \in Lists
  BY SoundIs
<1>2. Readable(r)
  BY DEF Sound, Readable, Settled
<1>3. WrapAll(r.findings) = r.findings
  BY <1>1, SettledStays DEF Sound
<1>4. [r.summary EXCEPT !.generated_at = to_utc(@)] = r.summary
  <2>1. r.summary \in [scope : ScopeRecords, generated_at : Instants, counts : [Populations -> Int]]
    BY <1>1 DEF Summaries
  <2>2. to_utc(r.summary.generated_at) = r.summary.generated_at
    BY DEF Sound
  <2> QED BY <2>1, <2>2
<1>5. r = [summary |-> r.summary, findings |-> r.findings]
  BY <1>1
<1> QED BY <1>2, <1>3, <1>4, <1>5, TryFromIs

LEMMA WrappedIsSettled ==
  ASSUME NEW findings \in Lists,
         \A p \in Populations : \A i \in DOMAIN findings[p] : Accepts(p, findings[p][i])
  PROVE Settled(WrapAll(findings))
<1> SUFFICES ASSUME NEW p \in Populations, NEW i \in DOMAIN WrapAll(findings)[p]
             PROVE /\ Accepts(p, WrapAll(findings)[p][i])
                   /\ Wrap(WrapAll(findings)[p][i]) = WrapAll(findings)[p][i]
  BY DEF Settled
<1>1. i \in DOMAIN findings[p] /\ WrapAll(findings)[p][i] = Wrap(findings[p][i])
  BY WrapAllIs
<1>2. findings[p][i] \in WireItems /\ Accepts(p, findings[p][i])
  BY <1>1, ListsIs
<1> QED BY <1>1, <1>2, WrapSettles

LEMMA CountsIs ==
  ASSUME NEW findings
  PROVE /\ from_populations(findings) = [p \in Populations |-> Len(findings[p])]
        /\ \A p \in Populations : from_populations(findings)[p] = Len(findings[p])
BY DEF from_populations

\* Whatever is read is sound, and has the sources of the file.
LEMMA ReadIsSound ==
  ASSUME NEW w \in WireReports, TryFrom(w) # NoReport
  PROVE /\ Readable(w)
        /\ Sound(TryFrom(w))
        /\ \A p \in Populations : Sources(TryFrom(w), p) = Sources(w, p)
<1> DEFINE r == TryFrom(w)
           s == [w.summary EXCEPT !.generated_at = to_utc(@)]
           f == WrapAll(w.findings)
<1>1. Readable(w) /\ r = [summary |-> s, findings |-> f]
  BY TryFromIs
<1>2. w.findings \in Lists /\ w.summary \in Summaries
  BY WireReportsAre
<1>3. f \in Lists /\ Settled(f)
  BY <1>1, <1>2, WrapAllIs, WrappedIsSettled DEF Readable
<1>4. /\ s \in Summaries /\ s.scope = w.summary.scope /\ s.counts = w.summary.counts
      /\ to_utc(s.generated_at) = s.generated_at
  <2>1. w.summary \in [scope : ScopeRecords, generated_at : Instants, counts : [Populations -> Int]]
    BY <1>2 DEF Summaries
  <2>2. to_utc(w.summary.generated_at) \in Instants
        /\ to_utc(to_utc(w.summary.generated_at)) = to_utc(w.summary.generated_at)
    BY <2>1, UtcIsUtc
  <2>3. s \in [scope : ScopeRecords, generated_at : Instants, counts : [Populations -> Int]]
        /\ s.scope = w.summary.scope /\ s.counts = w.summary.counts
        /\ s.generated_at = to_utc(w.summary.generated_at)
    BY <2>1, <2>2
  <2> HIDE DEF s
  <2> QED BY <2>2, <2>3 DEF Summaries
<1>5. r.summary = s /\ r.findings = f
  BY <1>1
<1>6. r \in WireReports
  BY <1>1, <1>3, <1>4, WireReportsAre
<1>7. s.counts = from_populations(f)
  <2>1. \A p \in Populations : Len(f[p]) = Len(w.findings[p])
    BY <1>2, WrapAllIs
  <2>2. from_populations(f) = from_populations(w.findings)
    BY <2>1 DEF from_populations
  <2> QED BY <2>2, <1>1, <1>4 DEF Readable
<1>8. ScopeAccepted(s.scope)
  BY <1>1, <1>4 DEF Readable
<1>9. Sound(r)
  <2> HIDE DEF r, s, f
  <2> QED BY <1>3, <1>4, <1>5, <1>6, <1>7, <1>8 DEF Sound
<1>10. ASSUME NEW p \in Populations PROVE Sources(r, p) = Sources(w, p)
  <2>1. DOMAIN f[p] = DOMAIN w.findings[p]
    BY <1>2, WrapAllIs
  <2>2. \A i \in DOMAIN w.findings[p] : f[p][i].finding = w.findings[p][i].finding
    BY <1>2, WrapAllIs, WrapIs, ListsIs
  <2> HIDE DEF r, s, f
  <2> QED BY <2>1, <2>2, <1>5 DEF Sources
<1> QED BY <1>1, <1>9, <1>10

-----------------------------------------------------------------------------
(* Editing a file *)

LEMMA RemovedAt ==
  ASSUME NEW S, NEW s \in Seq(S), NEW i \in DOMAIN s
  PROVE RemoveAt(s, i) \in Seq(S) /\ Len(RemoveAt(s, i)) = Len(s) - 1
<1>1. i \in 1..Len(s) /\ Len(s) \in Nat
  OBVIOUS
<1>2. /\ SubSeq(s, 1, i - 1) \in Seq(S) /\ Len(SubSeq(s, 1, i - 1)) = i - 1
      /\ SubSeq(s, i + 1, Len(s)) \in Seq(S) /\ Len(SubSeq(s, i + 1, Len(s))) = Len(s) - i
  BY <1>1
<1> DEFINE a == SubSeq(s, 1, i - 1)
           b == SubSeq(s, i + 1, Len(s))
<1>3. a \in Seq(S) /\ b \in Seq(S) /\ Len(a) = i - 1 /\ Len(b) = Len(s) - i
  BY <1>2
<1>4. RemoveAt(s, i) = a \o b
  BY DEF RemoveAt
<1> HIDE DEF a, b
<1>5. a \o b \in Seq(S) /\ Len(a \o b) = Len(a) + Len(b)
  BY <1>3, ConcatProperties
<1> QED BY <1>1, <1>3, <1>4, <1>5

LEMMA Appended ==
  ASSUME NEW S, NEW s \in Seq(S), NEW x \in S
  PROVE Append(s, x) \in Seq(S) /\ Len(Append(s, x)) = Len(s) + 1 /\ Len(s) \in Nat
OBVIOUS

LEMMA ReplacedAt ==
  ASSUME NEW S, NEW s \in Seq(S), NEW i \in DOMAIN s, NEW x \in S
  PROVE ReplaceAt(s, i, x) \in Seq(S) /\ DOMAIN ReplaceAt(s, i, x) = DOMAIN s
BY DEF ReplaceAt

LEMMA Reversed ==
  ASSUME NEW S, NEW s \in Seq(S)
  PROVE Reverse(s) \in Seq(S)
<1>1. Reverse(s) \in [1..Len(s) -> S]
  <2>1. \A i \in 1..Len(s) : Len(s) - i + 1 \in 1..Len(s)
    OBVIOUS
  <2> QED BY <2>1 DEF Reverse
<1> QED BY <1>1

\* One entry edited in place keeps its source.
LEMMA EditedItem ==
  ASSUME NEW item \in WireItems, NEW x \in EditsOfItem(item)
  PROVE x \in WireItems /\ x.finding.source = item.finding.source
<1>1. item \in [finding : FindingRecords, causes : CauseList] /\ item.causes \in CauseList
  BY WireItemsAre
<1>2. item.finding \in [source : {f.source : f \in Findings}, reachability : Populations, layers : Seq(ToSet(Layers))]
  BY <1>1 DEF FindingRecords
<1>3. CASE \E r \in Populations : x = [item EXCEPT !.finding.reachability = r]
  <2> PICK r \in Populations : x = [item EXCEPT !.finding.reachability = r]
    BY <1>3
  <2> DEFINE g == [item.finding EXCEPT !.reachability = r]
  <2>1. g \in FindingRecords /\ g.source = item.finding.source
    BY <1>2 DEF FindingRecords
  <2>2. x = [item EXCEPT !.finding = g]
    OBVIOUS
  <2> HIDE DEF g
  <2> QED BY <1>1, <2>1, <2>2, WireItemsAre
<1>4. CASE \E i \in DOMAIN item.finding.layers : x = [item EXCEPT !.finding.layers = RemoveAt(@, i)]
  <2> PICK i \in DOMAIN item.finding.layers : x = [item EXCEPT !.finding.layers = RemoveAt(@, i)]
    BY <1>4
  <2> DEFINE g == [item.finding EXCEPT !.layers = RemoveAt(@, i)]
  <2>0. RemoveAt(item.finding.layers, i) \in Seq(ToSet(Layers))
    BY <1>2, RemovedAt
  <2>1. g \in FindingRecords /\ g.source = item.finding.source
    BY <1>2, <2>0 DEF FindingRecords
  <2>2. x = [item EXCEPT !.finding = g]
    OBVIOUS
  <2> HIDE DEF g
  <2> QED BY <1>1, <2>1, <2>2, WireItemsAre
<1>5. ASSUME NEW c \in CauseList, x = [item EXCEPT !.causes = c]
      PROVE x \in WireItems /\ x.finding.source = item.finding.source
  BY <1>1, <1>5, WireItemsAre
<1>6. CASE \E i \in DOMAIN item.causes : x = [item EXCEPT !.causes = RemoveAt(@, i)]
  <2> PICK i \in DOMAIN item.causes : x = [item EXCEPT !.causes = RemoveAt(@, i)]
    BY <1>6
  <2>1. RemoveAt(item.causes, i) \in CauseList
    BY <1>1, RemovedAt DEF CauseList
  <2> QED BY <1>5, <2>1
<1>7. CASE \E i \in DOMAIN item.causes : x = [item EXCEPT !.causes = Append(@, @[i])]
  <2> PICK i \in DOMAIN item.causes : x = [item EXCEPT !.causes = Append(@, @[i])]
    BY <1>7
  <2>1. Append(item.causes, item.causes[i]) \in CauseList
    BY <1>1, Appended, SeqIs DEF CauseList
  <2> QED BY <1>5, <2>1
<1>8. CASE x = [item EXCEPT !.causes = Reverse(@)]
  <2>1. Reverse(item.causes) \in CauseList
    BY <1>1, Reversed DEF CauseList
  <2> QED BY <1>5, <1>8, <2>1
<1> QED BY <1>3, <1>4, <1>6, <1>7, <1>8 DEF EditsOfItem
\* What an edit of the lists is: one entry changed in place, or a list that is
\* one shorter or one longer than it was.
LEMMA EditedLists ==
  ASSUME NEW findings \in Lists, NEW g \in EditsOfFindings(findings)
  PROVE /\ g \in Lists
        /\ \/ \E p \in Populations : Len(g[p]) # Len(findings[p])
           \/ \A p \in Populations :
                /\ DOMAIN g[p] = DOMAIN findings[p]
                /\ \A i \in DOMAIN findings[p] : g[p][i].finding.source = findings[p][i].finding.source
<1>1. PICK p \in Populations : \E i \in DOMAIN findings[p] : g \in EditsAt(findings, p, i)
  BY DEF EditsOfFindings
<1>2. PICK i \in DOMAIN findings[p] : g \in EditsAt(findings, p, i)
  BY <1>1
<1>3. findings \in [Populations -> Seq(WireItems)]
  BY DEF Lists
<1>4. findings[p] \in Seq(WireItems) /\ findings[p][i] \in WireItems /\ Len(findings[p]) \in Nat
  BY ListsIs
<1>5. CASE \E item \in EditsOfItem(findings[p][i]) : g = [findings EXCEPT ![p] = ReplaceAt(@, i, item)]
  <2> PICK item \in EditsOfItem(findings[p][i]) : g = [findings EXCEPT ![p] = ReplaceAt(@, i, item)]
    BY <1>5
  <2> DEFINE l == ReplaceAt(findings[p], i, item)
  <2>1. item \in WireItems /\ item.finding.source = findings[p][i].finding.source
    BY <1>4, EditedItem
  <2>2. l \in Seq(WireItems) /\ DOMAIN l = DOMAIN findings[p]
    <3> DEFINE s == findings[p]
    <3>1. s \in Seq(WireItems) /\ item \in WireItems /\ i \in DOMAIN s /\ l = ReplaceAt(s, i, item)
      BY <1>4, <2>1
    <3> HIDE DEF s, l
    <3>2. l \in Seq(WireItems) /\ DOMAIN l = DOMAIN s
      BY <3>1, ReplacedAt
    <3> QED BY <3>2 DEF s
  <2>0. l[i] = item /\ \A j \in DOMAIN findings[p] \ {i} : l[j] = findings[p][j]
    BY <1>4 DEF ReplaceAt
  <2>3. g = [findings EXCEPT ![p] = l]
    OBVIOUS
  <2> HIDE DEF l
  <2>4. g[p] = l /\ g \in [Populations -> Seq(WireItems)] /\ \A q \in Populations \ {p} : g[q] = findings[q]
    BY <1>3, <2>2, <2>3
  <2> QED BY <2>0, <2>1, <2>2, <2>4 DEF Lists
<1>6. CASE g = [findings EXCEPT ![p] = RemoveAt(@, i)]
  <2> DEFINE l == RemoveAt(findings[p], i)
  <2>1. l \in Seq(WireItems) /\ Len(l) = Len(findings[p]) - 1
    BY <1>4, RemovedAt
  <2>2. g = [findings EXCEPT ![p] = l]
    BY <1>6
  <2> HIDE DEF l
  <2>3. g[p] = l /\ g \in [Populations -> Seq(WireItems)]
    BY <1>3, <2>1, <2>2
  <2>4. Len(g[p]) # Len(findings[p])
    BY <1>4, <2>1, <2>3
  <2> QED BY <2>3, <2>4 DEF Lists
<1>7. CASE g = [findings EXCEPT ![p] = Append(@, @[i])]
  <2> DEFINE l == Append(findings[p], findings[p][i])
  <2>1. l \in Seq(WireItems) /\ Len(l) = Len(findings[p]) + 1
    BY <1>4, Appended
  <2>2. g = [findings EXCEPT ![p] = l]
    BY <1>7
  <2> HIDE DEF l
  <2>3. g[p] = l /\ g \in [Populations -> Seq(WireItems)]
    BY <1>3, <2>1, <2>2
  <2>4. Len(g[p]) # Len(findings[p])
    BY <1>4, <2>1, <2>3
  <2> QED BY <2>3, <2>4 DEF Lists
<1>8. CASE \E q \in Populations \ {p} :
             g = [findings EXCEPT ![p] = RemoveAt(@, i), ![q] = Append(@, findings[p][i])]
  <2> PICK q \in Populations \ {p} :
             g = [findings EXCEPT ![p] = RemoveAt(@, i), ![q] = Append(@, findings[p][i])]
    BY <1>8
  <2> DEFINE l == RemoveAt(findings[p], i)
             m == Append(findings[q], findings[p][i])
  <2>1. l \in Seq(WireItems) /\ Len(l) = Len(findings[p]) - 1
    BY <1>4, RemovedAt
  <2>2. findings[q] \in Seq(WireItems)
    BY ListsIs
  <2>3. m \in Seq(WireItems)
    BY <1>4, <2>2, Appended
  <2>4. g = [findings EXCEPT ![p] = l, ![q] = m]
    BY <1>3
  <2> HIDE DEF l, m
  <2>5. g[p] = l /\ g \in [Populations -> Seq(WireItems)]
    BY <1>3, <2>1, <2>3, <2>4
  <2>6. Len(g[p]) # Len(findings[p])
    BY <1>4, <2>1, <2>5
  <2> QED BY <2>5, <2>6 DEF Lists
<1> QED BY <1>2, <1>5, <1>6, <1>7, <1>8 DEF EditsAt

LEMMA EditedSummary ==
  ASSUME NEW summary \in Summaries, NEW s \in EditsOfSummary(summary)
  PROVE s \in Summaries
<1>1. summary \in [scope : ScopeRecords, generated_at : Instants, counts : [Populations -> Int]]
  BY DEF Summaries
<1>2. CASE \E p \in Populations : s = [summary EXCEPT !.counts[p] = @ + 1]
  <2> PICK p \in Populations : s = [summary EXCEPT !.counts[p] = @ + 1]
    BY <1>2
  <2> DEFINE c == [summary.counts EXCEPT ![p] = @ + 1]
  <2>1. c \in [Populations -> Int]
    BY <1>1
  <2>2. s = [summary EXCEPT !.counts = c]
    OBVIOUS
  <2> HIDE DEF c
  <2> QED BY <1>1, <2>1, <2>2 DEF Summaries
<1>3. CASE \E p \in Populations : s = [summary EXCEPT !.counts[p] = @ - 1]
  <2> PICK p \in Populations : s = [summary EXCEPT !.counts[p] = @ - 1]
    BY <1>3
  <2> DEFINE c == [summary.counts EXCEPT ![p] = @ - 1]
  <2>1. c \in [Populations -> Int]
    BY <1>1
  <2>2. s = [summary EXCEPT !.counts = c]
    OBVIOUS
  <2> HIDE DEF c
  <2> QED BY <1>1, <2>1, <2>2 DEF Summaries
<1>4. ASSUME NEW x \in ScopeRecords, s = [summary EXCEPT !.scope = x] PROVE s \in Summaries
  BY <1>1, <1>4 DEF Summaries
<1>5. CASE s = [summary EXCEPT !.scope.accounts = {}]
  <2>1. [summary.scope EXCEPT !.accounts = {}] \in ScopeRecords
    BY <1>1 DEF ScopeRecords
  <2> QED BY <1>4, <1>5, <2>1
<1>6. CASE s = [summary EXCEPT !.scope.regions = {}]
  <2>1. [summary.scope EXCEPT !.regions = {}] \in ScopeRecords
    BY <1>1 DEF ScopeRecords
  <2> QED BY <1>4, <1>6, <2>1
<1>7. CASE s = [summary EXCEPT !.generated_at = [clock |-> @.clock + 2, offset |-> @.offset + 2]]
  <2> DEFINE t == [clock |-> summary.generated_at.clock + 2, offset |-> summary.generated_at.offset + 2]
  <2>1. t \in Instants
    BY <1>1 DEF Instants
  <2>2. s = [summary EXCEPT !.generated_at = t]
    BY <1>7
  <2> HIDE DEF t
  <2> QED BY <1>1, <2>1, <2>2 DEF Summaries
<1>8. \/ \E p \in Populations : s = [summary EXCEPT !.counts[p] = @ + 1]
      \/ \E p \in Populations : s = [summary EXCEPT !.counts[p] = @ - 1]
      \/ s = [summary EXCEPT !.scope.accounts = {}]
      \/ s = [summary EXCEPT !.scope.regions = {}]
      \/ s = [summary EXCEPT !.generated_at = [clock |-> @.clock + 2, offset |-> @.offset + 2]]
  BY DEF EditsOfSummary
<1> QED BY <1>2, <1>3, <1>5, <1>6, <1>7, <1>8

LEMMA EditedFile ==
  ASSUME NEW r \in WireReports, NEW w \in EditsOf(r)
  PROVE /\ w \in WireReports
        /\ \/ w.findings \in EditsOfFindings(r.findings) /\ w.summary = r.summary
           \/ w.findings = r.findings
<1>1. r \in [summary : Summaries, findings : Lists]
  BY WireReportsAre
<1>2. CASE \E g \in EditsOfFindings(r.findings) : w = [r EXCEPT !.findings = g]
  <2> PICK g \in EditsOfFindings(r.findings) : w = [r EXCEPT !.findings = g]
    BY <1>2
  <2>1. g \in Lists
    BY <1>1, EditedLists
  <2>2. w \in [summary : Summaries, findings : Lists] /\ w.findings = g /\ w.summary = r.summary
    BY <1>1, <2>1
  <2> QED BY <2>2, WireReportsAre
<1>3. CASE \E s \in EditsOfSummary(r.summary) : w = [r EXCEPT !.summary = s]
  <2> PICK s \in EditsOfSummary(r.summary) : w = [r EXCEPT !.summary = s]
    BY <1>3
  <2>1. s \in Summaries
    BY <1>1, EditedSummary
  <2>2. w \in [summary : Summaries, findings : Lists] /\ w.findings = r.findings
    BY <1>1, <2>1
  <2> QED BY <2>2, WireReportsAre
<1> QED BY <1>2, <1>3 DEF EditsOf

\* One edit that a reader lets pass leaves every verdict where it was.
LEMMA OneEditTells ==
  ASSUME NEW r, Sound(r), NEW w \in EditsOf(r), TryFrom(w) # NoReport
  PROVE \A p \in Populations : Sources(TryFrom(w), p) = Sources(r, p)
<1>1. r \in WireReports /\ r.findings \in Lists
  BY SoundIs DEF Sound
<1>2. w \in WireReports
  BY <1>1, EditedFile
<1>3. Readable(w) /\ \A p \in Populations : Sources(TryFrom(w), p) = Sources(w, p)
  BY <1>2, ReadIsSound
<1>4. CASE w.findings = r.findings
  BY <1>3, <1>4 DEF Sources
<1>5. CASE w.findings \in EditsOfFindings(r.findings) /\ w.summary = r.summary
  <2>1. from_populations(w.findings) = from_populations(r.findings)
    BY <1>3, <1>5 DEF Readable, Sound
  <2>2. \A p \in Populations : Len(w.findings[p]) = Len(r.findings[p])
    BY <2>1, CountsIs
  <2>3. \A p \in Populations :
          /\ DOMAIN w.findings[p] = DOMAIN r.findings[p]
          /\ \A i \in DOMAIN r.findings[p] : w.findings[p][i].finding.source = r.findings[p][i].finding.source
    BY <1>1, <1>5, <2>2, EditedLists
  <2>4. \A p \in Populations : Sources(w, p) = Sources(r, p)
    BY <2>3 DEF Sources
  <2> QED BY <1>3, <2>4
<1> QED BY <1>1, <1>4, <1>5, EditedFile
-----------------------------------------------------------------------------
(* The invariant *)

LEMMA NotNoReport == \A w \in WireReports : w # NoReport
<1> SUFFICES ASSUME NEW w \in WireReports, w = NoReport PROVE FALSE
  OBVIOUS
<1>1. w.findings \in [Populations -> Seq(WireItems)]
  BY WireReportsAre DEF Lists
<1>2. w.findings = <<>>
  BY DEF NoReport
<1>3. "reachable" \in DOMAIN w.findings
  BY <1>1 DEF Populations
<1> QED BY <1>2, <1>3

LEMMA InitReportInv == Init => ReportInv
<1> SUFFICES ASSUME Init PROVE ReportInv
  OBVIOUS
<1>1. parts = [p \in Populations |-> <<>>] /\ \A p \in Populations : parts[p] = <<>>
  BY DEF Init
<1>2. parts \in [Populations -> Seq(WireItems)]
  BY <1>1
<1>3. Settled(parts)
  BY <1>1 DEF Settled
<1>4. report = NoReport /\ saved = NoReport /\ file = NoReport /\ edits = 0
  BY DEF Init
<1>5. FileInv
  BY <1>4 DEF FileInv
<1>6. OneEditIsSeen
  BY <1>4 DEF OneEditIsSeen, InHand
<1> QED BY <1>2, <1>3, <1>4, <1>5, <1>6 DEF ReportInv

LEMMA ItemsAreWire == Items \subseteq WireItems
<1> SUFFICES ASSUME NEW item \in Items PROVE item \in WireItems
  OBVIOUS
<1>1. item \in [finding : Findings, causes : CauseLists]
  BY DEF Items
<1>2. item.finding \in FindingRecords
  <2>1. [finding |-> item.finding, causes |-> <<>>] \in WireItems
    BY <1>1, ReportAssumption
  <2> QED BY <2>1, WireItemsAre
<1>3. Len(Layers) \in Nat
  BY ReportAssumption
<1>4. item.causes \in UNION {[1..n -> CauseRecords] : n \in 0..Len(Layers)}
  BY <1>1 DEF CauseLists, CauseRecords
<1>5. PICK n \in 0..Len(Layers) : item.causes \in [1..n -> CauseRecords]
  BY <1>4
<1>6. item.causes \in CauseList
  BY <1>3, <1>5 DEF CauseList
<1> QED BY <1>1, <1>2, <1>6, WireItemsAre

LEMMA KeepsAdd ==
  ASSUME ReportInv, NEW p \in Populations, NEW item \in Items, Add(p, item)
  PROVE ReportInv'
<1>1. item \in WireItems /\ Accepts(p, item)
  BY ItemsAreWire DEF Add
<1>2. Wrap(item) \in WireItems /\ Accepts(p, Wrap(item)) /\ Wrap(Wrap(item)) = Wrap(item)
  BY <1>1, WrapSettles
<1>3. parts \in Lists
  BY DEF ReportInv, Lists
<1> DEFINE l == Append(parts[p], Wrap(item))
<1>4. parts[p] \in Seq(WireItems)
  BY <1>3, ListsIs
<1>5. /\ l \in Seq(WireItems) /\ DOMAIN l = 1..Len(parts[p]) + 1 /\ Len(parts[p]) \in Nat
      /\ DOMAIN parts[p] = 1..Len(parts[p])
  BY <1>2, <1>4
<1>6. \A i \in DOMAIN l : l[i] = Wrap(item) \/ (i \in DOMAIN parts[p] /\ l[i] = parts[p][i])
  BY <1>2, <1>4
<1>7. parts' = [parts EXCEPT ![p] = l]
  BY DEF Add
<1>8. UNCHANGED <<report, saved, file, edits>> /\ file = NoReport
  BY DEF Add
<1> HIDE DEF l
<1>9. parts' \in [Populations -> Seq(WireItems)] /\ parts'[p] = l /\ \A q \in Populations \ {p} : parts'[q] = parts[q]
  BY <1>3, <1>5, <1>7 DEF Lists
<1>10. Settled(parts)'
  <2> SUFFICES ASSUME NEW q \in Populations, NEW i \in DOMAIN parts'[q]
               PROVE Accepts(q, parts'[q][i]) /\ Wrap(parts'[q][i]) = parts'[q][i]
    BY DEF Settled
  <2>1. CASE q # p
    BY <2>1, <1>9 DEF ReportInv, Settled
  <2>2. CASE q = p
    <3>1. parts'[q][i] = Wrap(item) \/ (i \in DOMAIN parts[p] /\ parts'[q][i] = parts[p][i])
      BY <2>2, <1>6, <1>9
    <3> QED BY <2>2, <3>1, <1>2 DEF ReportInv, Settled
  <2> QED BY <2>1, <2>2
<1>11. FileInv' /\ OneEditIsSeen'
  BY <1>8 DEF ReportInv, FileInv, OneEditIsSeen, InHand, Sources, Sound, Settled
<1>12. (report # NoReport => Sound(report))'
  BY <1>8 DEF ReportInv, Sound, Settled
<1> QED BY <1>9, <1>10, <1>11, <1>12 DEF ReportInv

LEMMA KeepsNew ==
  ASSUME ReportInv, NEW scope \in Scopes, NEW t \in Times, New(scope, t)
  PROVE ReportInv'
<1> DEFINE r == AuditReport(scope, t, parts)
           s == [scope |-> scope, generated_at |-> to_utc(t), counts |-> from_populations(parts)]
<1>1. r = [summary |-> s, findings |-> parts]
  BY DEF AuditReport
<1>2. parts \in Lists /\ Settled(parts)
  BY DEF ReportInv, Lists
<1>3. t \in Instants
  BY ReportAssumption DEF Instants
<1>4. from_populations(parts) \in [Populations -> Int]
  BY <1>2, ListsIs DEF from_populations
<1>5. scope \in ScopeRecords /\ ScopeAccepted(scope)
  BY DEF Scopes, ScopeRecords, New
<1>6. s \in Summaries /\ s.counts = from_populations(parts) /\ s.scope = scope
      /\ to_utc(s.generated_at) = s.generated_at
  BY <1>3, <1>4, <1>5, UtcIsUtc DEF Summaries
<1> HIDE DEF s
<1>7. r \in WireReports /\ r.summary = s /\ r.findings = parts
  BY <1>1, <1>2, <1>6, WireReportsAre
<1>8. Sound(r)
  <2> HIDE DEF r
  <2> QED BY <1>2, <1>5, <1>6, <1>7 DEF Sound
<1>9. report' = r /\ file = NoReport /\ UNCHANGED <<parts, saved, file, edits>>
  BY DEF New
<1>10. saved = NoReport /\ edits \in Nat /\ edits = 0
  BY <1>9 DEF ReportInv, FileInv
<1> HIDE DEF r
<1>11. FileInv' /\ OneEditIsSeen'
  BY <1>9, <1>10 DEF FileInv, OneEditIsSeen
<1>12. Settled(parts)' /\ Sound(report)'
  BY <1>2, <1>8, <1>9 DEF Settled, Sound
<1> QED BY <1>9, <1>11, <1>12 DEF ReportInv

LEMMA KeepsSerialize == ASSUME ReportInv, Serialize PROVE ReportInv'
<1>1. report # NoReport /\ file = NoReport /\ file' = report /\ saved' = report
      /\ UNCHANGED <<parts, report, edits>>
  BY DEF Serialize
<1>2. Sound(report) /\ report \in WireReports /\ edits = 0 /\ edits \in Nat
  BY <1>1 DEF ReportInv, FileInv, Sound
<1>3. Sound(saved)' /\ Sound(report)' /\ Settled(parts)'
  BY <1>1, <1>2 DEF ReportInv, Sound, Settled
<1>4. FileInv'
  BY <1>1, <1>2, <1>3 DEF FileInv
<1>5. OneEditIsSeen'
  BY <1>1, <1>2 DEF OneEditIsSeen
<1> QED BY <1>1, <1>3, <1>4, <1>5 DEF ReportInv

LEMMA KeepsEdit == ASSUME ReportInv, Edit PROVE ReportInv'
<1>1. file # NoReport /\ file' \in EditsOf(file) /\ edits' = edits + 1 /\ UNCHANGED <<parts, report, saved>>
  BY DEF Edit
<1>2. /\ Sound(saved) /\ file \in WireReports /\ edits \in Nat /\ saved # NoReport
      /\ edits = 0 => file = saved /\ report \in {saved, NoReport}
  BY <1>1 DEF ReportInv, FileInv
<1>3. file' \in WireReports /\ file' # NoReport
  BY <1>1, <1>2, EditedFile, NotNoReport
<1>4. edits' \in Nat /\ edits' # 0 /\ (edits' = 1 => edits = 0)
  BY <1>1, <1>2
<1>5. (report # NoReport => Sound(report))' /\ Settled(parts)' /\ Sound(saved)'
  BY <1>1, <1>2 DEF ReportInv, Sound, Settled
<1>6. FileInv'
  <2>1. edits' = 1 => file' \in EditsOf(saved')
    BY <1>1, <1>2, <1>4
  <2> QED BY <1>1, <1>2, <1>3, <1>4, <1>5, <2>1 DEF FileInv
<1>7. OneEditIsSeen'
  <2>1. edits' = 1 /\ report' # NoReport => report' = saved'
    BY <1>1, <1>2, <1>4
  <2> QED BY <2>1 DEF OneEditIsSeen, InHand, Sources
<1> QED BY <1>1, <1>5, <1>6, <1>7 DEF ReportInv

LEMMA KeepsDeserialize == ASSUME ReportInv, Deserialize PROVE ReportInv'
<1>1. file # NoReport /\ report' = TryFrom(file) /\ UNCHANGED <<parts, saved, file, edits>>
  BY DEF Deserialize
<1>2. /\ Sound(saved) /\ file \in WireReports /\ edits \in Nat /\ saved # NoReport
      /\ edits = 0 => file = saved
      /\ edits = 1 => file \in EditsOf(saved)
  BY <1>1 DEF ReportInv, FileInv
<1>3. report' # NoReport => Sound(TryFrom(file))
  BY <1>1, <1>2, ReadIsSound
<1>4. edits = 0 => report' = saved
  BY <1>1, <1>2, SoundIsRead
<1>5. (report # NoReport => Sound(report))' /\ Settled(parts)' /\ Sound(saved)'
  BY <1>1, <1>2, <1>3 DEF ReportInv, Sound, Settled
<1>6. FileInv'
  BY <1>1, <1>2, <1>4, <1>5 DEF FileInv
<1>7. OneEditIsSeen'
  <2>1. edits = 1 /\ report' # NoReport =>
          \A p \in Populations : Sources(TryFrom(file), p) = Sources(saved, p)
    BY <1>1, <1>2, OneEditTells
  <2> QED BY <1>1, <2>1 DEF OneEditIsSeen, InHand, Sources
<1> QED BY <1>1, <1>5, <1>6, <1>7 DEF ReportInv

\* Whatever is built, saved, edited and read back, in any order and however
\* often: what is in hand has nothing left for a constructor to refuse.
THEOREM ReportCorrect == Spec => []ReportInv
<1>1. ASSUME ReportInv, [Next]_vars PROVE ReportInv'
  <2>1. CASE UNCHANGED vars
    BY <1>1, <2>1 DEF vars, ReportInv, FileInv, OneEditIsSeen, InHand, Sources, Sound, Settled
  <2>2. CASE Next
    BY <1>1, <2>2, KeepsAdd, KeepsNew, KeepsSerialize, KeepsEdit, KeepsDeserialize DEF Next
  <2> QED BY <1>1, <2>1, <2>2
<1> QED BY <1>1, InitReportInv, PTL DEF Spec

\* AgreesWithItself: a report that was built or read back counts what it holds,
\* and explains every undecided layer once, in evaluation order.
THEOREM ReportAgrees == Spec => []AgreesWithItself
<1>1. ASSUME ReportInv PROVE AgreesWithItself
  <2> SUFFICES ASSUME report # NoReport, NEW p \in Populations
               PROVE /\ report.summary.counts[p] = Cardinality(DOMAIN report.findings[p])
                     /\ \A i \in DOMAIN report.findings[p] :
                          LET item == report.findings[p][i] IN
                          /\ item.finding.reachability = p
                          /\ p = "indeterminate" =>
                               /\ {item.causes[k].layer : k \in DOMAIN item.causes} = ToSet(item.finding.layers)
                               /\ \A k \in 1..Len(item.causes) - 1 :
                                    Rank(item.causes[k].layer) < Rank(item.causes[k + 1].layer)
    BY DEF AgreesWithItself, InHand
  <2>1. Sound(report) /\ report.findings \in Lists
    BY <1>1, SoundIs DEF ReportInv
  <2>2. report.summary.counts[p] = Cardinality(DOMAIN report.findings[p])
    <3> DEFINE n == Len(report.findings[p])
    <3>1. n \in Nat /\ DOMAIN report.findings[p] = 1..n
      BY <2>1, ListsIs
    <3>2. report.summary.counts[p] = n
      BY <2>1, CountsIs DEF Sound
    <3>3. Cardinality(1..n) = IF 1 > n THEN 0 ELSE n - 1 + 1
      <4>1. 1 \in Int /\ n \in Int
        BY <3>1
      <4> HIDE DEF n
      <4> QED BY <4>1, FS_Interval
    <3> HIDE DEF n
    <3> QED BY <3>1, <3>2, <3>3
  <2>3. ASSUME NEW i \in DOMAIN report.findings[p]
        PROVE LET item == report.findings[p][i] IN
              /\ item.finding.reachability = p
              /\ p = "indeterminate" =>
                   /\ {item.causes[k].layer : k \in DOMAIN item.causes} = ToSet(item.finding.layers)
                   /\ \A k \in 1..Len(item.causes) - 1 :
                        Rank(item.causes[k].layer) < Rank(item.causes[k + 1].layer)
    <3> DEFINE item == report.findings[p][i]
               c == item.causes
    <3>1. item \in WireItems /\ Accepts(p, item) /\ Wrap(item) = item
      BY <2>1, ListsIs DEF Sound, Settled
    <3>2. item.finding.reachability = p /\ (p = "indeterminate" => CausesMatch(item.finding, c))
      BY <3>1 DEF Accepts
    <3>3. c \in CauseList
      BY <3>1, WireItemsAre
    <3>4. ASSUME p = "indeterminate"
          PROVE /\ {c[k].layer : k \in DOMAIN c} = ToSet(item.finding.layers)
                /\ \A k \in 1..Len(c) - 1 : Rank(c[k].layer) < Rank(c[k + 1].layer)
      <4>1. c = InOrder(c)
        BY <3>1, <3>2, <3>4, WrapIs
      <4>2. Ascending(c)
        BY <3>3, <4>1, Sorted
      <4>3. CausesMatch(item.finding, c)
        BY <3>2, <3>4
      <4>4. \A k, l \in DOMAIN c : c[k].layer = c[l].layer => k = l
        BY <3>3, <4>3, MatchedAreDistinct DEF CausesMatch
      <4>5. {c[k].layer : k \in DOMAIN c} = ToSet(item.finding.layers)
        BY <4>3, LayersOfIs DEF CausesMatch
      <4>6. ASSUME NEW k \in 1..Len(c) - 1 PROVE Rank(c[k].layer) < Rank(c[k + 1].layer)
        <5>1. k \in DOMAIN c /\ k + 1 \in DOMAIN c /\ k < k + 1 /\ k # k + 1
          BY <3>3, SeqIs DEF CauseList
        <5>2. Rank(c[k].layer) <= Rank(c[k + 1].layer)
          BY <4>2, <5>1 DEF Ascending
        <5>3. Rank(c[k].layer) # Rank(c[k + 1].layer)
          BY <3>3, <4>4, <5>1, RankOf, Ranks
        <5>4. Rank(c[k].layer) \in Nat /\ Rank(c[k + 1].layer) \in Nat
          BY <3>3, <5>1, RankOf
        <5> HIDE DEF c
        <5> QED BY <5>2, <5>3, <5>4
      <4> QED BY <4>5, <4>6
    <3> QED BY <3>2, <3>4
  <2> QED BY <2>2, <2>3
<1> QED BY <1>1, ReportCorrect, PTL

\* RoundTrips: a report is read back as it was saved.
THEOREM ReportRoundTrips == Spec => []RoundTrips
<1>1. ASSUME ReportInv PROVE RoundTrips
  BY <1>1, SoundIsRead DEF ReportInv, FileInv, RoundTrips
<1> QED BY <1>1, ReportCorrect, PTL

\* OneEditIsSeen: one edit of a file cannot add, lose or move a verdict
\* unless the report is refused.
THEOREM EditIsSeen == Spec => []OneEditIsSeen
<1>1. ReportInv => OneEditIsSeen
  BY DEF ReportInv
<1> QED BY <1>1, ReportCorrect, PTL
=============================================================================

---------------------------- MODULE ViewsProofs ----------------------------
(***************************************************************************)
(* Proofs about the views of performance (module Views), for any set of    *)
(* foremen, plants, databases, commits and requests.  Two databases that   *)
(* agree on some plants give the same page of a filter that lets only rows *)
(* of those plants through: first for the sums, then for every service,    *)
(* then for every page and for the steps of a request.  The second half is *)
(* about pages next to each other: what two services compute with code of  *)
(* their own, ranks, scores, teams, trends, agrees when no commit came     *)
(* between, and a total is made of the parts shown with it.                *)
(***************************************************************************)
EXTENDS Views, SumProofs, FiniteSetTheorems, TLAPS

-----------------------------------------------------------------------------
(* Sums, sorted lists and their lengths.                                   *)

\* A table is the function it is written for.
LEMMA TableIs == \A f : Table(f) = f
BY DEF Table

\* The library's fold adds the values up.
LEMMA SumOverIs == \A S, val : SumOver(S, val) = Total(val, S)
BY DEF SumOver, FoldSet, MapThenFoldSet, Total, Adds, Chosen

\* A total order of its entries: integers with no tie that ord does not break.
Sortable(val, ord) ==
  /\ IsFiniteSet(DOMAIN val)
  /\ \A x \in DOMAIN val : val[x] \in Int /\ ord[x] \in Int
  /\ \A x, y \in DOMAIN val : ord[x] = ord[y] => x = y

\* Before is a strict total order of the entries.
LEMMA BeforeFacts ==
  ASSUME NEW val, NEW ord, Sortable(val, ord), NEW desc \in BOOLEAN
  PROVE  /\ \A x \in DOMAIN val : ~Before(val, ord, desc, x, x)
         /\ \A x, y, z \in DOMAIN val :
              Before(val, ord, desc, x, y) /\ Before(val, ord, desc, y, z) => Before(val, ord, desc, x, z)
         /\ \A x, y \in DOMAIN val : x # y => Before(val, ord, desc, x, y) \/ Before(val, ord, desc, y, x)
BY DEF Sortable, Before

\* Sorting lists every entry once, at its place.
LEMMA SortedIs ==
  ASSUME NEW val, NEW ord, Sortable(val, ord), NEW desc \in BOOLEAN
  PROVE  /\ Cardinality(DOMAIN val) \in Nat
         /\ Sorted(val, ord, desc) \in [1 .. Cardinality(DOMAIN val) -> DOMAIN val]
         /\ \A i \in 1 .. Cardinality(DOMAIN val) : Place(val, ord, desc, Sorted(val, ord, desc)[i]) = i
         /\ \A x \in DOMAIN val : /\ Place(val, ord, desc, x) \in 1 .. Cardinality(DOMAIN val)
                                  /\ Sorted(val, ord, desc)[Place(val, ord, desc, x)] = x
<1> DEFINE D      == DOMAIN val
           N      == Cardinality(D)
           to(x)  == {y \in D : Before(val, ord, desc, y, x)}
           place  == [x \in D |-> Place(val, ord, desc, x)]
<1>0. IsFiniteSet(D)
  BY DEF Sortable
<1>1. N \in Nat
  BY <1>0, FS_CardinalityType
<1>2. ASSUME NEW x \in D PROVE IsFiniteSet(to(x)) /\ Cardinality(to(x)) \in 0 .. N - 1 /\ place[x] = 1 + Cardinality(to(x))
  <2>1. to(x) \subseteq D /\ x \notin to(x)
    BY BeforeFacts
  <2>2. IsFiniteSet(to(x)) /\ Cardinality(to(x)) <= N /\ (Cardinality(to(x)) = N => to(x) = D)
    BY <1>0, <2>1, FS_Subset
  <2>3. Cardinality(to(x)) \in Nat
    BY <2>2, FS_CardinalityType
  <2>4. Cardinality(to(x)) # N
    BY <2>1, <2>2
  <2>5. place[x] = 1 + Cardinality(to(x))
    BY DEF Place
  <2> HIDE DEF to, place, N
  <2>6. QED
    BY <2>2, <2>3, <2>4, <2>5, <1>1
<1>3. ASSUME NEW x \in D, NEW y \in D, Before(val, ord, desc, x, y) PROVE place[x] < place[y]
  <2>1. to(x) \subseteq to(y)
    BY <1>3, BeforeFacts
  <2>2. x \in to(y) /\ x \notin to(x)
    BY <1>3, BeforeFacts
  <2>3. Cardinality(to(x)) <= Cardinality(to(y)) /\ Cardinality(to(x)) # Cardinality(to(y))
    BY <2>1, <2>2, <1>2, FS_Subset
  <2> HIDE DEF to, place, N
  <2>4. QED
    BY <2>3, <1>1, <1>2
<1>4. \A x \in D : place[x] \in 1 .. N
  <2> HIDE DEF to, place, N
  <2>1. QED
    BY <1>1, <1>2
<1>5. \A x, y \in D : place[x] = place[y] => x = y
  <2>1. ASSUME NEW x \in D, NEW y \in D, place[x] = place[y] PROVE x = y
    <3> HIDE DEF place, N
    <3>1. ~Before(val, ord, desc, x, y) /\ ~Before(val, ord, desc, y, x)
      BY <2>1, <1>1, <1>3, <1>4
    <3>2. QED
      BY <3>1, BeforeFacts
  <2>2. QED
    BY <2>1
<1>6. \A i \in 1 .. N : \E x \in D : place[x] = i
  <2>1. IsFiniteSet(1 .. N) /\ Cardinality(1 .. N) = N
    BY <1>1, FS_Interval
  <2>2. place \in [D -> 1 .. N]
    <3>1. \A x \in D : Place(val, ord, desc, x) \in 1 .. N
      BY <1>4
    <3> HIDE DEF N
    <3>2. QED
      BY <3>1
  <2>3. place \in Injection(D, 1 .. N)
    <3> HIDE DEF place, N
    <3>1. QED
      BY <2>2, <1>5 DEF Injection, IsInjective
  <2>4. place \in Surjection(D, 1 .. N)
    <3> HIDE DEF place
    <3>1. QED
      BY <1>0, <2>1, <2>3, FS_Injection
  <2>5. QED
    BY <2>4 DEF Surjection
<1>7. Sorted(val, ord, desc) = [i \in 1 .. N |-> CHOOSE x \in D : Place(val, ord, desc, x) = i]
  BY TableIs DEF Sorted
<1>8. \A i \in 1 .. N : Sorted(val, ord, desc)[i] \in D /\ Place(val, ord, desc, Sorted(val, ord, desc)[i]) = i
  <2>1. \A i \in 1 .. N : \E x \in D : Place(val, ord, desc, x) = i
    BY <1>6
  <2> HIDE DEF place, N
  <2>2. QED
    BY <2>1, <1>7
<1>9. Sorted(val, ord, desc) \in [1 .. N -> D]
  <2> HIDE DEF N
  <2>1. QED
    BY <1>7, <1>8
<1>10. \A x \in D : Place(val, ord, desc, x) \in 1 .. N /\ Sorted(val, ord, desc)[Place(val, ord, desc, x)] = x
  <2>1. \A x \in D : place[x] = Place(val, ord, desc, x)
    OBVIOUS
  <2> HIDE DEF place, N
  <2>2. QED
    BY <2>1, <1>4, <1>5, <1>8
<1>11. QED
  BY <1>1, <1>8, <1>9, <1>10

\* Of two entries of the list the one before comes first.
LEMMA SortedOrder ==
  ASSUME NEW val, NEW ord, Sortable(val, ord), NEW desc \in BOOLEAN
  PROVE  \A i, j \in 1 .. Cardinality(DOMAIN val) :
            i < j => Before(val, ord, desc, Sorted(val, ord, desc)[i], Sorted(val, ord, desc)[j])
<1> DEFINE s == Sorted(val, ord, desc)
           to(x) == {y \in DOMAIN val : Before(val, ord, desc, y, x)}
<1>1. SUFFICES ASSUME NEW i \in 1 .. Cardinality(DOMAIN val), NEW j \in 1 .. Cardinality(DOMAIN val), i < j,
                      ~Before(val, ord, desc, s[i], s[j])
               PROVE  FALSE
  OBVIOUS
<1>2. /\ Cardinality(DOMAIN val) \in Nat /\ s[i] \in DOMAIN val /\ s[j] \in DOMAIN val
      /\ Place(val, ord, desc, s[i]) = i /\ Place(val, ord, desc, s[j]) = j
  BY SortedIs
<1>3. s[i] # s[j]
  BY <1>1, <1>2
<1> HIDE DEF s
<1>4. Before(val, ord, desc, s[j], s[i])
  BY <1>1, <1>2, <1>3, BeforeFacts
<1>5. to(s[j]) \subseteq to(s[i])
  BY <1>2, <1>4, BeforeFacts
<1>6. /\ IsFiniteSet(to(s[i])) /\ Cardinality(to(s[j])) <= Cardinality(to(s[i]))
      /\ Cardinality(to(s[i])) \in Nat /\ Cardinality(to(s[j])) \in Nat
  <2>1. IsFiniteSet(DOMAIN val) /\ to(s[i]) \subseteq DOMAIN val /\ to(s[j]) \subseteq DOMAIN val
    BY DEF Sortable
  <2>2. IsFiniteSet(to(s[i])) /\ IsFiniteSet(to(s[j]))
    BY <2>1, FS_Subset
  <2> HIDE DEF to
  <2>3. QED
    BY <2>2, <1>5, FS_Subset, FS_CardinalityType
<1>7. i = 1 + Cardinality(to(s[i])) /\ j = 1 + Cardinality(to(s[j]))
  BY <1>2 DEF Place
<1> HIDE DEF to
<1>8. QED
  BY <1>1, <1>2, <1>6, <1>7

-----------------------------------------------------------------------------
(* What the scores are, whatever their SELECTs saw.                        *)

\* Foremen are finitely many, and every worker stands for one.
LEMMA FiniteWorld == /\ IsFiniteSet(Foremen) /\ Cardinality(Foremen) \in Nat
                     /\ \A i \in DOMAIN Workers : Workers[i].foreman \in Foremen
<1>1. IsFiniteSet(DOMAIN Workers)
  BY ViewsAssumption
<1>2. Foremen = {Workers[i].foreman : i \in DOMAIN Workers}
  BY DEF Foremen
<1>3. IsFiniteSet(Foremen)
  <2> DEFINE f == [i \in DOMAIN Workers |-> Workers[i].foreman]
  <2>1. f \in Surjection(DOMAIN Workers, Foremen)
    BY <1>2 DEF Surjection
  <2> HIDE DEF f
  <2>2. QED
    BY <1>1, <2>1, FS_Surjection
<1>4. QED
  BY <1>2, <1>3, FS_CardinalityType

\* The groups of a filter's rows with a denominator.
LEMMA GroupDomains ==
  ASSUME NEW see, NEW G, NEW k, NEW cols
  PROVE  \A g \in DOMAIN _kpi_period_scores_multi(see, G, k, cols) :
            \E c \in Cells : g = _group_key(cols, c) /\ _apply_filters(G, c)
<1> DEFINE stats == _kpi_period_stats_multi(IF k = "GSF" THEN see[1] ELSE see[2], G, k, cols)
           ratios == _kpi_period_stats_multi(see[3], G, k, cols)
<1>1. DOMAIN _kpi_period_scores_multi(see, G, k, cols) \subseteq DOMAIN stats
  <2>1. DOMAIN ScoresOf(k, stats, ratios) = {h \in DOMAIN stats : stats[h].den > 0}
    <3> HIDE DEF stats, ratios
    <3>1. QED
      BY TableIs DEF ScoresOf
  <2>2. _kpi_period_scores_multi(see, G, k, cols) = ScoresOf(k, stats, ratios)
    BY DEF _kpi_period_scores_multi
  <2> HIDE DEF stats, ratios
  <2>3. QED
    BY <2>1, <2>2
<1>2. ASSUME NEW db PROVE DOMAIN _kpi_period_stats_multi(db, G, k, cols) = {_group_key(cols, c) : c \in COMPLETE(db, G, k)}
  BY TableIs DEF _kpi_period_stats_multi, GroupBy
<1>3. \A db : COMPLETE(db, G, k) \subseteq {c \in Cells : _apply_filters(G, c)}
  BY DEF COMPLETE
<1>4. ASSUME NEW g \in DOMAIN _kpi_period_scores_multi(see, G, k, cols)
      PROVE  \E c \in Cells : g = _group_key(cols, c) /\ _apply_filters(G, c)
  <2>1. PICK db : g \in DOMAIN _kpi_period_stats_multi(db, G, k, cols)
    BY <1>1
  <2>2. PICK c \in COMPLETE(db, G, k) : g = _group_key(cols, c)
    BY <2>1, <1>2
  <2>3. QED
    BY <2>2, <1>3
<1>5. QED
  BY <1>4

\* The weighted mean is a number up to 120.
LEMMA RootIs == \A product, W : Root(product, W) \in 0 .. 120
<1>1. ASSUME NEW product, NEW W PROVE Root(product, W) \in 0 .. 120
  <2> DEFINE T == {t \in 1 .. 120 : Power(t, W) <= product}
  <2>1. IsFiniteSet(1 .. 120) /\ Cardinality(1 .. 120) = 120
    <3>1. 1 \in Int /\ 120 \in Int
      OBVIOUS
    <3>2. IsFiniteSet(1 .. 120) /\ Cardinality(1 .. 120) = IF 1 > 120 THEN 0 ELSE 120 - 1 + 1
      BY <3>1, FS_Interval
    <3>3. QED
      BY <3>2
  <2>2. T \subseteq 1 .. 120
    OBVIOUS
  <2> HIDE DEF T
  <2>3. IsFiniteSet(T) /\ Cardinality(T) <= 120
    <3>1. \A S : IsFiniteSet(S) /\ Cardinality(S) = 120 /\ T \subseteq S => IsFiniteSet(T) /\ Cardinality(T) <= 120
      BY FS_Subset
    <3>2. QED
      BY <3>1, <2>1, <2>2
  <2>4. Cardinality(T) \in Nat
    BY <2>3, FS_CardinalityType
  <2>5. Root(product, W) = Cardinality(T)
    BY DEF Root, T
  <2>6. QED
    BY <2>3, <2>4, <2>5
<1>2. QED
  BY <1>1

\* A combined score is from 0 to 120.
LEMMA CombinedIs ==
  ASSUME NEW items, NEW W
  PROVE  /\ _combine_group(items, W).total \in 0 .. 120
         /\ _combine_group(items, W).reliable \in BOOLEAN
<1>1. \A score : weighted_geometric_score(score) \in 0 .. 120
  BY RootIs DEF weighted_geometric_score
<1>2. _combine_group(items, W).total \in 0 .. 120
  BY <1>1 DEF _combine_group
<1>3. _combine_group(items, W).reliable \in BOOLEAN
  BY DEF _combine_group
<1>4. QED
  BY <1>2, <1>3

\* Foremen have a score made of their rows, from 0 to 120.
LEMMA ForemanScoresAre ==
  ASSUME NEW see, NEW G
  PROVE  /\ DOMAIN foreman_scores(see, G) \subseteq Foremen
         /\ \A f \in DOMAIN foreman_scores(see, G) : /\ foreman_scores(see, G)[f].total \in 0 .. 120
                                                     /\ foreman_scores(see, G)[f].reliable \in BOOLEAN
<1> DEFINE per    == [k \in Kpis |-> _foreman_plant_kpi_entries(see, G, k)]
           keys   == UNION {DOMAIN per[k] : k \in Kpis}
           of(g)  == [k \in {j \in Kpis : g \in DOMAIN per[j]} |-> per[k][g]]
           scores == [g \in keys |-> _combine_group(of(g), active_kpi_weight_sum(G))]
<1>1. foreman_scores(see, G) = scores
  <2>1. foreman_scores(see, G) = Combined(per, G)
    BY TableIs DEF foreman_scores
  <2> HIDE DEF per
  <2>2. QED
    BY <2>1, TableIs DEF Combined
<1>2. ASSUME NEW k \in Kpis PROVE DOMAIN per[k] \subseteq Foremen
  <2> DEFINE d == _kpi_period_scores_multi(see, G, k, <<"foreman", "plant">>)
  <2>1. DOMAIN _equal_weight_plant_average(d) = {key[1] : key \in DOMAIN d}
    BY TableIs DEF _equal_weight_plant_average
  <2>2. \A key \in DOMAIN d : key[1] \in Foremen
    <3>1. ASSUME NEW key \in DOMAIN d PROVE key[1] \in Foremen
      <4>1. PICK c \in Cells : key = _group_key(<<"foreman", "plant">>, c)
        BY <3>1, GroupDomains
      <4>2. key[1] = Column("foreman", c)
        BY <4>1 DEF _group_key
      <4>3. Column("foreman", c) = Workers[c[1]].foreman
        BY DEF Column
      <4>4. c[1] \in DOMAIN Workers
        BY DEF Cells
      <4>5. QED
        BY <4>2, <4>3, <4>4, FiniteWorld
    <3>2. QED
      BY <3>1
  <2>3. per[k] = _equal_weight_plant_average(d)
    BY DEF _foreman_plant_kpi_entries
  <2> HIDE DEF d, per
  <2>4. QED
    BY <2>1, <2>2, <2>3
<1>3. keys \subseteq Foremen
  BY <1>2
<1> HIDE DEF of
<1>4. \A g \in keys : /\ _combine_group(of(g), active_kpi_weight_sum(G)).total \in 0 .. 120
                      /\ _combine_group(of(g), active_kpi_weight_sum(G)).reliable \in BOOLEAN
  BY CombinedIs
<1> HIDE DEF keys
<1>5. QED
  BY <1>1, <1>3, <1>4

\* The general scores of foremen are naturals, in an order of their own.
LEMMA GeneralIs ==
  ASSUME NEW see, NEW G, NEW bonus \in [Foremen -> Nat], NEW ord \in Orders
  PROVE  LET scores == foreman_scores(see, G) IN
         /\ DOMAIN General(scores, bonus) = DOMAIN scores
         /\ \A f \in DOMAIN scores : General(scores, bonus)[f] \in Nat
         /\ Sortable(General(scores, bonus), ord)
<1> DEFINE scores == foreman_scores(see, G)
           general == General(scores, bonus)
<1>1. general = [f \in DOMAIN scores |-> general_performance_score(scores[f].total, bonus[f])]
  BY TableIs DEF General
<1>2. DOMAIN scores \subseteq Foremen /\ \A f \in DOMAIN scores : scores[f].total \in 0 .. 120
  BY ForemanScoresAre
<1>3. \A a \in 0 .. 120 : \A b \in Nat : general_performance_score(a, b) \in Nat
  BY DEF general_performance_score, AtMost
<1> HIDE DEF scores, general
<1>4. DOMAIN general = DOMAIN scores /\ \A f \in DOMAIN scores : general[f] \in Nat
  BY <1>1, <1>2, <1>3
<1>5. IsFiniteSet(DOMAIN scores)
  BY <1>2, FiniteWorld, FS_Subset
<1>6. \A f, g \in Foremen : ord[f] \in Int /\ (ord[f] = ord[g] => f = g)
  BY ViewsAssumption
<1>7. Sortable(general, ord)
  BY <1>2, <1>4, <1>5, <1>6 DEF Sortable
<1>8. QED
  BY <1>4, <1>7 DEF general, scores

\* Their ids break ties too.
LEMMA ByIds ==
  ASSUME NEW see, NEW G, NEW bonus \in [Foremen -> Nat]
  PROVE  Sortable(General(foreman_scores(see, G), bonus), ForemanId)
<1> DEFINE scores  == foreman_scores(see, G)
           general == General(scores, bonus)
<1>1. general = [f \in DOMAIN scores |-> general_performance_score(scores[f].total, bonus[f])]
  BY TableIs DEF General
<1>2. DOMAIN scores \subseteq Foremen /\ \A f \in DOMAIN scores : scores[f].total \in 0 .. 120
  BY ForemanScoresAre
<1>3. \A a \in 0 .. 120 : \A b \in Nat : general_performance_score(a, b) \in Nat
  BY DEF general_performance_score, AtMost
<1> HIDE DEF scores, general
<1>4. DOMAIN general = DOMAIN scores /\ \A f \in DOMAIN scores : general[f] \in Nat
  BY <1>1, <1>2, <1>3
<1>5. IsFiniteSet(DOMAIN scores)
  BY <1>2, FiniteWorld, FS_Subset
<1>6. \A f, g \in Foremen : ForemanId[f] \in Int /\ (ForemanId[f] = ForemanId[g] => f = g)
  BY ViewsAssumption
<1>7. Sortable(general, ForemanId)
  BY <1>2, <1>4, <1>5, <1>6 DEF Sortable
<1>8. QED
  BY <1>7 DEF general, scores

-----------------------------------------------------------------------------
(* Rankings                                                                *)

\* A list cut at a limit keeps its first entries.
LEMMA LimitedIs ==
  ASSUME NEW N \in Nat, NEW s, s = [i \in 1 .. N |-> s[i]], NEW limit \in Nat
  PROVE  /\ DOMAIN Limited(s, limit) = 1 .. AtMost(N, limit)
         /\ \A i \in 1 .. AtMost(N, limit) : Limited(s, limit)[i] = s[i]
<1>1. s \in Seq({s[i] : i \in 1 .. N}) /\ Len(s) = N
  OBVIOUS
<1>2. AtMost(N, limit) \in Nat /\ AtMost(N, limit) <= N
  BY DEF AtMost
<1>3. Limited(s, limit) = SubSeq(s, 1, AtMost(N, limit))
  BY <1>1 DEF Limited
<1>4. SubSeq(s, 1, AtMost(N, limit)) = [i \in 1 .. AtMost(N, limit) |-> s[i]]
  BY <1>1, <1>2
<1>5. QED
  BY <1>2, <1>3, <1>4

\* How many entries a list of those of val has.
Cut(val, limit) == AtMost(Cardinality(DOMAIN val), limit)

\* A sorted list cut at a limit.
LEMMA CutIs ==
  ASSUME NEW val, NEW ord, Sortable(val, ord), NEW desc \in BOOLEAN, NEW limit \in Nat
  PROVE  /\ Cut(val, limit) \in Nat
         /\ DOMAIN Limited(Sorted(val, ord, desc), limit) = 1 .. Cut(val, limit)
         /\ \A i \in 1 .. Cut(val, limit) : /\ Sorted(val, ord, desc)[i] \in DOMAIN val
                                            /\ Limited(Sorted(val, ord, desc), limit)[i] = Sorted(val, ord, desc)[i]
<1> DEFINE s == Sorted(val, ord, desc)
           N == Cardinality(DOMAIN val)
<1>1. N \in Nat /\ s \in [1 .. N -> DOMAIN val]
  BY SortedIs
<1> HIDE DEF N, s
<1>2. /\ DOMAIN Limited(s, limit) = 1 .. AtMost(N, limit)
      /\ \A i \in 1 .. AtMost(N, limit) : Limited(s, limit)[i] = s[i]
  <2>1. s = [i \in 1 .. N |-> s[i]]
    BY <1>1
  <2>2. QED
    BY <1>1, <2>1, LimitedIs
<1>3. AtMost(N, limit) \in Nat /\ AtMost(N, limit) <= N
  BY <1>1 DEF AtMost
<1>4. \A i \in 1 .. AtMost(N, limit) : s[i] \in DOMAIN val
  BY <1>1, <1>3
<1>5. QED
  BY <1>2, <1>3, <1>4 DEF N, s, Cut

RankingItem(scores, general, f) ==
  [id |-> f, general |-> general[f], operational |-> scores[f].total, reliable |-> scores[f].reliable,
   level |-> resolve_performance_level(general[f])]

\* A ranking lists the first entries of the sorted general scores.
LEMMA RankingIs ==
  ASSUME NEW scores, NEW general, NEW ord, Sortable(general, ord), NEW desc \in BOOLEAN, NEW limit \in Nat
  PROVE  /\ DOMAIN _foreman_ranking_items(scores, general, ord, desc, limit) = 1 .. Cut(general, limit)
         /\ Len(_foreman_ranking_items(scores, general, ord, desc, limit)) = Cut(general, limit)
         /\ Cut(general, limit) = 0 => _foreman_ranking_items(scores, general, ord, desc, limit) = <<>>
         /\ \A i \in 1 .. Cut(general, limit) :
              /\ Sorted(general, ord, desc)[i] \in DOMAIN general
              /\ _foreman_ranking_items(scores, general, ord, desc, limit)[i]
                   = RankingItem(scores, general, Sorted(general, ord, desc)[i])
<1> DEFINE items == _foreman_ranking_items(scores, general, ord, desc, limit)
           s     == Sorted(general, ord, desc)
           l     == Limited(s, limit)
           m     == Cut(general, limit)
<1>1. /\ m \in Nat /\ DOMAIN l = 1 .. m
      /\ \A i \in 1 .. m : s[i] \in DOMAIN general /\ l[i] = s[i]
  BY CutIs
<1>2. items = [i \in DOMAIN l |-> RankingItem(scores, general, l[i])]
  BY DEF _foreman_ranking_items, RankingItem
<1> HIDE DEF s, items, l, m
<1>3. items = [i \in 1 .. m |-> RankingItem(scores, general, s[i])]
  BY <1>1, <1>2
<1>4. DOMAIN items = 1 .. m /\ Len(items) = m /\ (m = 0 => items = <<>>)
  BY <1>1, <1>3
<1>5. \A i \in 1 .. m : s[i] \in DOMAIN general /\ items[i] = RankingItem(scores, general, s[i])
  BY <1>1, <1>3
<1>6. QED
  BY <1>4, <1>5 DEF s, items, m

-----------------------------------------------------------------------------
(* Two databases that agree on some plants.                                *)

\* Every row that passes the filter G is one of a plant of V.
Inside(G, V) ==
  \A c \in Cells : /\ Passes(G.plants, Workers[c[1]].plant)
                   /\ Passes(G.factories, Factory[Workers[c[1]].plant])
                   => Workers[c[1]].plant \in V

\* Two databases with the same rows of the plants of V, and the same works.
Agree(a, b, V) ==
  /\ a.bonus = b.bonus
  /\ \A c \in Cells : Workers[c[1]].plant \in V => a.rows[c] = b.rows[c]

\* The fields the services read of a filter.
IsFilter(G) ==
  {"from", "to", "plants", "factories", "chiefs", "shifts", "kpis", "foremen"} \subseteq DOMAIN G

\* Three SELECTs that saw the same database.
Once(a) == <<a, a, a>>

\* The rows a filter lets through have the same sums in both databases.
LEMMA RowsSame ==
  ASSUME NEW a, NEW b, NEW V, NEW G, Agree(a, b, V), Inside(G, V)
  PROVE  /\ \A k : COMPLETE(a, G, k) = COMPLETE(b, G, k)
         /\ \A k : \A c \in COMPLETE(a, G, k) : a.rows[c] = b.rows[c]
         /\ \A k, cols : _kpi_period_stats_multi(a, G, k, cols) = _kpi_period_stats_multi(b, G, k, cols)
<1>1. \A c \in Cells : _apply_filters(G, c) => a.rows[c] = b.rows[c]
  BY DEF Agree, Inside, _apply_filters
<1>2. \A k : COMPLETE(a, G, k) = COMPLETE(b, G, k)
  BY <1>1 DEF COMPLETE
<1>3. \A k : \A c \in COMPLETE(a, G, k) : a.rows[c] = b.rows[c]
  BY <1>1 DEF COMPLETE
<1>4. ASSUME NEW k, NEW S \in SUBSET COMPLETE(a, G, k)
      PROVE  Sums(a.rows, S) = Sums(b.rows, S)
  <2>1. [c \in S |-> a.rows[c].num] = [c \in S |-> b.rows[c].num]
    BY <1>3, <1>4
  <2>2. [c \in S |-> a.rows[c].den] = [c \in S |-> b.rows[c].den]
    BY <1>3, <1>4
  <2>3. QED
    BY <2>1, <2>2 DEF Sums
<1>5. ASSUME NEW k, NEW cols
      PROVE  _kpi_period_stats_multi(a, G, k, cols) = _kpi_period_stats_multi(b, G, k, cols)
  <2> DEFINE S == COMPLETE(a, G, k)
             K == {_group_key(cols, c) : c \in S}
             Of(g) == {c \in S : _group_key(cols, c) = g}
  <2>1. \A g : Sums(a.rows, Of(g)) = Sums(b.rows, Of(g))
    BY <1>4
  <2>2. [g \in K |-> Sums(a.rows, Of(g))] = [g \in K |-> Sums(b.rows, Of(g))]
    BY <2>1
  <2>3. GroupBy(a.rows, S, cols) = GroupBy(b.rows, S, cols)
    BY <2>2 DEF GroupBy
  <2>4. QED
    BY <2>3, <1>2 DEF _kpi_period_stats_multi
<1>6. QED
  BY <1>2, <1>3, <1>5

\* The scores of every group, and who is in it.
LEMMA ScoresSame ==
  ASSUME NEW a, NEW b, NEW V, NEW G, Agree(a, b, V), Inside(G, V)
  PROVE  /\ \A k, cols : _kpi_period_scores_multi(Once(a), G, k, cols)
                           = _kpi_period_scores_multi(Once(b), G, k, cols)
         /\ Members(a, G) = Members(b, G)
<1>1. \A k, cols : _kpi_period_stats_multi(a, G, k, cols) = _kpi_period_stats_multi(b, G, k, cols)
  BY RowsSame
<1>2. \A c : Once(c)[1] = c /\ Once(c)[2] = c /\ Once(c)[3] = c
  BY DEF Once
<1>3. ASSUME NEW k, NEW cols
      PROVE  _kpi_period_scores_multi(Once(a), G, k, cols) = _kpi_period_scores_multi(Once(b), G, k, cols)
  <2>1. \A c : _kpi_period_scores_multi(Once(c), G, k, cols)
                 = ScoresOf(k, _kpi_period_stats_multi(c, G, k, cols), _kpi_period_stats_multi(c, G, k, cols))
    BY <1>2 DEF _kpi_period_scores_multi
  <2>2. QED
    BY <2>1, <1>1
<1>4. \A c \in Cells : _apply_filters(G, c) => a.rows[c] = b.rows[c]
  BY DEF Agree, Inside, _apply_filters
<1>5. {d \in Cells : a.rows[d].status # "ABSENT" /\ _apply_filters(G, d)}
        = {d \in Cells : b.rows[d].status # "ABSENT" /\ _apply_filters(G, d)}
  BY <1>4
<1>6. Members(a, G) = Members(b, G)
  BY <1>5 DEF Members
<1>7. QED
  BY <1>3, <1>6

\* The filters made of a filter let no more rows through than it does.
LEMMA FiltersInside ==
  ASSUME NEW G, NEW V, IsFilter(G), Inside(G, V)
  PROVE  /\ \A c : Inside(OfChief(G, c), V) /\ IsFilter(OfChief(G, c))
         /\ \A k : Inside(OfKpi(G, k), V) /\ IsFilter(OfKpi(G, k))
         /\ \A f : Inside(Only(G, f), V) /\ IsFilter(Only(G, f))
         /\ Inside(resolve_chief_scope(G), V)
         /\ \A m, n : Inside([G EXCEPT !.from = m, !.to = n], V)
         /\ Inside(_previous_period_filters(G), V)
<1>1. \A c : OfChief(G, c).plants = G.plants /\ OfChief(G, c).factories = G.factories
  BY DEF OfChief, IsFilter
<1>2. \A k : OfKpi(G, k).plants = G.plants /\ OfKpi(G, k).factories = G.factories
  BY DEF OfKpi, IsFilter
<1>3. \A f : Only(G, f).plants = G.plants /\ Only(G, f).factories = G.factories
  BY DEF Only, IsFilter
<1>4. resolve_chief_scope(G).plants = G.plants /\ resolve_chief_scope(G).factories = G.factories
  BY DEF resolve_chief_scope, IsFilter
<1>5. \A m, n : [G EXCEPT !.from = m, !.to = n].plants = G.plants
                /\ [G EXCEPT !.from = m, !.to = n].factories = G.factories
  BY DEF IsFilter
<1>6. _previous_period_filters(G).plants = G.plants /\ _previous_period_filters(G).factories = G.factories
  BY DEF _previous_period_filters, IsFilter
<1>7. \A c, k, f : IsFilter(OfChief(G, c)) /\ IsFilter(OfKpi(G, k)) /\ IsFilter(Only(G, f))
  BY DEF OfChief, OfKpi, Only, IsFilter
<1>8. \A H : H.plants = G.plants /\ H.factories = G.factories => Inside(H, V)
  BY DEF Inside
<1>9. QED
  BY <1>1, <1>2, <1>3, <1>4, <1>5, <1>6, <1>7, <1>8

\* The filter of one plant lets only its rows through.
LEMMA OnePlantInside ==
  ASSUME NEW G, NEW p, IsFilter(G), {p} # NoFilter
  PROVE  Inside(OfPlant(G, p), {p}) /\ IsFilter(OfPlant(G, p))
BY DEF OfPlant, IsFilter, Inside, Passes

-----------------------------------------------------------------------------
(* Everything that is computed from a database goes through those sums.    *)

\* The scores of foremen, plants, shifts, chiefs and KPIs.
LEMMA GroupsSame ==
  ASSUME NEW a, NEW b, NEW V, NEW G, Agree(a, b, V), Inside(G, V), IsFilter(G)
  PROVE  /\ foreman_scores(Once(a), G) = foreman_scores(Once(b), G)
         /\ plant_scores(Once(a), G) = plant_scores(Once(b), G)
         /\ shift_scores(Once(a), G) = shift_scores(Once(b), G)
         /\ chief_scores(Once(a), G) = chief_scores(Once(b), G)
         /\ kpi_breakdown(Once(a), G) = kpi_breakdown(Once(b), G)
         /\ kpi_summary(Once(a), G) = kpi_summary(Once(b), G)
<1>1. \A k, cols : _kpi_period_scores_multi(Once(a), G, k, cols) = _kpi_period_scores_multi(Once(b), G, k, cols)
  BY ScoresSame
<1>2. [k \in Kpis |-> _foreman_plant_kpi_entries(Once(a), G, k)]
        = [k \in Kpis |-> _foreman_plant_kpi_entries(Once(b), G, k)]
  BY <1>1 DEF _foreman_plant_kpi_entries
<1>3. foreman_scores(Once(a), G) = foreman_scores(Once(b), G)
  BY <1>2 DEF foreman_scores
<1>4. \A col : [k \in Kpis |-> _unwrap_single(_kpi_period_scores_multi(Once(a), G, k, <<col>>))]
                 = [k \in Kpis |-> _unwrap_single(_kpi_period_scores_multi(Once(b), G, k, <<col>>))]
  BY <1>1
<1>5. \A col : _grouped_scores(Once(a), G, col) = _grouped_scores(Once(b), G, col)
  BY <1>4 DEF _grouped_scores
<1>6. [k \in Kpis |-> _kpi_period_scores_multi(Once(a), G, k, <<>>)]
        = [k \in Kpis |-> _kpi_period_scores_multi(Once(b), G, k, <<>>)]
  BY <1>1
<1>7. kpi_breakdown(Once(a), G) = kpi_breakdown(Once(b), G)
  BY <1>6 DEF kpi_breakdown
<1>8. QED
  BY <1>3, <1>5, <1>7 DEF plant_scores, shift_scores, chief_scores, kpi_summary

\* The trends.
LEMMA TrendSame ==
  ASSUME NEW a, NEW b, NEW V, NEW G, Agree(a, b, V), Inside(G, V), IsFilter(G)
  PROVE  \A bucket, f : trend(Once(a), G, bucket, f) = trend(Once(b), G, bucket, f)
<1>1. ASSUME NEW bucket, NEW f
      PROVE  trend(Once(a), G, bucket, f) = trend(Once(b), G, bucket, f)
  <2>1. Inside(Only(G, f), V)
    BY FiltersInside
  <2>2. \A k, cols : _kpi_period_scores_multi(Once(a), Only(G, f), k, cols)
                       = _kpi_period_scores_multi(Once(b), Only(G, f), k, cols)
    BY <2>1, ScoresSame
  <2>3. [k \in Kpis |-> _equal_weight_plant_average(
                           _kpi_period_scores_multi(Once(a), Only(G, f), k, <<bucket, "plant">>))]
          = [k \in Kpis |-> _equal_weight_plant_average(
                           _kpi_period_scores_multi(Once(b), Only(G, f), k, <<bucket, "plant">>))]
    BY <2>2
  <2>4. \A k, cols : _kpi_period_scores_multi(Once(a), G, k, cols)
                       = _kpi_period_scores_multi(Once(b), G, k, cols)
    BY ScoresSame
  <2>5. [k \in Kpis |-> _unwrap_single(_kpi_period_scores_multi(Once(a), G, k, <<bucket>>))]
          = [k \in Kpis |-> _unwrap_single(_kpi_period_scores_multi(Once(b), G, k, <<bucket>>))]
    BY <2>4
  <2>6. QED
    BY <2>3, <2>5 DEF trend, _grouped_scores
<1>2. QED
  BY <1>1

\* A foreman's KPI scores, the values of a KPI and the chiefs' teams.
LEMMA BreakdownSame ==
  ASSUME NEW a, NEW b, NEW V, NEW G, Agree(a, b, V), Inside(G, V), IsFilter(G)
  PROVE  /\ \A f : foreman_kpi_breakdown(Once(a), Once(a), G, f)
                     = foreman_kpi_breakdown(Once(b), Once(b), G, f)
         /\ \A k : foreman_kpi_values(a, Once(a), G, k) = foreman_kpi_values(b, Once(b), G, k)
         /\ chief_team_scores(Once(a), Once(a), a, G) = chief_team_scores(Once(b), Once(b), b, G)
<1>1. ASSUME NEW f
      PROVE  foreman_kpi_breakdown(Once(a), Once(a), G, f) = foreman_kpi_breakdown(Once(b), Once(b), G, f)
  <2>1. Inside(Only(G, f), V) /\ IsFilter(Only(G, f))
    BY FiltersInside
  <2>2. kpi_breakdown(Once(a), Only(G, f)) = kpi_breakdown(Once(b), Only(G, f))
    BY <2>1, GroupsSame
  <2>3. \A k, cols : _kpi_period_scores_multi(Once(a), Only(G, f), k, cols)
                       = _kpi_period_scores_multi(Once(b), Only(G, f), k, cols)
    BY <2>1, ScoresSame
  <2>4. [k \in Kpis |-> _foreman_plant_kpi_entries(Once(a), Only(G, f), k)]
          = [k \in Kpis |-> _foreman_plant_kpi_entries(Once(b), Only(G, f), k)]
    BY <2>3 DEF _foreman_plant_kpi_entries
  <2>5. QED
    BY <2>2, <2>4 DEF foreman_kpi_breakdown
<1>2. \A k : foreman_kpi_values(a, Once(a), G, k) = foreman_kpi_values(b, Once(b), G, k)
  BY RowsSame, ScoresSame DEF foreman_kpi_values, _foreman_plant_kpi_entries
<1>3. chief_team_scores(Once(a), Once(a), a, G) = chief_team_scores(Once(b), Once(b), b, G)
  BY GroupsSame, ScoresSame DEF chief_team_scores
<1>4. QED
  BY <1>1, <1>2, <1>3

-----------------------------------------------------------------------------
(* The pages, when all their SELECTs saw one database.                     *)

Saw(s, n, a) == \A i \in 1 .. n : s[i] = a

\* How many SELECTs the pages make.
LEMMA SelectsAre ==
  /\ \A p \in {"foreman_trend", "chief_kpis", "chief_trend", "plant_kpis", "plant_shifts", "plant_chiefs",
               "plant_ranking", "trend", "kpi_summary", "shift_comparison"} : Selects(p) = 3
  /\ \A p \in {"plant_foremen", "ranking", "distribution", "report"} : Selects(p) = 4
  /\ \A p \in {"foreman_kpis", "trend_ranking"} : Selects(p) = 6
  /\ \A p \in {"foreman", "chief"} : Selects(p) = 7
  /\ Selects("chief_foremen") = 8 /\ Selects("plant_summary") = 9
  /\ Selects("summary") = 14 /\ Selects("comparison") = 16
  /\ Selects("snapshot") = 17 /\ Selects("monthly_report") = 17
  /\ Selects("kpi") = 19 /\ Selects("leaders") = 4 * Months + 4
  /\ Selects("foreman_detail") = 1
<1>1. /\ Selects("foreman_trend") = 3 /\ Selects("chief_kpis") = 3 /\ Selects("chief_trend") = 3
      /\ Selects("plant_kpis") = 3 /\ Selects("plant_shifts") = 3
  BY DEF Selects
<1>2. /\ Selects("plant_chiefs") = 3 /\ Selects("plant_ranking") = 3 /\ Selects("trend") = 3
      /\ Selects("kpi_summary") = 3 /\ Selects("shift_comparison") = 3
  BY DEF Selects
<1>3. \A p \in {"plant_foremen", "ranking", "distribution", "report"} : Selects(p) = 4
  BY DEF Selects
<1>4. \A p \in {"foreman_kpis", "trend_ranking"} : Selects(p) = 6
  BY DEF Selects
<1>5. \A p \in {"foreman", "chief"} : Selects(p) = 7
  BY DEF Selects
<1>6. /\ Selects("chief_foremen") = 8 /\ Selects("plant_summary") = 9
      /\ Selects("summary") = 14 /\ Selects("comparison") = 16
  BY DEF Selects
<1>7. /\ Selects("snapshot") = 17 /\ Selects("monthly_report") = 17
      /\ Selects("kpi") = 19 /\ Selects("foreman_detail") = 1
  BY DEF Selects
<1>8. Selects("leaders") = 4 * Months + 4
  BY DEF Selects
<1>9. QED
  BY <1>1, <1>2, <1>3, <1>4, <1>5, <1>6, <1>7, <1>8

\* A call of three SELECTs that saw one database.
LEMMA CallSaw ==
  ASSUME NEW s, NEW n \in Nat, NEW a, Saw(s, n, a)
  PROVE  \A i \in Nat : 1 <= i /\ i + 2 <= n => Call(s, i) = Once(a)
BY DEF Call, Once, Saw

\* The pages of a foreman.
LEMMA ForemanPagesSame ==
  ASSUME NEW a, NEW b, NEW V, NEW r, NEW s, NEW t, NEW ord,
         Agree(a, b, V), Inside(r.F, V), IsFilter(r.F), r.F.plants # NoFilter,
         r.page \in OfForeman \ {"foreman_detail", "monthly_report"},
         Saw(s, Selects(r.page), a), Saw(t, Selects(r.page), b)
  PROVE  ForemanPages(r, s, ord) = ForemanPages(r, t, ord)
<1>1. CASE r.page = "foreman"
  <2>1. Selects(r.page) = 7
    BY <1>1 DEF Selects
  <2>a. Saw(s, 7, a) /\ Saw(t, 7, b)
    BY <2>1
  <2>2. /\ Call(s, 1) = Once(a) /\ Call(s, 5) = Once(a) /\ s[4] = a
        /\ Call(t, 1) = Once(b) /\ Call(t, 5) = Once(b) /\ t[4] = b
    <3>1. s[4] = a /\ t[4] = b
      BY <2>a DEF Saw
    <3>2. Call(s, 1) = Once(a) /\ Call(s, 5) = Once(a)
      BY <2>a, CallSaw
    <3>3. Call(t, 1) = Once(b) /\ Call(t, 5) = Once(b)
      BY <2>a, CallSaw
    <3>4. QED
      BY <3>1, <3>2, <3>3
  <2>3. foreman_scores(Once(a), r.F) = foreman_scores(Once(b), r.F)
    BY GroupsSame
  <2>4. \A P : /\ resolve_foreman_scope(r.F, P).plants = r.F.plants
               /\ resolve_foreman_scope(r.F, P).factories = r.F.factories
               /\ IsFilter(resolve_foreman_scope(r.F, P))
    BY DEF resolve_foreman_scope, IsFilter
  <2>5. \A P : Inside(resolve_foreman_scope(r.F, P), V)
    BY <2>4 DEF Inside
  <2>6. \A P : foreman_scores(Once(a), resolve_foreman_scope(r.F, P))
                 = foreman_scores(Once(b), resolve_foreman_scope(r.F, P))
    BY <2>4, <2>5, GroupsSame
  <2>7. a.bonus = b.bonus
    BY DEF Agree
  <2>8. get_foreman(s, r.id, r.F, ord) = get_foreman(t, r.id, r.F, ord)
    BY <2>2, <2>3, <2>6, <2>7 DEF get_foreman
  <2>9. QED
    BY <1>1, <2>8 DEF ForemanPages
<1>2. CASE r.page = "foreman_kpis"
  <2>1. Selects(r.page) = 6
    BY <1>2 DEF Selects
  <2>2. /\ Call(s, 1) = Once(a) /\ Call(s, 4) = Once(a)
        /\ Call(t, 1) = Once(b) /\ Call(t, 4) = Once(b)
    BY <2>1, CallSaw
  <2>3. get_foreman_kpis(s, r.id, r.F) = get_foreman_kpis(t, r.id, r.F)
    BY <2>2, BreakdownSame DEF get_foreman_kpis
  <2>4. QED
    BY <1>2, <2>3 DEF ForemanPages
<1>3. CASE r.page = "foreman_trend"
  <2>1. Selects(r.page) = 3
    BY <1>3 DEF Selects
  <2>2. Call(s, 1) = Once(a) /\ Call(t, 1) = Once(b)
    BY <2>1, CallSaw
  <2>3. QED
    BY <1>3, <2>2, TrendSame DEF ForemanPages
<1>4. QED
  BY <1>1, <1>2, <1>3 DEF OfForeman

\* The pages of a chief.
LEMMA ChiefPagesSame ==
  ASSUME NEW a, NEW b, NEW V, NEW r, NEW s, NEW t, NEW ord,
         Agree(a, b, V), Inside(r.F, V), IsFilter(r.F), r.page \in OfAChief,
         Saw(s, Selects(r.page), a), Saw(t, Selects(r.page), b)
  PROVE  ChiefPages(r, s, ord) = ChiefPages(r, t, ord)
<1> DEFINE H == OfChief(r.F, r.id)
<1>1. Inside(H, V) /\ IsFilter(H)
  BY FiltersInside
<1>2. a.bonus = b.bonus
  BY DEF Agree
<1>3. ASSUME NEW n \in Nat, n >= 8, Selects(r.page) = n
      PROVE  get_chief_foremen(s, r.id, r.F, ord) = get_chief_foremen(t, r.id, r.F, ord)
  <2>1. /\ Call(s, 1) = Once(a) /\ Call(s, 4) = Once(a) /\ s[7] = a /\ s[8] = a
        /\ Call(t, 1) = Once(b) /\ Call(t, 4) = Once(b) /\ t[7] = b /\ t[8] = b
    BY <1>3, CallSaw DEF Saw
  <2>2. chief_team_scores(Once(a), Once(a), a, H) = chief_team_scores(Once(b), Once(b), b, H)
    BY <1>1, BreakdownSame
  <2>3. QED
    BY <2>1, <2>2, <1>2 DEF get_chief_foremen
<1>4. CASE r.page = "chief"
  <2>1. Selects(r.page) = 7
    BY <1>4 DEF Selects
  <2>2. /\ Call(s, 1) = Once(a) /\ Call(s, 4) = Once(a) /\ s[7] = a
        /\ Call(t, 1) = Once(b) /\ Call(t, 4) = Once(b) /\ t[7] = b
    BY <2>1, CallSaw DEF Saw
  <2>3. Inside(resolve_chief_scope(r.F), V) /\ IsFilter(resolve_chief_scope(r.F))
    BY FiltersInside DEF resolve_chief_scope, IsFilter
  <2>4. chief_team_scores(Once(a), Once(a), a, resolve_chief_scope(r.F))
          = chief_team_scores(Once(b), Once(b), b, resolve_chief_scope(r.F))
    BY <2>3, BreakdownSame
  <2>5. get_chief(s, r.id, r.F, ord) = get_chief(t, r.id, r.F, ord)
    BY <2>2, <2>4 DEF get_chief
  <2>6. QED
    BY <1>4, <2>5 DEF ChiefPages
<1>5. CASE r.page = "chief_foremen"
  <2>1. Selects(r.page) = 8
    BY <1>5 DEF Selects
  <2>2. QED
    BY <1>5, <2>1, <1>3 DEF ChiefPages
<1>6. CASE r.page = "chief_kpis"
  <2>1. Selects(r.page) = 3
    BY <1>6 DEF Selects
  <2>2. Call(s, 1) = Once(a) /\ Call(t, 1) = Once(b)
    BY <2>1, CallSaw
  <2>3. kpi_breakdown(Once(a), H) = kpi_breakdown(Once(b), H)
    BY <1>1, GroupsSame
  <2>4. QED
    BY <1>6, <2>2, <2>3 DEF ChiefPages, get_chief_kpis
<1>7. CASE r.page = "comparison"
  <2>1. Selects(r.page) = 16
    BY <1>7 DEF Selects
  <2>2. /\ Call(s, 1) = Once(a) /\ Call(s, 4) = Once(a) /\ s[7] = a
        /\ Call(s, 9) = Once(a) /\ Call(s, 13) = Once(a) /\ Call(s, 14) = Once(a)
        /\ s[12] = a /\ s[14] = a
    BY <2>1, CallSaw DEF Saw
  <2>3. /\ Call(t, 1) = Once(b) /\ Call(t, 4) = Once(b) /\ t[7] = b
        /\ Call(t, 9) = Once(b) /\ Call(t, 13) = Once(b) /\ Call(t, 14) = Once(b)
        /\ t[12] = b /\ t[14] = b
    BY <2>1, CallSaw DEF Saw
  <2>4. get_chief_foremen(s, r.id, r.F, ord) = get_chief_foremen(t, r.id, r.F, ord)
    BY <2>1, <1>3
  <2>5. chief_team_scores(Once(a), Once(a), a, H) = chief_team_scores(Once(b), Once(b), b, H)
    BY <1>1, BreakdownSame
  <2>6. kpi_breakdown(Once(a), H) = kpi_breakdown(Once(b), H)
    BY <1>1, GroupsSame
  <2>7. \A k : foreman_kpi_values(a, Once(a), H, k) = foreman_kpi_values(b, Once(b), H, k)
    BY <1>1, BreakdownSame
  <2> DEFINE of(u, k) == foreman_kpi_values(u[IF k = "GSF" THEN 12 ELSE 14],
                                            Call(u, IF k = "GSF" THEN 13 ELSE 14), H, k)
  <2>8. \A k : of(s, k) = foreman_kpi_values(a, Once(a), H, k)
    BY <2>2
  <2>9. \A k : of(t, k) = foreman_kpi_values(b, Once(b), H, k)
    BY <2>3
  <2>10. [k \in Kpis |-> of(s, k)] = [k \in Kpis |-> of(t, k)]
    BY <2>7, <2>8, <2>9
  <2>11. get_foreman_comparison(s, r.id, r.F, ord) = get_foreman_comparison(t, r.id, r.F, ord)
    BY <2>2, <2>3, <2>4, <2>5, <2>6, <2>10 DEF get_foreman_comparison
  <2>12. QED
    BY <1>7, <2>11 DEF ChiefPages
<1>8. CASE r.page = "chief_trend"
  <2>1. Selects(r.page) = 3
    BY <1>8 DEF Selects
  <2>2. Call(s, 1) = Once(a) /\ Call(t, 1) = Once(b)
    BY <2>1, CallSaw
  <2>3. \A bucket : trend(Once(a), H, bucket, None) = trend(Once(b), H, bucket, None)
    BY <1>1, TrendSame
  <2>4. QED
    BY <1>8, <2>2, <2>3 DEF ChiefPages, get_chief_trend
<1>9. QED
  BY <1>4, <1>5, <1>6, <1>7, <1>8 DEF OfAChief

\* The pages of a plant, of which only its own rows matter.
LEMMA PlantPagesSame ==
  ASSUME NEW a, NEW b, NEW r, NEW s, NEW t, NEW ord,
         Agree(a, b, {r.id}), {r.id} # NoFilter, IsFilter(r.F), r.page \in OfAPlant,
         Saw(s, Selects(r.page), a), Saw(t, Selects(r.page), b)
  PROVE  PlantPages(r, s, ord) = PlantPages(r, t, ord)
<1> DEFINE H == OfPlant(r.F, r.id)
<1>1. Inside(H, {r.id}) /\ IsFilter(H)
  BY OnePlantInside
<1>2. a.bonus = b.bonus
  BY DEF Agree
<1>3. /\ foreman_scores(Once(a), H) = foreman_scores(Once(b), H)
      /\ plant_scores(Once(a), H) = plant_scores(Once(b), H)
      /\ shift_scores(Once(a), H) = shift_scores(Once(b), H)
      /\ chief_scores(Once(a), H) = chief_scores(Once(b), H)
      /\ kpi_summary(Once(a), H) = kpi_summary(Once(b), H)
  BY <1>1, GroupsSame
<1>4. Selects(r.page) \in Nat /\ Selects(r.page) >= 3
  BY SelectsAre DEF OfAPlant
<1>5. Call(s, 1) = Once(a) /\ Call(t, 1) = Once(b)
  BY <1>4, CallSaw
<1>6. CASE r.page = "plant_summary"
  <2>1. Selects(r.page) = 9
    BY <1>6 DEF Selects
  <2>2. Call(s, 4) = Once(a) /\ Call(s, 7) = Once(a)
    BY <2>1, CallSaw
  <2>3. Call(t, 4) = Once(b) /\ Call(t, 7) = Once(b)
    BY <2>1, CallSaw
  <2>4. get_plant_summary(s, r.id, r.F, ord) = get_plant_summary(t, r.id, r.F, ord)
    BY <1>3, <1>5, <2>2, <2>3 DEF get_plant_summary, kpi_summary_of_plant
  <2>5. QED
    BY <1>6, <2>4 DEF PlantPages
<1>7. CASE r.page = "plant_kpis"
  BY <1>3, <1>5, <1>7 DEF PlantPages, get_plant_kpis, kpi_summary_of_plant
<1>8. CASE r.page = "plant_shifts"
  BY <1>3, <1>5, <1>8 DEF PlantPages, get_plant_shifts
<1>9. CASE r.page = "plant_chiefs"
  <2>1. get_plant_chiefs(s, r.id, r.F) = get_plant_chiefs(t, r.id, r.F)
    BY <1>3, <1>5 DEF get_plant_chiefs
  <2>2. QED
    BY <1>9, <2>1 DEF PlantPages
<1>10. CASE r.page = "plant_foremen"
  <2>1. Selects(r.page) = 4
    BY <1>10 DEF Selects
  <2>2. s[4] = a /\ t[4] = b
    BY <2>1 DEF Saw
  <2>3. compute_general_foreman_scores(s, 1, H) = compute_general_foreman_scores(t, 1, H)
    BY <1>2, <1>3, <1>5, <2>2 DEF compute_general_foreman_scores
  <2>4. QED
    BY <1>10, <2>3 DEF PlantPages, get_plant_foremen
<1>11. QED
  BY <1>6, <1>7, <1>8, <1>9, <1>10 DEF OfAPlant

\* The general scores, of production and of extra work.
LEMMA GeneralSame ==
  ASSUME NEW a, NEW b, NEW V, NEW G, NEW s, NEW t, NEW n \in Nat, NEW i \in Nat,
         Agree(a, b, V), Inside(G, V), IsFilter(G), Saw(s, n, a), Saw(t, n, b),
         1 <= i, i + 3 <= n
  PROVE  compute_general_foreman_scores(s, i, G) = compute_general_foreman_scores(t, i, G)
<1>1. Call(s, i) = Once(a) /\ Call(t, i) = Once(b)
  BY CallSaw
<1>2. s[i + 3] = a /\ t[i + 3] = b
  BY DEF Saw
<1>3. foreman_scores(Once(a), G) = foreman_scores(Once(b), G)
  BY GroupsSame
<1>4. a.bonus = b.bonus
  BY DEF Agree
<1>5. QED
  BY <1>1, <1>2, <1>3, <1>4 DEF compute_general_foreman_scores

\* The leaders of all months.
LEMMA LeadersSame ==
  ASSUME NEW a, NEW b, NEW V, NEW G, NEW s, NEW t, NEW ord,
         Agree(a, b, V), Inside(G, V), IsFilter(G),
         Saw(s, 4 * Months + 4, a), Saw(t, 4 * Months + 4, b)
  PROVE  leaders(s, G, ord) = leaders(t, G, ord)
<1>1. Months \in Nat \ {0}
  BY ViewsAssumption
<1>2. \A m, n : /\ Inside([G EXCEPT !.from = m, !.to = n], V)
               /\ IsFilter([G EXCEPT !.from = m, !.to = n])
  BY FiltersInside DEF IsFilter
<1>3. ASSUME NEW m \in 1 .. Months
      PROVE  _month_leader(s, 4 * m - 3, [G EXCEPT !.from = m, !.to = m], ord)
               = _month_leader(t, 4 * m - 3, [G EXCEPT !.from = m, !.to = m], ord)
  <2>1. 4 * m - 3 \in Nat /\ 1 <= 4 * m - 3 /\ (4 * m - 3) + 3 <= 4 * Months + 4 /\ 4 * Months + 4 \in Nat
    BY <1>1, <1>3
  <2>2. compute_general_foreman_scores(s, 4 * m - 3, [G EXCEPT !.from = m, !.to = m])
          = compute_general_foreman_scores(t, 4 * m - 3, [G EXCEPT !.from = m, !.to = m])
    <3>1. PICK n \in Nat, i \in Nat, K \in {[G EXCEPT !.from = m, !.to = m]} :
                  n = 4 * Months + 4 /\ i = 4 * m - 3 /\ K = [G EXCEPT !.from = m, !.to = m]
      BY <2>1
    <3>2. Saw(s, n, a) /\ Saw(t, n, b) /\ 1 <= i /\ i + 3 <= n
      BY <2>1, <3>1
    <3>3. Inside(K, V) /\ IsFilter(K)
      BY <1>2, <3>1
    <3>4. compute_general_foreman_scores(s, i, K) = compute_general_foreman_scores(t, i, K)
      BY <3>2, <3>3, GeneralSame
    <3>5. QED
      BY <3>1, <3>4
  <2>3. QED
    BY <2>2 DEF _month_leader, foreman_ranking
<1>4. _month_leader(s, 4 * Months + 1, [G EXCEPT !.from = 1, !.to = Months], ord)
        = _month_leader(t, 4 * Months + 1, [G EXCEPT !.from = 1, !.to = Months], ord)
  <2>1. 4 * Months + 1 \in Nat /\ 1 <= 4 * Months + 1 /\ (4 * Months + 1) + 3 <= 4 * Months + 4
        /\ 4 * Months + 4 \in Nat
    BY <1>1
  <2>2. compute_general_foreman_scores(s, 4 * Months + 1, [G EXCEPT !.from = 1, !.to = Months])
          = compute_general_foreman_scores(t, 4 * Months + 1, [G EXCEPT !.from = 1, !.to = Months])
    <3>1. PICK n \in Nat, i \in Nat, K \in {[G EXCEPT !.from = 1, !.to = Months]} :
                  n = 4 * Months + 4 /\ i = 4 * Months + 1 /\ K = [G EXCEPT !.from = 1, !.to = Months]
      BY <2>1
    <3>2. Saw(s, n, a) /\ Saw(t, n, b) /\ 1 <= i /\ i + 3 <= n
      BY <2>1, <3>1
    <3>3. Inside(K, V) /\ IsFilter(K)
      BY <1>2, <3>1
    <3>4. compute_general_foreman_scores(s, i, K) = compute_general_foreman_scores(t, i, K)
      BY <3>2, <3>3, GeneralSame
    <3>5. QED
      BY <3>1, <3>4
  <2>3. QED
    BY <2>2 DEF _month_leader, foreman_ranking
<1>5. [m \in 1 .. Months |-> _month_leader(s, 4 * m - 3, [G EXCEPT !.from = m, !.to = m], ord)]
        = [m \in 1 .. Months |-> _month_leader(t, 4 * m - 3, [G EXCEPT !.from = m, !.to = m], ord)]
  BY <1>3
<1>6. QED
  BY <1>4, <1>5 DEF leaders

\* The pages of the dashboard.
LEMMA DashboardPagesSame ==
  ASSUME NEW a, NEW b, NEW V, NEW r, NEW s, NEW t, NEW ord,
         Agree(a, b, V), Inside(r.F, V), IsFilter(r.F), r.page \in OfDashboard \ {"snapshot", "summary"},
         Saw(s, Selects(r.page), a), Saw(t, Selects(r.page), b)
  PROVE  DashboardPages(r, s, ord) = DashboardPages(r, t, ord)
<1>0. Months \in Nat \ {0}
  BY ViewsAssumption
<1>1. Selects(r.page) \in Nat /\ Selects(r.page) >= 3
  BY <1>0, SelectsAre DEF OfDashboard
<1>2. Call(s, 1) = Once(a) /\ Call(t, 1) = Once(b)
  BY <1>1, CallSaw
<1>3. /\ foreman_scores(Once(a), r.F) = foreman_scores(Once(b), r.F)
      /\ plant_scores(Once(a), r.F) = plant_scores(Once(b), r.F)
      /\ shift_scores(Once(a), r.F) = shift_scores(Once(b), r.F)
      /\ kpi_summary(Once(a), r.F) = kpi_summary(Once(b), r.F)
  BY GroupsSame
<1>4. ASSUME r.page \in {"ranking", "distribution"}
      PROVE  compute_general_foreman_scores(s, 1, r.F) = compute_general_foreman_scores(t, 1, r.F)
  <2>1. Selects(r.page) = 4
    BY <1>4 DEF Selects
  <2>2. Saw(s, 4, a) /\ Saw(t, 4, b)
    BY <2>1
  <2>3. QED
    BY <2>2, GeneralSame
<1>5. CASE r.page = "ranking"
  <2>1. \A desc, limit : foreman_ranking(s, 1, r.F, ord, desc, limit) = foreman_ranking(t, 1, r.F, ord, desc, limit)
    BY <1>4, <1>5 DEF foreman_ranking
  <2>2. QED
    BY <1>5, <2>1 DEF DashboardPages
<1>6. CASE r.page = "distribution"
  <2>1. performance_distribution(s, r.F) = performance_distribution(t, r.F)
    BY <1>4, <1>6 DEF performance_distribution
  <2>2. QED
    BY <1>6, <2>1 DEF DashboardPages
<1>7. CASE r.page = "trend_ranking"
  <2>1. Selects(r.page) = 6
    BY <1>7 DEF Selects
  <2>2. Call(s, 4) = Once(a) /\ Call(t, 4) = Once(b)
    BY <2>1, CallSaw
  <2>3. Inside(_previous_period_filters(r.F), V) /\ IsFilter(_previous_period_filters(r.F))
    BY FiltersInside DEF _previous_period_filters, IsFilter
  <2>4. foreman_scores(Once(a), _previous_period_filters(r.F)) = foreman_scores(Once(b), _previous_period_filters(r.F))
    BY <2>3, GroupsSame
  <2>5. \A improving, limit : foreman_trend_ranking(s, r.F, ord, improving, limit)
                                = foreman_trend_ranking(t, r.F, ord, improving, limit)
    BY <1>2, <1>3, <2>2, <2>4 DEF foreman_trend_ranking
  <2>6. QED
    BY <1>7, <2>5 DEF DashboardPages
<1>8. CASE r.page = "plant_ranking"
  <2>1. \A desc, limit : plant_ranking(s, r.F, ord, desc, limit) = plant_ranking(t, r.F, ord, desc, limit)
    BY <1>2, <1>3 DEF plant_ranking
  <2>2. QED
    BY <1>8, <2>1 DEF DashboardPages
<1>9. CASE r.page = "trend"
  <2>1. \A bucket : trend(Once(a), r.F, bucket, None) = trend(Once(b), r.F, bucket, None)
    BY TrendSame
  <2>2. QED
    BY <1>2, <1>9, <2>1 DEF DashboardPages
<1>10. CASE r.page = "kpi_summary"
  BY <1>2, <1>3, <1>10 DEF DashboardPages
<1>11. CASE r.page = "shift_comparison"
  BY <1>2, <1>3, <1>11 DEF DashboardPages
<1>12. CASE r.page = "leaders"
  <2>1. Selects(r.page) = 4 * Months + 4
    BY <1>12 DEF Selects
  <2>2. leaders(s, r.F, ord) = leaders(t, r.F, ord)
    BY <2>1, LeadersSame
  <2>3. QED
    BY <1>12, <2>2 DEF DashboardPages
<1>13. QED
  BY <1>5, <1>6, <1>7, <1>8, <1>9, <1>10, <1>11, <1>12 DEF OfDashboard

\* The reports.
LEMMA ReportSame ==
  ASSUME NEW a, NEW b, NEW V, NEW r, NEW s, NEW t, NEW ord,
         Agree(a, b, V), Inside(r.F, V), IsFilter(r.F), r.page = "report",
         r.arg \in ReportTypes \ {"MISSING_DATA"},
         Saw(s, Selects(r.page), a), Saw(t, Selects(r.page), b)
  PROVE  build_report_rows(s, r.arg, r.F, ord) = build_report_rows(t, r.arg, r.F, ord)
<1>1. Selects(r.page) = 4
  BY DEF Selects
<1>2. Saw(s, 4, a) /\ Saw(t, 4, b)
  BY <1>1
<1>3. Call(s, 1) = Once(a) /\ Call(t, 1) = Once(b)
  BY <1>2, CallSaw
<1>4. compute_general_foreman_scores(s, 1, r.F) = compute_general_foreman_scores(t, 1, r.F)
  BY <1>2, GeneralSame
<1>5. /\ plant_scores(Once(a), r.F) = plant_scores(Once(b), r.F)
      /\ shift_scores(Once(a), r.F) = shift_scores(Once(b), r.F)
      /\ kpi_breakdown(Once(a), r.F) = kpi_breakdown(Once(b), r.F)
  BY GroupsSame
<1>6. CASE r.arg \in {"COMPANY_SUMMARY", "CRITICAL_PERFORMANCE", "FOREMAN_PERFORMANCE"}
  BY <1>4, <1>6 DEF build_report_rows
<1>7. CASE r.arg \in {"PLANT_COMPARISON", "SHIFT_COMPARISON", "KPI_ANALYSIS"}
  BY <1>3, <1>5, <1>7 DEF build_report_rows
<1>8. QED
  BY <1>6, <1>7 DEF ReportTypes

\* The analysis of one KPI.
LEMMA AnalysisSame ==
  ASSUME NEW a, NEW b, NEW V, NEW r, NEW s, NEW t, NEW ord,
         Agree(a, b, V), Inside(r.F, V), IsFilter(r.F), r.page = "kpi",
         Saw(s, Selects(r.page), a), Saw(t, Selects(r.page), b)
  PROVE  get_analysis(s, r.id, r.F, ord) = get_analysis(t, r.id, r.F, ord)
<1> DEFINE H == OfKpi(r.F, r.id)
<1>1. Selects(r.page) = 19
  BY DEF Selects
<1>2. /\ Call(s, 1) = Once(a) /\ Call(s, 4) = Once(a) /\ Call(s, 7) = Once(a)
      /\ Call(s, 10) = Once(a) /\ Call(s, 13) = Once(a) /\ Call(s, 17) = Once(a)
  BY <1>1, CallSaw
<1>3. /\ Call(t, 1) = Once(b) /\ Call(t, 4) = Once(b) /\ Call(t, 7) = Once(b)
      /\ Call(t, 10) = Once(b) /\ Call(t, 13) = Once(b) /\ Call(t, 17) = Once(b)
  BY <1>1, CallSaw
<1>4. s[16] = a /\ t[16] = b
  BY <1>1 DEF Saw
<1>5. Inside(H, V) /\ IsFilter(H)
  BY FiltersInside
<1>6. /\ foreman_scores(Once(a), H) = foreman_scores(Once(b), H)
      /\ plant_scores(Once(a), H) = plant_scores(Once(b), H)
      /\ shift_scores(Once(a), H) = shift_scores(Once(b), H)
      /\ kpi_breakdown(Once(a), H) = kpi_breakdown(Once(b), H)
  BY <1>5, GroupsSame
<1>7. trend(Once(a), H, "month", None) = trend(Once(b), H, "month", None)
  BY <1>5, TrendSame
<1>8. foreman_kpi_values(a, Once(a), H, r.id) = foreman_kpi_values(b, Once(b), H, r.id)
  BY <1>5, BreakdownSame
<1>9. QED
  BY <1>2, <1>3, <1>4, <1>6, <1>7, <1>8 DEF get_analysis

\* A page of a request whose filter lets through rows of V only.
LEMMA PageSame ==
  ASSUME NEW a, NEW b, NEW V, NEW r, NEW s, NEW t, NEW ord,
         Agree(a, b, V), IsFilter(r.F),
         r.page \in OfForeman \cup OfAChief \cup OfAPlant \cup OfDashboard \cup {"report", "kpi"},
         r.page \notin {"snapshot", "summary", "foreman_detail", "monthly_report"},
         r.page = "report" => r.arg \in ReportTypes \ {"MISSING_DATA"},
         r.page \in OfAPlant => V = {r.id} /\ V # NoFilter,
         r.page \notin OfAPlant => Inside(r.F, V),
         r.page \in OfForeman => r.F.plants # NoFilter,
         Saw(s, Selects(r.page), a), Saw(t, Selects(r.page), b)
  PROVE  Page(r, s, ord) = Page(r, t, ord)
<1>1. CASE r.page \in OfForeman
  <2>1. ForemanPages(r, s, ord) = ForemanPages(r, t, ord)
    BY <1>1, ForemanPagesSame DEF OfForeman, OfAPlant
  <2>2. QED
    BY <1>1, <2>1 DEF Page, OfForeman, OfAChief, OfAPlant, OfDashboard
<1>2. CASE r.page \in OfAChief
  <2>1. ChiefPages(r, s, ord) = ChiefPages(r, t, ord)
    BY <1>2, ChiefPagesSame DEF OfAChief, OfAPlant
  <2>2. QED
    BY <1>2, <2>1 DEF Page, OfForeman, OfAChief, OfAPlant, OfDashboard
<1>3. CASE r.page \in OfAPlant
  <2>1. PlantPages(r, s, ord) = PlantPages(r, t, ord)
    BY <1>3, PlantPagesSame
  <2>2. QED
    BY <1>3, <2>1 DEF Page, OfForeman, OfAChief, OfAPlant, OfDashboard
<1>4. CASE r.page \in OfDashboard
  <2>1. DashboardPages(r, s, ord) = DashboardPages(r, t, ord)
    BY <1>4, DashboardPagesSame DEF OfDashboard, OfAPlant
  <2>2. QED
    BY <1>4, <2>1 DEF Page, OfForeman, OfAChief, OfAPlant, OfDashboard
<1>5. CASE r.page = "report"
  <2>1. build_report_rows(s, r.arg, r.F, ord) = build_report_rows(t, r.arg, r.F, ord)
    BY <1>5, ReportSame DEF OfAPlant
  <2>2. QED
    BY <1>5, <2>1 DEF Page, OfForeman, OfAChief, OfAPlant, OfDashboard
<1>6. CASE r.page = "kpi"
  <2>1. get_analysis(s, r.id, r.F, ord) = get_analysis(t, r.id, r.F, ord)
    BY <1>6, AnalysisSame DEF OfAPlant
  <2>2. QED
    BY <1>6, <2>1 DEF Page, OfForeman, OfAChief, OfAPlant, OfDashboard
<1>7. QED
  BY <1>1, <1>2, <1>3, <1>4, <1>5, <1>6

Pages == OfForeman \cup OfAChief \cup OfAPlant \cup OfDashboard \cup {"report", "kpi"}

\* Every page makes a SELECT.
LEMMA SelectsPositive == \A p \in Pages : Selects(p) \in Nat \ {0}
<1>1. Months \in Nat \ {0}
  BY ViewsAssumption
<1>2. QED
  BY <1>1, SelectsAre DEF Pages, OfForeman, OfAChief, OfAPlant, OfDashboard

\* What the services get of a request.
LEMMA ReceivedIs ==
  ASSUME NEW r \in Requests
  PROVE  /\ Received(r).page = r.page /\ Received(r).scope = r.scope
         /\ Received(r).id = r.id /\ Received(r).arg = r.arg
         /\ r.page \in Pages
         /\ r.page = "report" => r.arg \in ReportTypes
         /\ r.page = "snapshot" => r.arg \in Nat \ {0}
         /\ IsFilter(Received(r).F)
         /\ r.scope = NoFilter \/ r.scope \subseteq Plants
         /\ r.page # "report" /\ r.scope # NoFilter => Received(r).F.plants # NoFilter
<1>1. /\ {"page", "id", "F", "arg", "scope"} \subseteq DOMAIN r
      /\ r.page \in Pages
      /\ r.page = "report" => r.arg \in ReportTypes
      /\ r.page = "snapshot" => r.arg \in Nat \ {0}
      /\ IsFilter(r.F)
      /\ r.scope = NoFilter \/ r.scope \subseteq Plants
  BY ViewsAssumption DEF Pages, IsFilter
<1>2. "*" \notin Plants
  BY ViewsAssumption
<1>3. IsFilter(common_filters(r.F)) /\ common_filters(r.F).plants = r.F.plants
  BY <1>1 DEF common_filters, IsFilter
<1>4. /\ IsFilter(narrow_filters(common_filters(r.F), r.scope))
      /\ r.scope # NoFilter => narrow_filters(common_filters(r.F), r.scope).plants = narrow_ids(r.F.plants, r.scope)
  BY <1>3 DEF narrow_filters, IsFilter
<1>5. r.scope # NoFilter => narrow_ids(r.F.plants, r.scope) # NoFilter
  BY <1>1, <1>2 DEF narrow_ids, NoFilter
<1>6. /\ Received(r).page = r.page /\ Received(r).scope = r.scope
      /\ Received(r).id = r.id /\ Received(r).arg = r.arg
      /\ Received(r).F = IF r.page = "report" THEN common_filters(r.F)
                         ELSE narrow_filters(common_filters(r.F), r.scope)
  BY <1>1 DEF Received
<1>7. QED
  BY <1>1, <1>3, <1>4, <1>5, <1>6

-----------------------------------------------------------------------------
(* What is shown is made of what was read, by one reader who may.          *)

\* The invariant holds at the start.
LEMMA ViewsInvInit ==
  ASSUME ViewsInit PROVE ViewsInv
<1>1. PICK db \in Starts : hist = <<db>>
  BY DEF ViewsInit
<1>2. PICK r \in Requests : req = Received(r)
  BY DEF ViewsInit
<1>3. db \in Databases /\ MaxCommits \in Nat
  BY ViewsAssumption
<1>4. req.page = r.page /\ r.page \in Pages
  BY <1>2, ReceivedIs
<1>5. Selects(req.page) \in Nat
  BY <1>4, SelectsPositive
<1>6. at = <<>> /\ (shown = NotYet \/ shown = Refused) /\ (shown = NotYet => Allowed(req))
  <2>1. NotYet # Refused
    BY DEF NotYet, Refused, None
  <2>2. QED
    BY <2>1 DEF ViewsInit
<1>7. ViewsTypeOK
  BY <1>1, <1>2, <1>3, <1>5, <1>6 DEF ViewsTypeOK
<1>8. ReadInOrder
  BY <1>6 DEF ReadInOrder
<1>9. shown.page # req.page
  BY <1>4, <1>6 DEF NotYet, Refused, None, Pages, OfForeman, OfAChief, OfAPlant, OfDashboard
<1>10. AnswerStands
  BY <1>6, <1>9 DEF AnswerStands, Answered
<1>11. QED
  BY <1>7, <1>8, <1>10 DEF ViewsInv

\* Every step keeps it.
LEMMA ViewsInvStep ==
  ASSUME ViewsInv, [ViewsNext]_viewsVars PROVE ViewsInv'
<1> USE DEF ViewsInv
<1>1. PICK r \in Requests : req = Received(r)
  BY DEF ViewsTypeOK
<1>2. /\ req.page \in Pages /\ req.page = r.page /\ req.scope = r.scope
      /\ r.scope = NoFilter \/ r.scope \subseteq Plants
  BY <1>1, ReceivedIs
<1>3. Selects(req.page) \in Nat \ {0} /\ MaxCommits \in Nat
  BY <1>2, SelectsPositive, ViewsAssumption
<1>4. NotYet.page # req.page /\ Refused.page # req.page /\ NotYet # Refused
  BY <1>2 DEF NotYet, Refused, None, Pages, OfForeman, OfAChief, OfAPlant, OfDashboard
<1>5. CASE Read
  <2> DEFINE n == IF Len(hist) > MaxCommits THEN Remaining ELSE 1
  <2>1. n \in Nat /\ n >= 1 /\ n <= Remaining /\ Len(at) + n <= Selects(req.page)
    BY <1>3, <1>5 DEF Read, Remaining, ViewsTypeOK
  <2>2. Len(hist) \in DOMAIN hist /\ Len(hist) \in Nat /\ DOMAIN hist = 1 .. Len(hist)
    BY DEF ViewsTypeOK
  <2> DEFINE new == [i \in 1 .. n |-> Len(hist)]
  <2>3. new \in Seq(DOMAIN hist) /\ Len(new) = n
    BY <2>1, <2>2
  <2>4. at' = at \o new /\ UNCHANGED <<hist, req, shown>>
    BY <1>5 DEF Read
  <2>5. at' \in Seq(DOMAIN hist) /\ Len(at') = Len(at) + n
    BY <2>1, <2>3, <2>4 DEF ViewsTypeOK
  <2>6. ViewsTypeOK'
    BY <2>1, <2>4, <2>5 DEF ViewsTypeOK, Selects
  <2>7. \A i \in 1 .. Len(at) : at'[i] = at[i] /\ at[i] <= Len(hist) /\ at[i] \in Nat
    BY <2>2, <2>3, <2>4 DEF ViewsTypeOK
  <2>8. \A i \in 1 .. Len(at) + n : i > Len(at) => at'[i] = Len(hist)
    BY <2>1, <2>3, <2>4 DEF ViewsTypeOK
  <2>9. DOMAIN at' = 1 .. Len(at) + n /\ DOMAIN at = 1 .. Len(at) /\ Len(at) \in Nat
    BY <2>5 DEF ViewsTypeOK
  <2>10. ReadInOrder'
    BY <2>1, <2>2, <2>7, <2>8, <2>9 DEF ReadInOrder
  <2>11. shown' = NotYet /\ Allowed(req)
    BY <1>5, <2>4 DEF Read, AnswerStands
  <2>12. AnswerStands'
    BY <1>4, <2>4, <2>11 DEF AnswerStands, Answered
  <2>13. QED
    BY <2>6, <2>10, <2>12
<1>6. CASE Commit
  <2>1. PICK ch \in Changes : LET db == hist[Len(hist)]
                              IN  hist' = Append(hist, [rows  |-> Written(ch.rows, db.rows),
                                                        bonus |-> Written(ch.bonus, db.bonus)])
    BY <1>6 DEF Commit
  <2> DEFINE db == hist[Len(hist)]
             new == [rows |-> Written(ch.rows, db.rows), bonus |-> Written(ch.bonus, db.bonus)]
  <2>2. db \in Databases
    BY DEF ViewsTypeOK
  <2>3. /\ DOMAIN ch.rows \subseteq Cells /\ ch.rows \in [DOMAIN ch.rows -> Readings]
        /\ DOMAIN ch.bonus \subseteq Foremen /\ ch.bonus \in [DOMAIN ch.bonus -> Nat]
    BY ViewsAssumption
  <2>4. Written(ch.rows, db.rows) \in [Cells -> Readings]
    BY <2>2, <2>3 DEF Written, Databases
  <2>5. Written(ch.bonus, db.bonus) \in [Foremen -> Nat]
    BY <2>2, <2>3 DEF Written, Databases
  <2>6. new \in Databases
    BY <2>4, <2>5 DEF Databases
  <2>7. hist' = Append(hist, new) /\ UNCHANGED <<at, req, shown>> /\ Len(hist) <= MaxCommits /\ Remaining > 0
    BY <1>6, <2>1 DEF Commit
  <2>8. /\ hist' \in Seq(Databases) /\ Len(hist') = Len(hist) + 1 /\ DOMAIN hist \subseteq DOMAIN hist'
    BY <2>6, <2>7 DEF ViewsTypeOK
  <2>9. at \in Seq(DOMAIN hist')
    BY <2>8 DEF ViewsTypeOK
  <2>a. Len(hist') \in 1 .. MaxCommits + 1
    BY <1>3, <2>7, <2>8 DEF ViewsTypeOK
  <2>b. Selects(req.page)' = Selects(req.page)
    BY <2>7 DEF Selects
  <2>10. ViewsTypeOK'
    BY <2>7, <2>8, <2>9, <2>a, <2>b DEF ViewsTypeOK
  <2>11. ReadInOrder'
    BY <2>7 DEF ReadInOrder
  <2>12. ~Answered({req.page})
    BY <2>7 DEF AnswerStands
  <2>13. AnswerStands'
    BY <2>7, <2>12 DEF AnswerStands, Answered
  <2>14. QED
    BY <2>10, <2>11, <2>13
<1>7. CASE Answer
  <2>1. PICK ord \in Orders : shown' = [page |-> req.page, ord |-> ord, answer |-> Page(req, Seen, ord),
                                        reader |-> req.scope]
    BY <1>7 DEF Answer
  <2>2. UNCHANGED <<hist, req, at>> /\ Remaining = 0 /\ Allowed(req)
    BY <1>7 DEF Answer, AnswerStands
  <2>3. shown'.page = req.page /\ shown'.reader = req.scope /\ shown'.ord = ord /\ shown' # NotYet
    BY <1>4, <2>1
  <2>4. ViewsTypeOK'
    BY <2>2, <2>3 DEF ViewsTypeOK, Selects
  <2>5. ReadInOrder'
    BY <2>2 DEF ReadInOrder
  <2>6. ReaderMay(shown'.reader)
    BY <1>2, <2>2, <2>3 DEF ReaderMay, Allowed, F, _assert_export_within_scope
  <2>7. ReaderMay(shown.reader)'
    BY <2>2, <2>6 DEF ReaderMay, F
  <2>8. Seen' = Seen /\ Remaining' = Remaining
    BY <2>2 DEF Seen, Remaining
  <2>9. AnswerStands'
    BY <2>1, <2>2, <2>3, <2>7, <2>8 DEF AnswerStands, Answered
  <2>10. QED
    BY <2>4, <2>5, <2>9
<1>8. CASE Download
  <2>1. PICK q \in Requests : /\ _assert_export_within_scope(req.F, q.scope)
                              /\ shown' = [shown EXCEPT !.reader = q.scope]
    BY <1>8 DEF Download
  <2>2. UNCHANGED <<hist, req, at>> /\ shown.page = "report"
    BY <1>8 DEF Download
  <2>3. shown \notin {NotYet, Refused}
    BY <2>2 DEF NotYet, Refused, None
  <2>4. req.page = "report"
    BY <2>2, <2>3 DEF ViewsTypeOK
  <2>5. /\ Remaining = 0 /\ shown.ord \in Orders
        /\ shown = [page |-> req.page, ord |-> shown.ord, answer |-> Page(req, Seen, shown.ord),
                    reader |-> shown.reader]
    BY <2>2, <2>4 DEF AnswerStands, Answered
  <2>6. shown' = [page |-> req.page, ord |-> shown.ord, answer |-> Page(req, Seen, shown.ord),
                  reader |-> q.scope]
    BY <2>1, <2>5
  <2>7. q.scope = NoFilter \/ q.scope \subseteq Plants
    BY ReceivedIs
  <2>8. ReaderMay(q.scope)
    BY <2>1, <2>4, <2>7 DEF ReaderMay, F
  <2>9. shown'.reader = q.scope /\ shown'.ord = shown.ord /\ shown'.page = req.page /\ shown' # NotYet
    BY <1>4, <2>6
  <2>10. ReaderMay(shown.reader)'
    BY <2>2, <2>8, <2>9 DEF ReaderMay, F
  <2>11. Seen' = Seen /\ Remaining' = Remaining
    BY <2>2 DEF Seen, Remaining
  <2>12. AnswerStands'
    BY <2>2, <2>5, <2>6, <2>9, <2>10, <2>11 DEF AnswerStands, Answered
  <2>13. ViewsTypeOK'
    BY <2>2, <2>9 DEF ViewsTypeOK, Selects
  <2>14. ReadInOrder'
    BY <2>2 DEF ReadInOrder
  <2>15. QED
    BY <2>12, <2>13, <2>14
<1>9. CASE UNCHANGED viewsVars
  <2>1. Seen' = Seen /\ Remaining' = Remaining /\ UNCHANGED <<hist, req, at, shown>>
    BY <1>9 DEF viewsVars, Seen, Remaining
  <2>2. QED
    BY <2>1 DEF ViewsTypeOK, Selects, ReadInOrder, AnswerStands, Answered, ReaderMay, F
<1>10. QED
  BY <1>5, <1>6, <1>7, <1>8, <1>9 DEF ViewsNext

\* An answer is made of what its SELECTs read, in the order of the commits, and
\* only a reader who may have it holds it.
THEOREM ViewsInvariantCorrect == ViewsSpec => []ViewsInv
BY ViewsInvInit, ViewsInvStep, PTL DEF ViewsSpec

\* Steady: every SELECT of the page saw the first one's database.
LEMMA SteadySaw ==
  ASSUME ViewsInv, shown \notin {NotYet, Refused}, Steady
  PROVE  /\ Saw(Seen, Selects(req.page), hist[at[1]])
         /\ hist[at[1]] \in Databases
         /\ shown.answer = Page(req, Seen, shown.ord)
         /\ ReaderMay(shown.reader)
<1>1. PICK r \in Requests : req = Received(r)
  BY DEF ViewsInv, ViewsTypeOK
<1>2. Selects(req.page) \in Nat \ {0}
  BY <1>1, ReceivedIs, SelectsPositive
<1>3. Answered({req.page})
  BY DEF ViewsInv, ViewsTypeOK, Answered
<1>4. /\ Remaining = 0 /\ ReaderMay(shown.reader)
      /\ shown = [page |-> req.page, ord |-> shown.ord, answer |-> Page(req, Seen, shown.ord),
                  reader |-> shown.reader]
  BY <1>3 DEF ViewsInv, AnswerStands
<1>5. Len(at) = Selects(req.page) /\ at \in Seq(DOMAIN hist) /\ hist \in Seq(Databases)
  BY <1>2, <1>4 DEF ViewsInv, ViewsTypeOK, Remaining
<1>6. \A i \in 1 .. Len(at) : at[i] \in 1 .. Len(hist)
  BY <1>5
<1>7. ASSUME NEW i \in 1 .. Len(at) PROVE at[i] = at[1]
  <2>1. at[1] <= at[i] /\ at[i] <= at[Len(at)]
    BY <1>2, <1>5 DEF ViewsInv, ReadInOrder
  <2>2. at[1] = at[Len(at)]
    BY DEF Steady
  <2>3. QED
    BY <1>2, <1>5, <1>6, <2>1, <2>2
<1>8. Saw(Seen, Selects(req.page), hist[at[1]])
  BY <1>5, <1>7 DEF Saw, Seen
<1>9. hist[at[1]] \in Databases
  BY <1>2, <1>5, <1>6
<1>10. QED
  BY <1>4, <1>8, <1>9

\* The rows of its filter are rows of the plants a request may name.
LEMMA VisibleInside ==
  ASSUME ViewsInv, shown \notin {NotYet, Refused}, req.page \notin OfAPlant,
         (IF req.F.plants = NoFilter THEN shown.reader ELSE req.F.plants) # NoFilter,
         ReaderMay(shown.reader)
  PROVE  /\ Inside(req.F, IF req.F.plants = NoFilter THEN shown.reader ELSE req.F.plants)
         /\ req.page # "report" => req.F.plants # NoFilter
<1>1. PICK r \in Requests : req = Received(r)
  BY DEF ViewsInv, ViewsTypeOK
<1>2. /\ req.page # "report" /\ req.scope # NoFilter => req.F.plants # NoFilter
      /\ req.page = r.page
  BY <1>1, ReceivedIs
<1>3. CASE req.F.plants # NoFilter
  BY <1>3 DEF Inside, Passes
<1>4. CASE req.F.plants = NoFilter
  <2>1. shown.reader # NoFilter
    BY <1>4
  <2>2. req.page = "report"
    BY <1>2, <1>4, <2>1 DEF ReaderMay
  <2>3. _assert_export_within_scope(req.F, shown.reader)
    BY <2>2 DEF ReaderMay, F
  <2>4. req.F.factories # NoFilter /\ {p \in Plants : Factory[p] \in req.F.factories} \subseteq shown.reader
    BY <1>4, <2>1, <2>3 DEF _assert_export_within_scope, _assert_request_within_scope, _expand_factory_ids
  <2>5. \A c \in Cells : Workers[c[1]].plant \in Plants
    BY ViewsAssumption DEF Cells
  <2>6. Inside(req.F, shown.reader)
    BY <2>4, <2>5 DEF Inside, Passes
  <2>7. QED
    BY <1>4, <2>2, <2>6
<1>5. QED
  BY <1>3, <1>4

\* What a page shows is what it would show if the rows outside its filter, and
\* outside what its reader may see, did not exist.
THEOREM NothingOutsideFilterCorrect == ViewsSpec => []NothingOutsideFilter
<1> DEFINE V == IF req.page \in OfAPlant THEN {req.id}
                ELSE IF req.F.plants = NoFilter THEN shown.reader ELSE req.F.plants
           a == hist[at[1]]
           absent == [status |-> "ABSENT", num |-> 0, den |-> 0, stored |-> NotScored, issues |-> {}]
           b == [a EXCEPT !.rows = [c \in Cells |-> IF Workers[c[1]].plant \in V THEN @[c] ELSE absent]]
<1>1. ASSUME ViewsInv, shown \notin {NotYet, Refused}, Steady, V # NoFilter,
             req.page \notin {"snapshot", "summary", "foreman_detail", "monthly_report"},
             ~(req.page = "report" /\ req.arg = "MISSING_DATA")
      PROVE  shown.answer = Page(req, Still(b), shown.ord)
  <2>1. /\ Saw(Seen, Selects(req.page), a) /\ a \in Databases
        /\ shown.answer = Page(req, Seen, shown.ord) /\ ReaderMay(shown.reader)
    BY <1>1, SteadySaw
  <2>2. PICK r \in Requests : req = Received(r)
    BY <1>1 DEF ViewsInv, ViewsTypeOK
  <2>3. /\ IsFilter(req.F) /\ req.page \in Pages
        /\ req.page = "report" => req.arg \in ReportTypes
    BY <2>2, ReceivedIs
  <2>4. Agree(a, b, V)
    <3>1. b.bonus = a.bonus
      BY <2>1 DEF Databases
    <3>2. b.rows = [c \in Cells |-> IF Workers[c[1]].plant \in V THEN a.rows[c] ELSE absent]
      BY <2>1 DEF Databases
    <3>3. QED
      BY <3>1, <3>2 DEF Agree
  <2>5. Saw(Still(b), Selects(req.page), b)
    <3>1. Selects(req.page) \in Nat
      BY <2>3, SelectsPositive
    <3>2. QED
      BY <3>1 DEF Saw, Still
  <2>6. req.page \notin OfAPlant => /\ Inside(req.F, V)
                                    /\ req.page # "report" => req.F.plants # NoFilter
    BY <1>1, <2>1, VisibleInside
  <2>7. /\ req.page \in OfAPlant => V = {req.id} /\ V # NoFilter
        /\ req.page \in OfForeman => req.F.plants # NoFilter
        /\ req.page = "report" => req.arg \in ReportTypes \ {"MISSING_DATA"}
    BY <1>1, <2>3, <2>6 DEF OfForeman, OfAPlant
  <2> HIDE DEF V, a, b
  <2>8. Page(req, Seen, shown.ord) = Page(req, Still(b), shown.ord)
    BY <1>1, <2>1, <2>3, <2>4, <2>5, <2>6, <2>7, PageSame DEF Pages
  <2>9. QED
    BY <2>1, <2>8
<1>2. ViewsInv => NothingOutsideFilter
  BY <1>1 DEF NothingOutsideFilter, F
<1>3. QED
  BY <1>2, ViewsInvariantCorrect, PTL

-----------------------------------------------------------------------------
(* Levels, changes and the lists of the dashboard.                         *)

\* Every foreman is at one level, below or above target.
LEMMA LevelsPartition ==
  ASSUME NEW general, IsFiniteSet(DOMAIN general), \A f \in DOMAIN general : general[f] \in Nat
  PROVE  LET n == Cardinality(DOMAIN general)
             above == {f \in DOMAIN general : general[f] >= 100}
             below == {f \in DOMAIN general : general[f] < 100}
         IN  /\ Cardinality(above) + Cardinality(below) = n
             /\ SumOver(Levels, _distribution_payload(general).items) = n
<1> DEFINE D == DOMAIN general
           here(l) == {f \in D : resolve_performance_level(general[f]) = l}
           items == [l \in Levels |-> CountAt(general, l)]
<1>1. Cardinality({f \in D : general[f] >= 100}) + Cardinality({f \in D : general[f] < 100}) = Cardinality(D)
  <2> DEFINE A == {f \in D : general[f] >= 100}
             B == {f \in D : general[f] < 100}
  <2>1. A \cup B = D /\ A \cap B = {} /\ A \subseteq D /\ B \subseteq D
    OBVIOUS
  <2> HIDE DEF A, B, D
  <2>2. IsFiniteSet(A) /\ IsFiniteSet(B)
    BY <2>1, FS_Subset DEF D
  <2>3. Cardinality(D) = Cardinality(A) + Cardinality(B) - Cardinality({})
    BY <2>1, <2>2, FS_Union
  <2>4. Cardinality({}) = 0 /\ Cardinality(A) \in Nat /\ Cardinality(B) \in Nat
    BY <2>2, FS_CardinalityType, FS_EmptySet
  <2>5. QED
    BY <2>3, <2>4 DEF A, B, D
<1>2. /\ here("Kritik") \cup here("Gelistirilmeli") \cup here("Basarili") = D
      /\ here("Kritik") \cap here("Gelistirilmeli") = {}
      /\ (here("Kritik") \cup here("Gelistirilmeli")) \cap here("Basarili") = {}
      /\ \A l : here(l) \subseteq D
  BY DEF resolve_performance_level
<1>3. \A l : items = [m \in Levels |-> CountAt(general, m)] /\ CountAt(general, l) = Cardinality(here(l))
  BY DEF CountAt
<1> HIDE DEF here, D
<1>4. \A l : IsFiniteSet(here(l)) /\ Cardinality(here(l)) \in Nat
  BY <1>2, FS_Subset, FS_CardinalityType DEF D
<1>5. Cardinality(D) = Cardinality(here("Kritik")) + Cardinality(here("Gelistirilmeli")) + Cardinality(here("Basarili"))
  <2> DEFINE A == here("Kritik")
             B == here("Gelistirilmeli")
             C == here("Basarili")
  <2>1. /\ IsFiniteSet(A) /\ IsFiniteSet(B) /\ IsFiniteSet(C)
        /\ Cardinality(A) \in Nat /\ Cardinality(B) \in Nat /\ Cardinality(C) \in Nat
    BY <1>4
  <2>2. A \cap B = {} /\ (A \cup B) \cap C = {} /\ D = (A \cup B) \cup C
    BY <1>2
  <2> HIDE DEF A, B, C
  <2>3. Cardinality(A \cap B) = 0 /\ Cardinality((A \cup B) \cap C) = 0
    <3>1. \A X : X = {} => Cardinality(X) = 0
      BY FS_EmptySet
    <3>2. QED
      BY <2>2, <3>1
  <2>4. IsFiniteSet(A \cup B) /\ Cardinality(A \cup B) = Cardinality(A) + Cardinality(B)
    <3>1. IsFiniteSet(A \cup B) /\ Cardinality(A \cup B) = Cardinality(A) + Cardinality(B) - Cardinality(A \cap B)
      BY <2>1, FS_Union
    <3>2. QED
      BY <3>1, <2>1, <2>3
  <2>5. Cardinality((A \cup B) \cup C) = Cardinality(A \cup B) + Cardinality(C) - Cardinality((A \cup B) \cap C)
    BY <2>1, <2>4, FS_Union
  <2>6. Cardinality(D) = Cardinality(A) + Cardinality(B) + Cardinality(C)
    <3>1. Cardinality((A \cup B) \cup C) = Cardinality(A) + Cardinality(B) + Cardinality(C)
      BY <2>1, <2>3, <2>4, <2>5
    <3>2. QED
      BY <3>1, <2>2
  <2>7. QED
    BY <2>6 DEF A, B, C
<1>6. SumOver(Levels, items) = items["Kritik"] + items["Gelistirilmeli"] + items["Basarili"]
  <2>1. \A l \in Levels : items[l] \in Nat
    BY <1>3, <1>4
  <2> HIDE DEF items
  <2>2. items["Kritik"] \in Nat /\ items["Gelistirilmeli"] \in Nat /\ items["Basarili"] \in Nat
    BY <2>1 DEF Levels
  <2>3. IsFiniteSet(Levels)
    <3>1. \A a, b, c : IsFiniteSet({a} \cup {b} \cup {c})
      BY FS_Singleton, FS_Union
    <3>2. Levels = {"Kritik"} \cup {"Gelistirilmeli"} \cup {"Basarili"}
      BY DEF Levels
    <3>3. QED
      BY <3>1, <3>2
  <2> DEFINE K == "Kritik"
             G == "Gelistirilmeli"
             B == "Basarili"
  <2>4. K # G /\ K # B /\ G # B /\ Levels = {K, G, B}
    BY DEF Levels
  <2>5. items[K] \in Nat /\ items[G] \in Nat /\ items[B] \in Nat
    BY <2>2
  <2> HIDE DEF K, G, B
  <2>6. Total(items, {K, G, B}) = items[K] + Total(items, {G, B})
    <3>1. Total(items, {K, G, B}) = items[K] + Total(items, {K, G, B} \ {K})
      BY <2>1, <2>3, <2>4, TotalAny
    <3>2. {K, G, B} \ {K} = {G, B}
      BY <2>4
    <3>3. QED
      BY <3>1, <3>2
  <2>7. Total(items, {G, B}) = items[G] + Total(items, {B})
    <3>1. Total(items, {G, B}) = items[G] + Total(items, {G, B} \ {G})
      BY <2>1, <2>3, <2>4, TotalAny
    <3>2. {G, B} \ {G} = {B}
      BY <2>4
    <3>3. QED
      BY <3>1, <3>2
  <2>8. Total(items, {B}) = items[B] + Total(items, {})
    <3>1. Total(items, {B}) = items[B] + Total(items, {B} \ {B})
      BY <2>1, <2>3, <2>4, TotalAny
    <3>2. {B} \ {B} = {}
      OBVIOUS
    <3>3. QED
      BY <3>1, <3>2
  <2>9. Total(items, Levels) = items[K] + items[G] + items[B]
    BY <2>4, <2>5, <2>6, <2>7, <2>8, TotalEmpty
  <2>10. QED
    BY <2>9, SumOverIs DEF K, G, B
<1>7. items["Kritik"] + items["Gelistirilmeli"] + items["Basarili"] = Cardinality(D)
  <2>1. /\ items["Kritik"] = Cardinality(here("Kritik"))
        /\ items["Gelistirilmeli"] = Cardinality(here("Gelistirilmeli"))
        /\ items["Basarili"] = Cardinality(here("Basarili"))
    BY <1>3 DEF Levels
  <2> HIDE DEF items
  <2>2. QED
    BY <2>1, <1>5
<1>8. _distribution_payload(general).items = items
  BY DEF _distribution_payload
<1>9. QED
  BY <1>1, <1>6, <1>7, <1>8 DEF D

\* The changes of the foremen measured in both periods.
Delta(current, previous) ==
  [f \in DOMAIN current \cap DOMAIN previous |-> current[f].total - previous[f].total]

\* Changes of scores can be sorted.
LEMMA DeltaSortable ==
  ASSUME NEW see, NEW again, NEW G, NEW H, NEW ord \in Orders
  PROVE  Sortable(Delta(foreman_scores(see, G), foreman_scores(again, H)), ord)
<1> DEFINE current  == foreman_scores(see, G)
           previous == foreman_scores(again, H)
           delta    == Delta(current, previous)
<1>1. /\ DOMAIN current \subseteq Foremen /\ \A f \in DOMAIN current : current[f].total \in 0 .. 120
      /\ \A f \in DOMAIN previous : previous[f].total \in 0 .. 120
  BY ForemanScoresAre
<1> HIDE DEF current, previous
<1>2. /\ DOMAIN delta = DOMAIN current \cap DOMAIN previous
      /\ \A f \in DOMAIN delta : delta[f] = current[f].total - previous[f].total
  BY DEF Delta
<1> HIDE DEF delta
<1>3. \A x, y \in 0 .. 120 : x - y \in Int
  OBVIOUS
<1>4. DOMAIN delta \subseteq Foremen /\ \A f \in DOMAIN delta : delta[f] \in Int
  BY <1>1, <1>2, <1>3
<1>5. \A f, g \in Foremen : ord[f] \in Int /\ (ord[f] = ord[g] => f = g)
  BY ViewsAssumption
<1>6. IsFiniteSet(DOMAIN delta)
  BY <1>4, FiniteWorld, FS_Subset
<1>7. Sortable(delta, ord)
  BY <1>4, <1>5, <1>6 DEF Sortable
<1>8. QED
  BY <1>7 DEF delta, current, previous

\* A trend ranking lists the first of them, sorted.
LEMMA TrendItemsAre ==
  ASSUME NEW current, NEW previous, NEW ord, Sortable(Delta(current, previous), ord),
         NEW improving \in BOOLEAN, NEW limit \in Nat
  PROVE  /\ DOMAIN _foreman_trend_items(current, previous, ord, improving, limit)
              = 1 .. Cut(Delta(current, previous), limit)
         /\ Len(_foreman_trend_items(current, previous, ord, improving, limit))
              = Cut(Delta(current, previous), limit)
         /\ \A i \in 1 .. Cut(Delta(current, previous), limit) :
              /\ Sorted(Delta(current, previous), ord, improving)[i] \in DOMAIN Delta(current, previous)
              /\ _foreman_trend_items(current, previous, ord, improving, limit)[i].id
                   = Sorted(Delta(current, previous), ord, improving)[i]
              /\ _foreman_trend_items(current, previous, ord, improving, limit)[i].operational
                   = current[Sorted(Delta(current, previous), ord, improving)[i]].total
<1> DEFINE delta    == Delta(current, previous)
           items    == _foreman_trend_items(current, previous, ord, improving, limit)
           s        == Sorted(delta, ord, improving)
           m        == Cut(delta, limit)
           l        == Limited(s, limit)
           item(f)  == [id |-> f, delta |-> delta[f], operational |-> current[f].total]
<1>1. items = [i \in DOMAIN l |-> item(l[i])]
  BY TableIs DEF _foreman_trend_items, Delta
<1> HIDE DEF delta
<1>2. Sortable(delta, ord)
  BY DEF delta
<1>3. /\ m \in Nat /\ DOMAIN l = 1 .. m
      /\ \A i \in 1 .. m : s[i] \in DOMAIN delta /\ l[i] = s[i]
  BY <1>2, CutIs
<1> HIDE DEF s, items, item, l, m
<1>4. items = [i \in 1 .. m |-> item(s[i])]
  BY <1>1, <1>3
<1>5. DOMAIN items = 1 .. m /\ Len(items) = m
  BY <1>3, <1>4
<1>6. \A i \in 1 .. m : s[i] \in DOMAIN delta /\ items[i] = item(s[i])
  BY <1>3, <1>4
<1>7. \A f : item(f).id = f /\ item(f).operational = current[f].total
  BY DEF item
<1>8. QED
  BY <1>5, <1>6, <1>7 DEF s, items, m, delta

\* The first entry of a sorted list is one that no other is before.
LEMMA FirstIsBest ==
  ASSUME NEW val, NEW ord, Sortable(val, ord), DOMAIN val # {}
  PROVE  /\ Cardinality(DOMAIN val) \in Nat \ {0}
         /\ \A desc \in BOOLEAN : /\ Sorted(val, ord, desc)[1] \in DOMAIN val
                                  /\ FirstOf(val, ord, desc) = Sorted(val, ord, desc)[1]
         /\ \A x \in DOMAIN val : val[x] <= val[Sorted(val, ord, TRUE)[1]]
<1> DEFINE N == Cardinality(DOMAIN val)
<1>1. N \in Nat \ {0}
  BY FS_EmptySet, FS_CardinalityType DEF Sortable
<1>2. \A desc \in BOOLEAN : Sorted(val, ord, desc) \in [1 .. N -> DOMAIN val]
  BY SortedIs
<1> HIDE DEF N
<1>3. \A desc \in BOOLEAN : Sorted(val, ord, desc)[1] \in DOMAIN val
  BY <1>1, <1>2
<1>4. ASSUME NEW x \in DOMAIN val PROVE val[x] <= val[Sorted(val, ord, TRUE)[1]]
  <2> DEFINE s == Sorted(val, ord, TRUE)
             p == Place(val, ord, TRUE, x)
  <2>1. p \in 1 .. N /\ s[p] = x
    <3>1. \A desc \in BOOLEAN : /\ Place(val, ord, desc, x) \in 1 .. N
                                /\ Sorted(val, ord, desc)[Place(val, ord, desc, x)] = x
      BY SortedIs DEF N
    <3>2. QED
      BY <3>1
  <2>2. \A j \in 1 .. N : 1 < j => Before(val, ord, TRUE, s[1], s[j])
    <3>1. \A desc \in BOOLEAN : \A i, j \in 1 .. N :
             i < j => Before(val, ord, desc, Sorted(val, ord, desc)[i], Sorted(val, ord, desc)[j])
      BY SortedOrder DEF N
    <3>2. \A i, j \in 1 .. N : i < j => Before(val, ord, TRUE, s[i], s[j])
      BY <3>1
    <3>3. 1 \in 1 .. N
      BY <1>1
    <3> HIDE DEF s
    <3>4. QED
      BY <3>2, <3>3
  <2>3. s[1] \in DOMAIN val
    BY <1>3
  <2> HIDE DEF s, p
  <2>4. CASE p = 1
    <3>1. val[x] \in Int /\ s[1] = x
      BY <2>1, <2>4 DEF Sortable
    <3>2. val[x] <= val[s[1]]
      BY <3>1
    <3>3. QED
      BY <3>2 DEF s
  <2>5. CASE p > 1
    <3>1. Before(val, ord, TRUE, s[1], x)
      BY <2>1, <2>2, <2>5
    <3>2. val[s[1]] \in Int /\ val[x] \in Int
      BY <2>3 DEF Sortable
    <3>3. val[x] <= val[s[1]]
      BY <3>1, <3>2 DEF Before
    <3>4. QED
      BY <3>3 DEF s
  <2>6. p = 1 \/ p > 1
    BY <2>1, <1>1
  <2>7. QED
    BY <2>4, <2>5, <2>6
<1>5. QED
  BY <1>1, <1>3, <1>4 DEF N, FirstOf

\* The sections of a snapshot agree, whatever its SELECTs saw.
SectionsAgree(a, limit) ==
  LET n == a.summary.total_active_foremen
  IN  /\ a.summary.above + a.summary.below = n
      /\ SumOver(Levels, a.distribution.items) = n
      /\ a.distribution.items["Kritik"] = a.summary.critical
      /\ a.distribution.items["Basarili"] = a.summary.successful
      /\ a.distribution.outstanding = a.summary.outstanding
      /\ IF n = 0 THEN a.top = <<>> /\ a.summary.best_foreman = None
         ELSE a.top[1].id = a.summary.best_foreman /\ a.bottom[1].general <= a.top[1].general
      /\ \A i \in DOMAIN a.improving, j \in DOMAIN a.declining :
            Len(a.improving) = limit \/ \E k \in DOMAIN a.improving : a.improving[k].id = a.declining[j].id
      /\ \A i \in DOMAIN a.improving, j \in DOMAIN a.top :
            a.improving[i].id = a.top[j].id => a.improving[i].operational = a.top[j].operational

\* The lists of a snapshot agree with each other, whatever its SELECTs saw.
LEMMA SnapshotStands ==
  ASSUME NEW s, NEW G, NEW ord \in Orders, NEW limit \in Nat \ {0}, s[4].bonus \in [Foremen -> Nat]
  PROVE  SectionsAgree(snapshot(s, G, ord, limit), limit)
<1> DEFINE scores   == foreman_scores(Call(s, 1), G)
           general  == General(scores, s[4].bonus)
           previous == foreman_scores(Call(s, 14), _previous_period_filters(G))
           base     == _compute_base(s, G)
           a        == snapshot(s, G, ord, limit)
           n        == Cardinality(DOMAIN general)
<1>1. base.scores = scores /\ base.general = general
  BY DEF _compute_base, compute_general_foreman_scores, WithBonus
<1>2. /\ a.summary = _summary_payload(base, MissingPlants(s[17], G), ord)
      /\ a.top = RankingOf(base, ord, TRUE, limit) /\ a.bottom = RankingOf(base, ord, FALSE, limit)
      /\ a.improving = _foreman_trend_items(base.scores, previous, ord, TRUE, limit)
      /\ a.declining = _foreman_trend_items(base.scores, previous, ord, FALSE, limit)
      /\ a.distribution = _distribution_payload(base.general)
  BY DEF snapshot, Sections, snapshot_distribution
<1> HIDE DEF base, a
<1>3. /\ a.top = _foreman_ranking_items(scores, general, ord, TRUE, limit)
      /\ a.bottom = _foreman_ranking_items(scores, general, ord, FALSE, limit)
      /\ a.improving = _foreman_trend_items(scores, previous, ord, TRUE, limit)
      /\ a.declining = _foreman_trend_items(scores, previous, ord, FALSE, limit)
      /\ a.distribution = _distribution_payload(general)
  BY <1>1, <1>2 DEF RankingOf
<1>4. /\ a.summary.total_active_foremen = n
      /\ a.summary.above = Cardinality({f \in DOMAIN general : general[f] >= 100})
      /\ a.summary.below = Cardinality({f \in DOMAIN general : general[f] < 100})
      /\ a.summary.critical = CountAt(general, "Kritik") /\ a.summary.successful = CountAt(general, "Basarili")
      /\ a.summary.outstanding = Outstanding(general)
      /\ a.summary.best_foreman = FirstOf(general, ord, TRUE)
  BY <1>1, <1>2 DEF _summary_payload
<1>5. Sortable(general, ord) /\ \A f \in DOMAIN general : general[f] \in Nat
  BY GeneralIs
<1>6. IsFiniteSet(DOMAIN general) /\ n \in Nat
  BY <1>5, FS_CardinalityType DEF Sortable
<1>7. /\ a.distribution.items["Kritik"] = a.summary.critical
      /\ a.distribution.items["Basarili"] = a.summary.successful
      /\ a.distribution.outstanding = a.summary.outstanding
  BY <1>3, <1>4 DEF _distribution_payload, Levels
<1> HIDE DEF general
<1>8. a.summary.above + a.summary.below = n /\ SumOver(Levels, a.distribution.items) = n
  BY <1>3, <1>4, <1>5, <1>6, LevelsPartition
<1> DEFINE best  == Sorted(general, ord, TRUE)
           worst == Sorted(general, ord, FALSE)
           m     == Cut(general, limit)
<1>9. \A desc \in BOOLEAN :
        /\ DOMAIN _foreman_ranking_items(scores, general, ord, desc, limit) = 1 .. m
        /\ Len(_foreman_ranking_items(scores, general, ord, desc, limit)) = m
        /\ m = 0 => _foreman_ranking_items(scores, general, ord, desc, limit) = <<>>
        /\ \A i \in 1 .. m : /\ Sorted(general, ord, desc)[i] \in DOMAIN general
                             /\ _foreman_ranking_items(scores, general, ord, desc, limit)[i]
                                  = RankingItem(scores, general, Sorted(general, ord, desc)[i])
  <2>1. limit \in Nat
    OBVIOUS
  <2> HIDE DEF scores
  <2>2. QED
    BY <1>5, <2>1, RankingIs, SMTT(30)
<1>10. /\ DOMAIN a.top = 1 .. m /\ (m = 0 => a.top = <<>>)
       /\ \A i \in 1 .. m : best[i] \in DOMAIN general /\ a.top[i] = RankingItem(scores, general, best[i])
       /\ \A i \in 1 .. m : worst[i] \in DOMAIN general /\ a.bottom[i] = RankingItem(scores, general, worst[i])
  <2> HIDE DEF scores, m
  <2>1. QED
    BY <1>3, <1>9
<1>11. \A f : /\ RankingItem(scores, general, f).id = f
              /\ RankingItem(scores, general, f).general = general[f]
              /\ RankingItem(scores, general, f).operational = scores[f].total
  BY DEF RankingItem
<1>12. IF n = 0 THEN a.top = <<>> /\ a.summary.best_foreman = None
       ELSE a.top[1].id = a.summary.best_foreman /\ a.bottom[1].general <= a.top[1].general
  <2>1. CASE n = 0
    <3>1. m = 0
      BY <2>1 DEF Cut, AtMost
    <3>2. DOMAIN general = {}
      BY <1>6, <2>1, FS_EmptySet
    <3>3. a.summary.best_foreman = None
      BY <3>2, <1>4 DEF FirstOf
    <3>4. QED
      BY <2>1, <3>1, <3>3, <1>10
  <2>2. CASE n # 0
    <3>1. DOMAIN general # {}
      BY <2>2, FS_EmptySet
    <3>2. 1 \in 1 .. m
      BY <1>6, <2>2 DEF Cut, AtMost
    <3>3. /\ \A desc \in BOOLEAN : /\ Sorted(general, ord, desc)[1] \in DOMAIN general
                                   /\ FirstOf(general, ord, desc) = Sorted(general, ord, desc)[1]
          /\ \A f \in DOMAIN general : general[f] <= general[Sorted(general, ord, TRUE)[1]]
      BY <3>1, <1>5, FirstIsBest
    <3>4. FirstOf(general, ord, TRUE) = best[1] /\ worst[1] \in DOMAIN general
      BY <3>3
    <3>5. general[worst[1]] <= general[best[1]]
      BY <3>3, <3>4
    <3> HIDE DEF best, worst, m, scores
    <3>6. a.top[1].id = best[1] /\ a.top[1].general = general[best[1]] /\ a.bottom[1].general = general[worst[1]]
      BY <3>2, <1>10, <1>11
    <3>7. QED
      BY <2>2, <3>4, <3>5, <3>6, <1>4
  <2>3. QED
    BY <2>1, <2>2
<1> DEFINE delta == Delta(scores, previous)
           k     == Cut(delta, limit)
<1>13. \A desc \in BOOLEAN :
         /\ DOMAIN _foreman_trend_items(scores, previous, ord, desc, limit) = 1 .. k
         /\ Len(_foreman_trend_items(scores, previous, ord, desc, limit)) = k
         /\ \A i \in 1 .. k :
              /\ Sorted(delta, ord, desc)[i] \in DOMAIN delta
              /\ _foreman_trend_items(scores, previous, ord, desc, limit)[i].id = Sorted(delta, ord, desc)[i]
              /\ _foreman_trend_items(scores, previous, ord, desc, limit)[i].operational
                   = scores[Sorted(delta, ord, desc)[i]].total
  <2>1. limit \in Nat
    OBVIOUS
  <2>2. Sortable(delta, ord)
    BY DeltaSortable
  <2> HIDE DEF scores, previous
  <2>3. QED
    BY <2>1, <2>2, TrendItemsAre
<1> DEFINE up   == Sorted(delta, ord, TRUE)
           down == Sorted(delta, ord, FALSE)
<1>14. /\ DOMAIN a.improving = 1 .. k /\ Len(a.improving) = k /\ DOMAIN a.declining = 1 .. k
       /\ \A i \in 1 .. k : a.improving[i].id = up[i] /\ a.improving[i].operational = scores[up[i]].total
       /\ \A i \in 1 .. k : down[i] \in DOMAIN delta /\ a.declining[i].id = down[i]
  <2> HIDE DEF scores, previous, delta, k
  <2>1. QED
    BY <1>3, <1>13
<1>15. ASSUME NEW j \in DOMAIN a.declining
       PROVE  Len(a.improving) = limit \/ \E i \in DOMAIN a.improving : a.improving[i].id = a.declining[j].id
  <2> DEFINE d == delta
             p == Place(d, ord, TRUE, down[j])
  <2>1. down[j] \in DOMAIN d /\ a.declining[j].id = down[j]
    BY <1>14, <1>15
  <2>2. Sortable(d, ord)
    BY DeltaSortable
  <2>3. Cardinality(DOMAIN d) \in Nat
    BY <2>2, FS_CardinalityType DEF Sortable
  <2>4. \A desc \in BOOLEAN : \A f \in DOMAIN d :
           /\ Place(d, ord, desc, f) \in 1 .. Cardinality(DOMAIN d)
           /\ Sorted(d, ord, desc)[Place(d, ord, desc, f)] = f
    <3> HIDE DEF d
    <3>1. QED
      BY <2>2, SortedIs
  <2>5. p \in 1 .. Cardinality(DOMAIN d) /\ up[p] = down[j]
    <3> HIDE DEF delta
    <3>1. QED
      BY <2>1, <2>4
  <2>6. k = limit \/ k = Cardinality(DOMAIN d)
    BY DEF Cut, AtMost
  <2> HIDE DEF p, up, down, k, d
  <2>7. QED
    BY <2>1, <2>5, <2>6, <1>14
<1>16. ASSUME NEW i \in DOMAIN a.improving, NEW j \in DOMAIN a.top, a.improving[i].id = a.top[j].id
       PROVE  a.improving[i].operational = a.top[j].operational
  <2>1. a.improving[i].id = up[i] /\ a.improving[i].operational = scores[up[i]].total
    BY <1>14
  <2>2. a.top[j].id = best[j] /\ a.top[j].operational = scores[best[j]].total
    <3> HIDE DEF m, best, scores
    <3>1. QED
      BY <1>10, <1>11
  <2> HIDE DEF up, best, scores
  <2>3. QED
    BY <2>1, <2>2, <1>16
<1>17. QED
  BY <1>4, <1>7, <1>8, <1>12, <1>15, <1>16 DEF a, SectionsAgree

-----------------------------------------------------------------------------
(* Pages whose SELECTs saw different databases.                            *)

\* A leader was measured on every KPI, and no foreman had more.
LEMMA LeaderStands ==
  ASSUME NEW s, NEW G, NEW ord \in Orders, NEW i, s[i + 3].bonus \in [Foremen -> Nat],
         _month_leader(s, i, G, ord) # None
  PROVE  /\ compute_general_foreman_scores(s, i, G).scores[_month_leader(s, i, G, ord)].reliable
         /\ \A g \in DOMAIN compute_general_foreman_scores(s, i, G).general :
               compute_general_foreman_scores(s, i, G).general[g]
                 <= compute_general_foreman_scores(s, i, G).general[_month_leader(s, i, G, ord)]
<1> DEFINE scores  == foreman_scores(Call(s, i), G)
           general == General(scores, s[i + 3].bonus)
           limit   == Cardinality(Foremen)
           items   == _foreman_ranking_items(scores, general, ord, TRUE, limit)
           first   == Sorted(general, ord, TRUE)[1]
<1>1. /\ compute_general_foreman_scores(s, i, G).scores = scores
      /\ compute_general_foreman_scores(s, i, G).general = general
  BY DEF compute_general_foreman_scores, WithBonus
<1>2. _month_leader(s, i, G, ord) = _top(items)
  BY <1>1 DEF _month_leader, foreman_ranking, RankingOf
<1>3. Sortable(general, ord)
  BY GeneralIs
<1>4. items # <<>> /\ items[1].reliable /\ _top(items) = items[1].id
  BY <1>2 DEF _top
<1> HIDE DEF scores, general, items
<1>5. \A desc \in BOOLEAN :
         /\ DOMAIN _foreman_ranking_items(scores, general, ord, desc, limit) = 1 .. Cut(general, limit)
         /\ Len(_foreman_ranking_items(scores, general, ord, desc, limit)) = Cut(general, limit)
         /\ Cut(general, limit) = 0 => _foreman_ranking_items(scores, general, ord, desc, limit) = <<>>
         /\ \A j \in 1 .. Cut(general, limit) :
              /\ Sorted(general, ord, desc)[j] \in DOMAIN general
              /\ _foreman_ranking_items(scores, general, ord, desc, limit)[j]
                   = RankingItem(scores, general, Sorted(general, ord, desc)[j])
  <2>1. limit \in Nat
    BY FiniteWorld
  <2> HIDE DEF limit
  <2>2. ASSUME NEW desc \in BOOLEAN
        PROVE  LET list == _foreman_ranking_items(scores, general, ord, desc, limit)
               IN  /\ DOMAIN list = 1 .. Cut(general, limit)
                   /\ Len(list) = Cut(general, limit)
                   /\ Cut(general, limit) = 0 => list = <<>>
                   /\ \A j \in 1 .. Cut(general, limit) :
                        /\ Sorted(general, ord, desc)[j] \in DOMAIN general
                        /\ list[j] = RankingItem(scores, general, Sorted(general, ord, desc)[j])
    BY <1>3, <2>1, RankingIs, SMTT(30)
  <2>3. QED
    BY <2>2, Zenon
<1>6. Cut(general, limit) \in Nat
  <2>1. limit \in Nat
    BY FiniteWorld
  <2> HIDE DEF limit
  <2>2. QED
    BY <1>3, <2>1, CutIs
<1>7. /\ Cut(general, limit) = 0 => items = <<>>
      /\ \A j \in 1 .. Cut(general, limit) : items[j] = RankingItem(scores, general, Sorted(general, ord, TRUE)[j])
  <2> HIDE DEF limit
  <2>1. QED
    BY <1>5 DEF items
<1>8. 1 \in 1 .. Cut(general, limit)
  BY <1>4, <1>6, <1>7
<1>9. items[1].id = first /\ items[1].reliable = scores[first].reliable
  <2>1. items[1] = RankingItem(scores, general, first)
    BY <1>7, <1>8
  <2>2. \A f : RankingItem(scores, general, f).id = f /\ RankingItem(scores, general, f).reliable = scores[f].reliable
    BY DEF RankingItem
  <2>3. QED
    BY <2>1, <2>2
<1>10. DOMAIN general # {}
  <2>1. DOMAIN general = {} => Cardinality(DOMAIN general) = 0
    BY FS_EmptySet
  <2>2. limit \in Nat
    BY FiniteWorld
  <2> HIDE DEF limit
  <2>3. Cardinality(DOMAIN general) = 0 => Cut(general, limit) = 0
    BY <2>2 DEF Cut, AtMost
  <2>4. Cut(general, limit) # 0
    BY <1>8
  <2>5. QED
    BY <2>1, <2>3, <2>4
<1>11. \A g \in DOMAIN general : general[g] <= general[first]
  BY <1>3, <1>10, FirstIsBest
<1>12. QED
  BY <1>1, <1>2, <1>4, <1>9, <1>11

\* The service that answers a page.
LEMMA PageIs ==
  ASSUME NEW r, NEW s, NEW ord
  PROVE  /\ r.page \in OfForeman => Page(r, s, ord) = ForemanPages(r, s, ord)
         /\ r.page \in OfAChief => Page(r, s, ord) = ChiefPages(r, s, ord)
         /\ r.page \in OfAPlant => Page(r, s, ord) = PlantPages(r, s, ord)
         /\ r.page \in OfDashboard => Page(r, s, ord) = DashboardPages(r, s, ord)
         /\ r.page = "report" => Page(r, s, ord) = build_report_rows(s, r.arg, r.F, ord)
         /\ r.page = "kpi" => Page(r, s, ord) = get_analysis(s, r.id, r.F, ord)
<1>1. r.page \in OfForeman => Page(r, s, ord) = ForemanPages(r, s, ord)
  BY DEF Page, OfForeman, OfAChief, OfAPlant, OfDashboard
<1>2. r.page \in OfAChief => Page(r, s, ord) = ChiefPages(r, s, ord)
  BY DEF Page, OfForeman, OfAChief, OfAPlant, OfDashboard
<1>3. r.page \in OfAPlant => Page(r, s, ord) = PlantPages(r, s, ord)
  BY DEF Page, OfForeman, OfAChief, OfAPlant, OfDashboard
<1>4. r.page \in OfDashboard => Page(r, s, ord) = DashboardPages(r, s, ord)
  BY DEF Page, OfForeman, OfAChief, OfAPlant, OfDashboard
<1>5. r.page = "report" => Page(r, s, ord) = build_report_rows(s, r.arg, r.F, ord)
  BY DEF Page, OfForeman, OfAChief, OfAPlant, OfDashboard
<1>6. r.page = "kpi" => Page(r, s, ord) = get_analysis(s, r.id, r.F, ord)
  BY DEF Page, OfForeman, OfAChief, OfAPlant, OfDashboard
<1>7. QED
  BY <1>1, <1>2, <1>3, <1>4, <1>5, <1>6

\* What the SELECTs of an answered request saw are databases.
LEMMA SeenAre ==
  ASSUME ViewsInv, shown \notin {NotYet, Refused}
  PROVE  /\ \A i \in 1 .. Selects(req.page) : Seen[i] \in Databases
         /\ shown.ord \in Orders /\ shown.answer = Page(req, Seen, shown.ord)
<1>1. Answered({req.page})
  BY DEF ViewsInv, ViewsTypeOK, Answered
<1>2. /\ Remaining = 0 /\ shown.ord \in Orders
      /\ shown = [page |-> req.page, ord |-> shown.ord, answer |-> Page(req, Seen, shown.ord),
                  reader |-> shown.reader]
  BY <1>1 DEF ViewsInv, AnswerStands
<1>3. PICK r \in Requests : req = Received(r)
  BY DEF ViewsInv, ViewsTypeOK
<1>4. Selects(req.page) \in Nat \ {0}
  BY <1>3, ReceivedIs, SelectsPositive
<1>5. Len(at) = Selects(req.page) /\ at \in Seq(DOMAIN hist) /\ hist \in Seq(Databases)
  BY <1>2, <1>4 DEF ViewsInv, ViewsTypeOK, Remaining
<1>6. \A i \in 1 .. Len(at) : at[i] \in 1 .. Len(hist) /\ Seen[i] = hist[at[i]]
  BY <1>5 DEF Seen
<1>7. \A i \in 1 .. Selects(req.page) : Seen[i] \in Databases
  BY <1>5, <1>6
<1>8. QED
  BY <1>2, <1>7

\* Commits between the SELECTs of a request do not make its answer contradict itself.
THEOREM CommitsDoNotTearCorrect == ViewsSpec => []CommitsDoNotTear
<1>1. \A db \in Databases : db.bonus \in [Foremen -> Nat]
  BY DEF Databases
<1>2. ASSUME ViewsInv, Answered({"snapshot"}) PROVE SnapshotAgreesWithItself
  <2>1. shown.page = "snapshot" /\ shown \notin {NotYet, Refused}
    BY <1>2 DEF Answered, NotYet, Refused, None
  <2>2. req.page = "snapshot"
    BY <1>2, <2>1 DEF ViewsInv, ViewsTypeOK
  <2>3. PICK r \in Requests : req = Received(r)
    BY <1>2 DEF ViewsInv, ViewsTypeOK
  <2>4. req.arg \in Nat \ {0}
    BY <2>2, <2>3, ReceivedIs
  <2>5. Selects("snapshot") = 17
    BY SelectsAre
  <2>6. Seen[4] \in Databases /\ shown.ord \in Orders /\ shown.answer = Page(req, Seen, shown.ord)
    BY <1>2, <2>1, <2>2, <2>5, SeenAre
  <2>7. Page(req, Seen, shown.ord) = snapshot(Seen, F, shown.ord, req.arg)
    <3>1. req.page \in OfDashboard
      BY <2>2 DEF OfDashboard
    <3>2. Page(req, Seen, shown.ord) = DashboardPages(req, Seen, shown.ord)
      BY <3>1, PageIs
    <3>3. DashboardPages(req, Seen, shown.ord) = snapshot(Seen, F, shown.ord, req.arg)
      BY <2>2 DEF DashboardPages, F
    <3>4. QED
      BY <3>2, <3>3
  <2>8. Seen[4].bonus \in [Foremen -> Nat]
    BY <1>1, <2>6
  <2>9. SectionsAgree(shown.answer, req.arg)
    BY <2>4, <2>6, <2>7, <2>8, SnapshotStands
  <2>10. QED
    BY <2>9 DEF SnapshotAgreesWithItself, SectionsAgree
<1>3. ASSUME ViewsInv, Answered({"leaders"}) PROVE LeaderIsBest
  <2>1. shown.page = "leaders" /\ shown \notin {NotYet, Refused}
    BY <1>3 DEF Answered, NotYet, Refused, None
  <2>2. req.page = "leaders"
    BY <1>3, <2>1 DEF ViewsInv, ViewsTypeOK
  <2>3. Selects("leaders") = 4 * Months + 4 /\ Months \in Nat \ {0}
    BY SelectsAre, ViewsAssumption
  <2>4. /\ \A i \in 1 .. 4 * Months + 4 : Seen[i] \in Databases
        /\ shown.ord \in Orders /\ shown.answer = Page(req, Seen, shown.ord)
    BY <1>3, <2>1, <2>2, <2>3, SeenAre
  <2>5. Page(req, Seen, shown.ord) = leaders(Seen, F, shown.ord)
    <3>1. req.page \in OfDashboard
      BY <2>2 DEF OfDashboard
    <3>2. Page(req, Seen, shown.ord) = DashboardPages(req, Seen, shown.ord)
      BY <3>1, PageIs
    <3>3. DashboardPages(req, Seen, shown.ord) = leaders(Seen, F, shown.ord)
      BY <2>2 DEF DashboardPages, F
    <3>4. QED
      BY <3>2, <3>3
  <2> DEFINE of(m, n) == [F EXCEPT !.from = m, !.to = n]
             monthly == _month_leader(Seen, 4 * Months - 3, of(Months, Months), shown.ord)
             yearly  == _month_leader(Seen, 4 * Months + 1, of(1, Months), shown.ord)
  <2>6. shown.answer.monthly = monthly /\ shown.answer.yearly = yearly
    <3>1. shown.answer = Leaders(Table([m \in 1 .. Months |->
                            _month_leader(Seen, 4 * m - 3, [F EXCEPT !.from = m, !.to = m], shown.ord)]), yearly)
      BY <2>4, <2>5 DEF leaders
    <3>2. \A months, year : Leaders(months, year).monthly = months[Months] /\ Leaders(months, year).yearly = year
      BY DEF Leaders
    <3>3. Months \in 1 .. Months
      BY <2>3
    <3>4. Table([m \in 1 .. Months |-> _month_leader(Seen, 4 * m - 3, [F EXCEPT !.from = m, !.to = m], shown.ord)])[Months]
            = monthly
      <4> DEFINE months == [m \in 1 .. Months |->
                              _month_leader(Seen, 4 * m - 3, [F EXCEPT !.from = m, !.to = m], shown.ord)]
      <4>1. months[Months] = monthly
        BY <3>3
      <4>2. Table(months) = months
        BY TableIs
      <4> HIDE DEF months, monthly
      <4>3. Table(months)[Months] = monthly
        BY <4>1, <4>2
      <4>4. QED
        BY <4>3 DEF months
    <3> HIDE DEF monthly, yearly
    <3>5. QED
      BY <3>1, <3>2, <3>4
  <2>7. /\ 4 * Months - 3 + 3 \in 1 .. 4 * Months + 4
        /\ 4 * Months + 1 + 3 \in 1 .. 4 * Months + 4
    BY <2>3
  <2>8. /\ Seen[4 * Months - 3 + 3].bonus \in [Foremen -> Nat]
        /\ Seen[4 * Months + 1 + 3].bonus \in [Foremen -> Nat]
    BY <2>4, <2>7, <1>1
  <2> DEFINE base(i, m, n) == compute_general_foreman_scores(Seen, i, of(m, n))
             best(f, b)    == b.scores[f].reliable /\ \A g \in DOMAIN b.general : b.general[g] <= b.general[f]
  <2> HIDE DEF of
  <2>9. monthly # None => best(monthly, base(4 * Months - 3, Months, Months))
    BY <2>4, <2>8, LeaderStands
  <2>10. yearly # None => best(yearly, base(4 * Months + 1, 1, Months))
    BY <2>4, <2>8, LeaderStands
  <2> HIDE DEF monthly, yearly
  <2>11. QED
    BY <2>6, <2>9, <2>10 DEF LeaderIsBest, of
<1>4. ViewsInv => CommitsDoNotTear
  <2>1. ~Answered({"snapshot"}) => SnapshotAgreesWithItself
    BY DEF SnapshotAgreesWithItself
  <2>2. ~Answered({"leaders"}) => LeaderIsBest
    BY DEF LeaderIsBest
  <2>3. QED
    BY <1>2, <1>3, <2>1, <2>2 DEF CommitsDoNotTear, ViewsInv
<1>5. QED
  BY <1>4, ViewsInvariantCorrect, PTL

-----------------------------------------------------------------------------
(* Pages that saw one database.                                            *)

\* What another request reads of it.
LEMMA StillSaw ==
  ASSUME NEW db
  PROVE  /\ \A n \in Nat : Saw(Still(db), n, db)
         /\ \A i \in Nat : Still(db)[i] = db
         /\ Call(Still(db), 1) = Once(db)
<1>1. \A i \in Nat : Still(db)[i] = db
  BY DEF Still
<1>2. \A n \in Nat : Saw(Still(db), n, db)
  BY <1>1 DEF Saw
<1>3. Call(Still(db), 1) = Once(db)
  BY <1>1 DEF Call, Once
<1>4. QED
  BY <1>1, <1>2, <1>3

\* The general scores of a request that saw one database.
LEMMA GeneralOf ==
  ASSUME NEW s, NEW db, Saw(s, 4, db), NEW G
  PROVE  /\ compute_general_foreman_scores(s, 1, G).scores = foreman_scores(Once(db), G)
         /\ compute_general_foreman_scores(s, 1, G).general = General(foreman_scores(Once(db), G), db.bonus)
         /\ compute_general_foreman_scores(s, 1, G) = WithBonus(foreman_scores(Once(db), G), db.bonus)
<1>1. Call(s, 1) = Once(db)
  BY CallSaw
<1>2. s[1 + 3] = db
  BY DEF Saw
<1>3. QED
  BY <1>1, <1>2 DEF compute_general_foreman_scores, WithBonus

\* What a steady request was answered from.
LEMMA SteadyPage ==
  ASSUME ViewsInv, shown \notin {NotYet, Refused}, Steady
  PROVE  /\ Saw(Seen, Selects(req.page), hist[at[1]]) /\ hist[at[1]] \in Databases
         /\ shown.ord \in Orders /\ shown.page = req.page
         /\ shown.answer = Page(req, Seen, shown.ord)
         /\ Now = Still(hist[at[1]])
BY SteadySaw, SeenAre DEF ViewsInv, ViewsTypeOK, Now

\* The reports count the foremen of each level as the dashboard does.
LEMMA ReportsStand ==
  ASSUME NEW s, NEW db, Saw(s, 4, db), db \in Databases, NEW G, NEW ord \in Orders
  PROVE  LET levels == performance_distribution(Still(db), G).items
         IN  /\ Len(build_report_rows(s, "CRITICAL_PERFORMANCE", G, ord)) = levels["Kritik"]
             /\ \A l \in Levels : build_report_rows(s, "COMPANY_SUMMARY", G, ord)[l].count = levels[l]
<1> DEFINE general == General(foreman_scores(Once(db), G), db.bonus)
           levels  == performance_distribution(Still(db), G).items
           at_level(l) == {f \in DOMAIN general : resolve_performance_level(general[f]) = l}
           worst   == [f \in at_level("Kritik") |-> general[f]]
           base    == compute_general_foreman_scores(s, 1, G)
<1>1. base.general = general
  BY GeneralOf
<1>2. levels = [l \in Levels |-> CountAt(general, l)]
  <2>1. Saw(Still(db), 4, db)
    BY StillSaw
  <2>2. compute_general_foreman_scores(Still(db), 1, G).general = general
    BY <2>1, GeneralOf
  <2>3. QED
    BY <2>2 DEF performance_distribution, _distribution_payload
<1>3. /\ build_report_rows(s, "CRITICAL_PERFORMANCE", G, ord) = _critical_rows(base, ord)
      /\ build_report_rows(s, "COMPANY_SUMMARY", G, ord) = _company_summary(base.general)
  BY DEF build_report_rows
<1>4. db.bonus \in [Foremen -> Nat]
  BY DEF Databases
<1>5. Sortable(general, ord)
  BY <1>4, GeneralIs
<1> HIDE DEF general, base
<1>6. Len(_critical_rows(base, ord)) = CountAt(general, "Kritik")
  <2>1. _critical_rows(base, ord) = Sorted(worst, ord, FALSE)
    BY <1>1 DEF _critical_rows
  <2>2. DOMAIN worst = at_level("Kritik") /\ Cardinality(at_level("Kritik")) = CountAt(general, "Kritik")
    BY DEF CountAt
  <2>3. Sorted(worst, ord, FALSE)
          = [i \in 1 .. Cardinality(DOMAIN worst) |-> CHOOSE f \in DOMAIN worst : Place(worst, ord, FALSE, f) = i]
    BY TableIs DEF Sorted
  <2>4. IsFiniteSet(at_level("Kritik"))
    BY <1>5, FS_Subset DEF Sortable
  <2>5. Cardinality(at_level("Kritik")) \in Nat
    BY <2>4, FS_CardinalityType
  <2> DEFINE n == Cardinality(at_level("Kritik"))
             row(i) == CHOOSE f \in DOMAIN worst : Place(worst, ord, FALSE, f) = i
  <2> HIDE DEF row
  <2>6. Sorted(worst, ord, FALSE) = [i \in 1 .. n |-> row(i)]
    BY <2>2, <2>3 DEF row
  <2> HIDE DEF n
  <2>7. Len([i \in 1 .. n |-> row(i)]) = n
    BY <2>5 DEF n
  <2>8. QED
    BY <2>1, <2>2, <2>6, <2>7 DEF n
<1>7. \A l \in Levels : _company_summary(general)[l].count = CountAt(general, l)
  BY DEF _company_summary, CountAt
<1>8. QED
  BY <1>1, <1>2, <1>3, <1>6, <1>7 DEF Levels

\* The reports and the dashboard say the same of the same data.
THEOREM ReportsAgreeCorrect == ViewsSpec => []ReportsAgree
<1>1. ASSUME ViewsInv, Answered({"report"}), Steady PROVE ReportsAgree
  <2>1. shown.page = "report" /\ shown \notin {NotYet, Refused}
    BY <1>1 DEF Answered, NotYet, Refused, None
  <2>2. /\ Saw(Seen, Selects(req.page), hist[at[1]]) /\ hist[at[1]] \in Databases
        /\ shown.ord \in Orders /\ shown.page = req.page
        /\ shown.answer = Page(req, Seen, shown.ord)
        /\ Now = Still(hist[at[1]])
    BY <1>1, <2>1, SteadyPage
  <2>3. Selects(req.page) = 4
    BY <2>1, <2>2, SelectsAre
  <2>4. shown.answer = build_report_rows(Seen, req.arg, F, shown.ord)
    BY <2>1, <2>2, PageIs DEF F
  <2> DEFINE levels == performance_distribution(Still(hist[at[1]]), F).items
  <2>5. /\ Len(build_report_rows(Seen, "CRITICAL_PERFORMANCE", F, shown.ord)) = levels["Kritik"]
        /\ \A l \in Levels : build_report_rows(Seen, "COMPANY_SUMMARY", F, shown.ord)[l].count = levels[l]
    BY <2>2, <2>3, ReportsStand
  <2> HIDE DEF levels
  <2>6. levels = performance_distribution(Now, F).items
    BY <2>2 DEF levels
  <2>7. QED
    BY <2>4, <2>5, <2>6 DEF ReportsAgree
<1>2. ViewsInv => ReportsAgree
  <2>1. ~(Answered({"report"}) /\ Steady) => ReportsAgree
    BY DEF ReportsAgree
  <2>2. QED
    BY <1>1, <2>1
<1>3. QED
  BY <1>2, ViewsInvariantCorrect, PTL

\* A snapshot is made of the sections read one by one.
LEMMA SectionsStand ==
  ASSUME NEW s, NEW db, NEW G, NEW ord
  PROVE  LET whole == snapshot(Still(db), G, ord, Cardinality(Foremen))
         IN  /\ Saw(s, 14, db) => summary(s, G, ord) = whole.summary
             /\ Saw(s, 3, db) => kpi_summary(Call(s, 1), G) = whole.kpis
             /\ Saw(s, 3, db) => Totals(shift_scores(Call(s, 1), G)) = whole.shifts
<1> DEFINE limit == Cardinality(Foremen)
           whole == snapshot(Still(db), G, ord, limit)
           base  == _compute_base(Still(db), G)
<1>1. /\ whole.summary = _summary_payload(base, MissingPlants(Still(db)[17], G), ord)
      /\ whole.kpis = base.kpis /\ whole.shifts = base.shifts
  BY DEF snapshot, Sections
<1>2. ASSUME NEW t, Saw(t, 14, db)
      PROVE  /\ _compute_base(t, G) = [scores |-> foreman_scores(Once(db), G),
                    general |-> General(foreman_scores(Once(db), G), db.bonus),
                    plants |-> Totals(plant_scores(Once(db), G)), shifts |-> Totals(shift_scores(Once(db), G)),
                    kpis |-> kpi_summary(Once(db), G)]
             /\ t[14] = db
  <2>1. Call(t, 5) = Once(db) /\ Call(t, 8) = Once(db) /\ Call(t, 11) = Once(db)
    BY <1>2, CallSaw
  <2>2. Saw(t, 4, db) /\ t[14] = db
    BY <1>2 DEF Saw
  <2>3. /\ compute_general_foreman_scores(t, 1, G).scores = foreman_scores(Once(db), G)
        /\ compute_general_foreman_scores(t, 1, G).general = General(foreman_scores(Once(db), G), db.bonus)
    BY <2>2, GeneralOf
  <2>4. QED
    BY <2>1, <2>2, <2>3 DEF _compute_base
<1>3. Saw(Still(db), 14, db) /\ Still(db)[17] = db
  BY StillSaw
<1>4. Saw(s, 14, db) => summary(s, G, ord) = whole.summary
  <2> SUFFICES ASSUME Saw(s, 14, db) PROVE summary(s, G, ord) = whole.summary
    OBVIOUS
  <2>1. _compute_base(s, G) = base /\ s[14] = db
    BY <1>2, <1>3
  <2> HIDE DEF base, whole
  <2>2. QED
    BY <1>1, <1>3, <2>1 DEF summary
<1>5. base.kpis = kpi_summary(Once(db), G) /\ base.shifts = Totals(shift_scores(Once(db), G))
  BY <1>2, <1>3
<1>6. Saw(s, 3, db) => Call(s, 1) = Once(db)
  BY CallSaw
<1> HIDE DEF base, whole
<1>7. QED
  BY <1>1, <1>4, <1>5, <1>6 DEF whole

\* The dashboard loaded as one snapshot and section by section shows the same.
THEOREM SnapshotMatchesSectionsCorrect == ViewsSpec => []SnapshotMatchesSections
<1>1. ASSUME ViewsInv, Answered({"summary", "kpi_summary", "shift_comparison"}), Steady
      PROVE  SnapshotMatchesSections
  <2>1. shown.page \in {"summary", "kpi_summary", "shift_comparison"} /\ shown \notin {NotYet, Refused}
    BY <1>1 DEF Answered, NotYet, Refused, None
  <2>2. /\ Saw(Seen, Selects(req.page), hist[at[1]])
        /\ shown.page = req.page
        /\ shown.answer = Page(req, Seen, shown.ord)
        /\ Now = Still(hist[at[1]])
    BY <1>1, <2>1, SteadyPage
  <2>3. req.page \in OfDashboard
    BY <2>1, <2>2 DEF OfDashboard
  <2>4. shown.answer = DashboardPages(req, Seen, shown.ord)
    BY <2>2, <2>3, PageIs
  <2> DEFINE whole == snapshot(Still(hist[at[1]]), F, shown.ord, Cardinality(Foremen))
  <2>5. CASE req.page = "summary"
    <3>1. shown.answer = summary(Seen, F, shown.ord)
      BY <2>4, <2>5 DEF DashboardPages, F
    <3>2. Selects(req.page) = 14
      BY <2>5, SelectsAre
    <3>3. shown.answer = whole.summary
      BY <2>2, <3>1, <3>2, SectionsStand
    <3> HIDE DEF whole
    <3>4. whole = snapshot(Now, F, shown.ord, Cardinality(Foremen))
      BY <2>2 DEF whole
    <3>5. QED
      BY <2>5, <3>3, <3>4 DEF SnapshotMatchesSections
  <2>6. CASE req.page = "kpi_summary"
    <3>1. shown.answer = kpi_summary(Call(Seen, 1), F)
      BY <2>4, <2>6 DEF DashboardPages, F
    <3>2. Selects(req.page) = 3
      BY <2>6, SelectsAre
    <3>3. shown.answer = whole.kpis
      BY <2>2, <3>1, <3>2, SectionsStand
    <3> HIDE DEF whole
    <3>4. whole = snapshot(Now, F, shown.ord, Cardinality(Foremen))
      BY <2>2 DEF whole
    <3>5. QED
      BY <2>6, <3>3, <3>4 DEF SnapshotMatchesSections
  <2>7. CASE req.page = "shift_comparison"
    <3>1. shown.answer = Totals(shift_scores(Call(Seen, 1), F))
      BY <2>4, <2>7 DEF DashboardPages, F
    <3>2. Selects(req.page) = 3
      BY <2>7, SelectsAre
    <3>3. shown.answer = whole.shifts
      BY <2>2, <3>1, <3>2, SectionsStand
    <3> HIDE DEF whole
    <3>4. whole = snapshot(Now, F, shown.ord, Cardinality(Foremen))
      BY <2>2 DEF whole
    <3>5. QED
      BY <2>7, <3>3, <3>4 DEF SnapshotMatchesSections
  <2>8. QED
    BY <2>1, <2>2, <2>5, <2>6, <2>7
<1>2. ViewsInv => SnapshotMatchesSections
  <2>1. ~(Answered({"summary", "kpi_summary", "shift_comparison"}) /\ Steady) => SnapshotMatchesSections
    BY DEF SnapshotMatchesSections
  <2>2. QED
    BY <1>1, <2>1
<1>3. QED
  BY <1>2, ViewsInvariantCorrect, PTL

-----------------------------------------------------------------------------
(* The rank a foreman's page shows is his place in the ranking.            *)

\* The rank of an entry is its place in the sorted list.
LEMMA RankIs ==
  ASSUME NEW val, NEW ord, Sortable(val, ord), NEW desc \in BOOLEAN
  PROVE  /\ DOMAIN Sorted(val, ord, desc) = 1 .. Cardinality(DOMAIN val)
         /\ \A x \in DOMAIN val : /\ Rank(Sorted(val, ord, desc), x) = Place(val, ord, desc, x)
                                  /\ Rank(Sorted(val, ord, desc), x) \in 1 .. Cardinality(DOMAIN val)
                                  /\ Sorted(val, ord, desc)[Rank(Sorted(val, ord, desc), x)] = x
         /\ \A x : x \notin DOMAIN val => Rank(Sorted(val, ord, desc), x) = 0
<1> DEFINE s == Sorted(val, ord, desc)
           N == Cardinality(DOMAIN val)
<1>1. /\ s \in [1 .. N -> DOMAIN val]
      /\ \A i \in 1 .. N : Place(val, ord, desc, s[i]) = i
      /\ \A x \in DOMAIN val : Place(val, ord, desc, x) \in 1 .. N /\ s[Place(val, ord, desc, x)] = x
  BY SortedIs
<1> HIDE DEF s, N
<1>2. DOMAIN s = 1 .. N
  BY <1>1
<1>3. ASSUME NEW x \in DOMAIN val PROVE Rank(s, x) = Place(val, ord, desc, x)
  <2>1. Rank(s, x) = CHOOSE i \in DOMAIN s : s[i] = x
    BY <1>1, <1>2 DEF Rank
  <2>2. Rank(s, x) \in 1 .. N /\ s[Rank(s, x)] = x
    BY <2>1, <1>1, <1>2
  <2>3. QED
    BY <2>2, <1>1
<1>4. ASSUME NEW x, x \notin DOMAIN val PROVE Rank(s, x) = 0
  BY <1>1, <1>2, <1>4 DEF Rank
<1>5. QED
  BY <1>1, <1>2, <1>3, <1>4 DEF s, N

\* From the largest to the smallest.
LEMMA RankDown ==
  ASSUME NEW val, NEW ord, Sortable(val, ord)
  PROVE  LET s == Sorted(val, ord, TRUE)
             N == Cardinality(DOMAIN val)
         IN  /\ DOMAIN s = 1 .. N /\ N \in Nat
             /\ \A i \in 1 .. N : s[i] \in DOMAIN val
             /\ \A x \in DOMAIN val : Rank(s, x) \in 1 .. N /\ s[Rank(s, x)] = x
             /\ \A i \in 1 .. N : Rank(s, s[i]) = i
             /\ \A x : x \notin DOMAIN val => Rank(s, x) = 0
<1> DEFINE s(d) == Sorted(val, ord, d)
           N    == Cardinality(DOMAIN val)
<1>1. ASSUME NEW d \in BOOLEAN
      PROVE  /\ DOMAIN s(d) = 1 .. N /\ N \in Nat
             /\ \A i \in 1 .. N : s(d)[i] \in DOMAIN val
             /\ \A x \in DOMAIN val : Rank(s(d), x) \in 1 .. N /\ s(d)[Rank(s(d), x)] = x
             /\ \A i \in 1 .. N : Rank(s(d), s(d)[i]) = i
             /\ \A x : x \notin DOMAIN val => Rank(s(d), x) = 0
  <2>1. /\ DOMAIN s(d) = 1 .. N
        /\ \A x \in DOMAIN val : /\ Rank(s(d), x) = Place(val, ord, d, x)
                                 /\ Rank(s(d), x) \in 1 .. N
                                 /\ s(d)[Rank(s(d), x)] = x
        /\ \A x : x \notin DOMAIN val => Rank(s(d), x) = 0
    BY RankIs
  <2>2. /\ N \in Nat /\ \A i \in 1 .. N : s(d)[i] \in DOMAIN val
        /\ \A i \in 1 .. N : Place(val, ord, d, s(d)[i]) = i
    BY SortedIs
  <2> HIDE DEF s, N
  <2>3. QED
    BY <2>1, <2>2
<1> HIDE DEF N
<1>2. TRUE \in BOOLEAN
  OBVIOUS
<1> HIDE DEF s
<1>3. QED
  BY <1>1, <1>2, Zenon DEF s, N

\* An entry is not ahead of the one that another order puts at the same place.
LEMMA SamePlaceNotMore ==
  ASSUME NEW val, NEW a, NEW b, Sortable(val, a), Sortable(val, b), NEW x \in DOMAIN val, NEW y \in DOMAIN val,
         Place(val, a, TRUE, x) = Place(val, b, TRUE, y)
  PROVE  ~(val[x] > val[y])
<1> SUFFICES ASSUME val[x] > val[y] PROVE FALSE
  OBVIOUS
<1> DEFINE X == {z \in DOMAIN val : Before(val, a, TRUE, z, x)}
           Y == {z \in DOMAIN val : Before(val, b, TRUE, z, y)}
<1>1. X \subseteq Y
  BY DEF Before, Sortable
<1>2. x \in Y /\ x \notin X
  BY DEF Before, Sortable
<1>3. IsFiniteSet(Y)
  BY FS_Subset DEF Sortable
<1>4. IsFiniteSet(X) /\ Cardinality(X) # Cardinality(Y)
  BY <1>1, <1>2, <1>3, FS_Subset
<1>5. Cardinality(X) \in Nat /\ Cardinality(Y) \in Nat
  BY <1>3, <1>4, FS_CardinalityType
<1>6. 1 + Cardinality(X) = 1 + Cardinality(Y)
  BY DEF Place
<1> HIDE DEF X, Y
<1>7. QED
  BY <1>4, <1>5, <1>6

\* A list from the largest entry to the smallest.
Down(val, ord) == Sorted(val, ord, TRUE)

\* Two orders that break ties differently put entries of one value at each place.
LEMMA SamePlaceSameScore ==
  ASSUME NEW val, NEW a, NEW b, Sortable(val, a), Sortable(val, b), NEW n \in 1 .. Cardinality(DOMAIN val)
  PROVE  val[Down(val, a)[n]] = val[Down(val, b)[n]]
<1> DEFINE x == Sorted(val, a, TRUE)[n]
           y == Sorted(val, b, TRUE)[n]
<1>1. ASSUME NEW ord, Sortable(val, ord), NEW desc \in BOOLEAN
      PROVE  Sorted(val, ord, desc)[n] \in DOMAIN val /\ Place(val, ord, desc, Sorted(val, ord, desc)[n]) = n
  <2> DEFINE s == Sorted(val, ord, desc)
             N == Cardinality(DOMAIN val)
  <2>1. N \in Nat /\ s \in [1 .. N -> DOMAIN val] /\ \A i \in 1 .. N : Place(val, ord, desc, s[i]) = i
    BY <1>1, SortedIs
  <2> HIDE DEF s
  <2>2. QED
    BY <2>1 DEF s
<1>0. TRUE \in BOOLEAN
  OBVIOUS
<1>2. x \in DOMAIN val /\ Place(val, a, TRUE, x) = n
  BY <1>0, <1>1, Zenon
<1>3. y \in DOMAIN val /\ Place(val, b, TRUE, y) = n
  BY <1>0, <1>1, Zenon
<1> HIDE DEF x, y
<1>4. ~(val[x] > val[y]) /\ ~(val[y] > val[x])
  BY <1>2, <1>3, SamePlaceNotMore
<1>5. val[x] \in Int /\ val[y] \in Int
  BY <1>2, <1>3 DEF Sortable
<1>6. val[x] = val[y]
  BY <1>4, <1>5
<1>7. QED
  BY <1>6 DEF Down, x, y

\* The rank mine is the place of a foreman of the score of f in the list.
RankTold(mine, list, scores, general, f) ==
  /\ mine.total = Len(list)
  /\ \A i \in DOMAIN list : list[i].id = f => f \in DOMAIN scores /\ list[i].general = general[f]
  /\ f \in DOMAIN scores => /\ \E i \in DOMAIN list : list[i].id = f
                            /\ mine.rank \in DOMAIN list
                            /\ list[mine.rank].general = general[f]
                            /\ list[mine.rank].level = resolve_performance_level(general[f])
  /\ f \notin DOMAIN scores => mine.rank = 0

\* A rank among the foremen is the place of a foreman of the same score in a ranking that
\* lists them all, whatever order breaks its ties.
LEMMA RankInRanking ==
  ASSUME NEW see, NEW G, NEW bonus \in [Foremen -> Nat], NEW ord \in Orders, NEW f, NEW ties,
         Sortable(General(foreman_scores(see, G), bonus), ties)
  PROVE  LET scores  == foreman_scores(see, G)
             general == General(scores, bonus)
             mine    == RankAmong(f, scores, bonus, ord)
             list    == _foreman_ranking_items(scores, general, ties, TRUE, Cardinality(Foremen))
         IN  RankTold(mine, list, scores, general, f)
<1> DEFINE scores  == foreman_scores(see, G)
           general == General(scores, bonus)
           limit   == Cardinality(Foremen)
           list    == _foreman_ranking_items(scores, general, ties, TRUE, limit)
           N       == Cardinality(DOMAIN scores)
           mine    == RankAmong(f, scores, bonus, ord)
<1>1. Sortable(general, ord) /\ DOMAIN general = DOMAIN scores
  BY GeneralIs
<1>2. limit \in Nat /\ N \in Nat /\ N <= limit
  BY ForemanScoresAre, FiniteWorld, FS_Subset, FS_CardinalityType
<1>3. mine.rank = Rank(Sorted(general, ord, TRUE), f) /\ mine.total = N
  BY DEF RankAmong
<1>0. Sortable(general, ties)
  OBVIOUS
<1> HIDE DEF scores, general, limit, mine
<1>4. Cut(general, limit) = N
  BY <1>1, <1>2 DEF Cut, AtMost
<1> HIDE DEF N
<1>5. /\ DOMAIN list = 1 .. N /\ Len(list) = N
      /\ \A i \in 1 .. N : /\ Sorted(general, ties, TRUE)[i] \in DOMAIN scores
                           /\ list[i] = RankingItem(scores, general, Sorted(general, ties, TRUE)[i])
  <2>1. \A d \in BOOLEAN :
          /\ DOMAIN _foreman_ranking_items(scores, general, ties, d, limit) = 1 .. Cut(general, limit)
          /\ Len(_foreman_ranking_items(scores, general, ties, d, limit)) = Cut(general, limit)
          /\ \A i \in 1 .. Cut(general, limit) :
               /\ Sorted(general, ties, d)[i] \in DOMAIN general
               /\ _foreman_ranking_items(scores, general, ties, d, limit)[i]
                    = RankingItem(scores, general, Sorted(general, ties, d)[i])
    BY <1>0, <1>2, RankingIs, SMTT(30)
  <2>2. TRUE \in BOOLEAN
    OBVIOUS
  <2>3. /\ DOMAIN list = 1 .. Cut(general, limit) /\ Len(list) = Cut(general, limit)
        /\ \A i \in 1 .. Cut(general, limit) :
             /\ Sorted(general, ties, TRUE)[i] \in DOMAIN general
             /\ list[i] = RankingItem(scores, general, Sorted(general, ties, TRUE)[i])
    BY <2>1, <2>2, Zenon
  <2>4. QED
    BY <2>3, <1>1, <1>4, Zenon
<1> HIDE DEF list
<1>6. \A g : /\ RankingItem(scores, general, g).id = g
             /\ RankingItem(scores, general, g).general = general[g]
             /\ RankingItem(scores, general, g).level = resolve_performance_level(general[g])
  BY DEF RankingItem
<1>7. ASSUME f \in DOMAIN scores
      PROVE  /\ \E i \in 1 .. N : Sorted(general, ties, TRUE)[i] = f
             /\ mine.rank \in 1 .. N
             /\ general[Sorted(general, ties, TRUE)[mine.rank]] = general[f]
  <2>1. Cardinality(DOMAIN general) = N
    BY <1>1 DEF N
  <2>0. ASSUME NEW o, Sortable(general, o)
        PROVE  /\ Rank(Sorted(general, o, TRUE), f) \in 1 .. N
               /\ Sorted(general, o, TRUE)[Rank(Sorted(general, o, TRUE), f)] = f
    <3> DEFINE s == Sorted(general, o, TRUE)
    <3>1. \A z \in DOMAIN general : Rank(s, z) \in 1 .. Cardinality(DOMAIN general) /\ s[Rank(s, z)] = z
      BY <2>0, RankDown
    <3> HIDE DEF s
    <3>2. QED
      BY <1>1, <1>7, <2>1, <3>1 DEF s
  <2>2. mine.rank \in 1 .. N /\ Sorted(general, ord, TRUE)[mine.rank] = f
    BY <1>1, <1>3, <2>0, Zenon
  <2>3. Rank(Sorted(general, ties, TRUE), f) \in 1 .. N
        /\ Sorted(general, ties, TRUE)[Rank(Sorted(general, ties, TRUE), f)] = f
    BY <1>0, <2>0, Zenon
  <2>4. general[Sorted(general, ord, TRUE)[mine.rank]] = general[Sorted(general, ties, TRUE)[mine.rank]]
    <3>1. \A n \in 1 .. Cardinality(DOMAIN general) : general[Down(general, ord)[n]] = general[Down(general, ties)[n]]
      BY <1>0, <1>1, SamePlaceSameScore
    <3>2. general[Down(general, ord)[mine.rank]] = general[Down(general, ties)[mine.rank]]
      BY <2>1, <2>2, <3>1
    <3>3. QED
      BY <3>2 DEF Down
  <2>5. QED
    BY <2>2, <2>3, <2>4, Zenon
<1>8. f \notin DOMAIN scores => mine.rank = 0
  <2> DEFINE s == Sorted(general, ord, TRUE)
  <2>1. \A z : z \notin DOMAIN general => Rank(s, z) = 0
    BY <1>1, RankDown
  <2>2. mine.rank = Rank(s, f)
    BY <1>3
  <2> HIDE DEF s
  <2>3. QED
    BY <1>1, <2>1, <2>2
<1> DEFINE s == Sorted(general, ties, TRUE)
<1>12. \A i \in 1 .. N : /\ s[i] \in DOMAIN scores
                         /\ list[i].id = s[i] /\ list[i].general = general[s[i]]
                         /\ list[i].level = resolve_performance_level(general[s[i]])
  <2> SUFFICES ASSUME NEW i \in 1 .. N
               PROVE  /\ s[i] \in DOMAIN scores
                      /\ list[i].id = s[i] /\ list[i].general = general[s[i]]
                      /\ list[i].level = resolve_performance_level(general[s[i]])
    OBVIOUS
  <2>1. s[i] \in DOMAIN scores /\ list[i] = RankingItem(scores, general, s[i])
    BY <1>5
  <2> HIDE DEF s
  <2>2. QED
    BY <2>1, <1>6, Zenon
<1>13. f \in DOMAIN scores => /\ \E i \in 1 .. N : s[i] = f
                              /\ mine.rank \in 1 .. N /\ general[s[mine.rank]] = general[f]
  BY <1>7
<1>14. DOMAIN list = 1 .. N
  BY <1>5
<1> HIDE DEF s
<1>9. \A i \in DOMAIN list : list[i].id = f => f \in DOMAIN scores /\ list[i].general = general[f]
  BY <1>12, <1>14
<1>10. f \in DOMAIN scores => /\ \E i \in DOMAIN list : list[i].id = f
                              /\ mine.rank \in DOMAIN list
                              /\ list[mine.rank].general = general[f]
                              /\ list[mine.rank].level = resolve_performance_level(general[f])
  BY <1>12, <1>13, <1>14
<1>11. QED
  BY <1>3, <1>5, <1>8, <1>9, <1>10, Zenon DEF RankTold, scores, general, limit, mine, list

\* The ranking of all foremen on one database.
LEMMA WholeRanking ==
  ASSUME NEW db, NEW G, NEW ord
  PROVE  foreman_ranking(Still(db), 1, G, ord, TRUE, Cardinality(Foremen))
           = _foreman_ranking_items(foreman_scores(Once(db), G), General(foreman_scores(Once(db), G), db.bonus),
                                    ord, TRUE, Cardinality(Foremen))
<1> DEFINE b == compute_general_foreman_scores(Still(db), 1, G)
<1>1. Saw(Still(db), 4, db)
  BY StillSaw
<1>2. b.scores = foreman_scores(Once(db), G) /\ b.general = General(foreman_scores(Once(db), G), db.bonus)
  BY <1>1, GeneralOf
<1>3. foreman_ranking(Still(db), 1, G, ord, TRUE, Cardinality(Foremen))
        = _foreman_ranking_items(b.scores, b.general, ord, TRUE, Cardinality(Foremen))
  BY DEF foreman_ranking, RankingOf
<1> HIDE DEF b
<1>4. QED
  BY <1>2, <1>3

\* The list of a plant's foremen on one database.
LEMMA WholeList ==
  ASSUME NEW db, NEW G, NEW p
  PROVE  get_plant_foremen(Still(db), p, G, Cardinality(Foremen))
           = LET H == OfPlant(G, p)
             IN  _foreman_ranking_items(foreman_scores(Once(db), H), General(foreman_scores(Once(db), H), db.bonus),
                                        ForemanId, TRUE, Cardinality(Foremen))
<1> DEFINE H == OfPlant(G, p)
           b == compute_general_foreman_scores(Still(db), 1, H)
<1>1. Saw(Still(db), 4, db)
  BY StillSaw
<1>2. b.scores = foreman_scores(Once(db), H) /\ b.general = General(foreman_scores(Once(db), H), db.bonus)
  BY <1>1, GeneralOf
<1>3. get_plant_foremen(Still(db), p, G, Cardinality(Foremen))
        = _foreman_ranking_items(b.scores, b.general, ForemanId, TRUE, Cardinality(Foremen))
  BY DEF get_plant_foremen, RankingOf
<1> HIDE DEF b
<1>4. QED
  BY <1>2, <1>3

\* The page of a foreman, made of one database.
LEMMA ForemanPageIs ==
  ASSUME NEW s, NEW db, Saw(s, 7, db), NEW G, NEW ord, NEW f
  PROVE  LET a      == get_foreman(s, f, G, ord)
             scope  == resolve_foreman_scope(G, CurrentPlants(f, G))
             all    == foreman_scores(Once(db), G)
             within == foreman_scores(Once(db), scope)
         IN  /\ a.company = RankAmong(f, all, db.bonus, ord) /\ a.plant = RankAmong(f, within, db.bonus, ord)
             /\ a.in_scope = (f \in DOMAIN all)
             /\ a.reliable = (f \in DOMAIN all /\ all[f].reliable)
             /\ f \in DOMAIN all => /\ a.operational = all[f].total
                                    /\ a.general = general_performance_score(all[f].total, db.bonus[f])
             /\ a.level = resolve_performance_level(a.general)
<1> DEFINE scope  == resolve_foreman_scope(G, CurrentPlants(f, G))
           all    == foreman_scores(Once(db), G)
           within == foreman_scores(Once(db), scope)
           a      == get_foreman(s, f, G, ord)
<1>1. Call(s, 1) = Once(db) /\ Call(s, 5) = Once(db)
  BY CallSaw
<1>2. s[4] = db
  BY DEF Saw
<1>3. a = ForemanDetail(f, foreman_scores(Call(s, 1), G),
                        foreman_scores(Call(s, IF scope = G THEN 1 ELSE 5), scope), s[4].bonus, ord)
  BY DEF get_foreman
<1> HIDE DEF scope, a
<1>4. a = ForemanDetail(f, all, within, db.bonus, ord)
  BY <1>1, <1>2, <1>3
<1> HIDE DEF all, within
<1>5. QED
  BY <1>4 DEF ForemanDetail, scope, all, within, a

\* The ranks on page a of foreman f tell his places in the ranking of the dashboard,
\* whatever order it came in, and in the list of his plant.
RanksTold(a, t, f, G) ==
  LET home == CurrentPlants(f, G)
      list == get_plant_foremen(t, Smallest(home, Sequence), G, Cardinality(Foremen))
      own  == {i \in DOMAIN list : list[i].id = f}
  IN  /\ \A ord \in Orders :
            LET ranking == foreman_ranking(t, 1, G, ord, TRUE, Cardinality(Foremen))
            IN  /\ a.company.total = Len(ranking) /\ Tells(ranking, a.company.rank, f, a.general)
                /\ a.in_scope => ranking[a.company.rank].level = a.level
      /\ G.plants = NoFilter /\ home # {} =>
            /\ a.plant.total = Len(list)
            /\ \A i \in own : Tells(list, a.plant.rank, f, list[i].general)
            /\ own = {} => a.plant.rank = 0

LEMMA RanksStand ==
  ASSUME NEW s, NEW db, Saw(s, 7, db), db \in Databases, NEW G, NEW ord \in Orders, NEW f
  PROVE  RanksTold(get_foreman(s, f, G, ord), Still(db), f, G)
<1> DEFINE home    == CurrentPlants(f, G)
           p       == Smallest(home, Sequence)
           scope   == resolve_foreman_scope(G, home)
           limit   == Cardinality(Foremen)
           bonus   == db.bonus
           scores(H) == foreman_scores(Once(db), H)
           general(H) == General(scores(H), bonus)
           items(H, ties) == _foreman_ranking_items(scores(H), general(H), ties, TRUE, limit)
           mine(H) == RankAmong(f, scores(H), bonus, ord)
           ranking(o) == foreman_ranking(Still(db), 1, G, o, TRUE, limit)
           list    == get_plant_foremen(Still(db), p, G, limit)
           a       == get_foreman(s, f, G, ord)
<1>1. bonus \in [Foremen -> Nat]
  BY DEF Databases
<1>2. ASSUME NEW H, NEW ties, Sortable(general(H), ties)
      PROVE  RankTold(mine(H), items(H, ties), scores(H), general(H), f)
  BY <1>1, <1>2, RankInRanking, ZenonT(60)
<1>3. ASSUME NEW H PROVE Sortable(general(H), ForemanId) /\ \A o \in Orders : Sortable(general(H), o)
  BY <1>1, GeneralIs, ByIds
<1>4. \A o : ranking(o) = items(G, o)
  BY WholeRanking
<1>5. G.plants = NoFilter /\ home # {} => list = items(scope, ForemanId)
  <2>1. G.plants = NoFilter /\ home # {} => scope = OfPlant(G, p)
    BY DEF resolve_foreman_scope, OfPlant
  <2>2. list = items(OfPlant(G, p), ForemanId)
    BY WholeList
  <2> HIDE DEF list, scope, items
  <2>3. QED
    BY <2>1, <2>2
<1>6. /\ a.company = mine(G) /\ a.plant = mine(scope)
      /\ a.in_scope = (f \in DOMAIN scores(G))
      /\ f \in DOMAIN scores(G) => a.general = general_performance_score(scores(G)[f].total, bonus[f])
      /\ a.level = resolve_performance_level(a.general)
  BY ForemanPageIs
<1>7. f \in DOMAIN scores(G) => general(G)[f] = a.general
  <2>1. general(G) = [g \in DOMAIN scores(G) |-> general_performance_score(scores(G)[g].total, bonus[g])]
    BY TableIs DEF General
  <2>2. QED
    BY <2>1, <1>6
<1> HIDE DEF a, ranking, list, home, scope, items, mine, scores, general, bonus, limit
<1>8. ASSUME NEW o \in Orders
      PROVE  /\ a.company.total = Len(ranking(o)) /\ Tells(ranking(o), a.company.rank, f, a.general)
             /\ a.in_scope => ranking(o)[a.company.rank].level = a.level
  <2>1. Sortable(general(G), o) /\ ranking(o) = items(G, o)
    BY <1>3, <1>4
  <2>2. CASE f \in DOMAIN scores(G)
    BY <1>2, <1>6, <1>7, <2>1, <2>2 DEF Tells, RankTold
  <2>3. CASE f \notin DOMAIN scores(G)
    BY <1>2, <1>6, <2>1, <2>3 DEF Tells, RankTold
  <2>4. QED
    BY <2>2, <2>3
<1> DEFINE own == {i \in DOMAIN list : list[i].id = f}
<1>9. ASSUME G.plants = NoFilter, home # {}
      PROVE  /\ a.plant.total = Len(list)
             /\ \A i \in own : Tells(list, a.plant.rank, f, list[i].general)
             /\ own = {} => a.plant.rank = 0
  <2>1. Sortable(general(scope), ForemanId) /\ list = items(scope, ForemanId)
    BY <1>3, <1>5, <1>9
  <2>2. CASE f \in DOMAIN scores(scope)
    BY <1>2, <1>6, <2>1, <2>2 DEF Tells, RankTold
  <2>3. CASE f \notin DOMAIN scores(scope)
    BY <1>2, <1>6, <2>1, <2>3 DEF RankTold
  <2>4. QED
    BY <2>2, <2>3
<1> HIDE DEF own
<1>10. QED
  BY <1>8, <1>9, Zenon DEF RanksTold, a, ranking, list, own, p, home, limit

\* A foreman's ranks tell his places in the ranking of the dashboard and the list of his plant.
THEOREM RankMatchesRankingCorrect == ViewsSpec => []RankMatchesRanking
<1>1. ASSUME ViewsInv, Answered({"foreman"}), Steady PROVE RankMatchesRanking
  <2>1. shown.page = "foreman" /\ shown \notin {NotYet, Refused}
    BY <1>1 DEF Answered, NotYet, Refused, None
  <2>2. /\ Saw(Seen, Selects(req.page), hist[at[1]]) /\ hist[at[1]] \in Databases
        /\ shown.ord \in Orders /\ shown.page = req.page
        /\ shown.answer = Page(req, Seen, shown.ord)
        /\ Now = Still(hist[at[1]])
    BY <1>1, <2>1, SteadyPage
  <2>3. Selects(req.page) = 7
    BY <2>1, <2>2, SelectsAre
  <2>4. shown.answer = get_foreman(Seen, req.id, F, shown.ord)
    <3>1. req.page \in OfForeman
      BY <2>1, <2>2 DEF OfForeman
    <3>2. Page(req, Seen, shown.ord) = ForemanPages(req, Seen, shown.ord)
      BY <3>1, PageIs
    <3>3. QED
      BY <2>1, <2>2, <3>2 DEF ForemanPages, F
  <2>5. Saw(Seen, 7, hist[at[1]])
    BY <2>2, <2>3
  <2>6. RanksTold(get_foreman(Seen, req.id, F, shown.ord), Still(hist[at[1]]), req.id, F)
    BY <2>2, <2>5, RanksStand
  <2>7. RanksTold(shown.answer, Now, req.id, F)
    BY <2>2, <2>4, <2>6
  <2>8. QED
    BY <2>7, Zenon DEF RankMatchesRanking, RanksTold
<1>2. ViewsInv => RankMatchesRanking
  <2>1. ~(Answered({"foreman"}) /\ Steady) => RankMatchesRanking
    BY DEF RankMatchesRanking
  <2>2. QED
    BY <1>1, <2>1
<1>3. QED
  BY <1>2, ViewsInvariantCorrect, PTL

-----------------------------------------------------------------------------
(* Places in a list that a part of it keeps, and the rank in a factory.    *)

\* Sorting numbers by themselves.
LEMMA OwnOrder ==
  ASSUME NEW P, IsFiniteSet(P), P \subseteq Nat
  PROVE  LET place == [i \in P |-> i]
             kept  == Sorted(place, place, FALSE)
         IN  /\ Cardinality(P) \in Nat
             /\ kept \in [1 .. Cardinality(P) -> P]
             /\ \A r \in P : \E n \in 1 .. Cardinality(P) : kept[n] = r
             /\ \A n \in 1 .. Cardinality(P) :
                   n = 1 + Cardinality({j \in P : j < kept[n]})
<1> DEFINE place == [i \in P |-> i]
           kept(d) == Sorted(place, place, d)
           N == Cardinality(P)
<1>1. Sortable(place, place) /\ DOMAIN place = P
  BY DEF Sortable
<1>2. \A i, j \in P : Before(place, place, FALSE, i, j) <=> i < j
  <2>1. \A i \in P : place[i] = i
    OBVIOUS
  <2> HIDE DEF place
  <2>2. \A i, j \in P : Before(place, place, FALSE, i, j) <=> (place[i] < place[j] \/ (place[i] = place[j] /\ place[i] < place[j]))
    BY DEF Before
  <2>3. QED
    BY <2>1, <2>2
<1>3. \A r \in P : Place(place, place, FALSE, r) = 1 + Cardinality({j \in P : j < r})
  <2>1. SUFFICES ASSUME NEW r \in P PROVE Place(place, place, FALSE, r) = 1 + Cardinality({j \in P : j < r})
    OBVIOUS
  <2>2. {j \in P : Before(place, place, FALSE, j, r)} = {j \in P : j < r}
    BY <1>2
  <2> HIDE DEF place
  <2>3. QED
    BY <2>2, <1>1 DEF Place
<1> HIDE DEF place, N
<1>4. ASSUME NEW d \in BOOLEAN
      PROVE  /\ N \in Nat /\ kept(d) \in [1 .. N -> P]
             /\ \A n \in 1 .. N : Place(place, place, d, kept(d)[n]) = n
             /\ \A r \in P : Place(place, place, d, r) \in 1 .. N /\ kept(d)[Place(place, place, d, r)] = r
  BY <1>1, SortedIs DEF N
<1>5. FALSE \in BOOLEAN
  OBVIOUS
<1> HIDE DEF kept
<1>6. /\ N \in Nat /\ kept(FALSE) \in [1 .. N -> P]
      /\ \A n \in 1 .. N : Place(place, place, FALSE, kept(FALSE)[n]) = n
      /\ \A r \in P : Place(place, place, FALSE, r) \in 1 .. N /\ kept(FALSE)[Place(place, place, FALSE, r)] = r
  BY <1>4, <1>5, Zenon
<1>7. \A r \in P : \E n \in 1 .. N : kept(FALSE)[n] = r
  BY <1>6
<1>8. \A n \in 1 .. N : n = 1 + Cardinality({j \in P : j < kept(FALSE)[n]})
  BY <1>6, <1>3
<1>9. QED
  BY <1>6, <1>7, <1>8 DEF N, kept, place

\* A set is no larger than one it is mapped into one to one.
LEMMA NoLarger ==
  ASSUME NEW S, NEW T, IsFiniteSet(T), NEW f,
         \A x \in S : f[x] \in T, \A x, y \in S : f[x] = f[y] => x = y
  PROVE  Cardinality(S) \in Nat /\ Cardinality(S) <= Cardinality(T)
<1> DEFINE g == [x \in S |-> f[x]]
<1>1. g \in Injection(S, T)
  BY DEF Injection, IsInjective
<1> HIDE DEF g
<1>2. IsFiniteSet(S) /\ Cardinality(S) <= Cardinality(T)
  BY <1>1, FS_Injection
<1>3. QED
  BY <1>2, FS_CardinalityType

\* s lists the entries of val once each, from the largest to the smallest.
Ranks(s, val) ==
  /\ IsFiniteSet(DOMAIN val) /\ \A x \in DOMAIN val : val[x] \in Int
  /\ DOMAIN s = 1 .. Cardinality(DOMAIN val) /\ Cardinality(DOMAIN val) \in Nat
  /\ \A i \in DOMAIN s : s[i] \in DOMAIN val /\ Rank(s, s[i]) = i
  /\ \A x \in DOMAIN val : Rank(s, x) \in DOMAIN s /\ s[Rank(s, x)] = x
  /\ \A i, j \in DOMAIN s : i < j => val[s[i]] >= val[s[j]]

\* A sorted list ranks its entries.
LEMMA SortedRanks ==
  ASSUME NEW val, NEW ord, Sortable(val, ord)
  PROVE  Ranks(Sorted(val, ord, TRUE), val)
<1> DEFINE s     == Sorted(val, ord, TRUE)
           N     == Cardinality(DOMAIN val)
<1>1. /\ DOMAIN s = 1 .. N /\ N \in Nat
      /\ \A i \in 1 .. N : s[i] \in DOMAIN val
      /\ \A x \in DOMAIN val : Rank(s, x) \in 1 .. N /\ s[Rank(s, x)] = x
      /\ \A i \in 1 .. N : Rank(s, s[i]) = i
  BY RankDown
<1>2. \A i, j \in 1 .. N : i < j => val[s[i]] >= val[s[j]]
  <2>1. \A d \in BOOLEAN : \A i, j \in 1 .. N :
           i < j => Before(val, ord, d, Sorted(val, ord, d)[i], Sorted(val, ord, d)[j])
    BY SortedOrder
  <2>2. TRUE \in BOOLEAN
    OBVIOUS
  <2>3. \A i, j \in 1 .. N : i < j => Before(val, ord, TRUE, Sorted(val, ord, TRUE)[i], Sorted(val, ord, TRUE)[j])
    BY <2>1, <2>2, Zenon
  <2>4. \A x, y \in DOMAIN val : Before(val, ord, TRUE, x, y) => val[x] >= val[y]
    BY DEF Before, Sortable
  <2> HIDE DEF N
  <2>5. QED
    BY <2>3, <2>4, <1>1
<1>3. IsFiniteSet(DOMAIN val) /\ \A x \in DOMAIN val : val[x] \in Int
  BY DEF Sortable
<1> HIDE DEF s, N
<1>4. Ranks(s, val)
  BY <1>1, <1>2, <1>3 DEF Ranks, N
<1>5. QED
  BY <1>4 DEF s

\* Where a list names some, and who of them has more than v, or as much.
PlacesOf(s, ours)     == {j \in DOMAIN s : s[j] \in ours}
BelowIn(P, r)         == {j \in P : j < r}
Over(val, ours, v)    == {x \in ours : val[x] > v}
AtLeastIn(val, ours, v) == {x \in ours : val[x] >= v}

\* Some of the entries of a ranking, and their ranks among themselves.
LEMMA RankAmongOurs ==
  ASSUME NEW val, NEW s, Ranks(s, val), NEW ours, ours \subseteq DOMAIN val, NEW c \in ours
  PROVE  LET below == BelowIn(PlacesOf(s, ours), Rank(s, c))
         IN  /\ Cardinality(PlacesOf(s, ours)) = Cardinality(ours)
             /\ Cardinality(below) \in Nat /\ 1 + Cardinality(below) <= Rank(s, c)
             /\ Cardinality(Over(val, ours, val[c])) \in Nat
             /\ Cardinality(Over(val, ours, val[c])) <= Cardinality(below)
             /\ 1 + Cardinality(below) <= Cardinality(AtLeastIn(val, ours, val[c]))
<1> DEFINE N     == Cardinality(DOMAIN val)
           P     == {j \in DOMAIN s : s[j] \in ours}
           r     == Rank(s, c)
           below == {j \in P : j < r}
           rank  == [x \in ours |-> Rank(s, x)]
           more  == {x \in ours : val[x] > val[c]}
           least == {x \in ours : val[x] >= val[c]}
<1>1. /\ DOMAIN s = 1 .. N /\ N \in Nat
      /\ \A i \in 1 .. N : s[i] \in DOMAIN val
      /\ \A x \in DOMAIN val : Rank(s, x) \in 1 .. N /\ s[Rank(s, x)] = x
      /\ \A i \in 1 .. N : Rank(s, s[i]) = i
  BY DEF Ranks
<1>2. \A i, j \in 1 .. N : i < j => val[s[i]] >= val[s[j]]
  BY DEF Ranks
<1>3. IsFiniteSet(ours) /\ \A x \in ours : val[x] \in Int
  BY FS_Subset DEF Ranks
<1> HIDE DEF N
<1>4. /\ r \in P /\ s[r] = c /\ r \in 1 .. N
      /\ \A x \in ours : Rank(s, x) \in P /\ s[Rank(s, x)] = x
      /\ P \subseteq 1 .. N
  BY <1>1
<1>5. IsFiniteSet(P) /\ P \subseteq Nat
  <2>1. IsFiniteSet(1 .. N)
    BY <1>1, FS_Interval
  <2>2. P \in SUBSET (1 .. N) /\ 1 .. N \subseteq Nat
    BY <1>1, <1>4
  <2> HIDE DEF P
  <2>3. QED
    BY <2>1, <2>2, FS_Subset
<1>6. Cardinality(P) = Cardinality(ours)
  <2>1. \A j \in P : s[j] \in ours
    OBVIOUS
  <2>2. \A i, j \in P : s[i] = s[j] => i = j
    BY <1>1, <1>4
  <2>3. \A x \in ours : rank[x] \in P
    BY <1>4
  <2>4. \A x, y \in ours : rank[x] = rank[y] => x = y
    BY <1>4
  <2> HIDE DEF P, rank
  <2>5. Cardinality(P) \in Nat /\ Cardinality(P) <= Cardinality(ours)
    BY <2>1, <2>2, <1>3, NoLarger
  <2>6. Cardinality(ours) \in Nat /\ Cardinality(ours) <= Cardinality(P)
    BY <2>3, <2>4, <1>5, NoLarger
  <2>7. QED
    BY <2>5, <2>6
<1> HIDE DEF r
<1>7. IsFiniteSet(below) /\ Cardinality(below) \in Nat
  BY <1>5, FS_Subset, FS_CardinalityType
<1>8. 1 + Cardinality(below) <= r
  <2>1. below \subseteq 1 .. r - 1
    BY <1>4
  <2>2. IsFiniteSet(1 .. r - 1) /\ Cardinality(1 .. r - 1) = r - 1
    <3>1. r - 1 \in Int /\ r - 1 >= 0
      BY <1>4, <1>1
    <3>2. IsFiniteSet(1 .. r - 1) /\ Cardinality(1 .. r - 1) = IF 1 > r - 1 THEN 0 ELSE (r - 1) - 1 + 1
      BY <3>1, FS_Interval
    <3>3. QED
      BY <3>1, <3>2
  <2> HIDE DEF below
  <2>3. Cardinality(below) <= r - 1
    <3>1. Cardinality(below) <= Cardinality(1 .. r - 1)
      BY <2>1, <2>2, FS_Subset
    <3>2. QED
      BY <2>2, <3>1
  <2>4. QED
    BY <2>3, <1>7, <1>4, <1>1
<1>9. Cardinality(more) \in Nat /\ Cardinality(more) <= Cardinality(below)
  <2>1. ASSUME NEW x \in more PROVE rank[x] \in below
    <3>1. x \in ours /\ val[x] > val[c] /\ rank[x] = Rank(s, x)
      BY <2>1
    <3>2. rank[x] \in P /\ s[rank[x]] = x
      BY <3>1, <1>4
    <3>3. rank[x] < r
      <4>1. rank[x] \in 1 .. N /\ r \in 1 .. N
        BY <3>2, <1>4
      <4>2. ~(r < rank[x]) /\ r # rank[x]
        BY <4>1, <3>1, <3>2, <1>2, <1>3, <1>4
      <4> HIDE DEF rank
      <4>3. QED
        BY <4>1, <4>2, <1>1
    <3>4. QED
      BY <3>2, <3>3
  <2>2. \A x, y \in more : rank[x] = rank[y] => x = y
    BY <1>4
  <2>3. IsFiniteSet(more)
    BY <1>3, FS_Subset
  <2> HIDE DEF more, below, rank
  <2>4. QED
    BY <2>1, <2>2, <2>3, <1>7, NoLarger
<1>10. 1 + Cardinality(below) <= Cardinality(least)
  <2> DEFINE upto == below \cup {r}
  <2>1. Cardinality(upto) = 1 + Cardinality(below)
    <3>1. r \notin below
      BY <1>4
    <3> HIDE DEF below
    <3>2. Cardinality(below \cup {r}) = Cardinality(below) + 1
      BY <3>1, <1>7, FS_AddElement
    <3>3. QED
      BY <3>2, <1>7
  <2>2. ASSUME NEW j \in upto PROVE s[j] \in least
    <3>1. j \in P /\ (j < r \/ j = r) /\ s[j] \in ours
      BY <1>4
    <3>2. j < r => val[s[j]] >= val[c]
      BY <3>1, <1>2, <1>4
    <3>3. j = r => val[s[j]] >= val[c]
      BY <1>3, <1>4
    <3>4. QED
      BY <3>1, <3>2, <3>3
  <2>3. \A i, j \in upto : s[i] = s[j] => i = j
    BY <1>1, <1>4
  <2>4. IsFiniteSet(least)
    BY <1>3, FS_Subset
  <2> HIDE DEF upto, least, below
  <2>5. Cardinality(upto) <= Cardinality(least)
    BY <2>2, <2>3, <2>4, NoLarger
  <2>6. QED
    BY <2>1, <2>5
<1>11. QED
  BY <1>6, <1>7, <1>8, <1>9, <1>10 DEF r, PlacesOf, BelowIn, Over, AtLeastIn

\* The chiefs of a factory, in the order of their ranking.
LEMMA FactoryListed ==
  ASSUME NEW val, NEW ord, Sortable(val, ord), NEW c
  PROVE  LET s    == Sorted(val, ord, TRUE)
             P    == {j \in DOMAIN s : s[j] \in FactoryChiefs(c)}
             list == _factory_ranked(s, c)
             kept == Sorted([i \in P |-> i], [i \in P |-> i], FALSE)
         IN  /\ IsFiniteSet(P) /\ P \subseteq Nat
             /\ kept \in [1 .. Cardinality(P) -> P] /\ Cardinality(P) \in Nat
             /\ \A n \in 1 .. Cardinality(P) : n = 1 + Cardinality({j \in P : j < kept[n]})
             /\ list = [n \in 1 .. Cardinality(P) |-> s[kept[n]]]
             /\ \A n \in DOMAIN list : list[n] \in DOMAIN val /\ list[n] \in FactoryChiefs(c)
<1> DEFINE s    == Sorted(val, ord, TRUE)
           P    == {j \in DOMAIN s : s[j] \in FactoryChiefs(c)}
           list == _factory_ranked(s, c)
           kept == Sorted([i \in P |-> i], [i \in P |-> i], FALSE)
           K    == Cardinality(P)
<1>1. /\ DOMAIN s = 1 .. Cardinality(DOMAIN val) /\ Cardinality(DOMAIN val) \in Nat
      /\ \A i \in DOMAIN s : s[i] \in DOMAIN val
  BY RankDown
<1>2. list = [n \in DOMAIN kept |-> s[kept[n]]]
  BY DEF _factory_ranked
<1> HIDE DEF s
<1>3. IsFiniteSet(P) /\ P \subseteq Nat
  <2>1. IsFiniteSet(1 .. Cardinality(DOMAIN val))
    BY <1>1, FS_Interval
  <2>2. P \in SUBSET (1 .. Cardinality(DOMAIN val)) /\ 1 .. Cardinality(DOMAIN val) \subseteq Nat
    BY <1>1
  <2> HIDE DEF P
  <2>3. QED
    BY <2>1, <2>2, FS_Subset
<1>4. \A j \in P : s[j] \in DOMAIN val /\ s[j] \in FactoryChiefs(c)
  BY <1>1
<1> HIDE DEF P, list
<1>5. /\ kept \in [1 .. K -> P] /\ K \in Nat
      /\ \A n \in 1 .. K : n = 1 + Cardinality({j \in P : j < kept[n]})
  BY <1>3, OwnOrder
<1> HIDE DEF kept, K
<1>6. list = [n \in 1 .. K |-> s[kept[n]]] /\ \A n \in 1 .. K : kept[n] \in P
  BY <1>2, <1>5
<1>7. \A n \in DOMAIN list : list[n] \in DOMAIN val /\ list[n] \in FactoryChiefs(c)
  BY <1>4, <1>6
<1>8. QED
  BY <1>3, <1>5, <1>6, <1>7 DEF s, P, list, kept, K

\* A chief's page, made of the teams of all chiefs.
LEMMA ChiefDetailStands ==
  ASSUME NEW teams, NEW ord, Sortable(Totals(teams), ord), NEW c, c \in DOMAIN teams,
         \A x \in DOMAIN teams : teams[x].total \in Nat
  PROVE  LET a    == ChiefDetail(c, teams, ord)
             ours == DOMAIN teams \cap FactoryChiefs(c)
         IN  a.factory_rank > 0 =>
               /\ a.factory_total = Cardinality(ours)
               /\ a.factory_rank <= a.company_rank
               /\ Cardinality({x \in ours : teams[x].total > a.total}) < a.factory_rank
               /\ a.factory_rank <= Cardinality({x \in ours : teams[x].total >= a.total})
<1> DEFINE a     == ChiefDetail(c, teams, ord)
           ours  == DOMAIN teams \cap FactoryChiefs(c)
           val   == Totals(teams)
           s     == Sorted(val, ord, TRUE)
           P     == {j \in DOMAIN s : s[j] \in FactoryChiefs(c)}
           kept  == Sorted([i \in P |-> i], [i \in P |-> i], FALSE)
           list  == _factory_ranked(s, c)
           K     == Cardinality(P)
<1>1. /\ a.total = teams[c].total /\ a.company_rank = Rank(s, c)
      /\ a.factory_rank = Rank(list, c) /\ a.factory_total = Len(list)
  BY DEF ChiefDetail, TeamOf
<1>2. val = [x \in DOMAIN teams |-> teams[x].total]
  BY TableIs DEF Totals
<1>3. /\ \A i \in DOMAIN s : s[i] \in DOMAIN val
      /\ \A i \in DOMAIN s : Rank(s, s[i]) = i
  BY RankDown
<1>4. P = {j \in DOMAIN s : s[j] \in ours}
  BY <1>2, <1>3
<1>5. /\ IsFiniteSet(P) /\ P \subseteq Nat
      /\ kept \in [1 .. K -> P] /\ K \in Nat
      /\ \A n \in 1 .. K : n = 1 + Cardinality({j \in P : j < kept[n]})
      /\ list = [n \in 1 .. K |-> s[kept[n]]]
      /\ \A n \in DOMAIN list : list[n] \in DOMAIN val /\ list[n] \in FactoryChiefs(c)
  <2>1. Sortable(val, ord)
    OBVIOUS
  <2> HIDE DEF val
  <2>2. QED
    BY <2>1, FactoryListed, Zenon
<1> HIDE DEF a, val, s, K, P
<1> SUFFICES ASSUME a.factory_rank > 0
             PROVE  /\ a.factory_total = Cardinality(ours)
                    /\ a.factory_rank <= a.company_rank
                    /\ Cardinality({x \in ours : teams[x].total > a.total}) < a.factory_rank
                    /\ a.factory_rank <= Cardinality({x \in ours : teams[x].total >= a.total})
  BY DEF a
<1> HIDE DEF list, kept
<1>6. Rank(list, c) \in DOMAIN list /\ list[Rank(list, c)] = c
  <2>1. \E i \in DOMAIN list : list[i] = c
    BY <1>1 DEF Rank
  <2>2. Rank(list, c) = CHOOSE i \in DOMAIN list : list[i] = c
    BY <2>1 DEF Rank
  <2>3. QED
    BY <2>1, <2>2
<1> DEFINE n == Rank(list, c)
<1> HIDE DEF n
<1>7. n \in 1 .. K /\ s[kept[n]] = c
  BY <1>5, <1>6 DEF n
<1>8. c \in ours
  BY <1>5, <1>6
<1> DEFINE below == {j \in P : j < Rank(s, c)}
           more  == {x \in ours : teams[x].total > teams[c].total}
           least == {x \in ours : teams[x].total >= teams[c].total}
<1>9. /\ K = Cardinality(ours)
      /\ Cardinality(below) \in Nat /\ 1 + Cardinality(below) <= Rank(s, c)
      /\ Cardinality(more) \in Nat /\ Cardinality(more) <= Cardinality(below)
      /\ 1 + Cardinality(below) <= Cardinality(least)
  <2>1. Ranks(s, val) /\ ours \subseteq DOMAIN val
    BY <1>2, SortedRanks DEF val, s
  <2> DEFINE Q == PlacesOf(s, ours)
  <2>2. /\ Cardinality(Q) = Cardinality(ours)
        /\ Cardinality(BelowIn(Q, Rank(s, c))) \in Nat /\ 1 + Cardinality(BelowIn(Q, Rank(s, c))) <= Rank(s, c)
        /\ Cardinality(Over(val, ours, val[c])) \in Nat
        /\ Cardinality(Over(val, ours, val[c])) <= Cardinality(BelowIn(Q, Rank(s, c)))
        /\ 1 + Cardinality(BelowIn(Q, Rank(s, c))) <= Cardinality(AtLeastIn(val, ours, val[c]))
    <3> HIDE DEF ours
    <3>1. QED
      BY <2>1, <1>8, RankAmongOurs
  <2>3. Over(val, ours, val[c]) = more /\ AtLeastIn(val, ours, val[c]) = least
    BY <1>2, <1>8 DEF Over, AtLeastIn
  <2>4. Q = P /\ BelowIn(P, Rank(s, c)) = below
    BY <1>4 DEF PlacesOf, BelowIn, P
  <2> HIDE DEF Q, more, least, below, ours
  <2>5. QED
    BY <2>2, <2>3, <2>4 DEF K
<1>11. kept[n] = Rank(s, c)
  <2>1. kept[n] \in P
    BY <1>5, <1>7
  <2>2. kept[n] \in DOMAIN s
    BY <2>1 DEF P
  <2>3. QED
    BY <2>2, <1>3, <1>7
<1>12. n = 1 + Cardinality(below)
  BY <1>5, <1>7, <1>11
<1>13. Len(list) = K
  BY <1>5
<1> HIDE DEF below, more, least, ours
<1>14. /\ Len(list) = Cardinality(ours) /\ n <= Rank(s, c)
       /\ Cardinality(more) < n /\ n <= Cardinality(least)
  BY <1>9, <1>12, <1>13
<1>15. QED
  BY <1>1, <1>14 DEF n, more, least

\* The chiefs with records are finitely many.
LEMMA ChiefTeamsAre ==
  ASSUME NEW see, NEW again, NEW db, NEW G, NEW ord \in Orders
  PROVE  LET teams == chief_team_scores(see, again, db, G)
         IN  /\ \A x \in DOMAIN teams : teams[x].total \in Nat
             /\ Sortable(Totals(teams), ord)
<1> DEFINE chiefs  == chief_scores(see, G)
           members == Members(db, G)
           teams   == chief_team_scores(see, again, db, G)
           employ  == {PlantChief[Workers[i].plant] : i \in DOMAIN Workers}
<1>1. /\ DOMAIN teams = {m[1] : m \in members}
      /\ \A x \in DOMAIN teams : teams[x].total = IF x \in DOMAIN chiefs THEN chiefs[x].total ELSE 0
  <2> DEFINE foremen == foreman_scores(again, G)
             team(c) == [total    |-> IF c \in DOMAIN chiefs THEN chiefs[c].total ELSE 0,
                         reliable |-> c \in DOMAIN chiefs /\ chiefs[c].reliable,
                         foremen  |-> [f \in {m[2] : m \in {n \in members : n[1] = c}} \cap DOMAIN foremen |->
                                         foremen[f]]]
  <2>1. teams = Teams(chiefs, foremen, members)
    BY DEF chief_team_scores
  <2> HIDE DEF chiefs, foremen, members, teams
  <2>2. teams = [c \in {m[1] : m \in members} |-> team(c)]
    BY <2>1, TableIs DEF Teams
  <2>3. \A c : team(c).total = IF c \in DOMAIN chiefs THEN chiefs[c].total ELSE 0
    OBVIOUS
  <2> HIDE DEF team
  <2>4. QED
    BY <2>2, <2>3
<1>2. \A x \in DOMAIN chiefs : chiefs[x].total \in 0 .. 120
  <2> DEFINE per == [k \in Kpis |-> _unwrap_single(_kpi_period_scores_multi(see, G, k, <<"chief">>))]
  <2>1. chiefs = Combined(per, G)
    BY TableIs DEF chief_scores, _grouped_scores
  <2> HIDE DEF per
  <2>2. \A x \in DOMAIN Combined(per, G) : Combined(per, G)[x].total \in 0 .. 120
    <3> DEFINE keys   == UNION {DOMAIN per[k] : k \in Kpis}
               of(g)  == [k \in {j \in Kpis : g \in DOMAIN per[j]} |-> per[k][g]]
    <3>1. Combined(per, G) = [g \in keys |-> _combine_group(of(g), active_kpi_weight_sum(G))]
      BY TableIs DEF Combined
    <3> HIDE DEF keys, of
    <3>2. \A g : _combine_group(of(g), active_kpi_weight_sum(G)).total \in 0 .. 120
      BY CombinedIs
    <3>3. QED
      BY <3>1, <3>2
  <2>3. QED
    BY <2>1, <2>2
<1> HIDE DEF chiefs
<1>3. \A x \in DOMAIN teams : teams[x].total \in Nat
  <2> HIDE DEF teams
  <2>1. \A t \in 0 .. 120 : t \in Nat
    OBVIOUS
  <2>2. QED
    BY <1>1, <1>2, <2>1
<1>4. \A m \in members : m[1] \in employ
  <2>1. \A c \in Cells : Column("chief", c) = PlantChief[Workers[c[1]].plant] /\ c[1] \in DOMAIN Workers
    BY DEF Column, Cells
  <2>2. \A m \in members : \E c \in Cells : m[1] = Column("chief", c)
    BY DEF Members
  <2>3. QED
    BY <2>1, <2>2
<1>5. IsFiniteSet(employ)
  <2> DEFINE g == [i \in DOMAIN Workers |-> PlantChief[Workers[i].plant]]
  <2>1. g \in Surjection(DOMAIN Workers, employ)
    BY DEF Surjection
  <2>2. IsFiniteSet(DOMAIN Workers)
    BY ViewsAssumption
  <2> HIDE DEF g
  <2>3. QED
    BY <2>1, <2>2, FS_Surjection
<1>6. DOMAIN teams \subseteq employ
  BY <1>1, <1>4
<1>7. employ \subseteq Chiefs
  BY ViewsAssumption DEF Chiefs
<1>8. \A x, y \in Chiefs : ord[x] \in Int /\ (ord[x] = ord[y] => x = y)
  BY ViewsAssumption
<1> HIDE DEF teams, employ
<1>9. IsFiniteSet(DOMAIN teams)
  BY <1>5, <1>6, FS_Subset
<1>10. Totals(teams) = [x \in DOMAIN teams |-> teams[x].total]
  BY TableIs DEF Totals
<1>11. Sortable(Totals(teams), ord)
  BY <1>3, <1>6, <1>7, <1>8, <1>9, <1>10 DEF Sortable
<1>12. QED
  BY <1>3, <1>11 DEF teams

\* A chief's place in his factory is never worse than in the company.
THEOREM FactoryRankInFactoryCorrect == ViewsSpec => []FactoryRankInFactory
<1>1. ASSUME ViewsInv, Answered({"chief"}), shown.answer.factory_rank > 0 PROVE FactoryRankInFactory
  <2>1. shown.page = "chief" /\ shown \notin {NotYet, Refused}
    BY <1>1 DEF Answered, NotYet, Refused, None
  <2>2. req.page = "chief"
    BY <1>1, <2>1 DEF ViewsInv, ViewsTypeOK
  <2>3. shown.ord \in Orders /\ shown.answer = Page(req, Seen, shown.ord)
    BY <1>1, <2>1, <2>2, SeenAre
  <2>4. shown.answer = get_chief(Seen, req.id, F, shown.ord)
    <3>1. req.page \in OfAChief
      BY <2>2 DEF OfAChief
    <3>2. Page(req, Seen, shown.ord) = ChiefPages(req, Seen, shown.ord)
      BY <3>1, PageIs
    <3>3. QED
      BY <2>2, <2>3, <3>2 DEF ChiefPages, F
  <2> DEFINE teams == chief_team_scores(Call(Seen, 1), Call(Seen, 4), Seen[7], resolve_chief_scope(F))
             a     == ChiefDetail(req.id, teams, shown.ord)
  <2>5. shown.answer = a
    BY <2>4 DEF get_chief
  <2>6. (\A x \in DOMAIN teams : teams[x].total \in Nat) /\ Sortable(Totals(teams), shown.ord)
    BY <2>3, ChiefTeamsAre
  <2> HIDE DEF teams
  <2>7. req.id \in DOMAIN teams
    <3>1. SUFFICES ASSUME req.id \notin DOMAIN teams PROVE FALSE
      OBVIOUS
    <3> DEFINE s == Sorted(Totals(teams), shown.ord, TRUE)
               list == _factory_ranked(s, req.id)
    <3>2. a.factory_rank = Rank(list, req.id)
      BY DEF ChiefDetail
    <3> HIDE DEF a
    <3>3. \E i \in DOMAIN list : list[i] = req.id
      <4>1. Rank(list, req.id) > 0
        BY <1>1, <2>5, <3>2
      <4> HIDE DEF list
      <4>2. QED
        BY <4>1 DEF Rank
    <3>4. \A i \in DOMAIN list : list[i] \in DOMAIN Totals(teams)
      BY <2>6, FactoryListed
    <3>5. DOMAIN Totals(teams) = DOMAIN teams
      BY TableIs DEF Totals
    <3>6. QED
      BY <3>1, <3>3, <3>4, <3>5
  <2> DEFINE ours == DOMAIN teams \cap FactoryChiefs(req.id)
  <2>8. a.factory_rank > 0 =>
               /\ a.factory_total = Cardinality(ours)
               /\ a.factory_rank <= a.company_rank
               /\ Cardinality({x \in ours : teams[x].total > a.total}) < a.factory_rank
               /\ a.factory_rank <= Cardinality({x \in ours : teams[x].total >= a.total})
    BY <2>6, <2>7, ChiefDetailStands
  <2> HIDE DEF a
  <2>9. QED
    BY <1>1, <2>5, <2>8 DEF FactoryRankInFactory, teams
<1>2. ViewsInv => FactoryRankInFactory
  <2>1. ~(Answered({"chief"}) /\ shown.answer.factory_rank > 0) => FactoryRankInFactory
    BY DEF FactoryRankInFactory
  <2>2. QED
    BY <1>1, <2>1
<1>3. QED
  BY <1>2, ViewsInvariantCorrect, PTL

-----------------------------------------------------------------------------
(* The scores of one database, group by group.                             *)

\* The groups, the rows of one, and what is made of them.
KeysOf(db, G, k, cols) == {_group_key(cols, x) : x \in COMPLETE(db, G, k)}
RowsOf(db, G, k, cols, g) == {x \in COMPLETE(db, G, k) : _group_key(cols, x) = g}
GroupScore(db, k, S) == [score |-> KpiScore(k, Sums(db.rows, S)), count |-> Cardinality(S)]

\* There are finitely many cells, and the complete ones have a denominator.
LEMMA CellsAre ==
  /\ IsFiniteSet(Cells)
  /\ \A x \in Cells : x[1] \in DOMAIN Workers /\ x[2] \in Kpis /\ x[3] \in 1 .. Months
  /\ \A db \in Databases : \A x \in Cells : /\ db.rows[x].num \in Nat /\ db.rows[x].den \in Nat
                                            /\ db.rows[x].status = "COMPLETE" => db.rows[x].den > 0
  /\ \A db, G, k : COMPLETE(db, G, k) \subseteq Cells
<1>1. IsFiniteSet(Cells)
  <2> DEFINE D == DOMAIN Workers
             M == 1 .. Months
             flat == [x \in Cells |-> <<<<x[1], x[2]>>, x[3]>>]
  <2>1. IsFiniteSet(D) /\ IsFiniteSet(Kpis) /\ IsFiniteSet(M)
    <3>1. IsFiniteSet(D)
      BY ViewsAssumption
    <3>2. IsFiniteSet(Kpis)
      <4>1. IsFiniteSet({"GSF"} \cup {"AGIR_GITME"})
        BY FS_Singleton, FS_Union
      <4>2. Kpis = {"GSF"} \cup {"AGIR_GITME"}
        BY ViewsAssumption
      <4>3. QED
        BY <4>1, <4>2
    <3>3. IsFiniteSet(M)
      BY FS_Interval, ViewsAssumption
    <3>4. QED
      BY <3>1, <3>2, <3>3
  <2>2. Cells = D \X Kpis \X M
    BY DEF Cells
  <2> HIDE DEF D, M
  <2>3. IsFiniteSet((D \X Kpis) \X M)
    <3>1. IsFiniteSet(D \X Kpis)
      BY <2>1, FS_Product
    <3> HIDE DEF D
    <3>2. QED
      BY <3>1, <2>1, FS_Product
  <2>4. flat \in Injection(Cells, (D \X Kpis) \X M)
    BY <2>2 DEF Injection, IsInjective
  <2>5. QED
    BY <2>3, <2>4, FS_Injection
<1>2. \A x \in Cells : x[1] \in DOMAIN Workers /\ x[2] \in Kpis /\ x[3] \in 1 .. Months
  BY DEF Cells
<1>3. \A db \in Databases : \A x \in Cells : /\ db.rows[x].num \in Nat /\ db.rows[x].den \in Nat
                                             /\ db.rows[x].status = "COMPLETE" => db.rows[x].den > 0
  BY DEF Databases, Readings
<1>4. \A db, G, k : COMPLETE(db, G, k) \subseteq Cells
  BY DEF COMPLETE
<1>5. QED
  BY <1>1, <1>2, <1>3, <1>4

\* A group that has a row has a denominator.
LEMMA SumsAre ==
  ASSUME NEW db \in Databases, NEW G, NEW k, NEW S \in SUBSET COMPLETE(db, G, k)
  PROVE  /\ Sums(db.rows, S).num \in Nat /\ Sums(db.rows, S).den \in Nat
         /\ Sums(db.rows, S).count = Cardinality(S) /\ Cardinality(S) \in Nat
         /\ S # {} => Sums(db.rows, S).den > 0 /\ Cardinality(S) > 0
<1> DEFINE num == [x \in S |-> db.rows[x].num]
           den == [x \in S |-> db.rows[x].den]
<1>1. IsFiniteSet(S) /\ \A x \in S : num[x] \in Nat /\ den[x] \in Nat \ {0}
  <2>1. S \in SUBSET Cells /\ \A x \in S : db.rows[x].status = "COMPLETE"
    BY DEF COMPLETE
  <2>2. IsFiniteSet(S)
    BY <2>1, CellsAre, FS_Subset
  <2>3. QED
    BY <2>1, <2>2, CellsAre
<1>2. Sums(db.rows, S).num = Total(num, S) /\ Sums(db.rows, S).den = Total(den, S)
  BY SumOverIs DEF Sums
<1>3. Sums(db.rows, S).count = Cardinality(S) /\ Cardinality(S) \in Nat
  BY <1>1, FS_CardinalityType DEF Sums
<1> HIDE DEF num, den
<1>4. Total(num, S) \in Nat /\ Total(den, S) \in Nat
  BY <1>1, TotalNat
<1>5. S # {} => Total(den, S) \in Nat \ {0}
  BY <1>1, TotalPositive
<1>6. S # {} => Cardinality(S) > 0
  BY <1>1, <1>3, FS_EmptySet
<1>7. QED
  BY <1>2, <1>3, <1>4, <1>5, <1>6

\* The scores of a call that saw one database.
LEMMA GroupScoresAre ==
  ASSUME NEW db \in Databases, NEW G, NEW k, NEW cols
  PROVE  LET d == _kpi_period_scores_multi(Once(db), G, k, cols)
         IN  /\ DOMAIN d = KeysOf(db, G, k, cols)
             /\ \A g \in DOMAIN d : /\ RowsOf(db, G, k, cols, g) # {}
                                    /\ d[g] = GroupScore(db, k, RowsOf(db, G, k, cols, g))
<1> DEFINE d     == _kpi_period_scores_multi(Once(db), G, k, cols)
           S     == COMPLETE(db, G, k)
           keys  == {_group_key(cols, x) : x \in S}
           stats == _kpi_period_stats_multi(db, G, k, cols)
           sums(g) == Sums(db.rows, RowsOf(db, G, k, cols, g))
<1>1. d = ScoresOf(k, stats, stats)
  <2>1. Once(db)[1] = db /\ Once(db)[2] = db /\ Once(db)[3] = db
    BY DEF Once
  <2>2. (IF k = "GSF" THEN Once(db)[1] ELSE Once(db)[2]) = db
    BY <2>1
  <2>3. QED
    BY <2>1, <2>2 DEF _kpi_period_scores_multi
<1>2. stats = [g \in keys |-> sums(g)]
  BY TableIs DEF _kpi_period_stats_multi, GroupBy, RowsOf
<1>3. \A g \in keys : RowsOf(db, G, k, cols, g) # {} /\ RowsOf(db, G, k, cols, g) \in SUBSET S
  BY DEF RowsOf
<1>4. \A g \in keys : /\ sums(g).den > 0 /\ sums(g).count = Cardinality(RowsOf(db, G, k, cols, g))
  BY <1>3, SumsAre
<1> HIDE DEF stats, keys, sums, S
<1>5. {h \in DOMAIN stats : stats[h].den > 0} = keys
  BY <1>2, <1>4
<1>6. \A g \in keys : RatioOf(stats, g) = sums(g)
  BY <1>2, <1>4 DEF RatioOf
<1>7. d = [g \in {h \in DOMAIN stats : stats[h].den > 0} |->
             [score |-> KpiScore(k, IF k = "GSF" THEN stats[g] ELSE RatioOf(stats, g)),
              count |-> stats[g].count]]
  BY <1>1, TableIs DEF ScoresOf
<1> HIDE DEF d
<1>8. DOMAIN d = keys
  BY <1>5, <1>7
<1>9. \A g \in keys : d[g] = [score |-> KpiScore(k, sums(g)), count |-> Cardinality(RowsOf(db, G, k, cols, g))]
  <2>1. \A g \in keys : stats[g] = sums(g) /\ RatioOf(stats, g) = sums(g)
    BY <1>2, <1>6
  <2>2. QED
    BY <1>4, <1>5, <1>7, <2>1
<1>10. QED
  BY <1>3, <1>8, <1>9 DEF d, sums, keys, S, GroupScore, KeysOf

\* Keys of one and of two columns.
LEMMA KeysAre ==
  /\ \A col, x : _group_key(<<col>>, x) = <<Column(col, x)>>
  /\ \A a, b, x : _group_key(<<a, b>>, x) = <<Column(a, x), Column(b, x)>>
  /\ \A x : _group_key(<<>>, x) = <<>>
<1>1. ASSUME NEW col, NEW x PROVE _group_key(<<col>>, x) = <<Column(col, x)>>
  <2>1. _group_key(<<col>>, x) = [i \in 1 .. 1 |-> Column(<<col>>[i], x)]
    BY DEF _group_key
  <2>2. \A i \in 1 .. 1 : i = 1
    OBVIOUS
  <2>3. QED
    BY <2>1, <2>2
<1>2. ASSUME NEW a, NEW b, NEW x PROVE _group_key(<<a, b>>, x) = <<Column(a, x), Column(b, x)>>
  <2>1. _group_key(<<a, b>>, x) = [i \in 1 .. 2 |-> Column(<<a, b>>[i], x)]
    BY DEF _group_key
  <2>2. \A i \in 1 .. 2 : i = 1 \/ i = 2
    OBVIOUS
  <2>3. QED
    BY <2>1, <2>2
<1>3. ASSUME NEW x PROVE _group_key(<<>>, x) = <<>>
  BY DEF _group_key
<1>4. QED
  BY <1>1, <1>2, <1>3

\* The KPIs a foreman was measured on, with his score of each.
PartsOf(see, G, f) ==
  [k \in {j \in Kpis : f \in DOMAIN _foreman_plant_kpi_entries(see, G, j)} |->
     _foreman_plant_kpi_entries(see, G, k)[f]]

\* A foreman has a score when he was measured on a KPI, and it is made of them.
LEMMA ForemanMadeOf ==
  ASSUME NEW see, NEW G
  PROVE  /\ \A f : f \in DOMAIN foreman_scores(see, G)
                     <=> \E k \in Kpis : f \in DOMAIN _foreman_plant_kpi_entries(see, G, k)
         /\ \A f \in DOMAIN foreman_scores(see, G) :
              foreman_scores(see, G)[f] = _combine_group(PartsOf(see, G, f), active_kpi_weight_sum(G))
<1> DEFINE per    == [k \in Kpis |-> _foreman_plant_kpi_entries(see, G, k)]
           keys   == UNION {DOMAIN per[k] : k \in Kpis}
           of(g)  == [k \in {j \in Kpis : g \in DOMAIN per[j]} |-> per[k][g]]
<1>1. foreman_scores(see, G) = [g \in keys |-> _combine_group(of(g), active_kpi_weight_sum(G))]
  <2>1. foreman_scores(see, G) = Combined(per, G)
    BY TableIs DEF foreman_scores
  <2> HIDE DEF per
  <2>2. QED
    BY <2>1, TableIs DEF Combined
<1>2. \A g : of(g) = PartsOf(see, G, g)
  <2>1. \A k \in Kpis : per[k] = _foreman_plant_kpi_entries(see, G, k)
    OBVIOUS
  <2> HIDE DEF per
  <2>2. QED
    BY <2>1 DEF PartsOf
<1>3. \A f : f \in keys <=> \E k \in Kpis : f \in DOMAIN _foreman_plant_kpi_entries(see, G, k)
  OBVIOUS
<1> HIDE DEF keys, of, per
<1>4. QED
  BY <1>1, <1>2, <1>3

\* The groups of one column on one database.
LEMMA GroupedAre ==
  ASSUME NEW db \in Databases, NEW G, NEW col
  PROVE  LET scores     == _grouped_scores(Once(db), G, col)
             rows(k, g) == RowsOf(db, G, k, <<col>>, <<g>>)
         IN  /\ \A g : g \in DOMAIN scores <=> \E k \in Kpis : rows(k, g) # {}
             /\ \A g \in DOMAIN scores :
                  scores[g] = _combine_group([k \in {j \in Kpis : rows(j, g) # {}} |-> GroupScore(db, k, rows(k, g))],
                                             active_kpi_weight_sum(G))
<1> DEFINE scores     == _grouped_scores(Once(db), G, col)
           rows(k, g) == RowsOf(db, G, k, <<col>>, <<g>>)
           d(k)       == _kpi_period_scores_multi(Once(db), G, k, <<col>>)
           per        == [k \in Kpis |-> _unwrap_single(d(k))]
           keys       == UNION {DOMAIN per[k] : k \in Kpis}
           of(g)      == [k \in {j \in Kpis : g \in DOMAIN per[j]} |-> per[k][g]]
<1>1. \A k : \A g : <<g>> \in DOMAIN d(k) <=> rows(k, g) # {}
  <2> SUFFICES ASSUME NEW k, NEW g PROVE <<g>> \in DOMAIN d(k) <=> rows(k, g) # {}
    OBVIOUS
  <2>1. DOMAIN d(k) = KeysOf(db, G, k, <<col>>)
    BY GroupScoresAre
  <2> HIDE DEF d
  <2>2. QED
    BY <2>1 DEF RowsOf, KeysOf
<1>2. \A k : \A key \in DOMAIN d(k) : key = <<key[1]>>
  <2> SUFFICES ASSUME NEW k, NEW key \in DOMAIN d(k) PROVE key = <<key[1]>>
    OBVIOUS
  <2>1. DOMAIN d(k) = KeysOf(db, G, k, <<col>>)
    BY GroupScoresAre
  <2> HIDE DEF d
  <2>2. PICK x \in COMPLETE(db, G, k) : key = _group_key(<<col>>, x)
    BY <2>1 DEF KeysOf
  <2>3. key = <<Column(col, x)>>
    BY <2>2, KeysAre
  <2>4. QED
    BY <2>3
<1>3. \A k, g : <<g>> \in DOMAIN d(k) => d(k)[<<g>>] = GroupScore(db, k, rows(k, g))
  BY GroupScoresAre
<1> HIDE DEF d
<1>4. \A k \in Kpis : per[k] = [g \in {key[1] : key \in DOMAIN d(k)} |-> d(k)[<<g>>]]
  BY TableIs DEF _unwrap_single
<1> HIDE DEF rows, per
<1>5. \A k \in Kpis : \A g : g \in DOMAIN per[k] <=> rows(k, g) # {}
  <2> SUFFICES ASSUME NEW k \in Kpis, NEW g PROVE g \in DOMAIN per[k] <=> rows(k, g) # {}
    OBVIOUS
  <2>1. g \in DOMAIN per[k] <=> \E key \in DOMAIN d(k) : g = key[1]
    <3>1. DOMAIN per[k] = {key[1] : key \in DOMAIN d(k)}
      BY <1>4
    <3>2. QED
      BY <3>1
  <2>2. (\E key \in DOMAIN d(k) : g = key[1]) <=> <<g>> \in DOMAIN d(k)
    <3>1. ASSUME NEW key \in DOMAIN d(k), g = key[1] PROVE <<g>> \in DOMAIN d(k)
      BY <1>2, <3>1
    <3>2. <<g>>[1] = g
      OBVIOUS
    <3>3. QED
      BY <3>1, <3>2
  <2>3. QED
    BY <2>1, <2>2, <1>1
<1>6. \A k \in Kpis : \A g : g \in DOMAIN per[k] => per[k][g] = GroupScore(db, k, rows(k, g))
  <2> SUFFICES ASSUME NEW k \in Kpis, NEW g, g \in DOMAIN per[k] PROVE per[k][g] = GroupScore(db, k, rows(k, g))
    OBVIOUS
  <2>1. per[k][g] = d(k)[<<g>>]
    BY <1>4
  <2>2. <<g>> \in DOMAIN d(k)
    BY <1>1, <1>5
  <2>3. QED
    BY <2>1, <2>2, <1>3
<1>7. scores = [g \in keys |-> _combine_group(of(g), active_kpi_weight_sum(G))]
  <2>1. scores = Combined(per, G)
    BY TableIs DEF _grouped_scores, per, d
  <2>2. QED
    BY <2>1, TableIs DEF Combined
<1>8. \A g : of(g) = [k \in {j \in Kpis : rows(j, g) # {}} |-> GroupScore(db, k, rows(k, g))]
  <2> SUFFICES ASSUME NEW g
               PROVE  of(g) = [k \in {j \in Kpis : rows(j, g) # {}} |-> GroupScore(db, k, rows(k, g))]
    OBVIOUS
  <2>1. {j \in Kpis : g \in DOMAIN per[j]} = {j \in Kpis : rows(j, g) # {}}
    BY <1>5
  <2>2. QED
    BY <2>1, <1>5, <1>6
<1>9. \A g : g \in keys <=> \E k \in Kpis : rows(k, g) # {}
  BY <1>5
<1> HIDE DEF keys, of, scores
<1>10. /\ \A g : g \in DOMAIN scores <=> \E k \in Kpis : rows(k, g) # {}
       /\ \A g \in DOMAIN scores :
            scores[g] = _combine_group([k \in {j \in Kpis : rows(j, g) # {}} |-> GroupScore(db, k, rows(k, g))],
                                       active_kpi_weight_sum(G))
  <2>1. \A g \in DOMAIN scores : scores[g] = _combine_group(of(g), active_kpi_weight_sum(G))
    BY <1>7
  <2>2. QED
    BY <1>7, <1>8, <1>9, <2>1
<1>11. QED
  BY <1>10, Zenon DEF scores, rows

\* A score of a KPI is from 0 to 120.
LEMMA KpiScoreIs ==
  ASSUME NEW k, NEW r, r.num \in Nat, r.den \in Nat, r.den > 0
  PROVE  KpiScore(k, r) \in 0 .. 120
<1>1. CASE k = "GSF"
  <2>1. 100 * r.num \in Int /\ 0 * r.den <= 100 * r.num
    OBVIOUS
  <2>2. (100 * r.num) \div r.den \in Int /\ 0 <= (100 * r.num) \div r.den
    BY <2>1, DivBounds, DivAtLeast
  <2> DEFINE q == (100 * r.num) \div r.den
  <2>3. KpiScore(k, r) = AtMost(q, 120)
    BY <1>1 DEF KpiScore
  <2> HIDE DEF q
  <2>4. q \in Int /\ 0 <= q
    BY <2>2 DEF q
  <2>5. QED
    BY <2>3, <2>4 DEF AtMost
<1>2. CASE k # "GSF" /\ r.num <= r.den
  <2> DEFINE q == (9 * r.num) \div r.den
  <2>1. 9 * r.num \in Int /\ 0 * r.den <= 9 * r.num /\ 9 * r.num <= 9 * r.den
    BY <1>2
  <2>2. q \in Int /\ 0 <= q
    BY <2>1, DivBounds, DivAtLeast
  <2>5. q <= 9
    <3> DEFINE a == 9 * r.num
    <3> HIDE DEF a
    <3>1. a \in Int /\ a <= 9 * r.den
      BY <2>1 DEF a
    <3>2. a \div r.den <= 9
      BY <3>1, DivAtMost
    <3>3. QED
      BY <3>2 DEF a
  <2>3. KpiScore(k, r) = 109 - q
    BY <1>2 DEF KpiScore
  <2> HIDE DEF q
  <2>4. QED
    BY <2>2, <2>3, <2>5
<1>3. CASE k # "GSF" /\ ~(r.num <= r.den)
  <2> DEFINE q == (12 * (r.num - r.den)) \div r.den
  <2>1. 12 * (r.num - r.den) \in Int /\ 0 * r.den <= 12 * (r.num - r.den)
    BY <1>3
  <2>2. q \in Int /\ 0 <= q
    BY <2>1, DivBounds, DivAtLeast
  <2>3. KpiScore(k, r) = AtLeast(100 - q, 0)
    BY <1>3 DEF KpiScore
  <2> HIDE DEF q
  <2>4. QED
    BY <2>2, <2>3 DEF AtLeast
<1>4. QED
  BY <1>1, <1>2, <1>3

\* So is the score of a group.
LEMMA GroupScoreIs ==
  ASSUME NEW db \in Databases, NEW G, NEW k, NEW S \in SUBSET COMPLETE(db, G, k), S # {}
  PROVE  /\ GroupScore(db, k, S).score \in 0 .. 120
         /\ GroupScore(db, k, S).count \in Nat \ {0}
<1>1. /\ Sums(db.rows, S).num \in Nat /\ Sums(db.rows, S).den \in Nat /\ Sums(db.rows, S).den > 0
      /\ Cardinality(S) \in Nat /\ Cardinality(S) > 0
  BY SumsAre
<1> DEFINE r == Sums(db.rows, S)
<1> HIDE DEF r
<1>2. KpiScore(k, r) \in 0 .. 120
  BY <1>1, KpiScoreIs DEF r
<1>3. QED
  BY <1>1, <1>2 DEF GroupScore, r

\* What _equal_weight_plant_average makes of the groups of one member.
Average(d, x) ==
  LET entries == {key \in DOMAIN d : key[1] = x}
  IN  [score  |-> SumOver(entries, [key \in DOMAIN d |-> d[key].score]) \div Cardinality(entries),
       count  |-> SumOver(entries, [key \in DOMAIN d |-> d[key].count]),
       plants |-> [p \in {key[2] : key \in entries} |-> d[<<x, p>>].score]]

\* A foreman's entry is the average over his plants.
LEMMA AverageIs ==
  ASSUME NEW d
  PROVE  _equal_weight_plant_average(d) = [x \in {key[1] : key \in DOMAIN d} |-> Average(d, x)]
BY TableIs DEF _equal_weight_plant_average, Average

\* Groups with the same entries of a member, all naturals, have the same average of them.
LEMMA AverageSame ==
  ASSUME NEW d, NEW e, NEW x, NEW S, IsFiniteSet(S),
         S = {key \in DOMAIN d : key[1] = x}, S = {key \in DOMAIN e : key[1] = x},
         \A key \in S : key = <<key[1], key[2]>> /\ d[key] = e[key],
         \A key \in S : d[key].score \in Nat /\ d[key].count \in Nat
  PROVE  Average(d, x) = Average(e, x)
<1> DEFINE score(c) == [key \in DOMAIN c |-> c[key].score]
           count(c) == [key \in DOMAIN c |-> c[key].count]
           places   == {key[2] : key \in S}
<1>1. /\ \A key \in S : score(d)[key] \in Nat /\ score(e)[key] = score(d)[key]
      /\ \A key \in S : count(d)[key] \in Nat /\ count(e)[key] = count(d)[key]
  OBVIOUS
<1> HIDE DEF score, count
<1>2. SumOver(S, score(d)) = SumOver(S, score(e)) /\ SumOver(S, count(d)) = SumOver(S, count(e))
  <2>1. Total(score(d), S) = Total(score(e), S)
    BY <1>1, TotalEqual
  <2>2. Total(count(d), S) = Total(count(e), S)
    BY <1>1, TotalEqual
  <2>3. QED
    BY <2>1, <2>2, SumOverIs
<1>3. \A p \in places : d[<<x, p>>] = e[<<x, p>>]
  <2>1. ASSUME NEW key \in S PROVE d[<<x, key[2]>>] = e[<<x, key[2]>>]
    <3>1. key[1] = x /\ key = <<key[1], key[2]>>
      OBVIOUS
    <3>2. <<x, key[2]>> = key
      BY <3>1
    <3>3. QED
      BY <3>2
  <2>2. QED
    BY <2>1
<1> HIDE DEF places
<1>4. [p \in places |-> d[<<x, p>>].score] = [p \in places |-> e[<<x, p>>].score]
  BY <1>3
<1>5. \A c : S = {key \in DOMAIN c : key[1] = x} =>
        Average(c, x) = [score |-> SumOver(S, score(c)) \div Cardinality(S), count |-> SumOver(S, count(c)),
                         plants |-> [p \in places |-> c[<<x, p>>].score]]
  BY DEF Average, score, count, places
<1>6. QED
  BY <1>2, <1>4, <1>5

\* An average of scores is one.
LEMMA AverageWithin ==
  ASSUME NEW d, NEW x, NEW S, IsFiniteSet(S), S # {}, S = {key \in DOMAIN d : key[1] = x},
         \A key \in S : d[key].score \in 0 .. 120
  PROVE  Average(d, x).score \in 0 .. 120
<1> DEFINE score == [key \in DOMAIN d |-> d[key].score]
           n     == Cardinality(S)
           sum   == SumOver(S, score)
<1>1. \A key \in S : score[key] \in Nat /\ score[key] <= 120
  OBVIOUS
<1>2. n \in Nat \ {0}
  BY FS_CardinalityType, FS_EmptySet
<1>3. Average(d, x).score = sum \div n
  BY DEF Average
<1> HIDE DEF score, n
<1>4. sum = Total(score, S)
  BY SumOverIs
<1>5. sum \in Nat /\ sum <= 120 * n
  <2> DEFINE most == [key \in S |-> 120]
  <2>1. \A key \in S : most[key] = 120
    OBVIOUS
  <2> HIDE DEF most
  <2>2. Total(most, S) = Cardinality(S) * 120
    BY <2>1, TotalConstant
  <2>3. \A key \in S : score[key] \in Nat /\ most[key] \in Nat /\ score[key] <= most[key]
    BY <1>1, <2>1
  <2>4. Total(score, S) <= Total(most, S)
    BY <2>3, TotalOrder
  <2>5. Total(score, S) \in Nat
    BY <1>1, TotalNat
  <2>6. n = Cardinality(S)
    BY DEF n
  <2>7. QED
    BY <1>2, <1>4, <2>2, <2>4, <2>5, <2>6
<1> HIDE DEF sum
<1>6. 0 <= sum \div n /\ sum \div n <= 120 /\ sum \div n \in Int
  <2>1. 0 * n <= sum /\ sum \in Int
    BY <1>2, <1>5
  <2>2. QED
    BY <2>1, <1>2, <1>5, DivBounds, DivAtLeast, DivAtMost
<1>7. QED
  BY <1>3, <1>6

PerPlant == <<"foreman", "plant">>

\* The groups of a foreman and a plant on one database.
LEMMA PlantGroupsAre ==
  ASSUME NEW db \in Databases, NEW G, NEW k
  PROVE  LET d == _kpi_period_scores_multi(Once(db), G, k, PerPlant)
         IN  /\ IsFiniteSet(DOMAIN d)
             /\ \A key \in DOMAIN d : /\ key = <<key[1], key[2]>>
                                      /\ d[key] = GroupScore(db, k, RowsOf(db, G, k, PerPlant, key))
                                      /\ d[key].score \in 0 .. 120 /\ d[key].count \in Nat
             /\ \A key : key \in DOMAIN d <=> \E x \in COMPLETE(db, G, k) :
                            key = <<Workers[x[1]].foreman, Workers[x[1]].plant>>
             /\ \A key, x : x \in RowsOf(db, G, k, PerPlant, key)
                              <=> x \in COMPLETE(db, G, k) /\ key = <<Workers[x[1]].foreman, Workers[x[1]].plant>>
<1> DEFINE d == _kpi_period_scores_multi(Once(db), G, k, PerPlant)
<1>1. \A x : _group_key(PerPlant, x) = <<Workers[x[1]].foreman, Workers[x[1]].plant>>
  <2>1. \A x : _group_key(PerPlant, x) = <<Column("foreman", x), Column("plant", x)>>
    BY KeysAre DEF PerPlant
  <2>2. \A x : Column("foreman", x) = Workers[x[1]].foreman /\ Column("plant", x) = Workers[x[1]].plant
    BY DEF Column
  <2>3. QED
    BY <2>1, <2>2
<1>2. /\ DOMAIN d = KeysOf(db, G, k, PerPlant)
      /\ \A key \in DOMAIN d : /\ RowsOf(db, G, k, PerPlant, key) # {}
                               /\ d[key] = GroupScore(db, k, RowsOf(db, G, k, PerPlant, key))
  BY GroupScoresAre
<1> HIDE DEF d
<1>3. IsFiniteSet(DOMAIN d)
  <2> DEFINE g == [x \in COMPLETE(db, G, k) |-> _group_key(PerPlant, x)]
  <2>1. g \in Surjection(COMPLETE(db, G, k), DOMAIN d)
    BY <1>2 DEF Surjection, KeysOf
  <2>2. IsFiniteSet(COMPLETE(db, G, k))
    BY CellsAre, FS_Subset
  <2> HIDE DEF g
  <2>3. QED
    BY <2>1, <2>2, FS_Surjection
<1>4. \A key : key \in DOMAIN d <=> \E x \in COMPLETE(db, G, k) :
                 key = <<Workers[x[1]].foreman, Workers[x[1]].plant>>
  BY <1>1, <1>2 DEF KeysOf
<1>5. \A key, x : x \in RowsOf(db, G, k, PerPlant, key)
                    <=> x \in COMPLETE(db, G, k) /\ key = <<Workers[x[1]].foreman, Workers[x[1]].plant>>
  BY <1>1 DEF RowsOf
<1>6. \A key \in DOMAIN d : d[key].score \in 0 .. 120 /\ d[key].count \in Nat
  <2> SUFFICES ASSUME NEW key \in DOMAIN d PROVE d[key].score \in 0 .. 120 /\ d[key].count \in Nat
    OBVIOUS
  <2> DEFINE S == RowsOf(db, G, k, PerPlant, key)
  <2>1. S # {} /\ S \in SUBSET COMPLETE(db, G, k) /\ d[key] = GroupScore(db, k, S)
    BY <1>2 DEF RowsOf
  <2> HIDE DEF S
  <2>2. QED
    BY <2>1, GroupScoreIs
<1>7. \A key \in DOMAIN d : key = <<key[1], key[2]>>
  BY <1>4
<1>8. QED
  BY <1>2, <1>3, <1>4, <1>5, <1>6, <1>7 DEF d

\* A foreman's score of a KPI is the average of his plants.
LEMMA EntriesAre ==
  ASSUME NEW db \in Databases, NEW G, NEW k, NEW f
  PROVE  LET entries == _foreman_plant_kpi_entries(Once(db), G, k)
         IN  /\ f \in DOMAIN entries <=> \E x \in COMPLETE(db, G, k) : Workers[x[1]].foreman = f
             /\ f \in DOMAIN entries =>
                  /\ entries[f] = Average(_kpi_period_scores_multi(Once(db), G, k, PerPlant), f)
                  /\ entries[f].score \in 0 .. 120
<1> DEFINE entries == _foreman_plant_kpi_entries(Once(db), G, k)
           d       == _kpi_period_scores_multi(Once(db), G, k, PerPlant)
           S       == {key \in DOMAIN d : key[1] = f}
<1>1. entries = [x \in {key[1] : key \in DOMAIN d} |-> Average(d, x)]
  BY AverageIs DEF _foreman_plant_kpi_entries, PerPlant
<1>2. /\ IsFiniteSet(DOMAIN d) /\ \A key \in DOMAIN d : d[key].score \in 0 .. 120
      /\ \A key : key \in DOMAIN d <=> \E x \in COMPLETE(db, G, k) :
                     key = <<Workers[x[1]].foreman, Workers[x[1]].plant>>
  BY PlantGroupsAre
<1> HIDE DEF entries, d
<1>3. f \in DOMAIN entries <=> S # {}
  <2>1. DOMAIN entries = {key[1] : key \in DOMAIN d}
    BY <1>1
  <2>2. QED
    BY <2>1
<1>4. S # {} <=> \E x \in COMPLETE(db, G, k) : Workers[x[1]].foreman = f
  <2>1. ASSUME NEW x \in COMPLETE(db, G, k), Workers[x[1]].foreman = f PROVE S # {}
    <3> DEFINE key == <<Workers[x[1]].foreman, Workers[x[1]].plant>>
    <3>1. key \in DOMAIN d /\ key[1] = f
      BY <2>1, <1>2
    <3>2. QED
      BY <3>1
  <2>2. ASSUME NEW key \in S PROVE \E x \in COMPLETE(db, G, k) : Workers[x[1]].foreman = f
    <3>1. PICK x \in COMPLETE(db, G, k) : key = <<Workers[x[1]].foreman, Workers[x[1]].plant>>
      BY <1>2
    <3>2. key[1] = Workers[x[1]].foreman
      BY <3>1
    <3>3. QED
      BY <3>2
  <2>3. QED
    BY <2>1, <2>2
<1>5. f \in DOMAIN entries => entries[f] = Average(d, f) /\ Average(d, f).score \in 0 .. 120
  <2> SUFFICES ASSUME f \in DOMAIN entries
               PROVE  entries[f] = Average(d, f) /\ Average(d, f).score \in 0 .. 120
    OBVIOUS
  <2>1. entries[f] = Average(d, f)
    BY <1>1
  <2>2. IsFiniteSet(S) /\ \A key \in S : d[key].score \in 0 .. 120
    BY <1>2, FS_Subset
  <2>3. S # {} /\ S = {key \in DOMAIN d : key[1] = f}
    BY <1>3
  <2> HIDE DEF S
  <2>4. Average(d, f).score \in 0 .. 120
    BY <2>2, <2>3, AverageWithin
  <2>5. QED
    BY <2>1, <2>4
<1> HIDE DEF S
<1>6. QED
  BY <1>3, <1>4, <1>5 DEF entries, d

\* Two filters that let the same rows of a foreman through give him the same scores.
LEMMA EntriesSame ==
  ASSUME NEW db \in Databases, NEW G, NEW H, NEW k, NEW f,
         \A x \in Cells : Workers[x[1]].foreman = f => (_apply_filters(G, x) <=> _apply_filters(H, x))
  PROVE  LET a == _foreman_plant_kpi_entries(Once(db), G, k)
             b == _foreman_plant_kpi_entries(Once(db), H, k)
         IN  (f \in DOMAIN a <=> f \in DOMAIN b) /\ (f \in DOMAIN a => a[f] = b[f])
<1> DEFINE a == _foreman_plant_kpi_entries(Once(db), G, k)
           b == _foreman_plant_kpi_entries(Once(db), H, k)
           d == _kpi_period_scores_multi(Once(db), G, k, PerPlant)
           e == _kpi_period_scores_multi(Once(db), H, k, PerPlant)
           S == {key \in DOMAIN d : key[1] = f}
           plantRow(key, x) == key = <<Workers[x[1]].foreman, Workers[x[1]].plant>>
<1>1. /\ f \in DOMAIN a <=> \E x \in COMPLETE(db, G, k) : Workers[x[1]].foreman = f
      /\ f \in DOMAIN b <=> \E x \in COMPLETE(db, H, k) : Workers[x[1]].foreman = f
      /\ f \in DOMAIN a => a[f] = Average(d, f)
      /\ f \in DOMAIN b => b[f] = Average(e, f)
  BY EntriesAre
<1>2. \A x : Workers[x[1]].foreman = f => (x \in COMPLETE(db, G, k) <=> x \in COMPLETE(db, H, k))
  BY DEF COMPLETE
<1>3. /\ IsFiniteSet(DOMAIN d)
      /\ \A key \in DOMAIN d : /\ key = <<key[1], key[2]>>
                               /\ d[key] = GroupScore(db, k, RowsOf(db, G, k, PerPlant, key))
                               /\ d[key].score \in 0 .. 120 /\ d[key].count \in Nat
      /\ \A key : key \in DOMAIN d <=> \E x \in COMPLETE(db, G, k) : plantRow(key, x)
      /\ \A key, x : x \in RowsOf(db, G, k, PerPlant, key) <=> x \in COMPLETE(db, G, k) /\ plantRow(key, x)
  BY PlantGroupsAre
<1>4. /\ \A key \in DOMAIN e : e[key] = GroupScore(db, k, RowsOf(db, H, k, PerPlant, key))
      /\ \A key : key \in DOMAIN e <=> \E x \in COMPLETE(db, H, k) : plantRow(key, x)
      /\ \A key, x : x \in RowsOf(db, H, k, PerPlant, key) <=> x \in COMPLETE(db, H, k) /\ plantRow(key, x)
  BY PlantGroupsAre
<1>5. \A key, x : plantRow(key, x) => key[1] = Workers[x[1]].foreman
  OBVIOUS
<1> HIDE DEF a, b, d, e, plantRow
<1>6. S = {key \in DOMAIN e : key[1] = f}
  BY <1>2, <1>3, <1>4, <1>5
<1>7. \A key \in S : d[key] = e[key]
  <2> SUFFICES ASSUME NEW key \in S PROVE d[key] = e[key]
    OBVIOUS
  <2>1. \A x : x \in RowsOf(db, G, k, PerPlant, key) <=> x \in RowsOf(db, H, k, PerPlant, key)
    BY <1>2, <1>3, <1>4, <1>5
  <2>2. RowsOf(db, G, k, PerPlant, key) = RowsOf(db, H, k, PerPlant, key)
    BY <2>1 DEF RowsOf
  <2>3. QED
    BY <2>2, <1>3, <1>4, <1>6
<1>8. IsFiniteSet(S)
  BY <1>3, FS_Subset
<1>9. \A key \in S : /\ key = <<key[1], key[2]>> /\ d[key] = e[key]
                     /\ d[key].score \in Nat /\ d[key].count \in Nat
  BY <1>3, <1>7
<1>10. S = {key \in DOMAIN d : key[1] = f}
  OBVIOUS
<1> HIDE DEF S
<1>11. Average(d, f) = Average(e, f)
  BY <1>6, <1>8, <1>9, <1>10, AverageSame
<1>12. QED
  BY <1>1, <1>2, <1>11 DEF a, b

-----------------------------------------------------------------------------
(* A chief: his rows, his team and the pages that show it.                 *)

\* Asking for the rows of one chief, or taking his group out of all.
LEMMA ChiefFilters ==
  ASSUME NEW G, IsFilter(G), NEW c
  PROVE  /\ \A x : _apply_filters(OfChief(G, c), x) => _apply_filters(resolve_chief_scope(G), x)
         /\ \A x : PlantChief[Workers[x[1]].plant] = c =>
                     (_apply_filters(OfChief(G, c), x) <=> _apply_filters(resolve_chief_scope(G), x))
         /\ active_kpi_weight_sum(OfChief(G, c)) = active_kpi_weight_sum(resolve_chief_scope(G))
<1> DEFINE H == OfChief(G, c)
           R == resolve_chief_scope(G)
<1>1. /\ H.from = R.from /\ H.to = R.to /\ H.plants = R.plants /\ H.factories = R.factories
      /\ H.shifts = R.shifts /\ H.kpis = R.kpis /\ H.foremen = R.foremen
      /\ H.chiefs = {c} /\ R.chiefs = NoFilter
  BY DEF OfChief, resolve_chief_scope, IsFilter
<1> HIDE DEF H, R
<1>2. \A x : /\ Passes(R.chiefs, x) /\ Passes(H.chiefs, c)
  BY <1>1 DEF Passes
<1>3. \A x : InPeriod(H, x) <=> InPeriod(R, x)
  BY <1>1 DEF InPeriod
<1>4. \A x : _apply_filters(H, x) => _apply_filters(R, x)
  BY <1>1, <1>2, <1>3 DEF _apply_filters
<1>5. \A x : PlantChief[Workers[x[1]].plant] = c => (_apply_filters(R, x) => _apply_filters(H, x))
  BY <1>1, <1>2, <1>3 DEF _apply_filters
<1>6. active_kpi_weight_sum(H) = active_kpi_weight_sum(R)
  BY <1>1 DEF active_kpi_weight_sum
<1>7. QED
  BY <1>4, <1>5, <1>6 DEF H, R

\* The rows of KPI k that a chief's score is made of, and the KPIs he has a score of.
ChiefRows(db, G, k, c) ==
    {x \in COMPLETE(db, G, k) : PlantChief[Workers[x[1]].plant] = c}

ChiefParts(db, G, c) ==
    [k \in {j \in Kpis : ChiefRows(db, G, j, c) # {}} |-> GroupScore(db, k, ChiefRows(db, G, k, c))]

\* The score of a chief is made of his rows.
LEMMA ChiefScoreIs ==
  ASSUME NEW db \in Databases, NEW G, NEW c
  PROVE  /\ c \in DOMAIN chief_scores(Once(db), G) <=> \E k \in Kpis : ChiefRows(db, G, k, c) # {}
         /\ c \in DOMAIN chief_scores(Once(db), G) =>
              chief_scores(Once(db), G)[c] = _combine_group(ChiefParts(db, G, c), active_kpi_weight_sum(G))
<1>1. \A x : _group_key(<<"chief">>, x) = <<PlantChief[Workers[x[1]].plant]>>
  <2>1. \A x : _group_key(<<"chief">>, x) = <<Column("chief", x)>>
    BY KeysAre
  <2>2. \A x : Column("chief", x) = PlantChief[Workers[x[1]].plant]
    BY DEF Column
  <2>3. QED
    BY <2>1, <2>2
<1>2. \A a, b : <<a>> = <<b>> <=> a = b
  OBVIOUS
<1>3. \A k : RowsOf(db, G, k, <<"chief">>, <<c>>) = ChiefRows(db, G, k, c)
  BY <1>1, <1>2 DEF RowsOf, ChiefRows
<1> DEFINE scores     == _grouped_scores(Once(db), G, "chief")
           rows(k, g) == RowsOf(db, G, k, <<"chief">>, <<g>>)
<1>4. /\ \A g : g \in DOMAIN scores <=> \E k \in Kpis : rows(k, g) # {}
      /\ \A g \in DOMAIN scores :
           scores[g] = _combine_group([k \in {j \in Kpis : rows(j, g) # {}} |-> GroupScore(db, k, rows(k, g))],
                                      active_kpi_weight_sum(G))
  BY GroupedAre, Zenon
<1>5. chief_scores(Once(db), G) = scores
  BY DEF chief_scores
<1>6. \A k : rows(k, c) = ChiefRows(db, G, k, c)
  BY <1>3
<1> HIDE DEF scores, rows
<1>7. [k \in {j \in Kpis : rows(j, c) # {}} |-> GroupScore(db, k, rows(k, c))] = ChiefParts(db, G, c)
  BY <1>6 DEF ChiefParts
<1>8. c \in DOMAIN scores => scores[c] = _combine_group(ChiefParts(db, G, c), active_kpi_weight_sum(G))
  BY <1>4, <1>7
<1>9. QED
  BY <1>4, <1>5, <1>6, <1>8

\* A chief has the same score on his own page as among all chiefs.
LEMMA ChiefScoreSame ==
  ASSUME NEW db \in Databases, NEW G, IsFilter(G), NEW c
  PROVE  LET a == chief_scores(Once(db), OfChief(G, c))
             b == chief_scores(Once(db), resolve_chief_scope(G))
         IN  (c \in DOMAIN a <=> c \in DOMAIN b) /\ (c \in DOMAIN a => a[c] = b[c])
<1> DEFINE H == OfChief(G, c)
           R == resolve_chief_scope(G)
           a == chief_scores(Once(db), H)
           b == chief_scores(Once(db), R)
<1>1. /\ \A x : PlantChief[Workers[x[1]].plant] = c => (_apply_filters(H, x) <=> _apply_filters(R, x))
      /\ active_kpi_weight_sum(H) = active_kpi_weight_sum(R)
  BY ChiefFilters
<1> HIDE DEF H, R
<1>2. /\ c \in DOMAIN a <=> \E k \in Kpis : ChiefRows(db, H, k, c) # {}
      /\ c \in DOMAIN a => a[c] = _combine_group(ChiefParts(db, H, c), active_kpi_weight_sum(H))
  BY ChiefScoreIs
<1>3. /\ c \in DOMAIN b <=> \E k \in Kpis : ChiefRows(db, R, k, c) # {}
      /\ c \in DOMAIN b => b[c] = _combine_group(ChiefParts(db, R, c), active_kpi_weight_sum(R))
  BY ChiefScoreIs
<1>4. \A k : ChiefRows(db, H, k, c) = ChiefRows(db, R, k, c)
  BY <1>1 DEF ChiefRows, COMPLETE
<1>5. ChiefParts(db, H, c) = ChiefParts(db, R, c)
  BY <1>4 DEF ChiefParts
<1> HIDE DEF a, b
<1>6. QED
  BY <1>1, <1>2, <1>3, <1>4, <1>5 DEF a, b, H, R

\* A chief's team, out of all teams.
LEMMA TeamIs ==
  ASSUME NEW chiefs, NEW foremen, NEW members, NEW c
  PROVE  LET team == TeamOf(Teams(chiefs, foremen, members), c)
             has  == \E m \in members : m[1] = c
         IN  /\ \A f : f \in DOMAIN team.foremen <=> f \in DOMAIN foremen /\ \E m \in members : m[1] = c /\ m[2] = f
             /\ \A f \in DOMAIN team.foremen : team.foremen[f] = foremen[f]
             /\ team.total = IF has /\ c \in DOMAIN chiefs THEN chiefs[c].total ELSE 0
             /\ team.reliable = (has /\ c \in DOMAIN chiefs /\ chiefs[c].reliable)
<1> DEFINE keys == {m[1] : m \in members}
           own(x) == {m[2] : m \in {n \in members : n[1] = x}}
           of(x) == [total    |-> IF x \in DOMAIN chiefs THEN chiefs[x].total ELSE 0,
                     reliable |-> x \in DOMAIN chiefs /\ chiefs[x].reliable,
                     foremen  |-> [f \in own(x) \cap DOMAIN foremen |-> foremen[f]]]
           teams == Teams(chiefs, foremen, members)
           team  == TeamOf(teams, c)
<1>1. teams = [x \in keys |-> of(x)]
  BY TableIs DEF Teams
<1>2. c \in keys <=> \E m \in members : m[1] = c
  OBVIOUS
<1>3. \A f : f \in own(c) <=> \E m \in members : m[1] = c /\ m[2] = f
  OBVIOUS
<1> HIDE DEF teams, keys, own
<1>4. CASE c \in keys
  <2>1. team = of(c)
    <3>1. team = teams[c]
      BY <1>1, <1>4 DEF TeamOf
    <3> HIDE DEF of
    <3>2. QED
      BY <1>1, <1>4, <3>1
  <2>2. /\ DOMAIN of(c).foremen = own(c) \cap DOMAIN foremen
        /\ \A f \in DOMAIN of(c).foremen : of(c).foremen[f] = foremen[f]
        /\ of(c).total = IF c \in DOMAIN chiefs THEN chiefs[c].total ELSE 0
        /\ of(c).reliable = (c \in DOMAIN chiefs /\ chiefs[c].reliable)
    OBVIOUS
  <2> HIDE DEF of, team
  <2>3. QED
    BY <1>2, <1>3, <1>4, <2>1, <2>2 DEF team, teams
<1>5. CASE c \notin keys
  <2>1. team = NoTeam
    BY <1>1, <1>5 DEF TeamOf
  <2>2. DOMAIN NoTeam.foremen = {} /\ NoTeam.total = 0 /\ NoTeam.reliable = FALSE
    BY DEF NoTeam
  <2> HIDE DEF team
  <2>3. QED
    BY <1>2, <1>5, <2>1, <2>2 DEF team, teams
<1>6. QED
  BY <1>4, <1>5

\* The foremen on a list.
IdsOf(list) == {list[i].id : i \in DOMAIN list}

\* A team's list has one item for each of its foremen.
LEMMA AllItemsAre ==
  ASSUME NEW scores, NEW general, NEW ord, Sortable(general, ord)
  PROVE  LET list == AllItems(scores, general, ord)
         IN  /\ Len(list) = Cardinality(DOMAIN general)
             /\ IdsOf(list) = DOMAIN general
<1> DEFINE list == AllItems(scores, general, ord)
           N    == Cardinality(DOMAIN general)
           s(d) == Sorted(general, ord, d)
           items(d) == _foreman_ranking_items(scores, general, ord, d, N)
<1>1. N \in Nat
  BY FS_CardinalityType DEF Sortable
<1>2. Cut(general, N) = N
  BY <1>1 DEF Cut, AtMost
<1>3. ASSUME NEW d \in BOOLEAN
      PROVE  /\ DOMAIN items(d) = 1 .. N /\ Len(items(d)) = N
             /\ \A i \in 1 .. N : s(d)[i] \in DOMAIN general /\ items(d)[i] = RankingItem(scores, general, s(d)[i])
             /\ \A x \in DOMAIN general : \E i \in 1 .. N : s(d)[i] = x
  <2>1. /\ DOMAIN items(d) = 1 .. Cut(general, N) /\ Len(items(d)) = Cut(general, N)
        /\ \A i \in 1 .. Cut(general, N) :
              s(d)[i] \in DOMAIN general /\ items(d)[i] = RankingItem(scores, general, s(d)[i])
    <3> HIDE DEF N
    <3>1. QED
      BY <1>1, RankingIs, SMTT(30)
  <2>2. \A x \in DOMAIN general : Place(general, ord, d, x) \in 1 .. N /\ s(d)[Place(general, ord, d, x)] = x
    BY SortedIs
  <2> HIDE DEF items, s, N
  <2>3. QED
    BY <2>1, <2>2, <1>2
<1>4. TRUE \in BOOLEAN /\ list = items(TRUE)
  BY DEF AllItems
<1> DEFINE best == s(TRUE)
<1>5. best = s(TRUE)
  OBVIOUS
<1> HIDE DEF items, s, list, N, best
<1>6. /\ DOMAIN list = 1 .. N /\ Len(list) = N
      /\ \A i \in 1 .. N : best[i] \in DOMAIN general /\ list[i] = RankingItem(scores, general, best[i])
      /\ \A x \in DOMAIN general : \E i \in 1 .. N : best[i] = x
  BY <1>3, <1>4, <1>5, Zenon
<1>9. \A g : RankingItem(scores, general, g).id = g
  BY DEF RankingItem
<1>10. \A i \in 1 .. N : list[i].id = best[i] /\ best[i] \in DOMAIN general
  BY <1>6, <1>9, Zenon
<1>7. IdsOf(list) = DOMAIN general
  <2>1. \A i \in DOMAIN list : list[i].id \in DOMAIN general
    BY <1>6, <1>10, Zenon
  <2>2. \A x \in DOMAIN general : \E i \in DOMAIN list : x = list[i].id
    <3> TAKE x \in DOMAIN general
    <3>1. PICK i \in 1 .. N : best[i] = x
      BY <1>6
    <3>2. i \in DOMAIN list /\ x = list[i].id
      BY <1>6, <1>10, <3>1
    <3>3. QED
      BY <3>2
  <2> DEFINE idOf(i) == list[i].id
  <2>3. (\A i \in DOMAIN list : idOf(i) \in DOMAIN general) /\ (\A x \in DOMAIN general : \E i \in DOMAIN list : x = idOf(i))
    BY <2>1, <2>2
  <2> HIDE DEF idOf
  <2>4. {idOf(i) : i \in DOMAIN list} = DOMAIN general
    BY <2>3
  <2>5. QED
    BY <2>4 DEF idOf, IdsOf
<1>8. QED
  BY <1>6, <1>7 DEF list, N

\* Foreman f has a record in chief c's group.
InTeam(db, G, c, f) == \E m \in Members(db, G) : m[1] = c /\ m[2] = f

\* The members of a chief's group, asked for by his name or among all chiefs.
LEMMA MembersSame ==
  ASSUME NEW db, NEW G, IsFilter(G), NEW c
  PROVE  \A f : InTeam(db, OfChief(G, c), c, f) <=> InTeam(db, resolve_chief_scope(G), c, f)
<1> DEFINE H == OfChief(G, c)
           R == resolve_chief_scope(G)
           of(I, x) == x \in Cells /\ db.rows[x].status # "ABSENT" /\ _apply_filters(I, x)
<1>1. \A x : PlantChief[Workers[x[1]].plant] = c => (_apply_filters(H, x) <=> _apply_filters(R, x))
  BY ChiefFilters
<1> HIDE DEF H, R
<1>2. ASSUME NEW I, NEW f
      PROVE  InTeam(db, I, c, f) <=> \E x \in Cells : of(I, x) /\ PlantChief[Workers[x[1]].plant] = c /\ Workers[x[1]].foreman = f
  <2>1. \A x : Column("chief", x) = PlantChief[Workers[x[1]].plant]
    BY DEF Column
  <2>2. \A m : m \in Members(db, I) <=> \E x \in Cells : of(I, x) /\ m = <<Column("chief", x), Workers[x[1]].foreman>>
    BY DEF Members
  <2> DEFINE pair(x) == <<Column("chief", x), Workers[x[1]].foreman>>
  <2>3. \A x : pair(x)[1] = PlantChief[Workers[x[1]].plant] /\ pair(x)[2] = Workers[x[1]].foreman
    BY <2>1
  <2>4. \A m : m \in Members(db, I) <=> \E x \in Cells : of(I, x) /\ m = pair(x)
    BY <2>2
  <2> HIDE DEF of, pair
  <2>5. QED
    BY <2>3, <2>4 DEF InTeam
<1> HIDE DEF of
<1>3. \A I, x : of(I, x) <=> x \in Cells /\ db.rows[x].status # "ABSENT" /\ _apply_filters(I, x)
  BY DEF of
<1>4. QED
  BY <1>1, <1>2, <1>3 DEF H, R

\* A foreman with a score in a chief's rows has one among all rows, and they are
\* finitely many.
LEMMA TeamForemen ==
  ASSUME NEW db \in Databases, NEW G, IsFilter(G), NEW c
  PROVE  LET own == foreman_scores(Once(db), OfChief(G, c))
             all == foreman_scores(Once(db), resolve_chief_scope(G))
         IN  /\ DOMAIN own \subseteq DOMAIN all
             /\ DOMAIN own \subseteq Foremen /\ DOMAIN all \subseteq Foremen
             /\ IsFiniteSet(DOMAIN own) /\ IsFiniteSet(DOMAIN all)
             /\ \A k : \A x \in COMPLETE(db, OfChief(G, c), k) :
                  k \in Kpis => Workers[x[1]].foreman \in DOMAIN own
<1> DEFINE H == OfChief(G, c)
           R == resolve_chief_scope(G)
           own == foreman_scores(Once(db), H)
           all == foreman_scores(Once(db), R)
           entries(I, k) == _foreman_plant_kpi_entries(Once(db), I, k)
<1>1. \A x : _apply_filters(H, x) => _apply_filters(R, x)
  BY ChiefFilters
<1> HIDE DEF H, R
<1>2. \A k : COMPLETE(db, H, k) \subseteq COMPLETE(db, R, k)
  BY <1>1 DEF COMPLETE
<1>3. \A k, f : /\ f \in DOMAIN entries(H, k) <=> \E x \in COMPLETE(db, H, k) : Workers[x[1]].foreman = f
                /\ f \in DOMAIN entries(R, k) <=> \E x \in COMPLETE(db, R, k) : Workers[x[1]].foreman = f
  BY EntriesAre
<1>4. /\ \A f : f \in DOMAIN own <=> \E k \in Kpis : f \in DOMAIN entries(H, k)
      /\ \A f : f \in DOMAIN all <=> \E k \in Kpis : f \in DOMAIN entries(R, k)
  BY ForemanMadeOf
<1>5. \A I, k : \A x \in COMPLETE(db, I, k) : Workers[x[1]].foreman \in Foremen
  BY DEF COMPLETE, Cells, Foremen
<1> HIDE DEF own, all, entries
<1>6. DOMAIN own \subseteq DOMAIN all /\ DOMAIN own \subseteq Foremen /\ DOMAIN all \subseteq Foremen
  BY <1>2, <1>3, <1>4, <1>5
<1>7. IsFiniteSet(Foremen)
  BY FiniteWorld
<1>8. IsFiniteSet(DOMAIN own) /\ IsFiniteSet(DOMAIN all)
  BY <1>6, <1>7, FS_Subset
<1>9. \A k : \A x \in COMPLETE(db, H, k) : k \in Kpis => Workers[x[1]].foreman \in DOMAIN own
  BY <1>3, <1>4
<1>10. QED
  BY <1>6, <1>8, <1>9 DEF own, all, H, R

\* The team of a chief on his own pages, and on the page that ranks him.
LEMMA ChiefTeams ==
  ASSUME NEW db \in Databases, NEW G, IsFilter(G), NEW c
  PROVE  LET see   == Once(db)
             mine  == TeamOf(chief_team_scores(see, see, db, OfChief(G, c)), c)
             among == TeamOf(chief_team_scores(see, see, db, resolve_chief_scope(G)), c)
         IN  /\ mine.total = among.total
             /\ DOMAIN mine.foremen \subseteq DOMAIN among.foremen
             /\ DOMAIN among.foremen \subseteq Foremen
             /\ among.reliable => DOMAIN mine.foremen # {}
             /\ \A f \in DOMAIN mine.foremen : mine.foremen[f] = foreman_scores(see, OfChief(G, c))[f]
             /\ DOMAIN mine.foremen \subseteq DOMAIN foreman_scores(see, OfChief(G, c))
<1> DEFINE H == OfChief(G, c)
           R == resolve_chief_scope(G)
           a == chief_scores(Once(db), H)
           b == chief_scores(Once(db), R)
           own == foreman_scores(Once(db), H)
           all == foreman_scores(Once(db), R)
           mine  == TeamOf(chief_team_scores(Once(db), Once(db), db, H), c)
           among == TeamOf(chief_team_scores(Once(db), Once(db), db, R), c)
           in(I, f) == InTeam(db, I, c, f)
           has(I) == \E m \in Members(db, I) : m[1] = c
<1>1. (c \in DOMAIN a <=> c \in DOMAIN b) /\ (c \in DOMAIN a => a[c] = b[c])
  BY ChiefScoreSame
<1>2. \A f : in(H, f) <=> in(R, f)
  BY MembersSame
<1>3. /\ DOMAIN own \subseteq DOMAIN all /\ DOMAIN all \subseteq Foremen
      /\ \A k : \A x \in COMPLETE(db, H, k) : k \in Kpis => Workers[x[1]].foreman \in DOMAIN own
  BY TeamForemen
<1>4. c \in DOMAIN a <=> \E k \in Kpis : ChiefRows(db, H, k, c) # {}
  BY ChiefScoreIs
<1> HIDE DEF H, R
<1>5. /\ \A f : f \in DOMAIN mine.foremen <=> f \in DOMAIN own /\ in(H, f)
      /\ \A f \in DOMAIN mine.foremen : mine.foremen[f] = own[f]
      /\ mine.total = IF has(H) /\ c \in DOMAIN a THEN a[c].total ELSE 0
  BY TeamIs DEF chief_team_scores, InTeam
<1>6. /\ \A f : f \in DOMAIN among.foremen <=> f \in DOMAIN all /\ in(R, f)
      /\ among.total = IF has(R) /\ c \in DOMAIN b THEN b[c].total ELSE 0
      /\ among.reliable = (has(R) /\ c \in DOMAIN b /\ b[c].reliable)
  BY TeamIs DEF chief_team_scores, InTeam
<1>7. \A I : has(I) <=> \E f : in(I, f)
  BY DEF InTeam
<1>8. c \in DOMAIN a => \E f : f \in DOMAIN own /\ in(H, f)
  <2> SUFFICES ASSUME c \in DOMAIN a PROVE \E f : f \in DOMAIN own /\ in(H, f)
    OBVIOUS
  <2>1. PICK k \in Kpis : ChiefRows(db, H, k, c) # {}
    BY <1>4
  <2>2. PICK x \in COMPLETE(db, H, k) : PlantChief[Workers[x[1]].plant] = c
    BY <2>1 DEF ChiefRows
  <2> DEFINE f == Workers[x[1]].foreman
             m == <<Column("chief", x), f>>
  <2>3. f \in DOMAIN own
    BY <1>3
  <2>4. Column("chief", x) = c
    BY <2>2 DEF Column
  <2>5. x \in Cells /\ db.rows[x].status # "ABSENT" /\ _apply_filters(H, x)
    BY DEF COMPLETE
  <2>6. m \in Members(db, H)
    BY <2>5 DEF Members
  <2>7. m[1] = c /\ m[2] = f
    BY <2>4
  <2>8. in(H, f)
    BY <2>6, <2>7 DEF InTeam
  <2>9. QED
    BY <2>3, <2>8
<1> HIDE DEF a, b, own, all, in, has, mine, among
<1>9. mine.total = among.total
  BY <1>1, <1>2, <1>5, <1>6, <1>7
<1>10. among.reliable => c \in DOMAIN b
  BY <1>6
<1>11. QED
  BY <1>1, <1>2, <1>3, <1>5, <1>6, <1>8, <1>9, <1>10 DEF own, mine, among, H, R

\* What a chief's pages say of one database.
LEMMA ChiefPagesStand ==
  ASSUME NEW s, NEW db \in Databases, Saw(s, 16, db), NEW t, Saw(t, 8, db),
         NEW G, IsFilter(G), NEW c, NEW ord \in Orders
  PROVE  LET shows == get_foreman_comparison(s, c, G, ord)
             page  == get_chief(t, c, G, ord)
             list  == get_chief_foremen(t, c, G, ord)
         IN  /\ shows.total = page.total
             /\ Len(list) <= page.foreman_count
             /\ page.reliable => Len(list) > 0
             /\ DOMAIN shows.scores = {list[i].id : i \in DOMAIN list}
<1> DEFINE H == OfChief(G, c)
           R == resolve_chief_scope(G)
           mine  == TeamOf(chief_team_scores(Once(db), Once(db), db, H), c)
           among == TeamOf(chief_team_scores(Once(db), Once(db), db, R), c)
           own   == foreman_scores(Once(db), H)
           general == General(mine.foremen, db.bonus)
           page  == get_chief(t, c, G, ord)
           list  == get_chief_foremen(t, c, G, ord)
           shows == get_foreman_comparison(s, c, G, ord)
<1>1. /\ Call(t, 1) = Once(db) /\ Call(t, 4) = Once(db) /\ t[7] = db /\ t[8] = db
      /\ Call(s, 1) = Once(db) /\ Call(s, 4) = Once(db) /\ s[7] = db
  BY CallSaw DEF Saw
<1>2. /\ mine.total = among.total
      /\ DOMAIN mine.foremen \subseteq DOMAIN among.foremen
      /\ DOMAIN among.foremen \subseteq Foremen
      /\ among.reliable => DOMAIN mine.foremen # {}
      /\ \A f \in DOMAIN mine.foremen : mine.foremen[f] = own[f]
      /\ DOMAIN mine.foremen \subseteq DOMAIN own
  BY ChiefTeams, Zenon
<1>3. /\ page.total = among.total /\ page.reliable = among.reliable
      /\ page.foreman_count = Cardinality(DOMAIN among.foremen)
  <2>1. page = ChiefDetail(c, chief_team_scores(Once(db), Once(db), db, R), ord)
    BY <1>1 DEF get_chief
  <2> HIDE DEF page, R
  <2>2. QED
    BY <2>1 DEF ChiefDetail
<1>4. list = AllItems(mine.foremen, general, ord)
  BY <1>1 DEF get_chief_foremen, TeamItems
<1>5. shows.total = mine.total /\ DOMAIN shows.scores = DOMAIN mine.foremen
  <2> DEFINE items  == get_chief_foremen(s, c, G, ord)
             kpis   == kpi_breakdown(Call(s, 9), H)
             values == [k \in Kpis |-> foreman_kpi_values(s[IF k = "GSF" THEN 12 ELSE 14],
                                                  Call(s, IF k = "GSF" THEN 13 ELSE 14), H, k)]
  <2>1. shows = Comparison(items, TeamOf(chief_team_scores(Call(s, 1), Call(s, 4), s[7], H), c), kpis, values)
    BY DEF get_foreman_comparison
  <2> HIDE DEF shows, items, kpis, values, mine, H
  <2>2. shows = Comparison(items, mine, kpis, values)
    BY <1>1, <2>1 DEF mine
  <2>3. QED
    BY <2>2 DEF Comparison
<1>6. general = [f \in DOMAIN mine.foremen |-> general_performance_score(mine.foremen[f].total, db.bonus[f])]
  BY TableIs DEF General
<1>7. \A f \in DOMAIN own : own[f].total \in 0 .. 120
  BY ForemanScoresAre
<1>8. db.bonus \in [Foremen -> Nat]
  BY DEF Databases
<1> HIDE DEF H, R, mine, among, own, general, page, list, shows
<1>9. \A a \in 0 .. 120 : \A b \in Nat : general_performance_score(a, b) \in Nat
  BY DEF general_performance_score, AtMost
<1>10. DOMAIN general = DOMAIN mine.foremen /\ \A f \in DOMAIN general : general[f] \in Nat
  <2>1. \A f \in DOMAIN mine.foremen : mine.foremen[f].total \in 0 .. 120 /\ db.bonus[f] \in Nat
    BY <1>2, <1>7, <1>8
  <2>2. QED
    BY <1>6, <1>9, <2>1
<1>11. IsFiniteSet(DOMAIN mine.foremen) /\ IsFiniteSet(DOMAIN among.foremen)
  BY <1>2, FiniteWorld, FS_Subset
<1>12. Sortable(general, ord)
  <2>1. \A x, y \in Foremen : ord[x] \in Int /\ (ord[x] = ord[y] => x = y)
    BY ViewsAssumption
  <2>2. DOMAIN general \subseteq Foremen
    BY <1>2, <1>10
  <2>3. QED
    BY <1>10, <1>11, <2>1, <2>2 DEF Sortable
<1>13. Len(list) = Cardinality(DOMAIN general) /\ IdsOf(list) = DOMAIN general
  <2> DEFINE team == mine.foremen
             all  == AllItems(team, general, ord)
  <2>1. Len(all) = Cardinality(DOMAIN general) /\ IdsOf(all) = DOMAIN general
    <3> HIDE DEF team
    <3>1. QED
      BY <1>12, AllItemsAre
  <2>2. list = all
    BY <1>4
  <2> HIDE DEF all
  <2>3. QED
    BY <2>1, <2>2
<1>14. /\ Cardinality(DOMAIN mine.foremen) <= Cardinality(DOMAIN among.foremen)
       /\ Cardinality(DOMAIN mine.foremen) \in Nat
       /\ DOMAIN mine.foremen # {} => Cardinality(DOMAIN mine.foremen) # 0
  BY <1>2, <1>11, FS_Subset, FS_CardinalityType, FS_EmptySet
<1>15. QED
  BY <1>2, <1>3, <1>5, <1>10, <1>13, <1>14 DEF page, list, shows, IdsOf

\* The comparison of a chief's foremen says what his other pages say.
THEOREM ChiefPagesAgreeCorrect == ViewsSpec => []ChiefPagesAgree
<1>1. ASSUME ViewsInv, Answered({"comparison"}), Steady PROVE ChiefPagesAgree
  <2>1. shown.page = "comparison" /\ shown \notin {NotYet, Refused}
    BY <1>1 DEF Answered, NotYet, Refused, None
  <2>2. /\ Saw(Seen, Selects(req.page), hist[at[1]]) /\ hist[at[1]] \in Databases
        /\ shown.ord \in Orders /\ shown.page = req.page
        /\ shown.answer = Page(req, Seen, shown.ord)
        /\ Now = Still(hist[at[1]])
    BY <1>1, <2>1, SteadyPage
  <2>3. Selects(req.page) = 16
    BY <2>1, <2>2, SelectsAre
  <2>4. shown.answer = get_foreman_comparison(Seen, req.id, F, shown.ord)
    <3>1. req.page \in OfAChief
      BY <2>1, <2>2 DEF OfAChief
    <3>2. Page(req, Seen, shown.ord) = ChiefPages(req, Seen, shown.ord)
      BY <3>1, PageIs
    <3>3. QED
      BY <2>1, <2>2, <3>2 DEF ChiefPages, F
  <2>5. IsFilter(F)
    <3>1. PICK r \in Requests : req = Received(r)
      BY <1>1 DEF ViewsInv, ViewsTypeOK
    <3>2. QED
      BY <3>1, ReceivedIs DEF F
  <2>6. Saw(Now, 8, hist[at[1]])
    BY <2>2 DEF Still, Saw
  <2> DEFINE page == get_chief(Now, req.id, F, shown.ord)
             list == get_chief_foremen(Now, req.id, F, shown.ord)
             shows == get_foreman_comparison(Seen, req.id, F, shown.ord)
  <2>7. /\ shows.total = page.total
        /\ Len(list) <= page.foreman_count
        /\ page.reliable => Len(list) > 0
        /\ DOMAIN shows.scores = {list[i].id : i \in DOMAIN list}
    BY <2>2, <2>3, <2>5, <2>6, ChiefPagesStand
  <2> HIDE DEF shows
  <2>8. QED
    BY <2>4, <2>7 DEF ChiefPagesAgree, shows
<1>2. ViewsInv => ChiefPagesAgree
  <2>1. ~(Answered({"comparison"}) /\ Steady) => ChiefPagesAgree
    BY DEF ChiefPagesAgree
  <2>2. QED
    BY <1>1, <2>1
<1>3. QED
  BY <1>2, ViewsInvariantCorrect, PTL

-----------------------------------------------------------------------------
(* Weighted means lie between the smallest and the largest score.          *)

\* The library's fold multiplies the values.
LEMMA ProductOverIs == \A S, val : ProductOver(S, val) = Product(val, S)
BY DEF ProductOver, FoldSet, MapThenFoldSet, Product, Multiplied, Chosen

\* The mean is at least every number whose power the product reaches, and no
\* more than one whose power it does not exceed.
LEMMA RootBetween ==
  ASSUME NEW product \in Nat, NEW W \in Nat \ {0}, NEW a \in 0 .. 120, NEW b \in 0 .. 120,
         Power(a, W) <= product, product <= Power(b, W)
  PROVE  a <= Root(product, W) /\ Root(product, W) <= b
<1> DEFINE T == {t \in 1 .. 120 : Power(t, W) <= product}
<1>0. a \in Nat /\ b \in Nat
  OBVIOUS
<1>1. Root(product, W) = Cardinality(T)
  BY DEF Root
<1>2. 1 .. a \subseteq T
  <2>1. ASSUME NEW t \in 1 .. a PROVE t \in T
    <3>1. t \in 1 .. 120 /\ t \in Nat /\ t <= a
      OBVIOUS
    <3>2. Power(t, W) <= Power(a, W)
      BY <3>1, PowerOrder
    <3>3. Power(t, W) \in Nat /\ Power(a, W) \in Nat
      <4>1. Power(t, W) \in Nat
        BY <3>1, PowerNat
      <4>2. Power(a, W) \in Nat
        BY <1>0, PowerNat
      <4>3. QED
        BY <4>1, <4>2
    <3>4. Power(t, W) <= product
      BY <3>2, <3>3
    <3>5. QED
      BY <3>1, <3>4
  <2>2. QED
    BY <2>1
<1>3. T \subseteq 1 .. b
  <2>1. ASSUME NEW t \in T PROVE t <= b
    <3>1. SUFFICES ASSUME b < t PROVE FALSE
      OBVIOUS
    <3>2. t \in Nat /\ b \in Nat
      OBVIOUS
    <3>3. Power(b, W) < Power(t, W)
      BY <3>1, <3>2, PowerStrict
    <3>4. Power(t, W) \in Nat
      BY <3>2, PowerNat
    <3>5. Power(b, W) \in Nat
      BY <1>0, PowerNat
    <3>6. QED
      BY <3>3, <3>4, <3>5
  <2>2. QED
    BY <2>1
<1>4. /\ IsFiniteSet(1 .. a) /\ Cardinality(1 .. a) = a
      /\ IsFiniteSet(1 .. b) /\ Cardinality(1 .. b) = b
  <2>1. \A n \in 0 .. 120 : IsFiniteSet(1 .. n) /\ Cardinality(1 .. n) = n
    <3> SUFFICES ASSUME NEW n \in 0 .. 120 PROVE IsFiniteSet(1 .. n) /\ Cardinality(1 .. n) = n
      OBVIOUS
    <3>1. 1 \in Int /\ n \in Int
      OBVIOUS
    <3>2. IsFiniteSet(1 .. n) /\ Cardinality(1 .. n) = IF 1 > n THEN 0 ELSE n - 1 + 1
      BY <3>1, FS_Interval
    <3>3. QED
      BY <3>1, <3>2
  <2>2. QED
    BY <2>1
<1> HIDE DEF T
<1>5. IsFiniteSet(T) /\ Cardinality(T) <= Cardinality(1 .. b)
  BY <1>3, <1>4, FS_Subset
<1>6. Cardinality(1 .. a) <= Cardinality(T)
  BY <1>2, <1>5, FS_Subset
<1>7. QED
  BY <1>1, <1>4, <1>5, <1>6

\* The weighted mean of scores lies between the smallest and the largest of them.
LEMMA MeanBetween ==
  ASSUME NEW score, DOMAIN score \subseteq Kpis, DOMAIN score # {},
         NEW a \in 0 .. 120, NEW b \in 0 .. 120,
         \A k \in DOMAIN score : score[k] \in a .. b
  PROVE  a <= weighted_geometric_score(score) /\ weighted_geometric_score(score) <= b
<1> DEFINE D == DOMAIN score
           f == [k \in D |-> Power(score[k], Weight[k])]
           lo == [k \in D |-> Power(a, Weight[k])]
           hi == [k \in D |-> Power(b, Weight[k])]
           W == Total(Weight, D)
<1>1. IsFiniteSet(D)
  <2>1. IsFiniteSet({"GSF"} \cup {"AGIR_GITME"})
    BY FS_Singleton, FS_Union
  <2>2. Kpis = {"GSF"} \cup {"AGIR_GITME"}
    BY ViewsAssumption
  <2>3. QED
    BY <2>1, <2>2, FS_Subset
<1>2. \A k \in D : Weight[k] \in Nat \ {0} /\ Weight[k] \in Nat /\ score[k] \in Nat /\ a <= score[k] /\ score[k] <= b
  BY ViewsAssumption
<1>3. a \in Nat /\ b \in Nat
  OBVIOUS
<1>4. W \in Nat \ {0}
  BY <1>1, <1>2, TotalPositive
<1>5. \A k \in D : /\ f[k] \in Nat /\ lo[k] \in Nat /\ hi[k] \in Nat
                   /\ lo[k] <= f[k] /\ f[k] <= hi[k]
                   /\ lo[k] = Power(a, Weight[k]) /\ hi[k] = Power(b, Weight[k])
  <2> SUFFICES ASSUME NEW k \in D
               PROVE  /\ f[k] \in Nat /\ lo[k] \in Nat /\ hi[k] \in Nat
                      /\ lo[k] <= f[k] /\ f[k] <= hi[k]
                      /\ lo[k] = Power(a, Weight[k]) /\ hi[k] = Power(b, Weight[k])
    OBVIOUS
  <2> DEFINE w == Weight[k]
             x == score[k]
  <2>1. w \in Nat /\ x \in Nat /\ a <= x /\ x <= b
    BY <1>2
  <2>2. f[k] = Power(x, w) /\ lo[k] = Power(a, w) /\ hi[k] = Power(b, w)
    OBVIOUS
  <2> HIDE DEF w, x, f, lo, hi
  <2>3. Power(x, w) \in Nat
    BY <2>1, PowerNat
  <2>4. Power(a, w) \in Nat
    BY <1>3, <2>1, PowerNat
  <2>5. Power(b, w) \in Nat
    BY <1>3, <2>1, PowerNat
  <2>6. Power(a, w) <= Power(x, w)
    BY <1>3, <2>1, PowerOrder
  <2>7. Power(x, w) <= Power(b, w)
    BY <1>3, <2>1, PowerOrder
  <2>8. QED
    BY <2>2, <2>3, <2>4, <2>5, <2>6, <2>7 DEF w
<1>6. weighted_geometric_score(score) = Root(Product(f, D), W)
  BY SumOverIs, ProductOverIs DEF weighted_geometric_score
<1> HIDE DEF D, f, lo, hi, W
<1>7. Product(lo, D) <= Product(f, D)
  BY <1>1, <1>5, ProductOrder
<1>8. Product(f, D) <= Product(hi, D)
  BY <1>1, <1>5, ProductOrder
<1>9. Product(lo, D) = Power(a, W)
  BY <1>1, <1>2, <1>3, <1>5, ProductOfPowers DEF W
<1>10. Product(hi, D) = Power(b, W)
  BY <1>1, <1>2, <1>3, <1>5, ProductOfPowers DEF W
<1>11. Product(f, D) \in Nat
  BY <1>1, <1>5, ProductNat
<1>12. Power(a, W) <= Product(f, D) /\ Product(f, D) <= Power(b, W)
  BY <1>7, <1>8, <1>9, <1>10
<1>13. a <= Root(Product(f, D), W) /\ Root(Product(f, D), W) <= b
  <2> DEFINE product == Product(f, D)
  <2> HIDE DEF product
  <2>1. product \in Nat /\ Power(a, W) <= product /\ product <= Power(b, W)
    BY <1>11, <1>12 DEF product
  <2>2. QED
    BY <1>4, <2>1, RootBetween DEF product
<1>14. QED
  BY <1>6, <1>13

-----------------------------------------------------------------------------
(* The KPI scores of a foreman, and his monthly report                     *)

\* Narrowing a filter to one foreman leaves his rows as they are, and no others.
LEMMA OnlyIs ==
  ASSUME NEW G, IsFilter(G), NEW f
  PROVE  /\ \A x : Workers[x[1]].foreman = f => (_apply_filters(G, x) <=> _apply_filters(Only(G, f), x))
         /\ f # "*" => \A x : _apply_filters(Only(G, f), x) => Workers[x[1]].foreman = f
         /\ active_kpi_weight_sum(Only(G, f)) = active_kpi_weight_sum(G)
         /\ IsFilter(Only(G, f))
<1> DEFINE H == Only(G, f)
<1>1. /\ H.from = G.from /\ H.to = G.to /\ H.plants = G.plants /\ H.factories = G.factories
      /\ H.shifts = G.shifts /\ H.kpis = G.kpis /\ H.chiefs = G.chiefs
      /\ H.foremen = IF G.foremen = NoFilter THEN {f} ELSE G.foremen \cap {f}
      /\ IsFilter(H)
  BY DEF Only, IsFilter
<1> HIDE DEF H
<1>2. Passes(H.foremen, f) <=> Passes(G.foremen, f)
  BY <1>1 DEF Passes, NoFilter
<1>3. f # "*" => \A y : Passes(H.foremen, y) => y = f
  BY <1>1 DEF Passes, NoFilter
<1>4. \A x : InPeriod(H, x) <=> InPeriod(G, x)
  BY <1>1 DEF InPeriod
<1>5. \A x : Workers[x[1]].foreman = f => (_apply_filters(G, x) <=> _apply_filters(H, x))
  BY <1>1, <1>2, <1>4 DEF _apply_filters
<1>6. f # "*" => \A x : _apply_filters(H, x) => Workers[x[1]].foreman = f
  BY <1>3 DEF _apply_filters
<1>7. active_kpi_weight_sum(H) = active_kpi_weight_sum(G)
  BY <1>1 DEF active_kpi_weight_sum
<1>8. QED
  BY <1>1, <1>5, <1>6, <1>7 DEF H

\* The KPIs with a row, each with the score of all its rows.
LEMMA BreakdownIs ==
  ASSUME NEW db \in Databases, NEW G
  PROVE  LET b == kpi_breakdown(Once(db), G)
         IN  /\ DOMAIN b = {k \in Kpis : COMPLETE(db, G, k) # {}}
             /\ \A k \in DOMAIN b : b[k] = GroupScore(db, k, COMPLETE(db, G, k))
<1> DEFINE d(k) == _kpi_period_scores_multi(Once(db), G, k, <<>>)
           per  == [k \in Kpis |-> d(k)]
           b    == kpi_breakdown(Once(db), G)
<1>1. b = Measured(per)
  BY TableIs DEF kpi_breakdown
<1>2. \A k : /\ DOMAIN d(k) = KeysOf(db, G, k, <<>>)
             /\ \A g \in DOMAIN d(k) : d(k)[g] = GroupScore(db, k, RowsOf(db, G, k, <<>>, g))
  BY GroupScoresAre
<1>3. \A x : _group_key(<<>>, x) = <<>>
  BY KeysAre
<1>4. \A k : /\ KeysOf(db, G, k, <<>>) # {} <=> COMPLETE(db, G, k) # {}
             /\ COMPLETE(db, G, k) # {} => <<>> \in KeysOf(db, G, k, <<>>)
             /\ RowsOf(db, G, k, <<>>, <<>>) = COMPLETE(db, G, k)
  BY <1>3 DEF KeysOf, RowsOf
<1>5. \A k \in Kpis : per[k] = d(k)
  OBVIOUS
<1> HIDE DEF d, per, b
<1>6. b = [k \in {j \in Kpis : DOMAIN per[j] # {}} |-> per[k][<<>>]]
  BY <1>1, TableIs DEF Measured
<1>7. {j \in Kpis : DOMAIN per[j] # {}} = {k \in Kpis : COMPLETE(db, G, k) # {}}
  BY <1>2, <1>4, <1>5
<1>8. \A k \in Kpis : COMPLETE(db, G, k) # {} => per[k][<<>>] = GroupScore(db, k, COMPLETE(db, G, k))
  BY <1>2, <1>4, <1>5
<1>9. QED
  BY <1>6, <1>7, <1>8 DEF b

\* KPI scores of a foreman: those his total is made of, with the rows of all his plants.
KpisOfForeman(a, db, G, f) ==
  /\ DOMAIN a = {k \in Kpis : COMPLETE(db, Only(G, f), k) # {}}
  /\ \A k \in DOMAIN a : a[k].count = Cardinality(COMPLETE(db, Only(G, f), k))
  /\ \A k \in Kpis : f \in DOMAIN _foreman_plant_kpi_entries(Once(db), G, k) =>
        k \in DOMAIN a /\ a[k].score = _foreman_plant_kpi_entries(Once(db), G, k)[f].score

\* So are those of a foreman's page.
LEMMA ForemanKpisAre ==
  ASSUME NEW db \in Databases, NEW G, IsFilter(G), NEW f
  PROVE  KpisOfForeman(foreman_kpi_breakdown(Once(db), Once(db), G, f), db, G, f)
<1> DEFINE H == Only(G, f)
           base == kpi_breakdown(Once(db), H)
           ent(k) == _foreman_plant_kpi_entries(Once(db), H, k)
           own(k) == _foreman_plant_kpi_entries(Once(db), G, k)
           entries == [k \in Kpis |-> ent(k)]
           a == foreman_kpi_breakdown(Once(db), Once(db), G, f)
<1>1. a = PlantsAveraged(base, entries, f)
  BY TableIs DEF foreman_kpi_breakdown
<1>2. \A x : Workers[x[1]].foreman = f => (_apply_filters(G, x) <=> _apply_filters(H, x))
  BY OnlyIs
<1> HIDE DEF H
<1>3. /\ DOMAIN base = {k \in Kpis : COMPLETE(db, H, k) # {}}
      /\ \A k \in DOMAIN base : base[k] = GroupScore(db, k, COMPLETE(db, H, k))
  BY BreakdownIs
<1>4. \A k \in Kpis : entries[k] = ent(k)
  OBVIOUS
<1>5. \A k : (f \in DOMAIN own(k) <=> f \in DOMAIN ent(k)) /\ (f \in DOMAIN own(k) => own(k)[f] = ent(k)[f])
  BY <1>2, EntriesSame
<1>6. \A k : f \in DOMAIN ent(k) => COMPLETE(db, H, k) # {}
  BY EntriesAre
<1> HIDE DEF base, ent, own, entries, a
<1>7. a = [k \in DOMAIN base |->
             IF f \in DOMAIN entries[k]
             THEN [score |-> entries[k][f].score, count |-> base[k].count, plants |-> entries[k][f].plants]
             ELSE [score |-> base[k].score, count |-> base[k].count, plants |-> <<>>]]
  BY <1>1, TableIs DEF PlantsAveraged
<1>8. DOMAIN a = DOMAIN base
  BY <1>7
<1>9. \A k \in DOMAIN a : a[k].count = base[k].count
  BY <1>7
<1>10. \A k \in DOMAIN base : base[k].count = Cardinality(COMPLETE(db, H, k))
  <2>1. \A k, S : GroupScore(db, k, S).count = Cardinality(S)
    BY DEF GroupScore
  <2>2. QED
    BY <1>3, <2>1
<1>11. \A k \in Kpis : f \in DOMAIN own(k) => k \in DOMAIN a
  BY <1>3, <1>5, <1>6, <1>8
<1>12. \A k \in Kpis : f \in DOMAIN own(k) => a[k].score = own(k)[f].score
  <2> SUFFICES ASSUME NEW k \in Kpis, f \in DOMAIN own(k) PROVE a[k].score = own(k)[f].score
    OBVIOUS
  <2>1. k \in DOMAIN base /\ f \in DOMAIN entries[k]
    BY <1>4, <1>5, <1>8, <1>11
  <2>2. a[k].score = entries[k][f].score
    BY <1>7, <2>1
  <2>3. entries[k] = ent(k) /\ own(k)[f] = ent(k)[f]
    BY <1>4, <1>5
  <2>4. QED
    BY <2>2, <2>3
<1>13. QED
  BY <1>3, <1>8, <1>9, <1>10, <1>11, <1>12 DEF a, own, H, KpisOfForeman

\* A foreman whose scores of KPIs are all at least x has a total of at least x,
\* when he was measured on enough of them.
LEMMA TotalAtLeast ==
  ASSUME NEW items, DOMAIN items \subseteq Kpis, DOMAIN items # {}, NEW W, NEW x \in 0 .. 120,
         _combine_group(items, W).reliable,
         \A k \in DOMAIN items : items[k].score \in x .. 120
  PROVE  x <= _combine_group(items, W).total
<1> DEFINE score == [k \in DOMAIN items |-> items[k].score]
<1>1. _combine_group(items, W).total = weighted_geometric_score(score)
  BY DEF _combine_group
<1>2. DOMAIN score = DOMAIN items /\ \A k \in DOMAIN score : score[k] \in x .. 120
  OBVIOUS
<1> HIDE DEF score
<1>3. x <= weighted_geometric_score(score)
  <2>1. 120 \in 0 .. 120
    OBVIOUS
  <2>2. QED
    BY <1>2, <2>1, MeanBetween
<1>4. QED
  BY <1>1, <1>3

\* A foreman with a low general score has a low KPI.
LEMMA LowHasLowPart ==
  ASSUME NEW db \in Databases, NEW G, IsFilter(G), NEW f, NEW bonus \in Nat,
         f \in DOMAIN foreman_scores(Once(db), G),
         foreman_scores(Once(db), G)[f].reliable,
         general_performance_score(foreman_scores(Once(db), G)[f].total, bonus) < 70
  PROVE  AtLevels(foreman_kpi_breakdown(Once(db), Once(db), G, f), {"Kritik"}) # {}
<1> DEFINE a     == foreman_kpi_breakdown(Once(db), Once(db), G, f)
           own(k) == _foreman_plant_kpi_entries(Once(db), G, k)
           items == PartsOf(Once(db), G, f)
           W     == active_kpi_weight_sum(G)
<1>1. /\ foreman_scores(Once(db), G)[f] = _combine_group(items, W)
      /\ \E k \in Kpis : f \in DOMAIN own(k)
  BY ForemanMadeOf
<1>2. \A k \in Kpis : f \in DOMAIN own(k) => k \in DOMAIN a /\ a[k].score = own(k)[f].score
  BY ForemanKpisAre DEF KpisOfForeman
<1>3. \A k : f \in DOMAIN own(k) => own(k)[f].score \in 0 .. 120
  BY EntriesAre
<1> HIDE DEF own, a, W
<1>4. /\ DOMAIN items = {k \in Kpis : f \in DOMAIN own(k)}
      /\ \A k \in DOMAIN items : items[k] = own(k)[f]
  BY DEF PartsOf, own
<1> HIDE DEF items
<1>5. DOMAIN items \subseteq Kpis /\ DOMAIN items # {}
  BY <1>1, <1>4
<1> SUFFICES ASSUME AtLevels(a, {"Kritik"}) = {} PROVE FALSE
  BY DEF a
<1>6. \A k \in DOMAIN items : items[k].score \in 70 .. 120
  <2> SUFFICES ASSUME NEW k \in DOMAIN items PROVE items[k].score \in 70 .. 120
    OBVIOUS
  <2>1. k \in DOMAIN a /\ a[k].score = items[k].score /\ items[k].score \in 0 .. 120
    BY <1>2, <1>3, <1>4
  <2>2. resolve_performance_level(a[k].score) # "Kritik"
    BY <2>1 DEF AtLevels
  <2>3. QED
    BY <2>1, <2>2 DEF resolve_performance_level
<1>7. _combine_group(items, W).reliable
  BY <1>1
<1> DEFINE t == _combine_group(items, W).total
<1>8. 70 <= t /\ t \in 0 .. 120
  <2>1. 70 \in 0 .. 120
    OBVIOUS
  <2>2. QED
    BY <2>1, <1>5, <1>6, <1>7, TotalAtLeast, CombinedIs
<1>9. general_performance_score(t, bonus) < 70
  BY <1>1
<1> HIDE DEF t
<1>10. QED
  BY <1>8, <1>9 DEF general_performance_score, AtMost

\* Every KPI of a foreman is at one of the three levels.
LEMMA LevelsOfKpis ==
  ASSUME NEW entries
  PROVE  /\ AtLevels(entries, {"Basarili"}) \cup AtLevels(entries, {"Kritik", "Gelistirilmeli"}) = DOMAIN entries
         /\ AtLevels(entries, {"Kritik"}) \subseteq AtLevels(entries, {"Kritik", "Gelistirilmeli"})
BY DEF AtLevels, resolve_performance_level

\* The report a says what the month's page and the page of the month before say, if he was
\* assigned in the month.
ReportMatches(a, assigned, page, before, kpis) ==
  /\ ~a.insufficient_data <=> page.reliable /\ assigned
  /\ ~a.insufficient_data =>
       /\ a.score = page.general /\ a.operational = page.operational
       /\ a.level = page.level
       /\ a.strong \cup a.improve = kpis /\ a.critical \subseteq a.improve
       /\ page.level = "Kritik" => a.critical # {}
       /\ a.previous = IF before.reliable THEN <<page.general - before.general>> ELSE <<>>

\* What a report with an assignment behind it says of one database.
LEMMA MeasuredReportStands ==
  ASSUME NEW s, NEW db \in Databases, Saw(s, 17, db), NEW t, Saw(t, 7, db),
         NEW f, NEW m, NEW ord
  PROVE  ReportMatches(MeasuredReport(s, f, m), TRUE,
                       get_foreman(t, f, _month_bounds(m), ord), get_foreman(t, f, _month_bounds(m - 1), ord),
                       DOMAIN get_foreman_kpis(t, f, _month_bounds(m)))
<1> DEFINE a       == MeasuredReport(s, f, m)
           page(n) == get_foreman(t, f, _month_bounds(n), ord)
           all(n)  == foreman_scores(Once(db), _month_bounds(n))
           entries == foreman_kpi_breakdown(Once(db), Once(db), _month_bounds(m), f)
           good(n) == f \in DOMAIN all(n) /\ all(n)[f].reliable
           now     == GeneralScore(f, all(m), db.bonus)
           gain    == Gain(f, now, all(m - 1), db.bonus)
           weeks   == trend(Call(s, 11), _month_bounds(m), "month", f)
<1>1. a = ReportData(f, all(m), now, entries, weeks, gain)
  <2>1. /\ Call(s, 1) = Once(db) /\ Call(s, 4) = Once(db) /\ Call(s, 7) = Once(db) /\ Call(s, 14) = Once(db)
        /\ s[10] = db /\ s[17] = db
    BY CallSaw DEF Saw
  <2> HIDE DEF weeks
  <2>2. a = ReportData(f, foreman_scores(Call(s, 1), _month_bounds(m)),
                       GeneralScore(f, foreman_scores(Call(s, 1), _month_bounds(m)), s[10].bonus),
                       foreman_kpi_breakdown(Call(s, 4), Call(s, 7), _month_bounds(m), f), weeks,
                       Gain(f, GeneralScore(f, foreman_scores(Call(s, 1), _month_bounds(m)), s[10].bonus),
                            foreman_scores(Call(s, 14), _month_bounds(m - 1)), s[17].bonus))
    BY DEF MeasuredReport, weeks
  <2> HIDE DEF a
  <2>3. QED
    BY <2>1, <2>2
<1>2. \A n : IsFilter(_month_bounds(n))
  BY DEF IsFilter, _month_bounds
<1>3. get_foreman_kpis(t, f, _month_bounds(m)) = entries
  <2>1. Call(t, 1) = Once(db) /\ Call(t, 4) = Once(db)
    BY CallSaw
  <2>2. QED
    BY <2>1 DEF get_foreman_kpis
<1>4. ASSUME NEW n
      PROVE  /\ page(n).reliable = good(n)
             /\ good(n) => /\ page(n).operational = all(n)[f].total
                           /\ page(n).general = GeneralScore(f, all(n), db.bonus)
             /\ page(n).level = resolve_performance_level(page(n).general)
  BY ForemanPageIs DEF GeneralScore
<1>5. good(m) => db.bonus[f] \in Nat
  BY ForemanScoresAre DEF Databases
<1>6. good(m) /\ resolve_performance_level(now) = "Kritik" => AtLevels(entries, {"Kritik"}) # {}
  <2> SUFFICES ASSUME good(m), resolve_performance_level(now) = "Kritik"
               PROVE  AtLevels(entries, {"Kritik"}) # {}
    OBVIOUS
  <2>1. now < 70
    <3> HIDE DEF now
    <3>1. QED
      BY DEF resolve_performance_level
  <2>2. QED
    BY <2>1, <1>2, <1>5, LowHasLowPart DEF GeneralScore
<1> HIDE DEF a, page, entries, weeks, gain, now, all
<1>7. ~good(m) => a = InsufficientData
  BY <1>1 DEF ReportData
<1>8. good(m) => /\ a.insufficient_data = FALSE
                 /\ a.score = now /\ a.operational = all(m)[f].total
                 /\ a.level = resolve_performance_level(now)
                 /\ a.strong = AtLevels(entries, {"Basarili"})
                 /\ a.improve = AtLevels(entries, {"Kritik", "Gelistirilmeli"})
                 /\ a.critical = AtLevels(entries, {"Kritik"})
                 /\ a.previous = gain
  BY <1>1 DEF ReportData
<1>9. InsufficientData.insufficient_data = TRUE
  BY DEF InsufficientData
<1>10. gain = IF good(m - 1) THEN <<now - GeneralScore(f, all(m - 1), db.bonus)>> ELSE <<>>
  BY DEF gain, Gain
<1>11. good(m) => page(m).general = now
  BY <1>4 DEF now
<1>12. a.insufficient_data = ~good(m)
  <2>1. CASE good(m)
    <3>1. a.insufficient_data = FALSE
      BY <2>1, <1>8
    <3>2. QED
      BY <2>1, <3>1
  <2>2. CASE ~good(m)
    <3>1. a.insufficient_data = TRUE
      BY <2>2, <1>7, <1>9
    <3>2. QED
      BY <2>2, <3>1
  <2>3. QED
    BY <2>1, <2>2
<1>13. page(m).reliable = good(m) /\ page(m - 1).reliable = good(m - 1)
  BY <1>4
<1>14. good(m) => a.previous = IF page(m - 1).reliable
                               THEN <<page(m).general - page(m - 1).general>> ELSE <<>>
  <2> HIDE DEF good
  <2>1. good(m - 1) => page(m - 1).general = GeneralScore(f, all(m - 1), db.bonus)
    BY <1>4
  <2>2. QED
    BY <1>8, <1>10, <1>11, <1>13, <2>1
<1>15. good(m) => /\ a.strong \cup a.improve = DOMAIN entries /\ a.critical \subseteq a.improve
                  /\ page(m).level = "Kritik" => a.critical # {}
  <2> SUFFICES ASSUME good(m)
               PROVE  /\ a.strong \cup a.improve = DOMAIN entries /\ a.critical \subseteq a.improve
                      /\ page(m).level = "Kritik" => a.critical # {}
    OBVIOUS
  <2> HIDE DEF good
  <2>1. a.strong \cup a.improve = DOMAIN entries /\ a.critical \subseteq a.improve
    BY <1>8, LevelsOfKpis
  <2>2. page(m).level = resolve_performance_level(now)
    BY <1>4, <1>11
  <2>3. page(m).level = "Kritik" => a.critical # {}
    BY <1>6, <1>8, <2>2
  <2>4. QED
    BY <2>1, <2>3
<1>16. good(m) => /\ a.score = page(m).general /\ a.operational = page(m).operational
                  /\ a.level = page(m).level
  BY <1>4, <1>8, <1>11
<1> HIDE DEF good
<1>17. /\ ~a.insufficient_data <=> page(m).reliable
       /\ ~a.insufficient_data => good(m)
  BY <1>12, <1>13
<1>18. QED
  BY <1>3, <1>14, <1>15, <1>16, <1>17 DEF a, page, ReportMatches

\* What the monthly report says of one database.
LEMMA ReportStands ==
  ASSUME NEW s, NEW db \in Databases, Saw(s, 17, db), NEW t, Saw(t, 7, db),
         NEW f, NEW m, NEW ord
  PROVE  ReportMatches(_build_report_data(s, f, m), assignments_overlapping_period(f, m, m) # {},
                       get_foreman(t, f, _month_bounds(m), ord), get_foreman(t, f, _month_bounds(m - 1), ord),
                       DOMAIN get_foreman_kpis(t, f, _month_bounds(m)))
<1> DEFINE assigned == assignments_overlapping_period(f, m, m) # {}
           page(n)  == get_foreman(t, f, _month_bounds(n), ord)
           kpis     == DOMAIN get_foreman_kpis(t, f, _month_bounds(m))
<1>1. CASE assigned
  <2>1. _build_report_data(s, f, m) = MeasuredReport(s, f, m)
    BY <1>1 DEF _build_report_data
  <2>2. ReportMatches(MeasuredReport(s, f, m), TRUE, page(m), page(m - 1), kpis)
    BY MeasuredReportStands
  <2> HIDE DEF page, kpis
  <2>3. ReportMatches(MeasuredReport(s, f, m), assigned, page(m), page(m - 1), kpis)
    BY <1>1, <2>2 DEF ReportMatches
  <2> HIDE DEF assigned
  <2>4. QED
    BY <2>1, <2>3 DEF assigned, page, kpis
<1>2. CASE ~assigned
  <2>1. _build_report_data(s, f, m) = InsufficientData
    BY <1>2 DEF _build_report_data
  <2>2. InsufficientData.insufficient_data = TRUE
    BY DEF InsufficientData
  <2> HIDE DEF page, kpis
  <2>3. ReportMatches(InsufficientData, assigned, page(m), page(m - 1), kpis)
    BY <1>2, <2>2 DEF ReportMatches
  <2> HIDE DEF assigned
  <2>4. QED
    BY <2>1, <2>3 DEF assigned, page, kpis
<1>3. QED
  BY <1>1, <1>2

\* A foreman's report by e-mail says what his pages show.
THEOREM MonthlyReportMatchesPageCorrect == ViewsSpec => []MonthlyReportMatchesPage
<1>1. ASSUME ViewsInv, Answered({"monthly_report"}), Steady PROVE MonthlyReportMatchesPage
  <2>1. shown.page = "monthly_report" /\ shown \notin {NotYet, Refused}
    BY <1>1 DEF Answered, NotYet, Refused, None
  <2>2. /\ Saw(Seen, Selects(req.page), hist[at[1]]) /\ hist[at[1]] \in Databases
        /\ shown.ord \in Orders /\ shown.page = req.page
        /\ shown.answer = Page(req, Seen, shown.ord)
        /\ Now = Still(hist[at[1]])
    BY <1>1, <2>1, SteadyPage
  <2>3. Selects(req.page) = 17
    BY <2>1, <2>2, SelectsAre
  <2>4. shown.answer = _build_report_data(Seen, req.id, req.arg)
    <3>1. req.page \in OfForeman
      BY <2>1, <2>2 DEF OfForeman
    <3>2. Page(req, Seen, shown.ord) = ForemanPages(req, Seen, shown.ord)
      BY <3>1, PageIs
    <3>3. QED
      BY <2>1, <2>2, <3>2 DEF ForemanPages
  <2>5. Saw(Now, 7, hist[at[1]])
    BY <2>2 DEF Still, Saw
  <2> DEFINE page(n) == get_foreman(Now, req.id, _month_bounds(n), shown.ord)
  <2>6. ReportMatches(_build_report_data(Seen, req.id, req.arg),
                      assignments_overlapping_period(req.id, req.arg, req.arg) # {}, page(req.arg), page(req.arg - 1),
                      DOMAIN get_foreman_kpis(Now, req.id, _month_bounds(req.arg)))
    BY <2>2, <2>3, <2>5, ReportStands
  <2>7. QED
    BY <2>4, <2>6, Zenon DEF MonthlyReportMatchesPage, ReportMatches
<1>2. ViewsInv => MonthlyReportMatchesPage
  <2>1. ~(Answered({"monthly_report"}) /\ Steady) => MonthlyReportMatchesPage
    BY DEF MonthlyReportMatchesPage
  <2>2. QED
    BY <1>1, <2>1
<1>3. QED
  BY <1>2, ViewsInvariantCorrect, PTL

\* What different pages say of the same data is the same.
THEOREM PagesAgreeCorrect == ViewsSpec => []PagesAgree
BY RankMatchesRankingCorrect, ChiefPagesAgreeCorrect, FactoryRankInFactoryCorrect,
   ReportsAgreeCorrect, SnapshotMatchesSectionsCorrect, MonthlyReportMatchesPageCorrect, PTL
   DEF PagesAgree

-----------------------------------------------------------------------------
(* The least of a list, and the total of a plant between its KPI scores.   *)

\* The last of a descending list first: no entry is smaller than the first of the ascending one.
LEMMA FirstIsLeast ==
  ASSUME NEW val, NEW ord, Sortable(val, ord), DOMAIN val # {}
  PROVE  \A x \in DOMAIN val : val[Sorted(val, ord, FALSE)[1]] <= val[x]
<1> DEFINE N == Cardinality(DOMAIN val)
           s == Sorted(val, ord, FALSE)
<1>1. N \in Nat \ {0}
  BY FS_EmptySet, FS_CardinalityType DEF Sortable
<1>2. s[1] \in DOMAIN val
  <2>1. \A desc \in BOOLEAN : Sorted(val, ord, desc)[1] \in DOMAIN val
    BY FirstIsBest
  <2>2. QED
    BY <2>1
<1>3. \A x \in DOMAIN val : \E p \in 1 .. N : s[p] = x
  <2>1. \A desc \in BOOLEAN : \A x \in DOMAIN val :
           /\ Place(val, ord, desc, x) \in 1 .. N
           /\ Sorted(val, ord, desc)[Place(val, ord, desc, x)] = x
    BY SortedIs
  <2>2. \A x \in DOMAIN val : Place(val, ord, FALSE, x) \in 1 .. N /\ s[Place(val, ord, FALSE, x)] = x
    BY <2>1
  <2> HIDE DEF N, s
  <2>3. QED
    BY <2>2
<1>4. \A j \in 1 .. N : 1 < j => Before(val, ord, FALSE, s[1], s[j])
  <2>1. \A desc \in BOOLEAN : \A i, j \in 1 .. N :
           i < j => Before(val, ord, desc, Sorted(val, ord, desc)[i], Sorted(val, ord, desc)[j])
    BY SortedOrder
  <2>2. \A i, j \in 1 .. N : i < j => Before(val, ord, FALSE, s[i], s[j])
    BY <2>1
  <2>3. 1 \in 1 .. N
    BY <1>1
  <2> HIDE DEF s, N
  <2>4. QED
    BY <2>2, <2>3
<1> HIDE DEF N, s
<1>5. ASSUME NEW x \in DOMAIN val PROVE val[s[1]] <= val[x]
  <2>1. PICK p \in 1 .. N : s[p] = x
    BY <1>3
  <2>2. val[s[1]] \in Int /\ val[x] \in Int
    BY <1>2 DEF Sortable
  <2>3. CASE p = 1
    BY <2>1, <2>2, <2>3
  <2>4. CASE 1 < p
    <3>1. Before(val, ord, FALSE, s[1], x)
      BY <1>4, <2>1, <2>4
    <3>2. QED
      BY <2>2, <3>1 DEF Before
  <2>5. p = 1 \/ 1 < p
    BY <1>1
  <2>6. QED
    BY <2>3, <2>4, <2>5
<1>6. QED
  BY <1>5 DEF s

\* The scores of KPIs can be sorted.
LEMMA KpisSortable ==
  ASSUME NEW score, DOMAIN score \subseteq Kpis, \A k \in DOMAIN score : score[k] \in Int,
         NEW ord \in Orders
  PROVE  Sortable(score, ord)
<1>1. IsFiniteSet(DOMAIN score)
  <2>1. IsFiniteSet({"GSF"} \cup {"AGIR_GITME"})
    BY FS_Singleton, FS_Union
  <2>2. Kpis = {"GSF"} \cup {"AGIR_GITME"}
    BY ViewsAssumption
  <2>3. QED
    BY <2>1, <2>2, FS_Subset
<1>2. \A x, y \in Kpis : ord[x] \in Int /\ (ord[x] = ord[y] => x = y)
  BY ViewsAssumption
<1>3. QED
  BY <1>1, <1>2 DEF Sortable

\* A plant's total and the KPI scores next to it.
PlantTotalExplained(a, scores) ==
  /\ (a.weakest = None) = (DOMAIN scores = {})
  /\ DOMAIN scores # {} /\ a.total > 0 =>
        /\ a.kpis[a.weakest] <= a.total /\ a.total <= a.kpis[a.strongest]
        /\ a.total = weighted_geometric_score(a.kpis)

\* On one database a plant's total is the mean of its KPI scores.
LEMMA PlantPageStands ==
  ASSUME NEW s, NEW db \in Databases, Saw(s, 9, db), NEW G, IsFilter(G), NEW p, NEW ord \in Orders
  PROVE  PlantTotalExplained(get_plant_summary(s, p, G, ord), plant_scores(Once(db), OfPlant(G, p)))
<1> DEFINE H == OfPlant(G, p)
           b == kpi_breakdown(Once(db), H)
           score == ScoreTable(b)
           scores == plant_scores(Once(db), H)
           W == active_kpi_weight_sum(H)
           foremen == Totals(foreman_scores(Once(db), H))
           a == get_plant_summary(s, p, G, ord)
           rows(k) == COMPLETE(db, H, k)
           mine(k, g) == RowsOf(db, H, k, <<"plant">>, <<g>>)
           lo == Sorted(score, ord, FALSE)[1]
           hi == Sorted(score, ord, TRUE)[1]
<1>1. Call(s, 1) = Once(db) /\ Call(s, 4) = Once(db) /\ Call(s, 7) = Once(db)
  BY CallSaw
<1>2. a = PlantSummary(p, scores, foremen, score, ord)
  BY <1>1 DEF get_plant_summary, kpi_summary_of_plant, kpi_summary
<1>3. H.plants = {p}
  BY DEF OfPlant, IsFilter
<1>4. /\ DOMAIN b = {k \in Kpis : rows(k) # {}}
      /\ \A k \in DOMAIN b : b[k] = GroupScore(db, k, rows(k))
  BY BreakdownIs
<1>5. /\ \A g : g \in DOMAIN scores <=> \E k \in Kpis : mine(k, g) # {}
      /\ \A g \in DOMAIN scores :
           scores[g] = _combine_group([k \in {j \in Kpis : mine(j, g) # {}} |-> GroupScore(db, k, mine(k, g))], W)
  BY GroupedAre DEF plant_scores
<1>6. \A k, g : \A x : x \in mine(k, g) <=> x \in rows(k) /\ Workers[x[1]].plant = g
  <2>1. \A x : _group_key(<<"plant">>, x) = <<Column("plant", x)>>
    BY KeysAre
  <2>2. \A x : Column("plant", x) = Workers[x[1]].plant
    BY DEF Column
  <2>3. \A x, g : _group_key(<<"plant">>, x) = <<g>> <=> Workers[x[1]].plant = g
    BY <2>1, <2>2
  <2>4. QED
    BY <2>3 DEF RowsOf
<1>7. \A k : \A x \in rows(k) : x \in Cells /\ Passes(H.plants, Workers[x[1]].plant)
  BY DEF COMPLETE, _apply_filters
<1>8. \A k : \A S \in SUBSET rows(k) : S # {} => GroupScore(db, k, S).score \in 0 .. 120
  BY GroupScoreIs
<1> HIDE DEF H
<1> HIDE DEF b, scores, W, foremen, a, rows, mine, score
<1>9. score = [k \in DOMAIN b |-> b[k].score] /\ DOMAIN score = DOMAIN b
  BY DEF score, ScoreTable
<1>10. \A k \in DOMAIN score : k \in Kpis /\ score[k] \in 0 .. 120
  BY <1>4, <1>8, <1>9
<1>11. Sortable(score, ord)
  <2>1. DOMAIN score \subseteq Kpis /\ \A k \in DOMAIN score : score[k] \in Int
    BY <1>10
  <2>2. QED
    BY <2>1, KpisSortable
<1>12. (DOMAIN scores = {}) <=> (DOMAIN score = {})
  <2>1. ASSUME NEW k \in Kpis, rows(k) # {} PROVE DOMAIN scores # {}
    <3>1. PICK x \in rows(k) : TRUE
      BY <2>1
    <3>2. mine(k, Workers[x[1]].plant) # {}
      BY <1>6
    <3>3. QED
      BY <1>5, <3>2
  <2>2. DOMAIN scores # {} => \E k \in Kpis : rows(k) # {}
    BY <1>5, <1>6
  <2>3. QED
    BY <2>1, <2>2, <1>4, <1>9
<1>13. a.weakest = FirstOf(score, ord, FALSE) /\ a.strongest = FirstOf(score, ord, TRUE) /\ a.kpis = score
       /\ a.total = IF p \in DOMAIN scores THEN scores[p].total ELSE 0
  BY <1>2 DEF PlantSummary
<1>14. DOMAIN score # {} => /\ a.weakest = lo /\ a.strongest = hi
                            /\ lo \in DOMAIN score /\ hi \in DOMAIN score
                            /\ \A k \in DOMAIN score : score[k] \in score[lo] .. score[hi]
  <2> SUFFICES ASSUME DOMAIN score # {}
               PROVE  /\ a.weakest = lo /\ a.strongest = hi
                      /\ lo \in DOMAIN score /\ hi \in DOMAIN score
                      /\ \A k \in DOMAIN score : score[k] \in score[lo] .. score[hi]
    OBVIOUS
  <2>1. \A desc \in BOOLEAN : /\ Sorted(score, ord, desc)[1] \in DOMAIN score
                              /\ FirstOf(score, ord, desc) = Sorted(score, ord, desc)[1]
    BY <1>11, FirstIsBest
  <2>2. lo \in DOMAIN score /\ FirstOf(score, ord, FALSE) = lo
    BY <2>1
  <2>3. hi \in DOMAIN score /\ FirstOf(score, ord, TRUE) = hi
    BY <2>1
  <2>4. \A k \in DOMAIN score : score[k] <= score[hi]
    BY <1>11, FirstIsBest
  <2>5. \A k \in DOMAIN score : score[lo] <= score[k]
    BY <1>11, FirstIsLeast
  <2> HIDE DEF lo, hi
  <2>6. \A k \in DOMAIN score : score[k] \in score[lo] .. score[hi]
    BY <1>10, <2>2, <2>3, <2>4, <2>5
  <2>7. QED
    BY <1>13, <2>2, <2>3, <2>6
<1> HIDE DEF lo, hi
<1>15. (a.weakest = None) = (DOMAIN scores = {})
  <2>1. CASE DOMAIN score = {}
    BY <1>12, <1>13, <2>1 DEF FirstOf
  <2>2. CASE DOMAIN score # {}
    <3>1. a.weakest \in Kpis
      BY <1>10, <1>14, <2>2
    <3>2. None \notin Kpis
      BY ViewsAssumption DEF None
    <3>3. QED
      BY <1>12, <2>2, <3>1, <3>2
  <2>3. QED
    BY <2>1, <2>2
<1>16. ASSUME a.total > 0 PROVE a.total = weighted_geometric_score(score)
  <2>1. p \in DOMAIN scores /\ a.total = scores[p].total
    BY <1>13, <1>16
  <2>2. p \in Plants
    <3>1. PICK k \in Kpis : mine(k, p) # {}
      BY <1>5, <2>1
    <3>2. PICK x \in rows(k) : Workers[x[1]].plant = p
      BY <1>6, <3>1
    <3>3. x[1] \in DOMAIN Workers
      BY <1>7, <3>2, CellsAre
    <3>4. QED
      BY <3>2, <3>3, ViewsAssumption
  <2>3. H.plants # NoFilter
    BY <1>3, <2>2, ViewsAssumption DEF NoFilter
  <2>4. \A k : mine(k, p) = rows(k)
    <3>1. \A k : \A x \in rows(k) : Workers[x[1]].plant = p
      BY <1>3, <1>7, <2>3 DEF Passes
    <3>2. QED
      BY <1>6, <3>1
  <2> DEFINE items == [k \in {j \in Kpis : rows(j) # {}} |-> GroupScore(db, k, rows(k))]
  <2>5. scores[p] = _combine_group(items, W)
    BY <1>5, <2>1, <2>4
  <2>6. DOMAIN items = DOMAIN b /\ \A k \in DOMAIN items : items[k] = b[k]
    BY <1>4
  <2> HIDE DEF items
  <2>7. [k \in DOMAIN items |-> items[k].score] = score
    BY <1>9, <2>6
  <2>8. _combine_group(items, W).total \in {0, weighted_geometric_score(score)}
    BY <2>7 DEF _combine_group
  <2>9. QED
    BY <1>16, <2>1, <2>5, <2>8
<1>17. ASSUME DOMAIN scores # {}, a.total > 0
       PROVE  a.kpis[a.weakest] <= a.total /\ a.total <= a.kpis[a.strongest]
  <2>1. DOMAIN score # {} /\ DOMAIN score \subseteq Kpis
    BY <1>10, <1>12, <1>17
  <2>2. score[lo] \in 0 .. 120 /\ score[hi] \in 0 .. 120
    BY <1>10, <1>14, <2>1
  <2>3. score[lo] <= weighted_geometric_score(score) /\ weighted_geometric_score(score) <= score[hi]
    BY <1>14, <2>1, <2>2, MeanBetween
  <2>4. QED
    BY <1>13, <1>14, <1>16, <1>17, <2>1, <2>3
<1>18. QED
  BY <1>13, <1>15, <1>16, <1>17 DEF PlantTotalExplained, a, scores, H

\* The request being served has a filter, and asks for something.
LEMMA RequestIs ==
  ASSUME ViewsInv
  PROVE  /\ IsFilter(F) /\ req.id # "*"
         /\ req.page \in OfForeman => req.id # None
<1>1. PICK r \in Requests : req = Received(r)
  BY DEF ViewsInv, ViewsTypeOK
<1>2. r.id # "*" /\ (r.page \in OfForeman => r.id # None)
  BY ViewsAssumption
<1>3. QED
  BY <1>1, <1>2, ReceivedIs DEF F

\* A plant's total lies between its weakest and its strongest KPI.
THEOREM PlantTotalBetweenKpisCorrect == ViewsSpec => []PlantTotalBetweenKpis
<1>1. ASSUME ViewsInv, Answered({"plant_summary"}), Steady PROVE PlantTotalBetweenKpis
  <2>1. shown.page = "plant_summary" /\ shown \notin {NotYet, Refused}
    BY <1>1 DEF Answered, NotYet, Refused, None
  <2>2. /\ Saw(Seen, Selects(req.page), hist[at[1]]) /\ hist[at[1]] \in Databases
        /\ shown.ord \in Orders /\ shown.page = req.page
        /\ shown.answer = Page(req, Seen, shown.ord)
        /\ Now = Still(hist[at[1]])
    BY <1>1, <2>1, SteadyPage
  <2>3. Selects(req.page) = 9
    BY <2>1, <2>2, SelectsAre
  <2>4. shown.answer = get_plant_summary(Seen, req.id, F, shown.ord)
    <3>1. req.page \in OfAPlant
      BY <2>1, <2>2 DEF OfAPlant
    <3>2. Page(req, Seen, shown.ord) = PlantPages(req, Seen, shown.ord)
      BY <3>1, PageIs
    <3>3. QED
      BY <2>1, <2>2, <3>2 DEF PlantPages, F
  <2>5. IsFilter(F)
    BY <1>1, RequestIs
  <2>6. Call(Now, 1) = Once(hist[at[1]])
    BY <2>2 DEF Still, Call, Once
  <2>7. PlantTotalExplained(get_plant_summary(Seen, req.id, F, shown.ord),
                            plant_scores(Once(hist[at[1]]), OfPlant(F, req.id)))
    BY <2>2, <2>3, <2>5, PlantPageStands
  <2>8. QED
    BY <2>4, <2>6, <2>7 DEF PlantTotalBetweenKpis, PlantTotalExplained
<1>2. ViewsInv => PlantTotalBetweenKpis
  <2>1. ~(Answered({"plant_summary"}) /\ Steady) => PlantTotalBetweenKpis
    BY DEF PlantTotalBetweenKpis
  <2>2. QED
    BY <1>1, <2>1
<1>3. QED
  BY <1>2, ViewsInvariantCorrect, PTL

-----------------------------------------------------------------------------
(* The parts shown next to a total: foreman, chief, record and KPI.        *)

\* A combined score is made of the scores and the counts of its parts.
LEMMA CombineSame ==
  ASSUME NEW a, NEW b, DOMAIN a = DOMAIN b, \A k \in DOMAIN a : a[k].score = b[k].score, NEW W
  PROVE  /\ _combine_group(a, W).total = _combine_group(b, W).total
         /\ (\A k \in DOMAIN a : a[k].count = b[k].count) => _combine_group(a, W) = _combine_group(b, W)
<1> DEFINE score(e) == [k \in DOMAIN e |-> e[k].score]
           count(e) == [k \in DOMAIN e |-> e[k].count]
           low      == 2 * SumOver(DOMAIN a, Weight) < W
<1>1. score(a) = score(b)
  OBVIOUS
<1>2. (\A k \in DOMAIN a : a[k].count = b[k].count) => count(a) = count(b)
  OBVIOUS
<1>3. \A e : DOMAIN e = DOMAIN a =>
        _combine_group(e, W) = [total    |-> IF low THEN 0 ELSE weighted_geometric_score(score(e)),
                                reliable |-> ~low /\ SumOver(DOMAIN a, Weight) >= W,
                                count    |-> SumOver(DOMAIN a, count(e))]
  BY DEF _combine_group
<1> HIDE DEF score, count, low
<1>4. _combine_group(a, W).total = _combine_group(b, W).total
  <2>1. \A e : DOMAIN e = DOMAIN a =>
          _combine_group(e, W).total = IF low THEN 0 ELSE weighted_geometric_score(score(e))
    BY <1>3
  <2>2. QED
    BY <2>1, <1>1
<1>5. QED
  BY <1>1, <1>2, <1>3, <1>4

\* The rows of a foreman, of all his plants.
LEMMA ForemanRows ==
  ASSUME NEW db \in Databases, NEW G, IsFilter(G), NEW f, f # "*", NEW k
  PROVE  \A x : x \in COMPLETE(db, Only(G, f), k)
                  <=> x \in COMPLETE(db, G, k) /\ Workers[x[1]].foreman = f
<1>1. \A x : Workers[x[1]].foreman = f => (_apply_filters(G, x) <=> _apply_filters(Only(G, f), x))
  BY OnlyIs
<1>2. \A x : _apply_filters(Only(G, f), x) => Workers[x[1]].foreman = f
  BY OnlyIs
<1>3. QED
  BY <1>1, <1>2 DEF COMPLETE

\* A foreman's entry of a KPI counts them all.
LEMMA ForemanCount ==
  ASSUME NEW db \in Databases, NEW G, IsFilter(G), NEW f, f # "*", NEW k,
         f \in DOMAIN _foreman_plant_kpi_entries(Once(db), G, k)
  PROVE  _foreman_plant_kpi_entries(Once(db), G, k)[f].count = Cardinality(COMPLETE(db, Only(G, f), k))
<1> DEFINE d == _kpi_period_scores_multi(Once(db), G, k, PerPlant)
           entries == {key \in DOMAIN d : key[1] = f}
           S == COMPLETE(db, Only(G, f), k)
           place == [x \in S |-> <<Workers[x[1]].foreman, Workers[x[1]].plant>>]
           count == [key \in DOMAIN d |-> d[key].count]
           rows(key) == RowsOf(db, G, k, PerPlant, key)
<1>1. _foreman_plant_kpi_entries(Once(db), G, k)[f] = Average(d, f)
  BY EntriesAre
<1>2. Average(d, f).count = SumOver(entries, count)
  BY DEF Average
<1>3. /\ IsFiniteSet(DOMAIN d)
      /\ \A key \in DOMAIN d : key = <<key[1], key[2]>> /\ d[key] = GroupScore(db, k, rows(key))
      /\ \A key : key \in DOMAIN d <=> \E x \in COMPLETE(db, G, k) :
                     key = <<Workers[x[1]].foreman, Workers[x[1]].plant>>
      /\ \A key, x : x \in rows(key)
                       <=> x \in COMPLETE(db, G, k) /\ key = <<Workers[x[1]].foreman, Workers[x[1]].plant>>
  BY PlantGroupsAre
<1>4. \A x : x \in S <=> x \in COMPLETE(db, G, k) /\ Workers[x[1]].foreman = f
  BY ForemanRows
<1>5. IsFiniteSet(S)
  <2>1. IsFiniteSet(Cells) /\ S \subseteq Cells
    BY CellsAre
  <2>2. QED
    BY <2>1, FS_Subset
<1>6. \A x \in S : place[x] = <<Workers[x[1]].foreman, Workers[x[1]].plant>>
  OBVIOUS
<1>7. \A key \in DOMAIN d : count[key] = d[key].count
  OBVIOUS
<1>8. \A T : GroupScore(db, k, T).count = Cardinality(T)
  BY DEF GroupScore
<1>9. \A key : key \in entries <=> key \in DOMAIN d /\ key[1] = f
  OBVIOUS
<1> HIDE DEF d, S, place, count, rows, entries
<1>10. IsFiniteSet(entries)
  <2>1. entries \subseteq DOMAIN d
    BY <1>9
  <2>2. QED
    BY <1>3, <2>1, FS_Subset
<1>11. \A x \in S : place[x] \in entries
  <2> SUFFICES ASSUME NEW x \in S PROVE place[x] \in entries
    OBVIOUS
  <2>1. place[x] = <<f, Workers[x[1]].plant>> /\ x \in COMPLETE(db, G, k) /\ Workers[x[1]].foreman = f
    BY <1>4, <1>6
  <2>2. place[x] \in DOMAIN d
    BY <1>3, <2>1
  <2>3. place[x][1] = f
    BY <2>1
  <2>4. QED
    BY <1>9, <2>2, <2>3
<1>12. \A key \in entries : rows(key) = Part(S, place, key)
  <2> SUFFICES ASSUME NEW key \in entries PROVE \A x : x \in rows(key) <=> x \in Part(S, place, key)
    OBVIOUS
  <2>1. key = <<f, key[2]>>
    BY <1>3, <1>9
  <2>2. \A x : x \in rows(key) => x \in S /\ place[x] = key
    BY <1>3, <1>4, <1>6, <2>1
  <2>3. \A x \in S : place[x] = key => x \in rows(key)
    BY <1>3, <1>4, <1>6
  <2>4. QED
    BY <2>2, <2>3 DEF Part
<1>13. \A key \in entries : count[key] = Cardinality(Part(S, place, key))
  BY <1>3, <1>7, <1>8, <1>9, <1>12
<1>14. Total(count, entries) = Cardinality(S)
  BY <1>5, <1>10, <1>11, <1>13, CountOfGroups
<1>15. QED
  BY <1>1, <1>2, <1>14, SumOverIs DEF S

\* The KPI scores on a foreman's page make up his total.
LEMMA ForemanKpisExplain ==
  ASSUME NEW db \in Databases, NEW G, IsFilter(G), NEW f, f # "*"
  PROVE  LET scores == foreman_scores(Once(db), G)
             all    == foreman_kpi_breakdown(Once(db), Once(db), G, f)
         IN  /\ (f \in DOMAIN scores) = (DOMAIN all # {})
             /\ DOMAIN all # {} => _combine_group(all, active_kpi_weight_sum(G)) = scores[f]
<1> DEFINE scores == foreman_scores(Once(db), G)
           all    == foreman_kpi_breakdown(Once(db), Once(db), G, f)
           own(k) == _foreman_plant_kpi_entries(Once(db), G, k)
           parts  == PartsOf(Once(db), G, f)
           S(k)   == COMPLETE(db, Only(G, f), k)
           W      == active_kpi_weight_sum(G)
<1>1. /\ \A k : k \in DOMAIN all <=> k \in Kpis /\ S(k) # {}
      /\ \A k \in DOMAIN all : all[k].count = Cardinality(S(k))
      /\ \A k \in Kpis : f \in DOMAIN own(k) => k \in DOMAIN all /\ all[k].score = own(k)[f].score
  <2>1. KpisOfForeman(all, db, G, f)
    BY ForemanKpisAre
  <2> HIDE DEF all
  <2>2. QED
    BY <2>1 DEF KpisOfForeman
<1>2. /\ f \in DOMAIN scores <=> \E k \in Kpis : f \in DOMAIN own(k)
      /\ f \in DOMAIN scores => scores[f] = _combine_group(parts, W)
  BY ForemanMadeOf
<1>3. \A k : S(k) # {} => f \in DOMAIN own(k)
  BY ForemanRows, EntriesAre
<1>4. \A k : f \in DOMAIN own(k) => own(k)[f].count = Cardinality(S(k))
  BY ForemanCount
<1>5. DOMAIN parts = {k \in Kpis : f \in DOMAIN own(k)} /\ \A k \in DOMAIN parts : parts[k] = own(k)[f]
  BY DEF PartsOf
<1> HIDE DEF scores, all, own, parts, S, W
<1>6. DOMAIN all = DOMAIN parts
  BY <1>1, <1>3, <1>5
<1>7. \A k \in DOMAIN all : all[k].score = parts[k].score /\ all[k].count = parts[k].count
  BY <1>1, <1>4, <1>5, <1>6
<1>8. _combine_group(all, W) = _combine_group(parts, W)
  BY <1>6, <1>7, CombineSame
<1>9. f \in DOMAIN scores <=> DOMAIN all # {}
  BY <1>2, <1>5, <1>6
<1>10. QED
  BY <1>2, <1>8, <1>9 DEF scores, all, W

\* The values of a KPI among the foremen: those of their entries, for the same foremen.
LEMMA ValuesAre ==
  ASSUME NEW db \in Databases, NEW G, NEW k, NEW f
  PROVE  LET values  == foreman_kpi_values(db, Once(db), G, k)
             entries == _foreman_plant_kpi_entries(Once(db), G, k)
         IN  /\ f \in DOMAIN values <=> f \in DOMAIN entries
             /\ f \in DOMAIN values => values[f].score = entries[f].score
<1> DEFINE values  == foreman_kpi_values(db, Once(db), G, k)
           entries == _foreman_plant_kpi_entries(Once(db), G, k)
           by      == <<"foreman">>
           stats   == _kpi_period_stats_multi(db, G, k, by)
           C       == COMPLETE(db, G, k)
           keys    == {_group_key(by, x) : x \in C}
           of(g)   == {x \in C : _group_key(by, x) = g}
           valid   == {h \in DOMAIN stats : stats[h].den > 0}
<1>1. values = [e \in {g[1] : g \in valid} |->
                  [score |-> IF e \in DOMAIN entries THEN entries[e].score ELSE _point_score(k, stats[<<e>>]),
                   count |-> stats[<<e>>].count]]
  BY TableIs DEF foreman_kpi_values, ValuesOf
<1>2. stats = [g \in keys |-> Sums(db.rows, of(g))]
  BY TableIs DEF _kpi_period_stats_multi, GroupBy
<1>3. \A x : _group_key(by, x) = <<Workers[x[1]].foreman>>
  <2>1. \A x : _group_key(by, x) = <<Column("foreman", x)>>
    BY KeysAre
  <2>2. \A x : Column("foreman", x) = Workers[x[1]].foreman
    BY DEF Column
  <2>3. QED
    BY <2>1, <2>2
<1>4. \A S \in SUBSET C : S # {} => Sums(db.rows, S).den > 0
  BY SumsAre
<1>5. \A g : of(g) \in SUBSET C
  OBVIOUS
<1>6. \A g \in keys : of(g) # {}
  OBVIOUS
<1>7. \A g : g \in keys <=> \E x \in C : g = <<Workers[x[1]].foreman>>
  BY <1>3
<1>8. f \in DOMAIN entries <=> \E x \in C : Workers[x[1]].foreman = f
  BY EntriesAre
<1> HIDE DEF stats, keys, of, by, C
<1>9. \A g : g \in valid <=> g \in keys
  BY <1>2, <1>4, <1>5, <1>6
<1> HIDE DEF valid, values, entries
<1>10. f \in DOMAIN values <=> \E g \in valid : g[1] = f
  <2>1. DOMAIN values = {g[1] : g \in valid}
    BY <1>1
  <2>2. QED
    BY <2>1
<1>11. (\E g \in valid : g[1] = f) <=> \E x \in C : Workers[x[1]].foreman = f
  <2>1. ASSUME NEW x \in C PROVE <<Workers[x[1]].foreman>> \in valid /\ <<Workers[x[1]].foreman>>[1] = Workers[x[1]].foreman
    BY <1>7, <1>9
  <2>2. ASSUME NEW g \in valid PROVE \E x \in C : Workers[x[1]].foreman = g[1]
    BY <1>7, <1>9
  <2>3. QED
    BY <2>1, <2>2
<1>12. f \in DOMAIN values <=> f \in DOMAIN entries
  BY <1>8, <1>10, <1>11
<1>13. f \in DOMAIN values => values[f].score = entries[f].score
  BY <1>1, <1>12
<1>14. QED
  BY <1>12, <1>13 DEF values, entries

\* A row of the comparison makes up the total of its foreman.
RowExplains(row, G, total) ==
  _combine_group([k \in DOMAIN row |-> [score |-> row[k], count |-> 0]], active_kpi_weight_sum(G)).total = total

\* On one database every row of the comparison does.
LEMMA ComparisonExplains ==
  ASSUME NEW s, NEW db \in Databases, Saw(s, 16, db), NEW G, IsFilter(G), NEW c, NEW ord
  PROVE  LET shows  == get_foreman_comparison(s, c, G, ord)
             scores == foreman_scores(Once(db), OfChief(G, c))
         IN  \A f \in DOMAIN shows.scores : RowExplains(shows.scores[f], G, scores[f].total)
<1> DEFINE H      == OfChief(G, c)
           shows  == get_foreman_comparison(s, c, G, ord)
           scores == foreman_scores(Once(db), H)
           team   == TeamOf(chief_team_scores(Once(db), Once(db), db, H), c)
           kpis   == kpi_breakdown(Once(db), H)
           values == [k \in Kpis |-> foreman_kpi_values(db, Once(db), H, k)]
           W      == active_kpi_weight_sum(G)
           own(k) == _foreman_plant_kpi_entries(Once(db), H, k)
<1>1. \A i \in Nat : 1 <= i /\ i + 2 <= 16 => Call(s, i) = Once(db)
  BY CallSaw
<1>2. \A i \in 1 .. 16 : s[i] = db
  BY DEF Saw
<1>3. /\ Call(s, 1) = Once(db) /\ Call(s, 4) = Once(db) /\ Call(s, 9) = Once(db)
      /\ Call(s, 13) = Once(db) /\ Call(s, 14) = Once(db)
      /\ s[7] = db /\ s[12] = db /\ s[14] = db
  BY <1>1, <1>2
<1>4. \A k : /\ s[IF k = "GSF" THEN 12 ELSE 14] = db
             /\ Call(s, IF k = "GSF" THEN 13 ELSE 14) = Once(db)
  BY <1>3
<1>5. shows = Comparison(get_chief_foremen(s, c, G, ord), team, kpis, values)
  BY <1>3, <1>4 DEF get_foreman_comparison
<1>6. DOMAIN team.foremen \subseteq DOMAIN scores
  BY ChiefTeams
<1>7. \A f : f \in DOMAIN scores => scores[f] = _combine_group(PartsOf(Once(db), H, f), active_kpi_weight_sum(H))
  BY ForemanMadeOf
<1>8. active_kpi_weight_sum(H) = W
  BY DEF OfChief, active_kpi_weight_sum
<1>9. DOMAIN kpis = {k \in Kpis : COMPLETE(db, H, k) # {}}
  BY BreakdownIs
<1>10. \A k \in Kpis : \A f : /\ f \in DOMAIN values[k] <=> f \in DOMAIN own(k)
                              /\ f \in DOMAIN values[k] => values[k][f].score = own(k)[f].score
  <2> SUFFICES ASSUME NEW k \in Kpis, NEW f
               PROVE  /\ f \in DOMAIN values[k] <=> f \in DOMAIN own(k)
                      /\ f \in DOMAIN values[k] => values[k][f].score = own(k)[f].score
    OBVIOUS
  <2>1. values[k] = foreman_kpi_values(db, Once(db), H, k)
    OBVIOUS
  <2> HIDE DEF values
  <2>2. QED
    BY <2>1, ValuesAre
<1>11. \A k, f : f \in DOMAIN own(k) => COMPLETE(db, H, k) # {}
  BY EntriesAre
<1>12. \A f : /\ DOMAIN PartsOf(Once(db), H, f) = {k \in Kpis : f \in DOMAIN own(k)}
              /\ \A k \in DOMAIN PartsOf(Once(db), H, f) : PartsOf(Once(db), H, f)[k] = own(k)[f]
  BY DEF PartsOf
<1> HIDE DEF H, shows, scores, team, kpis, values, W, own
<1>13. /\ DOMAIN shows.scores = DOMAIN team.foremen
       /\ \A f \in DOMAIN team.foremen :
            shows.scores[f] = [k \in {j \in DOMAIN kpis : f \in DOMAIN values[j]} |-> values[k][f].score]
  BY <1>5 DEF Comparison
<1>14. ASSUME NEW f \in DOMAIN shows.scores PROVE RowExplains(shows.scores[f], G, scores[f].total)
  <2> DEFINE row   == shows.scores[f]
             items == [k \in DOMAIN row |-> [score |-> row[k], count |-> 0]]
             parts == PartsOf(Once(db), H, f)
  <2>1. f \in DOMAIN scores /\ scores[f] = _combine_group(parts, W)
    BY <1>6, <1>7, <1>8, <1>13
  <2>2. row = [k \in {j \in DOMAIN kpis : f \in DOMAIN values[j]} |-> values[k][f].score]
    BY <1>13
  <2>3. DOMAIN parts = {k \in Kpis : f \in DOMAIN own(k)} /\ \A k \in DOMAIN parts : parts[k] = own(k)[f]
    BY <1>12
  <2>4. DOMAIN items = DOMAIN row /\ \A k \in DOMAIN row : items[k].score = row[k]
    OBVIOUS
  <2>5. RowExplains(row, G, scores[f].total) <=> _combine_group(items, W).total = scores[f].total
    BY DEF RowExplains, W
  <2> HIDE DEF row, items, parts
  <2>6. DOMAIN row = DOMAIN parts
    <3>1. \A k : k \in DOMAIN row <=> k \in DOMAIN kpis /\ f \in DOMAIN values[k]
      BY <2>2
    <3>2. \A k : k \in DOMAIN row <=> k \in DOMAIN parts
      BY <1>9, <1>10, <1>11, <2>3, <3>1
    <3>3. DOMAIN row = {j \in DOMAIN kpis : f \in DOMAIN values[j]}
      BY <2>2
    <3>4. QED
      BY <2>3, <3>2, <3>3
  <2>7. \A k \in DOMAIN row : row[k] = parts[k].score
    BY <1>9, <1>10, <2>2, <2>3, <2>6
  <2>8. _combine_group(items, W).total = _combine_group(parts, W).total
    BY <2>4, <2>6, <2>7, CombineSame
  <2>9. QED
    BY <2>1, <2>5, <2>8 DEF row
<1>15. QED
  BY <1>14 DEF H, shows, scores

\* The mean of one score is the score.
LEMMA MeanOfOne ==
  ASSUME NEW items, NEW k \in Kpis, DOMAIN items = {k}, items[k].score \in 0 .. 120
  PROVE  _combine_group(items, Weight[k]).total = items[k].score
<1> DEFINE score == [j \in DOMAIN items |-> items[j].score]
           x == items[k].score
           w == Weight[k]
<1>1. w \in Nat \ {0}
  BY ViewsAssumption
<1>2. SumOver(DOMAIN items, Weight) = w
  BY <1>1, SumOverIs, TotalOne
<1>3. DOMAIN score = {k} /\ \A j \in DOMAIN score : score[j] \in x .. x
  OBVIOUS
<1>4. _combine_group(items, w).total = IF 2 * SumOver(DOMAIN items, Weight) < w THEN 0 ELSE weighted_geometric_score(score)
  BY DEF _combine_group
<1> HIDE DEF score, x, w
<1>5. ~(2 * w < w)
  BY <1>1
<1>6. x \in 0 .. 120
  BY DEF x
<1>7. x <= weighted_geometric_score(score) /\ weighted_geometric_score(score) <= x
  BY <1>3, <1>6, MeanBetween
<1>8. weighted_geometric_score(score) = x
  <2>1. weighted_geometric_score(score) \in 0 .. 120
    BY RootIs DEF weighted_geometric_score
  <2>2. QED
    BY <1>6, <1>7, <2>1
<1>9. QED
  BY <1>2, <1>4, <1>5, <1>8 DEF x, w

\* A filter of one KPI: its rows, and its weight.
LEMMA OneKpi ==
  ASSUME NEW G, IsFilter(G), NEW k, k # "*"
  PROVE  /\ \A db, j : j # k => COMPLETE(db, OfKpi(G, k), j) = {}
         /\ k \in Kpis => active_kpi_weight_sum(OfKpi(G, k)) = Weight[k]
<1> DEFINE H == OfKpi(G, k)
<1>1. H.kpis = {k} /\ {k} # NoFilter
  BY DEF OfKpi, IsFilter, NoFilter
<1>2. \A j : Passes(H.kpis, j) <=> j = k
  BY <1>1 DEF Passes
<1> HIDE DEF H
<1>3. \A db, j : j # k => COMPLETE(db, H, j) = {}
  BY <1>2 DEF COMPLETE, _apply_filters
<1>4. k \in Kpis => active_kpi_weight_sum(H) = Weight[k]
  <2>1. k \in Kpis => {j \in Kpis : Passes(H.kpis, j)} = {k}
    BY <1>2
  <2>2. k \in Kpis => Weight[k] \in Nat
    BY ViewsAssumption
  <2>3. k \in Kpis => Total(Weight, {k}) = Weight[k]
    BY <2>2, TotalOne
  <2>4. QED
    BY <2>1, <2>3, SumOverIs DEF active_kpi_weight_sum
<1>5. QED
  BY <1>3, <1>4 DEF H

ScoresIn(values) == [f \in DOMAIN values |-> values[f].score]

\* The scores of foremen shown in the analysis of one KPI are its values among them.
LEMMA AnalysisExplains ==
  ASSUME NEW s, NEW db \in Databases, Saw(s, 19, db), NEW G, IsFilter(G), NEW k, k # "*", NEW ord
  PROVE  LET a == get_analysis(s, k, G, ord) IN a.foremen = ScoresIn(a.values)
<1> DEFINE H       == OfKpi(G, k)
           a       == get_analysis(s, k, G, ord)
           company == kpi_breakdown(Once(db), H)
           scores  == foreman_scores(Once(db), H)
           all     == foreman_kpi_values(db, Once(db), H, k)
           own(j)  == _foreman_plant_kpi_entries(Once(db), H, j)
           parts(f) == PartsOf(Once(db), H, f)
           rows(j) == COMPLETE(db, H, j)
<1>1. Call(s, 1) = Once(db) /\ Call(s, 10) = Once(db) /\ Call(s, 17) = Once(db) /\ s[16] = db
  BY CallSaw DEF Saw
<1>2. a.foremen = Totals(scores) /\ a.values = IF k \in DOMAIN company THEN all ELSE <<>>
  BY <1>1 DEF get_analysis, RankedIn
<1>3. DOMAIN company = {j \in Kpis : rows(j) # {}}
  BY BreakdownIs
<1>4. \A f : /\ f \in DOMAIN all <=> f \in DOMAIN own(k)
             /\ f \in DOMAIN all => all[f].score = own(k)[f].score
  BY ValuesAre
<1>5. /\ \A f : f \in DOMAIN scores <=> \E j \in Kpis : f \in DOMAIN own(j)
      /\ \A f \in DOMAIN scores : scores[f] = _combine_group(parts(f), active_kpi_weight_sum(H))
  BY ForemanMadeOf
<1>6. \A j, f : /\ f \in DOMAIN own(j) => rows(j) # {}
                /\ f \in DOMAIN own(j) => own(j)[f].score \in 0 .. 120
  BY EntriesAre
<1>7. /\ \A j : j # k => rows(j) = {}
      /\ k \in Kpis => active_kpi_weight_sum(H) = Weight[k]
  BY OneKpi
<1>8. \A f : /\ DOMAIN parts(f) = {j \in Kpis : f \in DOMAIN own(j)}
             /\ \A j \in DOMAIN parts(f) : parts(f)[j] = own(j)[f]
  BY DEF PartsOf
<1>9. Totals(scores) = [f \in DOMAIN scores |-> scores[f].total]
  BY TableIs DEF Totals
<1> HIDE DEF H, a, company, scores, all, own, parts, rows
<1>10. \A f : f \in DOMAIN scores <=> k \in Kpis /\ f \in DOMAIN own(k)
  BY <1>5, <1>6, <1>7
<1>11. ASSUME NEW f \in DOMAIN scores PROVE scores[f].total = own(k)[f].score
  <2>1. k \in Kpis /\ f \in DOMAIN own(k)
    BY <1>10, <1>11
  <2>2. DOMAIN parts(f) = {k} /\ parts(f)[k] = own(k)[f]
    BY <1>6, <1>7, <1>8, <2>1
  <2>3. parts(f)[k].score \in 0 .. 120
    BY <1>6, <2>1, <2>2
  <2>4. _combine_group(parts(f), Weight[k]).total = parts(f)[k].score
    BY <2>1, <2>2, <2>3, MeanOfOne
  <2>5. QED
    BY <1>5, <1>7, <2>1, <2>2, <2>4
<1>12. CASE k \in DOMAIN company
  <2>1. k \in Kpis
    BY <1>3, <1>12
  <2>2. \A f : f \in DOMAIN all <=> f \in DOMAIN scores
    BY <1>4, <1>10, <2>1
  <2>3. \A f \in DOMAIN scores : scores[f].total = all[f].score
    BY <1>4, <1>11, <2>2
  <2>4. DOMAIN all = DOMAIN scores
    BY <2>2
  <2>5. a.values = all
    BY <1>2, <1>12
  <2>6. Totals(scores) = ScoresIn(all)
    BY <1>9, <2>3, <2>4 DEF ScoresIn
  <2>7. QED
    BY <1>2, <2>5, <2>6 DEF a
<1>13. CASE k \notin DOMAIN company
  <2>1. DOMAIN scores = {}
    BY <1>3, <1>6, <1>10, <1>13
  <2>2. a.values = <<>>
    BY <1>2, <1>13
  <2>3. DOMAIN <<>> = {}
    OBVIOUS
  <2>4. QED
    BY <1>2, <1>9, <2>1, <2>2, <2>3 DEF a, ScoresIn
<1>14. QED
  BY <1>12, <1>13 DEF a

-----------------------------------------------------------------------------
(* A trend of one bucket.                                                  *)

\* The keys of a member's groups.
Keyed(z, P) == {<<z, p>> : p \in P}

\* A total over keys is one over the plants.
LEMMA TotalKeyed ==
  ASSUME NEW P, IsFiniteSet(P), NEW z, NEW v, \A p \in P : v[p] \in Nat,
         NEW a, \A p \in P : a[<<z, p>>] = v[p]
  PROVE  /\ Total(a, Keyed(z, P)) = Total(v, P)
         /\ Cardinality(Keyed(z, P)) = Cardinality(P)
<1> DEFINE T == Keyed(z, P)
           m == [p \in P |-> <<z, p>>]
<1>1. \A p \in P : m[p] \in T /\ m[p] = <<z, p>>
  BY DEF Keyed
<1>2. \A key \in T : \E p \in P : m[p] = key
  BY DEF Keyed
<1>3. m \in [P -> T]
  BY <1>1
<1> HIDE DEF m, T
<1>4. \A p, q \in P : m[p] = m[q] => p = q
  BY <1>1
<1>5. IsFiniteSet(T)
  <2>1. m \in Surjection(P, T)
    BY <1>2, <1>3 DEF Surjection
  <2>2. QED
    BY <2>1, FS_Surjection
<1>6. \A p \in P : a[m[p]] = v[p]
  BY <1>1
<1>7. \A p \in P : m[p] \in T
  BY <1>1
<1>8. Total(a, T) = Total(v, P) /\ Cardinality(T) = Cardinality(P)
  BY <1>2, <1>4, <1>5, <1>6, <1>7, TotalRenamed
<1>9. QED
  BY <1>8 DEF T

\* The groups of a member.
EntriesOf(d, x) == {key \in DOMAIN d : key[1] = x}

\* The plain average of the entries of plants.
PlainAverage(v, P) ==
  [score  |-> Total([p \in P |-> v[p].score], P) \div Cardinality(P),
   count  |-> Total([p \in P |-> v[p].count], P),
   plants |-> [p \in P |-> v[p].score]]

\* A member's average is made of the entries of his plants.
LEMMA AverageKeyed ==
  ASSUME NEW P, IsFiniteSet(P), NEW d, NEW x, EntriesOf(d, x) = Keyed(x, P),
         NEW v, \A p \in P : v[p] = d[<<x, p>>] /\ v[p].score \in Nat /\ v[p].count \in Nat
  PROVE  Average(d, x) = PlainAverage(v, P)
<1> DEFINE S     == {key \in DOMAIN d : key[1] = x}
           score == [key \in DOMAIN d |-> d[key].score]
           count == [key \in DOMAIN d |-> d[key].count]
           a     == [p \in P |-> v[p].score]
           b     == [p \in P |-> v[p].count]
           places == {key[2] : key \in S}
           shown1 == [p \in places |-> d[<<x, p>>].score]
<1>1. Average(d, x) = [score |-> SumOver(S, score) \div Cardinality(S), count |-> SumOver(S, count),
                       plants |-> shown1]
  BY DEF Average
<1>2. \A p \in P : a[p] = v[p].score /\ b[p] = v[p].count
  OBVIOUS
<1>3. S = Keyed(x, P)
  BY DEF EntriesOf
<1>4. \A p \in P : <<x, p>> \in DOMAIN d
  <2>1. \A p \in P : <<x, p>> \in Keyed(x, P)
    BY DEF Keyed
  <2>2. \A p \in P : <<x, p>> \in S
    BY <1>3, <2>1
  <2>3. QED
    BY <2>2
<1>5. \A p \in P : score[<<x, p>>] = a[p] /\ count[<<x, p>>] = b[p]
  BY <1>2, <1>4
<1>6. places = P
  <2>1. \A key \in S : key[2] \in P
    BY <1>3 DEF Keyed
  <2>2. \A p \in P : <<x, p>> \in S /\ <<x, p>>[2] = p
    BY <1>3 DEF Keyed
  <2> HIDE DEF S
  <2>3. QED
    BY <2>1, <2>2
<1> HIDE DEF S, places
<1>7. shown1 = a
  BY <1>2, <1>6
<1> HIDE DEF score, count, a, b, shown1
<1>8. \A p \in P : a[p] \in Nat
  BY <1>2
<1>9. \A p \in P : b[p] \in Nat
  BY <1>2
<1>10. Total(score, S) = Total(a, P) /\ Cardinality(S) = Cardinality(P)
  BY <1>3, <1>5, <1>8, TotalKeyed
<1>11. Total(count, S) = Total(b, P)
  BY <1>3, <1>5, <1>9, TotalKeyed
<1>12. Average(d, x) = [score |-> Total(a, P) \div Cardinality(P), count |-> Total(b, P), plants |-> a]
  BY <1>1, <1>7, <1>10, <1>11, SumOverIs
<1>13. QED
  BY <1>12 DEF a, b, PlainAverage

\* Averages over the same plants are the same.
LEMMA AverageRenamed ==
  ASSUME NEW P, IsFiniteSet(P), NEW d, NEW e, NEW x, NEW y,
         EntriesOf(d, x) = Keyed(x, P),
         EntriesOf(e, y) = Keyed(y, P),
         \A p \in P : /\ d[<<x, p>>] = e[<<y, p>>]
                      /\ d[<<x, p>>].score \in Nat /\ d[<<x, p>>].count \in Nat
  PROVE  Average(d, x) = Average(e, y)
<1> DEFINE v == [p \in P |-> d[<<x, p>>]]
<1>1. \A p \in P : v[p] = d[<<x, p>>] /\ v[p] = e[<<y, p>>] /\ v[p].score \in Nat /\ v[p].count \in Nat
  OBVIOUS
<1> HIDE DEF v
<1>2. \A p \in P : v[p] = d[<<x, p>>] /\ v[p].score \in Nat /\ v[p].count \in Nat
  BY <1>1
<1>3. \A p \in P : v[p] = e[<<y, p>>] /\ v[p].score \in Nat /\ v[p].count \in Nat
  BY <1>1
<1>4. Average(d, x) = PlainAverage(v, P)
  BY <1>2, AverageKeyed
<1>5. Average(e, y) = PlainAverage(v, P)
  BY <1>3, AverageKeyed
<1>6. QED
  BY <1>4, <1>5

PerBucket == <<"year", "plant">>

\* The groups of a trend of one bucket.
LEMMA BucketGroupsAre ==
  ASSUME NEW db \in Databases, NEW G, NEW k
  PROVE  LET d == _kpi_period_scores_multi(Once(db), G, k, PerBucket)
         IN  /\ \A key \in DOMAIN d : d[key] = GroupScore(db, k, RowsOf(db, G, k, PerBucket, key))
             /\ \A key : key \in DOMAIN d <=> \E x \in COMPLETE(db, G, k) : key = <<0, Workers[x[1]].plant>>
             /\ \A key, x : x \in RowsOf(db, G, k, PerBucket, key)
                              <=> x \in COMPLETE(db, G, k) /\ key = <<0, Workers[x[1]].plant>>
<1> DEFINE d == _kpi_period_scores_multi(Once(db), G, k, PerBucket)
<1>1. /\ DOMAIN d = KeysOf(db, G, k, PerBucket)
      /\ \A key \in DOMAIN d : d[key] = GroupScore(db, k, RowsOf(db, G, k, PerBucket, key))
  BY GroupScoresAre
<1>2. \A x : _group_key(PerBucket, x) = <<0, Workers[x[1]].plant>>
  <2>1. \A x : _group_key(PerBucket, x) = <<Column("year", x), Column("plant", x)>>
    BY KeysAre DEF PerBucket
  <2>2. \A x : Column("year", x) = 0 /\ Column("plant", x) = Workers[x[1]].plant
    BY DEF Column
  <2>3. QED
    BY <2>1, <2>2
<1> HIDE DEF d
<1>3. QED
  BY <1>1, <1>2 DEF d, KeysOf, RowsOf

\* A foreman's bucket is his entry.
LEMMA BucketIsEntry ==
  ASSUME NEW db \in Databases, NEW G, IsFilter(G), NEW f, f # "*", NEW k
  PROVE  LET e   == _kpi_period_scores_multi(Once(db), Only(G, f), k, PerBucket)
             ent == _foreman_plant_kpi_entries(Once(db), G, k)
         IN  /\ \A key \in DOMAIN e : key[1] = 0
             /\ DOMAIN e # {} <=> f \in DOMAIN ent
             /\ f \in DOMAIN ent => Average(e, 0) = ent[f]
<1> DEFINE H   == Only(G, f)
           e   == _kpi_period_scores_multi(Once(db), H, k, PerBucket)
           d   == _kpi_period_scores_multi(Once(db), G, k, PerPlant)
           ent == _foreman_plant_kpi_entries(Once(db), G, k)
           C   == COMPLETE(db, G, k)
           S   == COMPLETE(db, H, k)
           P   == {Workers[x[1]].plant : x \in S}
           inP(p) == RowsOf(db, G, k, PerPlant, <<f, p>>)
           inB(p) == RowsOf(db, H, k, PerBucket, <<0, p>>)
<1>1. \A x : x \in S <=> x \in C /\ Workers[x[1]].foreman = f
  BY ForemanRows
<1>2. /\ \A key \in DOMAIN d : /\ key = <<key[1], key[2]>>
                               /\ d[key] = GroupScore(db, k, RowsOf(db, G, k, PerPlant, key))
                               /\ d[key].score \in 0 .. 120 /\ d[key].count \in Nat
      /\ \A key : key \in DOMAIN d <=> \E x \in C : key = <<Workers[x[1]].foreman, Workers[x[1]].plant>>
      /\ \A key, x : x \in RowsOf(db, G, k, PerPlant, key)
                       <=> x \in C /\ key = <<Workers[x[1]].foreman, Workers[x[1]].plant>>
  BY PlantGroupsAre
<1>3. /\ \A key \in DOMAIN e : e[key] = GroupScore(db, k, RowsOf(db, H, k, PerBucket, key))
      /\ \A key : key \in DOMAIN e <=> \E x \in S : key = <<0, Workers[x[1]].plant>>
      /\ \A key, x : x \in RowsOf(db, H, k, PerBucket, key) <=> x \in S /\ key = <<0, Workers[x[1]].plant>>
  BY BucketGroupsAre
<1>4. /\ f \in DOMAIN ent <=> \E x \in C : Workers[x[1]].foreman = f
      /\ f \in DOMAIN ent => ent[f] = Average(d, f)
  BY EntriesAre
<1>5. IsFiniteSet(P)
  <2>1. IsFiniteSet(S)
    <3>1. IsFiniteSet(Cells) /\ S \subseteq Cells
      BY CellsAre
    <3>2. QED
      BY <3>1, FS_Subset
  <2> DEFINE m == [x \in S |-> Workers[x[1]].plant]
  <2>2. m \in Surjection(S, P)
    BY DEF Surjection
  <2> HIDE DEF m, S, P
  <2>3. QED
    BY <2>1, <2>2, FS_Surjection
<1>6. \A p : p \in P <=> \E x \in S : p = Workers[x[1]].plant
  OBVIOUS
<1> HIDE DEF H, e, d, ent, C, S, P, PerPlant, PerBucket
<1>7. EntriesOf(d, f) = Keyed(f, P)
  <2>1. ASSUME NEW key \in EntriesOf(d, f) PROVE key \in Keyed(f, P)
    <3>1. key \in DOMAIN d /\ key[1] = f
      BY DEF EntriesOf
    <3>2. PICK x \in C : key = <<Workers[x[1]].foreman, Workers[x[1]].plant>>
      BY <1>2, <3>1
    <3>3. Workers[x[1]].foreman = f
      BY <3>1, <3>2
    <3>4. Workers[x[1]].plant \in P
      BY <1>1, <1>6, <3>3
    <3>5. QED
      BY <3>2, <3>3, <3>4 DEF Keyed
  <2>2. ASSUME NEW p \in P PROVE <<f, p>> \in EntriesOf(d, f)
    <3>1. PICK x \in S : p = Workers[x[1]].plant
      BY <1>6
    <3>2. <<f, p>> \in DOMAIN d
      BY <1>1, <1>2, <3>1
    <3>3. QED
      BY <3>2 DEF EntriesOf
  <2>3. QED
    BY <2>1, <2>2 DEF Keyed
<1>8. EntriesOf(e, 0) = Keyed(0, P)
  <2>1. ASSUME NEW key \in EntriesOf(e, 0) PROVE key \in Keyed(0, P)
    <3>1. PICK x \in S : key = <<0, Workers[x[1]].plant>>
      BY <1>3 DEF EntriesOf
    <3>2. QED
      BY <1>6, <3>1 DEF Keyed
  <2>2. ASSUME NEW p \in P PROVE <<0, p>> \in EntriesOf(e, 0)
    <3>1. <<0, p>> \in DOMAIN e
      BY <1>3, <1>6
    <3>2. QED
      BY <3>1 DEF EntriesOf
  <2>3. QED
    BY <2>1, <2>2 DEF Keyed
<1>9. ASSUME NEW p \in P
      PROVE  /\ d[<<f, p>>] = e[<<0, p>>]
             /\ d[<<f, p>>].score \in Nat /\ d[<<f, p>>].count \in Nat
  <2>1. PICK x \in S : p = Workers[x[1]].plant
    BY <1>6
  <2>2. <<f, p>> \in DOMAIN d /\ <<0, p>> \in DOMAIN e
    BY <1>1, <1>2, <1>3, <2>1
  <2>3. d[<<f, p>>] = GroupScore(db, k, inP(p)) /\ e[<<0, p>>] = GroupScore(db, k, inB(p))
    BY <1>2, <1>3, <2>2
  <2>4. inP(p) = inB(p)
    <3>1. \A y : y \in inP(p) <=> y \in C /\ f = Workers[y[1]].foreman /\ p = Workers[y[1]].plant
      <4>1. \A y : <<f, p>> = <<Workers[y[1]].foreman, Workers[y[1]].plant>>
                     <=> f = Workers[y[1]].foreman /\ p = Workers[y[1]].plant
        OBVIOUS
      <4>2. QED
        BY <1>2, <4>1
    <3>2. \A y : y \in inB(p) <=> y \in S /\ p = Workers[y[1]].plant
      <4>1. \A y : <<0, p>> = <<0, Workers[y[1]].plant>> <=> p = Workers[y[1]].plant
        OBVIOUS
      <4>2. QED
        BY <1>3, <4>1
    <3> HIDE DEF inP, inB
    <3>3. \A y : y \in inP(p) <=> y \in inB(p)
      BY <1>1, <3>1, <3>2
    <3>4. inP(p) \subseteq C /\ inB(p) \subseteq S
      BY <3>1, <3>2
    <3>5. QED
      BY <3>3
  <2>5. d[<<f, p>>].score \in 0 .. 120 /\ d[<<f, p>>].count \in Nat
    BY <1>2, <2>2
  <2>6. QED
    BY <2>3, <2>4, <2>5
<1>10. Average(d, f) = Average(e, 0)
  BY <1>5, <1>7, <1>8, <1>9, AverageRenamed
<1>11. \A key \in DOMAIN e : key[1] = 0
  BY <1>3
<1>12. DOMAIN e # {} <=> f \in DOMAIN ent
  <2>1. (\E key : key \in DOMAIN e) <=> \E x \in S : TRUE
    BY <1>3
  <2>2. (\E x \in S : TRUE) <=> \E x \in C : Workers[x[1]].foreman = f
    BY <1>1
  <2>3. QED
    BY <1>4, <2>1, <2>2
<1>13. QED
  BY <1>4, <1>10, <1>11, <1>12 DEF e, H, ent

\* A page's only bucket is the score next to it.
OneBucket(answer, scores, id) ==
  IF id \in DOMAIN scores THEN answer = [b \in {0} |-> scores[id]] ELSE DOMAIN answer = {}

\* Two functions of one domain with the same values are one.
LEMMA SameFunction ==
  ASSUME NEW p, NEW q, p = [x \in DOMAIN p |-> p[x]], q = [x \in DOMAIN q |-> q[x]],
         DOMAIN p = DOMAIN q, \A x \in DOMAIN q : p[x] = q[x]
  PROVE  p = q
OBVIOUS

\* A foreman's trend of one bucket.
LEMMA ForemanTrendIs ==
  ASSUME NEW db \in Databases, NEW G, IsFilter(G), NEW f, f # "*", f # None
  PROVE  OneBucket(trend(Once(db), G, "year", f), foreman_scores(Once(db), G), f)
<1> DEFINE answer == trend(Once(db), G, "year", f)
           scores == foreman_scores(Once(db), G)
           W      == active_kpi_weight_sum(G)
           e(k)   == _kpi_period_scores_multi(Once(db), Only(G, f), k, PerBucket)
           ent(k) == _foreman_plant_kpi_entries(Once(db), G, k)
           per    == [k \in Kpis |-> _equal_weight_plant_average(e(k))]
           keys   == UNION {DOMAIN per[k] : k \in Kpis}
           of(g)  == [k \in {j \in Kpis : g \in DOMAIN per[j]} |-> per[k][g]]
           parts  == PartsOf(Once(db), G, f)
<1>1. answer = [g \in keys |-> _combine_group(of(g), W)]
  <2>1. answer = Combined(per, G)
    BY TableIs DEF trend, PerBucket
  <2> HIDE DEF per, answer
  <2>2. QED
    BY <2>1, TableIs DEF Combined
<1>2. \A k : /\ \A key \in DOMAIN e(k) : key[1] = 0
             /\ DOMAIN e(k) # {} <=> f \in DOMAIN ent(k)
             /\ f \in DOMAIN ent(k) => Average(e(k), 0) = ent(k)[f]
  BY BucketIsEntry
<1>3. \A k \in Kpis : per[k] = [x \in {key[1] : key \in DOMAIN e(k)} |-> Average(e(k), x)]
  <2> SUFFICES ASSUME NEW k \in Kpis
               PROVE  per[k] = [x \in {key[1] : key \in DOMAIN e(k)} |-> Average(e(k), x)]
    OBVIOUS
  <2>1. per[k] = _equal_weight_plant_average(e(k))
    OBVIOUS
  <2> HIDE DEF per, e
  <2>2. QED
    BY <2>1, AverageIs
<1>4. /\ f \in DOMAIN scores <=> \E k \in Kpis : f \in DOMAIN ent(k)
      /\ f \in DOMAIN scores => scores[f] = _combine_group(parts, W)
  BY ForemanMadeOf
<1>5. /\ DOMAIN parts = {k \in Kpis : f \in DOMAIN ent(k)}
      /\ \A k \in DOMAIN parts : parts[k] = ent(k)[f]
      /\ parts = [k \in DOMAIN parts |-> parts[k]]
  BY DEF PartsOf
<1>6. \A g : g \in keys <=> \E k \in Kpis : g \in DOMAIN per[k]
  OBVIOUS
<1>7. /\ DOMAIN of(0) = {k \in Kpis : 0 \in DOMAIN per[k]}
      /\ \A k \in DOMAIN of(0) : of(0)[k] = per[k][0]
      /\ of(0) = [k \in DOMAIN of(0) |-> of(0)[k]]
  OBVIOUS
<1> HIDE DEF answer, scores, W, e, ent, per, keys, of, parts
<1>8. \A k \in Kpis : \A g : g \in DOMAIN per[k] <=> g = 0 /\ f \in DOMAIN ent(k)
  <2> SUFFICES ASSUME NEW k \in Kpis, NEW g PROVE g \in DOMAIN per[k] <=> g = 0 /\ f \in DOMAIN ent(k)
    OBVIOUS
  <2>1. g \in DOMAIN per[k] <=> \E key \in DOMAIN e(k) : g = key[1]
    <3>1. DOMAIN per[k] = {key[1] : key \in DOMAIN e(k)}
      BY <1>3
    <3>2. QED
      BY <3>1
  <2>2. (\E key \in DOMAIN e(k) : g = key[1]) <=> g = 0 /\ DOMAIN e(k) # {}
    BY <1>2
  <2>3. QED
    BY <1>2, <2>1, <2>2
<1>9. \A k \in Kpis : f \in DOMAIN ent(k) => per[k][0] = ent(k)[f]
  <2> SUFFICES ASSUME NEW k \in Kpis, f \in DOMAIN ent(k) PROVE per[k][0] = ent(k)[f]
    OBVIOUS
  <2>1. 0 \in DOMAIN per[k]
    BY <1>8
  <2>2. per[k][0] = Average(e(k), 0)
    BY <1>3, <2>1
  <2>3. QED
    BY <1>2, <2>2
<1>10. of(0) = parts
  <2>1. DOMAIN of(0) = DOMAIN parts
    BY <1>5, <1>7, <1>8
  <2>2. \A k \in DOMAIN parts : of(0)[k] = parts[k]
    BY <1>5, <1>7, <1>9, <2>1
  <2>3. QED
    BY <1>5, <1>7, <2>1, <2>2, SameFunction, Zenon
<1>11. CASE f \in DOMAIN scores
  <2>1. keys = {0}
    BY <1>4, <1>6, <1>8, <1>11
  <2>2. answer = [b \in {0} |-> scores[f]]
    BY <1>1, <1>4, <1>10, <1>11, <2>1
  <2>3. QED
    BY <1>11, <2>2 DEF OneBucket, answer, scores
<1>12. CASE f \notin DOMAIN scores
  <2>1. keys = {}
    BY <1>4, <1>6, <1>8, <1>12
  <2>2. DOMAIN answer = {}
    BY <1>1, <2>1
  <2>3. QED
    BY <1>12, <2>2 DEF OneBucket, answer, scores
<1>13. QED
  BY <1>11, <1>12

\* A chief's trend of one bucket.
LEMMA ChiefTrendIs ==
  ASSUME NEW db \in Databases, NEW G, IsFilter(G), NEW c, c # "*"
  PROVE  OneBucket(trend(Once(db), OfChief(G, c), "year", None), chief_scores(Once(db), resolve_chief_scope(G)), c)
<1> DEFINE H      == OfChief(G, c)
           answer == trend(Once(db), H, "year", None)
           own    == chief_scores(Once(db), H)
           scores == chief_scores(Once(db), resolve_chief_scope(G))
           W      == active_kpi_weight_sum(H)
           mine(k) == ChiefRows(db, H, k, c)
           parts  == ChiefParts(db, H, c)
           rows(k, g) == RowsOf(db, H, k, <<"year">>, <<g>>)
           of(g)  == [k \in {j \in Kpis : rows(j, g) # {}} |-> GroupScore(db, k, rows(k, g))]
           grouped == _grouped_scores(Once(db), H, "year")
<1>1. answer = _grouped_scores(Once(db), H, "year")
  BY DEF trend
<1>2. /\ \A g : g \in DOMAIN answer <=> \E k \in Kpis : rows(k, g) # {}
      /\ \A g \in DOMAIN answer : answer[g] = _combine_group(of(g), W)
  <2>1. /\ \A g : g \in DOMAIN grouped <=> \E k \in Kpis : rows(k, g) # {}
        /\ \A g \in DOMAIN grouped :
             grouped[g] = _combine_group([k \in {j \in Kpis : rows(j, g) # {}} |-> GroupScore(db, k, rows(k, g))], W)
    BY GroupedAre, Zenon
  <2> HIDE DEF answer, rows, W, grouped
  <2>2. answer = grouped
    BY <1>1 DEF grouped
  <2>3. QED
    BY <2>1, <2>2
<1>3. (c \in DOMAIN own <=> c \in DOMAIN scores) /\ (c \in DOMAIN own => own[c] = scores[c])
  BY ChiefScoreSame
<1>4. /\ c \in DOMAIN own <=> \E k \in Kpis : mine(k) # {}
      /\ c \in DOMAIN own => own[c] = _combine_group(parts, W)
  BY ChiefScoreIs
<1>5. \A k : mine(k) = COMPLETE(db, H, k)
  <2>1. H.chiefs = {c} /\ {c} # NoFilter
    BY DEF OfChief, IsFilter, NoFilter
  <2> HIDE DEF H
  <2>2. \A k : \A x \in COMPLETE(db, H, k) : PlantChief[Workers[x[1]].plant] = c
    BY <2>1 DEF COMPLETE, _apply_filters, Passes
  <2>3. QED
    BY <2>2 DEF ChiefRows
<1>6. \A k, g : \A x : x \in rows(k, g) <=> x \in COMPLETE(db, H, k) /\ g = 0
  <2>1. \A x : _group_key(<<"year">>, x) = <<Column("year", x)>>
    BY KeysAre
  <2>2. \A x : Column("year", x) = 0
    BY DEF Column
  <2>3. \A x, g : _group_key(<<"year">>, x) = <<g>> <=> g = 0
    BY <2>1, <2>2
  <2>4. QED
    BY <2>3 DEF RowsOf
<1>7. \A k : rows(k, 0) = mine(k)
  <2> SUFFICES ASSUME NEW k PROVE rows(k, 0) = mine(k)
    OBVIOUS
  <2>1. \A x : x \in rows(k, 0) <=> x \in mine(k)
    BY <1>5, <1>6
  <2> DEFINE A == rows(k, 0)
             B == mine(k)
  <2>2. A \subseteq COMPLETE(db, H, k) /\ B \subseteq COMPLETE(db, H, k)
    BY <1>5, <1>6
  <2>3. \A x : x \in A <=> x \in B
    BY <2>1
  <2> HIDE DEF A, B
  <2>4. A = B
    BY <2>2, <2>3
  <2>5. QED
    BY <2>4 DEF A, B
<1>8. of(0) = parts
  <2>1. parts = [k \in {j \in Kpis : mine(j) # {}} |-> GroupScore(db, k, mine(k))]
    BY DEF ChiefParts
  <2> HIDE DEF rows, mine, parts
  <2>2. QED
    BY <1>7, <2>1
<1> HIDE DEF H, answer, own, scores, W, mine, parts, rows, of
<1>9. \A g : g \in DOMAIN answer <=> g = 0 /\ c \in DOMAIN own
  <2> SUFFICES ASSUME NEW g PROVE g \in DOMAIN answer <=> g = 0 /\ c \in DOMAIN own
    OBVIOUS
  <2>1. \A k : rows(k, g) # {} <=> g = 0 /\ mine(k) # {}
    BY <1>5, <1>6
  <2>2. QED
    BY <1>2, <1>4, <2>1
<1>10. CASE c \in DOMAIN scores
  <2>1. DOMAIN answer = {0}
    BY <1>3, <1>9, <1>10
  <2>2. answer[0] = scores[c]
    BY <1>2, <1>3, <1>4, <1>8, <1>10, <2>1
  <2>3. answer = [b \in DOMAIN answer |-> answer[b]]
    BY TableIs DEF answer, trend, _grouped_scores, Combined
  <2>4. answer = [b \in {0} |-> scores[c]]
    BY <2>1, <2>2, <2>3
  <2>5. QED
    BY <1>10, <2>4 DEF OneBucket, answer, scores, H
<1>11. CASE c \notin DOMAIN scores
  <2>1. DOMAIN answer = {}
    BY <1>3, <1>9, <1>11
  <2>2. QED
    BY <1>11, <2>1 DEF OneBucket, answer, scores, H
<1>12. QED
  BY <1>10, <1>11

-----------------------------------------------------------------------------
(* The theorems on totals and their parts.                                 *)

\* What an answered page under one database was computed from.
LEMMA SteadyAnswer ==
  ASSUME ViewsInv, NEW pages, None \notin pages, "403" \notin pages, Answered(pages), Steady
  PROVE  /\ Saw(Seen, Selects(req.page), hist[at[1]]) /\ hist[at[1]] \in Databases
         /\ shown.ord \in Orders /\ shown.page = req.page
         /\ shown.answer = Page(req, Seen, shown.ord)
         /\ Now = Still(hist[at[1]])
<1>1. shown \notin {NotYet, Refused}
  BY DEF Answered, NotYet, Refused
<1>2. QED
  BY <1>1, SteadyPage

\* Every SELECT of another request would see the database once more.
LEMMA NowIs ==
  ASSUME Now = Still(hist[at[1]])
  PROVE  Call(Now, 1) = Once(hist[at[1]]) /\ Call(Now, 4) = Once(hist[at[1]])
BY DEF Still, Call, Once

\* A trend of one bucket is the score of its page.
THEOREM OneBucketIsTheScoreCorrect == ViewsSpec => []OneBucketIsTheScore
<1>1. ASSUME ViewsInv, Answered({"foreman_trend", "chief_trend"}), req.arg = "year", Steady
      PROVE  OneBucketIsTheScore
  <2> DEFINE db == hist[at[1]]
  <2>1. /\ Saw(Seen, Selects(req.page), db) /\ db \in Databases
        /\ shown.page = req.page /\ shown.answer = Page(req, Seen, shown.ord) /\ Now = Still(db)
    BY <1>1, SteadyAnswer DEF None
  <2>2. IsFilter(F) /\ req.id # "*" /\ (req.page \in OfForeman => req.id # None)
    BY <1>1, RequestIs
  <2>3. req.page = "foreman_trend" \/ req.page = "chief_trend"
    BY <1>1, <2>1 DEF Answered
  <2>4. Saw(Seen, 3, db)
    BY <2>1, <2>3, SelectsAre
  <2>5. Call(Seen, 1) = Once(db)
    BY <2>4, CallSaw
  <2>6. Call(Now, 1) = Once(db)
    BY <2>1, NowIs
  <2>7. CASE req.page = "foreman_trend"
    <3>1. shown.answer = trend(Once(db), F, "year", req.id)
      <4>1. Page(req, Seen, shown.ord) = ForemanPages(req, Seen, shown.ord)
        BY <2>7, PageIs DEF OfForeman
      <4>2. QED
        BY <1>1, <2>1, <2>5, <2>7, <4>1 DEF ForemanPages, F
    <3>2. OneBucket(trend(Once(db), F, "year", req.id), foreman_scores(Once(db), F), req.id)
      <4>1. req.page \in OfForeman
        BY <2>7 DEF OfForeman
      <4> HIDE DEF db
      <4>2. QED
        BY <2>1, <2>2, <4>1, ForemanTrendIs
    <3>3. QED
      BY <2>6, <2>7, <3>1, <3>2 DEF OneBucket, OneBucketIsTheScore
  <2>8. CASE req.page = "chief_trend"
    <3>1. shown.answer = trend(Once(db), OfChief(F, req.id), "year", None)
      <4>1. Page(req, Seen, shown.ord) = ChiefPages(req, Seen, shown.ord)
        BY <2>8, PageIs DEF OfAChief
      <4>2. QED
        BY <1>1, <2>1, <2>5, <2>8, <4>1 DEF ChiefPages, F, get_chief_trend
    <3>2. OneBucket(trend(Once(db), OfChief(F, req.id), "year", None),
                    chief_scores(Once(db), resolve_chief_scope(F)), req.id)
      <4> HIDE DEF db
      <4>1. QED
        BY <2>1, <2>2, ChiefTrendIs
    <3>3. QED
      BY <2>6, <2>8, <3>1, <3>2 DEF OneBucket, OneBucketIsTheScore
  <2>9. QED
    BY <2>3, <2>7, <2>8
<1>2. ViewsInv => OneBucketIsTheScore
  <2>1. ~(Answered({"foreman_trend", "chief_trend"}) /\ req.arg = "year" /\ Steady) => OneBucketIsTheScore
    BY DEF OneBucketIsTheScore
  <2>2. QED
    BY <1>1, <2>1
<1>3. QED
  BY <1>2, ViewsInvariantCorrect, PTL

\* What KpisExplainScores says of each of its pages.
KpisPageStands ==
  LET scores == foreman_scores(Call(Now, 1), F)
      all    == shown.answer
  IN  /\ (req.id \in DOMAIN scores) = (DOMAIN all # {})
      /\ DOMAIN all # {} => _combine_group(all, active_kpi_weight_sum(F)) = scores[req.id]

ComparisonStands ==
  LET scores == foreman_scores(Call(Now, 1), OfChief(F, req.id))
      all    == shown.answer.scores
  IN  \A f \in DOMAIN all : RowExplains(all[f], F, scores[f].total)

\* The page of a foreman's KPIs.
LEMMA KpisPageExplains ==
  ASSUME ViewsInv, Answered({"foreman_kpis"}), Steady
  PROVE  KpisPageStands
<1> DEFINE db == hist[at[1]]
<1>1. /\ Saw(Seen, Selects(req.page), db) /\ db \in Databases
      /\ shown.page = req.page /\ shown.answer = Page(req, Seen, shown.ord) /\ Now = Still(db)
  BY SteadyAnswer DEF None
<1>2. IsFilter(F) /\ req.id # "*"
  BY RequestIs
<1>3. req.page = "foreman_kpis"
  BY <1>1 DEF Answered
<1>4. Call(Seen, 1) = Once(db) /\ Call(Seen, 4) = Once(db)
  <2>1. Saw(Seen, 6, db)
    BY <1>1, <1>3, SelectsAre
  <2>2. QED
    BY <2>1, CallSaw
<1>5. shown.answer = foreman_kpi_breakdown(Once(db), Once(db), F, req.id)
  <2>1. Page(req, Seen, shown.ord) = ForemanPages(req, Seen, shown.ord)
    BY <1>3, PageIs DEF OfForeman
  <2>2. QED
    BY <1>1, <1>3, <1>4, <2>1 DEF ForemanPages, F, get_foreman_kpis
<1>6. Call(Now, 1) = Once(db)
  BY <1>1, NowIs
<1> HIDE DEF db
<1>7. LET scores == foreman_scores(Once(db), F)
          all    == foreman_kpi_breakdown(Once(db), Once(db), F, req.id)
      IN  /\ (req.id \in DOMAIN scores) = (DOMAIN all # {})
          /\ DOMAIN all # {} => _combine_group(all, active_kpi_weight_sum(F)) = scores[req.id]
  BY <1>1, <1>2, ForemanKpisExplain
<1>8. QED
  BY <1>5, <1>6, <1>7 DEF KpisPageStands

\* A chief's comparison.
LEMMA ComparisonPageExplains ==
  ASSUME ViewsInv, Answered({"comparison"}), Steady
  PROVE  ComparisonStands
<1> DEFINE db == hist[at[1]]
<1>1. /\ Saw(Seen, Selects(req.page), db) /\ db \in Databases
      /\ shown.page = req.page /\ shown.answer = Page(req, Seen, shown.ord) /\ Now = Still(db)
  BY SteadyAnswer DEF None
<1>2. IsFilter(F)
  BY RequestIs
<1>3. req.page = "comparison"
  BY <1>1 DEF Answered
<1>4. Saw(Seen, 16, db)
  BY <1>1, <1>3, SelectsAre
<1>5. shown.answer = get_foreman_comparison(Seen, req.id, F, shown.ord)
  <2>1. Page(req, Seen, shown.ord) = ChiefPages(req, Seen, shown.ord)
    BY <1>3, PageIs DEF OfAChief
  <2>2. QED
    BY <1>1, <1>3, <2>1 DEF ChiefPages, F
<1>6. Call(Now, 1) = Once(db)
  BY <1>1, NowIs
<1> HIDE DEF db
<1>7. LET shows  == get_foreman_comparison(Seen, req.id, F, shown.ord)
          scores == foreman_scores(Once(db), OfChief(F, req.id))
      IN  \A f \in DOMAIN shows.scores : RowExplains(shows.scores[f], F, scores[f].total)
  BY <1>1, <1>2, <1>4, ComparisonExplains
<1>8. QED
  BY <1>5, <1>6, <1>7 DEF ComparisonStands

\* The analysis of one KPI.
LEMMA AnalysisPageExplains ==
  ASSUME ViewsInv, Answered({"kpi"}), Steady
  PROVE  shown.answer.foremen = ScoresIn(shown.answer.values)
<1> DEFINE db == hist[at[1]]
<1>1. /\ Saw(Seen, Selects(req.page), db) /\ db \in Databases
      /\ shown.page = req.page /\ shown.answer = Page(req, Seen, shown.ord)
  BY SteadyAnswer DEF None
<1>2. IsFilter(F) /\ req.id # "*"
  BY RequestIs
<1>3. req.page = "kpi"
  BY <1>1 DEF Answered
<1>4. Saw(Seen, 19, db)
  BY <1>1, <1>3, SelectsAre
<1>5. shown.answer = get_analysis(Seen, req.id, F, shown.ord)
  BY <1>1, <1>3, PageIs DEF F
<1> HIDE DEF db
<1>6. LET a == get_analysis(Seen, req.id, F, shown.ord) IN a.foremen = ScoresIn(a.values)
  BY <1>1, <1>2, <1>4, AnalysisExplains
<1>7. QED
  BY <1>5, <1>6

\* The KPI scores shown next to a total are the ones it is made of.
THEOREM KpisExplainScoresCorrect == ViewsSpec => []KpisExplainScores
<1>1. ViewsInv => KpisExplainScores
  <2> SUFFICES ASSUME ViewsInv PROVE KpisExplainScores
    OBVIOUS
  <2>1. Answered({"foreman_kpis"}) /\ Steady => KpisPageStands
    BY KpisPageExplains
  <2>2. Answered({"comparison"}) /\ Steady => ComparisonStands
    BY ComparisonPageExplains
  <2>3. Answered({"kpi"}) /\ Steady => shown.answer.foremen = ScoresIn(shown.answer.values)
    BY AnalysisPageExplains
  <2>4. QED
    BY <2>1, <2>2, <2>3, Zenon
       DEF KpisExplainScores, KpisPageStands, ComparisonStands, RowExplains, ScoresIn
<1>2. QED
  BY <1>1, ViewsInvariantCorrect, PTL

\* A total is made of the parts shown next to it.
THEOREM PartsMakeTheTotalCorrect == ViewsSpec => []PartsMakeTheTotal
<1>1. KpisExplainScores /\ OneBucketIsTheScore /\ PlantTotalBetweenKpis => PartsMakeTheTotal
  BY DEF PartsMakeTheTotal
<1>2. QED
  BY <1>1, KpisExplainScoresCorrect, OneBucketIsTheScoreCorrect, PlantTotalBetweenKpisCorrect, PTL
=============================================================================

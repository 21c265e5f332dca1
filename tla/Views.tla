-------------------------------- MODULE Views --------------------------------
(***************************************************************************)
(* The pages that show performance: a foreman's, a chief's and a plant's    *)
(* page, the dashboard, a KPI's analysis, the announced leaders and the      *)
(* generated reports (services/analytics.py and the services built on it).  *)
(* Every page recomputes its numbers from performance_records with several   *)
(* SELECTs of one READ COMMITTED transaction, so ingestion may commit        *)
(* between any two of them, and the pages must still tell one story.         *)
(*                                                                         *)
(* One request is followed from its first SELECT to its answer; `hist` holds *)
(* the database as it was before and after the commits made meanwhile.  Two   *)
(* KPIs stand for all: "GSF" is read by one SELECT, "AGIR_GITME" by two.      *)
(* Their formulas (module Scoring has the real ones) and the weighted         *)
(* geometric mean are rounded down to integers.  Names, rounding of values     *)
(* on display, and average targets and actuals are left out.                   *)
(***************************************************************************)
EXTENDS Powers, FiniteSets, Sequences, SequencesExt

CONSTANTS
    Workers,      \* a sequence of [foreman, plant, shift, from, until]: who is assigned where,
                  \* and in which months
    Months,       \* 1..Months, the dates of the records
    Weight,       \* [KPI -> weight]
    Factory,      \* [plant -> factory]
    PlantChief,   \* [plant -> chief]: also the chief of the plant's records, by a foreign key
    Sequence,     \* [plant -> plants.sequence_number]
    Starts,       \* databases at the first SELECT
    Changes,      \* what a commit may write: [rows, bonus], both partial
    Requests,     \* [page, id, F, arg, scope]: scope is the plants the reader may see
    ForemanId,    \* [foreman -> Nat]: his id
    Orders,       \* orders in which the database returns groups: [entity -> Nat]
    MaxCommits    \* bound: commits while the request is served

Foremen == {Workers[i].foreman : i \in DOMAIN Workers}
Plants  == DOMAIN Factory
Chiefs  == {PlantChief[p] : p \in Plants}
Shifts  == {Workers[i].shift : i \in DOMAIN Workers}
Kpis    == DOMAIN Weight
Cells   == (DOMAIN Workers) \X Kpis \X (1 .. Months)

NoFilter == {"*"}      \* None: an empty list is another thing
None     == "none"

NotScored == -1

\* A record with the score stored of it, whatever rule made it, and the types of the
\* issues that name it.  A complete one has a quantity to divide by
\* (production_kpi_derivation.py:34-71).
Readings  == {r \in [status : {"ABSENT", "MISSING", "COMPLETE"}, num : Nat, den : Nat,
                     stored : Nat \cup {NotScored}, issues : SUBSET {"MISSING", "REPROCESSED"}] :
                r.status = "COMPLETE" => r.den > 0}
Databases == [rows : [Cells -> Readings], bonus : [Foremen -> Nat]]

OfForeman   == {"foreman", "foreman_kpis", "foreman_detail", "monthly_report", "foreman_trend"}
OfAChief    == {"chief", "chief_foremen", "chief_kpis", "comparison", "chief_trend"}
OfAPlant    == {"plant_summary", "plant_kpis", "plant_shifts", "plant_chiefs", "plant_foremen"}
OfDashboard == {"ranking", "distribution", "trend_ranking", "plant_ranking", "trend", "kpi_summary",
                "shift_comparison", "summary", "snapshot", "leaders"}
ReportTypes == {"COMPANY_SUMMARY", "CRITICAL_PERFORMANCE", "FOREMAN_PERFORMANCE", "PLANT_COMPARISON",
                "SHIFT_COMPARISON", "KPI_ANALYSIS", "MISSING_DATA"}

\* "*" and None name nothing in the database.  A filter may name anything, a
\* reader sees some of the plants or has no limit; the rows of a result come in
\* some order; the dashboard's limit is at least 1 (dashboard.py:143).
ASSUME ViewsAssumption ==
    /\ Kpis = {"GSF", "AGIR_GITME"} /\ Weight \in [Kpis -> Nat \ {0}] /\ "*" \notin Plants
    /\ \A c \in Cells : c # None
    /\ Months \in Nat \ {0} /\ MaxCommits \in Nat
    /\ IsFiniteSet(DOMAIN Workers) /\ \A i \in DOMAIN Workers : Workers[i].plant \in Plants
    /\ \A f, g \in Foremen : ForemanId[f] \in Int /\ (ForemanId[f] = ForemanId[g] => f = g)
    /\ \A ord \in Orders, S \in {Foremen, Plants, Chiefs, Shifts, Kpis} :
          \A x, y \in S : ord[x] \in Int /\ (ord[x] = ord[y] => x = y)
    /\ Starts \subseteq Databases
    /\ \A ch \in Changes :
          /\ DOMAIN ch.rows \subseteq Cells /\ ch.rows \in [DOMAIN ch.rows -> Readings]
          /\ DOMAIN ch.bonus \subseteq Foremen /\ ch.bonus \in [DOMAIN ch.bonus -> Nat]
    /\ \A r \in Requests :
          /\ {"page", "id", "F", "arg", "scope"} \subseteq DOMAIN r
          /\ r.id # "*" /\ (r.page \in OfForeman => r.id # None)
          /\ r.page \in OfForeman \cup OfAChief \cup OfAPlant \cup OfDashboard \cup {"report", "kpi"}
          /\ r.page = "report" => r.arg \in ReportTypes
          /\ r.page = "snapshot" => r.arg \in Nat \ {0}
          /\ {"from", "to", "plants", "factories", "chiefs", "shifts", "kpis", "foremen"} \subseteq DOMAIN r.F
          /\ r.scope = NoFilter \/ r.scope \subseteq Plants

VARIABLES
    hist,   \* the committed databases: [rows : [Cells -> reading], bonus : [Foremen -> Nat]]
    req,    \* the request being served
    at,     \* for every SELECT done, the database it saw (an index of hist)
    shown   \* the answer

viewsVars == <<hist, req, at, shown>>

\* The function f, written out so that TLC evaluates it once.
Table(f) == CHOOSE g \in {f} : g = f

SumOver(S, val) == FoldSet(LAMBDA x, sum : val[x] + sum, 0, S)
ProductOver(S, val) == FoldSet(LAMBDA x, product : val[x] * product, 1, S)
Smallest(S, val) == CHOOSE x \in S : \A y \in S : val[x] <= val[y]

-----------------------------------------------------------------------------
(* Filters and sums: services/analytics.py.  In a reading of AGIR_GITME num stands for denominator * |actual| / target. *)

\* Seeded fault: a list tested for truth instead of for None.
TruthyPasses(list, x) == list = {} \/ list = NoFilter \/ x \in list

Passes(list, x) == list = NoFilter \/ x \in list

narrow_ids(requested, scope) ==
    IF scope = NoFilter THEN requested ELSE IF requested = NoFilter THEN scope ELSE requested \cap scope

\* A reader restricted to plants filters by plants alone.
narrow_filters(F, scope) ==
    IF scope = NoFilter THEN F
    ELSE [F EXCEPT !.plants = narrow_ids(F.plants, scope), !.factories = NoFilter]

InPeriod(F, c) == F.from <= c[3] /\ c[3] <= F.to

_apply_filters(F, c) ==
    /\ InPeriod(F, c)
    /\ Passes(F.plants, Workers[c[1]].plant)
    /\ Passes(F.factories, Factory[Workers[c[1]].plant])
    /\ Passes(F.chiefs, PlantChief[Workers[c[1]].plant])
    /\ Passes(F.shifts, Workers[c[1]].shift)
    /\ Passes(F.kpis, c[2])
    /\ Passes(F.foremen, Workers[c[1]].foreman)

active_kpi_weight_sum(F) == SumOver({k \in Kpis : Passes(F.kpis, k)}, Weight)

COMPLETE(db, F, k) ==
    {c \in Cells : c[2] = k /\ db.rows[c].status = "COMPLETE" /\ _apply_filters(F, c)}

Column(col, c) == CASE col = "month" -> c[3] [] col = "year" -> 0
                    [] col = "chief" -> PlantChief[Workers[c[1]].plant]
                    [] OTHER -> Workers[c[1]][col]

_group_key(cols, c) == [i \in DOMAIN cols |-> Column(cols[i], c)]

Sums(rows, S) ==
    [num |-> SumOver(S, [c \in S |-> rows[c].num]), den |-> SumOver(S, [c \in S |-> rows[c].den]),
     count |-> Cardinality(S)]

GroupBy(rows, S, cols) ==
    Table([g \in {_group_key(cols, c) : c \in S} |-> Sums(rows, {c \in S : _group_key(cols, c) = g})])

\* GROUP BY cols: the sums of every group that has a row.
_kpi_period_stats_multi(db, F, k, cols) == GroupBy(db.rows, COMPLETE(db, F, k), cols)

\* A group the second SELECT does not return has ratio 0, the best there is.
RatioOf(ratios, g) == IF g \in DOMAIN ratios /\ ratios[g].den > 0 THEN ratios[g]
                      ELSE [num |-> 0, den |-> 1, count |-> 0]

AtMost(x, max) == IF x > max THEN max ELSE x
AtLeast(x, min) == IF x < min THEN min ELSE x

KpiScore(k, r) ==
    IF k = "GSF" THEN AtMost((100 * r.num) \div r.den, 120)
    ELSE IF r.num <= r.den THEN 109 - (9 * r.num) \div r.den
    ELSE AtLeast(100 - (12 * (r.num - r.den)) \div r.den, 0)

ScoresOf(k, stats, ratios) ==
    Table([g \in {h \in DOMAIN stats : stats[h].den > 0} |->
             [score |-> KpiScore(k, IF k = "GSF" THEN stats[g] ELSE RatioOf(ratios, g)),
              count |-> stats[g].count]])

\* see: what the three SELECTs of a scoring call saw, one of GSF and two of
\* AGIR_GITME.
_kpi_period_scores_multi(see, F, k, cols) ==
    ScoresOf(k, _kpi_period_stats_multi(IF k = "GSF" THEN see[1] ELSE see[2], F, k, cols),
                _kpi_period_stats_multi(see[3], F, k, cols))

-----------------------------------------------------------------------------
(* Scores of foremen, plants, shifts, chiefs and of a period's buckets *)

\* The largest t up to 120 with t to the power of W is at most product.
Root(product, W) == Cardinality({t \in 1 .. 120 : Power(t, W) <= product})

\* The root of the product of the scores to their weights.
weighted_geometric_score(score) ==
    Root(ProductOver(DOMAIN score, [k \in DOMAIN score |-> Power(score[k], Weight[k])]),
         SumOver(DOMAIN score, Weight))

\* items: [the KPIs of the group -> [score, count]].
_combine_group(items, total_active_weight) ==
    LET covered      == SumOver(DOMAIN items, Weight)
        insufficient == 2 * covered < total_active_weight
    IN  [total    |-> IF insufficient THEN 0
                      ELSE weighted_geometric_score([k \in DOMAIN items |-> items[k].score]),
         reliable |-> ~insufficient /\ covered >= total_active_weight,
         count    |-> SumOver(DOMAIN items, [k \in DOMAIN items |-> items[k].count])]

Combined(per, F) ==
    Table([g \in UNION {DOMAIN per[k] : k \in Kpis} |->
             _combine_group([k \in {j \in Kpis : g \in DOMAIN per[j]} |-> per[k][g]],
                            active_kpi_weight_sum(F))])

_unwrap_single(d) == Table([g \in {key[1] : key \in DOMAIN d} |-> d[<<g>>]])

_grouped_scores(see, F, col) ==
    Combined(Table([k \in Kpis |-> _unwrap_single(_kpi_period_scores_multi(see, F, k, <<col>>))]), F)

\* d is keyed by <<x, plant>>: per x the plain average over its plants.
_equal_weight_plant_average(d) ==
    LET entries(x) == {key \in DOMAIN d : key[1] = x}
    IN  Table([x \in {key[1] : key \in DOMAIN d} |->
                 [score  |-> SumOver(entries(x), [key \in DOMAIN d |-> d[key].score])
                                \div Cardinality(entries(x)),
                  count  |-> SumOver(entries(x), [key \in DOMAIN d |-> d[key].count]),
                  plants |-> [p \in {key[2] : key \in entries(x)} |-> d[<<x, p>>].score]]])

_foreman_plant_kpi_entries(see, F, k) ==
    _equal_weight_plant_average(_kpi_period_scores_multi(see, F, k, <<"foreman", "plant">>))

foreman_scores(see, F) == Combined(Table([k \in Kpis |-> _foreman_plant_kpi_entries(see, F, k)]), F)

plant_scores(see, F) == _grouped_scores(see, F, "plant")
shift_scores(see, F) == _grouped_scores(see, F, "shift")
chief_scores(see, F) == _grouped_scores(see, F, "chief")

\* extra_where: the filter's foremen, and this one.
Only(F, f) == [F EXCEPT !.foremen = IF @ = NoFilter THEN {f} ELSE @ \cap {f}]

trend(see, F, bucket, f) ==
    IF f = None THEN _grouped_scores(see, F, bucket)
    ELSE Combined(Table([k \in Kpis |->
            _equal_weight_plant_average(
                _kpi_period_scores_multi(see, Only(F, f), k, <<bucket, "plant">>))]), F)

\* The KPIs with a row in the one group there is.
Measured(d) == Table([k \in {j \in Kpis : DOMAIN d[j] # {}} |-> d[k][<<>>]])

kpi_breakdown(see, F) == Measured(Table([k \in Kpis |-> _kpi_period_scores_multi(see, F, k, <<>>)]))

kpi_summary(see, F) == kpi_breakdown(see, F)

\* The average over plants takes the place of the pooled row read before it.
PlantsAveraged(base, entries, f) ==
    Table([k \in DOMAIN base |->
             IF f \in DOMAIN entries[k]
             THEN [score |-> entries[k][f].score, count |-> base[k].count, plants |-> entries[k][f].plants]
             ELSE [score |-> base[k].score, count |-> base[k].count, plants |-> <<>>]])

\* Seeded fault: the pooled row kept.
PooledBreakdown(see, again, F, f) ==
    LET base == kpi_breakdown(see, Only(F, f))
    IN  PlantsAveraged(base, [k \in Kpis |-> <<>>], f)

foreman_kpi_breakdown(see, again, F, f) ==
    PlantsAveraged(kpi_breakdown(see, Only(F, f)),
                   Table([k \in Kpis |-> _foreman_plant_kpi_entries(again, Only(F, f), k)]), f)

_point_score(k, sums) == KpiScore(k, sums)

ValuesOf(k, stats, entries) ==
    Table([f \in {g[1] : g \in {h \in DOMAIN stats : stats[h].den > 0}} |->
             [score |-> IF f \in DOMAIN entries THEN entries[f].score
                        ELSE _point_score(k, stats[<<f>>]),
              count |-> stats[<<f>>].count]])

\* db: the SELECT of the sums; see: the scoring call after it.
foreman_kpi_values(db, see, F, k) ==
    ValuesOf(k, _kpi_period_stats_multi(db, F, k, <<"foreman">>), _foreman_plant_kpi_entries(see, F, k))

\* The last complete record that has a score, whatever the filters; of one date, the
\* first the database returns.
latest_foreman_kpi_record(db, f, k, ord) ==
    LET own    == {c \in Cells : /\ Workers[c[1]].foreman = f /\ c[2] = k
                                 /\ db.rows[c].status = "COMPLETE" /\ db.rows[c].stored # NotScored}
        latest == {c \in own : \A d \in own : d[3] <= c[3]}
    IN  IF own = {} THEN None
        ELSE CHOOSE c \in latest : \A d \in latest : ord[Workers[c[1]].plant] <= ord[Workers[d[1]].plant]

-----------------------------------------------------------------------------
(* What the pages make of them *)

resolve_performance_level(score) ==
    IF score < 70 THEN "Kritik" ELSE IF score < 90 THEN "Gelistirilmeli" ELSE "Basarili"

is_outstanding_performance(score) == score >= 105

general_performance_score(operational, bonus) == AtMost(operational + bonus, 120)

General(scores, bonus) ==
    Table([f \in DOMAIN scores |-> general_performance_score(scores[f].total, bonus[f])])

Totals(scores) == Table([g \in DOMAIN scores |-> scores[g].total])

\* Python's stable sort: groups of the same value stay as the database gave them.
Before(val, ord, desc, a, b) ==
    \/ IF desc THEN val[a] > val[b] ELSE val[a] < val[b]
    \/ val[a] = val[b] /\ ord[a] < ord[b]

Place(val, ord, desc, x) == 1 + Cardinality({y \in DOMAIN val : Before(val, ord, desc, y, x)})

Sorted(val, ord, desc) ==
    Table([i \in 1 .. Cardinality(DOMAIN val) |->
             CHOOSE x \in DOMAIN val : Place(val, ord, desc, x) = i])

FirstOf(val, ord, desc) == IF DOMAIN val = {} THEN None ELSE Sorted(val, ord, desc)[1]

Rank(s, x) == IF \E i \in DOMAIN s : s[i] = x THEN CHOOSE i \in DOMAIN s : s[i] = x ELSE 0

Limited(s, limit) == SubSeq(s, 1, AtMost(Len(s), limit))

_foreman_ranking_items(scores, general, ord, desc, limit) ==
    LET s == Limited(Sorted(general, ord, desc), limit)
    IN  [i \in DOMAIN s |-> [id |-> s[i], general |-> general[s[i]],
                             operational |-> scores[s[i]].total, reliable |-> scores[s[i]].reliable,
                             level |-> resolve_performance_level(general[s[i]])]]

_foreman_trend_items(current, previous, ord, improving, limit) ==
    LET delta == Table([f \in DOMAIN current \cap DOMAIN previous |->
                          current[f].total - previous[f].total])
        s     == Limited(Sorted(delta, ord, improving), limit)
    IN  [i \in DOMAIN s |-> [id |-> s[i], delta |-> delta[s[i]],
                             operational |-> current[s[i]].total]]

Levels == {"Kritik", "Gelistirilmeli", "Basarili"}

CountAt(general, level) ==
    Cardinality({f \in DOMAIN general : resolve_performance_level(general[f]) = level})

Outstanding(general) == Cardinality({f \in DOMAIN general : is_outstanding_performance(general[f])})

_distribution_payload(general) ==
    [items |-> [l \in Levels |-> CountAt(general, l)], outstanding |-> Outstanding(general)]

\* The membership SELECT looks at every record, complete or not.
Members(db, F) ==
    {<<Column("chief", c), Workers[c[1]].foreman>> : c \in {d \in Cells : db.rows[d].status # "ABSENT" /\ _apply_filters(F, d)}}

Teams(chiefs, foremen, members) ==
    Table([c \in {m[1] : m \in members} |->
             [total    |-> IF c \in DOMAIN chiefs THEN chiefs[c].total ELSE 0,
              reliable |-> c \in DOMAIN chiefs /\ chiefs[c].reliable,
              foremen  |-> [f \in {m[2] : m \in {n \in members : n[1] = c}} \cap DOMAIN foremen |->
                              foremen[f]]]])

chief_team_scores(see, again, db, F) ==
    Teams(chief_scores(see, F), foreman_scores(again, F), Members(db, F))

NoTeam == [total |-> 0, reliable |-> FALSE, foremen |-> <<>>]

TeamOf(teams, c) == IF c \in DOMAIN teams THEN teams[c] ELSE NoTeam

-----------------------------------------------------------------------------
(* The pages.  s(i) is the database the i-th SELECT saw, Call(i) what the
   scoring call that begins with it saw. *)

Call(s, i) == <<s[i], s[i + 1], s[i + 2]>>

\* His assignments that overlap the months from a to b.
assignments_overlapping_period(f, a, b) ==
    {i \in DOMAIN Workers : Workers[i].foreman = f /\ Workers[i].from <= b /\ a <= Workers[i].until}

\* Where he is assigned on the last day of the period shown.
CurrentPlants(f, F) == {Workers[i].plant : i \in assignments_overlapping_period(f, F.to, F.to)}

resolve_foreman_scope(F, plants) ==
    [F EXCEPT !.plants = IF F.plants # NoFilter THEN F.plants
                         ELSE IF plants = {} THEN NoFilter
                         ELSE {Smallest(plants, Sequence)}]

\* Seeded fault: ranks as the total alone would give them.
RankedByOperational(f, scores, bonus, ord) ==
    [rank |-> Rank(Sorted(Totals(scores), ord, TRUE), f), total |-> Cardinality(DOMAIN scores)]

RankAmong(f, scores, bonus, ord) ==
    [rank |-> Rank(Sorted(General(scores, bonus), ord, TRUE), f), total |-> Cardinality(DOMAIN scores)]

ForemanDetail(f, all, ofPlant, bonus, ord) ==
    LET mine    == IF f \in DOMAIN all THEN all[f].total ELSE 0
        general == general_performance_score(mine, bonus[f])
    IN  [operational |-> mine, general |-> general, level |-> resolve_performance_level(general),
         reliable |-> f \in DOMAIN all /\ all[f].reliable, in_scope |-> f \in DOMAIN all,
         company |-> RankAmong(f, all, bonus, ord), plant |-> RankAmong(f, ofPlant, bonus, ord)]

\* The plant's scores are read anew only when its scope is another one.
get_foreman(s, f, F, ord) ==
    LET scope == resolve_foreman_scope(F, CurrentPlants(f, F))
    IN  ForemanDetail(f, foreman_scores(Call(s, 1), F),
                      foreman_scores(Call(s, IF scope = F THEN 1 ELSE 5), scope), s[4].bonus, ord)

get_foreman_kpis(s, f, F) == foreman_kpi_breakdown(Call(s, 1), Call(s, 4), F, f)

\* The score stored with the record; without one the page is not found.
get_foreman_kpi_calculation_detail(s, f, k, ord) ==
    LET c == latest_foreman_kpi_record(s[1], f, k, ord)
    IN  IF c = None THEN [date |-> 0, score |-> NotScored]
        ELSE [date |-> c[3], score |-> s[1].rows[c].stored]

\* The page's own chief or plant takes the place of the filter's.
OfChief(F, c) == [F EXCEPT !.chiefs = {c}]
OfPlant(F, p) == [F EXCEPT !.plants = {p}]
OfKpi(F, k)   == [F EXCEPT !.kpis = {k}]

resolve_chief_scope(F) == [F EXCEPT !.chiefs = NoFilter]

ChiefFactory(c) ==
    LET own == {p \in Plants : PlantChief[p] = c}
    IN  IF own = {} THEN None ELSE Factory[Smallest(own, Sequence)]

FactoryChiefs(c) == {PlantChief[p] : p \in {q \in Plants : Factory[q] = ChiefFactory(c)}}

\* The chiefs of the list who are of c's factory, in its order.
_factory_ranked(ranked, c) ==
    LET place == [i \in {j \in DOMAIN ranked : ranked[j] \in FactoryChiefs(c)} |-> i]
        kept  == Sorted(place, place, FALSE)
    IN  [n \in DOMAIN kept |-> ranked[kept[n]]]

ChiefDetail(c, teams, ord) ==
    LET team   == TeamOf(teams, c)
        ranked == Sorted(Totals(teams), ord, TRUE)
        ofFactory == _factory_ranked(ranked, c)
    IN  [total |-> team.total, reliable |-> team.reliable, level |-> resolve_performance_level(team.total),
         foreman_count |-> Cardinality(DOMAIN team.foremen),
         company_rank |-> Rank(ranked, c), company_total |-> Len(ranked),
         factory_rank |-> Rank(ofFactory, c), factory_total |-> Len(ofFactory)]

get_chief(s, c, F, ord) ==
    ChiefDetail(c, chief_team_scores(Call(s, 1), Call(s, 4), s[7], resolve_chief_scope(F)), ord)

AllItems(scores, general, ord) ==
    _foreman_ranking_items(scores, general, ord, TRUE, Cardinality(DOMAIN general))

TeamItems(foremen, bonus, ord) == AllItems(foremen, General(foremen, bonus), ord)

get_chief_foremen(s, c, F, ord) ==
    TeamItems(TeamOf(chief_team_scores(Call(s, 1), Call(s, 4), s[7], OfChief(F, c)), c).foremen,
              s[8].bonus, ord)

get_chief_kpis(s, c, F) == kpi_breakdown(Call(s, 1), OfChief(F, c))

Comparison(items, team, kpis, values) ==
    [foremen |-> items,
     scores  |-> [f \in DOMAIN team.foremen |->
                    [k \in {j \in DOMAIN kpis : f \in DOMAIN values[j]} |-> values[k][f].score]],
     group   |-> [k \in DOMAIN kpis |-> kpis[k].score],
     total   |-> team.total]

\* The values of GSF come from SELECTs 12 and 13, those of AGIR_GITME from 14 to 16.
get_foreman_comparison(s, c, F, ord) ==
    Comparison(get_chief_foremen(s, c, F, ord),
               TeamOf(chief_team_scores(Call(s, 1), Call(s, 4), s[7], OfChief(F, c)), c),
               kpi_breakdown(Call(s, 9), OfChief(F, c)),
               [k \in Kpis |-> foreman_kpi_values(s[IF k = "GSF" THEN 12 ELSE 14],
                                                  Call(s, IF k = "GSF" THEN 13 ELSE 14), OfChief(F, c), k)])

get_chief_trend(s, c, F, bucket) == trend(Call(s, 1), OfChief(F, c), bucket, None)

kpi_summary_of_plant(s, i, p, F) == kpi_summary(Call(s, i), OfPlant(F, p))

ScoreTable(kpis) == [k \in DOMAIN kpis |-> kpis[k].score]

PlantSummary(p, plants, foremen, score, ord) ==
    [total     |-> IF p \in DOMAIN plants THEN plants[p].total ELSE 0,
     average   |-> IF DOMAIN foremen = {} THEN 0
                   ELSE SumOver(DOMAIN foremen, foremen) \div Cardinality(DOMAIN foremen),
     critical  |-> CountAt(foremen, "Kritik"),
     strongest |-> FirstOf(score, ord, TRUE), weakest |-> FirstOf(score, ord, FALSE),
     kpis      |-> score]

get_plant_summary(s, p, F, ord) ==
    PlantSummary(p, plant_scores(Call(s, 1), OfPlant(F, p)),
                 Totals(foreman_scores(Call(s, 4), OfPlant(F, p))),
                 ScoreTable(kpi_summary_of_plant(s, 7, p, F)), ord)

get_plant_kpis(s, p, F)   == kpi_summary_of_plant(s, 1, p, F)
get_plant_shifts(s, p, F) == Totals(shift_scores(Call(s, 1), OfPlant(F, p)))

get_plant_chiefs(s, p, F) ==
    LET scores == chief_scores(Call(s, 1), OfPlant(F, p))
    IN  [c \in {PlantChief[p]} |-> IF c \in DOMAIN scores THEN scores[c].total ELSE 0]

WithBonus(scores, bonus) == [scores |-> scores, general |-> General(scores, bonus)]

\* The scores, then the bonuses.
compute_general_foreman_scores(s, i, F) ==
    WithBonus(foreman_scores(Call(s, i), F), s[i + 3].bonus)

RankingOf(base, ord, desc, limit) ==
    _foreman_ranking_items(base.scores, base.general, ord, desc, limit)

foreman_ranking(s, i, F, ord, desc, limit) ==
    RankingOf(compute_general_foreman_scores(s, i, F), ord, desc, limit)

\* Sorted by the database: foremen of the same score by their ids.
get_plant_foremen(s, p, F, limit) ==
    RankingOf(compute_general_foreman_scores(s, 1, OfPlant(F, p)), ForemanId, TRUE, limit)

\* The periods before: as many months, none of them before the first record.
_previous_period_filters(F) ==
    [F EXCEPT !.from = F.from - (F.to - F.from + 1), !.to = F.from - 1]

plant_ranking(s, F, ord, desc, limit) ==
    Limited(Sorted(Totals(plant_scores(Call(s, 1), F)), ord, desc), limit)

performance_distribution(s, F) ==
    _distribution_payload(compute_general_foreman_scores(s, 1, F).general)

foreman_trend_ranking(s, F, ord, improving, limit) ==
    _foreman_trend_items(foreman_scores(Call(s, 1), F),
                         foreman_scores(Call(s, 4), _previous_period_filters(F)), ord, improving, limit)

\* Filtered by the dates alone.
MissingPlants(db, F) ==
    {Workers[c[1]].plant : c \in {d \in Cells : InPeriod(F, d) /\ db.rows[d].status = "MISSING"}}

_compute_base(s, F) ==
    LET first == compute_general_foreman_scores(s, 1, F)
    IN  [scores |-> first.scores, general |-> first.general,
         plants |-> Totals(plant_scores(Call(s, 5), F)), shifts |-> Totals(shift_scores(Call(s, 8), F)),
         kpis   |-> kpi_summary(Call(s, 11), F)]

_summary_payload(base, missing, ord) ==
    LET general == base.general
        weak    == ScoreTable(base.kpis)
    IN  [total_active_foremen |-> Cardinality(DOMAIN general),
         avg_company_score |-> IF DOMAIN general = {} THEN 0
                               ELSE SumOver(DOMAIN general, general) \div Cardinality(DOMAIN general),
         above |-> Cardinality({f \in DOMAIN general : general[f] >= 100}),
         below |-> Cardinality({f \in DOMAIN general : general[f] < 100}),
         critical |-> CountAt(general, "Kritik"), successful |-> CountAt(general, "Basarili"),
         outstanding |-> Outstanding(general),
         best_plant |-> FirstOf(base.plants, ord, TRUE), worst_plant |-> FirstOf(base.plants, ord, FALSE),
         best_shift |-> FirstOf(base.shifts, ord, TRUE), worst_shift |-> FirstOf(base.shifts, ord, FALSE),
         best_foreman |-> FirstOf(general, ord, TRUE), weakest_kpi |-> FirstOf(weak, ord, FALSE),
         plants_with_missing_data |-> Cardinality(missing)]

summary(s, F, ord) == _summary_payload(_compute_base(s, F), MissingPlants(s[14], F), ord)

\* Seeded fault: the levels counted anew, from later SELECTs.
DistributionAgain(s, F, base) ==
    _distribution_payload(compute_general_foreman_scores(s, 14, F).general)

\* Every section is made of the scores read first.
snapshot_distribution(s, F, base) == _distribution_payload(base.general)

Sections(s, F, base, previous, ord, limit) ==
    [summary |-> _summary_payload(base, MissingPlants(s[17], F), ord),
     kpis |-> base.kpis, shifts |-> base.shifts,
     top |-> RankingOf(base, ord, TRUE, limit), bottom |-> RankingOf(base, ord, FALSE, limit),
     improving |-> _foreman_trend_items(base.scores, previous, ord, TRUE, limit),
     declining |-> _foreman_trend_items(base.scores, previous, ord, FALSE, limit),
     distribution |-> snapshot_distribution(s, F, base)]

snapshot(s, F, ord, limit) ==
    Sections(s, F, _compute_base(s, F), foreman_scores(Call(s, 14), _previous_period_filters(F)),
             ord, limit)

RankedIn(foremen, ord) == [best_foremen |-> Sorted(foremen, ord, TRUE), foremen |-> foremen]

\* The analysis of one KPI: its values among the foremen, after everything else.
get_analysis(s, k, F, ord) ==
    LET company == kpi_breakdown(Call(s, 1), OfKpi(F, k))
        ranked  == RankedIn(Totals(foreman_scores(Call(s, 10), OfKpi(F, k))), ord)
    IN  [best_foremen |-> ranked.best_foremen, foremen |-> ranked.foremen,
         company |-> IF k \in DOMAIN company THEN company[k].score ELSE 0,
         best_plants |-> Sorted(Totals(plant_scores(Call(s, 4), OfKpi(F, k))), ord, TRUE),
         shifts |-> Sorted(Totals(shift_scores(Call(s, 7), OfKpi(F, k))), ord, TRUE),
         trend  |-> Totals(trend(Call(s, 13), OfKpi(F, k), "month", None)),
         values |-> IF k \in DOMAIN company
                    THEN foreman_kpi_values(s[16], Call(s, 17), OfKpi(F, k), k) ELSE <<>>]

_top(items) == IF items = <<>> \/ ~items[1].reliable THEN None ELSE items[1].id

_month_leader(s, i, F, ord) == _top(foreman_ranking(s, i, F, ord, TRUE, Cardinality(Foremen)))

Leaders(month, yearly) ==
    [monthly |-> month[Months], yearly |-> yearly,
     monthly_wins |-> Cardinality({m \in 1 .. Months : yearly # None /\ month[m] = yearly})]

\* Months of the year so far, one ranking each; the year's own ranking last.
leaders(s, F, ord) ==
    Leaders(Table([m \in 1 .. Months |->
                     _month_leader(s, 4 * m - 3, [F EXCEPT !.from = m, !.to = m], ord)]),
            _month_leader(s, 4 * Months + 1, [F EXCEPT !.from = 1, !.to = Months], ord))

-----------------------------------------------------------------------------
(* A foreman's monthly report: services/monthly_foreman_report.py.  Its texts, its
   comparisons of averages and the shape of its trend are left out. *)

\* Of every plant, whatever the reader's filters.
_month_bounds(m) ==
    [from |-> m, to |-> m, plants |-> NoFilter, factories |-> NoFilter, chiefs |-> NoFilter,
     shifts |-> NoFilter, kpis |-> NoFilter, foremen |-> NoFilter]

AtLevels(entries, levels) ==
    {k \in DOMAIN entries : resolve_performance_level(entries[k].score) \in levels}

InsufficientData == [insufficient_data |-> TRUE]

GeneralScore(f, scores, bonus) == general_performance_score(scores[f].total, bonus[f])

ReportData(f, scores, now, entries, weeks, gain) ==
    IF f \notin DOMAIN scores \/ ~scores[f].reliable THEN InsufficientData
    ELSE [insufficient_data |-> FALSE, score |-> now, operational |-> scores[f].total,
          level |-> resolve_performance_level(now),
          strong |-> AtLevels(entries, {"Basarili"}),
          improve |-> AtLevels(entries, {"Kritik", "Gelistirilmeli"}),
          critical |-> AtLevels(entries, {"Kritik"}),
          congratulated |-> IF is_outstanding_performance(now)
                            THEN {k \in AtLevels(entries, {"Basarili"}) :
                                    is_outstanding_performance(entries[k].score)}
                            ELSE {},
          weeks |-> weeks, previous |-> gain]

Gain(f, now, before, bonus) ==
    IF f \in DOMAIN before /\ before[f].reliable THEN <<now - GeneralScore(f, before, bonus)>> ELSE <<>>

MeasuredReport(s, f, m) ==
    LET now == GeneralScore(f, foreman_scores(Call(s, 1), _month_bounds(m)), s[10].bonus)
    IN  ReportData(f, foreman_scores(Call(s, 1), _month_bounds(m)), now,
                   foreman_kpi_breakdown(Call(s, 4), Call(s, 7), _month_bounds(m), f),
                   trend(Call(s, 11), _month_bounds(m), "month", f),
                   Gain(f, now, foreman_scores(Call(s, 14), _month_bounds(m - 1)), s[17].bonus))

\* Nothing is read of a foreman who had no assignment in the month.
_build_report_data(s, f, m) ==
    IF assignments_overlapping_period(f, m, m) = {} THEN InsufficientData ELSE MeasuredReport(s, f, m)

-----------------------------------------------------------------------------
(* Reports: services/reporting.py *)

_critical_rows(base, ord) ==
    LET worst == [f \in {g \in DOMAIN base.general :
                      resolve_performance_level(base.general[g]) = "Kritik"} |-> base.general[f]]
    IN  Sorted(worst, ord, FALSE)

_company_summary(general) ==
    [l \in Levels |->
       LET at_level == {f \in DOMAIN general : resolve_performance_level(general[f]) = l}
       IN  [count |-> Cardinality(at_level),
            average |-> IF at_level = {} THEN 0
                        ELSE SumOver(at_level, general) \div Cardinality(at_level)]]

\* Every issue that names a record, a REPROCESSED one of a complete record too; like the
\* dashboard's count filtered by the dates alone.
_missing_data(db, F) ==
    UNION {{c} \X db.rows[c].issues : c \in {d \in Cells : InPeriod(F, d)}}

build_report_rows(s, type, F, ord) ==
    LET base == compute_general_foreman_scores(s, 1, F)
    IN  CASE type = "COMPANY_SUMMARY"      -> _company_summary(base.general)
          [] type = "CRITICAL_PERFORMANCE" -> _critical_rows(base, ord)
          [] type = "FOREMAN_PERFORMANCE"  -> Sorted(base.general, ord, TRUE)
          [] type = "PLANT_COMPARISON"     -> Sorted(Totals(plant_scores(Call(s, 1), F)), ord, TRUE)
          [] type = "SHIFT_COMPARISON"     -> Totals(shift_scores(Call(s, 1), F))
          [] type = "KPI_ANALYSIS"         -> kpi_breakdown(Call(s, 1), F)
          [] type = "MISSING_DATA"         -> _missing_data(s[1], F)

-----------------------------------------------------------------------------
(* Requests and their answers.  r.arg is a limit, the bucket of a trend or the
   type of a report; for a ranking that goes upwards it is negative. *)

Selects(page) ==
    CASE page = "foreman" -> 7   [] page = "foreman_kpis" -> 6 [] page = "foreman_trend" -> 3
      [] page = "chief" -> 7     [] page = "chief_foremen" -> 8 [] page = "chief_kpis" -> 3
      [] page = "comparison" -> 16 [] page = "chief_trend" -> 3
      [] page = "plant_summary" -> 9 [] page = "plant_kpis" -> 3 [] page = "plant_shifts" -> 3
      [] page = "plant_chiefs" -> 3  [] page = "plant_foremen" -> 4
      [] page = "ranking" -> 4   [] page = "distribution" -> 4 [] page = "trend_ranking" -> 6
      [] page = "plant_ranking" -> 3 [] page = "trend" -> 3    [] page = "snapshot" -> 17
      [] page = "foreman_detail" -> 1 [] page = "monthly_report" -> 17
      [] page = "kpi_summary" -> 3 [] page = "shift_comparison" -> 3 [] page = "summary" -> 14
      [] page = "leaders" -> 4 * Months + 4 [] page = "report" -> 4 [] page = "kpi" -> 19

ForemanPages(r, s, ord) ==
    CASE r.page = "foreman"       -> get_foreman(s, r.id, r.F, ord)
      [] r.page = "foreman_kpis"  -> get_foreman_kpis(s, r.id, r.F)
      [] r.page = "monthly_report" -> _build_report_data(s, r.id, r.arg)
      [] r.page = "foreman_detail" -> get_foreman_kpi_calculation_detail(s, r.id, r.arg, ord)
      [] r.page = "foreman_trend" -> trend(Call(s, 1), r.F, r.arg, r.id)

ChiefPages(r, s, ord) ==
    CASE r.page = "chief"         -> get_chief(s, r.id, r.F, ord)
      [] r.page = "chief_foremen" -> get_chief_foremen(s, r.id, r.F, ord)
      [] r.page = "chief_kpis"    -> get_chief_kpis(s, r.id, r.F)
      [] r.page = "comparison"    -> get_foreman_comparison(s, r.id, r.F, ord)
      [] r.page = "chief_trend"   -> get_chief_trend(s, r.id, r.F, r.arg)

PlantPages(r, s, ord) ==
    CASE r.page = "plant_summary" -> get_plant_summary(s, r.id, r.F, ord)
      [] r.page = "plant_kpis"    -> get_plant_kpis(s, r.id, r.F)
      [] r.page = "plant_shifts"  -> get_plant_shifts(s, r.id, r.F)
      [] r.page = "plant_chiefs"  -> get_plant_chiefs(s, r.id, r.F)
      [] r.page = "plant_foremen" -> get_plant_foremen(s, r.id, r.F, r.arg)

DashboardPages(r, s, ord) ==
    LET limit == AtLeast(r.arg, -r.arg)
    IN  CASE r.page = "ranking"       -> foreman_ranking(s, 1, r.F, ord, r.arg > 0, limit)
          [] r.page = "distribution"  -> performance_distribution(s, r.F)
          [] r.page = "trend_ranking" -> foreman_trend_ranking(s, r.F, ord, r.arg > 0, limit)
          [] r.page = "plant_ranking" -> plant_ranking(s, r.F, ord, r.arg > 0, limit)
          [] r.page = "trend"         -> trend(Call(s, 1), r.F, r.arg, None)
          [] r.page = "kpi_summary"   -> kpi_summary(Call(s, 1), r.F)
          [] r.page = "shift_comparison" -> Totals(shift_scores(Call(s, 1), r.F))
          [] r.page = "summary"       -> summary(s, r.F, ord)
          [] r.page = "snapshot"      -> snapshot(s, r.F, ord, r.arg)
          [] r.page = "leaders"       -> leaders(s, r.F, ord)

Page(r, s, ord) ==
    CASE r.page \in OfForeman   -> ForemanPages(r, s, ord)
      [] r.page \in OfAChief    -> ChiefPages(r, s, ord)
      [] r.page \in OfAPlant    -> PlantPages(r, s, ord)
      [] r.page \in OfDashboard -> DashboardPages(r, s, ord)
      [] r.page = "report"      -> build_report_rows(s, r.arg, r.F, ord)
      [] r.page = "kpi"         -> get_analysis(s, r.id, r.F, ord)

-----------------------------------------------------------------------------
(* Who may ask for what: api/authz_deps.py and ReportService.  scope is the set
   of plants the reader may see. *)

assert_plant_in_scope(p, scope) == scope = NoFilter \/ p \in scope

assert_chief_in_scope(c, scope) == scope = NoFilter \/ \E p \in scope : PlantChief[p] = c

\* Any assignment counts, an ended one too.
assert_foreman_in_scope(f, scope) ==
    scope = NoFilter \/ \E i \in DOMAIN Workers : Workers[i].foreman = f /\ Workers[i].plant \in scope

_expand_factory_ids(factories) ==
    IF factories = NoFilter THEN {} ELSE {p \in Plants : Factory[p] \in factories}

\* A restricted reader's report must name its plants.
_assert_request_within_scope(F, scope) ==
    LET named == (IF F.plants = NoFilter THEN {} ELSE F.plants) \cup _expand_factory_ids(F.factories)
    IN  scope = NoFilter \/ (named # {} /\ named \subseteq scope)

\* The same of the filters stored with a report, for whoever downloads it.
_assert_export_within_scope(F, scope) == _assert_request_within_scope(F, scope)

Allowed(r) ==
    /\ r.page \in OfForeman => assert_foreman_in_scope(r.id, r.scope)
    /\ r.page \in OfAChief  => assert_chief_in_scope(r.id, r.scope)
    /\ r.page \in OfAPlant  => assert_plant_in_scope(r.id, r.scope)
    /\ r.page = "report"    => _assert_request_within_scope(r.F, r.scope)

\* Dates given the wrong way round are exchanged.
common_filters(q) == IF q.from > q.to THEN [q EXCEPT !.from = q.to, !.to = q.from] ELSE q

\* The request as the services get it: a report is refused, not narrowed.
Received(r) ==
    [r EXCEPT !.F = IF r.page = "report" THEN common_filters(r.F)
                    ELSE narrow_filters(common_filters(r.F), r.scope)]

NotYet  == [page |-> None]
Refused == [page |-> "403"]

Remaining == Selects(req.page) - Len(at)

\* A request comes in, its filters narrowed to what its reader may see.
ViewsInit ==
    /\ hist \in {<<db>> : db \in Starts}
    /\ req \in {Received(r) : r \in Requests}
    /\ at = <<>>
    /\ shown = IF Allowed(req) THEN NotYet ELSE Refused

\* The next SELECT sees the last committed database.  Once no commit can come
\* any more the rest see the same one, and go in one step.
Read ==
    /\ Remaining > 0 /\ shown = NotYet
    /\ at' = at \o [i \in 1 .. (IF Len(hist) > MaxCommits THEN Remaining ELSE 1) |-> Len(hist)]
    /\ UNCHANGED <<hist, req, shown>>

\* A table after a commit that changed some of its rows.
Written(new, old) == [x \in DOMAIN old |-> IF x \in DOMAIN new THEN new[x] ELSE old[x]]

\* Ingestion commits a correction, or an author publishes a work with a bonus.
Commit ==
    /\ Len(hist) <= MaxCommits
    /\ at # <<>> /\ Remaining > 0
    /\ \E ch \in Changes : LET db == hist[Len(hist)]
                           IN  hist' = Append(hist, [rows  |-> Written(ch.rows, db.rows),
                                                     bonus |-> Written(ch.bonus, db.bonus)])
    /\ UNCHANGED <<req, at, shown>>

Seen == [i \in DOMAIN at |-> hist[at[i]]]

Answer ==
    /\ Remaining = 0 /\ shown = NotYet
    /\ \E ord \in Orders : shown' = [page |-> req.page, ord |-> ord, answer |-> Page(req, Seen, ord), reader |-> req.scope]
    /\ UNCHANGED <<hist, req, at>>

\* A report is kept with its filters; a reader of another scope downloads it.
Download ==
    /\ shown.page = "report"
    /\ \E r \in Requests : /\ _assert_export_within_scope(req.F, r.scope)
                           /\ shown' = [shown EXCEPT !.reader = r.scope]
    /\ UNCHANGED <<hist, req, at>>

ViewsNext == Read \/ Commit \/ Answer \/ Download
ViewsSpec == ViewsInit /\ [][ViewsNext]_viewsVars

-----------------------------------------------------------------------------
(* Properties *)

\* Type invariant.
ViewsTypeOK ==
    /\ hist \in Seq(Databases) /\ Len(hist) \in 1 .. MaxCommits + 1
    /\ \E r \in Requests : req = Received(r)
    /\ at \in Seq(DOMAIN hist) /\ Len(at) <= Selects(req.page)
    /\ shown \notin {NotYet, Refused} => shown.page = req.page

Answered(pages) == shown.page \in pages

\* All SELECTs of the request saw one database.
Steady == at[1] = at[Len(at)]

\* What another request would read, without a commit in between.
Still(db) == [i \in Nat |-> db]
Now == Still(hist[at[1]])

F == req.F

\* The rank on a foreman's page is a place of foremen of his general score in the
\* dashboard's ranking under the same filters, and in his plant's list of foremen:
\* get_foreman ranks for itself what DashboardForemanService and PlantService rank
\* elsewhere.  Foremen of the same score may change places: each request breaks ties
\* by the order its groups come back in, the plant's list by the foremen's ids.
Tells(list, rank, f, general) ==
    IF \A i \in DOMAIN list : list[i].id # f THEN rank = 0
    ELSE /\ rank \in DOMAIN list /\ list[rank].general = general
         /\ \A i \in DOMAIN list : list[i].id = f => list[i].general = general

RankMatchesRanking ==
    Answered({"foreman"}) /\ Steady =>
        LET a    == shown.answer
            home == CurrentPlants(req.id, F)
            list == get_plant_foremen(Now, Smallest(home, Sequence), F, Cardinality(Foremen))
            own  == {i \in DOMAIN list : list[i].id = req.id}
        IN  /\ \A ord \in Orders :
                  LET ranking == foreman_ranking(Now, 1, F, ord, TRUE, Cardinality(Foremen))
                  IN  /\ a.company.total = Len(ranking) /\ Tells(ranking, a.company.rank, req.id, a.general)
                      /\ a.in_scope => ranking[a.company.rank].level = a.level
            /\ F.plants = NoFilter /\ home # {} =>
                  /\ a.plant.total = Len(list)
                  /\ \A i \in own : Tells(list, a.plant.rank, req.id, list[i].general)
                  /\ own = {} => a.plant.rank = 0

\* The KPI scores shown next to a total are the ones it is made of: on the
\* foreman's KPI page, in the chief's comparison and in the analysis of one
\* KPI, each of which computes them with code of its own.
KpisExplainScores ==
    /\ Answered({"foreman_kpis"}) /\ Steady =>
          LET scores == foreman_scores(Call(Now, 1), F)
              all    == shown.answer
          IN  /\ (req.id \in DOMAIN scores) = (DOMAIN all # {})
              /\ DOMAIN all # {} =>
                    _combine_group(all, active_kpi_weight_sum(F)) = scores[req.id]
    /\ Answered({"comparison"}) /\ Steady =>
          LET scores == foreman_scores(Call(Now, 1), OfChief(F, req.id))
              all    == shown.answer.scores
          IN  \A f \in DOMAIN all :
                 _combine_group([k \in DOMAIN all[f] |-> [score |-> all[f][k], count |-> 0]],
                                active_kpi_weight_sum(F)).total = scores[f].total
    /\ Answered({"kpi"}) /\ Steady =>
          shown.answer.foremen = [f \in DOMAIN shown.answer.values |-> shown.answer.values[f].score]

\* A trend with a single bucket is the score of the page it stands on: the
\* foreman's trend averages his plants like his score does, the chief's pools
\* his rows like his.
OneBucketIsTheScore ==
    Answered({"foreman_trend", "chief_trend"}) /\ req.arg = "year" /\ Steady =>
        LET scores == IF req.page = "foreman_trend" THEN foreman_scores(Call(Now, 1), F)
                      ELSE chief_scores(Call(Now, 1), resolve_chief_scope(F))
        IN  IF req.id \in DOMAIN scores THEN shown.answer = [b \in {0} |-> scores[req.id]]
            ELSE DOMAIN shown.answer = {}

\* The pages of a chief tell of one group, whatever chiefs the filter names: the
\* detail page ranks him among all chiefs and takes his team out, the others
\* ask for his rows only.  The comparison shows the same total, a row of KPI
\* scores for exactly the foremen listed, and the detail page counts them all.
ChiefPagesAgree ==
    Answered({"comparison"}) /\ Steady =>
        LET page == get_chief(Now, req.id, F, shown.ord)
            list == get_chief_foremen(Now, req.id, F, shown.ord)
        IN  /\ shown.answer.total = page.total
            /\ Len(list) <= page.foreman_count
            /\ page.reliable => Len(list) > 0
            /\ DOMAIN shown.answer.scores = {list[i].id : i \in DOMAIN list}

\* Whatever was committed meanwhile, the sections of one dashboard snapshot agree:
\* every foreman is above or below target and at one level, the counts of the
\* summary are those of the distribution, its best foreman leads the ranking,
\* and no foreman improves by less than one who declines more.
SnapshotAgreesWithItself ==
    Answered({"snapshot"}) =>
        LET a == shown.answer
            n == a.summary.total_active_foremen
        IN  /\ a.summary.above + a.summary.below = n
            /\ SumOver(Levels, a.distribution.items) = n
            /\ a.distribution.items["Kritik"] = a.summary.critical
            /\ a.distribution.items["Basarili"] = a.summary.successful
            /\ a.distribution.outstanding = a.summary.outstanding
            /\ IF n = 0 THEN a.top = <<>> /\ a.summary.best_foreman = None
               ELSE a.top[1].id = a.summary.best_foreman /\ a.bottom[1].general <= a.top[1].general
            /\ \A i \in DOMAIN a.improving, j \in DOMAIN a.declining :
                  a.improving[i].delta < a.declining[j].delta =>
                     i > j \/ Len(a.improving) = req.arg \/ \E k \in DOMAIN a.improving : a.improving[k].id = a.declining[j].id
            /\ \A i \in DOMAIN a.improving, j \in DOMAIN a.top :
                  a.improving[i].id = a.top[j].id => a.improving[i].operational = a.top[j].operational

\* An announced leader was measured on every KPI, and no foreman had more in the
\* same months: a leader whose data are incomplete is not replaced by the next.
LeaderIsBest ==
    Answered({"leaders"}) =>
        LET base(i, from, to) == compute_general_foreman_scores(Seen, i, [F EXCEPT !.from = from, !.to = to])
            best(f, b) == /\ b.scores[f].reliable
                          /\ \A g \in DOMAIN b.general : b.general[g] <= b.general[f]
        IN  /\ shown.answer.monthly # None =>
                  best(shown.answer.monthly, base(4 * Months - 3, Months, Months))
            /\ shown.answer.yearly # None =>
                  best(shown.answer.yearly, base(4 * Months + 1, 1, Months))

\* A plant's total lies between its weakest and its strongest KPI, which are read
\* by later SELECTs, and is the one the dashboard ranks the plant by.
PlantTotalBetweenKpis ==
    Answered({"plant_summary"}) /\ Steady =>
        LET a      == shown.answer
            scores == plant_scores(Call(Now, 1), OfPlant(F, req.id))
        IN  /\ (a.weakest = None) = (DOMAIN scores = {})
            /\ DOMAIN scores # {} /\ a.total > 0 =>
                  /\ a.kpis[a.weakest] <= a.total /\ a.total <= a.kpis[a.strongest]
                  /\ a.total = weighted_geometric_score(a.kpis)

\* A chief's rank in his factory counts the chiefs of that factory and nobody else, and
\* is never worse than his rank in the company.
FactoryRankInFactory ==
    Answered({"chief"}) /\ shown.answer.factory_rank > 0 =>
        LET a      == shown.answer
            teams  == chief_team_scores(Call(Seen, 1), Call(Seen, 4), Seen[7], resolve_chief_scope(F))
            ours   == DOMAIN teams \cap FactoryChiefs(req.id)
        IN  /\ a.factory_total = Cardinality(ours)
            /\ a.factory_rank <= a.company_rank
            /\ Cardinality({c \in ours : teams[c].total > a.total}) < a.factory_rank
            /\ a.factory_rank <= Cardinality({c \in ours : teams[c].total >= a.total})

\* The reports and the dashboard say the same of the same data: the critical
\* foremen reported are those the distribution and the company summary count.
ReportsAgree ==
    Answered({"report"}) /\ Steady =>
        LET levels == performance_distribution(Now, F).items
        IN  /\ req.arg = "CRITICAL_PERFORMANCE" => Len(shown.answer) = levels["Kritik"]
            /\ req.arg = "COMPANY_SUMMARY" =>
                  \A l \in Levels : shown.answer[l].count = levels[l]

\* The dashboard loaded as one snapshot and loaded section by section shows the same.
SnapshotMatchesSections ==
    Answered({"summary", "kpi_summary", "shift_comparison"}) /\ Steady =>
        LET whole == snapshot(Now, F, shown.ord, Cardinality(Foremen))
        IN  shown.answer = CASE req.page = "summary" -> whole.summary
                             [] req.page = "kpi_summary" -> whole.kpis
                             [] req.page = "shift_comparison" -> whole.shifts

\* The report a foreman gets by e-mail says what his page shows for that month, and
\* its gain on the month before is the difference of the two pages.  It is made
\* exactly when the page calls the month reliable and an assignment overlaps it.
MonthlyReportMatchesPage ==
    Answered({"monthly_report"}) /\ Steady =>
        LET a    == shown.answer
            m    == req.arg
            page(n) == get_foreman(Now, req.id, _month_bounds(n), shown.ord)
            kpis == DOMAIN get_foreman_kpis(Now, req.id, _month_bounds(m))
        IN  /\ ~a.insufficient_data <=> /\ page(m).reliable
                                       /\ assignments_overlapping_period(req.id, m, m) # {}
            /\ ~a.insufficient_data =>
                  /\ a.score = page(m).general /\ a.operational = page(m).operational
                  /\ a.level = page(m).level
                  /\ a.strong \cup a.improve = kpis /\ a.critical \subseteq a.improve
                  /\ page(m).level = "Kritik" => a.critical # {}
                  /\ a.previous = IF page(m - 1).reliable
                                  THEN <<page(m).general - page(m - 1).general>> ELSE <<>>

\* What different pages say of the same data is the same: the ranks of a foreman
\* (foreman_service.py:288), the team of a chief (chief_service.py:195), his rank in the
\* factory, the critical foremen of a report (reporting.py:159).
PagesAgree ==
    /\ RankMatchesRanking /\ ChiefPagesAgree /\ FactoryRankInFactory /\ ReportsAgree
    /\ SnapshotMatchesSections /\ MonthlyReportMatchesPage

\* A total is made of the parts shown next to it, though each is computed by code of
\* its own: analytics.py:582 replaces the pooled KPI scores of a foreman who works in
\* several plants, analytics.py:495 averages his trend in the same way.
PartsMakeTheTotal == KpisExplainScores /\ OneBucketIsTheScore /\ PlantTotalBetweenKpis

\* Commits between the SELECTs of one request do not make its answer contradict itself,
\* nor announce a leader who is not the best of what was read.
CommitsDoNotTear == ViewsTypeOK /\ SnapshotAgreesWithItself /\ LeaderIsBest

\* Rows of other plants do not show through a plant filter, not even one that names
\* no plant (schemas/common.py:60-63), nor through a reader's scope: the answer is
\* the one they would leave if they did not exist.  Four pages do show rows from
\* outside: the dashboard's count of plants with missing data and the report of missing
\* data are filtered by date only, the calculation detail looks for the foreman's last
\* record anywhere (foreman_service.py:384) and his monthly report is made of every plant
\* (monthly_foreman_report.py:262).
NothingOutsideFilter ==
    LET visible == IF req.page \in OfAPlant THEN {req.id}
                   ELSE IF F.plants = NoFilter THEN shown.reader ELSE F.plants
        absent  == [status |-> "ABSENT", num |-> 0, den |-> 0, stored |-> NotScored, issues |-> {}]
        erased  == [hist[at[1]] EXCEPT !.rows =
                      [c \in Cells |-> IF Workers[c[1]].plant \in visible THEN @[c] ELSE absent]]
    IN  /\ shown \notin {NotYet, Refused} /\ Steady /\ visible # NoFilter
        /\ req.page \notin {"snapshot", "summary", "foreman_detail", "monthly_report"} /\ ~(req.page = "report" /\ req.arg = "MISSING_DATA")
        => shown.answer = Page(req, Still(erased), shown.ord)

-----------------------------------------------------------------------------
(* What makes them inductive. *)

\* A SELECT never sees an older database than the one before it.
ReadInOrder == \A i, j \in DOMAIN at : i <= j => at[i] <= at[j]

\* Only a reader who may have it holds the answer.
ReaderMay(reader) ==
    /\ reader = NoFilter \/ reader \subseteq Plants
    /\ IF req.page = "report" THEN _assert_export_within_scope(F, reader) ELSE reader = req.scope

\* What is shown is made of what was read, by all the SELECTs of the page.
AnswerStands ==
    /\ shown = NotYet => Allowed(req)
    /\ Answered({req.page}) =>
          /\ Remaining = 0 /\ shown.ord \in Orders
          /\ shown = [page |-> req.page, ord |-> shown.ord, answer |-> Page(req, Seen, shown.ord),
                      reader |-> shown.reader]
          /\ ReaderMay(shown.reader)

ViewsInv == ViewsTypeOK /\ ReadInOrder /\ AnswerStands
=============================================================================

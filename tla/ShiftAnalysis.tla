---------------------------- MODULE ShiftAnalysis ----------------------------
(***************************************************************************)
(* The shift analysis pages (services/shift_analysis.py): within a month,   *)
(* the foremen of a plant rotate through its shifts week by week; a card     *)
(* shows two foremen whose results in one shift lie far apart, the heatmap   *)
(* two shifts of a plant, the matrix every foreman in every shift, and the   *)
(* detail of a card follows the pair through the weeks.                      *)
(*                                                                         *)
(* One plant and one month are modelled.  `rows` holds the performance       *)
(* records of a foreman and a week, summed per KPI: what ingestion stored    *)
(* after it compared the shift the source names with the one the rotation    *)
(* expects.  A page is built by several SELECTs, and READ COMMITTED lets     *)
(* ingestion commit a change between two of them: every SELECT of            *)
(* performance_records is a step of its own.  Averages are exact fractions;   *)
(* titles, names, rounding and the order of the cards are left out.          *)
(***************************************************************************)
EXTENDS Integers, FiniteSets, FiniteSetsExt

CONSTANTS
    PageKpis,        \* the active KPIs
    DirectionHigher, \* those of them with success_direction_higher
    NForemen,        \* foremen of the plant, numbered by employee number
    NShifts,         \* shifts, numbered by sequence from 0
    Assignments,     \* [foreman, shift (the anchor), from, to], in weeks
    Batches,         \* sums of a week: [PageKpis -> Sums], days = 0: no COMPLETE row
    Corrections,     \* the batches a later run may store instead
    MediumPct, HighPct, CriticalPct, MinRecords, MinPoints,  \* ShiftAnomalyThresholds
    MaxChanges       \* bound: changes committed while a page is built

PlantForemen == 1 .. NForemen
Shifts  == 0 .. NShifts - 1
Slots   == UNION {{a.foreman} \X (a.from .. a.to) : a \in Assignments}
Weeks   == {s[2] : s \in Slots}

\* Sums of COMPLETE rows; their denominators are what was planned, produced or
\* worked, and not 0 (production_kpi_derivation.py).  AGIR_GITME is signed.
Sums    == {v \in [num : Int, den : Nat, days : Nat] : v.days > 0 => v.den > 0}

ASSUME ShiftAssumption ==
    /\ IsFiniteSet(PageKpis) /\ DirectionHigher \subseteq PageKpis
    /\ NForemen \in Nat
    /\ NShifts \in Nat /\ NShifts >= 2
    /\ IsFiniteSet(Assignments)
    /\ Assignments \subseteq [foreman : PlantForemen, shift : Shifts, from : Nat, to : Nat]
    /\ \A b \in Batches \cup Corrections : b \in [PageKpis -> Sums]
    /\ {MediumPct, HighPct, CriticalPct, MinPoints, MaxChanges} \subseteq Nat
    /\ 0 < MediumPct /\ MediumPct < HighPct /\ HighPct < CriticalPct
    /\ MinRecords \in Nat \ {0}

NoRows == [shift |-> -1, vals |-> [k \in PageKpis |-> [num |-> 0, den |-> 0, days |-> 0]]]
PlantRecords == {NoRows} \cup [shift : Shifts, vals : [PageKpis -> Sums]]
None   == [none |-> TRUE]

VARIABLES
    rows,     \* [Slots -> PlantRecords]
    changes,  \* changes committed since the first SELECT of the page
    at,       \* what the page has read so far
    cards,    \* the cards shown
    heat,     \* the heatmap cells shown
    matrix,   \* [kpi, read, cells, insight] of the foreman/shift matrix, or None
    detail    \* the detail being built, or None

shiftVars == <<rows, changes, at, cards, heat, matrix, detail>>

-----------------------------------------------------------------------------
(* What ingestion stores: a week's rows, COMPLETE only in the expected shift *)

actual_shift_for_date(w, anchor) == (anchor + w) % NShifts

resolve_assignment(f, w) ==
    LET a == CHOOSE a \in Assignments : a.foreman = f /\ a.from <= w /\ w <= a.to
    IN  actual_shift_for_date(w, a.shift)

\* A record in another shift than the expected one is SUSPICIOUS: it keeps its
\* values, but no SELECT of a value returns it.
Stored(f, w, shift, batch) ==
    [shift |-> shift,
     vals  |-> IF shift = resolve_assignment(f, w) THEN batch ELSE NoRows.vals]

Entries(s, batches) ==
    {Stored(s[1], s[2], sh, b) : sh \in Shifts, b \in batches}

-----------------------------------------------------------------------------
(* Averages and their comparison *)

Column(k, c)  == [s \in Slots |-> rows[s].vals[k][c]]
Added(col, S) == MapThenSumSet(LAMBDA s : col[s], S)
Fields(S, k)  == [c \in {"num", "den", "days"} |-> Added(Column(k, c), S)]

\* _fetch_raw_rows: the COMPLETE rows of the month, by foreman, shift and KPI.
_fetch_raw_rows(fs, shs, k) ==
    {s \in Slots : s[1] \in fs /\ rows[s].shift \in shs /\ rows[s].vals[k].days > 0}

\* None when there is no row or the denominators add up to 0.
_foreman_stat(fs, shs, k) ==
    LET S == _fetch_raw_rows(fs, shs, k)
        t == Fields(S, k)
    IN  IF t.den = 0 THEN None
        ELSE [num |-> t.num, den |-> t.den, count |-> t.days, weeks |-> {s[2] : s \in S}]

Cross(a, b)  == a.num * b.den - b.num * a.den
Size(n)      == IF n < 0 THEN -n ELSE n
Gap(a, b)    == Size(Cross(a, b))
Base(a, b)   == Size(a.num) * b.den + Size(b.num) * a.den  \* twice the mean
PctReaches(a, b, p) == 200 * Gap(a, b) >= p * Base(a, b)
TooClose(a, b) == 100 * Gap(a, b) < MinPoints * a.den * b.den

Enough(a) == a # None /\ a.count >= MinRecords

\* Seeded fault: the upper threshold is exclusive.
SeverityAbove(a, b) ==
    IF Base(a, b) = 0 \/ TooClose(a, b) THEN "none"
    ELSE IF 200 * Gap(a, b) > HighPct * Base(a, b) THEN "high"
    ELSE IF PctReaches(a, b, MediumPct) THEN "medium"
    ELSE "none"

\* The first threshold table: the cards.
Severity(a, b) ==
    IF Base(a, b) = 0 \/ TooClose(a, b) THEN "none"
    ELSE IF PctReaches(a, b, HighPct) THEN "high"
    ELSE IF PctReaches(a, b, MediumPct) THEN "medium"
    ELSE "none"

AtLeastAsGood(a, b, k) == IF k \in DirectionHigher THEN Cross(a, b) >= 0 ELSE Cross(a, b) <= 0

\* fa and fb are the two foremen; `a` stays in front when they are equal.
_compare_pair(fa, a, fb, b, k) ==
    IF ~Enough(a) \/ ~Enough(b) \/ Severity(a, b) = "none" THEN None
    ELSE LET first == AtLeastAsGood(a, b, k)
         IN  [better |-> IF first THEN fa ELSE fb, worse |-> IF first THEN fb ELSE fa,
              bstat  |-> IF first THEN a ELSE b, wstat |-> IF first THEN b ELSE a,
              severity |-> Severity(a, b)]

\* The second one: heatmap cells.
classify_diff_level(a, b) ==
    IF ~Enough(a) \/ ~Enough(b) THEN "no_data"
    ELSE IF Base(a, b) = 0 \/ TooClose(a, b) THEN "normal"
    ELSE IF PctReaches(a, b, CriticalPct) THEN "critical"
    ELSE IF PctReaches(a, b, HighPct) THEN "significant"
    ELSE IF PctReaches(a, b, MediumPct) THEN "attention"
    ELSE "normal"

\* The third one: two cells of the matrix, however few their records.
_shift_diff_classification(a, b) ==
    IF Base(a, b) = 0 \/ TooClose(a, b) THEN "normal"
    ELSE IF PctReaches(a, b, CriticalPct) THEN "critical"
    ELSE IF PctReaches(a, b, HighPct) THEN "significant"
    ELSE IF PctReaches(a, b, MediumPct) THEN "attention"
    ELSE "normal"

NON_NORMAL_LEVELS == {"attention", "significant", "critical"}

-----------------------------------------------------------------------------
(* Cards *)

Stats(sh, k) == [f \in PlantForemen |-> _foreman_stat({f}, {sh}, k)]

\* max() and min() return the first of equal elements; which one is first is
\* the order the rows arrived in, and no severity depends on it.
_extreme_pair(st) == {f \in PlantForemen : Enough(st[f])}

CellComparison(sh, k) ==
    LET st == Stats(sh, k)
        Q  == _extreme_pair(st)
    IN  IF Cardinality(Q) < 2 THEN None
        ELSE LET best  == CHOOSE f \in Q : \A g \in Q : Cross(st[f], st[g]) >= 0
                 worst == CHOOSE f \in Q : \A g \in Q : Cross(st[f], st[g]) <= 0
             IN  _compare_pair(best, st[best], worst, st[worst], k)

Card(sh, k, c) == [shift |-> sh, kpi |-> k, better |-> c.better, worse |-> c.worse,
                   severity |-> c.severity, bstat |-> c.bstat, wstat |-> c.wstat]

\* Seeded fault: cards of medium severity are left out.
build_cards_severe ==
    UNION {LET c == CellComparison(sh, k)
           IN  IF c = None THEN {}
               ELSE IF c.severity # "high" THEN {} ELSE {Card(sh, k, c)} : sh \in Shifts, k \in PageKpis}

build_cards ==
    UNION {LET c == CellComparison(sh, k)
           IN  IF c = None THEN {} ELSE {Card(sh, k, c)} : sh \in Shifts, k \in PageKpis}

LoadCards ==
    /\ at = "start"
    /\ at' = "cards"
    /\ cards' = build_cards
    /\ UNCHANGED <<rows, changes, heat, matrix, detail>>

-----------------------------------------------------------------------------
(* Heatmap: the plant's first two shifts *)

HeatmapCell(k) ==
    LET v1 == _foreman_stat(PlantForemen, {0}, k)
        v2 == _foreman_stat(PlantForemen, {1}, k)
        level == classify_diff_level(v1, v2)
    IN  [kpi |-> k, level |-> level, v1 |-> v1, v2 |-> v2,
         better |-> IF level = "no_data" THEN -1
                    ELSE IF AtLeastAsGood(v1, v2, k) THEN 0 ELSE 1]

build_heatmap == {HeatmapCell(k) : k \in PageKpis}

LoadHeatmap ==
    /\ at = "start"
    /\ at' = "heatmap"
    /\ heat' = build_heatmap
    /\ UNCHANGED <<rows, changes, cards, matrix, detail>>

-----------------------------------------------------------------------------
(* Matrix: one SELECT per shift, and the sentence under it *)

OpenMatrix(k) ==
    /\ at = "start"
    /\ at' = "matrix"
    /\ matrix' = [kpi |-> k, read |-> 0, cells |-> [sh \in {} |-> None], insight |-> None]
    /\ UNCHANGED <<rows, changes, cards, heat, detail>>

Sentence(kind, who, shift) == [kind |-> kind, who |-> who, shift |-> shift]

ShiftEffect(cells, f) ==
    /\ cells[0][f] # None /\ cells[1][f] # None
    /\ _shift_diff_classification(cells[0][f], cells[1][f]) \in NON_NORMAL_LEVELS

Shown(cells) == {f \in PlantForemen : \E sh \in Shifts : cells[sh][f] # None}

\* The first two foremen of a shift with a value, and whether they lie apart.
FirstTwo(cells, sh) ==
    LET V == {f \in PlantForemen : cells[sh][f] # None}
    IN  IF Cardinality(V) < 2 THEN {} ELSE {Min(V), Min(V \ {Min(V)})}

PairEffect(cells, sh) ==
    LET V == FirstTwo(cells, sh)
    IN  /\ V # {}
        /\ _shift_diff_classification(cells[sh][Min(V)], cells[sh][Max(V)])
              \in NON_NORMAL_LEVELS

\* Seeded fault: two foremen are enough for "the shift".
_build_matrix_insight_any(cells) ==
    LET effect == {f \in Shown(cells) : ShiftEffect(cells, f)}
        apart  == {sh \in Shifts : PairEffect(cells, sh)}
    IN  IF Cardinality(Shown(cells)) < 2 THEN Sentence("nodata", {}, -1)
        ELSE IF Cardinality(effect) >= 2 THEN Sentence("shift", effect, -1)
        ELSE IF effect # {} THEN Sentence("foreman", effect, -1)
        ELSE IF apart # {} THEN Sentence("pair", FirstTwo(cells, Min(apart)), Min(apart))
        ELSE Sentence("stable", {}, -1)

_build_matrix_insight(cells) ==
    LET effect == {f \in Shown(cells) : ShiftEffect(cells, f)}
        apart  == {sh \in Shifts : PairEffect(cells, sh)}
    IN  IF Cardinality(Shown(cells)) < 2 THEN Sentence("nodata", {}, -1)
        ELSE IF effect = Shown(cells) THEN Sentence("shift", effect, -1)
        ELSE IF Cardinality(effect) = 1 THEN Sentence("foreman", effect, -1)
        ELSE IF apart # {} THEN Sentence("pair", FirstTwo(cells, Min(apart)), Min(apart))
        ELSE Sentence("stable", {}, -1)

\* foreman_kpi_values of the next shift; after the last one, the sentence.
build_foreman_shift_matrix ==
    /\ at = "matrix"
    /\ LET sh == matrix.read
           cs == [x \in 0 .. sh |-> IF x = sh THEN Stats(sh, matrix.kpi) ELSE matrix.cells[x]]
           last == sh = NShifts - 1
       IN  /\ matrix' = [matrix EXCEPT !.read = sh + 1, !.cells = cs,
                                       !.insight = IF last THEN _build_matrix_insight(cs)
                                                   ELSE None]
           /\ at' = IF last THEN "sentence" ELSE "matrix"
    /\ UNCHANGED <<rows, changes, cards, heat, detail>>

-----------------------------------------------------------------------------
(* The detail of a cell *)

\* Other KPIs in which the same two foremen lie apart in this shift.
_cross_kpi_signals(sh, k, c) ==
    UNION {LET p == _compare_pair(c.better, Stats(sh, j)[c.better],
                                  c.worse, Stats(sh, j)[c.worse], j)
           IN  IF p = None THEN {}
               ELSE {[kpi |-> j, severity |-> p.severity, same |-> p.better = c.better]}
           : j \in PageKpis \ {k}}

has_enough_weeks(c) ==
    Cardinality(c.bstat.weeks) >= 2 \/ Cardinality(c.wstat.weeks) >= 2

\* get_detail answers 404 when build_detail has no pair to compare.
NotFound(sh, k) ==
    /\ at' = "missing"
    /\ detail' = [shift |-> sh, kpi |-> k]

\* First SELECT of build_detail: the pair, if there is one.
OpenDetail(sh, k) ==
    /\ at = "cards"
    /\ LET c == CellComparison(sh, k)
       IN  IF c = None
           THEN NotFound(sh, k)
           ELSE /\ at' = "pair"
                /\ detail' = [shift |-> sh, kpi |-> k, card |-> Card(sh, k, c),
                              signals |-> _cross_kpi_signals(sh, k, c),
                              enough |-> has_enough_weeks(c)]
    /\ UNCHANGED <<rows, changes, cards, heat, matrix>>

\* _foreman_week_values: the weeks of a foreman with a value, in any shift.
_foreman_week_values(f, k) ==
    LET V == {s \in Slots : s[1] = f /\ rows[s].vals[k].days > 0 /\ rows[s].vals[k].den # 0}
    IN  [w \in {s[2] : s \in V} |->
            [num |-> rows[<<f, w>>].vals[k].num, den |-> rows[<<f, w>>].vals[k].den,
             shift |-> rows[<<f, w>>].shift]]

\* Seeded fault: only the first week of each is compared.
_is_consistent_first(bv, wv, k) ==
    /\ DOMAIN bv # {} /\ DOMAIN wv # {}
    /\ LET b == bv[Min(DOMAIN bv)]
           w == wv[Min(DOMAIN wv)]
       IN  IF k \in DirectionHigher THEN Cross(b, w) > 0 ELSE Cross(b, w) < 0

\* The lowest value of one side against the highest of the other.
_is_consistent_pattern(bv, wv, k) ==
    /\ DOMAIN bv # {} /\ DOMAIN wv # {}
    /\ \A i \in DOMAIN bv, j \in DOMAIN wv :
          IF k \in DirectionHigher THEN Cross(bv[i], wv[j]) > 0 ELSE Cross(bv[i], wv[j]) < 0

\* Second SELECT of the values: every shift, one KPI.
ReadWeeks ==
    /\ at = "pair"
    /\ at' = "weeks"
    /\ LET bv == _foreman_week_values(detail.card.better, detail.kpi)
           wv == _foreman_week_values(detail.card.worse, detail.kpi)
       IN  detail' = [shift |-> detail.shift, kpi |-> detail.kpi, card |-> detail.card,
                      signals |-> detail.signals, enough |-> detail.enough,
                      better |-> bv, worse |-> wv,
                      recurring |-> /\ detail.enough
                                    /\ _is_consistent_pattern(bv, wv, detail.kpi)]
    /\ UNCHANGED <<rows, changes, cards, heat, matrix>>

\* Records of any KPI and any quality say that the foreman was at work.
_fetch_assigned_week_indices(f) ==
    {s[2] : s \in {t \in Slots : t[1] = f /\ rows[t] # NoRows}}

\* _weekly_comparison: what the chart says of a foreman's week.
point_for(w, values, assigned) ==
    IF w \in DOMAIN values THEN "value"
    ELSE IF w \in assigned THEN "too_little"
    ELSE "not_assigned"

ReadAssigned ==
    /\ at = "weeks"
    /\ at' = "shown"
    /\ LET ab == _fetch_assigned_week_indices(detail.card.better)
           aw == _fetch_assigned_week_indices(detail.card.worse)
       IN  detail' = [shift |-> detail.shift, kpi |-> detail.kpi, card |-> detail.card,
                      signals |-> detail.signals, enough |-> detail.enough,
                      better |-> detail.better, worse |-> detail.worse,
                      recurring |-> detail.recurring,
                      chart |-> [w \in Weeks |->
                                    [better |-> point_for(w, detail.better, ab),
                                     worse  |-> point_for(w, detail.worse, aw)]]]
    /\ UNCHANGED <<rows, changes, cards, heat, matrix>>

-----------------------------------------------------------------------------
(* Ingestion commits while a page is built: rows are added, or take new       *)
(* values and quality, but keep their shift (_identity_changed refuses another) *)
(* and are never deleted.  Changes before the first SELECT are initial states. *)

Ingest(s) ==
    /\ at \notin {"start", "missing", "shown", "sentence", "heatmap"}
    /\ changes < MaxChanges
    /\ \E e \in Entries(s, Corrections) :
          /\ e # rows[s]
          /\ rows[s] = NoRows \/ e.shift = rows[s].shift
          /\ rows' = [rows EXCEPT ![s] = e]
    /\ changes' = changes + 1
    /\ UNCHANGED <<at, cards, heat, matrix, detail>>

Finished == at \in {"missing", "shown", "sentence", "heatmap"} /\ UNCHANGED shiftVars

\* Some weeks have no record, and in some the source named another shift.
ShiftInit ==
    /\ \E worked \in SUBSET Slots : \E elsewhere \in SUBSET worked :
          \E b \in [worked \ elsewhere -> Batches] :
              rows = [s \in Slots |->
                        IF s \notin worked THEN NoRows
                        ELSE LET sh == resolve_assignment(s[1], s[2])
                             IN  IF s \in elsewhere
                                 THEN Stored(s[1], s[2], (sh + 1) % NShifts, NoRows.vals)
                                 ELSE Stored(s[1], s[2], sh, b[s])]
    /\ changes = 0 /\ at = "start"
    /\ cards = {} /\ heat = {} /\ matrix = None /\ detail = None

ShiftNext ==
    \/ LoadCards \/ LoadHeatmap
    \/ \E k \in PageKpis : OpenMatrix(k)
    \/ build_foreman_shift_matrix
    \/ \E sh \in Shifts, k \in PageKpis : OpenDetail(sh, k)
    \/ ReadWeeks \/ ReadAssigned
    \/ \E s \in Slots : Ingest(s)
    \/ Finished

ShiftSpec == ShiftInit /\ [][ShiftNext]_shiftVars

-----------------------------------------------------------------------------
(* Properties *)

Beats(a, b, k) == IF k \in DirectionHigher THEN Cross(a, b) > 0 ELSE Cross(a, b) < 0

\* Every variable keeps its shape.
ShiftTypeOK ==
    /\ rows \in [Slots -> PlantRecords]
    /\ changes \in 0 .. MaxChanges
    /\ at \in {"start", "cards", "heatmap", "matrix", "sentence",
               "pair", "weeks", "shown", "missing"}
    /\ {c.kpi : c \in heat} = IF at = "heatmap" THEN PageKpis ELSE {}
    /\ detail # None => detail.shift \in Shifts /\ detail.kpi \in PageKpis

\* A card opens: while no record changed, the detail of a cell is refused only
\* when the list has no card for it, and shows the card's two foremen and severity.
CardOpens ==
    (changes = 0 /\ at \in {"pair", "weeks", "shown", "missing"}) =>
        LET C == {c \in cards : c.shift = detail.shift /\ c.kpi = detail.kpi}
        IN  C = IF at = "missing" THEN {} ELSE {detail.card}

\* The two foremen of a card are the ends of its cell: nobody with enough
\* records did better than the better one, nor worse than the worse one.
NobodyBeyondTheCard ==
    changes = 0 =>
        \A c \in cards, f \in PlantForemen :
            LET st == Stats(c.shift, c.kpi)
            IN  Enough(st[f]) => /\ ~Beats(st[f], st[c.better], c.kpi)
                                 /\ ~Beats(st[c.worse], st[f], c.kpi)
                                 /\ st[c.better].count >= MinRecords
                                 /\ st[c.worse].count >= MinRecords

\* A signal of another KPI is never news: that KPI has its own card in the
\* same shift, at least as severe, since its extremes lie no closer than the pair.
SignalHasItsCard ==
    (changes = 0 /\ at \in {"pair", "weeks", "shown"}) =>
        \A g \in detail.signals :
            \E c \in cards : /\ c.shift = detail.shift /\ c.kpi = g.kpi
                             /\ g.severity = "high" => c.severity = "high"

\* "The difference repeats all month" is true of the chart beside it: every
\* week drawn for the better foreman beats every week drawn for the worse,
\* whatever was committed between the pair's SELECT and the chart's.
PatternMatchesChart ==
    (at = "shown" /\ detail.recurring) =>
        /\ \E w \in Weeks : detail.chart[w].better = "value"
        /\ \E w \in Weeks : detail.chart[w].worse = "value"
        /\ \A v, w \in Weeks :
              (detail.chart[v].better = "value" /\ detail.chart[w].worse = "value") =>
                  Beats(detail.better[v], detail.worse[w], detail.kpi)

\* A week drawn as "not_assigned" is one without any record of the foreman, of
\* whatever quality, for as long as the page was being built.
EmptyWeekExplained ==
    at = "shown" =>
        \A w \in Weeks :
            /\ detail.chart[w].better = "not_assigned" <=>
                  (<<detail.card.better, w>> \notin Slots \/ rows[<<detail.card.better, w>>] = NoRows)
            /\ detail.chart[w].worse = "not_assigned" <=>
                  (<<detail.card.worse, w>> \notin Slots \/ rows[<<detail.card.worse, w>>] = NoRows)

\* The sentence under the matrix is borne out by the cells above it, even when
\* the shifts were read at two moments: "the shift" only if every foreman's
\* shifts lie apart, one foreman's name only if his alone do, and "stable"
\* between two foremen only if nothing lies apart.
InsightMatchesMatrix ==
    at = "sentence" =>
        LET cells == matrix.cells
            i     == matrix.insight
            apart == {f \in Shown(cells) : ShiftEffect(cells, f)}
        IN  /\ i.kind = "shift" => apart = Shown(cells) /\ i.who = apart
            /\ i.kind = "foreman" => apart = i.who
            /\ i.kind = "pair" =>
                  /\ Cardinality(i.who) = 2
                  /\ _shift_diff_classification(cells[i.shift][Min(i.who)], cells[i.shift][Max(i.who)])
                        # "normal"
            /\ (i.kind = "stable" /\ Cardinality(Shown(cells)) = 2) =>
                  apart = {} /\ \A sh \in Shifts : ~PairEffect(cells, sh)

\* A heatmap value lies between those of the foremen it sums up: a shift is
\* never better or worse than all who worked in it.
HeatWithinForemen ==
    at = "heatmap" =>
        \A c \in heat, sh \in {0, 1} :
            LET v == IF sh = 0 THEN c.v1 ELSE c.v2
                F == {f \in PlantForemen : Stats(sh, c.kpi)[f] # None}
            IN  v # None =>
                    /\ \E f \in F : Cross(Stats(sh, c.kpi)[f], v) >= 0
                    /\ \E f \in F : Cross(Stats(sh, c.kpi)[f], v) <= 0

\* The three pages measure with one scale: two results that make a card of high
\* severity are significant or critical on the heatmap and in the matrix, those
\* of medium severity are marked attention, and no others are coloured.
SameScale ==
    at = "start" =>
        \A k \in PageKpis, sh, th \in Shifts, f, g \in PlantForemen :
            LET a == Stats(sh, k)[f]
                b == Stats(th, k)[g]
            IN  (Enough(a) /\ Enough(b)) =>
                    LET c == _compare_pair(f, a, g, b, k)
                        l == classify_diff_level(a, b)
                        severity == IF c = None THEN "none" ELSE c.severity
                    IN  /\ l = _shift_diff_classification(a, b)
                        /\ severity = "high" <=> l \in {"significant", "critical"}
                        /\ severity = "medium" <=> l = "attention"
                        /\ severity = "none" <=> l = "normal"

\* A card, the detail behind it and the signals beside it tell one story.
CardsTellOneStory == ShiftTypeOK /\ CardOpens /\ NobodyBeyondTheCard /\ SignalHasItsCard

\* The words beside the weekly chart are borne out by it.
ChartExplained == PatternMatchesChart /\ EmptyWeekExplained

\* The cards, the heatmap and the matrix colour the same numbers alike, and a
\* shift's number lies among those of its foremen.
OneScale == SameScale /\ HeatWithinForemen

-----------------------------------------------------------------------------
(* What makes them inductive. *)

WithDetail == {"pair", "weeks", "shown", "missing"}

\* While no record changed, the list holds the cards there are.
ListShape ==
    changes = 0 => cards = IF at \in {"cards"} \cup WithDetail THEN build_cards ELSE {}

\* Nothing is committed after the heatmap is read.
HeatShape == at = "heatmap" => heat = build_heatmap

MatrixShape ==
    /\ at \in {"matrix", "sentence"} => DOMAIN matrix = {"kpi", "read", "cells", "insight"}
    /\ at = "sentence" => matrix.insight = _build_matrix_insight(matrix.cells)

\* Nor do the pair of a detail and its signals change before another record does.
PairShape ==
    /\ at \in WithDetail => detail.shift \in Shifts /\ detail.kpi \in PageKpis
    /\ at \in WithDetail /\ changes = 0 =>
         LET c == CellComparison(detail.shift, detail.kpi)
         IN  IF at = "missing" THEN c = None
             ELSE /\ c # None
                  /\ detail.card = Card(detail.shift, detail.kpi, c)
                  /\ detail.signals = _cross_kpi_signals(detail.shift, detail.kpi, c)

\* A foreman who has a value has worked in that week, whatever is committed later.
WeeksShape ==
    /\ at \in {"weeks", "shown"} /\ detail.recurring =>
         _is_consistent_pattern(detail.better, detail.worse, detail.kpi)
    /\ at = "weeks" =>
         /\ DOMAIN detail.better \subseteq _fetch_assigned_week_indices(detail.card.better)
         /\ DOMAIN detail.worse \subseteq _fetch_assigned_week_indices(detail.card.worse)

ShiftInv ==
    /\ ShiftTypeOK
    /\ ListShape
    /\ HeatShape
    /\ MatrixShape
    /\ PairShape
    /\ WeeksShape
    /\ ChartExplained
=============================================================================

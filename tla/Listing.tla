------------------------------ MODULE Listing ------------------------------
(***************************************************************************)
(* The paged lists of the API: operational impact works, anomalies, report *)
(* exports, foremen, plants, chiefs and the foremen of a plant.  One reader loads   *)
(* one list page after page ("load more") while other sessions write.      *)
(*                                                                         *)
(* A page is the result of several SELECT statements under READ COMMITTED, *)
(* each seeing what is committed when it runs, so every statement is an    *)
(* action of its own.  The lists differ in where the sort value comes      *)
(* from: a column of the row (works, anomalies), a column that no writer   *)
(* changes (names, codes), or a score computed from other tables and       *)
(* joined back as a list of VALUES.                                        *)
(***************************************************************************)
EXTENDS Integers, Sequences, FiniteSets

CONSTANTS
  Ids,          \* the identifiers of rows, naturals: UUID order breaks ties
  Values,       \* what a row may hold: a date, an amount, an operational score
  Null,         \* no value
  Absent,       \* no such row
  Limits,       \* page sizes a request may ask for
  MaxScore,     \* MAX_GENERAL_SCORE
  LevelFloor,   \* the least score of the level a list may be filtered by
  MaxWrites,    \* bound on the writes of other sessions
  MaxSwitches,  \* bound on the changes of the filter in force
  Lists         \* the lists looked at, a subset of AllLists

VARIABLES
  table,        \* row -> its value, Null, or Absent
  bonus,        \* foreman -> score of the published works of the window
  list,         \* the list being loaded
  filter,       \* the filter the next request carries (dates, scope, choices)
  phase,        \* the statement the request is at
  cursor,       \* where the next page starts, NoCursor for the first page
  candidates,   \* the ids read first
  scores,       \* the scores read for them
  ranked,       \* the values joined to the page
  shown,        \* the rows delivered so far, in the order delivered
  touched,      \* rows written since the walk began
  writes, switches

vars == <<table, bonus, list, filter, phase, cursor, candidates, scores,
          ranked, shown, touched, writes, switches>>

AllLists ==
  [of : {"works"},        sort : {"column"}, dir : {"asc", "desc"}, level : {FALSE}]
  \cup [of : {"anomalies", "reports"}, sort : {"column"}, dir : {"desc"}, level : {FALSE}]
  \cup [of : {"foremen"},      sort : {"name", "score", "flag"}, dir : {"asc", "desc"}, level : BOOLEAN]
  \cup [of : {"plants", "chiefs"}, sort : {"name", "score"}, dir : {"asc", "desc"}, level : {FALSE}]
  \cup [of : {"chiefs"},       sort : {"flag"}, dir : {"asc", "desc"}, level : {FALSE}]
  \cup [of : {"plantForemen"}, sort : {"score"}, dir : {"desc"}, level : {FALSE}]

ASSUME ListingAssumption ==
  /\ Ids \subseteq Nat /\ IsFiniteSet(Ids) /\ Values \subseteq Nat
  /\ Null \notin Nat /\ Absent \notin Nat
  /\ Limits \subseteq Nat \ {0} /\ MaxScore \in Nat /\ LevelFloor \in Nat
  /\ MaxWrites \in Nat /\ MaxSwitches \in Nat
  /\ Lists \subseteq AllLists

NoCursor == [value |-> Null, id |-> Absent, signature |-> "none"]
NoValues == [id \in {} |-> Null]
Filters  == {"all", "narrow"}

-----------------------------------------------------------------------------
(* What the statements select *)

\* The narrow filter: later dates for works and anomalies (a work without a
\* date passes every date filter), one of two plants, or
\* one of two requesters, for the others.
WorkMatches(id, f)    == table[id] # Absent /\ (f = "narrow" => table[id] = Null \/ table[id] > 1)
AnomalyMatches(id, f) == table[id] # Absent /\ (f = "narrow" => table[id] # Null /\ table[id] > 1)
ReportMatches(id, f)  == table[id] # Absent /\ (f = "narrow" => id % 2 = 1)
PlantMatches(id, f)   == table[id] # Absent /\ (f = "narrow" => id % 2 = 1)
ChiefMatches(id, f)   == table[id] # Absent /\ (f = "narrow" => id % 2 = 1)
ForemanMatches(id, f) == table[id] # Absent /\ (f = "narrow" => id % 2 = 1)

Matches(id, f) ==
  CASE list.of = "works"     -> WorkMatches(id, f)
    [] list.of = "anomalies" -> AnomalyMatches(id, f)
    [] list.of = "reports"   -> ReportMatches(id, f)
    [] list.of = "plants"    -> PlantMatches(id, f)
    [] list.of = "chiefs"    -> ChiefMatches(id, f)
    [] OTHER                 -> ForemanMatches(id, f)

Selected(f) == {id \in Ids : Matches(id, f)}

\* A column no session changes, equal for some rows.
Name(id) == id \div 2

\* A row without performance data counts as zero, and is not reliable.
Operational(id) == IF table[id] \in {Null, Absent} THEN 0 ELSE table[id]
Reliable(id)    == IF table[id] \in {Null, Absent} THEN 0 ELSE 1

GeneralScore(operational, extra) ==
  IF operational + extra > MaxScore THEN MaxScore ELSE operational + extra

InLevel(score) == list.level => score >= LevelFloor

-----------------------------------------------------------------------------
(* Keyset order *)

\* ORDER BY value ASC NULLS FIRST, or DESC NULLS LAST; the id ascending.
ValueBefore(v, w) ==
  IF list.dir = "asc"
  THEN v # w /\ (v = Null \/ (w # Null /\ v < w))
  ELSE v # w /\ (w = Null \/ (v # Null /\ v > w))

\* Seeded fault: equal values are ordered the other way round.
RowBeforeByValue(a, b) == ValueBefore(a.value, b.value) \/ (a.value = b.value /\ a.id > b.id)
RowBefore(a, b) == ValueBefore(a.value, b.value) \/ (a.value = b.value /\ a.id < b.id)

\* The WHERE clause of a page: a comparison with NULL is not true.
keyset_after(v, id, c) ==
  LET later == id > c.id
  IN IF list.dir = "asc"
     THEN IF c.value = Null
          THEN v # Null \/ later
          ELSE v # Null /\ (v > c.value \/ (v = c.value /\ later))
     ELSE IF c.value = Null
          THEN v = Null /\ later
          ELSE v = Null \/ v < c.value \/ (v = c.value /\ later)

\* The rows, each once, in their order (written out: it is what the proofs are about).
Ordered(rows) ==
  CHOOSE s \in [1 .. Cardinality(rows) -> rows] :
    \A i, j \in DOMAIN s : i < j => RowBefore(s[i], s[j])

\* The first limit + 1 rows after the cursor; the last only says there is more.
Fetch(values, limit) ==
  LET rows  == {[value |-> values[id], id |-> id] : id \in
                  {x \in DOMAIN values : cursor # NoCursor => keyset_after(values[x], x, cursor)}}
      order == Ordered(rows)
  IN SubSeq(order, 1, IF Len(order) > limit THEN limit + 1 ELSE Len(order))

HasMore(rows, limit) == Len(rows) > limit
PageOf(rows, limit)  == SubSeq(rows, 1, IF HasMore(rows, limit) THEN limit ELSE Len(rows))

\* The cursor names the last row of the page, not the row fetched beyond it.
NextCursor(rows, limit) ==
  IF HasMore(rows, limit)
  THEN [value |-> rows[limit].value, id |-> rows[limit].id, signature |-> filter]
  ELSE NoCursor

-----------------------------------------------------------------------------
(* One request *)

NeedsFullScores == list.of = "foremen" /\ (list.level \/ list.sort # "name")
Computed        == list.sort \in {"score", "flag"}

FirstStatement ==
  CASE list.of \in {"works", "anomalies", "reports"} -> "page"
    [] list.of = "foremen"                -> "ids"
    [] list.of = "plantForemen"           -> "scores"
    [] OTHER                              -> IF Computed THEN "ids" ELSE "page"

\* Seeded fault: a cursor is taken whatever list it came from.
CursorFitsAny == TRUE

\* A cursor read back under another filter or order is refused.
CursorFits == cursor = NoCursor \/ cursor.signature = filter

\* The reader asks for the first page, or for the page after the cursor.
Ask ==
  /\ phase = "ready" /\ CursorFits
  /\ phase' = FirstStatement
  /\ touched' = IF cursor = NoCursor THEN {} ELSE touched
  /\ UNCHANGED <<table, bonus, list, filter, cursor, candidates, scores, ranked,
                 shown, writes, switches>>

\* INVALID_CURSOR: the reader loads the list from its beginning.
Refuse ==
  /\ phase = "ready" /\ ~CursorFits
  /\ cursor' = NoCursor /\ shown' = <<>>
  /\ UNCHANGED <<table, bonus, list, filter, phase, candidates, scores, ranked,
                 touched, writes, switches>>

\* Deliver the rows of a statement that needs nothing more.
Deliver(rows, points, limit) ==
  /\ shown' = shown \o [i \in DOMAIN PageOf(rows, limit) |->
                          [value |-> rows[i].value, id |-> rows[i].id,
                           score |-> points[rows[i].id]]]
  /\ cursor' = NextCursor(rows, limit)
  /\ phase' = IF HasMore(rows, limit) THEN "ready" ELSE "over"
  /\ candidates' = {} /\ scores' = NoValues /\ ranked' = NoValues
  /\ UNCHANGED <<table, bonus, list, filter, touched, writes, switches>>

\* Rows of a list that shows no score.
Unscored == [id \in Ids |-> 0]

ListWorks ==
  /\ phase = "page" /\ list.of = "works"
  /\ LET column == [id \in Selected(filter) |-> table[id]]
     IN \E n \in Limits : Deliver(Fetch(column, n), Unscored, n)

ListAnomalies ==
  /\ phase = "page" /\ list.of = "anomalies"
  /\ LET detectedAt == [id \in Selected(filter) |-> table[id]]
     IN \E n \in Limits : Deliver(Fetch(detectedAt, n), Unscored, n)

ListReports ==
  /\ phase = "page" /\ list.of = "reports"
  /\ LET createdAt == [id \in Selected(filter) |-> table[id]]
     IN \E n \in Limits : Deliver(Fetch(createdAt, n), Unscored, n)

\* list_ids: the candidates, for the foremen even when nothing uses them.
ReadIds ==
  /\ phase = "ids"
  /\ candidates' = Selected(filter)
  /\ phase' = IF list.of = "foremen" /\ ~NeedsFullScores THEN "page" ELSE "scores"
  /\ UNCHANGED <<table, bonus, list, filter, cursor, scores, ranked, shown,
                 touched, writes, switches>>

ReadPlantScores ==
  /\ phase = "scores" /\ list.of = "plants"
  /\ ranked' = [id \in candidates |-> Operational(id)]
  /\ phase' = "page"
  /\ UNCHANGED <<table, bonus, list, filter, cursor, candidates, scores, shown,
                 touched, writes, switches>>

ReadTeamScores ==
  /\ phase = "scores" /\ list.of = "chiefs"
  /\ ranked' = [id \in candidates |->
                  IF list.sort = "flag" THEN Reliable(id) ELSE Operational(id)]
  /\ phase' = "page"
  /\ UNCHANGED <<table, bonus, list, filter, cursor, candidates, scores, shown,
                 touched, writes, switches>>

\* The scores of the foremen; those of a plant are also its candidates.
ReadForemanScores ==
  /\ phase = "scores" /\ list.of \in {"foremen", "plantForemen"}
  /\ candidates' = IF list.of = "foremen" THEN candidates
                   ELSE {id \in Selected(filter) : table[id] # Null}
  /\ scores' = [id \in candidates' |->
                  [points |-> Operational(id), reliable |-> Reliable(id)]]
  /\ phase' = "bonuses"
  /\ UNCHANGED <<table, bonus, list, filter, cursor, ranked, shown, touched,
                 writes, switches>>

\* The bonuses of the candidates, by a statement of its own.
foreman_contribution_bonuses == [id \in candidates |-> bonus[id]]

compute_general_foreman_scores ==
  LET bonuses == foreman_contribution_bonuses
  IN [id \in candidates |-> GeneralScore(scores[id].points, bonuses[id])]

\* The bonuses, after the scores, and the level filter.
RankForemen ==
  /\ phase = "bonuses"
  /\ LET general == compute_general_foreman_scores
     IN /\ candidates' = {id \in candidates : InLevel(general[id])}
        /\ ranked' = [id \in candidates |-> general[id]]
  /\ phase' = "page"
  /\ UNCHANGED <<table, bonus, list, filter, cursor, scores, shown, touched,
                 writes, switches>>

\* The value joined to a row; a row the ranking did not see has none.
Joined(id) == IF id \in DOMAIN ranked THEN ranked[id] ELSE Null

JoinedForeman(id) ==
  IF list.sort = "flag"
  THEN IF id \in DOMAIN ranked THEN scores[id].reliable ELSE Null
  ELSE Joined(id)

SortValue(id) == IF Computed THEN (IF list.of = "foremen" THEN JoinedForeman(id) ELSE Joined(id))
                 ELSE Name(id)

\* PostgreSQL is never asked: SQLAlchemy has no order comparison with a bool.
Incomparable == list.sort = "flag" /\ cursor # NoCursor /\ cursor.value # Null

Fail ==
  /\ phase' = "failed"
  /\ candidates' = {} /\ scores' = NoValues /\ ranked' = NoValues
  /\ UNCHANGED <<table, bonus, list, filter, cursor, shown, touched, writes, switches>>

\* The page is read again from the tables, joined to the ranking.
RankedRows(limit) ==
  IF Computed /\ candidates = {} THEN <<>>
  ELSE LET ids == IF list.level THEN Selected(filter) \cap candidates ELSE Selected(filter)
       IN Fetch([id \in ids |-> SortValue(id)], limit)

\* Seeded fault: the score shown is read again after the ranking.
ForemanScoreReread(id) == GeneralScore(Operational(id), bonus[id])

\* What is shown is the ranking's own score.
ForemanScore(id) == ranked[id]

\* A foreman on the page that appeared after the ranking is a KeyError.
ForemanPage == \E n \in Limits :
  /\ phase = "page" /\ list.of = "foremen" /\ NeedsFullScores
  /\ LET rows == RankedRows(n)
         Unranked == \E i \in DOMAIN PageOf(rows, n) : rows[i].id \notin DOMAIN ranked
     IN IF (Incomparable /\ candidates # {}) \/ Unranked
        THEN Fail
        ELSE Deliver(rows, [id \in DOMAIN ranked |-> ForemanScore(id)], n)

\* Without a ranking the page comes first and its scores are read for it.
ForemanPageByName == \E n \in Limits :
  /\ phase = "page" /\ list.of = "foremen" /\ ~NeedsFullScores
  /\ Deliver(RankedRows(n), [id \in Ids |-> ForemanScoreReread(id)], n)

\* compute_general_foreman_scores gives both the order and what is shown.
PlantForemenPage == \E n \in Limits :
  /\ phase = "page" /\ list.of = "plantForemen"
  /\ LET rows == IF candidates = {} THEN <<>>
                 ELSE Fetch([id \in {x \in candidates : table[x] # Absent} |-> Joined(id)], n)
     IN Deliver(rows, [id \in DOMAIN ranked |-> ForemanScore(id)], n)

\* Plants and chiefs are scored again for the page that is shown, so their
\* scores may be newer than their order.
PlantShown(id) == Operational(id)
ChiefShown(id) == Operational(id)

PlantPage == \E n \in Limits :
  /\ phase = "page" /\ list.of = "plants"
  /\ Deliver(RankedRows(n), [id \in Ids |-> PlantShown(id)], n)

ChiefPage == \E n \in Limits :
  /\ phase = "page" /\ list.of = "chiefs"
  /\ IF Incomparable /\ candidates # {} THEN Fail
     ELSE Deliver(RankedRows(n), [id \in Ids |-> ChiefShown(id)], n)

\* The page that failed is asked for again.
Retry ==
  /\ phase = "failed" /\ phase' = "ready"
  /\ UNCHANGED <<table, bonus, list, filter, cursor, candidates, scores, ranked,
                 shown, touched, writes, switches>>

-----------------------------------------------------------------------------
(* Other sessions, and the filter of the next request *)

\* Writes before the first page, or after the last, change nothing of the walk.
Walking == phase # "over" /\ ~(phase = "ready" /\ cursor = NoCursor)

Writable(id, value) ==
  /\ Walking /\ writes < MaxWrites
  /\ writes' = writes + 1
  /\ table' = [table EXCEPT ![id] = value]
  /\ touched' = touched \cup {id}
  /\ UNCHANGED <<bonus, list, filter, phase, cursor, candidates, scores, ranked,
                 shown, switches>>

\* A work or a report is created; the other rows only come with a new seed.
Insert == \E id \in Ids, v \in Values \cup {Null} :
  /\ table[id] = Absent
  /\ v = Null => list.of \notin {"anomalies", "reports"}
  /\ Writable(id, v)

Delete == \E id \in Ids :
  /\ list.of = "works" /\ table[id] # Absent
  /\ Writable(id, Absent)

\* A work is edited, or ingestion changes what a score is computed from.
Change == \E id \in Ids, v \in Values \cup {Null} :
  /\ list.of \notin {"anomalies", "reports"} /\ table[id] \notin {Absent, v}
  /\ v = Null => list.of = "works"
  /\ Writable(id, v)

\* A work of a foreman is published or taken back.
Publish == \E id \in Ids :
  /\ list.of \in {"foremen", "plantForemen"} /\ table[id] # Absent
  /\ Walking /\ writes < MaxWrites
  /\ writes' = writes + 1
  /\ bonus' = [bonus EXCEPT ![id] = 1 - @]
  /\ touched' = touched \cup {id}
  /\ UNCHANGED <<table, list, filter, phase, cursor, candidates, scores, ranked,
                 shown, switches>>

\* Midnight moves the default dates, a grant changes the scope.
Switch ==
  /\ phase = "ready" /\ Walking /\ switches < MaxSwitches
  /\ switches' = switches + 1
  /\ filter' \in Filters \ {filter}
  /\ UNCHANGED <<table, bonus, list, phase, cursor, candidates, scores, ranked,
                 shown, touched, writes>>

-----------------------------------------------------------------------------
Init ==
  /\ list \in Lists
  /\ table \in [Ids -> IF list.of \in {"anomalies", "reports"} THEN Values \cup {Absent}
                       ELSE Values \cup {Null, Absent}]
  /\ bonus = [id \in Ids |-> 0]
  /\ filter \in Filters
  /\ phase = "ready" /\ cursor = NoCursor
  /\ candidates = {} /\ scores = NoValues /\ ranked = NoValues
  /\ shown = <<>> /\ touched = {}
  /\ writes = 0 /\ switches = 0

Reader == \/ Ask \/ Refuse \/ ListWorks \/ ListAnomalies \/ ListReports \/ ReadIds
          \/ ReadPlantScores \/ ReadTeamScores \/ ReadForemanScores \/ RankForemen
          \/ ForemanPage \/ ForemanPageByName \/ PlantForemenPage
          \/ PlantPage \/ ChiefPage \/ Retry

Writer == Insert \/ Delete \/ Change \/ Publish \/ Switch

Next == Reader \/ Writer

Spec == Init /\ [][Next]_vars

-----------------------------------------------------------------------------
(* Properties *)

TypeOK ==
  /\ table \in [Ids -> Values \cup {Null, Absent}] /\ bonus \in [Ids -> 0..1]
  /\ list \in Lists /\ filter \in Filters
  /\ phase \in {"ready", "ids", "scores", "bonuses", "page", "failed", "over"}
  /\ candidates \subseteq Ids /\ DOMAIN ranked \subseteq Ids
  /\ list.of = "foremen" => \A id \in DOMAIN ranked : ranked[id] \in 0..MaxScore
  /\ \A i \in DOMAIN shown : shown[i].id \in Ids
  /\ touched \subseteq Ids /\ writes \in 0..MaxWrites /\ switches \in 0..MaxSwitches

\* The order a list promises, with an empty value as the least one.
Rank(v) == IF v = Null THEN 0 ELSE v + 1
Precedes(a, b) ==
  \/ IF list.dir = "asc" THEN Rank(a.value) < Rank(b.value) ELSE Rank(a.value) > Rank(b.value)
  \/ a.value = b.value /\ a.id < b.id

Untouched(i) == shown[i].id \notin touched

\* A row nobody writes while the list is loaded is delivered at most once,
\* whatever is inserted, deleted or moved around it (keyset_after).
EachOnce == \A i, j \in DOMAIN shown :
  Untouched(i) /\ shown[i].id = shown[j].id => i = j

\* What a list under a filter has to show.
Member(id, f) == Matches(id, f) /\ (list.of = "plantForemen" => table[id] # Null)
General(id)   == GeneralScore(Operational(id), bonus[id])
Due(id, f)    == Member(id, f) /\ InLevel(General(id))

\* When the list says there is no more, every row nobody wrote that matches
\* the filter has been delivered: a page never steps over a row, and a cursor
\* of another filter does not continue this one (decode_cursor).
NothingSkipped == phase = "over" =>
  \A id \in Ids \ touched :
    Due(id, filter) => \E i \in DOMAIN shown : shown[i].id = id

\* Across the pages, rows nobody wrote come in the order asked for, equal
\* values by their id: the pages together are one sorted list.
InOrder == \A i, j \in DOMAIN shown :
  (i < j /\ Untouched(i) /\ Untouched(j)) => Precedes(shown[i], shown[j])

\* A list of foremen asked for by score or by level shows the very scores it
\* was ordered and filtered by, also when performance or a bonus changes
\* between the statements of the request (list_foremen, get_foremen).
ShownAsRanked == \A i \in DOMAIN shown :
  list.of \in {"foremen", "plantForemen"} =>
    /\ list.sort = "score" => shown[i].score = shown[i].value
    /\ InLevel(shown[i].score)

\* The pages of a list, put one after the other, are one list in one order, in
\* which a row that nobody writes stands at most once.
PagesAreOneList == TypeOK /\ EachOnce /\ InOrder

-----------------------------------------------------------------------------
(* The inductive invariant (module PageProofs) *)

Entry == [value : Nat \cup {Null}, id : Ids, score : Nat]
Ranks == list.of = "plantForemen" \/ NeedsFullScores \/ (list.of \in {"plants", "chiefs"} /\ Computed)

\* What a request remembers at each statement; between two statements the
\* cursor it came with is one of the filter in force.
RequestShape ==
  /\ phase = "ids" => list.of = "foremen" \/ (list.of \in {"plants", "chiefs"} /\ Computed)
  /\ phase = "scores" => Ranks
  /\ phase = "bonuses" => list.of = "plantForemen" \/ NeedsFullScores
  /\ cursor # NoCursor => /\ cursor \in [value : Nat \cup {Null}, id : Ids, signature : Filters]
                          /\ phase # "ready" => cursor.signature = filter
  /\ phase = "over" => cursor = NoCursor
  /\ cursor = NoCursor /\ phase # "over" => shown = <<>>

\* What a ranking holds.
RankShape ==
  /\ \A id \in DOMAIN scores : scores[id].points \in Nat /\ scores[id].reliable \in 0..1
  /\ \A id \in DOMAIN ranked : ranked[id] \in Nat
  /\ phase = "bonuses" => DOMAIN scores = candidates
  /\ phase = "page" /\ Ranks =>
       /\ candidates \subseteq DOMAIN ranked
       /\ list.of \in {"foremen", "plantForemen"} =>
            /\ DOMAIN ranked = DOMAIN scores
            /\ \A id \in candidates : InLevel(ranked[id])

\* What a row is ranked by, and what it is ordered by.
RankValue(id) ==
  IF list.of \in {"foremen", "plantForemen"} THEN General(id)
  ELSE IF list.sort = "flag" THEN Reliable(id) ELSE Operational(id)

Key(id) ==
  CASE list.sort = "column" -> table[id]
    [] list.sort = "name"   -> Name(id)
    [] list.sort = "flag"   -> Reliable(id)
    [] OTHER                -> RankValue(id)

Still == Ids \ touched

\* A row that nobody writes is known to the request as it is now.
Fresh ==
  /\ phase = "scores" /\ list.of # "plantForemen" =>
       \A id \in Still : Matches(id, filter) => id \in candidates
  /\ phase = "bonuses" => \A id \in Still :
       /\ Member(id, filter) => id \in candidates
       /\ id \in candidates => /\ scores[id].points = Operational(id)
                                /\ scores[id].reliable = Reliable(id)
  /\ phase = "page" /\ Ranks => \A id \in Still :
       /\ Member(id, filter) => id \in DOMAIN ranked
       /\ Due(id, filter) => id \in candidates
       /\ id \in DOMAIN ranked =>
            /\ ranked[id] = RankValue(id)
            /\ list.of = "foremen" => scores[id].reliable = Reliable(id)

\* The cursor parts the rows that nobody writes: those shown are not after it,
\* and those not after it have been shown.
Reached(row) == RowBefore(row, cursor) \/ (row.value = cursor.value /\ row.id = cursor.id)
RowOf(id)    == [value |-> Key(id), id |-> id]

WalkShape ==
  /\ shown \in Seq(Entry)
  /\ \A i \in DOMAIN shown : Untouched(i) => shown[i].value = Key(shown[i].id)
  /\ \A i, j \in DOMAIN shown :
       i < j /\ Untouched(i) /\ Untouched(j) => RowBefore(shown[i], shown[j])
  /\ cursor # NoCursor =>
       /\ \A i \in DOMAIN shown : Untouched(i) => Reached(shown[i])
       /\ \A id \in Still : Due(id, cursor.signature) /\ Reached(RowOf(id))
             => \E i \in DOMAIN shown : shown[i].id = id

IInv == /\ TypeOK /\ RequestShape /\ RankShape /\ Fresh /\ WalkShape
        /\ NothingSkipped /\ ShownAsRanked
=============================================================================

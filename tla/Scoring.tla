------------------------------ MODULE Scoring ------------------------------
(***************************************************************************)
(* How the records of a period become the score of a KPI, of a foreman and *)
(* of a plant, and a performance level: analytics.py with the formulas of  *)
(* module KpiScores.  The records of one foreman are loaded and corrected  *)
(* one by one; every view is computed from them when it is asked for.      *)
(***************************************************************************)
EXTENDS KpiScores, Powers, Sequences

CONSTANTS
  Plants,      (* plants the foreman works in                               *)
  Days,        (* days of the period                                        *)
  Readings,    (* Readings[k]: records of KPI k, [num, den, target]         *)
  Selections,  (* sets of KPIs that may be active and asked for             *)
  Weight,      (* Weight[k]: its weight                                     *)
  Levels,      (* performance levels sorted by their minimum, [min, max]    *)
  NoRecord,
  MaxRecords,  (* bound: records in the period                              *)
  MaxCovered   (* bound: KPIs with a record, as powers must fit in 32 bits  *)

ASSUME ScoringAssumption ==
  /\ Selections \subseteq SUBSET Kpis
  /\ \A k \in Kpis : Weight[k] \in Nat \ {0}
  /\ \A k \in Kpis : \A r \in Readings[k] : IsReading(k, r)
  /\ \A k \in Kpis : NoRecord \notin Readings[k]
  /\ IsFiniteSet(Plants) /\ IsFiniteSet(Days)
  /\ Levels # <<>> /\ Levels \in Seq([min : Nat, max : Nat])
  /\ \A i, j \in DOMAIN Levels : i <= j => Levels[i].min <= Levels[j].min

VARIABLES
  active,   (* the active KPIs that are asked for                           *)
  record    (* record[p, k, d]: the COMPLETE record of a plant, KPI and day *)

scoringVars == <<active, record>>

Cells == Plants \X Kpis \X Days

ScoringInit ==
  /\ active \in Selections
  /\ record = [c \in Cells |-> NoRecord]

Kept(S) == {c \in S : record[c] # NoRecord}
Covered == {k \in Kpis : Kept(Plants \X {k} \X Days) # {}}

\* A record is inserted.
Insert(c, r) ==
  /\ c[2] \in active
  /\ r \in Readings[c[2]]
  /\ record[c] = NoRecord
  /\ Cardinality(Kept(Cells)) < MaxRecords
  /\ c[2] \in Covered \/ Cardinality(Covered) < MaxCovered
  /\ record' = [record EXCEPT ![c] = r]
  /\ UNCHANGED active

\* A record is updated.
Correct(c, r) ==
  /\ record[c] # NoRecord
  /\ r \in Readings[c[2]] \ {record[c]}
  /\ record' = [record EXCEPT ![c] = r]
  /\ UNCHANGED active

ScoringNext == \E c \in Cells : \E r \in Readings[c[2]] : Insert(c, r) \/ Correct(c, r)

ScoringSpec == ScoringInit /\ [][ScoringNext]_scoringVars

-----------------------------------------------------------------------------
(* Scores of the records that are there.                                   *)

\* Of a plant, a chief or a shift: all its records together.
Rows(k, P) == Kept(P \X {k} \X Days)

\* Of a foreman: the mean of the plants, whatever they produce.
PlantsWith(k) == {p \in Plants : Rows(k, {p}) # {}}
ForemanScore(k) == MeanScore(record, k, [p \in PlantsWith(k) |-> Rows(k, {p})], PlantsWith(k))

-----------------------------------------------------------------------------
(* The total of the scores s[k] of the KPIs in C: a weighted geometric     *)
(* mean, kept as the product whose root it is.                             *)

ProductOf(f, S) ==
  MapThenFoldSet(LAMBDA a, b : a * b, 1, LAMBDA x : f[x], LAMBDA T : CHOOSE x \in T : TRUE, S)

WeightOf(C) == SumOf(Weight, C)
Insufficient(C) == 2 * WeightOf(C) < WeightOf(active)

Combine(s, C) ==
  IF Insufficient(C) THEN [product |-> 0, degree |-> 1]
  ELSE [product |-> ProductOf([k \in C |-> Power(s[k], Weight[k])], C), degree |-> WeightOf(C)]

ForemanTotal == Combine([k \in Covered |-> ForemanScore(k)], Covered)
GroupTotal == Combine([k \in Covered |-> PeriodScore(record, k, Rows(k, Plants))], Covered)

AtLeast(total, bound) == total.product >= Power(bound, total.degree)
AtMost(total, bound) == total.product <= Power(bound, total.degree)

\* Seeded fault: a minimum does not belong to its level.
LevelStrict(total) ==
  LET fits == {i \in DOMAIN Levels :
                 ~AtMost(total, Levels[i].min) /\ AtMost(total, Levels[i].max)}
  IN  IF fits # {} THEN Min(fits)
      ELSE IF ~AtLeast(total, Levels[1].min) THEN 1 ELSE Len(Levels)

\* resolve_performance_level: a score no level has gets the last one.
Level(total) ==
  LET fits == {i \in DOMAIN Levels :
                 AtLeast(total, Levels[i].min) /\ AtMost(total, Levels[i].max)}
  IN  IF fits # {} THEN Min(fits)
      ELSE IF ~AtLeast(total, Levels[1].min) THEN 1 ELSE Len(Levels)

-----------------------------------------------------------------------------
(* Properties.                                                             *)

\* Whatever the records, a score is never negative, and that of OEE has its
\* ceiling.
ScoringTypeOK ==
  /\ active \in Selections
  /\ \A c \in Cells : record[c] \in Readings[c[2]] \union {NoRecord}
  /\ \A k \in Covered, P \in SUBSET Plants :
       Rows(k, P) # {} =>
         /\ PeriodScore(record, k, Rows(k, P)) \in Nat
         /\ k = "OEE" => PeriodScore(record, k, Rows(k, P)) <= 10500

Improved ==
  \A c \in Cells :
    \/ record'[c] = record[c]
    \/ /\ record[c] # NoRecord /\ record'[c] # NoRecord
       /\ NoWorse(c[2], record[c], record'[c])

\* Better work never lowers a score: not that of the KPI, over no set of
\* plants, nor the total of the foreman or of the group, wherever the limits
\* of the piecewise formulas lie.
BetterNeverScoresLess ==
  [][Improved =>
       /\ \A k \in Covered :
            /\ PeriodScore(record, k, Rows(k, Plants))' >= PeriodScore(record, k, Rows(k, Plants))
            /\ ForemanScore(k)' >= ForemanScore(k)
       /\ ForemanTotal'.product >= ForemanTotal.product
       /\ GroupTotal'.product >= GroupTotal.product]_scoringVars

\* Between the maximum of a level and the minimum of the next.
InGap(total) ==
  \E i \in 1 .. Len(Levels) - 1 :
    ~AtMost(total, Levels[i].max) /\ ~AtLeast(total, Levels[i + 1].min)

\* Better work never lowers the level, unless the level came from a score
\* that lies between two levels.
LevelNeverDrops ==
  [][Improved =>
       /\ Level(GroupTotal)' >= Level(GroupTotal) \/ InGap(GroupTotal)
       /\ Level(ForemanTotal)' >= Level(ForemanTotal) \/ InGap(ForemanTotal)]_scoringVars

\* Plants and days that all meet their targets, which may differ, make at
\* least 100 points together; if none of them does, by more than what rounding
\* hides, less than that (OEE, which is worth 105 at its target, aside).
TargetMeansHundred ==
  \A k \in Covered :
    LET S == Rows(k, Plants)
    IN  /\ (\A c \in S : OnTarget(k, record[c])) =>
             PeriodScore(record, k, S) >= 10000 /\ ForemanScore(k) >= 10000
        /\ k # "OEE" /\ (\A c \in S : OffTarget(k, record[c])) =>
             PeriodScore(record, k, S) < 10000 /\ ForemanScore(k) < 10000

\* A high score of one KPI does not hide a bad one: a KPI without points takes
\* all points away, and the total never exceeds the arithmetic mean.
NoKpiHidesAnother ==
  Covered # {} =>
    LET s == [k \in Covered |-> ForemanScore(k)]
        weighted == [k \in Covered |-> Weight[k] * s[k]]
        w == WeightOf(Covered)
    IN  /\ (\E k \in Covered : s[k] = 0) => ForemanTotal.product = 0
        /\ ForemanTotal.product * Power(w, ForemanTotal.degree)
             <= Power(SumOf(weighted, Covered), ForemanTotal.degree)

-----------------------------------------------------------------------------
(* Statements of the documentation that the code does not keep.            *)

\* README, performance levels: the last level means its minimum, 90, or more.
LastLevelIsEarned ==
  Level(GroupTotal) = Len(Levels) => AtLeast(GroupTotal, Levels[Len(Levels)].min)

\* A score means the same for every KPI, period and group: 100 is the target,
\* also of many plants and days together, and no KPI makes up for one that
\* earned nothing.
ScoresMeanTheSame == ScoringTypeOK /\ TargetMeansHundred /\ NoKpiHidesAnother
=============================================================================

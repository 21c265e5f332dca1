----------------------------- MODULE KpiScores -----------------------------
(***************************************************************************)
(* The formulas of kpi_engine.py and the score analytics.py makes of the   *)
(* records of a period.  Percentages and scores are in hundredths, ratios  *)
(* and logarithms in thousandths, rounded down.  Log2 is exact at the      *)
(* powers of two and linear between them: what is said needs no more of it *)
(* than that it increases from Log2(1).                                    *)
(***************************************************************************)
EXTENDS Integers, FiniteSets, FiniteSetsExt

LowerIsBetter == {"AGIR_GITME", "GSF", "ISKARTA", "INKITA"}
HigherIsBetter == {"PLANA_UYUM", "OEE"}
Kpis == LowerIsBetter \union HigherIsBetter

\* Quantities are not negative, but the deviation of AGIR_GITME may be; only two
\* formulas accept a target of 0.
IsReading(k, r) ==
  /\ r.num \in Int /\ r.den \in Nat \ {0} /\ r.target \in Nat
  /\ k # "AGIR_GITME" => r.num \in Nat
  /\ r.target = 0 => k \in {"GSF", "INKITA"}

-----------------------------------------------------------------------------
(* The formulas.                                                           *)

Log2[m \in Nat] == IF m < 2000 THEN m - 1000 ELSE 1000 + Log2[m \div 2]

Larger(a, b) == IF a > b THEN a ELSE b
Smaller(a, b) == IF a < b THEN a ELSE b
Abs(n) == IF n < 0 THEN -n ELSE n

\* There is a floor and, for these formulas, no ceiling.
Capped(raw) == Larger(0, raw)

\* AGIR_GITME and ISKARTA, of a ratio to the target.
RatioPiecewise(ratio, good, bad) ==
  IF ratio <= 1000 THEN 10000 + (good * (1000 - ratio)) \div 10
  ELSE 10000 - (bad * Log2[ratio]) \div 10

\* Seeded fault: what is below the target is taken off.
HybridPenalty(actual, target, floor, good, bad) ==
  LET base == Larger(target, floor)
  IN  IF actual <= target
      THEN 10000 - (good * (((target - actual) * 1000) \div base)) \div 10
      ELSE 10000 - (bad * Log2[1000 + ((actual - target) * 1000) \div base]) \div 10

\* GSF and INKITA: deviations from a small target count against the floor.
Hybrid(actual, target, floor, good, bad) ==
  LET base == Larger(target, floor)
  IN  IF actual <= target
      THEN 10000 + (good * (((target - actual) * 1000) \div base)) \div 10
      ELSE 10000 - (bad * Log2[1000 + ((actual - target) * 1000) \div base]) \div 10

\* OEE: the target itself is worth 105, which is also the ceiling.
LinearBonus(actual, target) == Smaller(10500, (actual * 10500) \div target)

\* Seeded fault: the logarithm starts from the score of the target again.
PlanAchievementJump(planned, done) ==
  LET dev == ((done - planned) * 10000) \div planned
  IN  Capped(IF Abs(dev) <= 500 THEN 10000 + dev
             ELSE IF dev > 0 THEN 10000 + (500 * Log2[2 * dev]) \div 1000
             ELSE 9500 - (1000 * Log2[2 * Abs(dev)]) \div 1000)

\* PLANA_UYUM: a point for each percent up to five, then a logarithm that is
\* steeper below the plan than above it.
PlanAchievement(planned, done) ==
  LET dev == ((done - planned) * 10000) \div planned
  IN  Capped(IF Abs(dev) <= 500 THEN 10000 + dev
             ELSE IF dev > 0 THEN 10500 + (500 * Log2[2 * dev]) \div 1000
             ELSE 9500 - (1000 * Log2[2 * Abs(dev)]) \div 1000)

-----------------------------------------------------------------------------
(* The score of a KPI over the records rec[c] of the cells c of a set.     *)

SumOf(f, S) == MapThenSumSet(LAMBDA c : f[c], S)

NumSum(rec, S) == SumOf([c \in S |-> rec[c].num], S)
DenSum(rec, S) == SumOf([c \in S |-> rec[c].den], S)
ExpectedSum(rec, S) == SumOf([c \in S |-> rec[c].den * rec[c].target], S)

PeriodActual(rec, S) == (NumSum(rec, S) * 10000) \div DenSum(rec, S)
PeriodTarget(rec, S) == ExpectedSum(rec, S) \div DenSum(rec, S)

\* Mean of the ratios of the records, weighted by their denominators.
HeavyRatio(rec, S) ==
  SumOf([c \in S |-> (Abs(rec[c].num) * 10000000) \div rec[c].target], S) \div DenSum(rec, S)

\* Mean of the scores of the records, weighted by what was planned.
PlanScore(rec, S) ==
  SumOf([c \in S |-> PlanAchievement(rec[c].den, rec[c].num) * rec[c].den], S) \div DenSum(rec, S)

\* The formula of the KPI's seeded rule.
calculate_custom_score(k, actual, target) ==
  Capped(CASE k = "ISKARTA" -> RatioPiecewise((actual * 1000) \div target, 12, 12)
           [] k = "GSF" -> Hybrid(actual, target, 5, 10, 16)
           [] k = "INKITA" -> Hybrid(actual, target, 50, 6, 10)
           [] k = "OEE" -> LinearBonus(actual, target))

PeriodScore(rec, k, S) ==
  CASE k = "AGIR_GITME" -> Capped(RatioPiecewise(HeavyRatio(rec, S), 9, 12))
    [] k = "PLANA_UYUM" -> PlanScore(rec, S)
    [] OTHER -> calculate_custom_score(k, PeriodActual(rec, S), PeriodTarget(rec, S))

\* Of a foreman: the mean of the plants p in P, whatever they produce, each
\* with the records of the cells part[p].
MeanScore(rec, k, part, P) ==
  SumOf([p \in P |-> PeriodScore(rec, k, part[p])], P) \div Cardinality(P)

-----------------------------------------------------------------------------
(* What is said about records.                                             *)

\* The same quantity was to be done, and no less well was it done.
NoWorse(k, old, new) ==
  /\ new.den = old.den /\ new.target = old.target
  /\ IF k \in LowerIsBetter THEN Abs(new.num) <= Abs(old.num) ELSE new.num >= old.num

OnTarget(k, r) ==
  CASE k \in {"GSF", "ISKARTA", "INKITA"} -> r.num * 10000 <= r.target * r.den
    [] k = "AGIR_GITME" -> Abs(r.num) * 10000 <= r.target * r.den
    [] k = "PLANA_UYUM" -> r.num >= r.den
    [] k = "OEE" -> r.num * 10000 >= r.target * r.den

\* Misses its target by more than a thousandth of it and a hundredth, which is
\* what the numbers here can tell.
OffTarget(k, r) ==
  IF k \in LowerIsBetter THEN Abs(r.num) * 10000000 >= (1001 * r.target + 1000) * r.den
  ELSE IF k = "PLANA_UYUM" THEN r.num < r.den
  ELSE r.num * 10000 < r.target * r.den
=============================================================================

----------------------------- MODULE MCScoring -----------------------------
(* Small periods for the runs of Scoring: readings around every limit of   *)
(* the formulas, equal weights and the seeded levels.                      *)
EXTENDS Scoring, TLC

\* Any two KPIs, and three, of which one is not enough.
MCSelections == {A \in SUBSET Kpis : Cardinality(A) = 2} \union {{"GSF", "OEE", "PLANA_UYUM"}}

MCWeight == [k \in Kpis |-> 1]

\* The last maximum stands for 9999.99, which no score here reaches.
MCLevels == <<[min |-> 0, max |-> 6999], [min |-> 7000, max |-> 8999], [min |-> 9000, max |-> 20000]>>

Reading(nums, den, target) == {[num |-> n, den |-> den, target |-> target] : n \in nums}

MCReadings == [k \in Kpis |->
  CASE k = "AGIR_GITME" -> Reading({-30, 10, 60}, 1000, 150)
    [] k = "GSF" -> Reading({0, 30, 120}, 1000, 300) \union Reading({100}, 1000, 0)
    [] k = "ISKARTA" -> Reading({10, 80}, 1000, 200) \union Reading({20}, 500, 300)
    [] k = "INKITA" -> Reading({20, 100, 160}, 1000, 200) \union Reading({9}, 720, 0)
    [] k = "PLANA_UYUM" -> Reading({90, 105, 106}, 100, 10000) \union Reading({240}, 200, 10000)
    [] k = "OEE" -> Reading({360, 494, 720}, 720, 10000)]

PlaceSymmetry == Permutations(Plants)
=============================================================================

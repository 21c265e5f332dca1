---------------------------- MODULE MCIngestion ----------------------------
(* Model values and symmetry for the runs of Ingestion.                    *)
EXTENDS Ingestion, TLC

CONSTANTS k1, k2, g1, g2

MCKpiOf == (k1 :> "ATIK") @@ (k2 :> "GSF")
MCDay == (k1 :> 2) @@ (k2 :> 2)
MCFirstDays == {[ATIK |-> 0, GSF |-> 2]}
MCFails == {<<g2, 2>>}

\* One batch for each source record, or one for all of them.
MCSettings == {[batch |-> 1, active |-> {"ATIK", "GSF"}], [batch |-> 2, active |-> {"ATIK"}]}

MCContents == {[key |-> k1, value |-> v] : v \in Values} \union {[key |-> k2, value |-> g1], Unknown}

\* One key for both source records, or a key for each.
MCFeeds == {c \in [Sources -> MCContents] :
              c[1] = [key |-> k1, value |-> g1] /\ c[2] \in {[key |-> k1, value |-> g2], [key |-> k2, value |-> g1]}}

RunSymmetry == Permutations(Runs)
=============================================================================

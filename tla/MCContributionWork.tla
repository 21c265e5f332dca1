------------------------- MODULE MCContributionWork -------------------------
(* Bodies of requests for the run of ContributionWork: one for each kind of  *)
(* change, and complete ones that publish.                                   *)
EXTENDS ContributionWork, TLC

MCPayloads ==
  {[complete |-> TRUE, date |-> 1, foremen |-> Foremen, status |-> "PUBLISHED"],
   [status |-> "PUBLISHED"], [date |-> 2], [end |-> 1],
   [impact |-> "high", duration |-> <<9, 4>>], [lasting |-> TRUE, gains |-> TRUE],
   [complete |-> FALSE, monthly |-> 7]}
     \union {[foremen |-> {f}] : f \in Foremen}

ForemanSymmetry == Permutations(Foremen) \union Permutations(Editors)
=============================================================================

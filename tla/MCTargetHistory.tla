-------------------------- MODULE MCTargetHistory --------------------------
(* Model values and symmetry for the runs of TargetHistory.                *)
EXTENDS TargetHistory, TLC

\* Publishers are interchangeable.
PublisherSymmetry == Permutations(Publishers)
=============================================================================

--------------------------- MODULE MCShiftAnalysis ---------------------------
(***************************************************************************)
(* Foreman 1 works three weeks and foreman 2 two of them, opposite each      *)
(* other; foreman 3 replaces him in the fourth.  The weeks' values meet the   *)
(* thresholds exactly: 43 and 37 lie 15 % apart, -6 and -5 one point.  The     *)
(* second KPI is signed, as AGIR_GITME is.                                   *)
(***************************************************************************)
EXTENDS ShiftAnalysis

MCAssignments ==
    {[foreman |-> 1, shift |-> 1, from |-> 1, to |-> 3],
     [foreman |-> 2, shift |-> 0, from |-> 1, to |-> 2],
     [foreman |-> 3, shift |-> 0, from |-> 4, to |-> 4]}

Week(n1, d1, n2, d2, days) ==
    [k \in PageKpis |-> IF k = "oee" THEN [num |-> n1, den |-> d1, days |-> days]
                        ELSE [num |-> n2, den |-> d2, days |-> days]]

High == Week(86, 200, -5, 100, 2)
Low  == Week(74, 200, 46, 1000, 2)
Half == Week(60, 100, -6, 100, 1)

MCBatches     == {High, Low, Half}
MCCorrections == {Low}
=============================================================================

------------------------- MODULE PerformanceLedger -------------------------
(***************************************************************************)
(* What loading performance data promises: a KPI event (natural key) stays *)
(* with the source record that reported it first, a source record reports  *)
(* one event, and a row only ever shows what its source has reported.      *)
(***************************************************************************)
CONSTANTS Sources, Keys, NoEntry

VARIABLES
  reported,  (* reported[s]: what source record s has said, ever            *)
  entry      (* entry[k]: the row of an event, [src, value] or NoEntry      *)

vars == <<reported, entry>>

Init == \A k \in Keys : entry[k] = NoEntry

\* A source record is corrected.
Report ==
  /\ \A s \in Sources : reported[s] \subseteq reported'[s]
  /\ UNCHANGED entry

\* Rows are added or corrected; none changes hands and none goes away.
Load ==
  /\ \A k \in Keys :
       entry'[k] # entry[k] =>
         /\ entry[k] # NoEntry => entry'[k].src = entry[k].src
         /\ [key |-> k, value |-> entry'[k].value] \in reported[entry'[k].src]
  /\ \A j, k \in Keys :
       entry'[j] # NoEntry /\ entry'[k] # NoEntry /\ entry'[j].src = entry'[k].src => j = k
  /\ UNCHANGED reported

Next == Report \/ Load

Spec == Init /\ [][Next]_vars
=============================================================================

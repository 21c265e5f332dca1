--------------------------- MODULE TargetTimeline ---------------------------
(***************************************************************************)
(* What publishing KPI targets and calculation rules promises: per scope,  *)
(* one value applies on every date from the first start date on, a new one *)
(* takes over from its start date, and what applied before stays.          *)
(***************************************************************************)
EXTENDS Naturals

CONSTANTS Scopes, Dates, NoRow

VARIABLE at   (* at[s][d]: start of the row that applies to scope s on date d *)

vars == <<at>>

Published(s) == {at[s][d] : d \in Dates} \ {NoRow}

Init == at = [s \in Scopes |-> [d \in Dates |-> NoRow]]

Publish(s, f) ==
  /\ \A g \in Published(s) : g < f
  /\ at' = [at EXCEPT ![s] = [d \in Dates |-> IF d >= f THEN f ELSE at[s][d]]]

Next == \E s \in Scopes, f \in Dates : Publish(s, f)

Spec == Init /\ [][Next]_vars
=============================================================================

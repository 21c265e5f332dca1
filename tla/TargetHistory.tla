--------------------------- MODULE TargetHistory ---------------------------
(***************************************************************************)
(* Publishing KPI targets and calculation rules, target_publisher.py, and  *)
(* choosing the one that applies, target_resolver.py and rule_resolver.py. *)
(*                                                                         *)
(* A scope is one (scope_type, scope_id) of a KPI, numbered by priority:   *)
(* FOREMAN, CHIEF, PLANT, COMPANY; the rules of a KPI are a single scope.  *)
(* A row is named by its valid_from, which no two rows of a scope share.   *)
(* Each publisher is one session at READ COMMITTED.  SELECT ... FOR UPDATE *)
(* takes two steps: the snapshot in which it finds the open rows, and,     *)
(* when nobody else holds them, their locks, with the WHERE clause looked  *)
(* at again on those rows alone.                                           *)
(***************************************************************************)
EXTENDS Naturals

CONSTANTS
  NumScopes,   (* scopes of the KPI, 1 the narrowest                        *)
  Publishers,  (* sessions that publish                                     *)
  Dates,       (* dates a target may start or be asked for on               *)
  NoRow        (* no row applies                                            *)

Scopes == 1 .. NumScopes

ASSUME TargetHistoryAssumption ==
  /\ NumScopes \in Nat \ {0}
  /\ Dates \subseteq Nat \ {0}
  /\ Dates # {}
  /\ NoRow \notin Dates

VARIABLES
  starts,    (* starts[s]: valid_from of the rows of scope s                *)
  open,      (* open[s]: those with valid_to NULL                           *)
  ends,      (* ends[s][f]: valid_to of the row starting at f, when closed  *)
  version,   (* version[s][f]: its version (rules only)                     *)
  phase,        (* where each publisher is                                     *)
  scope,     (* the scope it publishes for                                  *)
  from,      (* the new row's valid_from                                    *)
  seen,      (* the open rows of its snapshot                               *)
  held,      (* the rows its SELECT returned, locked until it ends          *)
  next       (* the version the new row will have                           *)

scopeVars == <<starts, open, ends, version>>
publisherVars == <<phase, scope, from, seen, held, next>>
historyVars == <<scopeVars, publisherVars>>

PublisherStates == {"idle", "select", "lock", "number", "insert"}

HistoryTypeOK ==
  /\ starts \in [Scopes -> SUBSET Dates]
  /\ open \in [Scopes -> SUBSET Dates]
  /\ ends \in [Scopes -> [Dates -> Nat]]
  /\ version \in [Scopes -> [Dates -> Nat]]
  /\ phase \in [Publishers -> PublisherStates]
  /\ scope \in [Publishers -> Scopes]
  /\ from \in [Publishers -> Dates]
  /\ seen \in [Publishers -> SUBSET Dates]
  /\ held \in [Publishers -> SUBSET Dates]
  /\ next \in [Publishers -> Nat]

SomeDate == CHOOSE d \in Dates : TRUE

HistoryInit ==
  /\ starts = [s \in Scopes |-> {}]
  /\ open = [s \in Scopes |-> {}]
  /\ ends = [s \in Scopes |-> [f \in Dates |-> 0]]
  /\ version = [s \in Scopes |-> [f \in Dates |-> 0]]
  /\ phase = [p \in Publishers |-> "idle"]
  /\ scope = [p \in Publishers |-> 1]
  /\ from = [p \in Publishers |-> SomeDate]
  /\ seen = [p \in Publishers |-> {}]
  /\ held = [p \in Publishers |-> {}]
  /\ next = [p \in Publishers |-> 0]

-----------------------------------------------------------------------------
(* Which row applies: is_effective, resolve_target, resolve_rule.          *)

\* is_effective
Effective(s, f, d) == f <= d /\ (f \in open[s] \/ d <= ends[s][f])

Matches(s, d) == {f \in starts[s] : Effective(s, f, d)}

\* The narrowest scope with a match; more than one match there is an error,
\* AmbiguousTargetError or AmbiguousRuleError.
Resolved(s, d) ==
  /\ Matches(s, d) # {}
  /\ \A t \in 1 .. s - 1 : Matches(t, d) = {}

Ambiguous(d) ==
  \E s \in Scopes : Resolved(s, d) /\ \E f, g \in Matches(s, d) : f # g

-----------------------------------------------------------------------------
(* publish_target and publish_rule.                                        *)

Begin(p) ==
  /\ phase[p] = "idle"
  /\ \E s \in Scopes, f \in Dates :
       /\ scope' = [scope EXCEPT ![p] = s]
       /\ from' = [from EXCEPT ![p] = f]
  /\ phase' = [phase EXCEPT ![p] = "select"]
  /\ UNCHANGED <<scopeVars, seen, held, next>>

\* The statement's snapshot.
Snapshot(p) ==
  /\ phase[p] = "select"
  /\ seen' = [seen EXCEPT ![p] = open[scope[p]]]
  /\ phase' = [phase EXCEPT ![p] = "lock"]
  /\ UNCHANGED <<scopeVars, scope, from, held, next>>

Locked(p, f) == \E q \in Publishers \ {p} : scope[q] = scope[p] /\ f \in held[q]

\* The row locks, once they are free, on the rows that are still open.
Lock(p) ==
  /\ phase[p] = "lock"
  /\ \A f \in seen[p] : ~Locked(p, f)
  /\ held' = [held EXCEPT ![p] = seen[p] \intersect open[scope[p]]]
  /\ phase' = [phase EXCEPT ![p] = "number"]
  /\ UNCHANGED <<scopeVars, scope, from, seen, next>>

IsLatestVersion(s, v) ==
  /\ \A f \in starts[s] : version[s][f] <= v
  /\ v = 0 \/ \E f \in starts[s] : version[s][f] = v

\* SELECT max(version), and the check of the start date.
Number(p) ==
  /\ phase[p] = "number"
  /\ \A f \in held[p] : f < from[p]
  /\ \E v \in {0} \union {version[scope[p]][f] : f \in starts[scope[p]]} :
       /\ IsLatestVersion(scope[p], v)
       /\ next' = [next EXCEPT ![p] = v + 1]
  /\ phase' = [phase EXCEPT ![p] = "insert"]
  /\ UNCHANGED <<scopeVars, scope, from, seen, held>>

\* Seeded fault: the closed row ends a day too early.
LastDayGap(f) == f - 2

\* valid_to of the row that a row starting at f replaces.
LastDay(f) == f - 1

\* Seeded fault: a constraint on equal start dates only.
OverlapsSameStart(p) == from[p] \in starts[scope[p]]

\* Does [from, NULL] overlap a row of the scope, once the held ones are closed?
Overlaps(p) ==
  \E f \in starts[scope[p]] :
    IF f \in held[p] THEN LastDay(from[p]) >= from[p]
    ELSE f \in open[scope[p]] \/ ends[scope[p]][f] >= from[p]

Done(p) ==
  /\ phase' = [phase EXCEPT ![p] = "idle"]
  /\ held' = [held EXCEPT ![p] = {}]
  /\ seen' = [seen EXCEPT ![p] = {}]
  /\ next' = [next EXCEPT ![p] = 0]
  /\ scope' = [scope EXCEPT ![p] = 1]
  /\ from' = [from EXCEPT ![p] = SomeDate]

\* The UPDATEs, the INSERT and the commit.
Publish(p) ==
  LET s == scope[p]
      f == from[p]
  IN /\ phase[p] = "insert"
     /\ ~Overlaps(p)
     /\ starts' = [starts EXCEPT ![s] = @ \union {f}]
     /\ open' = [open EXCEPT ![s] = (@ \ held[p]) \union {f}]
     /\ ends' = [ends EXCEPT ![s] =
          [g \in Dates |-> IF g \in held[p] THEN LastDay(f) ELSE ends[s][g]]]
     /\ version' = [version EXCEPT ![s][f] = next[p]]
     /\ Done(p)

\* The exclusion constraint rejects the INSERT: everything is rolled back.
Conflict(p) ==
  /\ phase[p] = "insert"
  /\ Overlaps(p)
  /\ Done(p)
  /\ UNCHANGED scopeVars

\* ValueError: the new row must start after the open one.
RejectStart(p) ==
  /\ phase[p] = "number"
  /\ \E f \in held[p] : f >= from[p]
  /\ Done(p)
  /\ UNCHANGED scopeVars

\* The process dies, or the database ends its transaction (a deadlock).
Abort(p) ==
  /\ phase[p] # "idle"
  /\ Done(p)
  /\ UNCHANGED scopeVars

HistoryNext ==
  \E p \in Publishers :
    \/ Begin(p) \/ Snapshot(p) \/ Lock(p) \/ Number(p) \/ Publish(p)
    \/ Conflict(p) \/ RejectStart(p) \/ Abort(p)

HistorySpec == HistoryInit /\ [][HistoryNext]_historyVars

-----------------------------------------------------------------------------
(* Properties.                                                             *)

\* However publishers interleave, no date of any KPI has two candidates in
\* the scope that decides: the resolvers never raise an ambiguity error.
NeverAmbiguous == \A d \in Dates : ~Ambiguous(d)

\* Versions follow the start dates, also when the version was read long
\* before the row is written.
VersionsInOrder ==
  \A s \in Scopes : \A f, g \in starts[s] : f < g => version[s][f] < version[s][g]

(***************************************************************************)
(* The inductive invariant behind them, in named parts.                    *)
(***************************************************************************)
\* Every scope that has rows has one open row, the last; the others end
\* before it starts, each where the next one begins.
HistoryShape ==
  \A s \in Scopes :
    /\ open[s] \subseteq starts[s]
    /\ starts[s] # {} => open[s] # {}
    /\ \A f \in open[s], g \in starts[s] : g <= f
    /\ \A f \in starts[s] \ open[s] :
         /\ f <= ends[s][f]
         /\ ends[s][f] + 1 \in starts[s]
         /\ \A g \in starts[s] : g <= f \/ g > ends[s][f]

\* A returned row is open and nobody else's.
LocksHold ==
  \A p \in Publishers :
    /\ held[p] \subseteq open[scope[p]]
    /\ phase[p] \notin {"number", "insert"} => held[p] = {}
    /\ \A f \in held[p] : ~Locked(p, f)
    /\ phase[p] = "insert" => \A f \in held[p] : f < from[p]

\* While a publisher holds the open row, the version it has read is the last.
NumberFresh ==
  \A p \in Publishers :
    phase[p] = "insert" =>
      /\ held[p] # {} => \A f \in starts[scope[p]] : version[scope[p]][f] < next[p]
      /\ next[p] > 0

HistoryInv ==
  /\ HistoryTypeOK
  /\ HistoryShape
  /\ LocksHold
  /\ NumberFresh
  /\ VersionsInOrder

(***************************************************************************)
(* The tables implement TargetTimeline.                                    *)
(***************************************************************************)
RowAt(s, d) ==
  IF Matches(s, d) = {} THEN NoRow ELSE CHOOSE f \in Matches(s, d) : TRUE

Timeline == INSTANCE TargetTimeline WITH
  at <- [s \in Scopes |-> [d \in Dates |-> RowAt(s, d)]]

\* A publish either takes over from its start date on or changes nothing: it
\* leaves no date uncovered and does not touch what applied before.
KeepsTimeline == Timeline!Spec

\* The history of every scope can be read back: it is numbered in the order of
\* its start dates, and exactly one row decides for any date.
HistorySound == VersionsInOrder /\ NeverAmbiguous
=============================================================================

---------------------------- MODULE RecordProofs ----------------------------
(***************************************************************************)
(* Proofs about what the tables of performance hold: the targets and rules *)
(* in force (module TargetHistory), for any number of scopes, publishers   *)
(* and dates, and the records and scores that ingestion and rescoring      *)
(* write (module Ingestion), for any number of sources, keys and processes.*)
(***************************************************************************)
EXTENDS TargetHistory, Ingestion, FiniteSetTheorems, TLAPS


-----------------------------------------------------------------------------
(* Types.                                                                  *)

LEMMA SomeDateIsADate == SomeDate \in Dates
  BY TargetHistoryAssumption DEF SomeDate

LEMMA LastDayType == \A f \in Dates : LastDay(f) \in Nat /\ LastDay(f) + 1 = f /\ LastDay(f) < f
  BY TargetHistoryAssumption DEF LastDay

LEMMA HistoryTypeInit == ASSUME HistoryInit PROVE HistoryTypeOK
  BY SomeDateIsADate, TargetHistoryAssumption DEF HistoryInit, HistoryTypeOK, Scopes, PublisherStates

LEMMA TypeDone ==
  ASSUME HistoryTypeOK, NEW p \in Publishers, Done(p)
  PROVE  /\ phase' \in [Publishers -> PublisherStates]
         /\ scope' \in [Publishers -> Scopes]
         /\ from' \in [Publishers -> Dates]
         /\ seen' \in [Publishers -> SUBSET Dates]
         /\ held' \in [Publishers -> SUBSET Dates]
         /\ next' \in [Publishers -> Nat]
<1>1. 1 \in Scopes
  BY TargetHistoryAssumption DEF Scopes
<1>2. scope' \in [Publishers -> Scopes] /\ from' \in [Publishers -> Dates]
  BY <1>1, SomeDateIsADate DEF Done, HistoryTypeOK
<1>3. phase' \in [Publishers -> PublisherStates] /\ next' \in [Publishers -> Nat]
  BY DEF Done, HistoryTypeOK, PublisherStates
<1>4. seen' \in [Publishers -> SUBSET Dates] /\ held' \in [Publishers -> SUBSET Dates]
  BY DEF Done, HistoryTypeOK
<1>5. QED
  BY <1>2, <1>3, <1>4

LEMMA TypePublish ==
  ASSUME HistoryTypeOK, NEW p \in Publishers, Publish(p)
  PROVE  HistoryTypeOK'
<1>1. PICK s \in Scopes : s = scope[p]
  BY DEF HistoryTypeOK
<1>2. PICK f \in Dates : f = from[p]
  BY DEF HistoryTypeOK
<1>3. starts' \in [Scopes -> SUBSET Dates] /\ open' \in [Scopes -> SUBSET Dates]
  BY <1>1, <1>2 DEF Publish, HistoryTypeOK
<1>4. ends' \in [Scopes -> [Dates -> Nat]]
  BY <1>1, <1>2, LastDayType DEF Publish, HistoryTypeOK
<1>5. version' \in [Scopes -> [Dates -> Nat]]
  BY <1>1, <1>2 DEF Publish, HistoryTypeOK
<1>6. Done(p)
  BY DEF Publish
<1>7. QED
  BY <1>3, <1>4, <1>5, <1>6, TypeDone DEF HistoryTypeOK

LEMMA HistoryTypeStep == ASSUME HistoryTypeOK, [HistoryNext]_historyVars PROVE HistoryTypeOK'
<1> USE DEF scopeVars, publisherVars
<1>1. ASSUME NEW p \in Publishers, Begin(p) PROVE HistoryTypeOK'
  BY <1>1 DEF Begin, HistoryTypeOK, PublisherStates
<1>2. ASSUME NEW p \in Publishers, Snapshot(p) PROVE HistoryTypeOK'
  BY <1>2 DEF Snapshot, HistoryTypeOK, PublisherStates
<1>3. ASSUME NEW p \in Publishers, Lock(p) PROVE HistoryTypeOK'
  BY <1>3 DEF Lock, HistoryTypeOK, PublisherStates
<1>4. ASSUME NEW p \in Publishers, Number(p) PROVE HistoryTypeOK'
  <2>1. PICK s \in Scopes : s = scope[p]
    BY DEF HistoryTypeOK
  <2>2. \A v \in {0} \union {version[s][f] : f \in starts[s]} : v + 1 \in Nat
    BY <2>1 DEF HistoryTypeOK
  <2>3. next' \in [Publishers -> Nat]
    BY <1>4, <2>1, <2>2 DEF Number, HistoryTypeOK
  <2>4. QED
    BY <1>4, <2>3 DEF Number, HistoryTypeOK, PublisherStates
<1>5. ASSUME NEW p \in Publishers, Publish(p) PROVE HistoryTypeOK'
  BY <1>5, TypePublish
<1>6. ASSUME NEW p \in Publishers, Conflict(p) \/ RejectStart(p) \/ Abort(p) PROVE HistoryTypeOK'
  BY <1>6, TypeDone DEF Conflict, RejectStart, Abort, HistoryTypeOK
<1>7. CASE UNCHANGED historyVars
  BY <1>7 DEF historyVars, HistoryTypeOK
<1>8. QED
  BY <1>1, <1>2, <1>3, <1>4, <1>5, <1>6, <1>7 DEF HistoryNext

\* Every variable keeps its type.
THEOREM HistoryTypeCorrect == HistorySpec => []HistoryTypeOK
  BY HistoryTypeInit, HistoryTypeStep, PTL DEF HistorySpec

-----------------------------------------------------------------------------
(* What a successful INSERT says about its scope.                          *)

\* The exclusion constraint accepts a row only if its publisher holds the
\* open row of the scope, if any; the new row then starts after every other.
LEMMA PublishFacts ==
  ASSUME HistoryTypeOK, HistoryShape, LocksHold, NEW p \in Publishers, Publish(p),
         NEW s \in Scopes, s = scope[p], NEW f \in Dates, f = from[p]
  PROVE  /\ held[p] = open[s]
         /\ \A g \in starts[s] : g < f
         /\ \A g \in starts[s] \ open[s] : ends[s][g] < f
<1>1. \A g \in starts[s] : g \in held[p] \/ (g \notin open[s] /\ ~(ends[s][g] >= f))
  BY DEF Publish, Overlaps
<1>2. open[s] \subseteq starts[s] /\ held[p] \subseteq open[s]
  BY DEF HistoryShape, LocksHold
<1>3. held[p] = open[s]
  BY <1>1, <1>2
<1>4. \A g \in starts[s] \ open[s] : ends[s][g] < f
  BY <1>1, <1>2, TargetHistoryAssumption DEF HistoryTypeOK
<1>5. \A g \in held[p] : g < f
  BY DEF Publish, LocksHold
<1>6. \A g \in starts[s] \ open[s] : g < f
  BY <1>4, TargetHistoryAssumption DEF HistoryShape, HistoryTypeOK
<1>7. QED
  BY <1>3, <1>4, <1>5, <1>6

\* What it leaves behind.
LEMMA PublishEffect ==
  ASSUME HistoryTypeOK, NEW p \in Publishers, Publish(p),
         NEW s \in Scopes, s = scope[p], NEW f \in Dates, f = from[p], held[p] = open[s]
  PROVE  /\ starts'[s] = starts[s] \union {f}
         /\ open'[s] = {f}
         /\ \A g \in open[s] : ends'[s][g] = LastDay(f)
         /\ \A g \in Dates \ open[s] : ends'[s][g] = ends[s][g]
         /\ version'[s][f] = next[p]
         /\ \A g \in Dates \ {f} : version'[s][g] = version[s][g]
         /\ \A t \in Scopes \ {s} : /\ starts'[t] = starts[t]
                                    /\ open'[t] = open[t]
                                    /\ ends'[t] = ends[t]
                                    /\ version'[t] = version[t]
<1>1. /\ starts' = [starts EXCEPT ![s] = @ \union {f}]
      /\ open' = [open EXCEPT ![s] = (@ \ held[p]) \union {f}]
      /\ ends' = [ends EXCEPT ![s] =
           [g \in Dates |-> IF g \in held[p] THEN LastDay(f) ELSE ends[s][g]]]
      /\ version' = [version EXCEPT ![s][f] = next[p]]
  BY DEF Publish
<1>2. starts'[s] = starts[s] \union {f} /\ open'[s] = {f}
  BY <1>1 DEF HistoryTypeOK
<1>3. /\ \A g \in open[s] : ends'[s][g] = LastDay(f)
      /\ \A g \in Dates \ open[s] : ends'[s][g] = ends[s][g]
  BY <1>1 DEF HistoryTypeOK
<1>4. version'[s][f] = next[p] /\ \A g \in Dates \ {f} : version'[s][g] = version[s][g]
  BY <1>1 DEF HistoryTypeOK
<1>5. QED
  BY <1>1, <1>2, <1>3, <1>4 DEF HistoryTypeOK

-----------------------------------------------------------------------------
(* The inductive invariant.                                                *)

LEMMA HistoryInvInit == ASSUME HistoryInit PROVE HistoryInv
<1>1. HistoryTypeOK
  BY HistoryTypeInit
<1>2. HistoryShape /\ VersionsInOrder
  BY DEF HistoryInit, HistoryShape, VersionsInOrder
<1>3. LocksHold /\ NumberFresh
  BY DEF HistoryInit, LocksHold, NumberFresh
<1>4. QED
  BY <1>1, <1>2, <1>3 DEF HistoryInv

LEMMA ShapePublish ==
  ASSUME HistoryTypeOK, HistoryShape, LocksHold, NEW p \in Publishers, Publish(p)
  PROVE  HistoryShape'
<1>1. PICK s \in Scopes, f \in Dates : s = scope[p] /\ f = from[p]
  BY DEF HistoryTypeOK
<1>2. /\ held[p] = open[s]
      /\ \A g \in starts[s] : g < f
      /\ \A g \in starts[s] \ open[s] : ends[s][g] < f
  BY <1>1, PublishFacts, SMTT(30)
<1>3. /\ starts'[s] = starts[s] \union {f}
      /\ open'[s] = {f}
      /\ \A g \in open[s] : ends'[s][g] = LastDay(f)
      /\ \A g \in Dates \ open[s] : ends'[s][g] = ends[s][g]
      /\ \A t \in Scopes \ {s} : starts'[t] = starts[t] /\ open'[t] = open[t] /\ ends'[t] = ends[t]
  BY <1>1, <1>2, PublishEffect, SMTT(30)
<1>4. starts[s] \subseteq Dates /\ Dates \subseteq Nat /\ LastDay(f) + 1 = f /\ LastDay(f) \in Nat
  BY LastDayType, TargetHistoryAssumption DEF HistoryTypeOK
<1>5. \A g \in open'[s], h \in starts'[s] : h <= g
  <2>1. ASSUME NEW h \in starts[s] PROVE h <= f
    <3>1. h \in Nat /\ f \in Nat
      BY <1>4
    <3>2. h < f
      BY <1>2
    <3>3. QED
      BY <3>1, <3>2
  <2>2. f <= f
    BY <1>4
  <2>3. QED
    BY <1>3, <2>1, <2>2
<1>6. ASSUME NEW g \in starts'[s] \ open'[s]
      PROVE  /\ g <= ends'[s][g]
             /\ ends'[s][g] + 1 \in starts'[s]
             /\ \A h \in starts'[s] : h <= g \/ h > ends'[s][g]
  <2>1. g \in starts[s] /\ g \in Dates /\ g < f
    BY <1>2, <1>3, <1>4, <1>6
  <2>2. CASE g \in open[s]
    <3>1. \A h \in starts[s] : h <= g
      BY <2>2 DEF HistoryShape
    <3>2. ends'[s][g] = LastDay(f)
      BY <1>3, <2>2
    <3>3. QED
      BY <1>3, <1>4, <2>1, <3>1, <3>2
  <2>3. CASE g \notin open[s]
    <3>1. ends'[s][g] = ends[s][g] /\ ends[s][g] < f
      BY <1>2, <1>3, <2>1, <2>3
    <3>2. /\ g <= ends[s][g]
          /\ ends[s][g] + 1 \in starts[s]
          /\ \A h \in starts[s] : h <= g \/ h > ends[s][g]
      BY <2>1, <2>3 DEF HistoryShape
    <3>3. ends[s][g] \in Nat
      BY <2>1 DEF HistoryTypeOK
    <3>4. QED
      BY <1>3, <1>4, <3>1, <3>2, <3>3
  <2>4. QED
    BY <2>2, <2>3
<1>7. ASSUME NEW t \in Scopes
      PROVE  /\ open'[t] \subseteq starts'[t]
             /\ starts'[t] # {} => open'[t] # {}
             /\ \A g \in open'[t], h \in starts'[t] : h <= g
             /\ \A g \in starts'[t] \ open'[t] :
                  /\ g <= ends'[t][g]
                  /\ ends'[t][g] + 1 \in starts'[t]
                  /\ \A h \in starts'[t] : h <= g \/ h > ends'[t][g]
  <2>1. CASE t = s
    BY <1>3, <1>5, <1>6, <2>1
  <2>2. CASE t # s
    BY <1>3, <2>2 DEF HistoryShape
  <2>3. QED
    BY <2>1, <2>2
<1>8. QED
  BY <1>7 DEF HistoryShape

LEMMA VersionsPublish ==
  ASSUME HistoryTypeOK, HistoryShape, LocksHold, NumberFresh, VersionsInOrder,
         NEW p \in Publishers, Publish(p)
  PROVE  VersionsInOrder'
<1>1. PICK s \in Scopes, f \in Dates : s = scope[p] /\ f = from[p]
  BY DEF HistoryTypeOK
<1>2. held[p] = open[s] /\ \A g \in starts[s] : g < f
  BY <1>1, PublishFacts, SMTT(30)
<1>3. /\ starts'[s] = starts[s] \union {f}
      /\ version'[s][f] = next[p]
      /\ \A g \in Dates \ {f} : version'[s][g] = version[s][g]
      /\ \A t \in Scopes \ {s} : starts'[t] = starts[t] /\ version'[t] = version[t]
  BY <1>1, <1>2, PublishEffect, SMTT(30)
<1>4. starts[s] \subseteq Dates /\ Dates \subseteq Nat
  BY TargetHistoryAssumption DEF HistoryTypeOK
<1>5. \A g \in starts[s] : version[s][g] < next[p]
  <2>1. starts[s] # {} => held[p] # {}
    BY <1>2 DEF HistoryShape
  <2>2. phase[p] = "insert"
    BY DEF Publish
  <2>3. held[p] # {} => \A g \in starts[s] : version[s][g] < next[p]
    BY <1>1, <2>2 DEF NumberFresh
  <2>4. QED
    BY <2>1, <2>3
<1>6. \A g, h \in starts'[s] : g < h => version'[s][g] < version'[s][h]
  <2>1. ASSUME NEW g \in starts'[s], NEW h \in starts'[s], g < h
        PROVE  version'[s][g] < version'[s][h]
    <3>0. g \in Nat /\ h \in Nat /\ f \in Nat
      BY <1>3, <1>4
    <3>1. g \in starts[s] /\ g # f
      <4>1. h < f \/ h = f
        BY <1>2, <1>3
      <4>2. g # f
        BY <2>1, <3>0, <4>1
      <4>3. QED
        BY <1>3, <4>2
    <3>2. version'[s][g] = version[s][g]
      BY <1>3, <1>4, <3>1
    <3>3. CASE h = f
      BY <1>3, <1>5, <3>1, <3>2, <3>3
    <3>4. CASE h # f
      BY <1>3, <1>4, <2>1, <3>1, <3>2, <3>4 DEF VersionsInOrder
    <3>5. QED
      BY <3>3, <3>4
  <2>2. QED
    BY <2>1
<1>7. ASSUME NEW t \in Scopes, t # s
      PROVE  \A g, h \in starts'[t] : g < h => version'[t][g] < version'[t][h]
  BY <1>3, <1>7 DEF VersionsInOrder
<1>8. QED
  BY <1>6, <1>7 DEF VersionsInOrder

\* A publisher that ends its transaction disturbs nobody's locks.
LEMMA LocksDone ==
  ASSUME HistoryTypeOK, LocksHold, NumberFresh, NEW p \in Publishers, Done(p),
         \A q \in Publishers \ {p} : held[q] \subseteq open'[scope[q]],
         \A q \in Publishers \ {p} : held[q] # {} => \A g \in starts'[scope[q]] :
            version'[scope[q]][g] = version[scope[q]][g] /\ g \in starts[scope[q]]
  PROVE  LocksHold' /\ NumberFresh'
<1>1. /\ held'[p] = {} /\ phase'[p] = "idle"
      /\ \A q \in Publishers \ {p} : /\ held'[q] = held[q]
                                     /\ phase'[q] = phase[q]
                                     /\ scope'[q] = scope[q]
                                     /\ from'[q] = from[q]
                                     /\ next'[q] = next[q]
  BY DEF Done, HistoryTypeOK
<1>2. \A q \in Publishers \ {p} : \A g \in held[q] : ~Locked(q, g)'
  BY <1>1 DEF Locked, LocksHold
<1>3. LocksHold'
  <2>1. ASSUME NEW q \in Publishers
        PROVE  /\ held'[q] \subseteq open'[scope'[q]]
               /\ phase'[q] \notin {"number", "insert"} => held'[q] = {}
               /\ \A g \in held'[q] : ~Locked(q, g)'
               /\ phase'[q] = "insert" => \A g \in held'[q] : g < from'[q]
    <3>1. CASE q = p
      BY <1>1, <3>1
    <3>2. CASE q # p
      BY <1>1, <1>2, <3>2 DEF LocksHold
    <3>3. QED
      BY <3>1, <3>2
  <2>2. QED
    BY <2>1 DEF LocksHold
<1>4. ASSUME NEW q \in Publishers, phase'[q] = "insert"
      PROVE  /\ held'[q] # {} => \A g \in starts'[scope'[q]] : version'[scope'[q]][g] < next'[q]
             /\ next'[q] > 0
  <2>1. q # p
    BY <1>1, <1>4
  <2>2. QED
    BY <1>1, <1>4, <2>1 DEF NumberFresh
<1>5. NumberFresh'
  BY <1>4 DEF NumberFresh
<1>6. QED
  BY <1>3, <1>5

LEMMA LocksPublish ==
  ASSUME HistoryTypeOK, HistoryShape, LocksHold, NumberFresh, NEW p \in Publishers, Publish(p)
  PROVE  LocksHold' /\ NumberFresh'
<1>1. PICK s \in Scopes, f \in Dates : s = scope[p] /\ f = from[p]
  BY DEF HistoryTypeOK
<1>2. held[p] = open[s]
  BY <1>1, PublishFacts, SMTT(30)
<1>3. /\ \A t \in Scopes \ {s} : starts'[t] = starts[t] /\ open'[t] = open[t] /\ version'[t] = version[t]
  BY <1>1, <1>2, PublishEffect, SMTT(30)
<1>4. ASSUME NEW q \in Publishers \ {p} PROVE held[q] # {} => scope[q] \in Scopes \ {s}
  <2>1. scope[q] \in Scopes /\ q # p
    BY DEF HistoryTypeOK
  <2>2. ASSUME NEW g \in held[q], scope[q] = s PROVE FALSE
    <3>1. g \in held[p]
      BY <1>2, <2>2 DEF LocksHold
    <3>2. Locked(q, g)
      BY <1>1, <2>1, <2>2, <3>1 DEF Locked
    <3>3. QED
      BY <2>2, <3>2 DEF LocksHold
  <2>3. QED
    BY <2>1, <2>2
<1>5. \A q \in Publishers \ {p} : held[q] \subseteq open'[scope[q]]
  BY <1>3, <1>4 DEF LocksHold
<1>6. \A q \in Publishers \ {p} : held[q] # {} => \A g \in starts'[scope[q]] :
         version'[scope[q]][g] = version[scope[q]][g] /\ g \in starts[scope[q]]
  BY <1>3, <1>4
<1>7. Done(p)
  BY DEF Publish
<1>8. QED
  BY <1>5, <1>6, <1>7, LocksDone

LEMMA LocksLock ==
  ASSUME HistoryTypeOK, LocksHold, NumberFresh, NEW p \in Publishers, Lock(p)
  PROVE  LocksHold' /\ NumberFresh'
<1>1. /\ held'[p] = seen[p] \intersect open[scope[p]]
      /\ phase[p] = "lock" /\ phase'[p] = "number"
      /\ \A q \in Publishers \ {p} : held'[q] = held[q] /\ phase'[q] = phase[q]
      /\ UNCHANGED <<starts, open, version, scope, from, next>>
  BY DEF Lock, HistoryTypeOK, scopeVars
<1>2. \A g \in seen[p] : ~Locked(p, g)
  BY DEF Lock
<1>3. \A g \in held'[p] : ~Locked(p, g)'
  BY <1>1, <1>2 DEF Locked
<1>4. ASSUME NEW q \in Publishers \ {p}, NEW g \in held[q] PROVE ~Locked(q, g)'
  <2>1. ~Locked(q, g)
    BY DEF LocksHold
  <2>2. ~(scope[p] = scope[q] /\ g \in held'[p])
    BY <1>1, <1>2 DEF Locked
  <2>3. QED
    BY <1>1, <2>1, <2>2 DEF Locked
<1>5. LocksHold'
  <2>1. ASSUME NEW q \in Publishers
        PROVE  /\ held'[q] \subseteq open'[scope'[q]]
               /\ phase'[q] \notin {"number", "insert"} => held'[q] = {}
               /\ \A g \in held'[q] : ~Locked(q, g)'
               /\ phase'[q] = "insert" => \A g \in held'[q] : g < from'[q]
    <3>1. CASE q = p
      BY <1>1, <1>3, <3>1
    <3>2. CASE q # p
      BY <1>1, <1>4, <3>2 DEF LocksHold
    <3>3. QED
      BY <3>1, <3>2
  <2>2. QED
    BY <2>1 DEF LocksHold
<1>6. NumberFresh'
  BY <1>1 DEF NumberFresh
<1>7. QED
  BY <1>5, <1>6

LEMMA LocksNumber ==
  ASSUME HistoryTypeOK, LocksHold, NumberFresh, NEW p \in Publishers, Number(p)
  PROVE  LocksHold' /\ NumberFresh'
<1>1. PICK s \in Scopes : s = scope[p]
  BY DEF HistoryTypeOK
<1>2. PICK v \in {0} \union {version[s][g] : g \in starts[s]} :
        IsLatestVersion(s, v) /\ next' = [next EXCEPT ![p] = v + 1]
  BY <1>1 DEF Number
<1>3. v \in Nat
  BY <1>1, <1>2 DEF HistoryTypeOK
<1>4. /\ next'[p] = v + 1 /\ phase'[p] = "insert" /\ phase[p] = "number"
      /\ \A q \in Publishers \ {p} : next'[q] = next[q] /\ phase'[q] = phase[q]
      /\ UNCHANGED <<starts, open, version, scope, from, held>>
      /\ \A g \in held[p] : g < from[p]
  BY <1>2 DEF Number, HistoryTypeOK, scopeVars
<1>5. LocksHold'
  BY <1>4 DEF LocksHold, Locked
<1>6. \A g \in starts[s] : version[s][g] < next'[p]
  <2>1. ASSUME NEW g \in starts[s] PROVE version[s][g] < next'[p]
    <3>1. version[s][g] \in Nat /\ version[s][g] <= v
      BY <1>2 DEF IsLatestVersion, HistoryTypeOK
    <3>2. QED
      BY <1>3, <1>4, <3>1
  <2>2. QED
    BY <2>1
<1>7. next'[p] > 0
  BY <1>3, <1>4
<1>8. NumberFresh'
  <2>1. ASSUME NEW q \in Publishers, phase'[q] = "insert"
        PROVE  /\ held'[q] # {} => \A g \in starts'[scope'[q]] : version'[scope'[q]][g] < next'[q]
               /\ next'[q] > 0
    <3>1. CASE q = p
      BY <1>1, <1>4, <1>6, <1>7, <3>1
    <3>2. CASE q # p
      BY <1>4, <2>1, <3>2 DEF NumberFresh
    <3>3. QED
      BY <3>1, <3>2
  <2>2. QED
    BY <2>1 DEF NumberFresh
<1>9. QED
  BY <1>5, <1>8

LEMMA HistoryInvStep == ASSUME HistoryInv, [HistoryNext]_historyVars PROVE HistoryInv'
<1>0. HistoryTypeOK /\ HistoryShape /\ LocksHold /\ NumberFresh /\ VersionsInOrder
  BY DEF HistoryInv
<1>1. HistoryTypeOK'
  BY <1>0, HistoryTypeStep
<1>2. ASSUME NEW p \in Publishers, Begin(p) \/ Snapshot(p) PROVE HistoryInv'
  <2>1. /\ UNCHANGED <<scopeVars, held, next>>
        /\ phase[p] \in {"idle", "select"} /\ phase'[p] \in {"select", "lock"}
        /\ \A q \in Publishers \ {p} : phase'[q] = phase[q] /\ scope'[q] = scope[q] /\ from'[q] = from[q]
    BY <1>0, <1>2 DEF Begin, Snapshot, HistoryTypeOK, scopeVars
  <2>2. held[p] = {}
    BY <1>0, <2>1 DEF LocksHold
  <2>3. \A q \in Publishers : \A g \in held[q] : ~Locked(q, g)'
    BY <1>0, <2>1, <2>2 DEF LocksHold, Locked
  <2>4. LocksHold'
    BY <1>0, <2>1, <2>2, <2>3 DEF LocksHold, scopeVars
  <2>5. NumberFresh'
    BY <1>0, <2>1 DEF NumberFresh, scopeVars
  <2>6. QED
    BY <1>0, <1>1, <2>1, <2>4, <2>5 DEF HistoryInv, HistoryShape, VersionsInOrder, scopeVars
<1>3. ASSUME NEW p \in Publishers, Lock(p) PROVE HistoryInv'
  BY <1>0, <1>1, <1>3, LocksLock DEF HistoryInv, HistoryShape, VersionsInOrder, Lock, scopeVars
<1>4. ASSUME NEW p \in Publishers, Number(p) PROVE HistoryInv'
  BY <1>0, <1>1, <1>4, LocksNumber DEF HistoryInv, HistoryShape, VersionsInOrder, Number, scopeVars
<1>5. ASSUME NEW p \in Publishers, Publish(p) PROVE HistoryInv'
  BY <1>0, <1>1, <1>5, ShapePublish, VersionsPublish, LocksPublish DEF HistoryInv
<1>6. ASSUME NEW p \in Publishers, Conflict(p) \/ RejectStart(p) \/ Abort(p) PROVE HistoryInv'
  <2>1. Done(p) /\ UNCHANGED scopeVars
    BY <1>6 DEF Conflict, RejectStart, Abort
  <2>2. LocksHold' /\ NumberFresh'
    BY <1>0, <2>1, LocksDone DEF LocksHold, scopeVars
  <2>3. QED
    BY <1>0, <1>1, <2>1, <2>2 DEF HistoryInv, HistoryShape, VersionsInOrder, scopeVars
<1>7. CASE UNCHANGED historyVars
  BY <1>0, <1>1, <1>7 DEF historyVars, scopeVars, publisherVars, HistoryInv, HistoryShape, LocksHold, Locked,
                         NumberFresh, VersionsInOrder
<1>8. QED
  BY <1>2, <1>3, <1>4, <1>5, <1>6, <1>7 DEF HistoryNext

\* The inductive invariant holds in every reachable state.
THEOREM HistoryInvariantCorrect == HistorySpec => []HistoryInv
  BY HistoryInvInit, HistoryInvStep, PTL DEF HistorySpec

\* Versions follow the start dates.
THEOREM VersionsInOrderCorrect == HistorySpec => []VersionsInOrder
<1>1. HistoryInv => VersionsInOrder
  BY DEF HistoryInv
<1>2. QED
  BY <1>1, HistoryInvariantCorrect, PTL

-----------------------------------------------------------------------------
(* One row at most applies to a date.                                      *)

LEMMA AtMostOneMatch ==
  ASSUME HistoryTypeOK, HistoryShape, NEW s \in Scopes, NEW d \in Dates,
         NEW f \in Matches(s, d), NEW g \in Matches(s, d)
  PROVE  f = g
<1>1. ASSUME NEW a \in Matches(s, d), NEW b \in Matches(s, d), a < b PROVE FALSE
  <2>1. /\ a \in starts[s] /\ b \in starts[s] /\ b <= d
        /\ a \in open[s] \/ d <= ends[s][a]
    BY DEF Matches, Effective
  <2>2. a \in Nat /\ b \in Nat /\ d \in Nat /\ ends[s][a] \in Nat
    BY <2>1, TargetHistoryAssumption DEF HistoryTypeOK
  <2>3. a \notin open[s]
    BY <1>1, <2>1, <2>2 DEF HistoryShape
  <2>4. b > ends[s][a]
    BY <1>1, <2>1, <2>2, <2>3 DEF HistoryShape
  <2>5. QED
    BY <2>1, <2>2, <2>3, <2>4
<1>2. f \in Nat /\ g \in Nat
  BY TargetHistoryAssumption DEF Matches, HistoryTypeOK
<1>3. f < g \/ g < f \/ f = g
  BY <1>2
<1>4. QED
  BY <1>1, <1>3

\* The resolvers never raise an ambiguity error.
THEOREM NeverAmbiguousCorrect == HistorySpec => []NeverAmbiguous
<1>1. HistoryInv => NeverAmbiguous
  BY AtMostOneMatch DEF HistoryInv, NeverAmbiguous, Ambiguous
<1>2. QED
  BY <1>1, HistoryInvariantCorrect, PTL

-----------------------------------------------------------------------------
(* The tables implement TargetTimeline.                                    *)

LEMMA RowAtMatch ==
  ASSUME HistoryTypeOK, HistoryShape, NEW s \in Scopes, NEW d \in Dates
  PROVE  /\ RowAt(s, d) # NoRow => RowAt(s, d) \in Matches(s, d)
         /\ Matches(s, d) \subseteq starts[s]
  BY DEF RowAt, Matches

\* A published row decides every date from its start on.
LEMMA MatchesFromStart ==
  ASSUME HistoryTypeOK, HistoryShape, LocksHold, NEW p \in Publishers, Publish(p),
         NEW s \in Scopes, s = scope[p], NEW f \in Dates, f = from[p],
         NEW d \in Dates, d >= f
  PROVE  Matches(s, d)' = {f}
<1>1. /\ held[p] = open[s]
      /\ \A g \in starts[s] : g < f
      /\ \A g \in starts[s] \ open[s] : ends[s][g] < f
  BY PublishFacts, SMTT(30)
<1>2. /\ starts'[s] = starts[s] \union {f}
      /\ open'[s] = {f}
      /\ \A g \in open[s] : ends'[s][g] = LastDay(f)
      /\ \A g \in Dates \ open[s] : ends'[s][g] = ends[s][g]
  BY <1>1, PublishEffect, SMTT(30)
<1>3. ASSUME NEW g \in starts[s] PROVE g # f /\ ~(d <= ends'[s][g])
  <2>1. g \in Dates /\ g \in Nat /\ f \in Nat /\ d \in Nat /\ ends[s][g] \in Nat
    BY TargetHistoryAssumption DEF HistoryTypeOK
  <2>2. LastDay(f) \in Nat /\ LastDay(f) < f
    BY LastDayType
  <2>3. g < f
    BY <1>1
  <2>4. CASE g \in open[s]
    BY <1>2, <2>1, <2>2, <2>3, <2>4
  <2>5. CASE g \notin open[s]
    BY <1>1, <1>2, <2>1, <2>3, <2>5
  <2>6. QED
    BY <2>4, <2>5
<1>4. ASSUME NEW g \in Matches(s, d)' PROVE g = f
  BY <1>2, <1>3, <1>4 DEF Matches, Effective
<1>5. f <= d
  BY TargetHistoryAssumption
<1>6. f \in Matches(s, d)'
  BY <1>2, <1>5 DEF Matches, Effective
<1>7. QED
  BY <1>4, <1>6

\* It leaves the dates before that alone.
LEMMA MatchesBeforeStart ==
  ASSUME HistoryTypeOK, HistoryShape, LocksHold, NEW p \in Publishers, Publish(p),
         NEW s \in Scopes, s = scope[p], NEW f \in Dates, f = from[p],
         NEW d \in Dates, ~(d >= f)
  PROVE  Matches(s, d)' = Matches(s, d)
<1>1. held[p] = open[s] /\ \A g \in starts[s] : g < f
  BY PublishFacts, SMTT(30)
<1>2. /\ starts'[s] = starts[s] \union {f}
      /\ open'[s] = {f}
      /\ \A g \in open[s] : ends'[s][g] = LastDay(f)
      /\ \A g \in Dates \ open[s] : ends'[s][g] = ends[s][g]
  BY <1>1, PublishEffect, SMTT(30)
<1>3. f \in Nat /\ d \in Nat /\ LastDay(f) \in Nat /\ LastDay(f) + 1 = f
  BY LastDayType, TargetHistoryAssumption
<1>4. ~(f <= d) /\ d <= LastDay(f)
  BY <1>3
<1>5. ASSUME NEW g \in starts[s] PROVE Effective(s, g, d)' <=> Effective(s, g, d)
  <2>1. g \in Dates /\ g \in Nat /\ g < f
    BY <1>1, TargetHistoryAssumption DEF HistoryTypeOK
  <2>2. g \notin open'[s]
    BY <1>2, <1>3, <2>1
  <2>3. CASE g \in open[s]
    BY <1>2, <1>4, <2>3 DEF Effective
  <2>4. CASE g \notin open[s]
    BY <1>2, <2>1, <2>2, <2>4 DEF Effective
  <2>5. QED
    BY <2>3, <2>4
<1>6. ~Effective(s, f, d)'
  BY <1>4 DEF Effective
<1>7. QED
  BY <1>2, <1>5, <1>6 DEF Matches

LEMMA TimelinePublish ==
  ASSUME HistoryTypeOK, HistoryShape, LocksHold, NEW p \in Publishers, Publish(p)
  PROVE  Timeline!Next
<1>1. PICK s \in Scopes, f \in Dates : s = scope[p] /\ f = from[p]
  BY DEF HistoryTypeOK
<1>2. held[p] = open[s] /\ \A g \in starts[s] : g < f
  BY <1>1, PublishFacts, SMTT(30)
<1>3. \A t \in Scopes \ {s} : starts'[t] = starts[t] /\ open'[t] = open[t] /\ ends'[t] = ends[t]
  BY <1>1, <1>2, PublishEffect, SMTT(30)
<1>4. \A d \in Dates : RowAt(s, d) # NoRow => RowAt(s, d) < f
  BY <1>2, RowAtMatch
<1>5. ASSUME NEW d \in Dates PROVE RowAt(s, d)' = IF d >= f THEN f ELSE RowAt(s, d)
  <2>1. CASE d >= f
    <3>1. Matches(s, d)' = {f}
      BY <1>1, <2>1, MatchesFromStart
    <3>2. QED
      BY <2>1, <3>1 DEF RowAt
  <2>2. CASE ~(d >= f)
    <3>1. Matches(s, d)' = Matches(s, d)
      BY <1>1, <2>2, MatchesBeforeStart
    <3>2. QED
      BY <2>2, <3>1 DEF RowAt
  <2>3. QED
    BY <2>1, <2>2
<1>6. ASSUME NEW t \in Scopes \ {s}, NEW d \in Dates PROVE RowAt(t, d)' = RowAt(t, d)
  <2>1. Matches(t, d)' = Matches(t, d)
    BY <1>3 DEF Matches, Effective
  <2>2. QED
    BY <2>1 DEF RowAt
<1>7. Timeline!Publish(s, f)
  BY <1>4, <1>5, <1>6 DEF Timeline!Publish, Timeline!Published
<1>8. QED
  BY <1>7 DEF Timeline!Next

LEMMA TimelineStep ==
  ASSUME HistoryInv, [HistoryNext]_historyVars
  PROVE  [Timeline!Next]_(Timeline!vars)
<1>0. HistoryTypeOK /\ HistoryShape /\ LocksHold
  BY DEF HistoryInv
<1>1. ASSUME NEW p \in Publishers, Publish(p) PROVE Timeline!Next
  BY <1>0, <1>1, TimelinePublish
<1>2. ASSUME UNCHANGED scopeVars PROVE UNCHANGED Timeline!vars
  <2>1. \A s \in Scopes, d \in Dates : RowAt(s, d)' = RowAt(s, d)
    BY <1>2 DEF RowAt, Matches, Effective, scopeVars
  <2>2. QED
    BY <2>1 DEF Timeline!vars
<1>3. ASSUME NEW p \in Publishers,
             \/ Begin(p) \/ Snapshot(p) \/ Lock(p) \/ Number(p)
             \/ Conflict(p) \/ RejectStart(p) \/ Abort(p)
      PROVE  UNCHANGED scopeVars
  BY <1>3 DEF Begin, Snapshot, Lock, Number, Conflict, RejectStart, Abort, scopeVars
<1>4. CASE UNCHANGED historyVars
  BY <1>2, <1>4 DEF historyVars
<1>5. QED
  BY <1>1, <1>2, <1>3, <1>4 DEF HistoryNext

\* Every publish takes over from its start date on and changes nothing before.
THEOREM TimelineKept == HistorySpec => KeepsTimeline
<1>1. HistoryInit => Timeline!Init
  BY DEF HistoryInit, Timeline!Init, RowAt, Matches
<1>2. QED
  BY <1>1, TimelineStep, HistoryInvariantCorrect, PTL DEF HistorySpec, KeepsTimeline, Timeline!Spec

\* However publishers interleave, the history of a scope can be read back.
THEOREM HistorySoundCorrect == HistorySpec => []HistorySound
<1>1. VersionsInOrder /\ NeverAmbiguous => HistorySound
  BY DEF HistorySound
<1>2. QED
  BY <1>1, VersionsInOrderCorrect, NeverAmbiguousCorrect, PTL


-----------------------------------------------------------------------------
(* What a flush writes.                                                    *)

LEMMA Typed ==
  ASSUME IInv
  PROVE  /\ setting \in Settings /\ content \in [Sources -> Contents]
         /\ rule \in [Keys -> Rules] /\ since \in [Kpis -> Rules]
         /\ owner \in [Keys -> Sources \union {NoSource}] /\ value \in [Keys -> Values \union {NoValue}]
         /\ score \in [Keys -> Scores \union {NoScore}] /\ orphans \in [Sources -> Nat]
         /\ pc \in [Runs -> {"idle", "fetch", "write"}] /\ pos \in [Runs -> 1 .. NumSources + 1]
         /\ batch \in [Runs -> SUBSET Sources] /\ read \in [Runs -> [Sources -> Contents \union {Unknown}]]
         /\ used \in [Runs -> [Sources -> Rules]] /\ plan \in [Runs -> [Sources -> Decisions]]
         /\ rpc \in [Rescorers -> {"idle", "scan", "score"}]
         /\ scan \in [Rescorers -> [Keys -> Good \union {NoValue}]]
         /\ due \in [Rescorers -> [Keys -> Rules]] /\ gone \in [Rescorers -> SUBSET Keys]
         /\ lookup \in [Procs -> [Keys -> Rules]] /\ lapsed \in [Procs -> SUBSET Keys]
         /\ expired \in [Procs -> SUBSET Kpis] /\ quiet \in [Procs -> BOOLEAN]
         /\ overtaken \in SUBSET Keys /\ unruled \in SUBSET Keys
         /\ reported \in [Sources -> SUBSET Contents]
  BY DEF IInv, TablesAgree, TypeOK

\* What a run has read of its batch are raw records.
LEMMA ReadRaw ==
  ASSUME IInv, NEW r \in Runs, NEW s \in batch[r]
  PROVE  s \in Sources /\ read[r][s] \in Raw /\ KeyOf(r, s) \in Keys /\ read[r][s].value \in Values
<1>1. s \in Sources /\ read[r][s] \in Contents \ {Unknown}
  BY Typed DEF IInv, BatchShape
<1>2. read[r][s] \in Raw
  BY <1>1, IngestionAssumption
<1>3. QED
  BY <1>1, <1>2 DEF Raw, KeyOf

\* A row is written for one source record, which is new or has the row already.
LEMMA OneWriter ==
  ASSUME IInv, NEW r \in Runs, pc[r] = "write", NEW k \in Keys, NEW s \in Writers(r, k)
  PROVE  /\ Writers(r, k) = {s} /\ Writer(r, k) = s /\ s \in batch[r] /\ KeyOf(r, s) = k
         /\ \/ s \in Inserted(r) /\ plan[r][s] = "insert" /\ owner[k] = NoSource
            \/ s \in Updated(r) /\ plan[r][s] = "update" /\ owner[k] = s
<1>1. ASSUME NEW t \in Writers(r, k)
      PROVE  /\ t \in batch[r] /\ KeyOf(r, t) = k /\ t \in Sources
             /\ \/ t \in Inserted(r) /\ plan[r][t] = "insert" /\ owner[k] = NoSource
                \/ t \in Updated(r) /\ plan[r][t] = "update" /\ owner[k] = t
  <2>1. t \in batch[r] /\ KeyOf(r, t) = k /\ t \in Sources
    BY ReadRaw DEF Writers, Written, Inserted, Updated
  <2>2. plan[r][t] = "update" => owner[k] = t
    BY <2>1 DEF IInv, BatchShape
  <2>3. QED
    BY <2>1, <2>2 DEF Writers, Written, Inserted, Updated
<1>2. ASSUME NEW t \in Writers(r, k) PROVE t = s
  <2>1. NoSource \notin Sources /\ s \in Int /\ t \in Int
    BY <1>1, IngestionAssumption DEF Sources
  <2>2. CASE s \in Inserted(r) /\ t \in Inserted(r)
    BY <1>1, <2>1, <2>2 DEF Inserted
  <2>3. CASE s \in Updated(r) /\ t \in Updated(r)
    BY <1>1, <2>1, <2>3 DEF Updated
  <2>4. QED
    BY <1>1, <2>1, <2>2, <2>3
<1>3. Writers(r, k) = {s}
  BY <1>2
<1>4. Writer(r, k) = s
  BY <1>3 DEF Writer
<1>5. QED
  BY <1>1, <1>3, <1>4

LEMMA LoadedRow ==
  ASSUME IInv, NEW r \in Runs, pc[r] = "write", NEW k \in Loaded(r)
  PROVE  \E s \in batch[r] :
           /\ s \in Sources /\ KeyOf(r, s) = k /\ s \in Written(r)
           /\ Writer(r, k) = s /\ NewValue(r, k) = read[r][s].value /\ NewValue(r, k) \in Values
           /\ \/ s \in Inserted(r) /\ plan[r][s] = "insert" /\ owner[k] = NoSource
              \/ s \in Updated(r) /\ plan[r][s] = "update" /\ owner[k] = s
<1>1. PICK s : s \in Writers(r, k)
  BY DEF Loaded
<1>2. k \in Keys
  BY DEF Loaded
<1>3. /\ Writer(r, k) = s /\ s \in batch[r] /\ KeyOf(r, s) = k
      /\ \/ s \in Inserted(r) /\ plan[r][s] = "insert" /\ owner[k] = NoSource
         \/ s \in Updated(r) /\ plan[r][s] = "update" /\ owner[k] = s
  BY <1>1, <1>2, OneWriter
<1>4. QED
  BY <1>3, ReadRaw DEF NewValue, Written

\* A source record that is written loads its key.
LEMMA WrittenLoads ==
  ASSUME IInv, NEW r \in Runs, pc[r] = "write", NEW s \in Written(r)
  PROVE  s \in batch[r] /\ KeyOf(r, s) \in Loaded(r) /\ Writer(r, KeyOf(r, s)) = s
<1>1. s \in batch[r]
  BY DEF Written, Inserted, Updated
<1>2. s \in Writers(r, KeyOf(r, s)) /\ KeyOf(r, s) \in Keys
  BY <1>1, ReadRaw DEF Writers
<1>3. QED
  BY <1>1, <1>2, OneWriter DEF Loaded

-----------------------------------------------------------------------------
(* Types.                                                                  *)

LEMMA Bounds ==
  /\ NumSources \in Nat /\ MaxEdits \in Nat /\ MaxRuns \in Nat
  /\ Rules \subseteq Nat /\ NoRule \in Rules /\ NoRule = 0 /\ Days \subseteq Rules \ {NoRule}
  /\ 1 \in 1 .. NumSources + 1 /\ "none" \in Decisions
  /\ Nothing \in [Sources -> Contents \union {Unknown}] /\ Undecided \in [Sources -> Decisions]
  /\ Unscored \in [Sources -> Rules] /\ NoRules \in [Keys -> Rules]
  /\ NoScan \in [Keys -> Good \union {NoValue}]
  /\ \A k \in Keys : KpiOf[k] \in Kpis
  /\ Runs \subseteq Procs /\ Rescorers \subseteq Procs
  /\ \A n \in 1 .. NumSources + 1 : n <= NumSources => n \in Sources /\ n + 1 \in 1 .. NumSources + 1
  BY IngestionAssumption DEF Decisions, Nothing, Undecided, Unscored, NoRules, NoScan, Sources,
     Rules, NoRule, Kpis, Procs

LEMMA BatchFinite ==
  ASSUME NEW B \in SUBSET Sources PROVE IsFiniteSet(B) /\ Cardinality(B) \in Nat
<1>1. IsFiniteSet(Sources)
  BY IngestionAssumption, FS_Interval DEF Sources
<1>2. QED
  BY <1>1, FS_Subset, FS_CardinalityType

\* What a process finds is a rule it has loaded, or none.
LEMMA RulesFound ==
  ASSUME IInv, NEW p \in Procs, NEW k \in Keys
  PROVE  /\ resolve_rule(p, k) \in Rules
         /\ resolve_rule(p, k) # lookup[p][k] => resolve_rule(p, k) = NoRule /\ lookup[p][k] # rule[k]
<1>1. lookup[p][k] \in Rules /\ NoRule \in Rules
  BY Typed, Bounds
<1>2. k \in lapsed[p] => lookup[p][k] # rule[k]
  BY DEF IInv, RuleShape
<1>3. QED
  BY <1>1, <1>2 DEF resolve_rule, LapsedOf

\* It is no newer than the one in force, and not that one if it has been lost.
LEMMA RulesKnown ==
  ASSUME IInv, NEW p \in Procs, NEW k \in Keys
  PROVE  lookup[p][k] \in Nat /\ lookup[p][k] <= rule[k] /\ (k \in lapsed[p] => lookup[p][k] # rule[k])
<1>1. lookup[p][k] \in Rules
  BY Typed
<1>2. lookup[p][k] <= rule[k] /\ (k \in lapsed[p] => lookup[p][k] # rule[k])
  BY DEF IInv, RuleShape
<1>3. QED
  BY <1>1, <1>2, Bounds

MemoryType == /\ lookup \in [Procs -> [Keys -> Rules]] /\ lapsed \in [Procs -> SUBSET Keys]
              /\ expired \in [Procs -> SUBSET Kpis]

LEMMA TypeMemory ==
  ASSUME TypeOK, NEW p \in Procs,
         \/ LoadRules(p) \/ ExpireRules(p) \/ DropRules(p) \/ UNCHANGED ruleVars
         \/ \E q \in Kpis : UseRules(p, q)
  PROVE  MemoryType'
<1>t. MemoryType /\ rule \in [Keys -> Rules] /\ NoRules \in [Keys -> Rules]
  BY Bounds DEF TypeOK, MemoryType
<1>1. CASE LoadRules(p)
  BY <1>1, <1>t DEF LoadRules, MemoryType
<1>2. CASE ExpireRules(p)
  BY <1>2, <1>t DEF ExpireRules, MemoryType
<1>3. CASE DropRules(p)
  BY <1>3, <1>t DEF DropRules, MemoryType
<1>4. CASE UNCHANGED ruleVars
  BY <1>4, <1>t DEF ruleVars, MemoryType
<1>5. ASSUME NEW q \in Kpis, UseRules(p, q) PROVE MemoryType'
  <2>1. LapsedOf(p, q) \subseteq Keys
    BY <1>t DEF LapsedOf, MemoryType
  <2>2. QED
    BY <1>5, <1>t, <2>1 DEF UseRules, MemoryType
<1>6. QED
  BY <1>1, <1>2, <1>3, <1>4, <1>5

LEMMA TypeEndRun ==
  ASSUME TypeOK, NEW r \in Runs, EndRun(r), status' \in [Runs -> {"none", "RUNNING", "SUCCESS", "PARTIAL_SUCCESS"}]
  PROVE  TypeOK'
<1>1. /\ pc' \in [Runs -> {"idle", "fetch", "write"}] /\ pos' \in [Runs -> 1 .. NumSources + 1]
      /\ quiet' \in [Procs -> BOOLEAN]
  BY Bounds DEF TypeOK, EndRun
<1>2. success' \in [Runs -> Nat] /\ errors' \in [Runs -> Nat] /\ skipped' \in [Runs -> Nat]
  BY DEF TypeOK, EndRun
<1>3. /\ batch' \in [Runs -> SUBSET Sources] /\ read' \in [Runs -> [Sources -> Contents \union {Unknown}]]
      /\ used' \in [Runs -> [Sources -> Rules]] /\ plan' \in [Runs -> [Sources -> Decisions]]
  BY Bounds DEF TypeOK, EndRun, EndFlush
<1>4. MemoryType'
  BY TypeMemory, Bounds DEF EndRun
<1>5. QED
  BY <1>1, <1>2, <1>3, <1>4 DEF TypeOK, EndRun, worldVars, rowVars, rescoreVars, MemoryType

\* A score that is written is that of a COMPLETE value and of a rule.
LEMMA ScoreWritten ==
  ASSUME IInv, NEW r \in Runs, pc[r] = "write", NEW k \in Loaded(r)
  PROVE  /\ NewScore(r, k) \in Scores \union {NoScore}
         /\ NewScore(r, k) # NoScore => NewValue(r, k) \in Good /\ NewScore(r, k).value = NewValue(r, k)
         /\ NewScore(r, k) = NoScore /\ NewValue(r, k) \in Good => Unruled(r, k)
<1>1. PICK s \in batch[r] : /\ s \in Sources /\ KeyOf(r, s) = k /\ Writer(r, k) = s
                            /\ NewValue(r, k) = read[r][s].value /\ NewValue(r, k) \in Values
  BY LoadedRow
<1>2. /\ NewValue(r, k) \in Good => (used[r][s] = NoRule => Unruled(r, k))
      /\ NewValue(r, k) \notin Good => used[r][s] = NoRule
  BY <1>1 DEF IInv, RuleShape
<1>3. used[r][s] \in Rules
  BY <1>1, Typed
<1>4. CASE used[r][s] = NoRule
  BY <1>1, <1>2, <1>4 DEF NewScore
<1>5. CASE used[r][s] # NoRule
  <2>1. used[r][s] \in Days /\ NewValue(r, k) \in Good
    BY <1>2, <1>3, <1>5 DEF Rules
  <2>2. NewScore(r, k) = [value |-> NewValue(r, k), rule |-> used[r][s]]
    BY <1>1, <1>5 DEF NewScore
  <2>3. NewScore(r, k) # NoScore
    BY <2>1, <2>2, IngestionAssumption
  <2>4. QED
    BY <2>1, <2>2, <2>3 DEF Scores
<1>6. QED
  BY <1>4, <1>5

LEMMA ScoreRescored ==
  ASSUME IInv, NEW x \in Rescorers, NEW k \in Batch(x)
  PROVE  /\ k \in Keys /\ Rescored(x, k) \in Scores /\ Rescored(x, k) # NoScore
         /\ Rescored(x, k) = [value |-> scan[x][k], rule |-> due[x][k]] /\ scan[x][k] # NoValue
<1>1. k \in Keys /\ due[x][k] # NoRule
  BY DEF Batch
<1>2. scan[x][k] # NoValue
  BY <1>1 DEF IInv, ScanShape
<1>3. scan[x][k] \in Good /\ due[x][k] \in Days
  BY <1>1, <1>2, Typed DEF Rules
<1>4. QED
  BY <1>1, <1>2, <1>3, IngestionAssumption DEF Rescored, Scores

LEMMA TypeStep == ASSUME IInv, [Next]_vars PROVE TypeOK'
<1>t. TypeOK
  BY DEF IInv, TablesAgree
<1> USE DEF worldVars, rowVars, runVars, rescoreVars, ruleVars
<1>1. ASSUME NEW s \in Sources, Correct(s) PROVE TypeOK'
  <2>1. edits' \in 0 .. MaxEdits
    BY <1>1, <1>t, Bounds DEF TypeOK, Correct
  <2>2. content' \in [Sources -> Contents] /\ reported' \in [Sources -> SUBSET Contents]
    BY <1>1, <1>t DEF TypeOK, Correct
  <2>3. QED
    BY <1>1, <1>t, <2>1, <2>2 DEF TypeOK, Correct, Disturbed
<1>2. ASSUME NEW q \in Kpis, PublishRule(q) PROVE TypeOK'
  <2>1. PICK d \in Days : /\ since' = [since EXCEPT ![q] = d]
                          /\ rule' = [k \in Keys |-> IF KpiOf[k] = q /\ d <= Day[k] THEN d ELSE rule[k]]
    BY <1>2 DEF PublishRule
  <2>2. since' \in [Kpis -> Rules] /\ rule' \in [Keys -> Rules]
    BY <1>t, <2>1, Bounds DEF TypeOK
  <2>3. QED
    BY <1>2, <1>t, <2>2 DEF TypeOK, PublishRule, Disturbed
<1>3. ASSUME NEW r \in Runs, StartRun(r) PROVE TypeOK'
  <2>1. started' \in 0 .. MaxRuns
    BY <1>3, <1>t, Bounds DEF TypeOK, StartRun
  <2>2. /\ status' \in [Runs -> {"none", "RUNNING", "SUCCESS", "PARTIAL_SUCCESS"}]
        /\ pc' \in [Runs -> {"idle", "fetch", "write"}] /\ quiet' \in [Procs -> BOOLEAN]
    BY <1>3, <1>t DEF TypeOK, StartRun
  <2>3. MemoryType'
    BY <1>3, <1>t, TypeMemory, Bounds DEF StartRun
  <2>4. QED
    BY <1>3, <1>t, <2>1, <2>2, <2>3 DEF TypeOK, StartRun, MemoryType
<1>4. ASSUME NEW r \in Runs, Fetch(r) PROVE TypeOK'
  <2>1. pos[r] \in Sources /\ pos' \in [Runs -> 1 .. NumSources + 1]
    BY <1>4, <1>t, Bounds DEF TypeOK, Fetch
  <2>2. batch' \in [Runs -> SUBSET Sources] /\ errors' \in [Runs -> Nat]
    <3>1. /\ batch' = batch \/ batch' = [batch EXCEPT ![r] = batch[r] \union {pos[r]}]
          /\ errors' = errors \/ errors' = [errors EXCEPT ![r] = errors[r] + 1]
      BY <1>4 DEF Fetch
    <3>2. batch \in [Runs -> SUBSET Sources] /\ errors \in [Runs -> Nat]
      BY <1>t DEF TypeOK
    <3>3. batch' \in [Runs -> SUBSET Sources]
      BY <2>1, <3>1, <3>2
    <3>4. errors' \in [Runs -> Nat]
      BY <3>1, <3>2
    <3>5. QED
      BY <3>3, <3>4
  <2>3. read' \in [Runs -> [Sources -> Contents \union {Unknown}]]
    <3>1. content[pos[r]] \in Contents /\ read[r] \in [Sources -> Contents \union {Unknown}]
      BY <1>t, <2>1 DEF TypeOK
    <3>2. [read[r] EXCEPT ![pos[r]] = content[pos[r]]] \in [Sources -> Contents \union {Unknown}]
      BY <2>1, <3>1
    <3>3. read' = read \/ read' = [read EXCEPT ![r] = [read[r] EXCEPT ![pos[r]] = content[pos[r]]]]
      BY <1>4 DEF Fetch
    <3>4. QED
      BY <1>t, <3>2, <3>3 DEF TypeOK
  <2>4. used' \in [Runs -> [Sources -> Rules]] /\ MemoryType'
    <3>1. CASE UNCHANGED <<used, ruleVars>>
      BY <1>t, <3>1 DEF TypeOK, MemoryType
    <3>2. CASE content[pos[r]] # Unknown /\ ScoreRaw(r, pos[r], content[pos[r]])
      <4>1. content[pos[r]] \in Raw
        BY <1>t, <2>1, <3>2, IngestionAssumption DEF TypeOK
      <4>2. content[pos[r]].key \in Keys
        BY <4>1 DEF Raw
      <4>3. KpiOf[content[pos[r]].key] \in Kpis /\ r \in Procs
        BY <4>2, Bounds
      <4>4. resolve_rule(r, content[pos[r]].key) \in Rules
        BY <4>2, <4>3, RulesFound
      <4>5. CASE content[pos[r]].value \in Good
        <5>1. used' = [used EXCEPT ![r] = [used[r] EXCEPT ![pos[r]] = resolve_rule(r, content[pos[r]].key)]]
          BY <3>2, <4>5 DEF ScoreRaw
        <5>2. used[r] \in [Sources -> Rules] /\ used \in [Runs -> [Sources -> Rules]]
          BY <1>t DEF TypeOK
        <5>3. [used[r] EXCEPT ![pos[r]] = resolve_rule(r, content[pos[r]].key)] \in [Sources -> Rules]
          BY <2>1, <4>4, <5>2
        <5>4. used' \in [Runs -> [Sources -> Rules]]
          BY <5>1, <5>2, <5>3
        <5>5. \E q \in Kpis : UseRules(r, q)
          BY <3>2, <4>3, <4>5 DEF ScoreRaw
        <5>6. QED
          BY <1>t, <4>3, <5>4, <5>5, TypeMemory
      <4>6. CASE content[pos[r]].value \notin Good
        BY <1>t, <3>2, <4>6 DEF ScoreRaw, TypeOK, MemoryType
      <4>7. QED
        BY <4>5, <4>6
    <3>3. QED
      BY <1>4, <3>1, <3>2 DEF Fetch
  <2>5. QED
    BY <1>4, <1>t, <2>1, <2>2, <2>3, <2>4 DEF TypeOK, Fetch, MemoryType
<1>5. ASSUME NEW r \in Runs, FlushSelect(r) PROVE TypeOK'
  <2>1. \A s \in Sources : (IF s \in batch[r] THEN Decide(s, read[r][s]) ELSE "none") \in Decisions
    BY DEF Decide, Decisions
  <2>2. plan' \in [Runs -> [Sources -> Decisions]]
    BY <1>5, <1>t, <2>1 DEF TypeOK, FlushSelect
  <2>3. QED
    BY <1>5, <1>t, <2>2 DEF TypeOK, FlushSelect
<1>6. ASSUME NEW r \in Runs, FlushWrite(r) PROVE TypeOK'
  <2>1. ASSUME NEW k \in Loaded(r)
        PROVE  /\ Writer(r, k) \in Sources /\ NewValue(r, k) \in Values
               /\ NewScore(r, k) \in Scores \union {NoScore}
               /\ NewIssues(r, k) \subseteq Bad \union {"REPROCESSED"}
    <3>1. Writer(r, k) \in Sources /\ NewValue(r, k) \in Values
      BY <1>6, LoadedRow DEF FlushWrite
    <3>2. NewScore(r, k) \in Scores \union {NoScore}
      BY <1>6, ScoreWritten DEF FlushWrite
    <3>3. QED
      BY <3>1, <3>2 DEF NewIssues
  <2>2. owner' \in [Keys -> Sources \union {NoSource}] /\ value' \in [Keys -> Values \union {NoValue}]
    BY <1>6, <1>t, <2>1 DEF TypeOK, FlushWrite
  <2>3. score' \in [Keys -> Scores \union {NoScore}]
    BY <1>6, <1>t, <2>1 DEF TypeOK, FlushWrite
  <2>4. issues' \in [Keys -> SUBSET (Bad \union {"REPROCESSED"})] /\ orphans' \in [Sources -> Nat]
    BY <1>6, <1>t, <2>1 DEF TypeOK, FlushWrite
  <2>5. gone' \in [Rescorers -> SUBSET Keys] /\ unruled' \in SUBSET Keys /\ MemoryType'
    <3>1. Loaded(r) \subseteq Keys
      BY DEF Loaded
    <3>2. gone' \in [Rescorers -> SUBSET Keys]
      BY <1>6, <1>t, <3>1 DEF TypeOK, FlushWrite
    <3>3. unruled' \in SUBSET Keys
      BY <1>6, <1>t, <3>1 DEF TypeOK, FlushWrite
    <3>4. MemoryType'
      BY <1>6, <1>t, TypeMemory, Bounds DEF FlushWrite
    <3>5. QED
      BY <3>2, <3>3, <3>4
  <2>6. /\ Kept(r) \in SUBSET Sources /\ Rejected(r) \in SUBSET Sources
        /\ Cardinality(Kept(r)) \in Nat /\ Cardinality(Rejected(r)) \in Nat
    <3>1. Kept(r) \in SUBSET Sources /\ Rejected(r) \in SUBSET Sources
      BY <1>t DEF TypeOK, Kept, Rejected, Written, Inserted, Updated
    <3>2. QED
      BY <3>1, BatchFinite
  <2>7. success' \in [Runs -> Nat] /\ skipped' \in [Runs -> Nat]
    BY <1>6, <1>t, <2>6 DEF TypeOK, FlushWrite
  <2>8. /\ pc' \in [Runs -> {"idle", "fetch", "write"}] /\ quiet' \in [Procs -> BOOLEAN]
        /\ overtaken' \in SUBSET Keys
    BY <1>6, <1>t DEF TypeOK, FlushWrite
  <2>9. /\ batch' \in [Runs -> SUBSET Sources] /\ read' \in [Runs -> [Sources -> Contents \union {Unknown}]]
        /\ used' \in [Runs -> [Sources -> Rules]] /\ plan' \in [Runs -> [Sources -> Decisions]]
    BY <1>6, <1>t, Bounds DEF TypeOK, FlushWrite, EndFlush
  <2>10. QED
    BY <1>6, <1>t, <2>2, <2>3, <2>4, <2>5, <2>7, <2>8, <2>9 DEF TypeOK, FlushWrite, MemoryType
<1>7. ASSUME NEW r \in Runs, FlushRejected(r) \/ FinishRun(r) \/ CrashRun(r) PROVE TypeOK'
  <2>1. EndRun(r)
    BY <1>7 DEF FlushRejected, FinishRun, CrashRun
  <2>2. status' \in [Runs -> {"none", "RUNNING", "SUCCESS", "PARTIAL_SUCCESS"}]
    BY <1>7, <1>t DEF TypeOK, FlushRejected, FinishRun, CrashRun
  <2>3. QED
    BY <1>t, <2>1, <2>2, TypeEndRun
<1>8. ASSUME NEW x \in Rescorers, StartRescore(x) PROVE TypeOK'
  <2>1. MemoryType'
    BY <1>8, <1>t, TypeMemory, Bounds DEF StartRescore
  <2>2. rpc' \in [Rescorers -> {"idle", "scan", "score"}] /\ quiet' \in [Procs -> BOOLEAN]
    BY <1>8, <1>t DEF TypeOK, StartRescore
  <2>3. QED
    BY <1>8, <1>t, <2>1, <2>2 DEF TypeOK, StartRescore, MemoryType
<1>9. ASSUME NEW x \in Rescorers, ScanScores(x) PROVE TypeOK'
  <2>1. \A k \in Keys : (IF Scannable(k) THEN value[k] ELSE NoValue) \in Good \union {NoValue}
    BY DEF Scannable
  <2>2. scan' \in [Rescorers -> [Keys -> Good \union {NoValue}]]
    BY <1>9, <1>t, <2>1 DEF TypeOK, ScanScores
  <2>3. rpc' \in [Rescorers -> {"idle", "scan", "score"}]
    BY <1>9, <1>t DEF TypeOK, ScanScores
  <2>4. QED
    BY <1>9, <1>t, <2>2, <2>3 DEF TypeOK, ScanScores
<1>10. ASSUME NEW x \in Rescorers, NEW k \in Keys, RescoreRow(x, k) PROVE TypeOK'
  <2>1. x \in Procs /\ KpiOf[k] \in Kpis /\ resolve_rule(x, k) \in Rules
    BY RulesFound, Bounds
  <2>2. MemoryType'
    BY <1>10, <1>t, <2>1, TypeMemory DEF RescoreRow
  <2>3. /\ due' = due \/ due' = [due EXCEPT ![x] = [due[x] EXCEPT ![k] = resolve_rule(x, k)]]
        /\ scan' = scan \/ scan' = [scan EXCEPT ![x] = [scan[x] EXCEPT ![k] = NoValue]]
        /\ gone' = gone \/ gone' = [gone EXCEPT ![x] = gone[x] \ {k}]
    BY <1>10 DEF RescoreRow
  <2>4. /\ due \in [Rescorers -> [Keys -> Rules]] /\ due[x] \in [Keys -> Rules]
        /\ scan \in [Rescorers -> [Keys -> Good \union {NoValue}]] /\ scan[x] \in [Keys -> Good \union {NoValue}]
        /\ gone \in [Rescorers -> SUBSET Keys] /\ gone[x] \subseteq Keys
    BY <1>t DEF TypeOK
  <2>5. /\ [due[x] EXCEPT ![k] = resolve_rule(x, k)] \in [Keys -> Rules]
        /\ [scan[x] EXCEPT ![k] = NoValue] \in [Keys -> Good \union {NoValue}]
    BY <2>1, <2>4
  <2>6. due' \in [Rescorers -> [Keys -> Rules]]
    BY <2>3, <2>4, <2>5
  <2>7. scan' \in [Rescorers -> [Keys -> Good \union {NoValue}]]
    BY <2>3, <2>4, <2>5
  <2>8. gone' \in [Rescorers -> SUBSET Keys]
    BY <2>3, <2>4
  <2>9. QED
    BY <1>10, <1>t, <2>2, <2>6, <2>7, <2>8 DEF TypeOK, RescoreRow, MemoryType
<1>11. ASSUME NEW x \in Rescorers, RescoreFlush(x) PROVE TypeOK'
  <2>1. score' \in [Keys -> Scores \union {NoScore}] /\ overtaken' \in SUBSET Keys
    <3>1. ASSUME NEW k \in Batch(x) PROVE k \in Keys /\ Rescored(x, k) \in Scores
      BY ScoreRescored
    <3>2. score' = [k \in Keys |-> IF k \in Batch(x) \ gone[x] THEN Rescored(x, k) ELSE score[k]]
      BY <1>11 DEF RescoreFlush
    <3>3. overtaken' \subseteq overtaken \union Batch(x)
      BY <1>11 DEF RescoreFlush
    <3>4. score' \in [Keys -> Scores \union {NoScore}]
      BY <1>t, <3>1, <3>2 DEF TypeOK
    <3>5. QED
      BY <1>t, <3>1, <3>3, <3>4 DEF TypeOK
  <2>2. /\ scan' \in [Rescorers -> [Keys -> Good \union {NoValue}]]
        /\ due' \in [Rescorers -> [Keys -> Rules]] /\ gone' \in [Rescorers -> SUBSET Keys]
    BY <1>11, <1>t, Bounds DEF TypeOK, RescoreFlush
  <2>3. MemoryType' /\ quiet' \in [Procs -> BOOLEAN]
    BY <1>11, <1>t, TypeMemory, Bounds DEF TypeOK, RescoreFlush
  <2>4. QED
    BY <1>11, <1>t, <2>1, <2>2, <2>3 DEF TypeOK, RescoreFlush, MemoryType
<1>12. ASSUME NEW x \in Rescorers, EndRescore(x) PROVE TypeOK'
  <2>1. MemoryType'
    BY <1>12, <1>t, TypeMemory, Bounds DEF EndRescore
  <2>2. /\ rpc' \in [Rescorers -> {"idle", "scan", "score"}] /\ quiet' \in [Procs -> BOOLEAN]
        /\ scan' \in [Rescorers -> [Keys -> Good \union {NoValue}]]
        /\ due' \in [Rescorers -> [Keys -> Rules]] /\ gone' \in [Rescorers -> SUBSET Keys]
    BY <1>12, <1>t, Bounds DEF TypeOK, EndRescore
  <2>3. QED
    BY <1>12, <1>t, <2>1, <2>2 DEF TypeOK, EndRescore, MemoryType
<1>13. CASE UNCHANGED vars
  BY <1>13, <1>t DEF TypeOK, vars
<1>14. QED
  BY <1>1, <1>2, <1>3, <1>4, <1>5, <1>6, <1>7, <1>8, <1>9, <1>10, <1>11, <1>12, <1>13 DEF Next

-----------------------------------------------------------------------------
(* What a step may do to the tables.                                       *)

\* Rows are only written by a flush.
LEMMA RowStep ==
  ASSUME [Next]_vars
  PROVE  UNCHANGED <<owner, value, issues, orphans>> \/ \E r \in Runs : FlushWrite(r)
<1> USE DEF worldVars, rowVars, runVars, rescoreVars, ruleVars
<1>1. CASE (\E q \in Kpis : PublishRule(q)) \/ \E s \in Sources : Correct(s)
  BY <1>1 DEF PublishRule, Correct
<1>2. ASSUME NEW r \in Runs, StartRun(r) \/ Fetch(r) \/ FlushSelect(r)
      PROVE  UNCHANGED <<owner, value, issues, orphans>>
  BY <1>2 DEF StartRun, Fetch, FlushSelect
<1>3. ASSUME NEW r \in Runs, FlushRejected(r) \/ FinishRun(r) \/ CrashRun(r)
      PROVE  UNCHANGED <<owner, value, issues, orphans>>
  BY <1>3 DEF FlushRejected, FinishRun, CrashRun, EndRun
<1>4. ASSUME NEW x \in Rescorers, StartRescore(x) \/ ScanScores(x) \/ RescoreFlush(x) \/ EndRescore(x)
                              \/ \E k \in Keys : RescoreRow(x, k)
      PROVE  UNCHANGED <<owner, value, issues, orphans>>
  BY <1>4 DEF StartRescore, ScanScores, RescoreRow, RescoreFlush, EndRescore
<1>5. CASE UNCHANGED vars
  BY <1>5 DEF vars
<1>6. QED
  BY <1>1, <1>2, <1>3, <1>4, <1>5 DEF Next

\* Scores are written by a flush of either kind.
LEMMA ScoreStep ==
  ASSUME [Next]_vars
  PROVE  \/ UNCHANGED <<owner, value, score, overtaken, unruled>>
         \/ \E r \in Runs : FlushWrite(r)
         \/ \E x \in Rescorers : RescoreFlush(x)
<1> USE DEF worldVars, rowVars, runVars, rescoreVars, ruleVars
<1>1. CASE (\E q \in Kpis : PublishRule(q)) \/ \E s \in Sources : Correct(s)
  BY <1>1 DEF PublishRule, Correct
<1>2. ASSUME NEW r \in Runs, StartRun(r) \/ Fetch(r) \/ FlushSelect(r)
      PROVE  UNCHANGED <<owner, value, score, overtaken, unruled>>
  BY <1>2 DEF StartRun, Fetch, FlushSelect
<1>3. ASSUME NEW r \in Runs, FlushRejected(r) \/ FinishRun(r) \/ CrashRun(r)
      PROVE  UNCHANGED <<owner, value, score, overtaken, unruled>>
  BY <1>3 DEF FlushRejected, FinishRun, CrashRun, EndRun
<1>4. ASSUME NEW x \in Rescorers, StartRescore(x) \/ ScanScores(x) \/ EndRescore(x)
                              \/ \E k \in Keys : RescoreRow(x, k)
      PROVE  UNCHANGED <<owner, value, score, overtaken, unruled>>
  BY <1>4 DEF StartRescore, ScanScores, RescoreRow, EndRescore
<1>5. CASE UNCHANGED vars
  BY <1>5 DEF vars
<1>6. QED
  BY <1>1, <1>2, <1>3, <1>4, <1>5 DEF Next

LEMMA ProblemsStep == ASSUME IInv, [Next]_vars PROVE ProblemsReported'
<1>1. CASE UNCHANGED <<owner, value, issues, orphans>>
  BY <1>1 DEF IInv, TablesAgree, ProblemsReported
<1>2. ASSUME NEW r \in Runs, FlushWrite(r) PROVE ProblemsReported'
  <2> SUFFICES ASSUME NEW k \in Keys, value'[k] \in Bad PROVE value'[k] \in issues'[k]
    BY DEF ProblemsReported
  <2>1. CASE k \in Loaded(r)
    <3>1. value'[k] = NewValue(r, k) /\ issues'[k] = issues[k] \union NewIssues(r, k)
      BY <1>2, <2>1 DEF FlushWrite
    <3>2. NewIssues(r, k) = {NewValue(r, k)}
      BY <3>1 DEF NewIssues
    <3>3. QED
      BY <3>1, <3>2
  <2>2. CASE k \notin Loaded(r)
    BY <1>2, <2>2 DEF FlushWrite, IInv, TablesAgree, ProblemsReported
  <2>3. QED
    BY <2>1, <2>2
<1>3. QED
  BY <1>1, <1>2, RowStep

LEMMA ScoresStep == ASSUME IInv, [Next]_vars PROVE ScoresMatchRows'
<1>s. ScoresMatchRows
  BY DEF IInv, TablesAgree
<1>1. CASE UNCHANGED <<owner, value, score, overtaken, unruled>>
  BY <1>1, <1>s DEF ScoresMatchRows
<1>2. ASSUME NEW r \in Runs, FlushWrite(r) PROVE ScoresMatchRows'
  <2> SUFFICES ASSUME NEW k \in Keys
               PROVE  /\ score'[k] # NoScore => value'[k] \in Good
                      /\ value'[k] \in Good /\ k \notin unruled' => score'[k] # NoScore
                      /\ score'[k] # NoScore /\ k \notin overtaken' => score'[k].value = value'[k]
    BY DEF ScoresMatchRows
  <2>1. CASE k \in Loaded(r)
    <3>1. value'[k] = NewValue(r, k) /\ score'[k] = NewScore(r, k)
      BY <1>2, <2>1 DEF FlushWrite
    <3>2. Unruled(r, k) => k \in unruled'
      BY <1>2, <2>1 DEF FlushWrite
    <3>3. QED
      BY <1>2, <2>1, <3>1, <3>2, ScoreWritten DEF FlushWrite
  <2>2. CASE k \notin Loaded(r)
    BY <1>2, <2>2, <1>s DEF FlushWrite, ScoresMatchRows
  <2>3. QED
    BY <2>1, <2>2
<1>3. ASSUME NEW x \in Rescorers, RescoreFlush(x) PROVE ScoresMatchRows'
  <2> DEFINE K == Batch(x) \ gone[x]
  <2>1. /\ score' = [k \in Keys |-> IF k \in K THEN Rescored(x, k) ELSE score[k]]
        /\ overtaken' = (overtaken \ K) \union {k \in K : scan[x][k] # value[k]}
        /\ value' = value /\ unruled' = unruled
    BY <1>3 DEF RescoreFlush
  <2>2. ASSUME NEW k \in K PROVE /\ Rescored(x, k) # NoScore /\ value[k] \in Good /\ k \in Keys
                                 /\ Rescored(x, k).value = scan[x][k]
    <3>1. k \in Keys /\ scan[x][k] # NoValue /\ k \notin gone[x]
      BY ScoreRescored
    <3>2. value[k] \in Good
      BY <1>s, <3>1 DEF IInv, ScanShape, ScoresMatchRows
    <3>3. QED
      BY <3>1, <3>2, ScoreRescored
  <2>3. QED
    BY <1>s, <2>1, <2>2 DEF ScoresMatchRows
<1>4. QED
  BY <1>1, <1>2, <1>3, ScoreStep

\* Every raw record of a flush is kept or rejected, none is both.
LEMMA FlushCounts ==
  ASSUME IInv, NEW r \in Runs, pc[r] = "write"
  PROVE  /\ Cardinality(Kept(r)) \in Nat /\ Cardinality(Rejected(r)) \in Nat
         /\ Cardinality(Kept(r)) + Cardinality(Rejected(r)) = Cardinality(batch[r])
<1>1. batch[r] \in SUBSET Sources
  BY Typed
<1>2. \A s \in batch[r] : plan[r][s] \in Decisions \ {"none"}
  BY <1>1, Typed DEF IInv, BatchShape
<1>3. Kept(r) \union Rejected(r) = batch[r] /\ Kept(r) \intersect Rejected(r) = {}
  BY <1>2 DEF Kept, Rejected, Written, Inserted, Updated, Decisions
<1>4. /\ IsFiniteSet(Kept(r)) /\ IsFiniteSet(Rejected(r))
      /\ Cardinality(Kept(r)) \in Nat /\ Cardinality(Rejected(r)) \in Nat
  BY <1>1, <1>3, BatchFinite
<1>5. QED
  BY <1>3, <1>4, FS_Union, FS_EmptySet

Counters == <<success, errors, skipped, batch, pos>>

\* The counters of a run change as it fetches, flushes and ends.
LEMMA CountersStep ==
  ASSUME [Next]_vars
  PROVE  UNCHANGED Counters \/ \E r \in Runs : Fetch(r) \/ FlushWrite(r) \/ EndRun(r)
<1> USE DEF Counters, worldVars, rowVars, runVars, rescoreVars, ruleVars
<1>1. CASE (\E q \in Kpis : PublishRule(q)) \/ \E s \in Sources : Correct(s)
  BY <1>1 DEF PublishRule, Correct
<1>2. ASSUME NEW r \in Runs, StartRun(r) \/ FlushSelect(r) PROVE UNCHANGED Counters
  BY <1>2 DEF StartRun, FlushSelect
<1>3. ASSUME NEW r \in Runs, FlushRejected(r) \/ FinishRun(r) \/ CrashRun(r) PROVE EndRun(r)
  BY <1>3 DEF FlushRejected, FinishRun, CrashRun
<1>4. ASSUME NEW x \in Rescorers, StartRescore(x) \/ ScanScores(x) \/ RescoreFlush(x) \/ EndRescore(x)
                              \/ \E k \in Keys : RescoreRow(x, k)
      PROVE  UNCHANGED Counters
  BY <1>4 DEF StartRescore, ScanScores, RescoreRow, RescoreFlush, EndRescore
<1>5. CASE UNCHANGED vars
  BY <1>5 DEF vars
<1>6. QED
  BY <1>1, <1>2, <1>3, <1>4, <1>5 DEF Next

LEMMA CountsStep == ASSUME IInv, [Next]_vars PROVE CountsAddUp'
<1> DEFINE Sum(q) == success[q] + errors[q] + skipped[q] + Cardinality(batch[q])
<1>t. /\ success \in [Runs -> Nat] /\ errors \in [Runs -> Nat] /\ skipped \in [Runs -> Nat]
      /\ batch \in [Runs -> SUBSET Sources] /\ pos \in [Runs -> 1 .. NumSources + 1]
  BY DEF IInv, TablesAgree, TypeOK
<1>c. ASSUME NEW q \in Runs
      PROVE  /\ success[q] + errors[q] + skipped[q] + Cardinality(batch[q]) = pos[q] - 1
             /\ success[q] \in Nat /\ errors[q] \in Nat /\ skipped[q] \in Nat /\ pos[q] \in Nat
             /\ IsFiniteSet(batch[q]) /\ Cardinality(batch[q]) \in Nat
  <2>1. IsFiniteSet(batch[q]) /\ Cardinality(batch[q]) \in Nat
    BY <1>t, BatchFinite
  <2>2. success[q] \in Nat /\ errors[q] \in Nat /\ skipped[q] \in Nat /\ pos[q] \in Nat
    BY <1>t, Bounds
  <2>3. success[q] + errors[q] + skipped[q] + Cardinality(batch[q]) = pos[q] - 1
    BY DEF IInv, TablesAgree, CountsAddUp
  <2>4. QED
    BY <2>1, <2>2, <2>3
<1> SUFFICES ASSUME NEW q \in Runs
             PROVE  success'[q] + errors'[q] + skipped'[q] + Cardinality(batch'[q]) = pos'[q] - 1
  BY DEF CountsAddUp
<1>1. CASE UNCHANGED Counters
  BY <1>1, <1>c DEF Counters
<1>2. ASSUME NEW r \in Runs, r # q, Fetch(r) \/ FlushWrite(r) \/ EndRun(r)
      PROVE  /\ success'[q] = success[q] /\ errors'[q] = errors[q] /\ skipped'[q] = skipped[q]
             /\ batch'[q] = batch[q] /\ pos'[q] = pos[q]
  <2>1. CASE Fetch(r)
    BY <1>2, <1>t, <2>1 DEF Fetch
  <2>2. CASE FlushWrite(r)
    BY <1>2, <1>t, <2>2 DEF FlushWrite, EndFlush
  <2>3. CASE EndRun(r)
    BY <1>2, <1>t, <2>3 DEF EndRun, EndFlush
  <2>4. QED
    BY <1>2, <2>1, <2>2, <2>3
<1>3. CASE Fetch(q)
  <2>1. /\ success'[q] = success[q] /\ skipped'[q] = skipped[q] /\ pos'[q] = pos[q] + 1
    BY <1>3, <1>t DEF Fetch
  <2>2. CASE errors'[q] = errors[q] + 1 /\ batch'[q] = batch[q]
    BY <1>c, <2>1, <2>2
  <2>3. CASE errors'[q] = errors[q] /\ batch'[q] = batch[q] \union {pos[q]}
    <3>1. pos[q] \notin batch[q]
      BY <1>c DEF IInv, BatchShape
    <3>2. Cardinality(batch'[q]) = Cardinality(batch[q]) + 1
      BY <1>c, <2>3, <3>1, FS_AddElement
    <3>3. QED
      BY <1>c, <2>1, <2>3, <3>2
  <2>4. QED
    BY <1>3, <1>t, <2>2, <2>3 DEF Fetch
<1>4. CASE FlushWrite(q)
  <2>1. pc[q] = "write"
    BY <1>4 DEF FlushWrite
  <2>2. /\ success'[q] = success[q] + Cardinality(Kept(q)) /\ errors'[q] = errors[q]
        /\ skipped'[q] = skipped[q] + Cardinality(Rejected(q)) /\ pos'[q] = pos[q] /\ batch'[q] = {}
    BY <1>4, <1>t DEF FlushWrite, EndFlush
  <2>3. QED
    BY <1>c, <2>1, <2>2, FlushCounts, FS_EmptySet
<1>5. CASE EndRun(q)
  <2>1. /\ success'[q] = 0 /\ errors'[q] = 0 /\ skipped'[q] = 0 /\ pos'[q] = 1 /\ batch'[q] = {}
    BY <1>5, <1>t DEF EndRun, EndFlush
  <2>2. QED
    BY <2>1, FS_EmptySet
<1>6. QED
  <2>1. ASSUME NEW r \in Runs, Fetch(r) \/ FlushWrite(r) \/ EndRun(r)
        PROVE  success'[q] + errors'[q] + skipped'[q] + Cardinality(batch'[q]) = pos'[q] - 1
    <3>1. CASE r # q
      BY <1>2, <1>c, <2>1, <3>1
    <3>2. CASE r = q
      BY <1>3, <1>4, <1>5, <2>1, <3>2
    <3>3. QED
      BY <3>1, <3>2
  <2>2. QED
    BY <1>1, <2>1, CountersStep

-----------------------------------------------------------------------------
(* Runs and rows.                                                          *)

\* After a flush the source records it has written have their rows.
LEMMA FlushOwners ==
  ASSUME IInv, NEW r \in Runs, FlushWrite(r), NEW k \in Keys
  PROVE  /\ owner'[k] # NoSource =>
              \/ owner'[k] = owner[k]
              \/ /\ owner[k] = NoSource /\ owner'[k] \in Inserted(r) /\ KeyOf(r, owner'[k]) = k
                 /\ \A j \in Keys : owner[j] # owner'[k]
         /\ owner[k] # NoSource => owner'[k] = owner[k]
         /\ \/ owner'[k] = owner[k] /\ value'[k] = value[k]
            \/ /\ owner'[k] \in batch[r] /\ KeyOf(r, owner'[k]) = k
               /\ value'[k] = read[r][owner'[k]].value
<1>1. CASE k \in Loaded(r)
  <2>1. PICK s \in batch[r] :
           /\ KeyOf(r, s) = k /\ Writer(r, k) = s /\ NewValue(r, k) = read[r][s].value
           /\ \/ s \in Inserted(r) /\ owner[k] = NoSource
              \/ s \in Updated(r) /\ owner[k] = s
    BY <1>1, LoadedRow DEF FlushWrite
  <2>2. owner'[k] = s /\ value'[k] = NewValue(r, k)
    BY <1>1, <2>1 DEF FlushWrite
  <2>3. s \in Inserted(r) => \A j \in Keys : owner[j] # s
    BY DEF FlushWrite, SourceTaken
  <2>4. QED
    BY <2>1, <2>2, <2>3
<1>2. CASE k \notin Loaded(r)
  BY <1>2 DEF FlushWrite
<1>3. QED
  BY <1>1, <1>2

LEMMA OwnersStep == ASSUME IInv, [Next]_vars PROVE OneRowPerSource'
<1>1. CASE UNCHANGED <<owner, value, issues, orphans>>
  BY <1>1 DEF IInv, OneRowPerSource
<1>2. ASSUME NEW r \in Runs, FlushWrite(r) PROVE OneRowPerSource'
  <2> SUFFICES ASSUME NEW j \in Keys, NEW k \in Keys, owner'[j] = owner'[k], owner'[j] # NoSource
               PROVE  j = k
    BY DEF OneRowPerSource
  <2>1. CASE owner'[j] = owner[j] /\ owner'[k] = owner[k]
    BY <2>1 DEF IInv, OneRowPerSource
  <2>2. QED
    BY <1>2, <2>1, FlushOwners
<1>3. QED
  BY <1>1, <1>2, RowStep

\* A row never changes hands.
LEMMA OwnerKept ==
  ASSUME IInv, [Next]_vars, NEW k \in Keys, owner[k] # NoSource
  PROVE  owner'[k] = owner[k]
<1>1. CASE UNCHANGED <<owner, value, issues, orphans>>
  BY <1>1
<1>2. CASE \E r \in Runs : FlushWrite(r)
  BY <1>2, FlushOwners
<1>3. QED
  BY <1>1, <1>2, RowStep

\* What a source record has reported stays reported.
LEMMA ReportStep ==
  ASSUME IInv, [Next]_vars, NEW s \in Sources
  PROVE  content'[s] \in reported'[s] /\ reported[s] \subseteq reported'[s]
<1>s. content[s] \in reported[s]
  BY DEF IInv, BatchShape
<1> USE DEF worldVars, rowVars, runVars, rescoreVars, ruleVars
<1>1. ASSUME NEW t \in Sources, Correct(t)
      PROVE  content'[s] \in reported'[s] /\ reported[s] \subseteq reported'[s]
  <2>1. PICK c \in Contents : /\ content' = [content EXCEPT ![t] = c]
                              /\ reported' = [reported EXCEPT ![t] = reported[t] \union {c}]
    BY <1>1 DEF Correct
  <2>2. QED
    BY <1>s, <2>1, Typed
<1>2. ASSUME NEW q \in Kpis, PublishRule(q)
      PROVE  content'[s] \in reported'[s] /\ reported[s] \subseteq reported'[s]
  BY <1>2, <1>s DEF PublishRule
<1>3. ASSUME NEW r \in Runs, StartRun(r) \/ Fetch(r) \/ FlushSelect(r) \/ FlushWrite(r)
      PROVE  content' = content /\ reported' = reported
  BY <1>3 DEF StartRun, Fetch, FlushSelect, FlushWrite
<1>4. ASSUME NEW r \in Runs, FlushRejected(r) \/ FinishRun(r) \/ CrashRun(r)
      PROVE  content' = content /\ reported' = reported
  BY <1>4 DEF FlushRejected, FinishRun, CrashRun, EndRun
<1>5. ASSUME NEW x \in Rescorers, StartRescore(x) \/ ScanScores(x) \/ RescoreFlush(x) \/ EndRescore(x)
                              \/ \E k \in Keys : RescoreRow(x, k)
      PROVE  content' = content /\ reported' = reported
  BY <1>5 DEF StartRescore, ScanScores, RescoreRow, RescoreFlush, EndRescore
<1>6. CASE UNCHANGED vars
  BY <1>6, <1>s DEF vars
<1>7. QED
  BY <1>s, <1>1, <1>2, <1>3, <1>4, <1>5, <1>6 DEF Next

\* Only a run itself changes what it keeps.
RunState(r) == <<pc[r], pos[r], batch[r], read[r], used[r], plan[r], lookup[r]>>

LEMMA OwnStep ==
  ASSUME IInv, [Next]_vars, NEW r \in Runs
  PROVE  \/ UNCHANGED RunState(r)
         \/ StartRun(r) \/ Fetch(r) \/ FlushSelect(r) \/ FlushWrite(r) \/ EndRun(r)
<1> USE DEF RunState, worldVars, rowVars, runVars, rescoreVars, ruleVars
<1>1. CASE (\E q \in Kpis : PublishRule(q)) \/ \E s \in Sources : Correct(s)
  BY <1>1 DEF PublishRule, Correct
<1>p. r \in Procs /\ r \notin Rescorers
  BY Bounds, IngestionAssumption
<1>2. ASSUME NEW q \in Runs, q # r, StartRun(q) PROVE UNCHANGED RunState(r)
  BY <1>2, <1>p, Typed DEF StartRun, LoadRules
<1>3. ASSUME NEW q \in Runs, q # r, Fetch(q) PROVE UNCHANGED RunState(r)
  <2>1. read' = read \/ read' = [read EXCEPT ![q] = [read[q] EXCEPT ![pos[q]] = content[pos[q]]]]
    BY <1>3 DEF Fetch
  <2>2. batch' = batch \/ batch' = [batch EXCEPT ![q] = batch[q] \union {pos[q]}]
    BY <1>3 DEF Fetch
  <2>3. read'[r] = read[r] /\ batch'[r] = batch[r]
    BY <1>3, <2>1, <2>2, Typed
  <2>4. pos'[r] = pos[r] /\ pc' = pc /\ plan' = plan
    BY <1>3, Typed DEF Fetch
  <2>5. used'[r] = used[r] /\ lookup' = lookup
    <3>1. \/ UNCHANGED <<used, ruleVars>>
          \/ \E d : /\ used' = [used EXCEPT ![q] = [used[q] EXCEPT ![pos[q]] = d]]
                    /\ lookup' = lookup
      BY <1>3 DEF Fetch, ScoreRaw, UseRules
    <3>2. QED
      BY <1>3, <3>1, Typed
  <2>6. QED
    BY <2>3, <2>4, <2>5
<1>4. ASSUME NEW q \in Runs, q # r, FlushSelect(q) PROVE UNCHANGED RunState(r)
  BY <1>4, Typed DEF FlushSelect
<1>5. ASSUME NEW q \in Runs, q # r, FlushWrite(q) PROVE UNCHANGED RunState(r)
  BY <1>5, Typed DEF FlushWrite, EndFlush, ExpireRules
<1>6. ASSUME NEW q \in Runs, q # r, EndRun(q) PROVE UNCHANGED RunState(r)
  BY <1>6, <1>p, Typed DEF EndRun, EndFlush, DropRules
<1>7. ASSUME NEW q \in Runs, FlushRejected(q) \/ FinishRun(q) \/ CrashRun(q) PROVE EndRun(q)
  BY <1>7 DEF FlushRejected, FinishRun, CrashRun
<1>8. ASSUME NEW x \in Rescorers, StartRescore(x) \/ ScanScores(x) \/ RescoreFlush(x) \/ EndRescore(x)
                              \/ \E k \in Keys : RescoreRow(x, k)
      PROVE  UNCHANGED RunState(r)
  BY <1>8, <1>p, Typed, Bounds DEF LoadRules, UseRules, ExpireRules, DropRules, StartRescore, ScanScores, RescoreRow, RescoreFlush, EndRescore
<1>9. CASE UNCHANGED vars
  BY <1>9 DEF vars
<1>10. QED
  BY <1>1, <1>2, <1>3, <1>4, <1>5, <1>6, <1>7, <1>8, <1>9 DEF Next

LEMMA BatchStep == ASSUME IInv, [Next]_vars PROVE BatchShape'
<1> DEFINE Shape(r, s) == /\ s < pos[r]
                          /\ read[r][s] \in reported[s] \ {Unknown}
                          /\ pc[r] = "write" =>
                               /\ plan[r][s] # "none"
                               /\ plan[r][s] \in {"update", "same"} => owner[KeyOf(r, s)] = s
<1>1. \A s \in Sources : content'[s] \in reported'[s]
  BY ReportStep
<1> SUFFICES ASSUME NEW r \in Runs
             PROVE  /\ pc'[r] = "idle" => pos'[r] = 1
                    /\ \A s \in batch'[r] : Shape(r, s)'
  BY <1>1 DEF BatchShape
<1>s. /\ pc[r] = "idle" => pos[r] = 1
      /\ \A s \in batch[r] : Shape(r, s)
  BY DEF IInv, BatchShape
<1>2. CASE UNCHANGED RunState(r)
  <2>1. pc'[r] = pc[r] /\ pos'[r] = pos[r] /\ batch'[r] = batch[r] /\ read'[r] = read[r] /\ plan'[r] = plan[r]
    BY <1>2 DEF RunState
  <2>2. ASSUME NEW s \in batch[r] PROVE Shape(r, s)'
    <3>1. s \in Sources /\ KeyOf(r, s) \in Keys /\ s # NoSource
      BY ReadRaw, IngestionAssumption
    <3>2. owner[KeyOf(r, s)] = s => owner'[KeyOf(r, s)] = s
      BY <3>1, OwnerKept
    <3>3. reported[s] \subseteq reported'[s]
      BY <3>1, ReportStep
    <3>4. QED
      BY <1>s, <2>1, <3>2, <3>3 DEF KeyOf
  <2>3. QED
    BY <1>s, <2>1, <2>2
<1>3. CASE StartRun(r)
  BY <1>3, <1>s, Typed DEF StartRun
<1>4. CASE Fetch(r)
  <2>1. /\ pc'[r] = "fetch" /\ pos'[r] = pos[r] + 1 /\ pos[r] \in Sources
        /\ content' = content /\ reported' = reported
    BY <1>4, Typed, Bounds DEF Fetch, worldVars
  <2>2. CASE content[pos[r]] = Unknown
    <3>1. batch' = batch /\ read' = read
      BY <1>4, <2>2 DEF Fetch
    <3>2. \A s \in batch[r] : s \in Nat /\ pos[r] \in Nat
      BY <2>1, Typed DEF Sources
    <3>3. QED
      BY <1>s, <2>1, <3>1, <3>2
  <2>3. CASE content[pos[r]] # Unknown
    <3>1. /\ batch' = [batch EXCEPT ![r] = batch[r] \union {pos[r]}]
          /\ read' = [read EXCEPT ![r] = [read[r] EXCEPT ![pos[r]] = content[pos[r]]]]
      BY <1>4, <2>3 DEF Fetch
    <3>2. batch'[r] = batch[r] \union {pos[r]} /\ batch[r] \subseteq Sources
      BY <3>1, Typed
    <3>3. read'[r] = [read[r] EXCEPT ![pos[r]] = content[pos[r]]] /\ read[r] \in [Sources -> Contents \union {Unknown}]
      BY <3>1, Typed
    <3>4. ASSUME NEW s \in batch[r] PROVE s < pos'[r] /\ read'[r][s] \in reported'[s] \ {Unknown}
      <4>1. s < pos[r] /\ s \in Int /\ pos[r] \in Int /\ s \in Sources
        BY <1>s, <2>1, <3>2 DEF Sources
      <4>2. read'[r][s] = read[r][s]
        BY <3>3, <4>1
      <4>3. QED
        BY <1>s, <2>1, <4>1, <4>2
    <3>5. pos[r] < pos'[r] /\ read'[r][pos[r]] \in reported'[pos[r]] \ {Unknown}
      <4>1. content[pos[r]] \in reported[pos[r]] /\ pos[r] \in Nat
        BY <2>1 DEF Sources, IInv, BatchShape
      <4>2. read'[r][pos[r]] = content[pos[r]]
        BY <2>1, <3>3
      <4>3. QED
        BY <2>1, <2>3, <4>1, <4>2
    <3>6. QED
      BY <2>1, <3>2, <3>4, <3>5
  <2>4. QED
    BY <2>2, <2>3
<1>5. CASE FlushSelect(r)
  <2>1. /\ pc'[r] = "write" /\ UNCHANGED <<pos, batch, read, owner, value, reported>>
        /\ plan'[r] = [s \in Sources |-> IF s \in batch[r] THEN Decide(s, read[r][s]) ELSE "none"]
    BY <1>5, Typed DEF FlushSelect, rowVars
  <2>2. ASSUME NEW s \in batch[r] PROVE Shape(r, s)'
    <3>1. plan'[r][s] = Decide(s, read[r][s])
      BY <2>1, ReadRaw
    <3>2. plan'[r][s] # "none" /\ (plan'[r][s] \in {"update", "same"} => owner[read[r][s].key] = s)
      BY <3>1 DEF Decide
    <3>3. QED
      BY <1>s, <2>1, <3>2 DEF KeyOf
  <2>3. QED
    BY <2>1, <2>2
<1>6. CASE FlushWrite(r)
  BY <1>6, Typed DEF FlushWrite, EndFlush
<1>7. CASE EndRun(r)
  BY <1>7, Typed DEF EndRun, EndFlush
<1>8. QED
  BY <1>2, <1>3, <1>4, <1>5, <1>6, <1>7, OwnStep

-----------------------------------------------------------------------------
(* Rules get newer, and memories of them do not.                           *)

LEMMA RulesNewer ==
  ASSUME IInv, [Next]_vars, NEW k \in Keys
  PROVE  /\ rule[k] \in Nat /\ rule'[k] \in Nat /\ since'[KpiOf[k]] \in Nat
         /\ rule[k] <= rule'[k] /\ rule'[k] <= since'[KpiOf[k]]
<1>t. /\ rule \in [Keys -> Rules] /\ since \in [Kpis -> Rules] /\ KpiOf[k] \in Kpis
      /\ rule[k] \in Nat /\ since[KpiOf[k]] \in Nat /\ rule[k] <= since[KpiOf[k]]
  BY Typed, Bounds DEF IInv, RuleShape
<1> USE DEF worldVars, rowVars, runVars, rescoreVars, ruleVars
<1>1. ASSUME UNCHANGED <<rule, since>>
      PROVE  /\ rule[k] \in Nat /\ rule'[k] \in Nat /\ since'[KpiOf[k]] \in Nat
             /\ rule[k] <= rule'[k] /\ rule'[k] <= since'[KpiOf[k]]
  BY <1>1, <1>t
<1>2. ASSUME NEW q \in Kpis, PublishRule(q)
      PROVE  /\ rule[k] \in Nat /\ rule'[k] \in Nat /\ since'[KpiOf[k]] \in Nat
             /\ rule[k] <= rule'[k] /\ rule'[k] <= since'[KpiOf[k]]
  <2>1. PICK d \in Days : /\ since[q] < d /\ since' = [since EXCEPT ![q] = d]
                          /\ rule' = [j \in Keys |-> IF KpiOf[j] = q /\ d <= Day[j] THEN d ELSE rule[j]]
    BY <1>2 DEF PublishRule
  <2>2. d \in Nat
    BY Bounds
  <2>3. since'[KpiOf[k]] = IF KpiOf[k] = q THEN d ELSE since[KpiOf[k]]
    BY <1>t, <2>1
  <2>4. (rule'[k] = d /\ KpiOf[k] = q) \/ rule'[k] = rule[k]
    BY <2>1
  <2>5. QED
    BY <1>t, <2>1, <2>2, <2>3, <2>4
<1>3. ASSUME NEW s \in Sources, Correct(s) PROVE UNCHANGED <<rule, since>>
  BY <1>3 DEF Correct
<1>4. ASSUME NEW r \in Runs, StartRun(r) \/ Fetch(r) \/ FlushSelect(r) \/ FlushWrite(r)
      PROVE  UNCHANGED <<rule, since>>
  BY <1>4 DEF StartRun, Fetch, FlushSelect, FlushWrite
<1>5. ASSUME NEW r \in Runs, FlushRejected(r) \/ FinishRun(r) \/ CrashRun(r)
      PROVE  UNCHANGED <<rule, since>>
  BY <1>5 DEF FlushRejected, FinishRun, CrashRun, EndRun
<1>6. ASSUME NEW x \in Rescorers, StartRescore(x) \/ ScanScores(x) \/ RescoreFlush(x) \/ EndRescore(x)
                              \/ \E j \in Keys : RescoreRow(x, j)
      PROVE  UNCHANGED <<rule, since>>
  BY <1>6 DEF StartRescore, ScanScores, RescoreRow, RescoreFlush, EndRescore
<1>7. CASE UNCHANGED vars
  BY <1>1, <1>7 DEF vars
<1>8. QED
  BY <1>1, <1>2, <1>3, <1>4, <1>5, <1>6, <1>7 DEF Next

Remembers(p) ==
  \/ /\ lookup'[p] = lookup[p]
     /\ \A k \in Keys : k \in lapsed'[p] => k \in lapsed[p] \/ lookup[p][k] # rule[k]
  \/ lapsed'[p] = {} /\ (lookup'[p] = rule \/ lookup'[p] = NoRules)

LEMMA MemoryOf ==
  ASSUME IInv, NEW p \in Procs, NEW q \in Procs,
         \/ LoadRules(q) \/ ExpireRules(q) \/ DropRules(q) \/ UNCHANGED ruleVars
         \/ \E c \in Kpis : UseRules(q, c)
  PROVE  Remembers(p)
<1>t. lookup \in [Procs -> [Keys -> Rules]] /\ lapsed \in [Procs -> SUBSET Keys]
  BY Typed
<1>1. CASE LoadRules(q)
  BY <1>1, <1>t DEF LoadRules, Remembers
<1>2. CASE ExpireRules(q)
  BY <1>2 DEF ExpireRules, Remembers
<1>3. CASE DropRules(q)
  BY <1>3, <1>t DEF DropRules, Remembers
<1>4. CASE UNCHANGED ruleVars
  BY <1>4 DEF ruleVars, Remembers
<1>5. ASSUME NEW c \in Kpis, UseRules(q, c) PROVE Remembers(p)
  BY <1>5, <1>t DEF UseRules, LapsedOf, Remembers
<1>6. QED
  BY <1>1, <1>2, <1>3, <1>4, <1>5

\* A process loads all rules anew or remembers those it has, but for the ones it finds
\* replaced.
LEMMA MemoryStep == ASSUME IInv, [Next]_vars, NEW p \in Procs PROVE Remembers(p)
<1> USE DEF worldVars, rowVars, runVars, rescoreVars
<1>0. ASSUME UNCHANGED ruleVars PROVE Remembers(p)
  BY <1>0, MemoryOf
<1>1. ASSUME (\E q \in Kpis : PublishRule(q)) \/ \E s \in Sources : Correct(s) PROVE UNCHANGED ruleVars
  BY <1>1 DEF PublishRule, Correct
<1>2. ASSUME NEW r \in Runs, StartRun(r) \/ FlushSelect(r) \/ FlushWrite(r) PROVE Remembers(p)
  <2>1. r \in Procs /\ (LoadRules(r) \/ UNCHANGED ruleVars \/ ExpireRules(r))
    BY <1>2, Bounds DEF StartRun, FlushSelect, FlushWrite
  <2>2. QED
    BY <2>1, MemoryOf
<1>3. ASSUME NEW r \in Runs, Fetch(r) PROVE Remembers(p)
  <2>1. UNCHANGED ruleVars \/ (UseRules(r, KpiOf[content[pos[r]].key]) /\ content[pos[r]] # Unknown)
    BY <1>3 DEF Fetch, ScoreRaw, ruleVars
  <2>2. CASE content[pos[r]] # Unknown /\ UseRules(r, KpiOf[content[pos[r]].key])
    <3>1. content[pos[r]] \in Contents
      BY <1>3, Typed, Bounds DEF Fetch
    <3>2. content[pos[r]].key \in Keys
      BY <2>2, <3>1, IngestionAssumption DEF Raw
    <3>3. KpiOf[content[pos[r]].key] \in Kpis /\ r \in Procs
      BY <3>2, Bounds
    <3>4. QED
      BY <2>2, <3>3, MemoryOf
  <2>3. QED
    BY <1>0, <2>1, <2>2
<1>4. ASSUME NEW r \in Runs, FlushRejected(r) \/ FinishRun(r) \/ CrashRun(r) PROVE Remembers(p)
  <2>1. r \in Procs /\ DropRules(r)
    BY <1>4, Bounds DEF FlushRejected, FinishRun, CrashRun, EndRun
  <2>2. QED
    BY <2>1, MemoryOf
<1>5. ASSUME NEW x \in Rescorers, StartRescore(x) \/ ScanScores(x) \/ RescoreFlush(x) \/ EndRescore(x)
      PROVE  Remembers(p)
  <2>1. x \in Procs /\ (LoadRules(x) \/ UNCHANGED ruleVars \/ ExpireRules(x) \/ DropRules(x))
    BY <1>5, Bounds DEF StartRescore, ScanScores, RescoreFlush, EndRescore
  <2>2. QED
    BY <2>1, MemoryOf
<1>6. ASSUME NEW x \in Rescorers, NEW k \in Keys, RescoreRow(x, k) PROVE Remembers(p)
  <2>1. x \in Procs /\ KpiOf[k] \in Kpis /\ (UseRules(x, KpiOf[k]) \/ UNCHANGED ruleVars)
    BY <1>6, Bounds DEF RescoreRow
  <2>2. QED
    BY <2>1, MemoryOf
<1>7. ASSUME UNCHANGED vars PROVE UNCHANGED ruleVars
  BY <1>7 DEF vars
<1>8. QED
  BY <1>0, <1>1, <1>2, <1>3, <1>4, <1>5, <1>6, <1>7 DEF Next

\* What a run scores without a rule is unruled, and stays so until it is written.
LEMMA UsedStep ==
  ASSUME IInv, [Next]_vars, NEW r \in Runs, NEW s \in Sources
  PROVE  /\ used'[r][s] # NoRule => s \in batch'[r] /\ read'[r][s].value \in Good
         /\ s \in batch'[r] /\ read'[r][s].value \in Good /\ used'[r][s] = NoRule
              => Unruled(r, KeyOf(r, s))'
<1> DEFINE Goal == /\ used'[r][s] # NoRule => s \in batch'[r] /\ read'[r][s].value \in Good
                   /\ s \in batch'[r] /\ read'[r][s].value \in Good /\ used'[r][s] = NoRule
                        => Unruled(r, KeyOf(r, s))'
<1>s. /\ used[r][s] # NoRule => s \in batch[r] /\ read[r][s].value \in Good
      /\ s \in batch[r] /\ read[r][s].value \in Good /\ used[r][s] = NoRule => Unruled(r, KeyOf(r, s))
  BY DEF IInv, RuleShape
<1>p. r \in Procs
  BY Bounds
<1>k. s \in batch[r] => KeyOf(r, s) \in Keys
  BY ReadRaw
<1>1. ASSUME s \in batch'[r] <=> s \in batch[r], read'[r][s] = read[r][s], used'[r][s] = used[r][s], lookup'[r] = lookup[r]
      PROVE  Goal
  <2>1. KeyOf(r, s)' = KeyOf(r, s)
    BY <1>1 DEF KeyOf
  <2>2. ASSUME NEW k \in Keys, lookup[r][k] = NoRule \/ lookup[r][k] # rule[k]
        PROVE  lookup[r][k] = NoRule \/ lookup[r][k] # rule'[k]
    <3>1. lookup[r][k] \in Nat /\ lookup[r][k] <= rule[k]
      BY <1>p, RulesKnown
    <3>2. QED
      BY <2>2, <3>1, RulesNewer
  <2>3. s \in batch[r] /\ Unruled(r, KeyOf(r, s)) => Unruled(r, KeyOf(r, s))'
    BY <1>1, <1>k, <2>1, <2>2 DEF Unruled
  <2>4. QED
    BY <1>1, <1>s, <2>3
<1>2. CASE UNCHANGED RunState(r)
  BY <1>1, <1>2 DEF RunState
<1>3. CASE StartRun(r)
  <2>1. batch' = batch /\ used' = used /\ pos[r] = 1
    BY <1>3 DEF StartRun, IInv, BatchShape
  <2>2. s \notin batch[r]
    <3>1. s \in Nat /\ s >= 1
      BY DEF Sources
    <3>2. QED
      BY <2>1, <3>1 DEF IInv, BatchShape
  <2>3. QED
    BY <1>s, <2>1, <2>2
<1>4. CASE Fetch(r)
  <2>1. pos[r] \in Sources /\ rule' = rule
    BY <1>4, Typed, Bounds DEF Fetch, worldVars
  <2>2. CASE content[pos[r]] = Unknown
    BY <1>1, <1>4, <2>2 DEF Fetch, ruleVars
  <2>3. CASE content[pos[r]] # Unknown
    <3>1. /\ batch' = [batch EXCEPT ![r] = batch[r] \union {pos[r]}]
          /\ read' = [read EXCEPT ![r] = [read[r] EXCEPT ![pos[r]] = content[pos[r]]]]
          /\ ScoreRaw(r, pos[r], content[pos[r]])
      BY <1>4, <2>3 DEF Fetch
    <3>2. batch'[r] = batch[r] \union {pos[r]}
      BY <3>1, Typed
    <3>3. read'[r] = [read[r] EXCEPT ![pos[r]] = content[pos[r]]] /\ DOMAIN read[r] = Sources
      BY <3>1, Typed
    <3>4. content[pos[r]] \in Raw
      BY <2>1, <2>3, Typed, IngestionAssumption
    <3>5. content[pos[r]].key \in Keys
      BY <3>4 DEF Raw
    <3>6. lookup' = lookup
      BY <3>1 DEF ScoreRaw, UseRules, ruleVars
    <3>7. /\ DOMAIN used[r] = Sources
          /\ IF content[pos[r]].value \in Good
             THEN used'[r] = [used[r] EXCEPT ![pos[r]] = resolve_rule(r, content[pos[r]].key)]
             ELSE used'[r] = used[r]
      BY <3>1, Typed DEF ScoreRaw
    <3>8. CASE s # pos[r]
      BY <1>1, <3>2, <3>3, <3>6, <3>7, <3>8
    <3>9. CASE s = pos[r]
      <4>1. read'[r][s] = content[pos[r]] /\ KeyOf(r, s)' = content[pos[r]].key
        BY <2>1, <3>3, <3>9 DEF KeyOf
      <4>2. CASE content[pos[r]].value \in Good
        <5>1. used'[r][s] = resolve_rule(r, content[pos[r]].key)
          BY <2>1, <3>7, <3>9, <4>2
        <5>2. used'[r][s] = NoRule => Unruled(r, content[pos[r]].key)
          BY <1>p, <3>5, <5>1, RulesFound DEF Unruled
        <5>3. Unruled(r, content[pos[r]].key) => Unruled(r, KeyOf(r, s))'
          BY <2>1, <3>6, <4>1 DEF Unruled
        <5>4. QED
          BY <3>2, <3>9, <4>1, <4>2, <5>2, <5>3
      <4>3. CASE content[pos[r]].value \notin Good
        <5>1. used[r][pos[r]] = NoRule
          <6>1. pos[r] \notin batch[r]
            BY <2>1 DEF IInv, BatchShape, Sources
          <6>2. QED
            BY <1>s, <3>9, <6>1
        <5>2. QED
          BY <3>7, <3>9, <4>1, <4>3, <5>1
      <4>4. QED
        BY <4>2, <4>3
    <3>10. QED
      BY <3>8, <3>9
  <2>4. QED
    BY <2>2, <2>3
<1>5. CASE FlushSelect(r)
  BY <1>1, <1>5 DEF FlushSelect, ruleVars
<1>6. CASE FlushWrite(r) \/ EndRun(r)
  <2>1. batch'[r] = {} /\ used'[r][s] = NoRule
    BY <1>6, Typed DEF FlushWrite, EndRun, EndFlush, Unscored
  <2>2. QED
    BY <2>1
<1>7. QED
  BY <1>2, <1>3, <1>4, <1>5, <1>6, OwnStep

LEMMA RuleStep == ASSUME IInv, [Next]_vars PROVE RuleShape'
<1>1. ASSUME NEW p \in Procs, NEW k \in Keys
      PROVE  lookup'[p][k] <= rule'[k] /\ (k \in lapsed'[p] => lookup'[p][k] # rule'[k])
  <2>1. lookup[p][k] \in Nat /\ lookup[p][k] <= rule[k] /\ (k \in lapsed[p] => lookup[p][k] # rule[k])
    BY RulesKnown
  <2>2. NoRules[k] = 0
    BY DEF NoRules, NoRule
  <2>3. Remembers(p)
    BY MemoryStep
  <2>4. CASE /\ lookup'[p] = lookup[p]
             /\ \A j \in Keys : j \in lapsed'[p] => j \in lapsed[p] \/ lookup[p][j] # rule[j]
    <3>1. k \in lapsed'[p] => lookup[p][k] # rule[k]
      BY <2>1, <2>4
    <3>2. QED
      BY <2>1, <2>4, <3>1, RulesNewer
  <2>5. CASE lapsed'[p] = {} /\ (lookup'[p] = rule \/ lookup'[p] = NoRules)
    BY <2>2, <2>5, RulesNewer
  <2>6. QED
    BY <2>3, <2>4, <2>5 DEF Remembers
<1>2. \A k \in Keys : rule'[k] <= since'[KpiOf[k]]
  BY RulesNewer
<1>3. QED
  BY <1>1, <1>2, UsedStep DEF RuleShape

-----------------------------------------------------------------------------
(* Rescorers and rows.                                                     *)

LEMMA ScanStep == ASSUME IInv, [Next]_vars PROVE ScanShape'
<1>s. ScanShape
  BY DEF IInv
<1> USE DEF worldVars, rowVars, runVars, rescoreVars
<1>0. ASSUME UNCHANGED <<rescoreVars, score>> PROVE ScanShape'
  BY <1>0, <1>s DEF ScanShape
<1>1. ASSUME (\E q \in Kpis : PublishRule(q)) \/ \E s \in Sources : Correct(s)
      PROVE  UNCHANGED <<rescoreVars, score>>
  BY <1>1 DEF PublishRule, Correct
<1>2. ASSUME NEW r \in Runs, StartRun(r) \/ Fetch(r) \/ FlushSelect(r)
      PROVE  UNCHANGED <<rescoreVars, score>>
  BY <1>2 DEF StartRun, Fetch, FlushSelect
<1>3. ASSUME NEW r \in Runs, FlushWrite(r) PROVE ScanShape'
  <2>1. /\ rpc' = rpc /\ scan' = scan /\ due' = due
        /\ gone' = [x \in Rescorers |->
             gone[x] \union {k \in Loaded(r) : scan[x][k] # NoValue /\ NewScore(r, k) = NoScore}]
        /\ score' = [k \in Keys |-> IF k \in Loaded(r) THEN NewScore(r, k) ELSE score[k]]
    BY <1>3 DEF FlushWrite
  <2>2. QED
    BY <1>s, <2>1 DEF ScanShape
<1>4. ASSUME NEW r \in Runs, FlushRejected(r) \/ FinishRun(r) \/ CrashRun(r)
      PROVE  UNCHANGED <<rescoreVars, score>>
  BY <1>4 DEF FlushRejected, FinishRun, CrashRun, EndRun
<1>5. ASSUME NEW x \in Rescorers, StartRescore(x) PROVE ScanShape'
  BY <1>5, <1>s, Typed DEF StartRescore, ScanShape
<1>6. ASSUME NEW x \in Rescorers, ScanScores(x) PROVE ScanShape'
  BY <1>6, <1>s, Typed DEF ScanScores, Scannable, ScanShape
<1>7. ASSUME NEW x \in Rescorers, NEW j \in Keys, RescoreRow(x, j) PROVE ScanShape'
  <2>1. rpc' = rpc /\ score' = score /\ rpc[x] = "score" /\ scan[x][j] # NoValue
    BY <1>7 DEF RescoreRow, Pending
  <2>2. CASE /\ scan' = [scan EXCEPT ![x][j] = NoValue] /\ gone' = [gone EXCEPT ![x] = @ \ {j}]
             /\ due' = due
    <3>1. due[x][j] = NoRule
      BY <1>7 DEF RescoreRow, Batch
    <3>2. QED
      BY <1>s, <2>1, <2>2, <3>1, Typed DEF ScanShape
  <2>3. CASE /\ due' = [due EXCEPT ![x][j] = resolve_rule(x, j)] /\ scan' = scan /\ gone' = gone
    BY <1>s, <2>1, <2>3, Typed DEF ScanShape
  <2>4. QED
    BY <1>7, <2>2, <2>3 DEF RescoreRow
<1>8. ASSUME NEW x \in Rescorers, RescoreFlush(x) PROVE ScanShape'
  <2>1. /\ rpc' = rpc
        /\ scan'[x] = [k \in Keys |-> IF k \in Batch(x) THEN NoValue ELSE scan[x][k]]
        /\ due'[x] = NoRules /\ gone'[x] = gone[x] \ Batch(x)
        /\ \A y \in Rescorers : y # x => scan'[y] = scan[y] /\ due'[y] = due[y] /\ gone'[y] = gone[y]
    BY <1>8, Typed DEF RescoreFlush
  <2>2. ASSUME NEW k \in Keys, score[k] # NoScore PROVE score'[k] # NoScore
    BY <1>8, <2>2, ScoreRescored DEF RescoreFlush
  <2>3. \A k \in Keys : NoRules[k] = NoRule
    BY DEF NoRules
  <2>4. QED
    BY <1>s, <2>1, <2>2, <2>3 DEF ScanShape
<1>9. ASSUME NEW x \in Rescorers, EndRescore(x) PROVE ScanShape'
  BY <1>9, <1>s, Typed DEF EndRescore, NoScan, NoRules, ScanShape
<1>10. ASSUME UNCHANGED vars PROVE UNCHANGED <<rescoreVars, score>>
  BY <1>10 DEF vars
<1>11. QED
  BY <1>0, <1>1, <1>2, <1>3, <1>4, <1>5, <1>6, <1>7, <1>8, <1>9, <1>10 DEF Next

RescoreState(x) == <<rpc[x], scan[x], due[x], gone[x], lookup[x], setting, rule, value, score>>

\* What an undisturbed rescorer has done so far.
SoFar(x) ==
  /\ rpc[x] # "idle" /\ lookup[x] = rule /\ gone[x] = {}
  /\ rpc[x] = "score" => \A k \in Keys :
       IF scan[x][k] = NoValue
       THEN score[k] # NoScore /\ ~Skips(k, value[k], rule[k])
              => score[k] = [value |-> value[k], rule |-> rule[k]]
       ELSE scan[x][k] = value[k] /\ due[x][k] \in {NoRule, rule[k]}

\* An undisturbed rescorer finds the rules in force.
LEMMA QuietRule ==
  ASSUME IInv, NEW x \in Rescorers, lookup[x] = rule, NEW k \in Keys
  PROVE  resolve_rule(x, k) = rule[k]
  BY RulesFound, Bounds

LEMMA QuietRow ==
  ASSUME IInv, NEW x \in Rescorers, SoFar(x), NEW j \in Keys, RescoreRow(x, j)
  PROVE  SoFar(x)'
<1>1. /\ UNCHANGED <<setting, rule, value, score, rpc>> /\ rpc[x] = "score" /\ scan[x][j] # NoValue
      /\ lookup' = lookup
  BY DEF RescoreRow, worldVars, rowVars, Pending, UseRules, ruleVars
<1>2. resolve_rule(x, j) = rule[j] /\ scan[x][j] = value[j]
  BY <1>1, QuietRule DEF SoFar
<1>3. Skips(j, value[j], rule[j])' <=> Skips(j, value[j], rule[j])
  BY <1>1 DEF Skips
<1>4. ASSUME NEW k \in Keys, k # j PROVE scan'[x][k] = scan[x][k] /\ due'[x][k] = due[x][k]
  BY <1>4, Typed DEF RescoreRow
<1>5. gone'[x] = {}
  BY Typed DEF SoFar, RescoreRow
<1>6. CASE Skips(j, value[j], rule[j])
  <2>1. scan'[x][j] = NoValue
    BY <1>2, <1>6, Typed DEF RescoreRow
  <2>2. QED
    BY <1>1, <1>4, <1>5, <1>6, <2>1 DEF SoFar, Skips
<1>7. CASE ~Skips(j, value[j], rule[j])
  <2>1. scan' = scan /\ due'[x][j] = rule[j]
    BY <1>2, <1>7, Typed DEF RescoreRow
  <2>2. QED
    BY <1>1, <1>2, <1>4, <1>5, <2>1 DEF SoFar, Skips
<1>8. QED
  BY <1>6, <1>7

LEMMA QuietFlush ==
  ASSUME IInv, NEW x \in Rescorers, SoFar(x), RescoreFlush(x)
  PROVE  SoFar(x)'
<1>1. /\ UNCHANGED <<setting, rule, value, rpc, lookup>> /\ rpc[x] = "score"
      /\ scan'[x] = [k \in Keys |-> IF k \in Batch(x) THEN NoValue ELSE scan[x][k]]
      /\ due'[x] = NoRules /\ gone'[x] = {}
      /\ score' = [k \in Keys |-> IF k \in Batch(x) THEN Rescored(x, k) ELSE score[k]]
  BY Typed DEF SoFar, RescoreFlush, ExpireRules, worldVars
<1>2. ASSUME NEW k \in Batch(x)
      PROVE  scan'[x][k] = NoValue /\ score'[k] = [value |-> value[k], rule |-> rule[k]]
  <2>1. k \in Keys /\ Rescored(x, k) = [value |-> scan[x][k], rule |-> due[x][k]] /\ scan[x][k] # NoValue
    BY ScoreRescored
  <2>2. due[x][k] # NoRule
    BY DEF Batch
  <2>3. scan[x][k] = value[k] /\ due[x][k] = rule[k]
    BY <1>1, <2>1, <2>2 DEF SoFar
  <2>4. QED
    BY <1>1, <2>1, <2>3
<1>3. ASSUME NEW k \in Keys \ Batch(x)
      PROVE  scan'[x][k] = scan[x][k] /\ score'[k] = score[k] /\ due'[x][k] = NoRule
  BY <1>1 DEF NoRules
<1>4. QED
  BY <1>1, <1>2, <1>3 DEF SoFar, Skips

LEMMA QuietScan ==
  ASSUME IInv, NEW x \in Rescorers, SoFar(x), ScanScores(x)
  PROVE  SoFar(x)'
<1>1. /\ UNCHANGED <<setting, rule, value, score, lookup, due, gone>> /\ rpc[x] = "scan" /\ rpc'[x] = "score"
      /\ scan'[x] = [k \in Keys |-> IF Scannable(k) THEN value[k] ELSE NoValue]
  BY Typed DEF ScanScores, worldVars, rowVars, ruleVars
<1>2. ASSUME NEW k \in Keys PROVE due'[x][k] = NoRule
  BY <1>1 DEF IInv, ScanShape
<1>3. ASSUME NEW k \in Keys
      PROVE  IF scan'[x][k] = NoValue THEN score'[k] = NoScore ELSE scan'[x][k] = value'[k]
  <2>1. CASE score[k] # NoScore
    <3>1. value[k] \in Good
      BY <2>1 DEF IInv, TablesAgree, ScoresMatchRows
    <3>2. value[k] # NoValue
      BY <3>1, IngestionAssumption DEF Values
    <3>3. QED
      BY <1>1, <2>1, <3>1, <3>2 DEF Scannable
  <2>2. CASE score[k] = NoScore
    BY <1>1, <2>2 DEF Scannable
  <2>3. QED
    BY <2>1, <2>2
<1>4. gone'[x] = {} /\ lookup'[x] = rule'
  BY <1>1 DEF SoFar
<1>5. QED
  BY <1>1, <1>2, <1>3, <1>4 DEF SoFar

\* A rescorer finds everything it has read as it was, or notices.
LEMMA QuietRescorersStep == ASSUME IInv, [Next]_vars PROVE QuietRescorers'
<1> SUFFICES ASSUME NEW x \in Rescorers, quiet'[x] PROVE SoFar(x)'
  BY DEF QuietRescorers, SoFar
<1>x. x \in Procs /\ x \notin Runs
  BY IngestionAssumption DEF Procs
<1>s. quiet[x] => SoFar(x)
  BY DEF IInv, QuietRescorers, SoFar
<1> DEFINE Same == quiet[x] /\ UNCHANGED RescoreState(x)
<1>0. ASSUME Same PROVE SoFar(x)'
  BY <1>0, <1>s DEF RescoreState, SoFar, Skips
<1> USE DEF worldVars, rowVars, runVars, rescoreVars
<1>1. CASE (\E q \in Kpis : PublishRule(q)) \/ \E s \in Sources : Correct(s)
  BY <1>1, <1>x DEF PublishRule, Correct, Disturbed
<1>2. ASSUME NEW r \in Runs, StartRun(r) PROVE FALSE
  BY <1>2, <1>x DEF StartRun
<1>3. ASSUME NEW r \in Runs, Fetch(r) \/ FlushSelect(r) PROVE Same
  BY <1>3 DEF Fetch, FlushSelect, ScoreRaw, UseRules, ruleVars, RescoreState
<1>4. ASSUME NEW r \in Runs, FlushWrite(r) PROVE FALSE
  BY <1>4, <1>x DEF FlushWrite
<1>5. ASSUME NEW r \in Runs, FlushRejected(r) \/ FinishRun(r) \/ CrashRun(r) PROVE Same
  <2>1. EndRun(r)
    BY <1>5 DEF FlushRejected, FinishRun, CrashRun
  <2>2. quiet[x] /\ lookup'[x] = lookup[x]
    BY <2>1, <1>x, Typed DEF EndRun, DropRules
  <2>3. QED
    BY <2>1, <2>2 DEF EndRun, RescoreState
<1>6. ASSUME NEW y \in Rescorers, StartRescore(y) PROVE SoFar(x)'
  <2>1. CASE y = x
    <3>1. /\ rpc[x] = "idle" /\ rpc'[x] = "scan" /\ lookup'[x] = rule' /\ gone' = gone
      BY <1>6, <1>x, <2>1, Typed DEF StartRescore, LoadRules
    <3>2. gone[x] = {}
      BY <3>1, Typed DEF IInv, ScanShape
    <3>3. QED
      BY <3>1, <3>2 DEF SoFar
  <2>2. CASE y # x
    <3>1. Same
      BY <1>6, <1>x, <2>2, Typed DEF StartRescore, LoadRules, RescoreState
    <3>2. QED
      BY <3>1, <1>0
  <2>3. QED
    BY <2>1, <2>2
<1>7. ASSUME NEW y \in Rescorers, ScanScores(y) PROVE SoFar(x)'
  <2>1. CASE y = x
    BY <1>7, <1>s, <2>1, QuietScan DEF ScanScores
  <2>2. CASE y # x
    <3>1. Same
      BY <1>7, <2>2, Typed DEF ScanScores, ruleVars, RescoreState
    <3>2. QED
      BY <3>1, <1>0
  <2>3. QED
    BY <2>1, <2>2
<1>8. ASSUME NEW y \in Rescorers, NEW k \in Keys, RescoreRow(y, k) PROVE SoFar(x)'
  <2>1. CASE y = x
    BY <1>8, <1>s, <2>1, QuietRow DEF RescoreRow
  <2>2. CASE y # x
    <3>1. Same
      BY <1>8, <2>2, Typed DEF RescoreRow, UseRules, ruleVars, RescoreState
    <3>2. QED
      BY <3>1, <1>0
  <2>3. QED
    BY <2>1, <2>2
<1>9. ASSUME NEW y \in Rescorers, RescoreFlush(y) PROVE SoFar(x)'
  <2>1. y = x /\ quiet[x]
    BY <1>9, <1>x DEF RescoreFlush
  <2>2. QED
    BY <1>9, <1>s, <2>1, QuietFlush
<1>10. ASSUME NEW y \in Rescorers, EndRescore(y) PROVE SoFar(x)'
  <2>1. y # x /\ quiet[x]
    BY <1>10, <1>x, Typed DEF EndRescore
  <2>2. Same
    BY <1>10, <1>x, <2>1, Typed, Bounds DEF EndRescore, DropRules, RescoreState
  <2>3. QED
    BY <2>2, <1>0
<1>11. CASE UNCHANGED vars
  <2>1. Same
    BY <1>11 DEF vars, ruleVars, RescoreState
  <2>2. QED
    BY <2>1, <1>0
<1>12. QED
  BY <1>0, <1>1, <1>2, <1>3, <1>4, <1>5, <1>6, <1>7, <1>8, <1>9, <1>10, <1>11 DEF Next

-----------------------------------------------------------------------------
(* A run that nothing else touches.                                        *)

\* What a flush does with a source record of its batch, when it was decided by
\* what is still so, and with one that it knows nothing of.
LEMMA FlushAccounts ==
  ASSUME IInv, NEW r \in Runs, FlushWrite(r), NEW s \in Sources, content[s] # Unknown,
         s \in batch[r] => read[r][s] = content[s] /\ plan[r][s] = Decide(s, content[s]),
         s \notin batch[r] => Accounted(s)
  PROVE  Accounted(s)'
<1> DEFINE k == content[s].key
<1>1. content[s] \in Raw /\ k \in Keys /\ content[s].value \in Values /\ s # NoSource /\ orphans[s] \in Nat
  <2>1. content[s] \in Raw
    BY Typed, IngestionAssumption
  <2>2. QED
    BY <2>1, Typed, IngestionAssumption DEF Raw
<1>2. content' = content /\ pc[r] = "write"
  BY DEF FlushWrite, worldVars
<1>3. orphans'[s] = IF s \in Rejected(r) THEN orphans[s] + 1 ELSE orphans[s]
  BY DEF FlushWrite
<1>4. /\ owner'[k] = IF k \in Loaded(r) THEN Writer(r, k) ELSE owner[k]
      /\ value'[k] = IF k \in Loaded(r) THEN NewValue(r, k) ELSE value[k]
  BY <1>1 DEF FlushWrite
<1>5. \/ k \notin Loaded(r)
      \/ /\ Writer(r, k) \in batch[r] /\ Writer(r, k) \in Written(r)
         /\ \/ owner[k] = NoSource /\ plan[r][Writer(r, k)] = "insert"
            \/ owner[k] = Writer(r, k) /\ plan[r][Writer(r, k)] = "update"
  BY <1>2, LoadedRow
<1>6. CASE s \notin batch[r]
  <2>1. Accounted(s)
    BY <1>6
  <2>2. CASE owner[k] = s
    <3>1. k \notin Loaded(r)
      BY <1>1, <1>5, <1>6, <2>2
    <3>2. owner'[k] = s /\ value'[k] = content[s].value
      BY <1>4, <2>1, <2>2, <3>1 DEF Accounted
    <3>3. QED
      BY <1>2, <3>2 DEF Accounted
  <2>3. CASE owner[k] # s
    <3>1. owner'[k] # s
      BY <1>4, <1>5, <1>6, <2>3
    <3>2. orphans[s] > 0
      BY <2>1, <2>3 DEF Accounted
    <3>3. orphans'[s] > 0
      BY <1>1, <1>3, <3>2
    <3>4. QED
      BY <1>2, <3>1, <3>3 DEF Accounted
  <2>4. QED
    BY <2>2, <2>3
<1>7. CASE s \in batch[r]
  <2>1. read[r][s] = content[s] /\ plan[r][s] = Decide(s, content[s]) /\ KeyOf(r, s) = k
    BY <1>7 DEF KeyOf
  <2>2. CASE s \in Written(r)
    <3>1. k \in Loaded(r) /\ Writer(r, k) = s
      BY <1>2, <2>1, <2>2, WrittenLoads
    <3>2. NewValue(r, k) = content[s].value
      BY <2>1, <3>1 DEF NewValue
    <3>3. owner'[k] = s /\ value'[k] = content[s].value
      BY <1>4, <3>1, <3>2
    <3>4. QED
      BY <1>2, <3>3 DEF Accounted
  <2>3. CASE s \notin Written(r) /\ plan[r][s] = "same"
    <3>1. owner[k] = s /\ value[k] = content[s].value
      BY <1>1, <2>1, <2>3 DEF Decide
    <3>2. k \notin Loaded(r)
      BY <1>1, <1>5, <2>3, <3>1
    <3>3. QED
      BY <1>2, <1>4, <3>1, <3>2 DEF Accounted
  <2>4. CASE s \notin Written(r) /\ plan[r][s] \in {"insert", "conflict"}
    <3>1. owner[k] # s
      BY <1>1, <2>1, <2>4 DEF Decide
    <3>2. owner'[k] # s
      BY <1>4, <1>5, <2>4, <3>1
    <3>3. s \in Rejected(r)
      BY <1>7, <2>4 DEF Rejected, Written
    <3>4. orphans'[s] > 0
      BY <1>1, <1>3, <3>3
    <3>5. QED
      BY <1>2, <3>2, <3>4 DEF Accounted
  <2>5. QED
    <3>1. plan[r][s] \in {"insert", "conflict", "same", "update"}
      BY <2>1 DEF Decide
    <3>2. plan[r][s] = "update" => s \in Written(r)
      BY <1>7 DEF Written, Updated
    <3>3. QED
      BY <2>2, <2>3, <2>4, <3>1, <3>2
<1>8. QED
  BY <1>6, <1>7

LEMMA QuietRunsStep == ASSUME IInv, [Next]_vars PROVE QuietRuns'
<1> SUFFICES ASSUME NEW r \in Runs, quiet'[r]
             PROVE  /\ Active(r)' /\ \A q \in Runs \ {r} : ~Active(q)'
                    /\ \A s \in batch'[r] :
                         /\ read'[r][s] = content'[s]
                         /\ pc'[r] = "write" => plan'[r][s] = Decide(s, content[s])'
                    /\ \A s \in Sources \ batch'[r] :
                         s < pos'[r] /\ content'[s] # Unknown => Accounted(s)'
  BY DEF QuietRuns
<1>x. r \in Procs /\ r \notin Rescorers
  BY IngestionAssumption DEF Procs
<1>s. quiet[r] =>
        /\ Active(r) /\ \A q \in Runs \ {r} : ~Active(q)
        /\ \A s \in batch[r] :
             /\ read[r][s] = content[s]
             /\ pc[r] = "write" => plan[r][s] = Decide(s, content[s])
        /\ \A s \in Sources \ batch[r] : s < pos[r] /\ content[s] # Unknown => Accounted(s)
  BY DEF IInv, QuietRuns
<1> DEFINE Rows == UNCHANGED <<content, owner, value, orphans>>
           Same == /\ quiet[r] /\ Rows /\ pc' = pc
                   /\ UNCHANGED <<batch[r], read[r], plan[r], pos[r]>>
           Goal == /\ Active(r)' /\ \A q \in Runs \ {r} : ~Active(q)'
                   /\ \A s \in batch'[r] :
                        /\ read'[r][s] = content'[s]
                        /\ pc'[r] = "write" => plan'[r][s] = Decide(s, content[s])'
                   /\ \A s \in Sources \ batch'[r] :
                        s < pos'[r] /\ content'[s] # Unknown => Accounted(s)'
<1>a. ASSUME Rows, NEW s \in Sources
      PROVE  /\ Accounted(s)' <=> Accounted(s)
             /\ Decide(s, content[s])' = Decide(s, content[s])
  BY <1>a DEF Accounted, Decide
<1>b. batch[r] \subseteq Sources
  BY Typed
<1>0. ASSUME Same PROVE Goal
  BY <1>0, <1>a, <1>b, <1>s DEF Active
<1> USE DEF worldVars, rowVars, runVars, rescoreVars, ruleVars
<1>1. CASE (\E q \in Kpis : PublishRule(q)) \/ \E s \in Sources : Correct(s)
  BY <1>1, <1>x DEF PublishRule, Correct, Disturbed
<1>2. ASSUME NEW q \in Runs, StartRun(q) PROVE Goal
  <2>1. q = r /\ \A p \in Runs : ~Active(p)
    BY <1>2, <1>x DEF StartRun
  <2>2. pos[r] = 1 /\ batch[r] = {}
    <3>1. pos[r] = 1
      BY <2>1 DEF Active, IInv, BatchShape
    <3>2. \A s \in batch[r] : s \in Sources /\ s < 1
      BY <1>b, <3>1 DEF IInv, BatchShape
    <3>3. QED
      BY <3>1, <3>2 DEF Sources
  <2>3. pc' = [pc EXCEPT ![r] = "fetch"] /\ pos' = pos /\ batch' = batch
    BY <1>2, <2>1 DEF StartRun
  <2>4. Active(r)' /\ \A p \in Runs \ {r} : ~Active(p)'
    BY <2>1, <2>3, Typed DEF Active
  <2>5. \A s \in Sources : ~(s < pos'[r])
    BY <2>2, <2>3 DEF Sources
  <2>6. QED
    BY <2>2, <2>3, <2>4, <2>5
<1>3. ASSUME NEW q \in Runs, quiet[r] PROVE q = r \/ ~Active(q)
  BY <1>3, <1>s
<1>4. ASSUME NEW q \in Runs, Fetch(q) PROVE Goal
  <2>1. q = r /\ quiet[r] /\ pc[r] = "fetch" /\ Rows /\ pc' = pc
    BY <1>3, <1>4 DEF Fetch, Active
  <2>2. pos'[r] = pos[r] + 1 /\ pos[r] \in Sources
    BY <1>4, <2>1, Typed, Bounds DEF Fetch
  <2>3. Active(r)' /\ \A p \in Runs \ {r} : ~Active(p)'
    BY <1>s, <2>1 DEF Active
  <2>4. \A s \in Sources : s < pos'[r] => s < pos[r] \/ s = pos[r]
    BY <2>2 DEF Sources
  <2>5. CASE content[pos[r]] = Unknown
    <3>1. batch' = batch /\ read' = read
      BY <1>4, <2>1, <2>5 DEF Fetch
    <3>2. QED
      BY <1>a, <1>b, <1>s, <2>1, <2>3, <2>4, <2>5, <3>1
  <2>6. CASE content[pos[r]] # Unknown
    <3>1. /\ batch' = [batch EXCEPT ![r] = batch[r] \union {pos[r]}]
          /\ read' = [read EXCEPT ![r] = [read[r] EXCEPT ![pos[r]] = content[pos[r]]]]
      BY <1>4, <2>1, <2>6 DEF Fetch
    <3>2. batch'[r] = batch[r] \union {pos[r]}
      BY <3>1, Typed
    <3>3. read'[r] = [read[r] EXCEPT ![pos[r]] = content[pos[r]]] /\ read[r] \in [Sources -> Contents \union {Unknown}]
      BY <3>1, Typed
    <3>4. ASSUME NEW s \in batch'[r] PROVE read'[r][s] = content'[s]
      <4>1. CASE s = pos[r]
        BY <2>1, <2>2, <3>3, <4>1
      <4>2. CASE s # pos[r]
        BY <1>b, <1>s, <2>1, <2>2, <3>2, <3>3, <4>2
      <4>3. QED
        BY <4>1, <4>2
    <3>5. QED
      BY <1>a, <1>s, <2>1, <2>3, <2>4, <3>2, <3>4
  <2>7. QED
    BY <2>5, <2>6
<1>5. ASSUME NEW q \in Runs, FlushSelect(q) PROVE Goal
  <2>1. q = r /\ quiet[r] /\ Rows /\ pc[r] = "fetch" /\ pc' = [pc EXCEPT ![r] = "write"]
    BY <1>3, <1>5 DEF FlushSelect, Active
  <2>2. batch' = batch /\ read' = read /\ pos' = pos
    BY <1>5 DEF FlushSelect
  <2>3. Active(r)' /\ \A p \in Runs \ {r} : ~Active(p)'
    BY <1>s, <2>1, Typed DEF Active
  <2>4. plan'[r] = [s \in Sources |-> IF s \in batch[r] THEN Decide(s, read[r][s]) ELSE "none"]
    BY <1>5, <2>1, Typed DEF FlushSelect
  <2>5. ASSUME NEW s \in batch[r] PROVE plan'[r][s] = Decide(s, content[s])'
    BY <1>a, <1>b, <1>s, <2>1, <2>4
  <2>6. QED
    BY <1>a, <1>s, <2>1, <2>2, <2>3, <2>5
<1>6. ASSUME NEW q \in Runs, FlushWrite(q) PROVE Goal
  <2>1. quiet[r]
    BY <1>6, <1>x DEF FlushWrite
  <2>2. q = r
    BY <1>6, <1>s, <2>1 DEF FlushWrite, Active
  <2>3. /\ pc[r] = "write" /\ pc' = [pc EXCEPT ![r] = "fetch"] /\ batch'[r] = {}
        /\ content' = content /\ pos' = pos
    BY <1>6, <2>2, Typed DEF FlushWrite, EndFlush
  <2>4. Active(r)' /\ \A p \in Runs \ {r} : ~Active(p)'
    BY <1>s, <2>1, <2>3, Typed DEF Active
  <2>5. ASSUME NEW s \in Sources, s < pos'[r], content'[s] # Unknown PROVE Accounted(s)'
    BY <1>6, <1>s, <2>1, <2>2, <2>3, <2>5, FlushAccounts
  <2>6. QED
    BY <2>3, <2>4, <2>5
<1>7. ASSUME NEW q \in Runs, FlushRejected(q) \/ FinishRun(q) \/ CrashRun(q) PROVE FALSE
  <2>1. EndRun(q) /\ Active(q)
    BY <1>7 DEF FlushRejected, FinishRun, CrashRun, FeedDone, Active
  <2>2. q # r /\ quiet[r]
    BY <1>x, <2>1, Typed DEF EndRun
  <2>3. QED
    BY <1>s, <2>1, <2>2
<1>8. ASSUME NEW x \in Rescorers, StartRescore(x) \/ ScanScores(x) \/ RescoreFlush(x) \/ EndRescore(x)
                              \/ \E k \in Keys : RescoreRow(x, k)
      PROVE  Same
  <2>1. quiet[r]
    BY <1>8, <1>x, Typed DEF StartRescore, ScanScores, RescoreRow, RescoreFlush, EndRescore
  <2>2. QED
    BY <1>8, <2>1 DEF StartRescore, ScanScores, RescoreRow, RescoreFlush, EndRescore
<1>9. CASE UNCHANGED vars
  <2>1. UNCHANGED <<quiet, content, owner, value, orphans, pc, batch, read, plan, pos>>
    BY <1>9 DEF vars
  <2>2. Same
    BY <2>1
  <2>3. QED
    BY <2>2, <1>0
<1>10. QED
  BY <1>0, <1>1, <1>2, <1>4, <1>5, <1>6, <1>7, <1>8, <1>9 DEF Next

-----------------------------------------------------------------------------
(* The invariant, and what it is for.                                      *)

LEMMA InitInv == Init => IInv
<1> SUFFICES ASSUME Init PROVE IInv
  OBVIOUS
<1>1. /\ content \in [Sources -> Contents] /\ edits \in 0 .. MaxEdits /\ setting \in Settings
      /\ owner \in [Keys -> Sources \union {NoSource}] /\ value \in [Keys -> Values \union {NoValue}]
      /\ score \in [Keys -> Scores \union {NoScore}]
      /\ issues \in [Keys -> SUBSET (Bad \union {"REPROCESSED"})] /\ orphans \in [Sources -> Nat]
  BY Bounds, IngestionAssumption DEF Init
<1>r. /\ since \in [Kpis -> Rules] /\ rule \in [Keys -> Rules]
      /\ \A k \in Keys : rule[k] \in Nat /\ since[KpiOf[k]] \in Nat /\ rule[k] <= since[KpiOf[k]]
  <2>1. since \in [Kpis -> Rules]
    BY IngestionAssumption DEF Init
  <2>2. ASSUME NEW k \in Keys
        PROVE  rule[k] \in Rules /\ since[KpiOf[k]] \in Nat /\ rule[k] <= since[KpiOf[k]]
    <3>1. since[KpiOf[k]] \in Rules /\ since[KpiOf[k]] \in Nat
      BY <2>1, Bounds
    <3>2. rule[k] = since[KpiOf[k]] \/ rule[k] = 0
      BY Bounds DEF Init
    <3>3. QED
      BY <3>1, <3>2, Bounds
  <2>3. rule \in [Keys -> Rules]
    BY <2>2 DEF Init
  <2>4. QED
    BY <2>1, <2>2, <2>3, Bounds
<1>2. /\ started \in 0 .. MaxRuns
      /\ status \in [Runs -> {"none", "RUNNING", "SUCCESS", "PARTIAL_SUCCESS"}]
      /\ pc \in [Runs -> {"idle", "fetch", "write"}] /\ pos \in [Runs -> 1 .. NumSources + 1]
      /\ batch \in [Runs -> SUBSET Sources] /\ used \in [Runs -> [Sources -> Rules]]
      /\ read \in [Runs -> [Sources -> Contents \union {Unknown}]] /\ plan \in [Runs -> [Sources -> Decisions]]
      /\ success \in [Runs -> Nat] /\ errors \in [Runs -> Nat] /\ skipped \in [Runs -> Nat]
  BY Bounds DEF Init
<1>3. /\ rpc \in [Rescorers -> {"idle", "scan", "score"}]
      /\ scan \in [Rescorers -> [Keys -> Good \union {NoValue}]]
      /\ due \in [Rescorers -> [Keys -> Rules]] /\ gone \in [Rescorers -> SUBSET Keys]
      /\ lookup \in [Procs -> [Keys -> Rules]] /\ lapsed \in [Procs -> SUBSET Keys]
      /\ expired \in [Procs -> SUBSET Kpis] /\ quiet \in [Procs -> BOOLEAN]
      /\ overtaken \in SUBSET Keys /\ unruled \in SUBSET Keys
      /\ reported \in [Sources -> SUBSET Contents]
  BY <1>1, Bounds DEF Init
<1>4. TypeOK
  BY <1>1, <1>2, <1>3, <1>r DEF TypeOK
<1>5. ProblemsReported /\ ScoresMatchRows
  BY IngestionAssumption DEF Init, ProblemsReported, ScoresMatchRows, Values
<1>6. CountsAddUp
  BY FS_EmptySet DEF Init, CountsAddUp
<1>7. OneRowPerSource /\ BatchShape /\ ScanShape
  BY <1>1 DEF Init, OneRowPerSource, BatchShape, ScanShape, NoScan, NoRules
<1>8. RuleShape
  BY <1>r DEF Init, RuleShape, NoRules, NoRule, Unscored
<1>9. QuietRuns /\ QuietRescorers
  BY Bounds DEF Init, QuietRuns, QuietRescorers
<1>10. QED
  BY <1>4, <1>5, <1>6, <1>7, <1>8, <1>9 DEF IInv, TablesAgree

LEMMA StepInv == IInv /\ [Next]_vars => IInv'
  BY TypeStep, ProblemsStep, ScoresStep, CountsStep, OwnersStep, BatchStep, RuleStep, ScanStep,
     QuietRunsStep, QuietRescorersStep
     DEF IInv, TablesAgree

\* Every reachable state satisfies the inductive invariant.
THEOREM InvariantCorrect == Spec => []IInv
  BY InitInv, StepInv, PTL DEF Spec

\* Problems agree with the rows, scores with the values they were computed
\* from, and the counters of a run with what it has fetched.
THEOREM TablesAgreeCorrect == Spec => []TablesAgree
<1>1. IInv => TablesAgree
  BY DEF IInv
<1>2. QED
  BY <1>1, InvariantCorrect, PTL

LEMMA QuietRunDone == IInv => RunCatchesUp
<1> SUFFICES ASSUME IInv, NEW r \in Runs, FeedDone(r), quiet[r], NEW s \in Sources, content[s] # Unknown
             PROVE  Accounted(s)
  BY DEF RunCatchesUp
<1>1. batch[r] = {} /\ s < pos[r]
  BY Typed, Bounds DEF FeedDone, Sources
<1>2. QED
  BY <1>1 DEF IInv, QuietRuns

\* A run that nothing else touches has loaded all of the feed.
THEOREM RunCatchesUpCorrect == Spec => []RunCatchesUp
  BY QuietRunDone, InvariantCorrect, PTL

LEMMA QuietRescoreDone == IInv => RescoreCatchesUp
<1> SUFFICES ASSUME IInv, NEW x \in Rescorers, RescoreDone(x), quiet[x], NEW k \in Keys,
                    score[k] # NoScore, ~Skips(k, value[k], rule[k])
             PROVE  score[k] = [value |-> value[k], rule |-> rule[k]]
  BY DEF RescoreCatchesUp
<1>1. rpc[x] = "score" /\ scan[x][k] = NoValue
  BY DEF RescoreDone, Pending
<1>2. QED
  BY <1>1 DEF IInv, QuietRescorers

\* A rescoring that nothing else touches has brought every score up to date.
THEOREM RescoreCatchesUpCorrect == Spec => []RescoreCatchesUp
  BY QuietRescoreDone, InvariantCorrect, PTL

-----------------------------------------------------------------------------
(* The rows implement PerformanceLedger.                                   *)

LEMMA LedgerFlush == ASSUME IInv, OneRowPerSource', NEW r \in Runs, FlushWrite(r) PROVE Ledger!Load
<1>1. reported' = reported /\ pc[r] = "write"
  BY DEF FlushWrite
<1> DEFINE Entry(k) == IF owner[k] = NoSource THEN NoSource ELSE [src |-> owner[k], value |-> value[k]]
<1>2. ASSUME NEW k \in Keys, Entry(k)' # Entry(k)
      PROVE  /\ Entry(k) # NoSource => Entry(k)'.src = Entry(k).src
             /\ [key |-> k, value |-> Entry(k)'.value] \in reported[Entry(k)'.src]
  <2>1. owner[k] # NoSource => owner'[k] = owner[k]
    BY FlushOwners
  <2>2. owner'[k] # NoSource
    BY <1>2, <2>1
  <2>3. Entry(k)'.src = owner'[k] /\ Entry(k)'.value = value'[k]
    BY <2>2
  <2>4. Entry(k) # NoSource => Entry(k)'.src = Entry(k).src
    BY <2>1, <2>3
  <2>5. /\ owner'[k] \in batch[r] /\ KeyOf(r, owner'[k]) = k
        /\ value'[k] = read[r][owner'[k]].value
    BY <1>2, FlushOwners
  <2>6. read[r][owner'[k]] \in Raw
    BY <2>5, ReadRaw
  <2>7. read[r][owner'[k]] \in reported[owner'[k]]
    BY <2>5 DEF IInv, BatchShape
  <2>8. read[r][owner'[k]] = [key |-> k, value |-> value'[k]]
    BY <2>5, <2>6 DEF Raw, KeyOf
  <2>9. QED
    BY <2>3, <2>4, <2>7, <2>8
<1>3. ASSUME NEW j \in Keys, NEW k \in Keys, Entry(j)' # NoSource, Entry(k)' # NoSource,
             Entry(j)'.src = Entry(k)'.src
      PROVE  j = k
  <2>1. owner'[j] # NoSource /\ owner'[k] # NoSource
    BY <1>3
  <2>2. owner'[j] = owner'[k]
    BY <1>3, <2>1
  <2>3. QED
    BY <2>1, <2>2 DEF OneRowPerSource
<1>4. QED
  BY <1>1, <1>2, <1>3 DEF Ledger!Load

LEMMA LedgerStep == ASSUME IInv, [Next]_vars PROVE Ledger!Next
<1>1. CASE UNCHANGED <<owner, value, issues, orphans>>
  BY <1>1, ReportStep DEF Ledger!Next, Ledger!Report
<1>2. ASSUME NEW r \in Runs, FlushWrite(r) PROVE Ledger!Next
  BY <1>2, LedgerFlush, OwnersStep DEF Ledger!Next
<1>3. QED
  BY <1>1, <1>2, RowStep

\* A row never changes hands, and only shows what its source record has said.
THEOREM LedgerKept == Spec => KeepsLedger
<1>1. Init => Ledger!Init
  BY DEF Init, Ledger!Init
<1>2. IInv /\ [Next]_vars => [Ledger!Next]_(Ledger!vars)
  BY LedgerStep
<1>3. QED
  BY <1>1, <1>2, InvariantCorrect, PTL DEF Spec, KeepsLedger, Ledger!Spec
=============================================================================

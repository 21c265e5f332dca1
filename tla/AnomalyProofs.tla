--------------------------- MODULE AnomalyProofs ---------------------------
(***************************************************************************)
(* Proofs about the analysis of anomalies: its attempts and what the       *)
(* anomaly shows of them, for any number of requests, watchdogs, anomalies *)
(* and attempts (module AnomalyClaim); and one attempt from the inside,    *)
(* for any tool calls the model may make, any limits and any length of an  *)
(* anomaly's period (module ToolLoop).                                     *)
(***************************************************************************)
EXTENDS AnomalyClaim, ToolLoop, FiniteSetTheorems, TLAPS

-----------------------------------------------------------------------------
(* Types.                                                                  *)

LEMMA TypeInit == ASSUME Init PROVE TypeOK
  BY AnomalyClaimAssumption DEF Init, TypeOK, InProgress, Final, WorkerStates, Attempts

LEMMA TypeReturn ==
  ASSUME TypeOK, NEW w \in Workers, Return(w)
  PROVE  /\ pc' \in [Workers -> WorkerStates]
         /\ target' \in [Workers -> Anomalies \union {NoAnomaly}]
         /\ attempt' \in [Workers -> 0 .. MaxAttempts]
         /\ stage' \in [Workers -> InProgress \union Final]
<1>1. pc' \in [Workers -> WorkerStates]
  BY DEF Return, TypeOK, WorkerStates
<1>2. target' \in [Workers -> Anomalies \union {NoAnomaly}]
  BY DEF Return, TypeOK
<1>3. attempt' \in [Workers -> 0 .. MaxAttempts]
  BY AnomalyClaimAssumption DEF Return, TypeOK
<1>4. stage' \in [Workers -> InProgress \union Final]
  BY DEF Return, TypeOK, InProgress
<1>5. QED
  BY <1>1, <1>2, <1>3, <1>4

LEMMA TypeWriteRow ==
  ASSUME TypeOK, NEW w \in Workers, NEW s \in InProgress \union Final, WriteRow(w, s)
  PROVE  TypeOK'
<1>1. row' \in [Attempts -> InProgress \union Final \union {"ABSENT"}]
  BY DEF WriteRow, TypeOK
<1>2. stage' \in [Workers -> InProgress \union Final] /\ pc' \in [Workers -> WorkerStates]
  BY DEF WriteRow, TypeOK, WorkerStates
<1>3. QED
  BY <1>1, <1>2 DEF WriteRow, TypeOK, watchdogVars, historyVars

LEMMA FollowsInProgress == \A s : Follows(s) \subseteq InProgress
  BY DEF Follows, InProgress

LEMMA TypeStep == ASSUME TypeOK, [Next]_vars PROVE TypeOK'
<1> USE DEF rowVars, workerVars, watchdogVars, historyVars
<1>1. ASSUME NEW w \in Workers, NEW a \in Anomalies, Request(w, a) PROVE TypeOK'
  <2>1. pc' \in [Workers -> WorkerStates]
    BY <1>1 DEF Request, TypeOK, WorkerStates
  <2>2. target' \in [Workers -> Anomalies \union {NoAnomaly}]
    BY <1>1 DEF Request, TypeOK
  <2>3. QED
    BY <1>1, <2>1, <2>2 DEF Request, TypeOK
<1>2. ASSUME NEW w \in Workers, Claim(w) PROVE TypeOK'
  <2>1. issued + 1 \in 0 .. MaxAttempts /\ issued + 1 \in Attempts
    BY <1>2, AnomalyClaimAssumption DEF Claim, TypeOK, Attempts
  <2>2. row' \in [Attempts -> InProgress \union Final \union {"ABSENT"}]
    BY <1>2, <2>1 DEF Claim, TypeOK, InProgress
  <2>3. of' \in [Attempts -> Anomalies \union {NoAnomaly}]
    BY <1>2, <2>1 DEF Claim, TypeOK
  <2>4. analysisStatus' \in [Anomalies -> InProgress \union Final \union {"NOT_ANALYZED"}]
    BY <1>2, <2>1 DEF Claim, TypeOK, InProgress
  <2>5. current' \in [Anomalies -> 0 .. MaxAttempts]
    BY <1>2, <2>1 DEF Claim, TypeOK
  <2>6. pc' \in [Workers -> WorkerStates] /\ stage' \in [Workers -> InProgress \union Final]
    BY <1>2 DEF Claim, TypeOK, WorkerStates, InProgress
  <2>7. attempt' \in [Workers -> 0 .. MaxAttempts] /\ issued' \in 0 .. MaxAttempts
    BY <1>2, <2>1 DEF Claim, TypeOK
  <2>8. QED
    BY <1>2, <2>2, <2>3, <2>4, <2>5, <2>6, <2>7 DEF Claim, TypeOK
<1>3. ASSUME NEW w \in Workers, ClaimRejected(w) PROVE TypeOK'
  BY <1>3, TypeReturn DEF ClaimRejected, TypeOK
<1>4. ASSUME NEW w \in Workers, Advance(w) PROVE TypeOK'
  BY <1>4, FollowsInProgress, TypeWriteRow DEF Advance
<1>5. ASSUME NEW w \in Workers, AdvanceRefused(w) PROVE TypeOK'
  <2>1. abandoned' \in SUBSET (0 .. MaxAttempts)
    <3>1. attempt[w] \in 0 .. MaxAttempts
      BY DEF TypeOK
    <3>2. QED
      BY <1>5, <3>1 DEF AdvanceRefused, TypeOK
  <2>2. QED
    BY <1>5, <2>1, TypeReturn DEF AdvanceRefused, TypeOK
<1>6. ASSUME NEW w \in Workers, Finish(w) PROVE TypeOK'
  BY <1>6, TypeWriteRow DEF Finish
<1>7. ASSUME NEW w \in Workers, Publish(w) PROVE TypeOK'
  <2>1. analysisStatus' \in [Anomalies -> InProgress \union Final \union {"NOT_ANALYZED"}]
    <3>1. \/ analysisStatus' = analysisStatus
          \/ analysisStatus' = [analysisStatus EXCEPT ![target[w]] = stage[w]]
      BY <1>7 DEF Publish
    <3>2. QED
      BY <3>1 DEF TypeOK
  <2>2. /\ pc' \in [Workers -> WorkerStates]
        /\ target' \in [Workers -> Anomalies \union {NoAnomaly}]
        /\ attempt' \in [Workers -> 0 .. MaxAttempts]
        /\ stage' \in [Workers -> InProgress \union Final]
    <3>1. CASE Return(w)
      BY <3>1, TypeReturn
    <3>2. CASE pc' = [pc EXCEPT ![w] = "run"] /\ UNCHANGED <<target, attempt, stage>>
      BY <3>2 DEF TypeOK, WorkerStates
    <3>3. QED
      BY <1>7, <3>1, <3>2 DEF Publish
  <2>3. QED
    BY <1>7, <2>1, <2>2 DEF Publish, TypeOK
<1>8. ASSUME NEW w \in Workers, Crash(w) PROVE TypeOK'
  <2>1. abandoned' \in SUBSET (0 .. MaxAttempts)
    <3>1. attempt[w] \in 0 .. MaxAttempts /\ abandoned \subseteq 0 .. MaxAttempts
      BY DEF TypeOK
    <3>2. abandoned' \subseteq abandoned \union {attempt[w]}
      BY <1>8 DEF Crash
    <3>3. QED
      BY <3>1, <3>2
  <2>2. QED
    BY <1>8, <2>1, TypeReturn DEF Crash, TypeOK
<1>9. ASSUME NEW d \in Watchdogs, Scan(d) PROVE TypeOK'
  BY <1>9 DEF Scan, TypeOK
<1>10. ASSUME NEW d \in Watchdogs, NEW i \in Attempts, Sweep(d, i) PROVE TypeOK'
  <2>1. row' \in [Attempts -> InProgress \union Final \union {"ABSENT"}]
    <3>1. row' = row \/ row' = [row EXCEPT ![i] = "FAILED"]
      BY <1>10 DEF Sweep
    <3>2. QED
      BY <3>1 DEF TypeOK, Final
  <2>2. owed' \in [Watchdogs -> 0 .. MaxAttempts]
    <3>1. owed' = owed \/ owed' = [owed EXCEPT ![d] = i]
      BY <1>10 DEF Sweep
    <3>2. i \in 0 .. MaxAttempts
      BY AnomalyClaimAssumption DEF Attempts
    <3>3. QED
      BY <3>1, <3>2 DEF TypeOK
  <2>3. candidates' \in [Watchdogs -> SUBSET Attempts]
    BY <1>10 DEF Sweep, TypeOK
  <2>4. swept' \in SUBSET Attempts
    BY <1>10 DEF Sweep, TypeOK
  <2>5. QED
    BY <1>10, <2>1, <2>2, <2>3, <2>4 DEF Sweep, TypeOK
<1>11. ASSUME NEW d \in Watchdogs, ReleaseAnomaly(d) PROVE TypeOK'
  <2>1. analysisStatus' \in [Anomalies -> InProgress \union Final \union {"NOT_ANALYZED"}]
    BY <1>11 DEF ReleaseAnomaly, TypeOK, Final
  <2>2. owed' \in [Watchdogs -> 0 .. MaxAttempts]
    BY <1>11, AnomalyClaimAssumption DEF ReleaseAnomaly, TypeOK
  <2>3. QED
    BY <1>11, <2>1, <2>2 DEF ReleaseAnomaly, TypeOK
<1>12. ASSUME NEW d \in Watchdogs, CrashWatchdog(d) PROVE TypeOK'
  <2>1. abandoned' \in SUBSET (0 .. MaxAttempts)
    <3>1. owed[d] \in 0 .. MaxAttempts /\ abandoned \subseteq 0 .. MaxAttempts
      BY DEF TypeOK
    <3>2. abandoned' \subseteq abandoned \union {owed[d]}
      BY <1>12 DEF CrashWatchdog
    <3>3. QED
      BY <3>1, <3>2
  <2>2. /\ owed' \in [Watchdogs -> 0 .. MaxAttempts]
        /\ candidates' \in [Watchdogs -> SUBSET Attempts]
    BY <1>12, AnomalyClaimAssumption DEF CrashWatchdog, TypeOK
  <2>3. QED
    BY <1>12, <2>1, <2>2 DEF CrashWatchdog, TypeOK
<1>13. CASE Age
  BY <1>13, AnomalyClaimAssumption DEF Age, TypeOK
<1>14. CASE UNCHANGED vars
  BY <1>14 DEF vars, TypeOK
<1>15. QED
  BY <1>1, <1>2, <1>3, <1>4, <1>5, <1>6, <1>7, <1>8, <1>9, <1>10, <1>11, <1>12, <1>13, <1>14
     DEF Next, WorkerStep, WatchdogStep

\* Rows, requests and watchdogs keep their types; in particular no attempt and
\* no anomaly is ever TIMED_OUT or CANCELLED.
THEOREM TypeCorrect == Spec => []TypeOK
<1>1. Init => TypeOK
  BY TypeInit
<1>2. TypeOK /\ [Next]_vars => TypeOK'
  BY TypeStep
<1>3. QED
  BY <1>1, <1>2, PTL DEF Spec

-----------------------------------------------------------------------------
(* The inductive invariant.                                                *)

SInv == WorkerShape /\ ClaimShape /\ RowHonest /\ OneActiveRow /\ StuckOnlyByCrash

\* Two analyzing requests whose attempts are not timed out have two active
\* rows: the index allows one.
LEMMA OneLive == ASSUME TypeOK, SInv PROVE OneLiveAttempt
<1>1. SUFFICES ASSUME NEW v \in Workers, NEW w \in Workers, Analyzing(v), Analyzing(w),
                      target[v] = target[w], attempt[v] \notin swept, attempt[w] \notin swept
               PROVE  v = w
  BY DEF OneLiveAttempt
<1>2. /\ attempt[v] \in Attempts /\ attempt[w] \in Attempts
      /\ of[attempt[v]] = of[attempt[w]]
  BY <1>1, AnomalyClaimAssumption DEF SInv, WorkerShape, Analyzing, Live, TypeOK, Attempts
<1>3. row[attempt[v]] \in InProgress /\ row[attempt[w]] \in InProgress
  BY <1>1 DEF SInv, RowHonest, Analyzing
<1>4. attempt[v] = attempt[w]
  BY <1>2, <1>3 DEF SInv, OneActiveRow
<1>5. QED
  BY <1>1, <1>4 DEF SInv, ClaimShape, Analyzing

LEMMA InvInit == ASSUME Init PROVE SInv
<1> USE AnomalyClaimAssumption DEF Init, SInv, Attempts
<1>1. WorkerShape
  BY DEF WorkerShape, Live
<1>2. ClaimShape
  BY DEF ClaimShape, Live
<1>3. RowHonest /\ OneActiveRow
  BY DEF RowHonest, OneActiveRow, Live, InProgress
<1>4. StuckOnlyByCrash
  BY DEF StuckOnlyByCrash, InProgress
<1>5. QED
  BY <1>1, <1>2, <1>3, <1>4

\* Steps that touch none of what the invariant speaks about.
LEMMA InvCore ==
  ASSUME SInv, UNCHANGED <<rowVars, issued, workerVars, owed, historyVars>>
  PROVE  SInv'
  BY DEF SInv, WorkerShape, ClaimShape, RowHonest, OneActiveRow, StuckOnlyByCrash, Live,
         rowVars, workerVars, historyVars

LEMMA InvRequest ==
  ASSUME TypeOK, SInv, NEW w \in Workers, NEW a \in Anomalies, Request(w, a)
  PROVE  SInv'
<1>1. /\ pc' = [pc EXCEPT ![w] = "read"]
      /\ target' = [target EXCEPT ![w] = a]
      /\ UNCHANGED <<row, of, analysisStatus, current, issued, attempt, stage, owed, swept, abandoned>>
  BY DEF Request, rowVars, watchdogVars, historyVars
<1>2. attempt[w] = 0
  BY DEF Request, SInv, WorkerShape, Live
<1>3. WorkerShape'
  BY <1>1, <1>2 DEF SInv, TypeOK, WorkerShape, Live
<1>4. ClaimShape' /\ RowHonest' /\ OneActiveRow' /\ StuckOnlyByCrash'
  BY <1>1 DEF SInv, ClaimShape, RowHonest, OneActiveRow, StuckOnlyByCrash, Live
<1>5. QED
  BY <1>3, <1>4 DEF SInv

\* A request ends and leaves its attempt behind.
LEMMA InvReturn ==
  ASSUME TypeOK, SInv, NEW w \in Workers, Return(w),
         UNCHANGED <<rowVars, issued, owed, swept>>,
         abandoned \subseteq abandoned',
         attempt[w] # 0 => attempt[w] \in abandoned' \/ row[attempt[w]] \in InProgress
  PROVE  SInv'
<1>1. /\ pc' = [pc EXCEPT ![w] = "idle"]
      /\ target' = [target EXCEPT ![w] = NoAnomaly]
      /\ attempt' = [attempt EXCEPT ![w] = 0]
      /\ stage' = [stage EXCEPT ![w] = "QUEUED"]
      /\ UNCHANGED <<row, of, analysisStatus, current, issued, owed, swept>>
  BY DEF Return, rowVars
<1>2. /\ attempt'[w] = 0 /\ pc'[w] = "idle"
      /\ \A v \in Workers \ {w} : /\ attempt'[v] = attempt[v] /\ pc'[v] = pc[v]
                                  /\ target'[v] = target[v] /\ stage'[v] = stage[v]
  BY <1>1 DEF TypeOK
<1>3. WorkerShape'
  BY <1>1, <1>2 DEF SInv, WorkerShape, Live
<1>4. ClaimShape'
  BY <1>1, <1>2 DEF SInv, ClaimShape, Live
<1>5. RowHonest'
  <2>1. ASSUME NEW v \in Workers, Live(v)', (attempt[v] \notin swept \/ stage[v] \in Final)'
        PROVE  (row[attempt[v]] = stage[v])'
    BY <1>1, <1>2, <2>1 DEF SInv, RowHonest, Live
  <2>2. QED
    BY <2>1 DEF RowHonest
<1>6. OneActiveRow'
  BY <1>1 DEF SInv, OneActiveRow
<1>7. StuckOnlyByCrash'
  <2>1. SUFFICES ASSUME NEW a \in Anomalies, analysisStatus[a] \in InProgress
                 PROVE  \/ row[current[a]] \in InProgress
                        \/ \E v \in Workers : attempt'[v] = current[a]
                        \/ \E d \in Watchdogs : owed[d] = current[a]
                        \/ current[a] \in abandoned'
    BY <1>1 DEF StuckOnlyByCrash
  <2>2. current[a] # 0
    BY <2>1 DEF SInv, ClaimShape, InProgress
  <2>3. QED
    BY <1>2, <2>1, <2>2 DEF SInv, StuckOnlyByCrash
<1>8. QED
  BY <1>3, <1>4, <1>5, <1>6, <1>7 DEF SInv

\* A request writes its attempt's row; the index refuses a second active one.
LEMMA InvWriteRow ==
  ASSUME TypeOK, SInv, NEW w \in Workers, pc[w] = "run",
         NEW s \in InProgress \union Final, WriteRow(w, s),
         s \in InProgress => ~Collides(attempt[w], target[w])
  PROVE  SInv'
<1>1. /\ row' = [row EXCEPT ![attempt[w]] = s]
      /\ stage' = [stage EXCEPT ![w] = s]
      /\ pc' = [pc EXCEPT ![w] = "publish"]
      /\ UNCHANGED <<of, analysisStatus, current, issued, target, attempt, owed, swept, abandoned>>
  BY DEF WriteRow, watchdogVars, historyVars
<1>2. /\ Live(w) /\ attempt[w] \in Attempts /\ attempt[w] <= issued
      /\ of[attempt[w]] = target[w]
  BY AnomalyClaimAssumption DEF SInv, WorkerShape, Live, TypeOK, Attempts
<1>3. /\ row'[attempt[w]] = s
      /\ \A i \in Attempts \ {attempt[w]} : row'[i] = row[i]
      /\ stage'[w] = s /\ pc'[w] = "publish"
      /\ \A v \in Workers \ {w} : stage'[v] = stage[v] /\ pc'[v] = pc[v]
  BY <1>1, <1>2 DEF TypeOK
<1>4. WorkerShape'
  BY <1>1, <1>2, <1>3 DEF SInv, WorkerShape, Live
<1>5. ClaimShape'
  <2>1. \A i \in Attempts : row'[i] = "ABSENT" <=> row[i] = "ABSENT"
    <3>1. s # "ABSENT" /\ row[attempt[w]] # "ABSENT"
      BY <1>2 DEF SInv, ClaimShape, InProgress, Final, TypeOK, Attempts
    <3>2. QED
      BY <1>3, <3>1
  <2>2. QED
    BY <1>1, <2>1 DEF SInv, ClaimShape, Live
<1>6. RowHonest'
  <2>1. ASSUME NEW v \in Workers, Live(v)', (attempt[v] \notin swept \/ stage[v] \in Final)'
        PROVE  (row[attempt[v]] = stage[v])'
    <3>1. CASE v = w
      BY <1>1, <1>3, <3>1
    <3>2. CASE v # w
      <4>1. attempt[v] \in Attempts /\ attempt[v] # attempt[w]
        BY <1>1, <1>2, <2>1, <3>2, AnomalyClaimAssumption DEF SInv, ClaimShape, Live, TypeOK, Attempts
      <4>2. row[attempt[v]] = stage[v]
        BY <1>1, <1>3, <2>1, <3>2 DEF SInv, RowHonest, Live
      <4>3. QED
        BY <1>1, <1>3, <3>2, <4>1, <4>2
    <3>3. QED
      BY <3>1, <3>2
  <2>2. QED
    BY <2>1 DEF RowHonest
<1>7. OneActiveRow'
  <2>1. SUFFICES ASSUME NEW i \in Attempts, NEW j \in Attempts,
                        row'[i] \in InProgress, row'[j] \in InProgress, of[i] = of[j]
                 PROVE  i = j
    BY <1>1 DEF OneActiveRow
  <2>2. CASE i # attempt[w] /\ j # attempt[w]
    BY <1>3, <2>1, <2>2 DEF SInv, OneActiveRow
  <2>3. CASE i = attempt[w]
    BY <1>2, <1>3, <2>1, <2>3 DEF Collides, Indexed
  <2>4. CASE j = attempt[w]
    BY <1>2, <1>3, <2>1, <2>4 DEF Collides, Indexed
  <2>5. QED
    BY <2>2, <2>3, <2>4
<1>8. StuckOnlyByCrash'
  <2>1. SUFFICES ASSUME NEW a \in Anomalies, analysisStatus[a] \in InProgress,
                        current[a] # attempt[w], ~(row'[current[a]] \in InProgress)
                 PROVE  \/ \E v \in Workers : attempt[v] = current[a]
                        \/ \E d \in Watchdogs : owed[d] = current[a]
                        \/ current[a] \in abandoned
    BY <1>1 DEF StuckOnlyByCrash
  <2>2. current[a] \in Attempts
    BY <2>1, AnomalyClaimAssumption DEF SInv, ClaimShape, InProgress, TypeOK, Attempts
  <2>3. QED
    BY <1>3, <2>1, <2>2 DEF SInv, StuckOnlyByCrash
<1>9. QED
  BY <1>4, <1>5, <1>6, <1>7, <1>8 DEF SInv

\* A new attempt: no active row for its anomaly, and it becomes the current one.
LEMMA InvClaim ==
  ASSUME TypeOK, SInv, NEW w \in Workers, Claim(w)
  PROVE  SInv'
<1> DEFINE n == issued + 1
<1>1. /\ issued' = n
      /\ row' = [row EXCEPT ![n] = "QUEUED"]
      /\ of' = [of EXCEPT ![n] = target[w]]
      /\ analysisStatus' = [analysisStatus EXCEPT ![target[w]] = "QUEUED"]
      /\ current' = [current EXCEPT ![target[w]] = n]
      /\ pc' = [pc EXCEPT ![w] = "run"]
      /\ attempt' = [attempt EXCEPT ![w] = n]
      /\ stage' = [stage EXCEPT ![w] = "QUEUED"]
      /\ UNCHANGED <<target, owed, swept, abandoned>>
      /\ ~Collides(n, target[w])
  BY DEF Claim, watchdogVars, historyVars
<1>2. n \in Attempts /\ n > issued /\ issued \in Nat /\ n # 0 /\ n \in Nat
  BY AnomalyClaimAssumption DEF Claim, TypeOK, Attempts
<1>3. target[w] \in Anomalies
  BY DEF Claim, SInv, WorkerShape
<1>4. /\ row'[n] = "QUEUED" /\ of'[n] = target[w]
      /\ \A i \in Attempts \ {n} : row'[i] = row[i] /\ of'[i] = of[i]
  BY <1>1, <1>2 DEF TypeOK
<1>5. /\ attempt'[w] = n /\ stage'[w] = "QUEUED" /\ pc'[w] = "run"
      /\ \A v \in Workers \ {w} : /\ attempt'[v] = attempt[v]
                                  /\ stage'[v] = stage[v] /\ pc'[v] = pc[v]
  BY <1>1 DEF TypeOK
<1>6. /\ current'[target[w]] = n /\ analysisStatus'[target[w]] = "QUEUED"
      /\ \A a \in Anomalies \ {target[w]} : /\ current'[a] = current[a]
                                            /\ analysisStatus'[a] = analysisStatus[a]
  BY <1>1, <1>3 DEF TypeOK
<1>7. /\ \A v \in Workers : attempt[v] \in Nat /\ attempt[v] <= issued
      /\ \A a \in Anomalies : current[a] \in Nat /\ current[a] <= issued
  BY AnomalyClaimAssumption DEF SInv, WorkerShape, ClaimShape, Live, TypeOK
<1>8. WorkerShape'
  <2>1. ASSUME NEW v \in Workers, Live(v)' PROVE attempt'[v] <= issued' /\ of'[attempt'[v]] = target'[v]
    <3>1. CASE v = w
      BY <1>1, <1>2, <1>4, <1>5, <3>1
    <3>2. CASE v # w
      <4>1. attempt[v] \in Attempts \ {n} /\ attempt'[v] = attempt[v]
        BY <1>2, <1>5, <1>7, <2>1, <3>2, AnomalyClaimAssumption DEF Live, TypeOK, Attempts
      <4>2. of[attempt[v]] = target[v] /\ attempt[v] <= issued
        BY <1>5, <2>1, <3>2 DEF SInv, WorkerShape, Live
      <4>3. QED
        BY <1>1, <1>2, <1>4, <1>7, <4>1, <4>2
    <3>3. QED
      BY <3>1, <3>2
  <2>2. QED
    BY <1>1, <1>2, <1>3, <1>5, <2>1 DEF SInv, WorkerShape, Live, InProgress
<1>9. ClaimShape'
  <2>1. \A i \in Attempts : (row[i] = "ABSENT" <=> i > issued)'
    BY <1>1, <1>2, <1>4 DEF SInv, ClaimShape, Attempts
  <2>2. \A i \in Attempts : (of[i] = NoAnomaly <=> i > issued)'
    BY <1>1, <1>2, <1>3, <1>4, AnomalyClaimAssumption DEF SInv, ClaimShape, Attempts
  <2>3. \A a \in Anomalies : (current[a] # 0 => current[a] <= issued /\ of[current[a]] = a)'
    <3>1. SUFFICES ASSUME NEW a \in Anomalies, a # target[w], current[a] # 0
                   PROVE  current[a] <= n /\ of'[current[a]] = a
      BY <1>1, <1>2, <1>4, <1>6
    <3>2. current[a] \in Attempts \ {n}
      BY <1>2, <1>7, <3>1, AnomalyClaimAssumption DEF TypeOK, Attempts
    <3>3. QED
      BY <1>2, <1>4, <1>7, <3>1, <3>2 DEF SInv, ClaimShape
  <2>4. \A a \in Anomalies : (current[a] = 0 => analysisStatus[a] = "NOT_ANALYZED")'
    BY <1>2, <1>6 DEF SInv, ClaimShape
  <2>5. \A v1, v2 \in Workers : (Live(v1) /\ attempt[v1] = attempt[v2] => v1 = v2)'
    BY <1>2, <1>5, <1>7 DEF SInv, ClaimShape, Live
  <2>6. \A d \in Watchdogs : (owed[d] # 0 => owed[d] \in swept)'
    BY <1>1 DEF SInv, ClaimShape
  <2>7. \A i \in swept : i <= issued + 1
    BY <1>2 DEF SInv, ClaimShape, TypeOK, Attempts
  <2>8. QED
    BY <1>1, <2>1, <2>2, <2>3, <2>4, <2>5, <2>6, <2>7 DEF ClaimShape
<1>10. RowHonest'
  <2>1. ASSUME NEW v \in Workers, Live(v)', (attempt[v] \notin swept \/ stage[v] \in Final)'
        PROVE  (row[attempt[v]] = stage[v])'
    <3>1. CASE v = w
      BY <1>4, <1>5, <3>1
    <3>2. CASE v # w
      <4>1. attempt[v] \in Attempts \ {n} /\ attempt'[v] = attempt[v]
        BY <1>2, <1>5, <1>7, <2>1, <3>2, AnomalyClaimAssumption DEF Live, TypeOK, Attempts
      <4>2. row[attempt[v]] = stage[v]
        BY <1>1, <1>5, <2>1, <3>2 DEF SInv, RowHonest, Live
      <4>3. QED
        BY <1>4, <1>5, <3>2, <4>1, <4>2
    <3>3. QED
      BY <3>1, <3>2
  <2>2. QED
    BY <2>1 DEF RowHonest
<1>11. OneActiveRow'
  <2>1. SUFFICES ASSUME NEW i \in Attempts, NEW j \in Attempts,
                        row'[i] \in InProgress, row'[j] \in InProgress, of'[i] = of'[j]
                 PROVE  i = j
    BY DEF OneActiveRow
  <2>2. CASE i # n /\ j # n
    BY <1>4, <2>1, <2>2 DEF SInv, OneActiveRow
  <2>3. CASE i = n
    BY <1>1, <1>4, <2>1, <2>3 DEF Collides, Indexed
  <2>4. CASE j = n
    BY <1>1, <1>4, <2>1, <2>4 DEF Collides, Indexed
  <2>5. QED
    BY <2>2, <2>3, <2>4
<1>12. StuckOnlyByCrash'
  <2>1. SUFFICES ASSUME NEW a \in Anomalies, a # target[w], analysisStatus[a] \in InProgress
                 PROVE  \/ row'[current[a]] \in InProgress
                        \/ \E v \in Workers : attempt'[v] = current[a]
                        \/ \E d \in Watchdogs : owed[d] = current[a]
                        \/ current[a] \in abandoned
    BY <1>1, <1>4, <1>6 DEF StuckOnlyByCrash, InProgress
  <2>2. current[a] \in Attempts \ {n} /\ current[a] # 0
    BY <1>2, <1>7, <2>1, AnomalyClaimAssumption DEF SInv, ClaimShape, InProgress, TypeOK, Attempts
  <2>3. attempt[w] = 0
    BY DEF Claim, SInv, WorkerShape, Live
  <2>4. QED
    BY <1>4, <1>5, <2>1, <2>2, <2>3 DEF SInv, StuckOnlyByCrash
<1>13. QED
  BY <1>8, <1>9, <1>10, <1>11, <1>12 DEF SInv

\* The anomaly's status follows the row, for the current attempt only; a
\* request that has delivered its outcome is done.
LEMMA InvPublish ==
  ASSUME TypeOK, SInv, NEW w \in Workers, Publish(w)
  PROVE  SInv'
<1>1. UNCHANGED <<row, of, current, issued, owed, swept, abandoned>>
  BY DEF Publish, watchdogVars, historyVars
<1>2. /\ Live(w) /\ attempt[w] \in Attempts /\ target[w] \in Anomalies
      /\ of[attempt[w]] = target[w]
  BY AnomalyClaimAssumption DEF Publish, SInv, WorkerShape, Live, TypeOK, Attempts
<1>3. CASE Return(w) /\ stage[w] \in Final
  <2>1. /\ attempt' = [attempt EXCEPT ![w] = 0] /\ pc' = [pc EXCEPT ![w] = "idle"]
        /\ attempt'[w] = 0 /\ pc'[w] = "idle"
        /\ \A v \in Workers \ {w} : /\ attempt'[v] = attempt[v] /\ pc'[v] = pc[v]
                                    /\ target'[v] = target[v] /\ stage'[v] = stage[v]
    BY <1>3 DEF Return, TypeOK
  <2>2. row[attempt[w]] = stage[w] /\ row[attempt[w]] \notin InProgress
    BY <1>2, <1>3 DEF SInv, RowHonest, Final, InProgress
  <2>3. WorkerShape'
    BY <1>1, <2>1 DEF SInv, WorkerShape, Live
  <2>4. ClaimShape'
    <3>1. \A a \in Anomalies : current[a] = 0 => analysisStatus'[a] = "NOT_ANALYZED"
      <4>1. SUFFICES ASSUME NEW a \in Anomalies, current[a] = 0
                     PROVE  analysisStatus'[a] = analysisStatus[a]
        BY DEF SInv, ClaimShape
      <4>2. a # target[w] \/ ~IsCurrent(target[w], attempt[w])
        BY <1>2, <4>1 DEF IsCurrent, Live
      <4>3. QED
        BY <4>2 DEF Publish, TypeOK
    <3>2. QED
      BY <1>1, <2>1, <3>1 DEF SInv, ClaimShape, Live
  <2>5. RowHonest'
    <3>1. ASSUME NEW v \in Workers, Live(v)', (attempt[v] \notin swept \/ stage[v] \in Final)'
          PROVE  (row[attempt[v]] = stage[v])'
      BY <1>1, <2>1, <3>1 DEF SInv, RowHonest, Live
    <3>2. QED
      BY <1>1, <3>1 DEF RowHonest
  <2>6. OneActiveRow'
    BY <1>1 DEF SInv, OneActiveRow
  <2>7. StuckOnlyByCrash'
    <3>1. SUFFICES ASSUME NEW a \in Anomalies, analysisStatus'[a] \in InProgress
                   PROVE  \/ row[current[a]] \in InProgress
                          \/ \E v \in Workers : attempt'[v] = current[a]
                          \/ \E d \in Watchdogs : owed[d] = current[a]
                          \/ current[a] \in abandoned
      BY <1>1 DEF StuckOnlyByCrash
    <3>2. CASE current[a] = attempt[w]
      <4>1. a = target[w]
        BY <1>2, <3>2 DEF SInv, ClaimShape, Live
      <4>2. analysisStatus'[a] = stage[w]
        BY <1>2, <3>2, <4>1 DEF Publish, IsCurrent, TypeOK
      <4>3. QED
        BY <1>3, <3>1, <4>2 DEF Final, InProgress
    <3>3. CASE current[a] # attempt[w]
      <4>1. analysisStatus'[a] = analysisStatus[a]
        BY <1>2, <3>3 DEF Publish, IsCurrent, TypeOK
      <4>2. QED
        BY <2>1, <3>1, <3>3, <4>1 DEF SInv, StuckOnlyByCrash
    <3>4. QED
      BY <3>2, <3>3
  <2>8. QED
    BY <2>3, <2>4, <2>5, <2>6, <2>7 DEF SInv
<1>4. CASE stage[w] \in InProgress /\ pc' = [pc EXCEPT ![w] = "run"]
           /\ UNCHANGED <<target, attempt, stage>>
  <2>1. WorkerShape'
    BY <1>1, <1>2, <1>4 DEF SInv, WorkerShape, Live, TypeOK
  <2>2. ClaimShape'
    <3>1. \A a \in Anomalies : current[a] = 0 => analysisStatus'[a] = "NOT_ANALYZED"
      <4>1. SUFFICES ASSUME NEW a \in Anomalies, current[a] = 0
                     PROVE  analysisStatus'[a] = analysisStatus[a]
        BY DEF SInv, ClaimShape
      <4>2. a # target[w] \/ ~IsCurrent(target[w], attempt[w])
        BY <1>2, <4>1 DEF IsCurrent, Live
      <4>3. QED
        BY <4>2 DEF Publish, TypeOK
    <3>2. QED
      BY <1>1, <1>4, <3>1 DEF SInv, ClaimShape, Live
  <2>3. RowHonest' /\ OneActiveRow'
    BY <1>1, <1>4 DEF SInv, RowHonest, OneActiveRow, Live
  <2>4. StuckOnlyByCrash'
    <3>1. SUFFICES ASSUME NEW a \in Anomalies, analysisStatus'[a] \in InProgress,
                          current[a] # attempt[w]
                   PROVE  \/ row[current[a]] \in InProgress
                          \/ \E v \in Workers : attempt[v] = current[a]
                          \/ \E d \in Watchdogs : owed[d] = current[a]
                          \/ current[a] \in abandoned
      BY <1>1, <1>4 DEF StuckOnlyByCrash
    <3>2. analysisStatus'[a] = analysisStatus[a]
      BY <1>2, <3>1 DEF Publish, IsCurrent, TypeOK
    <3>3. QED
      BY <3>1, <3>2 DEF SInv, StuckOnlyByCrash
  <2>5. QED
    BY <2>1, <2>2, <2>3, <2>4 DEF SInv
<1>5. QED
  BY <1>3, <1>4 DEF Publish

\* A sweep fails an attempt, whose anomaly is next; or changes nothing.
LEMMA InvSweep ==
  ASSUME TypeOK, SInv, NEW d \in Watchdogs, NEW i \in Attempts, Sweep(d, i)
  PROVE  SInv'
<1>1. UNCHANGED <<of, analysisStatus, current, issued, pc, target, attempt, stage, abandoned>>
  BY DEF Sweep, workerVars
<1>2. CASE ~StaleAt(i, cutoff[d])
  BY <1>1, <1>2, InvCore DEF Sweep, rowVars, workerVars, historyVars
<1>3. CASE StaleAt(i, cutoff[d])
  <2>1. /\ row' = [row EXCEPT ![i] = "FAILED"]
        /\ owed' = [owed EXCEPT ![d] = i]
        /\ swept' = swept \union {i}
        /\ row[i] \in InProgress /\ owed[d] = 0
    BY <1>3 DEF Sweep, StaleAt
  <2>2. WorkerShape'
    BY <1>1 DEF SInv, WorkerShape, Live
  <2>3. ClaimShape'
    <3>1. i <= issued /\ i # 0
      BY <2>1, AnomalyClaimAssumption DEF SInv, ClaimShape, TypeOK, Attempts, InProgress
    <3>2. \A j \in Attempts : row'[j] = "ABSENT" <=> row[j] = "ABSENT"
      BY <2>1 DEF TypeOK, InProgress
    <3>3. \A e \in Watchdogs : owed'[e] # 0 => owed'[e] \in swept'
      BY <2>1 DEF SInv, ClaimShape, TypeOK
    <3>4. QED
      BY <1>1, <2>1, <3>1, <3>2, <3>3 DEF SInv, ClaimShape, Live
  <2>4. RowHonest'
    <3>1. ASSUME NEW v \in Workers, Live(v)', (attempt[v] \notin swept \/ stage[v] \in Final)'
          PROVE  (row[attempt[v]] = stage[v])'
      <4>1. attempt[v] \in Attempts /\ row[attempt[v]] = stage[v]
        BY <1>1, <2>1, <3>1, AnomalyClaimAssumption DEF SInv, RowHonest, Live, TypeOK, Attempts
      <4>2. attempt[v] # i
        BY <1>1, <2>1, <3>1, <4>1 DEF Final, InProgress
      <4>3. QED
        BY <1>1, <2>1, <4>1, <4>2 DEF TypeOK
    <3>2. QED
      BY <1>1, <3>1 DEF RowHonest
  <2>5. OneActiveRow'
    BY <1>1, <2>1 DEF SInv, OneActiveRow, TypeOK, InProgress
  <2>6. StuckOnlyByCrash'
    <3>1. SUFFICES ASSUME NEW a \in Anomalies, analysisStatus[a] \in InProgress,
                          current[a] # i
                   PROVE  \/ row'[current[a]] \in InProgress
                          \/ \E v \in Workers : attempt[v] = current[a]
                          \/ \E e \in Watchdogs : owed'[e] = current[a]
                          \/ current[a] \in abandoned
      BY <1>1, <2>1 DEF StuckOnlyByCrash, TypeOK
    <3>2. current[a] \in Attempts /\ current[a] # 0
      BY <3>1, AnomalyClaimAssumption DEF SInv, ClaimShape, InProgress, TypeOK, Attempts
    <3>3. row'[current[a]] = row[current[a]]
      BY <2>1, <3>1, <3>2 DEF TypeOK
    <3>4. \A e \in Watchdogs : owed[e] = current[a] => owed'[e] = current[a]
      BY <2>1, <3>2 DEF TypeOK
    <3>5. QED
      BY <3>1, <3>3, <3>4 DEF SInv, StuckOnlyByCrash
  <2>7. QED
    BY <2>2, <2>3, <2>4, <2>5, <2>6 DEF SInv
<1>4. QED
  BY <1>2, <1>3

\* The watchdog releases the anomaly of the attempt it has failed.
LEMMA InvRelease ==
  ASSUME TypeOK, SInv, NEW d \in Watchdogs, ReleaseAnomaly(d)
  PROVE  SInv'
<1>1. /\ owed' = [owed EXCEPT ![d] = 0] /\ owed[d] # 0
      /\ UNCHANGED <<row, of, current, issued, pc, target, attempt, stage, swept, abandoned>>
  BY DEF ReleaseAnomaly, workerVars, historyVars
<1>2. \A a \in Anomalies :
        /\ current[a] = owed[d] => analysisStatus'[a] = "FAILED"
        /\ current[a] # owed[d] => analysisStatus'[a] = analysisStatus[a]
  BY <1>1 DEF ReleaseAnomaly, IsCurrent, SInv, ClaimShape
<1>3. WorkerShape' /\ RowHonest' /\ OneActiveRow'
  BY <1>1 DEF SInv, WorkerShape, RowHonest, OneActiveRow, Live
<1>4. ClaimShape'
  <2>1. \A e \in Watchdogs : owed'[e] # 0 => owed'[e] \in swept
    BY <1>1 DEF SInv, ClaimShape, TypeOK
  <2>2. QED
    BY <1>1, <1>2, <2>1 DEF SInv, ClaimShape, Live
<1>5. StuckOnlyByCrash'
  <2>1. SUFFICES ASSUME NEW a \in Anomalies, analysisStatus'[a] \in InProgress
                 PROVE  \/ row[current[a]] \in InProgress
                        \/ \E v \in Workers : attempt[v] = current[a]
                        \/ \E e \in Watchdogs : owed'[e] = current[a]
                        \/ current[a] \in abandoned
    BY <1>1 DEF StuckOnlyByCrash
  <2>2. current[a] # owed[d] /\ analysisStatus[a] \in InProgress
    BY <1>2, <2>1 DEF InProgress
  <2>3. \A e \in Watchdogs : owed[e] = current[a] => owed'[e] = current[a]
    BY <1>1, <2>2 DEF TypeOK
  <2>4. QED
    BY <2>2, <2>3 DEF SInv, StuckOnlyByCrash
<1>6. QED
  BY <1>3, <1>4, <1>5 DEF SInv

LEMMA InvCrashWatchdog ==
  ASSUME TypeOK, SInv, NEW d \in Watchdogs, CrashWatchdog(d)
  PROVE  SInv'
<1>1. /\ owed' = [owed EXCEPT ![d] = 0]
      /\ UNCHANGED <<row, of, analysisStatus, current, issued, pc, target, attempt, stage, swept>>
      /\ abandoned \subseteq abandoned'
      /\ owed[d] # 0 => owed[d] \in abandoned'
  BY DEF CrashWatchdog, rowVars, workerVars
<1>2. \A e \in Watchdogs : owed'[e] # 0 => owed'[e] = owed[e]
  BY <1>1 DEF TypeOK
<1>3. WorkerShape' /\ OneActiveRow'
  BY <1>1 DEF SInv, WorkerShape, OneActiveRow, Live
<1>4. ClaimShape' /\ RowHonest'
  BY <1>1, <1>2 DEF SInv, ClaimShape, RowHonest, Live
<1>5. StuckOnlyByCrash'
  <2>1. SUFFICES ASSUME NEW a \in Anomalies, analysisStatus[a] \in InProgress
                 PROVE  \/ row[current[a]] \in InProgress
                        \/ \E v \in Workers : attempt[v] = current[a]
                        \/ \E e \in Watchdogs : owed'[e] = current[a]
                        \/ current[a] \in abandoned'
    BY <1>1 DEF StuckOnlyByCrash
  <2>2. current[a] # 0
    BY <2>1 DEF SInv, ClaimShape, InProgress
  <2>3. \A e \in Watchdogs : owed[e] = current[a] =>
          owed'[e] = current[a] \/ current[a] \in abandoned'
    BY <1>1, <2>2 DEF TypeOK
  <2>4. QED
    BY <1>1, <2>1, <2>3 DEF SInv, StuckOnlyByCrash
<1>6. QED
  BY <1>3, <1>4, <1>5 DEF SInv

\* Every step preserves the invariant.
LEMMA InvStep == ASSUME TypeOK, SInv, [Next]_vars PROVE SInv'
<1>1. ASSUME NEW w \in Workers, NEW a \in Anomalies, Request(w, a) PROVE SInv'
  BY <1>1, InvRequest
<1>2. ASSUME NEW w \in Workers, Claim(w) PROVE SInv'
  BY <1>2, InvClaim
<1>3. ASSUME NEW w \in Workers, ClaimRejected(w) PROVE SInv'
  <2>1. attempt[w] = 0
    BY <1>3 DEF ClaimRejected, SInv, WorkerShape, Live
  <2>2. QED
    BY <1>3, <2>1, InvReturn DEF ClaimRejected, rowVars, watchdogVars, historyVars
<1>4. ASSUME NEW w \in Workers, Advance(w) PROVE SInv'
  BY <1>4, FollowsInProgress, InvWriteRow DEF Advance
<1>5. ASSUME NEW w \in Workers, AdvanceRefused(w) PROVE SInv'
  BY <1>5, InvReturn DEF AdvanceRefused, rowVars, watchdogVars
<1>6. ASSUME NEW w \in Workers, Finish(w) PROVE SInv'
  <2>1. Final \intersect InProgress = {}
    BY DEF Final, InProgress
  <2>2. QED
    BY <1>6, <2>1, InvWriteRow DEF Finish
<1>7. ASSUME NEW w \in Workers, Publish(w) PROVE SInv'
  BY <1>7, InvPublish
<1>8. ASSUME NEW w \in Workers, Crash(w) PROVE SInv'
  BY <1>8, InvReturn DEF Crash, rowVars, watchdogVars
<1>9. ASSUME NEW d \in Watchdogs, Scan(d) PROVE SInv'
  BY <1>9, InvCore DEF Scan
<1>10. ASSUME NEW d \in Watchdogs, NEW i \in Attempts, Sweep(d, i) PROVE SInv'
  BY <1>10, InvSweep
<1>11. ASSUME NEW d \in Watchdogs, ReleaseAnomaly(d) PROVE SInv'
  BY <1>11, InvRelease
<1>12. ASSUME NEW d \in Watchdogs, CrashWatchdog(d) PROVE SInv'
  BY <1>12, InvCrashWatchdog
<1>13. CASE Age
  BY <1>13, InvCore DEF Age, watchdogVars
<1>14. CASE UNCHANGED vars
  BY <1>14, InvCore DEF vars, watchdogVars
<1>15. QED
  BY <1>1, <1>2, <1>3, <1>4, <1>5, <1>6, <1>7, <1>8, <1>9, <1>10, <1>11, <1>12, <1>13, <1>14
     DEF Next, WorkerStep, WatchdogStep

\* The invariant holds in every behaviour.
THEOREM InvariantCorrect == Spec => []IInv
<1>1. Init => TypeOK /\ SInv
  BY TypeInit, InvInit
<1>2. TypeOK /\ SInv /\ [Next]_vars => TypeOK' /\ SInv'
  BY TypeStep, InvStep
<1>3. TypeOK /\ SInv => IInv
  BY OneLive DEF IInv, SInv
<1>4. QED
  BY <1>1, <1>2, <1>3, PTL DEF Spec

\* At most one request per anomaly analyzes in an attempt that was not timed out.
THEOREM OneLiveAttemptCorrect == Spec => []OneLiveAttempt
<1>1. IInv => OneLiveAttempt
  BY DEF IInv
<1>2. QED
  BY <1>1, InvariantCorrect, PTL

\* An anomaly gets stuck in progress only after a process died in its attempt.
THEOREM StuckOnlyByCrashCorrect == Spec => []StuckOnlyByCrash
<1>1. IInv => StuckOnlyByCrash
  BY DEF IInv
<1>2. QED
  BY <1>1, InvariantCorrect, PTL

-----------------------------------------------------------------------------
(* Action properties.                                                      *)

\* What one step may do to an outcome that was delivered in time.
LEMMA OutcomeStep ==
  ASSUME TypeOK, SInv, [Next]_vars, NEW i \in Attempts, row[i] \in Final, i \notin swept
  PROVE  row'[i] = row[i] /\ i \notin swept'
<1> USE DEF rowVars, workerVars, watchdogVars, historyVars
<1>1. row[i] \notin InProgress /\ row[i] # "ABSENT"
  BY DEF Final, InProgress
<1>2. ASSUME NEW w \in Workers, pc[w] = "run" PROVE attempt[w] # i
  BY <1>1, <1>2 DEF SInv, WorkerShape, RowHonest, Live
<1>3. ASSUME NEW w \in Workers, NEW s, WriteRow(w, s), pc[w] = "run"
      PROVE  row'[i] = row[i] /\ i \notin swept'
  BY <1>2, <1>3 DEF WriteRow, TypeOK
<1>4. ASSUME NEW w \in Workers, Advance(w) \/ Finish(w)
      PROVE  row'[i] = row[i] /\ i \notin swept'
  BY <1>3, <1>4 DEF Advance, Finish
<1>5. ASSUME NEW w \in Workers, Claim(w) PROVE row'[i] = row[i] /\ i \notin swept'
  <2>1. i # issued + 1
    BY <1>1 DEF SInv, ClaimShape, TypeOK, Attempts
  <2>2. QED
    BY <1>5, <2>1 DEF Claim, TypeOK
<1>6. ASSUME NEW w \in Workers, NEW a \in Anomalies, Request(w, a)
      PROVE  row'[i] = row[i] /\ i \notin swept'
  BY <1>6 DEF Request
<1>7. ASSUME NEW d \in Watchdogs, NEW j \in Attempts, Sweep(d, j)
      PROVE  row'[i] = row[i] /\ i \notin swept'
  BY <1>1, <1>7 DEF Sweep, StaleAt, TypeOK
<1>8. ASSUME NEW d \in Watchdogs, Scan(d) \/ ReleaseAnomaly(d) \/ CrashWatchdog(d)
      PROVE  row'[i] = row[i] /\ i \notin swept'
  BY <1>8 DEF Scan, ReleaseAnomaly, CrashWatchdog
<1>9. CASE Age \/ UNCHANGED vars
  BY <1>9 DEF Age, vars
<1>10. ASSUME NEW w \in Workers, ClaimRejected(w) \/ AdvanceRefused(w) \/ Publish(w) \/ Crash(w)
       PROVE  row'[i] = row[i] /\ i \notin swept'
  BY <1>10 DEF ClaimRejected, AdvanceRefused, Publish, Crash
<1>11. QED
  BY <1>4, <1>5, <1>6, <1>7, <1>8, <1>9, <1>10 DEF Next, WorkerStep, WatchdogStep

\* An outcome delivered in time is never lost, not even to a watchdog that had
\* already selected its row.
THEOREM OutcomeKeptCorrect == Spec => OutcomeKept
<1>1. TypeOK /\ SInv /\ [Next]_vars =>
        [\A i \in Attempts : row[i] \in Final /\ i \notin swept => row'[i] = row[i] /\ i \notin swept']_vars
  BY OutcomeStep
<1>2. IInv => TypeOK /\ SInv
  BY DEF IInv, SInv
<1>3. QED
  BY <1>1, <1>2, InvariantCorrect, PTL DEF Spec, OutcomeKept

\* On whose behalf one step may change an anomaly's shared status.
LEMMA StatusStep ==
  ASSUME TypeOK, SInv, [Next]_vars, NEW a \in Anomalies, analysisStatus'[a] # analysisStatus[a]
  PROVE  \/ current'[a] > current[a]
         \/ \E w \in Workers : attempt[w] = current[a] /\ stage[w] = analysisStatus'[a]
         \/ current[a] \in swept /\ analysisStatus'[a] = "FAILED"
<1> USE DEF rowVars, workerVars, watchdogVars, historyVars
<1>1. ASSUME NEW w \in Workers, Claim(w) PROVE current'[a] > current[a]
  <2>1. a = target[w]
    BY <1>1 DEF Claim, TypeOK
  <2>2. current'[a] = issued + 1
    BY <1>1, <2>1 DEF Claim, TypeOK
  <2>3. current[a] <= issued
    BY DEF SInv, ClaimShape, TypeOK
  <2>4. QED
    BY <2>2, <2>3, AnomalyClaimAssumption DEF TypeOK
<1>2. ASSUME NEW w \in Workers, Publish(w)
      PROVE  attempt[w] = current[a] /\ stage[w] = analysisStatus'[a]
  <2>1. IsCurrent(target[w], attempt[w]) /\ analysisStatus' = [analysisStatus EXCEPT ![target[w]] = stage[w]]
    BY <1>2 DEF Publish
  <2>2. a = target[w]
    BY <2>1 DEF TypeOK
  <2>3. QED
    BY <2>1, <2>2 DEF IsCurrent, TypeOK
<1>3. ASSUME NEW d \in Watchdogs, ReleaseAnomaly(d)
      PROVE  current[a] \in swept /\ analysisStatus'[a] = "FAILED"
  BY <1>3 DEF ReleaseAnomaly, IsCurrent, SInv, ClaimShape
<1>4. ASSUME NEW w \in Workers, Advance(w) \/ Finish(w) PROVE FALSE
  BY <1>4 DEF Advance, Finish, WriteRow
<1>5. ASSUME NEW w \in Workers, NEW b \in Anomalies, Request(w, b) PROVE FALSE
  BY <1>5 DEF Request
<1>6. ASSUME NEW w \in Workers, ClaimRejected(w) \/ AdvanceRefused(w) \/ Crash(w) PROVE FALSE
  BY <1>6 DEF ClaimRejected, AdvanceRefused, Crash
<1>7. ASSUME NEW d \in Watchdogs, NEW j \in Attempts, Sweep(d, j) PROVE FALSE
  BY <1>7 DEF Sweep
<1>8. ASSUME NEW d \in Watchdogs, Scan(d) \/ CrashWatchdog(d) PROVE FALSE
  BY <1>8 DEF Scan, CrashWatchdog
<1>9. CASE Age \/ UNCHANGED vars
  BY <1>9 DEF Age, vars
<1>10. QED
  BY <1>1, <1>2, <1>3, <1>4, <1>5, <1>6, <1>7, <1>8, <1>9 DEF Next, WorkerStep, WatchdogStep

\* A superseded request never touches the status of the newer attempt.
THEOREM SupersededStaysSilentCorrect == Spec => SupersededStaysSilent
<1>1. TypeOK /\ SInv /\ [Next]_vars =>
        [\A a \in Anomalies :
           analysisStatus'[a] # analysisStatus[a] =>
             \/ current'[a] > current[a]
             \/ \E w \in Workers : attempt[w] = current[a] /\ stage[w] = analysisStatus'[a]
             \/ current[a] \in swept /\ analysisStatus'[a] = "FAILED"]_vars
  BY StatusStep
<1>2. IInv => TypeOK /\ SInv
  BY DEF IInv, SInv
<1>3. QED
  BY <1>1, <1>2, InvariantCorrect, PTL DEF Spec, SupersededStaysSilent

\* Neither a superseded request nor a late watchdog overwrites what is settled.
THEOREM NoLateWriteCorrect == Spec => NoLateWrite
BY SupersededStaysSilentCorrect, OutcomeKeptCorrect DEF NoLateWrite

-----------------------------------------------------------------------------
(* What the steps have in common.                                          *)

Waiting == [id : CallIds, request : Requests]

LEMMA Typed ==
  ASSUME LoopInv
  PROVE  /\ llm \in BOOLEAN /\ turn \in 0 .. MaxAnalysisSteps /\ count \in 0 .. MaxToolCalls
         /\ tries \in 0 .. 2 /\ limit \in BOOLEAN /\ warned \in BOOLEAN
         /\ rows \in Seq(RowType) /\ messages \in Seq(MessageType)
         /\ todo \in Seq(Waiting)
         /\ DOMAIN cache \subseteq Requests /\ \A r \in DOMAIN cache : cache[r] \in Nat
         /\ MaxAnalysisSteps \in Nat /\ MaxToolCalls \in Nat /\ CallsPerTurn \in Nat
         /\ Requests \subseteq RequestType
  BY LimitsArePositive, RequestsAreCalls DEF LoopInv, RecordIsWhole, LoopTypeOK, Waiting

AnyCall == \/ RefuseCall \/ UnreadableCall \/ CachedCall
           \/ FailedCall \/ SlowCall \/ SuccessfulCall

\* A call of the model's message is answered in the conversation.
LEMMA CallResponds ==
  ASSUME AnyCall
  PROVE  /\ position = "calls"
         /\ \E said \in {"result", "error", "limit"}, cut \in BOOLEAN : Respond(said, cut)
  BY DEF AnyCall, RefuseCall, UnreadableCall, CachedCall, FailedCall, SlowCall, SuccessfulCall,
         Execute, Handled

Counted(r) ==
  /\ count' = count + 1
  /\ cache' = [q \in DOMAIN cache \cup {r} |-> IF q = r THEN Len(rows) + 1 ELSE cache[q]]

\* It leaves a row, unless it was refused or answered from the cache; a call
\* that succeeded is one of a listed tool that has not succeeded before.
LEMMA CallSaves ==
  ASSUME LoopInv, AnyCall
  PROVE  \/ UNCHANGED <<count, rows, cache>>
         \/ \E r \in Requests, st \in {"success", "error", "timeout"} :
              /\ Save(r, st) /\ r \notin DOMAIN cache /\ count < MaxToolCalls
              /\ st # "success" => UNCHANGED <<count, cache>>
              /\ st = "success" => Counted(r) /\ ~Unreadable(r)
<1>0. count \in Nat /\ MaxToolCalls \in Nat
  BY Typed
<1>1. CASE RefuseCall \/ CachedCall
  BY <1>1 DEF RefuseCall, CachedCall
<1>2. CASE UnreadableCall
  <2>1. PICK r \in Requests : Unreadable(r) /\ Execute(r) /\ Save(r, "error") /\ UNCHANGED <<count, cache>>
    BY <1>2 DEF UnreadableCall
  <2>2. r \notin DOMAIN cache
    BY <2>1 DEF LoopInv, RowShape
  <2>3. QED
    BY <1>0, <2>1, <2>2 DEF Execute, OutOfCalls
<1>3. CASE FailedCall \/ SlowCall \/ SuccessfulCall
  <2>1. PICK r \in Requests, st \in {"success", "error", "timeout"} :
          /\ Handled(r) /\ Save(r, st)
          /\ st # "success" => UNCHANGED <<count, cache>>
          /\ st = "success" => Counted(r)
    BY <1>3 DEF FailedCall, SlowCall, SuccessfulCall, Counted
  <2>2. r \notin DOMAIN cache /\ ~Unreadable(r) /\ count < MaxToolCalls
    BY <1>0, <2>1 DEF Handled, Execute, Cached, OutOfCalls
  <2>3. QED
    BY <2>1, <2>2
<1>4. QED
  BY <1>1, <1>2, <1>3 DEF AnyCall

\* Steps other than a call, an answer of the model and the demo's leave the
\* conversation, the rows and the cache alone.
LEMMA OtherSteps ==
  ASSUME [LoopNext]_loopVars
  PROVE  \/ AnyCall \/ Ask \/ DemoCall
         \/ /\ UNCHANGED <<rows, cache, count, messages, todo>>
            /\ turn' = turn \/ (MayAsk /\ turn' = turn + 1)
<1> USE DEF loop
<1>1. CASE StartContext \/ StartTools \/ StartDemo \/ StartNothing
  BY <1>1 DEF StartContext, StartTools, StartDemo, StartNothing, StartWith
<1>2. CASE BeginPlan \/ EndPlan \/ StopAtLimit \/ DeadlinePasses \/ Settle
  BY <1>2 DEF BeginPlan, EndPlan, StopAtLimit, DeadlinePasses, Settle
<1>3. CASE AskFails \/ AskRaises \/ Unsupported
  BY <1>3 DEF AskFails, AskRaises, Unsupported
<1>4. CASE AbortedCall
  BY <1>4 DEF AbortedCall
<1>5. CASE FinalAnswer \/ FinalRetry \/ FinalRaises \/ ContextAnswer \/ ContextRetry \/ ContextDemo
  BY <1>5 DEF FinalAnswer, FinalRetry, FinalRaises, ContextAnswer, ContextRetry, ContextDemo
<1>6. CASE DemoRaises \/ DemoAnswer
  BY <1>6 DEF DemoRaises, DemoAnswer
<1>7. CASE Over \/ UNCHANGED loopVars
  BY <1>7 DEF Over, loopVars
<1>8. QED
  BY <1>1, <1>2, <1>3, <1>4, <1>5, <1>6, <1>7 DEF LoopNext, Attempt, AnyCall

-----------------------------------------------------------------------------
(* The stages of an attempt.                                               *)

LEMMA StageStep == ASSUME LoopInv, [LoopNext]_loopVars PROVE StageShape'
<1>s. StageShape
  BY DEF LoopInv
<1>d. DOMAIN Stage = {"idle", "plan", "planning", "ask", "calls", "final", "context", "demo"}
  BY DEF Stage
<1>v. /\ Stage["idle"] = "not_analyzed" /\ Stage["plan"] = "queued" /\ Stage["planning"] = "planning"
      /\ Stage["ask"] = "collecting_data" /\ Stage["calls"] = "collecting_data"
      /\ Stage["final"] = "generating_analysis" /\ Stage["context"] = "analyzing"
      /\ Stage["demo"] = "queued"
  BY DEF Stage
<1> USE DEF StageShape, WithTools, Blank, Ended, loop, answer
<1>1. CASE StartContext \/ StartTools \/ StartDemo \/ StartNothing
  BY <1>1, <1>s, <1>d, <1>v DEF StartContext, StartTools, StartDemo, StartNothing, StartWith
<1>2. CASE BeginPlan \/ EndPlan
  BY <1>2, <1>s, <1>d, <1>v DEF BeginPlan, EndPlan
<1>3. CASE StopAtLimit \/ AskFails \/ AskRaises
  BY <1>3, <1>s, <1>d, <1>v DEF StopAtLimit, MayAsk, AskFails, AskRaises
<1>4. CASE Ask
  BY <1>4, <1>s, <1>d, <1>v DEF MayAsk, Ask
<1>5. CASE Unsupported
  BY <1>5, <1>s, <1>d, <1>v DEF MayAsk, Unsupported
<1>6. CASE AnyCall
  <2>1. PICK said \in {"result", "error", "limit"}, cut \in BOOLEAN : Respond(said, cut)
    BY <1>6, CallResponds
  <2>2. position = "calls"
    BY <1>6, CallResponds
  <2>3. QED
    BY <2>1, <2>2, <1>s, <1>d, <1>v DEF Respond
<1>7. CASE AbortedCall
  BY <1>7, <1>s, <1>d, <1>v DEF AbortedCall, Handled, Execute
<1>8. CASE FinalAnswer \/ FinalRaises \/ ContextAnswer \/ ContextDemo
  BY <1>8, <1>s, <1>d, <1>v DEF FinalAnswer, FinalRaises, ContextAnswer, ContextDemo
<1>9. CASE FinalRetry \/ ContextRetry
  BY <1>9, <1>s, <1>d, <1>v, Typed DEF FinalRetry, ContextRetry
<1>10. CASE DemoCall \/ DemoRaises \/ DemoAnswer
  BY <1>10, <1>s, <1>d, <1>v DEF DemoCall, DemoRaises, DemoAnswer
<1>11. CASE Settle
  BY <1>11, <1>s, <1>d, <1>v DEF Settle
<1>12. CASE DeadlinePasses \/ Over \/ UNCHANGED loopVars
  BY <1>12, <1>s, <1>d, <1>v DEF DeadlinePasses, Over, loopVars
<1>13. QED
  BY <1>1, <1>2, <1>3, <1>4, <1>5, <1>6, <1>7, <1>8, <1>9, <1>10, <1>11, <1>12
     DEF LoopNext, Attempt, AnyCall

-----------------------------------------------------------------------------
(* The conversation.                                                       *)

LEMMA SequenceOf ==
  ASSUME NEW S, NEW n \in Nat, NEW f \in [1 .. n -> S]
  PROVE  f \in Seq(S) /\ Len(f) = n /\ DOMAIN f = 1 .. n
  OBVIOUS

LEMMA AppendFacts ==
  ASSUME NEW S, NEW q \in Seq(S), NEW e \in S
  PROVE  /\ Append(q, e) \in Seq(S) /\ Len(Append(q, e)) = Len(q) + 1 /\ Len(q) \in Nat
         /\ \A k \in 1 .. Len(q) : Append(q, e)[k] = q[k]
         /\ Append(q, e)[Len(q) + 1] = e
         /\ DOMAIN Append(q, e) = 1 .. Len(q) + 1 /\ DOMAIN q = 1 .. Len(q)
  OBVIOUS

LEMMA TailFacts ==
  ASSUME NEW S, NEW q \in Seq(S), q # <<>>
  PROVE  /\ Head(q) = q[1] /\ q[1] \in S /\ Len(q) \in Nat \ {0}
         /\ Tail(q) \in Seq(S) /\ Len(Tail(q)) = Len(q) - 1
         /\ \A k \in 1 .. Len(Tail(q)) : Tail(q)[k] = q[k + 1]
  OBVIOUS

LEMMA LenFacts ==
  ASSUME NEW S, NEW q \in Seq(S)
  PROVE  Len(q) \in Nat /\ DOMAIN q = 1 .. Len(q) /\ (q = <<>> <=> Len(q) = 0)
  OBVIOUS

LEMMA TurnsFinite ==
  ASSUME messages \in Seq(MessageType)
  PROVE  /\ Turns \subseteq 1 .. Len(messages) /\ IsFiniteSet(Turns) /\ Cardinality(Turns) \in Nat
         /\ Len(messages) \in Nat
<1>1. Turns \subseteq 1 .. Len(messages) /\ Len(messages) \in Nat
  BY DEF Turns
<1>2. IsFiniteSet(1 .. Len(messages))
  BY <1>1, FS_Interval
<1>3. QED
  BY <1>1, <1>2, FS_Subset, FS_CardinalityType

\* The model's answer is one more message, with the calls still to be answered.
LEMMA AskTalk ==
  ASSUME LoopInv, Ask
  PROVE  \E ids : /\ messages' = Append(messages, [role |-> "assistant", calls |-> ids, said |-> "calls"])
                  /\ ids \in Seq(CallIds) /\ Len(ids) <= CallsPerTurn
                  /\ todo' \in Seq(Waiting) /\ Len(todo') = Len(ids)
                  /\ \A k \in DOMAIN ids : todo'[k].id = ids[k]
                  /\ IF ids = <<>> THEN position' = "final" ELSE position' = "calls"
<1>1. PICK reply \in Replies :
        LET ids == [k \in DOMAIN reply |-> <<turn', k>>]
        IN  /\ messages' = Append(messages, [role |-> "assistant", calls |-> ids, said |-> "calls"])
            /\ todo' = [k \in DOMAIN reply |-> [id |-> ids[k], request |-> reply[k]]]
            /\ IF reply = <<>> THEN position' = "final" ELSE position' = "calls"
  BY DEF Ask
<1> DEFINE ids == [k \in DOMAIN reply |-> <<turn', k>>]
<1>2. PICK n \in 0 .. CallsPerTurn : reply \in [1 .. n -> Requests]
  BY DEF Replies
<1>3. turn' \in Nat /\ n \in Nat
  BY <1>2, Typed DEF Ask
<1>4. ids \in [1 .. n -> CallIds] /\ \A k \in 1 .. n : ids[k] = <<turn', k>>
  BY <1>2, <1>3 DEF CallIds
<1>5. ids \in Seq(CallIds) /\ Len(ids) = n /\ DOMAIN ids = 1 .. n
  BY <1>3, <1>4
<1>6. todo' \in [1 .. n -> Waiting] /\ \A k \in 1 .. n : todo'[k].id = ids[k]
  BY <1>1, <1>2, <1>4 DEF Waiting
<1>7. todo' \in Seq(Waiting) /\ Len(todo') = n
  BY <1>3, <1>6, SequenceOf
<1>8. (reply = <<>> <=> n = 0) /\ (ids = <<>> <=> n = 0)
  BY <1>2, <1>3, <1>4, <1>5
<1>9. IF ids = <<>> THEN position' = "final" ELSE position' = "calls"
  BY <1>1, <1>8
<1>10. messages' = Append(messages, [role |-> "assistant", calls |-> ids, said |-> "calls"])
  BY <1>1
<1> HIDE DEF ids
<1>11. Len(ids) <= CallsPerTurn /\ \A k \in DOMAIN ids : todo'[k].id = ids[k]
  BY <1>2, <1>5, <1>6, Typed
<1>12. QED
  BY <1>5, <1>7, <1>9, <1>10, <1>11

\* A call is answered by one more message, for the first call in todo.
LEMMA RespondTalk ==
  ASSUME LoopInv, AnyCall
  PROVE  \E said \in {"result", "error", "limit"} :
           /\ todo # <<>> /\ todo[1].id \in CallIds
           /\ messages' = Append(messages, [role |-> "tool", calls |-> <<todo[1].id>>, said |-> said])
           /\ todo' \in Seq(Waiting) /\ Len(todo') = Len(todo) - 1
           /\ \A k \in 1 .. Len(todo') : todo'[k] = todo[k + 1]
           /\ IF Len(todo) > 1 THEN position' = "calls" ELSE position' \in {"final", "ask"}
           /\ position' = "final" => limit'
           /\ turn' = turn /\ mode' = mode /\ llm' = llm
<1>1. PICK said \in {"result", "error", "limit"}, cut \in BOOLEAN : Respond(said, cut)
  BY CallResponds
<1>2. position = "calls" /\ todo # <<>>
  BY CallResponds DEF LoopInv, TalkShape
<1>3. todo \in Seq(Waiting)
  BY Typed
<1>4. Head(todo) = todo[1] /\ todo[1].id \in CallIds
  <2>1. Head(todo) = todo[1] /\ todo[1] \in Waiting
    BY <1>2, <1>3, TailFacts
  <2>2. QED
    BY <2>1 DEF Waiting
<1>5. /\ Tail(todo) \in Seq(Waiting) /\ Len(Tail(todo)) = Len(todo) - 1
      /\ \A k \in 1 .. Len(Tail(todo)) : Tail(todo)[k] = todo[k + 1]
  BY <1>2, <1>3, TailFacts
<1>6. todo' = Tail(todo)
  BY <1>1 DEF Respond
<1>7. messages' = Append(messages, [role |-> "tool", calls |-> <<todo[1].id>>, said |-> said])
  BY <1>1, <1>4 DEF Respond
<1>8. /\ IF Len(todo) > 1 THEN position' = "calls" ELSE position' \in {"final", "ask"}
      /\ position' = "final" => limit'
      /\ turn' = turn /\ mode' = mode /\ llm' = llm
  BY <1>1, <1>2 DEF Respond
<1>9. QED
  BY <1>2, <1>4, <1>5, <1>6, <1>7, <1>8

\* How the stages of the conversation are reached without a word being said.
LEMMA SilentStep ==
  ASSUME LoopInv, [LoopNext]_loopVars, ~Ask, ~AnyCall
  PROVE  /\ position' \in {"ask", "final"} => position \in {"ask", "final", "planning"}
         /\ position' = "calls" => position = "calls"
<1> USE DEF loop, answer
<1>1. CASE StartContext \/ StartTools \/ StartDemo \/ StartNothing
  BY <1>1 DEF StartContext, StartTools, StartDemo, StartNothing, StartWith
<1>2. CASE BeginPlan \/ EndPlan \/ StopAtLimit \/ Settle
  BY <1>2 DEF BeginPlan, EndPlan, StopAtLimit, Settle
<1>3. CASE AskFails \/ AskRaises \/ Unsupported
  BY <1>3 DEF MayAsk, AskFails, AskRaises, Unsupported
<1>4. CASE AbortedCall
  BY <1>4 DEF AbortedCall
<1>5. CASE FinalAnswer \/ FinalRetry \/ FinalRaises \/ ContextAnswer \/ ContextRetry \/ ContextDemo
  BY <1>5 DEF FinalAnswer, FinalRetry, FinalRaises, ContextAnswer, ContextRetry, ContextDemo
<1>6. CASE DemoCall \/ DemoRaises \/ DemoAnswer
  BY <1>6 DEF DemoCall, DemoRaises, DemoAnswer
<1>7. CASE DeadlinePasses \/ Over \/ UNCHANGED loopVars
  BY <1>7 DEF DeadlinePasses, Over, loopVars
<1>8. QED
  BY <1>1, <1>2, <1>3, <1>4, <1>5, <1>6, <1>7 DEF LoopNext, Attempt, AnyCall

LEMMA TalkStep == ASSUME LoopInv, [LoopNext]_loopVars PROVE TalkShape'
<1>s. TalkShape
  BY DEF LoopInv
<1>m. messages \in Seq(MessageType) /\ Len(messages) \in Nat
  BY Typed
<1>n. PICK n \in Nat : n = Len(messages)
  BY <1>m
<1>1. CASE ~Ask /\ ~AnyCall
  <2>1. UNCHANGED <<messages, todo>>
    <3>1. DemoCall => UNCHANGED <<messages, todo>>
      BY DEF DemoCall
    <3>2. QED
      BY <1>1, <3>1, OtherSteps
  <2>2. CASE position = "planning"
    BY <1>1, <2>1, <2>2, SilentStep DEF LoopInv, StageShape, Blank, TalkShape, Turns
  <2>3. CASE position # "planning"
    <3>1. /\ position' \in {"ask", "final"} => position \in {"ask", "final"}
          /\ position' = "calls" => position = "calls"
      BY <1>1, <2>3, SilentStep
    <3>2. \A m : (Answered(m)' <=> Answered(m)) /\ (Open(m)' <=> Open(m))
      BY <2>1 DEF Answered, Open
    <3>3. QED
      BY <1>s, <2>1, <3>1, <3>2 DEF TalkShape, Turns
  <2>4. QED
    BY <2>2, <2>3
<1>2. CASE Ask
  <2>1. PICK ids : /\ messages' = Append(messages, [role |-> "assistant", calls |-> ids, said |-> "calls"])
                   /\ ids \in Seq(CallIds)
                   /\ todo' \in Seq(Waiting) /\ Len(todo') = Len(ids)
                   /\ \A k \in DOMAIN ids : todo'[k].id = ids[k]
                   /\ IF ids = <<>> THEN position' = "final" ELSE position' = "calls"
    BY <1>2, AskTalk
  <2> DEFINE e == [role |-> "assistant", calls |-> ids, said |-> "calls"]
  <2>2. e \in MessageType /\ e.role = "assistant" /\ e.calls = ids
    BY <2>1 DEF MessageType
  <2> HIDE DEF e
  <2>3. /\ messages' \in Seq(MessageType) /\ Len(messages') = n + 1
        /\ \A k \in 1 .. n : messages'[k] = messages[k]
        /\ messages'[n + 1] = e /\ DOMAIN messages' = 1 .. n + 1 /\ DOMAIN messages = 1 .. n
    BY <1>m, <1>n, <2>1, <2>2, AppendFacts DEF e
  <2>4. position = "ask" /\ todo = <<>> /\ \A m \in Turns : Answered(m)
    BY <1>2, <1>s DEF Ask, MayAsk, TalkShape
  <2>5. ASSUME NEW m \in Turns PROVE Answered(m)' /\ m + Len(messages'[m].calls) < Len(messages')
    <3>1. Answered(m) /\ m \in 1 .. n
      BY <2>3, <2>4 DEF Turns
    <3>2. messages'[m] = messages[m] /\ messages[m] \in MessageType
      BY <1>m, <1>n, <2>3, <3>1
    <3>3. messages[m].calls \in Seq(CallIds)
      BY <3>2 DEF MessageType
    <3>4. m + Len(messages[m].calls) <= n
      BY <1>n, <3>1 DEF Answered
    <3>5. \A k \in DOMAIN messages[m].calls : m + k \in 1 .. n
      BY <3>1, <3>3, <3>4
    <3>6. QED
      BY <1>m, <1>n, <2>2, <2>3, <3>1, <3>2, <3>3, <3>4, <3>5 DEF Answered
  <2>6. Turns' = Turns \cup {n + 1}
    BY <1>m, <1>n, <2>2, <2>3 DEF Turns
  <2>7. CASE ids = <<>>
    <3>1. todo' = <<>>
      BY <2>1, <2>7
    <3>2. messages'[n + 1].calls = <<>>
      BY <2>2, <2>3, <2>7
    <3>3. Answered(n + 1)'
      BY <2>3, <3>2 DEF Answered
    <3>4. QED
      BY <2>1, <2>5, <2>6, <2>7, <3>1, <3>3 DEF TalkShape
  <2>8. CASE ids # <<>>
    <3>1. todo' # <<>>
      BY <2>1, <2>8
    <3>2. Open(n + 1)'
      BY <1>m, <1>n, <2>1, <2>2, <2>3 DEF Open
    <3>3. QED
      BY <2>1, <2>5, <2>6, <2>8, <3>1, <3>2 DEF TalkShape
  <2>9. QED
    BY <2>7, <2>8
<1>3. CASE AnyCall
  <2>1. PICK said \in {"result", "error", "limit"} :
           /\ todo # <<>> /\ todo[1].id \in CallIds
           /\ messages' = Append(messages, [role |-> "tool", calls |-> <<todo[1].id>>, said |-> said])
           /\ todo' \in Seq(Waiting) /\ Len(todo') = Len(todo) - 1
           /\ \A k \in 1 .. Len(todo') : todo'[k] = todo[k + 1]
           /\ IF Len(todo) > 1 THEN position' = "calls" ELSE position' \in {"final", "ask"}
    BY <1>3, RespondTalk
  <2> DEFINE e == [role |-> "tool", calls |-> <<todo[1].id>>, said |-> said]
  <2>2. e \in MessageType /\ e.role = "tool" /\ e.calls = <<todo[1].id>>
    BY <2>1 DEF MessageType
  <2> HIDE DEF e
  <2>3. /\ messages' \in Seq(MessageType) /\ Len(messages') = n + 1
        /\ \A k \in 1 .. n : messages'[k] = messages[k]
        /\ messages'[n + 1] = e /\ DOMAIN messages' = 1 .. n + 1 /\ DOMAIN messages = 1 .. n
    BY <1>m, <1>n, <2>1, <2>2, AppendFacts DEF e
  <2>4. position = "calls" /\ \A m \in Turns :
              \/ Open(m)
              \/ Answered(m) /\ m + Len(messages[m].calls) < Len(messages)
    BY <1>3, <1>s, CallResponds DEF TalkShape
  <2>5. Turns' = Turns /\ Turns \subseteq 1 .. n
    BY <1>m, <1>n, <2>2, <2>3 DEF Turns
  <2>6. ASSUME NEW m \in Turns
        PROVE  /\ messages'[m] = messages[m] /\ messages[m].calls \in Seq(CallIds) /\ m \in 1 .. n
               /\ \A k : m + k \in 1 .. n => messages'[m + k] = messages[m + k]
    <3>1. m \in 1 .. n
      BY <2>5
    <3>2. messages'[m] = messages[m] /\ messages[m] \in MessageType
      BY <1>m, <2>3, <3>1
    <3>3. messages[m].calls \in Seq(CallIds)
      BY <3>2 DEF MessageType
    <3>4. QED
      BY <2>3, <3>1, <3>2, <3>3
  <2>7. ASSUME NEW m \in Turns, Answered(m), m + Len(messages[m].calls) < Len(messages)
        PROVE  Answered(m)' /\ m + Len(messages'[m].calls) < Len(messages')
    <3>1. \A k \in DOMAIN messages[m].calls : m + k \in 1 .. n
      BY <1>m, <1>n, <2>6, <2>7
    <3>2. m + Len(messages[m].calls) + 1 \in 1 .. n
      BY <1>m, <1>n, <2>6, <2>7
    <3>3. QED
      BY <1>m, <1>n, <2>3, <2>6, <2>7, <3>1, <3>2 DEF Answered
  <2>8. ASSUME NEW m \in Turns, Open(m)
        PROVE  IF Len(todo) > 1 THEN Open(m)' ELSE Answered(m)'
    <3> DEFINE done == n - m
    <3>1. done \in Nat /\ done + Len(todo) = Len(messages[m].calls) /\ Len(todo) \in Nat \ {0}
      BY <1>m, <1>n, <2>1, <2>6, <2>8, Typed DEF Open
    <3>2. todo[1].id = messages[m].calls[done + 1]
      BY <1>n, <2>8, <3>1, Typed DEF Open
    <3>3. ASSUME NEW k \in 1 .. done + 1
          PROVE  /\ messages'[m + k].role = "tool"
                 /\ messages'[m + k].calls = <<messages[m].calls[k]>>
      <4>1. CASE k \in 1 .. done
        <5>1. m + k \in 1 .. n
          BY <1>m, <1>n, <2>6, <3>1, <4>1
        <5>2. messages[m + k].role = "tool" /\ messages[m + k].calls = <<messages[m].calls[k]>>
          BY <1>n, <2>8, <4>1 DEF Open
        <5>3. QED
          BY <2>6, <5>1, <5>2
      <4>2. CASE k = done + 1
        <5>1. m + k = n + 1
          BY <1>m, <1>n, <2>6, <4>2
        <5>2. QED
          BY <2>2, <2>3, <3>2, <4>2, <5>1
      <4>3. QED
        BY <3>1, <4>1, <4>2
    <3>4. Len(messages') - m = done + 1
      BY <1>m, <1>n, <2>3, <2>6
    <3>5. ASSUME NEW k \in DOMAIN todo' PROVE todo'[k].id = messages[m].calls[done + 1 + k]
      <4>1. k \in 1 .. Len(todo') /\ k + 1 \in DOMAIN todo
        <5>1. DOMAIN todo' = 1 .. Len(todo') /\ DOMAIN todo = 1 .. Len(todo)
          BY <2>1, Typed, LenFacts
        <5>2. QED
          BY <2>1, <3>1, <5>1
      <4>2. todo[k + 1].id = messages[m].calls[done + (k + 1)]
        BY <1>n, <2>8, <4>1 DEF Open
      <4>3. QED
        <5>1. k \in Nat /\ done + (k + 1) = done + 1 + k
          BY <3>1, <4>1
        <5>2. todo'[k] = todo[k + 1]
          BY <2>1, <4>1
        <5>3. QED
          BY <4>2, <5>1, <5>2
    <3>6. CASE Len(todo) > 1
      <4>1. done + 1 + Len(todo') = Len(messages[m].calls)
        BY <2>1, <3>1
      <4>2. Open(m)'
        BY <2>6, <3>3, <3>4, <3>5, <4>1 DEF Open
      <4>3. QED
        BY <3>6, <4>2
    <3>7. CASE ~(Len(todo) > 1)
      <4>1. Len(messages[m].calls) = done + 1 /\ DOMAIN messages[m].calls = 1 .. done + 1
        BY <2>6, <3>1, <3>7
      <4>2. m + Len(messages[m].calls) = Len(messages')
        BY <1>n, <2>3, <2>6, <3>4, <4>1
      <4>3. Answered(m)'
        BY <1>m, <1>n, <2>3, <2>6, <3>3, <4>1, <4>2 DEF Answered
      <4>4. QED
        BY <3>7, <4>3
    <3>8. QED
      BY <3>6, <3>7
  <2>9. CASE Len(todo) > 1
    <3>1. todo' # <<>>
      BY <2>1, <2>9, Typed
    <3>2. QED
      BY <2>1, <2>4, <2>5, <2>7, <2>8, <2>9, <3>1 DEF TalkShape
  <2>10. CASE ~(Len(todo) > 1)
    <3>1. todo' = <<>>
      BY <2>1, <2>10, Typed
    <3>2. QED
      BY <2>1, <2>4, <2>5, <2>7, <2>8, <2>10, <3>1 DEF TalkShape
  <2>11. QED
    BY <2>9, <2>10
<1>4. QED
  BY <1>1, <1>2, <1>3

-----------------------------------------------------------------------------
(* The rows.                                                               *)

\* What saving a call does to the rows and to the codes that may be cited.
LEMMA SaveFacts ==
  ASSUME rows \in Seq(RowType), NEW r \in RequestType, NEW st \in {"success", "error", "timeout"},
         Save(r, st)
  PROVE  \E n \in Nat :
           /\ n = Len(rows) /\ rows' \in Seq(RowType) /\ Len(rows') = n + 1
           /\ DOMAIN rows = 1 .. n /\ DOMAIN rows' = 1 .. n + 1
           /\ \A c \in 1 .. n : rows'[c] = rows[c]
           /\ rows'[n + 1].step = n + 1 /\ rows'[n + 1].request = r /\ rows'[n + 1].status = st
           /\ Codes' = IF st = "success" THEN Codes \cup {n + 1} ELSE Codes
           /\ Codes \subseteq 1 .. n
<1>1. PICK n \in Nat : n = Len(rows)
  OBVIOUS
<1> DEFINE e == Row(n + 1, r, st)
<1>2. e \in RowType /\ e.step = n + 1 /\ e.request = r /\ e.status = st
  BY DEF Row, RowType
<1>3. rows' = Append(rows, e)
  BY <1>1 DEF Save
<1> HIDE DEF e
<1>4. /\ rows' \in Seq(RowType) /\ Len(rows') = n + 1
      /\ DOMAIN rows = 1 .. n /\ DOMAIN rows' = 1 .. n + 1
      /\ \A c \in 1 .. n : rows'[c] = rows[c]
      /\ rows'[n + 1] = e
  BY <1>1, <1>2, <1>3, AppendFacts
<1>5. Codes \subseteq 1 .. n
  BY <1>4 DEF Codes
<1>6. Codes' = IF st = "success" THEN Codes \cup {n + 1} ELSE Codes
  BY <1>2, <1>4 DEF Codes
<1>7. QED
  BY <1>1, <1>2, <1>4, <1>5, <1>6

LEMMA CodesFinite ==
  ASSUME rows \in Seq(RowType)
  PROVE  /\ Codes \subseteq 1 .. Len(rows) /\ IsFiniteSet(Codes) /\ Cardinality(Codes) \in Nat
         /\ Len(rows) \in Nat
<1>1. Codes \subseteq 1 .. Len(rows) /\ Len(rows) \in Nat
  BY DEF Codes
<1>2. IsFiniteSet(1 .. Len(rows))
  BY <1>1, FS_Interval
<1>3. QED
  BY <1>1, <1>2, FS_Subset, FS_CardinalityType

LEMMA DemoFacts ==
  /\ Len(DemoSequence) = 6
  /\ \A i \in 1 .. 6 : DemoSequence[i] \in Tools
  /\ \A i \in 1 .. 6, d \in Nat : DemoRequest(i, d) \in RequestType
  /\ \A i, j \in 1 .. 6 : \A d : i # j => DemoRequest(i, d) # DemoRequest(j, d)
<1>1. Len(DemoSequence) = 6
  BY DEF DemoSequence
<1>2. \A i \in 1 .. 6 : DemoSequence[i] \in Tools
  BY DEF DemoSequence, Tools, Registry
<1>3. ASSUME NEW i \in 1 .. 6, NEW d \in Nat PROVE DemoRequest(i, d) \in RequestType
  BY <1>2 DEF DemoRequest, RequestType
<1>4. ASSUME NEW i \in 1 .. 6, NEW j \in 1 .. 6, NEW d, i # j PROVE DemoRequest(i, d) # DemoRequest(j, d)
  <2>1. DemoSequence[i] # DemoSequence[j]
    BY <1>4 DEF DemoSequence
  <2>2. QED
    BY <2>1 DEF DemoRequest
<1>5. QED
  BY <1>1, <1>2, <1>3, <1>4

\* The demo saves its next tool's call.
LEMMA DemoSaves ==
  ASSUME LoopInv, DemoCall
  PROVE  \E st \in {"success", "error"}, i \in 1 .. 6 :
           /\ i = Len(rows) + 1 /\ DemoRequest(i, days) \in RequestType /\ days \in Nat
           /\ Save(DemoRequest(i, days), st)
           /\ UNCHANGED <<days, position, count, cache, messages, todo, turn, llm>>
<1>1. days \in Nat
  BY LimitsArePositive DEF LoopInv, RecordIsWhole, LoopTypeOK
<1>2. Len(rows) + 1 \in 1 .. 6
  BY CodesFinite, DemoFacts, Typed DEF DemoCall, DemoStep
<1>3. DemoRequest(Len(rows) + 1, days) \in RequestType
  BY <1>1, <1>2, DemoFacts
<1>4. QED
  BY <1>1, <1>2, <1>3 DEF DemoCall, DemoStep

\* How an attempt gets to use tools, and the demo to its sequence.
LEMMA StageFrom ==
  ASSUME [LoopNext]_loopVars
  PROVE  /\ position' \in WithTools => position \in WithTools \cup {"idle"}
         /\ position' = "demo" => position = "idle" \/ (position = "demo" /\ days' = days)
<1> USE DEF WithTools, loop, answer
<1>1. CASE StartContext \/ StartTools \/ StartDemo \/ StartNothing
  BY <1>1 DEF StartContext, StartTools, StartDemo, StartNothing, StartWith
<1>2. CASE BeginPlan \/ EndPlan \/ StopAtLimit \/ Settle
  BY <1>2 DEF BeginPlan, EndPlan, StopAtLimit, Settle
<1>3. CASE Ask \/ AskFails \/ AskRaises \/ Unsupported
  BY <1>3 DEF MayAsk, Ask, AskFails, AskRaises, Unsupported
<1>4. CASE AbortedCall
  BY <1>4 DEF AbortedCall
<1>5. CASE AnyCall
  <2>1. position = "calls" /\ \E said, cut : Respond(said, cut)
    BY <1>5, CallResponds
  <2>2. QED
    BY <2>1 DEF Respond
<1>6. CASE FinalAnswer \/ FinalRetry \/ FinalRaises \/ ContextAnswer \/ ContextRetry \/ ContextDemo
  BY <1>6 DEF FinalAnswer, FinalRetry, FinalRaises, ContextAnswer, ContextRetry, ContextDemo
<1>7. CASE DemoCall \/ DemoRaises \/ DemoAnswer
  BY <1>7 DEF DemoCall, DemoRaises, DemoAnswer
<1>8. CASE DeadlinePasses \/ Over \/ UNCHANGED loopVars
  BY <1>8 DEF DeadlinePasses, Over, loopVars
<1>9. QED
  BY <1>1, <1>2, <1>3, <1>4, <1>5, <1>6, <1>7, <1>8 DEF LoopNext, Attempt, AnyCall

LEMMA AskRows == Ask => UNCHANGED <<rows, cache, count, llm>> /\ position = "ask"
  BY DEF Ask, MayAsk

\* Nothing is called again that has succeeded.
LEMMA TraceStep == ASSUME LoopInv, [LoopNext]_loopVars PROVE RowShape' /\ TraceIsReadable'
<1>s. RowShape /\ TraceIsReadable
  BY DEF LoopInv, RecordIsWhole
<1>1. ASSUME UNCHANGED <<rows, cache>>, ~DemoCall PROVE RowShape' /\ TraceIsReadable'
  <2>1. Codes' = Codes /\ TraceIsReadable'
    BY <1>1, <1>s DEF Codes, TraceIsReadable
  <2>2. CASE position = "idle"
    BY <1>1, <2>1, <2>2 DEF LoopInv, StageShape, Blank, RowShape, Codes, DemoSequence
  <2>3. CASE position # "idle"
    BY <1>1, <1>s, <2>1, <2>3, StageFrom DEF RowShape
  <2>4. QED
    BY <2>1, <2>2, <2>3
<1>2. CASE AnyCall
  <2>1. position = "calls" /\ position \in WithTools /\ position' # "demo"
    BY <1>2, CallResponds, StageFrom DEF WithTools
  <2>2. CASE UNCHANGED <<count, rows, cache>>
    BY <1>s, <2>1, <2>2 DEF RowShape, TraceIsReadable, Codes
  <2>3. CASE ~UNCHANGED <<count, rows, cache>>
    <3>1. PICK r \in Requests, st \in {"success", "error", "timeout"} :
              /\ Save(r, st) /\ r \notin DOMAIN cache
              /\ st # "success" => UNCHANGED <<count, cache>>
              /\ st = "success" => Counted(r) /\ ~Unreadable(r)
      BY <1>2, <2>3, CallSaves
    <3>2. PICK n \in Nat :
            /\ n = Len(rows) /\ rows' \in Seq(RowType) /\ Len(rows') = n + 1
            /\ DOMAIN rows = 1 .. n /\ DOMAIN rows' = 1 .. n + 1
            /\ \A c \in 1 .. n : rows'[c] = rows[c]
            /\ rows'[n + 1].step = n + 1 /\ rows'[n + 1].request = r /\ rows'[n + 1].status = st
            /\ Codes' = IF st = "success" THEN Codes \cup {n + 1} ELSE Codes
            /\ Codes \subseteq 1 .. n
      BY <3>1, SaveFacts, Typed
    <3>3. DOMAIN cache \subseteq DOMAIN cache' /\ (st = "success" => r \in DOMAIN cache')
      BY <3>1 DEF Counted
    <3>4. \A q \in DOMAIN cache' : ~Unreadable(q)
      BY <1>s, <3>1 DEF Counted, RowShape
    <3>5. \A c \in Codes : rows[c].request \in DOMAIN cache
      BY <1>s, <2>1 DEF RowShape
    <3>6. \A c \in Codes' : rows'[c].request \in DOMAIN cache'
      BY <3>2, <3>3, <3>5
    <3>7. \A c \in DOMAIN rows' : rows'[c].step = c
      BY <1>s, <3>2 DEF TraceIsReadable
    <3>8. ASSUME NEW c \in DOMAIN rows', NEW d \in DOMAIN rows', c < d, c \in Codes'
          PROVE  rows'[c].request # rows'[d].request
      <4>1. c \in 1 .. n /\ c \in Codes
        BY <3>2, <3>8
      <4>2. CASE d = n + 1
        BY <3>1, <3>2, <3>5, <4>1, <4>2
      <4>3. CASE d # n + 1
        BY <1>s, <3>2, <3>8, <4>1, <4>3 DEF TraceIsReadable
      <4>4. QED
        BY <4>2, <4>3
    <3>9. TraceIsReadable'
      BY <3>7, <3>8 DEF TraceIsReadable
    <3>10. QED
      BY <2>1, <3>4, <3>6, <3>9 DEF RowShape
  <2>4. QED
    BY <2>2, <2>3
<1>3. CASE DemoCall
  <2>1. PICK st \in {"success", "error"}, i \in 1 .. 6 :
           /\ i = Len(rows) + 1 /\ DemoRequest(i, days) \in RequestType /\ days \in Nat
           /\ Save(DemoRequest(i, days), st)
           /\ UNCHANGED <<days, position, count, cache, messages, todo, turn, llm>>
    BY <1>3, DemoSaves
  <2>2. position = "demo" /\ position \notin WithTools
    BY <1>3 DEF DemoCall, WithTools
  <2>3. PICK n \in Nat :
          /\ n = Len(rows) /\ rows' \in Seq(RowType) /\ Len(rows') = n + 1
          /\ DOMAIN rows = 1 .. n /\ DOMAIN rows' = 1 .. n + 1
          /\ \A c \in 1 .. n : rows'[c] = rows[c]
          /\ rows'[n + 1].step = n + 1 /\ rows'[n + 1].request = DemoRequest(i, days)
          /\ Codes' = IF st = "success" THEN Codes \cup {n + 1} ELSE Codes
          /\ Codes \subseteq 1 .. n
    <3>1. PICK r \in RequestType : r = DemoRequest(i, days) /\ Save(r, st)
      BY <2>1
    <3>2. st \in {"success", "error", "timeout"} /\ rows \in Seq(RowType)
      BY Typed
    <3>3. QED
      BY <3>1, <3>2, SaveFacts
  <2>4. \A c \in 1 .. n : rows[c].request = DemoRequest(c, days)
    BY <1>s, <2>2, <2>3 DEF RowShape
  <2>5. \A c \in 1 .. n + 1 : rows'[c].request = DemoRequest(c, days)
    BY <2>1, <2>3, <2>4
  <2>6. n + 1 <= 6
    BY <2>1, <2>3
  <2>7. \A c \in DOMAIN rows' : rows'[c].step = c
    BY <1>s, <2>3 DEF TraceIsReadable
  <2>8. ASSUME NEW c \in DOMAIN rows', NEW d \in DOMAIN rows', c < d PROVE rows'[c].request # rows'[d].request
    <3>1. c \in 1 .. 6 /\ d \in 1 .. 6 /\ c # d /\ c \in 1 .. n + 1 /\ d \in 1 .. n + 1
      BY <2>3, <2>6, <2>8
    <3>2. DemoRequest(c, days) # DemoRequest(d, days)
      BY <3>1, DemoFacts
    <3>3. QED
      BY <2>5, <3>1, <3>2
  <2>9. TraceIsReadable'
    BY <2>7, <2>8 DEF TraceIsReadable
  <2>10. RowShape'
    BY <1>s, <2>1, <2>2, <2>3, <2>5, <2>6, DemoFacts DEF RowShape
  <2>11. QED
    BY <2>9, <2>10
<1>4. CASE Ask
  BY <1>1, <1>4, AskRows DEF DemoCall
<1>5. QED
  BY <1>1, <1>2, <1>3, <1>4, OtherSteps

-----------------------------------------------------------------------------
(* The limits.                                                             *)

LEMMA AddOne ==
  ASSUME NEW S, IsFiniteSet(S), NEW x, x \notin S
  PROVE  Cardinality(S \cup {x}) = Cardinality(S) + 1 /\ Cardinality(S) \in Nat
  BY FS_AddElement, FS_CardinalityType

\* Whether there is a model to ask does not change during an attempt.
LEMMA ModelStays == ASSUME LoopInv, [LoopNext]_loopVars PROVE llm' = llm
<1>1. CASE AnyCall
  BY <1>1, RespondTalk
<1>2. QED
  BY <1>1, AskRows
     DEF LoopNext, Attempt, AnyCall, loopVars, StartContext, StartTools, StartDemo, StartNothing, StartWith,
         BeginPlan, EndPlan, StopAtLimit, DeadlinePasses, Settle, AskFails, AskRaises, Unsupported,
         AbortedCall, FinalAnswer, FinalRetry, FinalRaises, ContextAnswer, ContextRetry, ContextDemo,
         DemoCall, DemoRaises, DemoAnswer, Over

\* Calls that have succeeded are counted, but for the demo's.
LEMMA CountStep == ASSUME LoopInv, [LoopNext]_loopVars PROVE llm' => Cardinality(Codes') <= count'
<1>s. llm => Cardinality(Codes) <= count
  BY DEF LoopInv, LimitShape
<1>1. UNCHANGED llm
  BY ModelStays
<1>2. CASE UNCHANGED <<rows, count>>
  BY <1>s, <1>1, <1>2 DEF Codes
<1>3. CASE AnyCall /\ ~UNCHANGED <<rows, count>>
  <2>1. PICK r \in Requests, st \in {"success", "error", "timeout"} :
            /\ Save(r, st)
            /\ st # "success" => UNCHANGED <<count, cache>>
            /\ st = "success" => Counted(r)
    BY <1>3, CallSaves
  <2>2. PICK n \in Nat :
          /\ Codes' = IF st = "success" THEN Codes \cup {n + 1} ELSE Codes
          /\ Codes \subseteq 1 .. n
    BY <2>1, SaveFacts, Typed
  <2>3. IsFiniteSet(Codes) /\ Cardinality(Codes) \in Nat /\ count \in Nat
    BY CodesFinite, Typed
  <2>4. CASE st = "success"
    <3>1. n + 1 \notin Codes
      BY <2>2
    <3>2. Cardinality(Codes') = Cardinality(Codes) + 1
      BY <2>2, <2>3, <2>4, <3>1, AddOne
    <3>3. QED
      BY <1>s, <1>1, <2>1, <2>3, <2>4, <3>2 DEF Counted
  <2>5. CASE st # "success"
    BY <1>s, <1>1, <2>1, <2>2, <2>5
  <2>6. QED
    BY <2>4, <2>5
<1>4. CASE DemoCall
  BY <1>1, <1>4 DEF DemoCall, LoopInv, StageShape
<1>5. QED
  BY <1>2, <1>3, <1>4, AskRows, OtherSteps

LEMMA LimitStep == ASSUME LoopInv, [LoopNext]_loopVars PROVE LimitShape'
<1>s. LimitShape
  BY DEF LoopInv
<1>t. /\ turn \in Nat /\ CallsPerTurn \in Nat /\ Len(messages) \in Nat /\ Len(todo) \in Nat
      /\ IsFiniteSet(Turns) /\ Cardinality(Turns) \in Nat /\ messages \in Seq(MessageType)
  BY Typed, TurnsFinite, LenFacts
<1>l. llm' = llm
  BY ModelStays
<1> DEFINE Room == turn * (CallsPerTurn + 1)
<1>r. ASSUME turn' = turn + 1
      PROVE  Room \in Nat /\ Room' = Room + CallsPerTurn + 1
  BY <1>r, <1>t
<1>1. CASE UNCHANGED <<messages, todo>> /\ turn' \in {turn, turn + 1} /\ (turn' # turn => MayAsk)
  <2>1. Turns' = Turns
    BY <1>1 DEF Turns
  <2>2. ~llm => turn' = 0
    BY <1>1, <1>s DEF LimitShape, MayAsk, LoopInv, StageShape, WithTools
  <2>3. CASE turn' = turn
    BY <1>1, <1>l, <1>s, <2>1, <2>2, <2>3, CountStep DEF LimitShape
  <2>4. CASE turn' = turn + 1
    <3>1. Room' = Room + CallsPerTurn + 1 /\ Room \in Nat
      BY <1>r, <2>4
    <3>2. Len(messages) + Len(todo) <= Room /\ Cardinality(Turns) <= turn
      BY <1>s DEF LimitShape
    <3> HIDE DEF Room
    <3>3. Len(messages) + Len(todo) <= Room' /\ Cardinality(Turns) <= turn'
      BY <1>t, <2>4, <3>1, <3>2
    <3> USE DEF Room
    <3>4. QED
      BY <1>1, <1>l, <2>1, <2>2, <3>3, CountStep DEF LimitShape
  <2>5. QED
    BY <1>1, <2>3, <2>4
<1>2. CASE Ask
  <2>1. PICK ids : /\ messages' = Append(messages, [role |-> "assistant", calls |-> ids, said |-> "calls"])
                   /\ ids \in Seq(CallIds) /\ Len(ids) <= CallsPerTurn
                   /\ todo' \in Seq(Waiting) /\ Len(todo') = Len(ids)
    BY <1>2, AskTalk
  <2>2. turn' = turn + 1 /\ llm
    BY <1>2 DEF Ask, MayAsk, LoopInv, StageShape, WithTools
  <2> DEFINE e == [role |-> "assistant", calls |-> ids, said |-> "calls"]
  <2>3. e \in MessageType /\ e.role = "assistant"
    BY <2>1 DEF MessageType
  <2> HIDE DEF e
  <2>4. /\ Len(messages') = Len(messages) + 1 /\ messages'[Len(messages) + 1] = e
        /\ \A k \in 1 .. Len(messages) : messages'[k] = messages[k]
        /\ DOMAIN messages' = 1 .. Len(messages) + 1 /\ DOMAIN messages = 1 .. Len(messages)
    BY <1>t, <2>1, <2>3, AppendFacts DEF e
  <2>5. Turns' = Turns \cup {Len(messages) + 1} /\ Len(messages) + 1 \notin Turns
    BY <1>t, <2>3, <2>4 DEF Turns
  <2>6. Cardinality(Turns') = Cardinality(Turns) + 1
    BY <1>t, <2>5, AddOne
  <2>7. Cardinality(Turns') <= turn'
    BY <1>s, <1>t, <2>2, <2>6 DEF LimitShape
  <2>8. Room' = Room + CallsPerTurn + 1 /\ Room \in Nat /\ Len(ids) \in Nat
    BY <1>r, <2>1, <2>2
  <2>9. Len(messages) + Len(todo) <= Room
    BY <1>s DEF LimitShape
  <2> HIDE DEF Room
  <2>10. Len(messages') + Len(todo') <= Room'
    BY <1>t, <2>1, <2>4, <2>8, <2>9
  <2> USE DEF Room
  <2>11. QED
    BY <1>l, <2>2, <2>7, <2>10, CountStep DEF LimitShape
<1>3. CASE AnyCall
  <2>1. PICK said \in {"result", "error", "limit"} :
           /\ todo # <<>> /\ todo[1].id \in CallIds
           /\ messages' = Append(messages, [role |-> "tool", calls |-> <<todo[1].id>>, said |-> said])
           /\ Len(todo') = Len(todo) - 1 /\ turn' = turn
    BY <1>3, RespondTalk
  <2> DEFINE e == [role |-> "tool", calls |-> <<todo[1].id>>, said |-> said]
  <2>2. e \in MessageType /\ e.role = "tool"
    BY <2>1 DEF MessageType
  <2> HIDE DEF e
  <2>3. /\ Len(messages') = Len(messages) + 1 /\ messages'[Len(messages) + 1] = e
        /\ \A k \in 1 .. Len(messages) : messages'[k] = messages[k]
        /\ DOMAIN messages' = 1 .. Len(messages) + 1 /\ DOMAIN messages = 1 .. Len(messages)
    BY <1>t, <2>1, <2>2, AppendFacts DEF e
  <2>4. Turns' = Turns
    BY <1>t, <2>2, <2>3 DEF Turns
  <2>5. Len(messages') + Len(todo') = Len(messages) + Len(todo)
    BY <1>t, <2>1, <2>3
  <2>6. QED
    BY <1>l, <1>s, <2>1, <2>4, <2>5, CountStep DEF LimitShape
<1>4. CASE DemoCall
  BY <1>1, <1>4 DEF DemoCall
<1>5. QED
  BY <1>1, <1>2, <1>3, <1>4, OtherSteps

LEMMA LimitsAreHeld == LoopInv => LimitsHold
<1> SUFFICES ASSUME LoopInv PROVE LimitsHold
  OBVIOUS
<1>1. /\ turn \in Nat /\ turn <= MaxAnalysisSteps /\ MaxAnalysisSteps \in Nat /\ CallsPerTurn \in Nat
      /\ count \in Nat /\ count <= MaxToolCalls /\ MaxToolCalls \in Nat
      /\ Len(messages) \in Nat /\ Len(todo) \in Nat
      /\ Cardinality(Turns) \in Nat /\ Cardinality(Codes) \in Nat
  BY Typed, TurnsFinite, CodesFinite, LenFacts
<1>2. /\ Cardinality(Turns) <= turn
      /\ Len(messages) + Len(todo) <= turn * (CallsPerTurn + 1)
      /\ llm => Cardinality(Codes) <= count
      /\ ~llm => turn = 0
  BY DEF LoopInv, LimitShape
<1>3. turn * (CallsPerTurn + 1) <= MaxAnalysisSteps * (CallsPerTurn + 1)
  <2>1. PICK k \in Nat : MaxAnalysisSteps = turn + k
    <3>1. MaxAnalysisSteps - turn \in Nat /\ MaxAnalysisSteps = turn + (MaxAnalysisSteps - turn)
      BY <1>1
    <3>2. QED
      BY <3>1
  <2>2. MaxAnalysisSteps * (CallsPerTurn + 1) = turn * (CallsPerTurn + 1) + k * (CallsPerTurn + 1)
    BY <1>1, <2>1
  <2>3. k * (CallsPerTurn + 1) \in Nat /\ turn * (CallsPerTurn + 1) \in Nat
    BY <1>1, <2>1
  <2>4. QED
    BY <2>2, <2>3
<1>4. turn * (CallsPerTurn + 1) \in Nat /\ MaxAnalysisSteps * (CallsPerTurn + 1) \in Nat
  BY <1>1
<1>5. Len(messages) <= MaxAnalysisSteps * (CallsPerTurn + 1)
  BY <1>1, <1>2, <1>3, <1>4
<1>6. QED
  BY <1>1, <1>2, <1>5 DEF LimitsHold

-----------------------------------------------------------------------------
(* The warning.                                                            *)

\* Only settling gives a final status.
LEMMA SettledOnly ==
  ASSUME LoopInv, [LoopNext]_loopVars, status' \in Ended
  PROVE  \/ Settle
         \/ UNCHANGED <<status, llm, mode, messages, turn>>
<1>s. position = "settled" \/ status \notin Ended
  BY DEF LoopInv, StageShape, Stage, Ended, RecordIsWhole, LoopTypeOK
<1> USE DEF loop, answer, Ended
<1>1. CASE StartContext \/ StartTools \/ StartDemo \/ StartNothing
  BY <1>1 DEF StartContext, StartTools, StartDemo, StartNothing, StartWith
<1>2. CASE BeginPlan \/ EndPlan \/ StopAtLimit
  BY <1>2 DEF BeginPlan, EndPlan, StopAtLimit
<1>3. CASE Ask \/ AskFails \/ AskRaises \/ Unsupported
  BY <1>3, <1>s DEF MayAsk, Ask, AskFails, AskRaises, Unsupported
<1>4. CASE AbortedCall
  BY <1>4, <1>s DEF AbortedCall, Handled, Execute
<1>5. CASE AnyCall
  <2>1. position = "calls" /\ \E said, cut : Respond(said, cut)
    BY <1>5, CallResponds
  <2>2. status' \notin Ended
    BY <1>s, <2>1 DEF Respond
  <2>3. QED
    BY <2>2
<1>6. CASE FinalAnswer \/ FinalRetry \/ FinalRaises \/ ContextAnswer \/ ContextRetry \/ ContextDemo
  BY <1>6, <1>s DEF FinalAnswer, FinalRetry, FinalRaises, ContextAnswer, ContextRetry, ContextDemo
<1>7. CASE DemoCall \/ DemoRaises \/ DemoAnswer
  BY <1>7, <1>s DEF DemoCall, DemoRaises, DemoAnswer
<1>8. CASE DeadlinePasses \/ Over \/ UNCHANGED loopVars
  BY <1>8 DEF DeadlinePasses, Over, loopVars
<1>9. QED
  BY <1>1, <1>2, <1>3, <1>4, <1>5, <1>6, <1>7, <1>8 DEF LoopNext, Attempt, AnyCall

LEMMA NoWarningStep == ASSUME LoopInv, [LoopNext]_loopVars PROVE NoWarningMeansWhole'
<1>1. CASE status' # "completed"
  BY <1>1 DEF NoWarningMeansWhole
<1>2. CASE status' = "completed"
  <2>1. CASE Settle
    <3>1. position = "done" /\ result.given /\ ~warned /\ UNCHANGED <<llm, mode, messages, turn>>
      BY <1>2, <2>1 DEF Settle, loop
    <3>2. llm => Whole
      BY <3>1 DEF LoopInv, WarningShape
    <3>3. QED
      BY <3>1, <3>2 DEF NoWarningMeansWhole, Whole
  <2>2. CASE UNCHANGED <<status, llm, mode, messages, turn>>
    BY <2>2 DEF LoopInv, NoWarningMeansWhole, Whole
  <2>3. QED
    BY <1>2, <2>1, <2>2, SettledOnly DEF Ended
<1>3. QED
  BY <1>1, <1>2

LEMMA WarningStep == ASSUME LoopInv, [LoopNext]_loopVars PROVE WarningShape'
<1>s. WarningShape
  BY DEF LoopInv
<1>g. StageShape
  BY DEF LoopInv
<1>r. position \notin {"done", "settled", "raised"} => ~result.given
  BY DEF LoopInv, StageShape, Stage, NoResult, RecordIsWhole, LoopTypeOK
<1>m. ~llm => ~llm'
  BY ModelStays
<1>w. ASSUME UNCHANGED <<mode, messages, turn>> PROVE Whole' <=> Whole
  BY <1>w DEF Whole
<1> USE DEF loop, answer
<1>1. CASE StartContext
  <2>1. mode' = "single_context" /\ messages' = <<>> /\ turn' = 0 /\ position' = "context"
    BY <1>1, <1>g DEF StartContext, StartWith, StageShape, Blank
  <2>2. QED
    BY <2>1 DEF WarningShape, Whole
<1>2. CASE StartTools \/ StartDemo \/ StartNothing
  BY <1>2, <1>m DEF StartTools, StartDemo, StartNothing, StartWith, WarningShape
<1>3. CASE BeginPlan \/ EndPlan \/ StopAtLimit \/ Settle
  BY <1>3 DEF BeginPlan, EndPlan, StopAtLimit, Settle, WarningShape
<1>4. CASE AskFails \/ AskRaises \/ Unsupported
  BY <1>4 DEF AskFails, AskRaises, Unsupported, WarningShape
<1>5. CASE Ask
  <2>1. PICK ids : /\ messages' = Append(messages, [role |-> "assistant", calls |-> ids, said |-> "calls"])
                   /\ ids \in Seq(CallIds)
                   /\ IF ids = <<>> THEN position' = "final" ELSE position' = "calls"
    BY <1>5, AskTalk
  <2>2. mode' = "tool_calling"
    BY <1>5, <1>g DEF Ask, MayAsk, StageShape, WithTools
  <2>3. CASE ids = <<>>
    <3> DEFINE e == [role |-> "assistant", calls |-> ids, said |-> "calls"]
    <3>1. e \in MessageType /\ e.role = "assistant" /\ e.calls = <<>>
      BY <2>1, <2>3 DEF MessageType
    <3> HIDE DEF e
    <3>2. messages' = Append(messages, e) /\ messages \in Seq(MessageType)
      BY <2>1, Typed DEF e
    <3>3. messages' \in Seq(MessageType) /\ Len(messages') # 0 /\ messages'[Len(messages')] = e
      BY <3>1, <3>2, AppendFacts
    <3>4. messages' # <<>>
      BY <3>3
    <3>5. QED
      BY <2>1, <2>2, <2>3, <3>1, <3>3, <3>4 DEF WarningShape, Whole
  <2>4. CASE ids # <<>>
    BY <2>1, <2>4 DEF WarningShape
  <2>5. QED
    BY <2>3, <2>4
<1>6. CASE AnyCall
  <2>1. IF Len(todo) > 1 THEN position' = "calls" ELSE position' \in {"final", "ask"}
    BY <1>6, RespondTalk
  <2>2. position' = "final" => limit'
    BY <1>6, RespondTalk
  <2>3. QED
    BY <2>1, <2>2 DEF WarningShape
<1>7. CASE AbortedCall \/ FinalRaises \/ DemoRaises
  BY <1>7 DEF AbortedCall, FinalRaises, DemoRaises, WarningShape
<1>8. CASE FinalAnswer
  BY <1>8, <1>s, <1>w DEF FinalAnswer, WarningShape
<1>9. CASE FinalRetry
  BY <1>9, <1>s, <1>w, <1>r DEF FinalRetry, WarningShape
<1>10. CASE ContextAnswer
  BY <1>10, <1>s, <1>w DEF ContextAnswer, WarningShape
<1>11. CASE ContextRetry
  BY <1>11, <1>s, <1>w, <1>r DEF ContextRetry, WarningShape
<1>12. CASE ContextDemo
  BY <1>12, <1>m DEF ContextDemo, WarningShape
<1>13. CASE DemoCall \/ DemoAnswer
  BY <1>13, <1>g, <1>m DEF DemoCall, DemoAnswer, WarningShape, StageShape
<1>14. CASE DeadlinePasses \/ Over \/ UNCHANGED loopVars
  BY <1>14, <1>s, <1>w DEF DeadlinePasses, Over, loopVars, WarningShape
<1>15. QED
  BY <1>1, <1>2, <1>3, <1>4, <1>5, <1>6, <1>7, <1>8, <1>9, <1>10, <1>11, <1>12, <1>13, <1>14
     DEF LoopNext, Attempt, AnyCall

-----------------------------------------------------------------------------
(* Types, and what an analysis cites.                                      *)

LEMMA TalkType ==
  ASSUME LoopInv, [LoopNext]_loopVars
  PROVE  /\ messages' \in Seq(MessageType) /\ todo' \in Seq(Waiting)
         /\ turn' \in 0 .. MaxAnalysisSteps
<1>t. /\ messages \in Seq(MessageType) /\ todo \in Seq(Waiting) /\ turn \in 0 .. MaxAnalysisSteps
      /\ MaxAnalysisSteps \in Nat
  BY Typed
<1>a. MayAsk /\ turn' = turn + 1 => turn' \in 0 .. MaxAnalysisSteps
  BY <1>t DEF MayAsk, OutOfTurns
<1>1. CASE Ask
  <2>1. PICK ids : /\ messages' = Append(messages, [role |-> "assistant", calls |-> ids, said |-> "calls"])
                   /\ ids \in Seq(CallIds) /\ todo' \in Seq(Waiting)
    BY <1>1, AskTalk
  <2>2. [role |-> "assistant", calls |-> ids, said |-> "calls"] \in MessageType
    BY <2>1 DEF MessageType
  <2>3. messages' \in Seq(MessageType)
    BY <1>t, <2>1, <2>2, AppendFacts
  <2>4. QED
    BY <1>a, <1>1, <2>1, <2>3 DEF Ask
<1>2. CASE AnyCall
  <2>1. PICK said \in {"result", "error", "limit"} :
           /\ todo[1].id \in CallIds
           /\ messages' = Append(messages, [role |-> "tool", calls |-> <<todo[1].id>>, said |-> said])
           /\ todo' \in Seq(Waiting) /\ turn' = turn
    BY <1>2, RespondTalk
  <2>2. [role |-> "tool", calls |-> <<todo[1].id>>, said |-> said] \in MessageType
    BY <2>1 DEF MessageType
  <2>3. messages' \in Seq(MessageType)
    BY <1>t, <2>1, <2>2, AppendFacts
  <2>4. QED
    BY <1>t, <2>1, <2>3
<1>3. CASE DemoCall
  BY <1>t, <1>3 DEF DemoCall
<1>4. QED
  BY <1>t, <1>a, <1>1, <1>2, <1>3, OtherSteps

LEMMA RowType1 ==
  ASSUME LoopInv, [LoopNext]_loopVars
  PROVE  /\ rows' \in Seq(RowType) /\ count' \in 0 .. MaxToolCalls
         /\ DOMAIN cache' \subseteq Requests /\ \A r \in DOMAIN cache' : cache'[r] \in Nat
<1>t. /\ rows \in Seq(RowType) /\ count \in 0 .. MaxToolCalls /\ MaxToolCalls \in Nat
      /\ DOMAIN cache \subseteq Requests /\ \A r \in DOMAIN cache : cache[r] \in Nat
      /\ Requests \subseteq RequestType
  BY Typed
<1>1. CASE UNCHANGED <<count, rows, cache>>
  BY <1>t, <1>1
<1>2. CASE AnyCall /\ ~UNCHANGED <<count, rows, cache>>
  <2>1. PICK r \in Requests, st \in {"success", "error", "timeout"} :
              /\ Save(r, st) /\ count < MaxToolCalls
              /\ st # "success" => UNCHANGED <<count, cache>>
              /\ st = "success" => Counted(r)
    BY <1>2, CallSaves
  <2>2. rows' \in Seq(RowType) /\ Len(rows) \in Nat
    BY <1>t, <2>1, SaveFacts
  <2>3. count' \in 0 .. MaxToolCalls
    BY <1>t, <2>1 DEF Counted
  <2>4. DOMAIN cache' \subseteq Requests /\ \A q \in DOMAIN cache' : cache'[q] \in Nat
    BY <1>t, <2>1, <2>2 DEF Counted
  <2>5. QED
    BY <2>2, <2>3, <2>4
<1>3. CASE DemoCall
  <2>1. PICK st \in {"success", "error"}, i \in 1 .. 6 :
           /\ DemoRequest(i, days) \in RequestType /\ Save(DemoRequest(i, days), st)
           /\ UNCHANGED <<count, cache>>
    BY <1>3, DemoSaves
  <2>2. PICK r \in RequestType : Save(r, st)
    BY <2>1
  <2>3. rows' \in Seq(RowType)
    BY <1>t, <2>1, <2>2, SaveFacts
  <2>4. QED
    BY <1>t, <2>1, <2>3
<1>4. CASE Ask
  BY <1>1, <1>4, AskRows
<1>5. QED
  BY <1>1, <1>2, <1>3, <1>4, OtherSteps

\* The number of codes up to n, one more for each that is there.
UpTo(n) == {d \in Codes : d <= n}

LEMMA UpToStep ==
  ASSUME rows \in Seq(RowType), NEW n \in Nat
  PROVE  /\ Cardinality(UpTo(n)) \in Nat
         /\ Cardinality(UpTo(n + 1)) = IF n + 1 \in Codes THEN Cardinality(UpTo(n)) + 1
                                                        ELSE Cardinality(UpTo(n))
<1>1. IsFiniteSet(UpTo(n)) /\ Cardinality(UpTo(n)) \in Nat /\ \A d \in Codes : d \in Nat
  <2>1. IsFiniteSet(Codes) /\ Codes \subseteq 1 .. Len(rows) /\ Len(rows) \in Nat
    BY CodesFinite
  <2>2. UpTo(n) \subseteq Codes
    BY DEF UpTo
  <2>3. QED
    BY <2>1, <2>2, FS_Subset, FS_CardinalityType
<1>2. CASE n + 1 \in Codes
  <2>1. UpTo(n + 1) = UpTo(n) \cup {n + 1} /\ n + 1 \notin UpTo(n)
    BY <1>1, <1>2 DEF UpTo
  <2>2. QED
    BY <1>1, <1>2, <2>1, AddOne
<1>3. CASE n + 1 \notin Codes
  <2>1. UpTo(n + 1) = UpTo(n)
    BY <1>1, <1>3 DEF UpTo
  <2>2. QED
    BY <1>1, <1>3, <2>1
<1>4. QED
  BY <1>2, <1>3

\* What the demo cites are calls of its own that have succeeded.
LEMMA DemoCited ==
  ASSUME LoopInv, position = "demo", NEW i \in 1 .. Cardinality(Codes)
  PROVE  DemoCitation(i).code \in Codes /\ DemoCitation(i).tool \in Tools
<1> DEFINE G(n) == Cardinality(UpTo(n))
<1>t. rows \in Seq(RowType)
  BY Typed
<1>1. Codes \subseteq 1 .. 6
  <2>1. Len(rows) <= 6
    BY DemoFacts DEF LoopInv, RowShape
  <2>2. QED
    BY <1>t, <2>1, CodesFinite
<1>2. UpTo(0) = {} /\ UpTo(6) = Codes
  <2>1. \A d \in Codes : d <= 6 /\ ~(d <= 0)
    BY <1>1
  <2>2. QED
    BY <2>1 DEF UpTo
<1>3. G(0) = 0 /\ G(6) = Cardinality(Codes)
  BY <1>2, FS_EmptySet
<1>4. /\ G(1) = IF 1 \in Codes THEN G(0) + 1 ELSE G(0)
      /\ G(2) = IF 2 \in Codes THEN G(1) + 1 ELSE G(1)
      /\ G(3) = IF 3 \in Codes THEN G(2) + 1 ELSE G(2)
      /\ G(4) = IF 4 \in Codes THEN G(3) + 1 ELSE G(3)
      /\ G(5) = IF 5 \in Codes THEN G(4) + 1 ELSE G(4)
      /\ G(6) = IF 6 \in Codes THEN G(5) + 1 ELSE G(5)
  <2>1. \A n \in Nat : G(n + 1) = IF n + 1 \in Codes THEN G(n) + 1 ELSE G(n)
    BY <1>t, UpToStep
  <2> HIDE DEF G
  <2>2. /\ G(0 + 1) = IF 0 + 1 \in Codes THEN G(0) + 1 ELSE G(0)
        /\ G(1 + 1) = IF 1 + 1 \in Codes THEN G(1) + 1 ELSE G(1)
        /\ G(2 + 1) = IF 2 + 1 \in Codes THEN G(2) + 1 ELSE G(2)
        /\ G(3 + 1) = IF 3 + 1 \in Codes THEN G(3) + 1 ELSE G(3)
        /\ G(4 + 1) = IF 4 + 1 \in Codes THEN G(4) + 1 ELSE G(4)
        /\ G(5 + 1) = IF 5 + 1 \in Codes THEN G(5) + 1 ELSE G(5)
    BY <2>1
  <2>3. QED
    BY <2>2
<1> HIDE DEF G
<1>5. i \in 1 .. G(6) /\ i \in 1 .. 6
  BY <1>3, <1>4
<1>6. \E n \in 1 .. 6 : n \in Codes /\ G(n) = i
  BY <1>3, <1>4, <1>5
<1>7. PICK c \in Codes : Cardinality({d \in Codes : d <= c}) = i
  BY <1>6 DEF G, UpTo
<1>8. (CHOOSE e \in Codes : Cardinality({d \in Codes : d <= e}) = i) \in Codes
  BY <1>7
<1>9. QED
  BY <1>5, <1>8, DemoFacts DEF DemoCitation

ResultType == [given : BOOLEAN, refs : SUBSET [code : Nat, tool : Tools \cup {"unlisted"}]]

LEMMA ResultOf ==
  ASSUME NEW refs \in SUBSET [code : Nat, tool : Tools \cup {"unlisted"}]
  PROVE  Result(refs) \in ResultType /\ Result(refs).refs = refs
  BY DEF Result, ResultType

LEMMA RowTool ==
  ASSUME rows \in Seq(RowType), NEW c \in DOMAIN rows
  PROVE  rows[c].request.tool \in Tools \cup {"unlisted"}
<1>1. rows[c] \in RowType
  OBVIOUS
<1>2. rows[c].request \in RequestType
  BY <1>1 DEF RowType
<1>3. QED
  BY <1>2 DEF RequestType

\* A result is what it should be, and with tools it cites what has succeeded.
LEMMA ResultStep ==
  ASSUME LoopInv, [LoopNext]_loopVars
  PROVE  /\ result' \in ResultType
         /\ result' # result /\ mode = "tool_calling" => \A ref \in result'.refs : ref.code \in Codes
<1>t. /\ rows \in Seq(RowType) /\ Len(rows) \in Nat /\ \A c \in Codes : c \in Nat
      /\ result \in ResultType
  BY Typed, CodesFinite DEF LoopInv, RecordIsWhole, LoopTypeOK, ResultType
<1> USE DEF loop, answer
<1>1. CASE UNCHANGED result
  BY <1>t, <1>1
<1>2. CASE FinalAnswer
  <2>1. PICK refs \in SUBSET Citable : result' = Result(Sanitized(refs))
    BY <1>2 DEF FinalAnswer
  <2>2. Citable \subseteq [code : Nat, tool : Tools \cup {"unlisted"}]
    <3> SUFFICES ASSUME NEW c \in 1 .. Len(rows) + 1
                 PROVE  [code |-> c, tool |-> IF c \in DOMAIN rows THEN rows[c].request.tool ELSE "unlisted"]
                          \in [code : Nat, tool : Tools \cup {"unlisted"}]
      BY DEF Citable
    <3>1. c \in Nat
      BY <1>t
    <3>2. QED
      BY <1>t, <3>1, RowTool
  <2>3. Sanitized(refs) \subseteq refs /\ \A ref \in Sanitized(refs) : ref.code \in Codes
    BY DEF Sanitized
  <2>4. QED
    BY <2>1, <2>2, <2>3, ResultOf
<1>3. CASE ContextAnswer
  <2>1. PICK refs \in {{}, {[code |-> Len(rows) + 1, tool |-> "unlisted"]}} : result' = Result(refs)
    BY <1>3 DEF ContextAnswer
  <2>2. refs \subseteq [code : Nat, tool : Tools \cup {"unlisted"}]
    BY <1>t
  <2>3. mode = "single_context"
    BY <1>3 DEF ContextAnswer, LoopInv, StageShape
  <2>4. QED
    BY <2>1, <2>2, <2>3, ResultOf
<1>4. CASE ContextDemo
  BY <1>4, ResultOf DEF ContextDemo
<1>5. CASE DemoAnswer
  <2> DEFINE refs == {DemoCitation(i) : i \in 1 .. Cardinality(Codes)}
  <2>1. position = "demo" /\ result' = Result(refs)
    BY <1>5 DEF DemoAnswer
  <2>2. ASSUME NEW ref \in refs
        PROVE  ref \in [code : Nat, tool : Tools \cup {"unlisted"}] /\ ref.code \in Codes
    <3>1. PICK i \in 1 .. Cardinality(Codes) : ref = DemoCitation(i)
      OBVIOUS
    <3>2. ref.code \in Codes /\ ref.tool \in Tools
      BY <2>1, <3>1, DemoCited
    <3>3. ref = [code |-> ref.code, tool |-> ref.tool]
      BY <3>1 DEF DemoCitation
    <3>4. ref.code \in Nat
      BY <1>t, <3>2
    <3>5. QED
      BY <3>2, <3>3, <3>4
  <2> HIDE DEF refs
  <2>3. QED
    BY <2>1, <2>2, ResultOf
<1>6. ASSUME ~FinalAnswer, ~ContextAnswer, ~ContextDemo, ~DemoAnswer PROVE UNCHANGED result
  <2>1. CASE AnyCall
    <3>1. \E said, cut : Respond(said, cut)
      BY <2>1, CallResponds
    <3>2. QED
      BY <3>1 DEF Respond
  <2>2. QED
    BY <1>6, <2>1
       DEF LoopNext, Attempt, AnyCall, loopVars, StartContext, StartTools, StartDemo, StartNothing, StartWith,
           BeginPlan, EndPlan, StopAtLimit, DeadlinePasses, Settle, Ask, AskFails, AskRaises, Unsupported,
           AbortedCall, FinalRetry, FinalRaises, ContextRetry, DemoCall, DemoRaises, Over
<1>7. QED
  BY <1>1, <1>2, <1>3, <1>4, <1>5, <1>6

Places == {"idle", "plan", "planning", "ask", "calls", "final", "context",
           "demo", "done", "settled", "raised"}
States == Ended \cup {"not_analyzed", "queued", "planning", "collecting_data",
                      "generating_analysis", "analyzing"}

LEMMA StateType ==
  ASSUME LoopInv, [LoopNext]_loopVars
  PROVE  /\ days' \in PeriodDays \cup {0} /\ position' \in Places /\ status' \in States
         /\ mode' \in {"single_context", "tool_calling"} /\ late' \in BOOLEAN /\ limit' \in BOOLEAN
         /\ warned' \in BOOLEAN /\ tries' \in 0 .. 2 /\ fault' \in {"none", "answer", "database"}
<1>t. /\ days \in PeriodDays \cup {0} /\ position \in Places /\ status \in States
      /\ mode \in {"single_context", "tool_calling"} /\ late \in BOOLEAN /\ limit \in BOOLEAN
      /\ warned \in BOOLEAN /\ tries \in 0 .. 2 /\ fault \in {"none", "answer", "database"}
  BY DEF LoopInv, RecordIsWhole, LoopTypeOK, Places, States
<1> USE DEF loop, answer, Places, States, Ended
<1>1. CASE StartContext \/ StartTools \/ StartDemo \/ StartNothing
  BY <1>1, <1>t DEF StartContext, StartTools, StartDemo, StartNothing, StartWith
<1>2. CASE BeginPlan \/ EndPlan \/ StopAtLimit \/ Settle
  BY <1>2, <1>t DEF BeginPlan, EndPlan, StopAtLimit, Settle
<1>3. CASE Ask \/ AskFails \/ AskRaises \/ Unsupported
  <2>1. Ask => /\ position' \in {"final", "calls"} /\ status' \in {"generating_analysis", status}
               /\ UNCHANGED <<days, mode, late, answer>>
    BY DEF Ask
  <2>2. CASE Ask
    BY <1>t, <2>1, <2>2
  <2>3. CASE AskFails \/ AskRaises
    BY <1>t, <2>3 DEF AskFails, AskRaises
  <2>4. CASE Unsupported
    BY <1>t, <2>4 DEF Unsupported
  <2>5. QED
    BY <1>3, <2>2, <2>3, <2>4
<1>4. CASE AnyCall
  <2>1. PICK said \in {"result", "error", "limit"}, cut \in BOOLEAN : Respond(said, cut)
    BY <1>4, CallResponds
  <2>2. late' = late /\ fault' = fault
    BY <1>4 DEF Respond, AnyCall, RefuseCall, UnreadableCall, CachedCall, FailedCall, SlowCall, SuccessfulCall
  <2>3. QED
    BY <2>1, <2>2, <1>t DEF Respond
<1>5. CASE AbortedCall
  BY <1>5, <1>t DEF AbortedCall
<1>6. CASE FinalAnswer \/ FinalRaises \/ ContextAnswer \/ ContextDemo
  BY <1>6, <1>t DEF FinalAnswer, FinalRaises, ContextAnswer, ContextDemo
<1>7. CASE FinalRetry \/ ContextRetry
  <2>1. tries < 2
    BY <1>7 DEF FinalRetry, ContextRetry, LoopInv, StageShape
  <2>2. QED
    BY <1>7, <1>t, <2>1 DEF FinalRetry, ContextRetry
<1>8. CASE DemoCall \/ DemoRaises \/ DemoAnswer
  BY <1>8, <1>t DEF DemoCall, DemoRaises, DemoAnswer
<1>9. CASE DeadlinePasses \/ Over \/ UNCHANGED loopVars
  BY <1>9, <1>t DEF DeadlinePasses, Over, loopVars
<1>10. QED
  BY <1>1, <1>2, <1>3, <1>4, <1>5, <1>6, <1>7, <1>8, <1>9 DEF LoopNext, Attempt, AnyCall

LEMMA LoopTypeStep == ASSUME LoopInv, [LoopNext]_loopVars PROVE LoopTypeOK'
<1>1. llm' \in BOOLEAN
  BY ModelStays, Typed
<1>2. QED
  BY <1>1, TalkType, RowType1, ResultStep, StateType DEF LoopTypeOK, Waiting, ResultType, Places, States

-----------------------------------------------------------------------------
(* The invariant, and what it is for.                                      *)

LEMMA InitInv == LoopInit => LoopInv
<1> SUFFICES ASSUME LoopInit PROVE LoopInv
  OBVIOUS
<1>1. Turns = {} /\ Codes = {} /\ Len(messages) = 0 /\ Len(todo) = 0 /\ DOMAIN rows = {} /\ DOMAIN cache = {}
  BY DEF LoopInit, Turns, Codes
<1>2. rows \in Seq(RowType) /\ messages \in Seq(MessageType) /\ todo \in Seq(Waiting)
  BY DEF LoopInit
<1>3. result \in ResultType
  BY DEF LoopInit, NoResult, ResultType
<1>4. LoopTypeOK
  <2>1. DOMAIN cache \subseteq Requests /\ \A r \in DOMAIN cache : cache[r] \in Nat
    BY <1>1
  <2>2. turn \in 0 .. MaxAnalysisSteps /\ count \in 0 .. MaxToolCalls /\ tries \in 0 .. 2
    BY LimitsArePositive DEF LoopInit
  <2>3. /\ llm \in BOOLEAN /\ days \in PeriodDays \cup {0} /\ position \in Places /\ status \in States
        /\ mode \in {"single_context", "tool_calling"} /\ late \in BOOLEAN /\ limit \in BOOLEAN
        /\ warned \in BOOLEAN /\ fault \in {"none", "answer", "database"}
    BY DEF LoopInit, Places, States
  <2>4. QED
    BY <1>2, <1>3, <2>1, <2>2, <2>3 DEF LoopTypeOK, Waiting, ResultType, Places, States
<1>5. EveryCallAnswered /\ TraceIsReadable
  BY <1>1 DEF LoopInit, EveryCallAnswered, TraceIsReadable
<1>6. StageShape
  BY DEF LoopInit, StageShape, Stage, Blank, WithTools
<1>7. TalkShape /\ RowShape
  BY <1>1 DEF LoopInit, TalkShape, RowShape, WithTools
<1>8. LimitShape
  BY <1>1, FS_EmptySet, LimitsArePositive DEF LoopInit, LimitShape
<1>9. WarningShape /\ NoWarningMeansWhole
  BY DEF LoopInit, WarningShape, NoWarningMeansWhole
<1>10. QED
  BY <1>4, <1>5, <1>6, <1>7, <1>8, <1>9 DEF LoopInv, RecordIsWhole

LEMMA StepInv == LoopInv /\ [LoopNext]_loopVars => LoopInv'
<1> SUFFICES ASSUME LoopInv, [LoopNext]_loopVars PROVE LoopInv'
  OBVIOUS
<1>1. TalkShape' /\ EveryCallAnswered'
  BY TalkStep DEF TalkShape, EveryCallAnswered
<1>2. QED
  BY <1>1, LoopTypeStep, StageStep, TraceStep, LimitStep, WarningStep, NoWarningStep DEF LoopInv, RecordIsWhole

\* Every reachable state satisfies the inductive invariant.
THEOREM LoopInvariantCorrect == LoopSpec => []LoopInv
  BY InitInv, StepInv, PTL DEF LoopSpec

\* The record of an attempt is whole: every call of the model is answered in
\* its turn, and the trace is numbered and holds no success twice.
THEOREM RecordIsWholeCorrect == LoopSpec => []RecordIsWhole
<1>1. LoopInv => RecordIsWhole
  BY DEF LoopInv
<1>2. QED
  BY <1>1, LoopInvariantCorrect, PTL

\* The limits of an attempt hold whatever the model asks for.
THEOREM LimitsHoldCorrect == LoopSpec => []LimitsHold
  BY LimitsAreHeld, LoopInvariantCorrect, PTL

\* Someone who watches an attempt sees it move forward only.
LEMMA ForwardStep == ASSUME LoopInv, [LoopNext]_loopVars PROVE status' = status \/ Rank[status] < Rank[status']
<1>s. StageShape
  BY DEF LoopInv
<1>d. DOMAIN Stage = {"idle", "plan", "planning", "ask", "calls", "final", "context", "demo"}
  BY DEF Stage
<1>v. /\ Stage["idle"] = "not_analyzed" /\ Stage["plan"] = "queued" /\ Stage["planning"] = "planning"
      /\ Stage["ask"] = "collecting_data" /\ Stage["calls"] = "collecting_data"
      /\ Stage["final"] = "generating_analysis" /\ Stage["context"] = "analyzing"
      /\ Stage["demo"] = "queued"
  BY DEF Stage
<1>k. /\ Rank["not_analyzed"] = 0 /\ Rank["queued"] = 1 /\ Rank["planning"] = 2
      /\ Rank["collecting_data"] = 3 /\ Rank["generating_analysis"] = 4 /\ Rank["analyzing"] = 5
      /\ \A s \in Ended : Rank[s] = 6
  BY DEF Rank, Ended
<1> USE DEF StageShape, WithTools, loop, answer
<1>1. CASE StartContext \/ StartTools \/ StartDemo \/ StartNothing
  BY <1>1, <1>s, <1>d, <1>v, <1>k DEF StartContext, StartTools, StartDemo, StartNothing, StartWith
<1>2. CASE BeginPlan \/ EndPlan \/ StopAtLimit
  BY <1>2, <1>s, <1>d, <1>v, <1>k DEF BeginPlan, EndPlan, StopAtLimit
<1>3. CASE Ask \/ AskFails \/ AskRaises \/ Unsupported
  <2>1. Ask => position = "ask" /\ status' \in {"generating_analysis", status}
    BY DEF Ask, MayAsk
  <2>2. QED
    BY <1>3, <1>s, <1>d, <1>v, <1>k, <2>1 DEF MayAsk, AskFails, AskRaises, Unsupported
<1>4. CASE AnyCall
  <2>1. position = "calls" /\ \E said, cut : Respond(said, cut)
    BY <1>4, CallResponds
  <2>2. QED
    BY <1>s, <1>d, <1>v, <1>k, <2>1 DEF Respond
<1>5. CASE AbortedCall
  BY <1>5 DEF AbortedCall
<1>6. CASE FinalAnswer \/ FinalRetry \/ FinalRaises \/ ContextAnswer \/ ContextRetry \/ ContextDemo
  BY <1>6 DEF FinalAnswer, FinalRetry, FinalRaises, ContextAnswer, ContextRetry, ContextDemo
<1>7. CASE DemoCall \/ DemoRaises \/ DemoAnswer
  BY <1>7 DEF DemoCall, DemoRaises, DemoAnswer
<1>8. CASE Settle
  <2>1. status' \in Ended /\ status \notin Ended
    BY <1>8, <1>s DEF Settle, Ended
  <2>2. status \in States
    BY DEF LoopInv, RecordIsWhole, LoopTypeOK, States
  <2>3. QED
    BY <1>k, <2>1, <2>2 DEF States
<1>9. CASE DeadlinePasses \/ Over \/ UNCHANGED loopVars
  BY <1>9 DEF DeadlinePasses, Over, loopVars
<1>10. QED
  BY <1>1, <1>2, <1>3, <1>4, <1>5, <1>6, <1>7, <1>8, <1>9 DEF LoopNext, Attempt, AnyCall

\* What an attempt shows of itself is true.
THEOREM OutcomeHonestCorrect == LoopSpec => OutcomeHonest
<1>1. LoopInv /\ [LoopNext]_loopVars =>
        [/\ result' # result /\ mode = "tool_calling"
         => \A ref \in result'.refs : ref.code \in Codes]_loopVars
  BY ResultStep
<1>2. LoopInv /\ [LoopNext]_loopVars => [/\ status' # status => Rank[status] < Rank[status']]_loopVars
  BY ForwardStep
<1>3. LoopInv => NoWarningMeansWhole
  BY DEF LoopInv
<1>4. QED
  BY <1>1, <1>2, <1>3, LoopInvariantCorrect, PTL
     DEF LoopSpec, OutcomeHonest, CitesOnlyWhatWasSeen, ProgressOnlyForward
=============================================================================

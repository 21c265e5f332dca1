------------------------- MODULE ReportEmailProofs -------------------------
(***************************************************************************)
(* Proofs about the e-mail job, for every set of reports, workers and      *)
(* watchdogs and every bound: its type invariant, its inductive invariant  *)
(* with the promise about duplicates, the action properties, and the       *)
(* implementation of DeliveryPromise.                                      *)
(***************************************************************************)
EXTENDS ReportEmail, TLAPS

-----------------------------------------------------------------------------
(* Types.                                                                  *)

LEMMA TypeInit == ASSUME Init PROVE TypeOK
  BY ReportEmailAssumption DEF Init, TypeOK, EmailStatus, Verdicts, WorkerStates

LEMMA TypeStep == ASSUME TypeOK, [Next]_vars PROVE TypeOK'
<1> USE ReportEmailAssumption DEF TypeOK, EmailStatus, Verdicts, WorkerStates,
        rowVars, workerVars, watchdogVars, historyVars
<1>1. ASSUME NEW w \in Workers, StartBatch(w) PROVE TypeOK'
  BY <1>1 DEF StartBatch
<1>2. ASSUME NEW w \in Workers, EndBatch(w) PROVE TypeOK'
  BY <1>2 DEF EndBatch
<1>3. ASSUME NEW w \in Workers, Pick(w) PROVE TypeOK'
  <2>1. todo' \in [Workers -> SUBSET Reports]
    BY <1>3 DEF Pick
  <2>2. pc' \in [Workers -> WorkerStates] /\ cur' \in [Workers -> Reports \union {NoReport}]
    <3>1. PICK r \in Reports : \/ UNCHANGED <<pc, cur>>
                               \/ /\ pc' = [pc EXCEPT ![w] = "claim"]
                                  /\ cur' = [cur EXCEPT ![w] = r]
      BY <1>3 DEF Pick
    <3>2. pc' \in [Workers -> WorkerStates]
      BY <3>1
    <3>3. cur' \in [Workers -> Reports \union {NoReport}]
      BY <3>1
    <3>4. QED
      BY <3>2, <3>3
  <2>3. QED
    BY <1>3, <2>1, <2>2 DEF Pick
<1>4. ASSUME NEW w \in Workers, Claim(w) PROVE TypeOK'
  <2>1. CASE Claimable(cur[w])
    <3>1. /\ emailStatus' = [emailStatus EXCEPT ![cur[w]] = "SENDING"]
          /\ claimToken' = [claimToken EXCEPT ![cur[w]] = issued + 1]
          /\ claimedAt' = [claimedAt EXCEPT ![cur[w]] = issued + 1]
          /\ token' = [token EXCEPT ![w] = issued + 1]
          /\ pc' = [pc EXCEPT ![w] = "check"]
      BY <1>4, <2>1 DEF Claim
    <3>2. emailStatus' \in [Reports -> EmailStatus]
      BY <3>1
    <3>3. /\ claimToken' \in [Reports -> Nat]
          /\ claimedAt' \in [Reports -> Nat]
          /\ issued + 1 \in Nat
      <4>1. issued + 1 \in Nat
        OBVIOUS
      <4>2. claimToken' \in [Reports -> Nat]
        BY <3>1, <4>1
      <4>3. claimedAt' \in [Reports -> Nat]
        BY <3>1, <4>1
      <4>4. QED
        BY <4>1, <4>2, <4>3
    <3>4. pc' \in [Workers -> WorkerStates] /\ token' \in [Workers -> Nat]
      <4>1. pc' \in [Workers -> WorkerStates]
        BY <3>1
      <4>2. token' \in [Workers -> Nat]
        BY <3>1, <3>3
      <4>3. QED
        BY <4>1, <4>2
    <3>5. QED
      BY <1>4, <2>1, <3>2, <3>3, <3>4 DEF Claim
  <2>2. CASE ~Claimable(cur[w])
    BY <1>4, <2>2 DEF Claim
  <2>3. QED
    BY <2>1, <2>2
<1>5. ASSUME NEW w \in Workers, Prepare(w) PROVE TypeOK'
  BY <1>5 DEF Prepare
<1>6. ASSUME NEW w \in Workers, SendMail(w) PROVE TypeOK'
  <2>1. token[w] \in Nat /\ cur[w] \in Reports \union {NoReport}
    BY <1>6
  <2>2. accepted' \in [Reports -> SUBSET Nat]
    <3>1. \A r \in Reports : accepted[r] \union {token[w]} \in SUBSET Nat
      BY <2>1
    <3>2. \/ accepted' = accepted
          \/ accepted' = [accepted EXCEPT ![cur[w]] = @ \union {token[w]}]
      BY <1>6 DEF SendMail
    <3>3. QED
      BY <3>1, <3>2
  <2>3. ambiguous' \in SUBSET Nat
    BY <1>6, <2>1 DEF SendMail
  <2>4. pc' \in [Workers -> WorkerStates] /\ verdict' \in [Workers -> Verdicts]
    BY <1>6 DEF SendMail
  <2>5. QED
    BY <1>6, <2>2, <2>3, <2>4 DEF SendMail
<1>7. ASSUME NEW w \in Workers, Complete(w) PROVE TypeOK'
  <2>1. emailStatus' \in [Reports -> EmailStatus]
    <3>1. \/ emailStatus' = emailStatus
          \/ emailStatus' = [emailStatus EXCEPT ![cur[w]] = verdict[w]]
      BY <1>7 DEF Complete
    <3>2. QED
      BY <3>1
  <2>2. claimToken' \in [Reports -> Nat]
    <3>1. claimToken' = claimToken \/ claimToken' = [claimToken EXCEPT ![cur[w]] = 0]
      BY <1>7 DEF Complete
    <3>2. QED
      BY <3>1
  <2>3. retryCount' \in [Reports -> Nat]
    <3>1. \/ retryCount' = retryCount
          \/ retryCount' = [retryCount EXCEPT ![cur[w]] =
                              IF verdict[w] = "FAILED" THEN @ + 1 ELSE @]
      BY <1>7 DEF Complete
    <3>2. QED
      BY <3>1
  <2>4. /\ pc' \in [Workers -> WorkerStates]
        /\ cur' \in [Workers -> Reports \union {NoReport}]
        /\ token' \in [Workers -> Nat]
        /\ verdict' \in [Workers -> Verdicts]
    BY <1>7 DEF Complete
  <2>5. UNCHANGED <<claimedAt, issued, horizon, todo, retryFailed, spent, loaded, tx,
                    watchdogVars, historyVars>>
    BY <1>7 DEF Complete
  <2>6. QED
    BY <2>1, <2>2, <2>3, <2>4, <2>5
<1>8. ASSUME NEW w \in Workers, Crash(w) PROVE TypeOK'
  BY <1>8 DEF Crash
<1>9. ASSUME NEW d \in Watchdogs, Scan(d) PROVE TypeOK'
  BY <1>9 DEF Scan
<1>10. ASSUME NEW d \in Watchdogs, CrashWatchdog(d) PROVE TypeOK'
  BY <1>10 DEF CrashWatchdog
<1>11. ASSUME NEW d \in Watchdogs, NEW r \in Reports, Sweep(d, r) PROVE TypeOK'
  <2>1. emailStatus' \in [Reports -> EmailStatus] /\ claimToken' \in [Reports -> Nat]
    <3>1. \/ UNCHANGED <<emailStatus, claimToken>>
          \/ /\ emailStatus' = [emailStatus EXCEPT ![r] = "RECONCILIATION_REQUIRED"]
             /\ claimToken' = [claimToken EXCEPT ![r] = 0]
      BY <1>11 DEF Sweep
    <3>2. QED
      BY <3>1
  <2>2. candidates' \in [Watchdogs -> SUBSET Reports]
    <3>1. candidates' = [candidates EXCEPT ![d] = @ \ {r}]
      BY <1>11 DEF Sweep
    <3>2. QED
      BY <3>1
  <2>3. UNCHANGED <<claimedAt, retryCount, issued, horizon, workerVars, cutoff, historyVars>>
    BY <1>11 DEF Sweep
  <2>4. QED
    BY <2>1, <2>2, <2>3
<1>12. ASSUME NEW r \in Reports, ResolveSent(r) PROVE TypeOK'
  <2>1. emailStatus' \in [Reports -> EmailStatus] /\ claimToken' \in [Reports -> Nat]
    BY <1>12 DEF ResolveSent
  <2>2. QED
    BY <1>12, <2>1 DEF ResolveSent
<1>13. ASSUME NEW r \in Reports, ResolveRetry(r) PROVE TypeOK'
  <2>0. claimedAt[r] \in Nat
    BY <1>13
  <2>1. retried' \in SUBSET Nat
    BY <1>13, <2>0 DEF ResolveRetry
  <2>2. emailStatus' \in [Reports -> EmailStatus] /\ claimToken' \in [Reports -> Nat]
    BY <1>13 DEF ResolveRetry
  <2>3. QED
    BY <1>13, <2>1, <2>2 DEF ResolveRetry
<1>14. CASE Age
  BY <1>14 DEF Age
<1>15. CASE UNCHANGED vars
  BY <1>15 DEF vars
<1>16. QED
  BY <1>1, <1>2, <1>3, <1>4, <1>5, <1>6, <1>7, <1>8, <1>9, <1>10, <1>11, <1>12, <1>13, <1>14,
     <1>15 DEF Next, WorkerStep

\* The rows, the workers and the history keep their types in every behaviour.
THEOREM TypeCorrect == Spec => []TypeOK
<1>1. Init => TypeOK
  BY TypeInit
<1>2. TypeOK /\ [Next]_vars => TypeOK'
  BY TypeStep
<1>3. QED
  BY <1>1, <1>2, PTL DEF Spec

-----------------------------------------------------------------------------
(* The inductive invariant.  SInv is IInv without the types, Core the      *)
(* variables it depends on.                                                *)

SInv ==
  /\ WorkerShape
  /\ RowShape
  /\ ClaimsUnique
  /\ VerdictHonest
  /\ OpenIsSafe
  /\ LostOnlyToWatchdog
  /\ NoSilentDuplicate

Core == <<emailStatus, claimToken, claimedAt, issued, pc, cur, token, verdict,
          accepted, ambiguous, retried>>

LEMMA InvInit == ASSUME Init PROVE SInv
  BY ReportEmailAssumption DEF Init, SInv, WorkerShape, RowShape, ClaimsUnique, VerdictHonest,
     OpenIsSafe, LostOnlyToWatchdog, NoSilentDuplicate, Claimable, OwnsClaim

LEMMA InvCore == ASSUME SInv, UNCHANGED Core PROVE SInv'
  BY DEF Core, SInv, WorkerShape, RowShape, ClaimsUnique, VerdictHonest,
     OpenIsSafe, LostOnlyToWatchdog, NoSilentDuplicate, Claimable, OwnsClaim

\* A worker that moves without touching its claim, a row or the history.
LEMMA InvMove ==
  ASSUME TypeOK, SInv, NEW w \in Workers,
         UNCHANGED <<emailStatus, claimToken, claimedAt, issued, token,
                     accepted, ambiguous, retried>>,
         token[w] = 0,
         \E p \in {"idle", "pick", "claim"} : pc' = [pc EXCEPT ![w] = p],
         \E c \in Reports \union {NoReport} : cur' = [cur EXCEPT ![w] = c],
         verdict' = verdict \/ verdict' = [verdict EXCEPT ![w] = "SKIPPED"],
         pc'[w] \in {"idle", "pick"} <=> cur'[w] = NoReport
  PROVE  SInv'
  BY DEF TypeOK, SInv, WorkerShape, RowShape, ClaimsUnique, VerdictHonest,
     OpenIsSafe, LostOnlyToWatchdog, NoSilentDuplicate, Claimable, OwnsClaim

\* A fresh claim: its number is larger than every token and every accepted
\* one, and the row it takes was open.
LEMMA InvClaim ==
  ASSUME TypeOK, SInv, NEW w \in Workers, Claim(w), Claimable(cur[w])
  PROVE  SInv'
<1> USE DEF TypeOK, SInv
<1>1. /\ cur[w] \in Reports
      /\ token[w] = 0
  BY DEF Claim, WorkerShape
<1>2. /\ issued' = issued + 1
      /\ emailStatus' = [emailStatus EXCEPT ![cur[w]] = "SENDING"]
      /\ claimToken' = [claimToken EXCEPT ![cur[w]] = issued + 1]
      /\ claimedAt' = [claimedAt EXCEPT ![cur[w]] = issued + 1]
      /\ token' = [token EXCEPT ![w] = issued + 1]
      /\ pc' = [pc EXCEPT ![w] = "check"]
      /\ UNCHANGED <<cur, verdict, accepted, ambiguous, retried>>
  BY DEF Claim, historyVars
<1>3. WorkerShape'
  <2>1. \A v \in Workers \ {w} : UNCHANGED <<pc[v], token[v], cur[v]>>
    BY <1>2
  <2>2. pc'[w] = "check" /\ token'[w] # 0 /\ cur'[w] # NoReport
    BY <1>1, <1>2, ReportEmailAssumption
  <2>3. QED
    BY <2>1, <2>2 DEF WorkerShape
<1>4. RowShape'
  BY <1>1, <1>2 DEF RowShape
<1>5. ClaimsUnique'
  BY <1>1, <1>2 DEF ClaimsUnique
<1>6. VerdictHonest'
  <2>1. issued + 1 \notin accepted[cur[w]]
    BY <1>1 DEF ClaimsUnique
  <2>2. \A v \in Workers \ {w} : UNCHANGED <<pc[v], token[v], cur[v], verdict[v]>>
    BY <1>2
  <2>3. pc'[w] = "check" /\ token'[w] = issued + 1
    BY <1>2
  <2>4. QED
    BY <1>2, <2>1, <2>2, <2>3 DEF VerdictHonest
<1>7. OpenIsSafe'
  BY <1>1, <1>2 DEF OpenIsSafe, Claimable
<1>8. LostOnlyToWatchdog'
  BY <1>1, <1>2 DEF LostOnlyToWatchdog, OwnsClaim, Claimable, WorkerShape
<1>9. NoSilentDuplicate'
  BY <1>1, <1>2 DEF NoSilentDuplicate, OpenIsSafe
<1>10. QED
  BY <1>3, <1>4, <1>5, <1>6, <1>7, <1>8, <1>9

\* The SMTP call: a token that is not the latest claim's has been sent back
\* by an operator, and one that is finds its row not open.
LEMMA InvSendMail ==
  ASSUME TypeOK, SInv, NEW w \in Workers, SendMail(w)
  PROVE  SInv'
<1> USE DEF TypeOK, SInv
<1>1. /\ cur[w] \in Reports
      /\ token[w] # 0
      /\ token[w] \notin accepted[cur[w]]
  BY DEF SendMail, WorkerShape, VerdictHonest
<1>2. PICK taken \in BOOLEAN, raised \in BOOLEAN :
        /\ taken \/ raised
        /\ accepted' = IF taken
                         THEN [accepted EXCEPT ![cur[w]] = @ \union {token[w]}]
                         ELSE accepted
        /\ ambiguous' = IF taken /\ raised THEN ambiguous \union {token[w]} ELSE ambiguous
        /\ verdict' = [verdict EXCEPT ![w] = IF raised THEN "FAILED" ELSE "SENT"]
  BY DEF SendMail
<1>3. /\ pc[w] = "smtp"
      /\ pc' = [pc EXCEPT ![w] = "complete"]
      /\ UNCHANGED <<emailStatus, claimToken, claimedAt, issued, cur, token, retried>>
  BY DEF SendMail, rowVars
<1>4. WorkerShape' /\ RowShape'
  BY <1>1, <1>3 DEF WorkerShape, RowShape
<1>5. ClaimsUnique'
  BY <1>1, <1>2, <1>3 DEF ClaimsUnique
<1>6. VerdictHonest'
  BY <1>1, <1>2, <1>3 DEF VerdictHonest, ClaimsUnique
<1>7. OpenIsSafe'
  BY <1>1, <1>2, <1>3 DEF OpenIsSafe, Claimable, LostOnlyToWatchdog, OwnsClaim
<1>8. LostOnlyToWatchdog'
  BY <1>1, <1>3 DEF LostOnlyToWatchdog, OwnsClaim
<1>9. NoSilentDuplicate'
  BY <1>1, <1>2, <1>3 DEF NoSilentDuplicate, LostOnlyToWatchdog
<1>10. QED
  BY <1>4, <1>5, <1>6, <1>7, <1>8, <1>9

\* _complete: it writes only when the token is the row's, and then no other
\* worker holds that token; a failure it reports leaves the row safely open.
LEMMA InvComplete ==
  ASSUME TypeOK, SInv, NEW w \in Workers, Complete(w)
  PROVE  SInv'
<1> USE DEF TypeOK, SInv
<1>1. /\ pc[w] = "complete"
      /\ cur[w] \in Reports
      /\ token[w] # 0
      /\ pc' = [pc EXCEPT ![w] = "pick"]
      /\ cur' = [cur EXCEPT ![w] = NoReport]
      /\ token' = [token EXCEPT ![w] = 0]
      /\ verdict' = [verdict EXCEPT ![w] = "SKIPPED"]
      /\ UNCHANGED <<claimedAt, issued, accepted, ambiguous, retried>>
  BY DEF Complete, WorkerShape, historyVars, rowVars
<1>2. WorkerShape'
  BY <1>1, ReportEmailAssumption DEF WorkerShape
<1>3. ClaimsUnique'
  BY <1>1 DEF ClaimsUnique
<1>4. VerdictHonest'
  BY <1>1 DEF VerdictHonest
<1>5. NoSilentDuplicate'
  BY <1>1 DEF NoSilentDuplicate
<1>6. CASE ~OwnsClaim(w)
  <2>1. UNCHANGED <<emailStatus, claimToken>>
    BY <1>6 DEF Complete, rowVars
  <2>2. RowShape' /\ OpenIsSafe'
    BY <1>1, <2>1 DEF RowShape, OpenIsSafe, Claimable
  <2>3. LostOnlyToWatchdog'
    BY <1>1, <2>1 DEF LostOnlyToWatchdog, OwnsClaim
  <2>4. QED
    BY <1>2, <1>3, <1>4, <1>5, <2>2, <2>3
<1>7. CASE OwnsClaim(w)
  <2>1. /\ emailStatus' = [emailStatus EXCEPT ![cur[w]] = verdict[w]]
        /\ claimToken' = [claimToken EXCEPT ![cur[w]] = 0]
        /\ claimedAt[cur[w]] = token[w]
    BY <1>1, <1>7 DEF Complete, OwnsClaim, RowShape
  <2>2. RowShape'
    BY <1>1, <2>1 DEF RowShape, Verdicts
  <2>3. OpenIsSafe'
    <3>1. SUFFICES ASSUME NEW r \in Reports, emailStatus'[r] \in {"PENDING", "FAILED"},
                          claimedAt[r] \in accepted[r]
                   PROVE  claimedAt[r] \in ambiguous \union retried
      BY <1>1 DEF OpenIsSafe, Claimable
    <3>2. CASE r = cur[w]
      <4>1. verdict[w] # "SENT"
        BY <2>1, <3>1, <3>2
      <4>2. QED
        BY <1>1, <2>1, <3>1, <3>2, <4>1 DEF VerdictHonest
    <3>3. CASE r # cur[w]
      BY <2>1, <3>1, <3>3 DEF OpenIsSafe, Claimable
    <3>4. QED
      BY <3>2, <3>3
  <2>4. LostOnlyToWatchdog'
    <3>1. SUFFICES ASSUME NEW v \in Workers, token'[v] # 0, token[v] \notin retried
                   PROVE  /\ token[v] = claimedAt[cur[v]]
                          /\ OwnsClaim(v)' \/ emailStatus'[cur[v]] \in
                                                  {"RECONCILIATION_REQUIRED", "SENT"}
      BY <1>1 DEF LostOnlyToWatchdog
    <3>2. /\ v # w
          /\ token'[v] = token[v]
          /\ cur'[v] = cur[v]
          /\ token[v] # token[w]
      BY <1>1, <3>1 DEF ClaimsUnique
    <3>3. /\ token[v] = claimedAt[cur[v]]
          /\ OwnsClaim(v) \/ emailStatus[cur[v]] \in {"RECONCILIATION_REQUIRED", "SENT"}
      BY <3>1, <3>2 DEF LostOnlyToWatchdog
    <3>4. cur[v] # cur[w]
      BY <2>1, <3>2, <3>3
    <3>5. QED
      BY <2>1, <3>2, <3>3, <3>4 DEF OwnsClaim
  <2>5. QED
    BY <1>2, <1>3, <1>4, <1>5, <2>2, <2>3, <2>4
<1>8. QED
  BY <1>6, <1>7

\* Preparation ends an attempt whose mail was not sent, or moves on to SMTP.
LEMMA InvPrepare ==
  ASSUME TypeOK, SInv, NEW w \in Workers, Prepare(w)
  PROVE  SInv'
<1> USE DEF TypeOK, SInv
<1>1. /\ pc[w] = "check"
      /\ \/ pc' = [pc EXCEPT ![w] = "complete"]
         \/ pc' = [pc EXCEPT ![w] = "smtp"]
      /\ UNCHANGED <<emailStatus, claimToken, claimedAt, issued, cur, token,
                     accepted, ambiguous, retried>>
  BY DEF Prepare, rowVars, historyVars
<1>2. \A v \in Workers \ {w} : verdict'[v] = verdict[v]
  BY DEF Prepare
<1>3. WorkerShape' /\ RowShape' /\ ClaimsUnique'
  BY <1>1 DEF WorkerShape, RowShape, ClaimsUnique
<1>4. VerdictHonest'
  BY <1>1, <1>2 DEF VerdictHonest
<1>5. OpenIsSafe' /\ LostOnlyToWatchdog' /\ NoSilentDuplicate'
  BY <1>1 DEF OpenIsSafe, LostOnlyToWatchdog, NoSilentDuplicate, Claimable, OwnsClaim
<1>6. QED
  BY <1>3, <1>4, <1>5

\* A crash forgets the token: fewer workers to say anything about.
LEMMA InvCrash ==
  ASSUME TypeOK, SInv, NEW w \in Workers, Crash(w)
  PROVE  SInv'
<1> USE DEF TypeOK, SInv
<1>1. /\ pc' = [pc EXCEPT ![w] = "idle"]
      /\ cur' = [cur EXCEPT ![w] = NoReport]
      /\ token' = [token EXCEPT ![w] = 0]
      /\ verdict' = [verdict EXCEPT ![w] = "SKIPPED"]
      /\ UNCHANGED <<emailStatus, claimToken, claimedAt, issued, accepted, ambiguous, retried>>
  BY DEF Crash, rowVars, historyVars
<1>2. WorkerShape' /\ RowShape' /\ ClaimsUnique'
  BY <1>1, ReportEmailAssumption DEF WorkerShape, RowShape, ClaimsUnique
<1>3. VerdictHonest'
  BY <1>1 DEF VerdictHonest
<1>4. OpenIsSafe' /\ LostOnlyToWatchdog' /\ NoSilentDuplicate'
  BY <1>1 DEF OpenIsSafe, LostOnlyToWatchdog, NoSilentDuplicate, Claimable, OwnsClaim
<1>5. QED
  BY <1>2, <1>3, <1>4

\* A sweep parks a claim: its worker has lost it to the watchdog.
LEMMA InvSweep ==
  ASSUME TypeOK, SInv, NEW d \in Watchdogs, NEW r \in Reports, Sweep(d, r)
  PROVE  SInv'
<1> USE DEF TypeOK, SInv
<1>1. UNCHANGED <<claimedAt, issued, pc, cur, token, verdict, accepted, ambiguous, retried>>
  BY DEF Sweep, workerVars, historyVars, rowVars
<1>2. CASE StaleAt(r, cutoff[d])
  <2>1. /\ emailStatus[r] = "SENDING"
        /\ emailStatus' = [emailStatus EXCEPT ![r] = "RECONCILIATION_REQUIRED"]
        /\ claimToken' = [claimToken EXCEPT ![r] = 0]
    BY <1>2 DEF Sweep, StaleAt
  <2>2. WorkerShape' /\ ClaimsUnique' /\ VerdictHonest' /\ NoSilentDuplicate'
    BY <1>1 DEF WorkerShape, ClaimsUnique, VerdictHonest, NoSilentDuplicate
  <2>3. RowShape' /\ OpenIsSafe'
    BY <1>1, <2>1 DEF RowShape, OpenIsSafe, Claimable
  <2>4. LostOnlyToWatchdog'
    BY <1>1, <2>1 DEF LostOnlyToWatchdog, OwnsClaim
  <2>5. QED
    BY <2>2, <2>3, <2>4
<1>3. CASE ~StaleAt(r, cutoff[d])
  BY <1>1, <1>3, InvCore DEF Sweep, rowVars, Core
<1>4. QED
  BY <1>2, <1>3

\* Both resolutions; a retry permits what the parked claim may have done.
LEMMA InvResolve ==
  ASSUME TypeOK, SInv, NEW r \in Reports, ResolveSent(r) \/ ResolveRetry(r)
  PROVE  SInv'
<1> USE DEF TypeOK, SInv
<1>1. /\ emailStatus[r] = "RECONCILIATION_REQUIRED"
      /\ claimToken' = [claimToken EXCEPT ![r] = 0]
      /\ \/ emailStatus' = [emailStatus EXCEPT ![r] = "SENT"] /\ retried' = retried
         \/ /\ emailStatus' = [emailStatus EXCEPT ![r] = "PENDING"]
            /\ retried' = retried \union {claimedAt[r]}
      /\ UNCHANGED <<claimedAt, issued, pc, cur, token, verdict, accepted, ambiguous>>
  BY DEF ResolveSent, ResolveRetry, workerVars, historyVars
<1>2. WorkerShape' /\ ClaimsUnique' /\ VerdictHonest'
  BY <1>1 DEF WorkerShape, ClaimsUnique, VerdictHonest
<1>3. RowShape'
  BY <1>1 DEF RowShape
<1>4. OpenIsSafe'
  BY <1>1 DEF OpenIsSafe, Claimable
<1>5. LostOnlyToWatchdog'
  <2>1. SUFFICES ASSUME NEW v \in Workers, token[v] # 0, token[v] \notin retried'
                 PROVE  /\ token[v] = claimedAt[cur[v]]
                        /\ OwnsClaim(v)' \/ emailStatus'[cur[v]] \in
                                                {"RECONCILIATION_REQUIRED", "SENT"}
    BY <1>1 DEF LostOnlyToWatchdog
  <2>2. /\ token[v] = claimedAt[cur[v]]
        /\ OwnsClaim(v) \/ emailStatus[cur[v]] \in {"RECONCILIATION_REQUIRED", "SENT"}
    BY <1>1, <2>1 DEF LostOnlyToWatchdog
  <2>3. CASE cur[v] = r
    <3>1. CASE emailStatus' = [emailStatus EXCEPT ![r] = "SENT"]
      BY <2>2, <2>3, <3>1
    <3>2. CASE retried' = retried \union {claimedAt[r]}
      BY <2>1, <2>2, <2>3, <3>2
    <3>3. QED
      BY <1>1, <3>1, <3>2
  <2>4. CASE cur[v] # r
    <3>1. cur[v] \in Reports
      BY <2>1 DEF WorkerShape, WorkerStates
    <3>2. /\ emailStatus'[cur[v]] = emailStatus[cur[v]]
          /\ claimToken'[cur[v]] = claimToken[cur[v]]
      BY <1>1, <2>4, <3>1
    <3>3. QED
      BY <1>1, <2>2, <3>2 DEF OwnsClaim
  <2>5. QED
    BY <2>3, <2>4
<1>6. NoSilentDuplicate'
  BY <1>1 DEF NoSilentDuplicate
<1>7. QED
  BY <1>2, <1>3, <1>4, <1>5, <1>6

\* Every step of the job preserves the invariant.
LEMMA InvStep ==
  ASSUME TypeOK, SInv, [Next]_vars
  PROVE  SInv'
<1>1. ASSUME NEW w \in Workers, StartBatch(w) PROVE SInv'
  <2>1. token[w] = 0 /\ cur[w] = NoReport
    BY <1>1 DEF StartBatch, SInv, WorkerShape
  <2>2. /\ pc' = [pc EXCEPT ![w] = "pick"]
        /\ cur' = [cur EXCEPT ![w] = NoReport]
        /\ UNCHANGED <<emailStatus, claimToken, claimedAt, issued, token, verdict,
                       accepted, ambiguous, retried>>
    BY <1>1, <2>1 DEF StartBatch, rowVars, historyVars, TypeOK
  <2>3. QED
    BY <2>1, <2>2, InvMove DEF TypeOK
<1>2. ASSUME NEW w \in Workers, EndBatch(w) PROVE SInv'
  <2>1. token[w] = 0 /\ cur[w] = NoReport
    BY <1>2 DEF EndBatch, SInv, WorkerShape
  <2>2. /\ pc' = [pc EXCEPT ![w] = "idle"]
        /\ cur' = [cur EXCEPT ![w] = NoReport]
        /\ UNCHANGED <<emailStatus, claimToken, claimedAt, issued, token, verdict,
                       accepted, ambiguous, retried>>
    BY <1>2, <2>1 DEF EndBatch, rowVars, historyVars, TypeOK
  <2>3. QED
    BY <2>1, <2>2, InvMove DEF TypeOK
<1>3. ASSUME NEW w \in Workers, Pick(w) PROVE SInv'
  <2>1. token[w] = 0 /\ cur[w] = NoReport
    BY <1>3 DEF Pick, SInv, WorkerShape
  <2>2. UNCHANGED <<emailStatus, claimToken, claimedAt, issued, token, verdict,
                    accepted, ambiguous, retried>>
    BY <1>3 DEF Pick, rowVars, historyVars
  <2>3. PICK r \in Reports : \/ UNCHANGED <<pc, cur>>
                             \/ /\ pc' = [pc EXCEPT ![w] = "claim"]
                                /\ cur' = [cur EXCEPT ![w] = r]
    BY <1>3 DEF Pick, TypeOK
  <2>4. CASE UNCHANGED <<pc, cur>>
    BY <2>2, <2>4, InvCore DEF Core
  <2>5. CASE pc' = [pc EXCEPT ![w] = "claim"] /\ cur' = [cur EXCEPT ![w] = r]
    BY <2>1, <2>2, <2>5, InvMove, ReportEmailAssumption DEF TypeOK
  <2>6. QED
    BY <2>3, <2>4, <2>5
<1>4. ASSUME NEW w \in Workers, Claim(w) PROVE SInv'
  <2>1. CASE Claimable(cur[w])
    BY <1>4, <2>1, InvClaim
  <2>2. CASE ~Claimable(cur[w])
    <3>1. token[w] = 0
      BY <1>4 DEF Claim, SInv, WorkerShape
    <3>2. /\ pc' = [pc EXCEPT ![w] = "pick"]
          /\ cur' = [cur EXCEPT ![w] = NoReport]
          /\ UNCHANGED <<emailStatus, claimToken, claimedAt, issued, token, verdict,
                         accepted, ambiguous, retried>>
      BY <1>4, <2>2 DEF Claim, rowVars, historyVars
    <3>3. QED
      BY <3>1, <3>2, InvMove DEF TypeOK
  <2>3. QED
    BY <2>1, <2>2
<1>5. ASSUME NEW w \in Workers, Prepare(w) PROVE SInv'
  BY <1>5, InvPrepare
<1>6. ASSUME NEW w \in Workers, SendMail(w) PROVE SInv'
  BY <1>6, InvSendMail
<1>7. ASSUME NEW w \in Workers, Complete(w) PROVE SInv'
  BY <1>7, InvComplete
<1>8. ASSUME NEW w \in Workers, Crash(w) PROVE SInv'
  BY <1>8, InvCrash
<1>9. ASSUME NEW d \in Watchdogs, Scan(d) \/ CrashWatchdog(d) PROVE SInv'
  BY <1>9, InvCore DEF Scan, CrashWatchdog, Core, rowVars, workerVars, historyVars
<1>10. ASSUME NEW d \in Watchdogs, NEW r \in Reports, Sweep(d, r) PROVE SInv'
  BY <1>10, InvSweep
<1>11. ASSUME NEW r \in Reports, ResolveSent(r) \/ ResolveRetry(r) PROVE SInv'
  BY <1>11, InvResolve
<1>12. CASE Age
  BY <1>12, InvCore DEF Age, Core, rowVars, workerVars, historyVars
<1>13. CASE UNCHANGED vars
  BY <1>13, InvCore DEF vars, Core, rowVars, workerVars, historyVars
<1>14. QED
  BY <1>1, <1>2, <1>3, <1>4, <1>5, <1>6, <1>7, <1>8, <1>9, <1>10, <1>11, <1>12, <1>13
     DEF Next, WorkerStep

LEMMA CutoffStep == ASSUME TypeOK, CutoffPast, [Next]_vars PROVE CutoffPast'
<1>1. \A d \in Watchdogs : cutoff'[d] = cutoff[d] \/ cutoff'[d] = horizon
  BY DEF Next, WorkerStep, StartBatch, EndBatch, Pick, Claim, Prepare, SendMail, Complete, Crash,
         Scan, CrashWatchdog, Sweep, ResolveSent, ResolveRetry, Age, vars, watchdogVars, TypeOK
<1>2. horizon' = horizon \/ horizon' = horizon + 1
  BY DEF Next, WorkerStep, StartBatch, EndBatch, Pick, Claim, Prepare, SendMail, Complete, Crash,
         Scan, CrashWatchdog, Sweep, ResolveSent, ResolveRetry, Age, vars
<1>3. QED
  BY <1>1, <1>2 DEF CutoffPast, TypeOK

\* The invariant, and with it the promise about duplicates, in every behaviour.
THEOREM InvariantCorrect == Spec => []IInv
<1>1. Init => TypeOK /\ SInv /\ CutoffPast
  BY TypeInit, InvInit DEF Init, CutoffPast
<1>2. TypeOK /\ SInv /\ CutoffPast /\ [Next]_vars => TypeOK' /\ SInv' /\ CutoffPast'
  BY TypeStep, InvStep, CutoffStep
<1>3. TypeOK /\ SInv /\ CutoffPast => IInv
  BY DEF IInv, SInv
<1>4. QED
  BY <1>1, <1>2, <1>3, PTL DEF Spec

\* No report is mailed twice unless the first send had raised although the
\* server took the mail, or an operator sent the claim back for retry.
THEOREM NoSilentDuplicateCorrect == Spec => []NoSilentDuplicate
<1>1. IInv => NoSilentDuplicate
  BY DEF IInv
<1>2. QED
  BY <1>1, InvariantCorrect, PTL

-----------------------------------------------------------------------------
(* What a step does to one row's status, and the action properties.        *)

\* The status of a row changes in five ways.
LEMMA StatusStep ==
  ASSUME TypeOK, SInv, [Next]_vars, NEW r \in Reports, emailStatus'[r] # emailStatus[r]
  PROVE  \/ Claimable(r) /\ emailStatus'[r] = "SENDING"
         \/ \E w \in Workers : cur[w] = r /\ OwnsClaim(w) /\ emailStatus'[r] = verdict[w]
         \/ \E d \in Watchdogs : StaleAt(r, cutoff[d]) /\ emailStatus'[r] = "RECONCILIATION_REQUIRED"
         \/ emailStatus[r] = "RECONCILIATION_REQUIRED" /\ emailStatus'[r] \in {"SENT", "PENDING"}
<1>1. ASSUME NEW w \in Workers, Claim(w) PROVE Claimable(r) /\ emailStatus'[r] = "SENDING"
  BY <1>1 DEF Claim, TypeOK, Claimable, rowVars
<1>2. ASSUME NEW w \in Workers, Complete(w)
      PROVE  cur[w] = r /\ OwnsClaim(w) /\ emailStatus'[r] = verdict[w]
  BY <1>2 DEF Complete, TypeOK, rowVars
<1>3. ASSUME NEW d \in Watchdogs, NEW q \in Reports, Sweep(d, q)
      PROVE  StaleAt(r, cutoff[d]) /\ emailStatus'[r] = "RECONCILIATION_REQUIRED"
  BY <1>3 DEF Sweep, TypeOK, rowVars
<1>4. ASSUME NEW q \in Reports, ResolveSent(q) \/ ResolveRetry(q)
      PROVE  emailStatus[r] = "RECONCILIATION_REQUIRED" /\ emailStatus'[r] \in {"SENT", "PENDING"}
  BY <1>4 DEF ResolveSent, ResolveRetry, TypeOK
<1>5. ASSUME NEW w \in Workers,
             StartBatch(w) \/ EndBatch(w) \/ Pick(w) \/ Prepare(w) \/ SendMail(w) \/ Crash(w)
      PROVE  FALSE
  BY <1>5 DEF StartBatch, EndBatch, Pick, Prepare, SendMail, Crash, rowVars
<1>6. ASSUME NEW d \in Watchdogs, Scan(d) \/ CrashWatchdog(d) PROVE FALSE
  BY <1>6 DEF Scan, CrashWatchdog, rowVars
<1>7. CASE Age \/ UNCHANGED vars
  BY <1>7 DEF Age, vars, rowVars
<1>8. QED
  BY <1>1, <1>2, <1>3, <1>4, <1>5, <1>6, <1>7 DEF Next, WorkerStep

LEMMA InvariantParts == IInv => TypeOK /\ SInv /\ CutoffPast
  BY DEF IInv, SInv

\* Sent and skipped reports keep their status for ever.
THEOREM FinalVerdictsCorrect == Spec => FinalVerdicts
<1>1. TypeOK /\ SInv /\ [Next]_vars =>
        [\A r \in Reports :
           emailStatus[r] \in {"SENT", "SKIPPED"} => emailStatus'[r] = emailStatus[r]]_vars
  BY StatusStep DEF Claimable, OwnsClaim, StaleAt
<1>2. QED
  BY <1>1, InvariantParts, InvariantCorrect, PTL DEF Spec, FinalVerdicts

\* Only the worker of a report's latest claim decides its verdict.
THEOREM LatestClaimDecidesCorrect == Spec => LatestClaimDecides
<1>1. ASSUME TypeOK, SInv, [Next]_vars, NEW r \in Reports,
             emailStatus[r] = "SENDING", emailStatus'[r] \in Verdicts
      PROVE  \E w \in Workers : cur[w] = r /\ token[w] = claimedAt[r] /\ emailStatus'[r] = verdict[w]
  <2>1. PICK w \in Workers : cur[w] = r /\ OwnsClaim(w) /\ emailStatus'[r] = verdict[w]
    BY <1>1, StatusStep DEF Verdicts, Claimable
  <2>2. token[w] = claimedAt[r]
    BY <1>1, <2>1 DEF OwnsClaim, SInv, RowShape
  <2>3. QED
    BY <2>1, <2>2
<1>2. TypeOK /\ SInv /\ [Next]_vars =>
        [\A r \in Reports :
           emailStatus[r] = "SENDING" /\ emailStatus'[r] \in Verdicts =>
             \E w \in Workers : /\ cur[w] = r
                                /\ token[w] = claimedAt[r]
                                /\ emailStatus'[r] = verdict[w]]_vars
  BY <1>1
<1>3. QED
  BY <1>2, InvariantParts, InvariantCorrect, PTL DEF Spec, LatestClaimDecides

\* No claim is parked before its own timeout.
THEOREM SweepRespectsTimeoutCorrect == Spec => SweepRespectsTimeout
<1>1. ASSUME TypeOK, SInv, CutoffPast, [Next]_vars, NEW r \in Reports,
             emailStatus[r] = "SENDING", emailStatus'[r] = "RECONCILIATION_REQUIRED"
      PROVE  claimedAt[r] <= horizon
  <2>1. PICK d \in Watchdogs : StaleAt(r, cutoff[d])
    BY <1>1, StatusStep DEF TypeOK, Verdicts
  <2>2. QED
    BY <1>1, <2>1 DEF StaleAt, CutoffPast, TypeOK
<1>2. TypeOK /\ SInv /\ CutoffPast /\ [Next]_vars =>
        [\A r \in Reports :
           emailStatus[r] = "SENDING" /\ emailStatus'[r] = "RECONCILIATION_REQUIRED" =>
             claimedAt[r] <= horizon]_vars
  BY <1>1
<1>3. QED
  BY <1>2, InvariantParts, InvariantCorrect, PTL DEF Spec, SweepRespectsTimeout

-----------------------------------------------------------------------------
(* The job implements DeliveryPromise.                                     *)

PhaseMap == [r \in Reports |-> Phase(r)]

\* Changing one row's status changes its phase alone.
LEMMA PhaseMove ==
  ASSUME TypeOK, NEW r \in Reports, NEW s \in EmailStatus,
         emailStatus' = [emailStatus EXCEPT ![r] = s],
         NEW from, NEW to, Phase(r) = from, Phase(r)' = to
  PROVE  Promise!Move(r, from, to)
<1>1. \A q \in Reports \ {r} : Phase(q)' = Phase(q)
  BY DEF Phase, TypeOK
<1>2. [q \in Reports |-> Phase(q)'] = [[q \in Reports |-> Phase(q)] EXCEPT ![r] = to]
  BY <1>1
<1>3. QED
  BY <1>2 DEF Promise!Move

\* A step that leaves rows and history alone is invisible.
LEMMA Invisible ==
  ASSUME UNCHANGED <<emailStatus, claimedAt, issued, accepted, ambiguous, retried>>
  PROVE  UNCHANGED Promise!vars
  BY DEF Promise!vars, Phase

LEMMA PromiseInit == ASSUME Init PROVE Promise!Init
  BY DEF Init, Promise!Init, Phase

LEMMA PromiseStep ==
  ASSUME TypeOK, SInv, [Next]_vars
  PROVE  [Promise!Next]_(Promise!vars)
<1>1. ASSUME NEW w \in Workers, Claim(w), Claimable(cur[w]) PROVE \E r \in Reports : Promise!Grant(r)
  <2>0. pc[w] = "claim" /\ cur[w] \in Reports
    BY <1>1 DEF Claim, SInv, WorkerShape, TypeOK
  <2>1. PICK r \in Reports : r = cur[w]
    BY <2>0
  <2>2. /\ emailStatus' = [emailStatus EXCEPT ![r] = "SENDING"]
        /\ claimedAt' = [claimedAt EXCEPT ![r] = issued + 1]
        /\ issued' = issued + 1
        /\ UNCHANGED <<accepted, ambiguous, retried>>
    BY <1>1, <2>1 DEF Claim, historyVars
  <2>3. Phase(r) = "open" /\ Phase(r)' = "held"
    BY <1>1, <2>1, <2>2 DEF Phase, Claimable, TypeOK
  <2>4. Promise!Move(r, "open", "held")
    BY <2>1, <2>2, <2>3, PhaseMove DEF EmailStatus
  <2>5. Promise!SecondTryIsSafe(r)
    BY <1>1, <2>1 DEF Promise!SecondTryIsSafe, SInv, OpenIsSafe
  <2>6. Promise!Grant(r)
    BY <2>2, <2>4, <2>5 DEF Promise!Grant
  <2>7. QED
    BY <2>1, <2>6
<1>2. ASSUME NEW w \in Workers, SendMail(w)
      PROVE  \/ \E r \in Reports : \E g \in 1 .. issued : Promise!Effect(r, g)
             \/ UNCHANGED Promise!vars
  <2> DEFINE r == cur[w]
             g == token[w]
  <2>1. /\ r \in Reports /\ g \in 1 .. issued
        /\ UNCHANGED <<emailStatus, claimedAt, issued, retried>>
    BY <1>2 DEF SendMail, SInv, WorkerShape, ClaimsUnique, TypeOK, WorkerStates, rowVars
  <2>2. PICK taken \in BOOLEAN, raised \in BOOLEAN :
          /\ accepted' = IF taken THEN [accepted EXCEPT ![r] = @ \union {g}] ELSE accepted
          /\ ambiguous' = IF taken /\ raised THEN ambiguous \union {g} ELSE ambiguous
    BY <1>2 DEF SendMail
  <2>3. CASE taken
    <3>1. UNCHANGED PhaseMap
      BY <2>1 DEF PhaseMap, Phase
    <3>2. (g = claimedAt[r] /\ Phase(r) # "open") \/ g \in ambiguous \union retried
      BY <2>1 DEF SInv, LostOnlyToWatchdog, OwnsClaim, Phase
    <3>3. (ambiguous \union retried)' \in
             {ambiguous \union retried, (ambiguous \union retried) \union {g}}
      BY <2>1, <2>2
    <3>4. Promise!Effect(r, g)
      BY <2>1, <2>2, <2>3, <3>1, <3>2, <3>3 DEF Promise!Effect, PhaseMap
    <3>5. QED
      BY <2>1, <3>4
  <2>4. CASE ~taken
    BY <2>1, <2>2, <2>4, Invisible
  <2>5. QED
    BY <2>3, <2>4
<1>3. ASSUME NEW w \in Workers, Complete(w), OwnsClaim(w) PROVE \E r \in Reports : Promise!Release(r)
  <2>0. pc[w] = "complete" /\ cur[w] \in Reports
    BY <1>3 DEF Complete, SInv, WorkerShape, TypeOK
  <2>1. PICK r \in Reports : r = cur[w]
    BY <2>0
  <2>2. /\ emailStatus' = [emailStatus EXCEPT ![r] = verdict[w]]
        /\ UNCHANGED <<claimedAt, issued, accepted, ambiguous, retried>>
    BY <1>3, <2>1 DEF Complete, historyVars
  <2>3. Phase(r) = "held" /\ verdict[w] \in EmailStatus /\ verdict[w] \in Verdicts
    BY <1>3, <2>1 DEF Phase, OwnsClaim, TypeOK, Verdicts, EmailStatus
  <2>4. Phase(r)' \in {"open", "closed"}
    BY <2>1, <2>2, <2>3 DEF Phase, Verdicts, TypeOK
  <2>5. Promise!Move(r, "held", "open") \/ Promise!Move(r, "held", "closed")
    BY <2>1, <2>2, <2>3, <2>4, PhaseMove
  <2>6. Promise!Release(r)
    BY <2>2, <2>5 DEF Promise!Release
  <2>7. QED
    BY <2>1, <2>6
<1>4. ASSUME NEW d \in Watchdogs, NEW r \in Reports, Sweep(d, r), StaleAt(r, cutoff[d])
      PROVE  Promise!Release(r)
  <2>1. /\ emailStatus' = [emailStatus EXCEPT ![r] = "RECONCILIATION_REQUIRED"]
        /\ UNCHANGED <<claimedAt, issued, accepted, ambiguous, retried>>
    BY <1>4 DEF Sweep, historyVars
  <2>2. Phase(r) = "held" /\ Phase(r)' = "limbo"
    BY <1>4, <2>1 DEF Phase, StaleAt, TypeOK
  <2>3. Promise!Move(r, "held", "limbo")
    BY <2>1, <2>2, PhaseMove DEF EmailStatus
  <2>4. QED
    BY <2>1, <2>3 DEF Promise!Release
<1>5. ASSUME NEW r \in Reports, ResolveSent(r) PROVE Promise!Settle(r)
  <2>1. /\ emailStatus' = [emailStatus EXCEPT ![r] = "SENT"]
        /\ UNCHANGED <<claimedAt, issued, accepted, ambiguous, retried>>
    BY <1>5 DEF ResolveSent, historyVars
  <2>2. Phase(r) = "limbo" /\ Phase(r)' = "closed"
    BY <1>5, <2>1 DEF Phase, ResolveSent, TypeOK
  <2>3. Promise!Move(r, "limbo", "closed")
    BY <2>1, <2>2, PhaseMove DEF EmailStatus
  <2>4. QED
    BY <2>1, <2>3 DEF Promise!Settle
<1>6. ASSUME NEW r \in Reports, ResolveRetry(r) PROVE Promise!Retry(r)
  <2>1. /\ emailStatus' = [emailStatus EXCEPT ![r] = "PENDING"]
        /\ retried' = retried \union {claimedAt[r]}
        /\ UNCHANGED <<claimedAt, issued, accepted, ambiguous>>
    BY <1>6 DEF ResolveRetry
  <2>2. Phase(r) = "limbo" /\ Phase(r)' = "open"
    BY <1>6, <2>1 DEF Phase, ResolveRetry, TypeOK
  <2>3. Promise!Move(r, "limbo", "open")
    BY <2>1, <2>2, PhaseMove DEF EmailStatus
  <2>4. (ambiguous \union retried)' = (ambiguous \union retried) \union {claimedAt[r]}
    BY <2>1
  <2>5. QED
    BY <2>1, <2>3, <2>4 DEF Promise!Retry
<1>7. ASSUME NEW w \in Workers,
             StartBatch(w) \/ EndBatch(w) \/ Pick(w) \/ Prepare(w) \/ Crash(w)
      PROVE  UNCHANGED Promise!vars
  BY <1>7, Invisible DEF StartBatch, EndBatch, Pick, Prepare, Crash, rowVars, historyVars
<1>8. ASSUME NEW w \in Workers, Claim(w), ~Claimable(cur[w]) PROVE UNCHANGED Promise!vars
  BY <1>8, Invisible DEF Claim, rowVars, historyVars
<1>9. ASSUME NEW w \in Workers, Complete(w), ~OwnsClaim(w) PROVE UNCHANGED Promise!vars
  BY <1>9, Invisible DEF Complete, rowVars, historyVars
<1>10. ASSUME NEW d \in Watchdogs, NEW r \in Reports, Sweep(d, r), ~StaleAt(r, cutoff[d])
       PROVE  UNCHANGED Promise!vars
  BY <1>10, Invisible DEF Sweep, rowVars, historyVars
<1>11. ASSUME NEW d \in Watchdogs, Scan(d) \/ CrashWatchdog(d) PROVE UNCHANGED Promise!vars
  BY <1>11, Invisible DEF Scan, CrashWatchdog, rowVars, historyVars
<1>12. CASE Age \/ UNCHANGED vars
  BY <1>12, Invisible DEF Age, vars, rowVars, historyVars
<1>13. QED
  BY <1>1, <1>2, <1>3, <1>4, <1>5, <1>6, <1>7, <1>8, <1>9, <1>10, <1>11, <1>12
     DEF Next, WorkerStep, Promise!Next

\* Every behaviour of the job is one of DeliveryPromise.
THEOREM PromiseKept == Spec => KeepsPromise
<1>1. Init => Promise!Init
  BY PromiseInit
<1>2. TypeOK /\ SInv /\ [Next]_vars => [Promise!Next]_(Promise!vars)
  BY PromiseStep
<1>3. IInv => TypeOK /\ SInv
  BY InvariantParts
<1>4. QED
  BY <1>1, <1>2, <1>3, TypeCorrect, InvariantCorrect, PTL DEF Spec, KeepsPromise, Promise!Spec

\* The token of a worker is never newer than the latest claim of its report.
TokenBehind == \A w \in Workers : token[w] # 0 => token[w] <= claimedAt[cur[w]]

LEMMA TokenBehindStep ==
  ASSUME TypeOK, SInv, TokenBehind, [Next]_vars
  PROVE  TokenBehind'
<1>1. ASSUME NEW r \in Reports PROVE claimedAt'[r] = claimedAt[r] \/ claimedAt'[r] = issued + 1
  BY <1>1 DEF Next, WorkerStep, StartBatch, EndBatch, Pick, Claim, Prepare, SendMail, Complete,
         Crash, Scan, CrashWatchdog, Sweep, ResolveSent, ResolveRetry, Age, vars, rowVars, TypeOK
<1>2. ASSUME NEW r \in Reports PROVE claimedAt[r] <= claimedAt'[r]
  BY <1>1, <1>2, ReportEmailAssumption DEF SInv, ClaimsUnique, TypeOK
<1>3. ASSUME NEW w \in Workers
      PROVE  \/ token'[w] = token[w] /\ cur'[w] = cur[w]
             \/ token'[w] = 0
             \/ cur'[w] = cur[w] /\ token'[w] = claimedAt'[cur[w]]
  <2> DEFINE Fine == \/ token'[w] = token[w] /\ cur'[w] = cur[w]
                     \/ token'[w] = 0
                     \/ cur'[w] = cur[w] /\ token'[w] = claimedAt'[cur[w]]
  <2> USE <1>3 DEF TypeOK, workerVars, rowVars
  <2>1. ASSUME NEW v \in Workers, Claim(v) PROVE Fine
    BY <2>1 DEF Claim, SInv, WorkerShape
  <2>2. ASSUME NEW v \in Workers, Pick(v) PROVE Fine
    BY <2>2 DEF Pick, SInv, WorkerShape
  <2>3. ASSUME NEW v \in Workers,
               StartBatch(v) \/ EndBatch(v) \/ Prepare(v) \/ SendMail(v) \/ Complete(v) \/ Crash(v)
        PROVE  Fine
    BY <2>3 DEF StartBatch, EndBatch, Prepare, SendMail, Complete, Crash
  <2>4. ASSUME UNCHANGED workerVars PROVE Fine
    BY <2>4
  <2>5. QED
    BY <2>1, <2>2, <2>3, <2>4
       DEF Next, WorkerStep, Scan, CrashWatchdog, Sweep, ResolveSent, ResolveRetry, Age, vars
<1>4. ASSUME NEW w \in Workers, token[w] # 0 PROVE cur[w] \in Reports
  BY <1>4 DEF SInv, WorkerShape, TypeOK
<1>5. ASSUME NEW w \in Workers, token'[w] # 0 PROVE token'[w] <= claimedAt'[cur'[w]]
  <2>1. TypeOK'
    BY TypeStep
  <2>2. CASE token'[w] = token[w] /\ cur'[w] = cur[w]
    BY <1>2, <1>4, <1>5, <2>1, <2>2 DEF TokenBehind, TypeOK
  <2>3. CASE cur'[w] = cur[w] /\ token'[w] = claimedAt'[cur[w]]
    BY <2>1, <2>3, <1>5 DEF TypeOK
  <2>4. QED
    BY <1>3, <1>5, <2>2, <2>3
<1>6. QED
  BY <1>5 DEF TokenBehind

\* However batches, watchdogs and operators overlap, a claim is lost only to
\* the watchdog, and a second sender is one an operator has asked for.
THEOREM OverlapExplainedCorrect == Spec => []OverlapExplained
<1>1. Init => TokenBehind
  BY DEF Init, TokenBehind
<1>2. TypeOK /\ SInv /\ TokenBehind /\ [Next]_vars => TokenBehind'
  BY TokenBehindStep
<1>3. TypeOK /\ SInv /\ TokenBehind => OverlapExplained
  <2> SUFFICES ASSUME TypeOK, SInv, TokenBehind PROVE OverlapExplained
    OBVIOUS
  <2>1. ASSUME NEW v \in Workers, NEW w \in Workers, pc[v] = "smtp", pc[w] = "smtp",
               cur[v] = cur[w], token[v] < token[w]
        PROVE  token[v] \in retried
    <3>1. token[v] # 0 /\ token[w] # 0 /\ cur[w] \in Reports
      BY <2>1 DEF SInv, WorkerShape, TypeOK
    <3>2. token[w] <= claimedAt[cur[w]]
      BY <3>1 DEF TokenBehind
    <3>3. token[v] # claimedAt[cur[v]]
      BY <2>1, <3>1, <3>2 DEF TypeOK
    <3>4. QED
      BY <3>1, <3>3 DEF SInv, LostOnlyToWatchdog
  <2>2. QED
    BY <2>1 DEF OverlapExplained, SecondSenderIsRetried, SInv
<1>4. QED
  BY <1>1, <1>2, <1>3, InvariantParts, InvariantCorrect, PTL DEF Spec

\* A verdict, once written, is the last one: it comes from the worker of the
\* latest claim and outlives late workers, watchdogs and operators.
THEOREM VerdictsStandCorrect == Spec => VerdictsStand
BY FinalVerdictsCorrect, LatestClaimDecidesCorrect, SweepRespectsTimeoutCorrect DEF VerdictsStand
=============================================================================

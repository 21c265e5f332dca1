---------------------------- MODULE AnomalyClaim ----------------------------
(***************************************************************************)
(* Running the analysis of a detected anomaly: services/                   *)
(* anomaly_job_claim.py (claim and guarded status), the status changes of  *)
(* anomaly_analysis_service.py and anomaly_orchestrator.py, and the        *)
(* anomaly half of the watchdog in job_reconciliation.py.                  *)
(*                                                                         *)
(* An attempt is a row of anomaly_analyses, numbered in the order the      *)
(* claims commit; the number stands for its id and its started_at.  Each   *)
(* worker is one analyze request with its own session.  A commit ends a    *)
(* step: the attempt's row and the anomaly's shared status are written by  *)
(* different commits, and anybody may run between the two.                 *)
(***************************************************************************)
EXTENDS Naturals

CONSTANTS
  Anomalies,    (* rows of anomalies                                        *)
  Workers,      (* requests that may run at the same time                   *)
  Watchdogs,    (* processes running reconcile-stale-jobs                   *)
  NoAnomaly,    (* the value of target while a worker handles none          *)
  MaxAttempts   (* bound of the model: no claim after this many             *)

ASSUME AnomalyClaimAssumption ==
  /\ NoAnomaly \notin Anomalies
  /\ MaxAttempts \in Nat

Attempts == 1 .. MaxAttempts

VARIABLES
  row,             (* anomaly_analyses.status of each attempt               *)
  of,              (* anomaly_analyses.anomaly_id                           *)
  analysisStatus,  (* anomalies.analysis_status                             *)
  current,         (* anomalies.current_analysis_id, 0 for NULL             *)
  issued,          (* attempts claimed so far                               *)
  horizon,         (* attempts up to this one are older than the timeout    *)
  pc,              (* where each worker is                                  *)
  target,          (* the anomaly its request is about                      *)
  attempt,         (* the attempt it runs, 0 = none                         *)
  stage,           (* the status it last wrote to its attempt               *)
  candidates,      (* watchdog: attempts its sweep has not reached          *)
  cutoff,          (* watchdog: the horizon when it started                 *)
  owed,            (* watchdog: failed attempt whose anomaly is next, or 0  *)
  swept,           (* history: attempts a watchdog has failed               *)
  abandoned        (* history: attempts over in their row when a process    *)
                   (* died that had yet to write, or could still write, the *)
                   (* anomaly                                               *)

rowVars == <<row, of, analysisStatus, current>>
workerVars == <<pc, target, attempt, stage>>
watchdogVars == <<candidates, cutoff, owed>>
historyVars == <<swept, abandoned>>
vars == <<rowVars, issued, horizon, workerVars, watchdogVars, historyVars>>

Final == {"COMPLETED", "COMPLETED_WITH_WARNINGS", "FAILED"}

\* IN_PROGRESS_STATUSES
InProgress == {"QUEUED", "ANALYZING", "PLANNING", "COLLECTING_DATA", "GENERATING_ANALYSIS"}

WorkerStates == {"idle", "read", "run", "publish"}

TypeOK ==
  /\ row \in [Attempts -> InProgress \union Final \union {"ABSENT"}]
  /\ of \in [Attempts -> Anomalies \union {NoAnomaly}]
  /\ analysisStatus \in [Anomalies -> InProgress \union Final \union {"NOT_ANALYZED"}]
  /\ current \in [Anomalies -> 0 .. MaxAttempts]
  /\ issued \in 0 .. MaxAttempts
  /\ horizon \in 0 .. MaxAttempts
  /\ pc \in [Workers -> WorkerStates]
  /\ target \in [Workers -> Anomalies \union {NoAnomaly}]
  /\ attempt \in [Workers -> 0 .. MaxAttempts]
  /\ stage \in [Workers -> InProgress \union Final]
  /\ candidates \in [Watchdogs -> SUBSET Attempts]
  /\ cutoff \in [Watchdogs -> 0 .. MaxAttempts]
  /\ owed \in [Watchdogs -> 0 .. MaxAttempts]
  /\ swept \in SUBSET Attempts
  /\ abandoned \in SUBSET (0 .. MaxAttempts)

Init ==
  /\ row = [i \in Attempts |-> "ABSENT"]
  /\ of = [i \in Attempts |-> NoAnomaly]
  /\ analysisStatus = [a \in Anomalies |-> "NOT_ANALYZED"]
  /\ current = [a \in Anomalies |-> 0]
  /\ issued = 0
  /\ horizon = 0
  /\ pc = [w \in Workers |-> "idle"]
  /\ target = [w \in Workers |-> NoAnomaly]
  /\ attempt = [w \in Workers |-> 0]
  /\ stage = [w \in Workers |-> "QUEUED"]
  /\ candidates = [d \in Watchdogs |-> {}]
  /\ cutoff = [d \in Watchdogs |-> 0]
  /\ owed = [d \in Watchdogs |-> 0]
  /\ swept = {}
  /\ abandoned = {}

-----------------------------------------------------------------------------
(* The unique index over the active attempts of an anomaly.                *)

\* Seeded fault: an index whose predicate forgets a status.
IndexedButGenerating(i) == row[i] \in InProgress \ {"GENERATING_ANALYSIS"}

\* The predicate of uq_anomaly_analyses_one_active_per_anomaly.
Indexed(i) == row[i] \in InProgress

\* Would attempt i of anomaly a collide with another active attempt?
Collides(i, a) == \E j \in Attempts \ {i} : of[j] = a /\ Indexed(j)

-----------------------------------------------------------------------------
(* run_analysis.                                                           *)

\* The worker's session is gone; what it had not written is lost.
Return(w) ==
  /\ pc' = [pc EXCEPT ![w] = "idle"]
  /\ target' = [target EXCEPT ![w] = NoAnomaly]
  /\ attempt' = [attempt EXCEPT ![w] = 0]
  /\ stage' = [stage EXCEPT ![w] = "QUEUED"]

\* The fast path passes on the status as it was loaded.
Request(w, a) ==
  /\ pc[w] = "idle"
  /\ analysisStatus[a] \notin InProgress
  /\ pc' = [pc EXCEPT ![w] = "read"]
  /\ target' = [target EXCEPT ![w] = a]
  /\ UNCHANGED <<rowVars, issued, horizon, attempt, stage, watchdogVars, historyVars>>

\* claim_analysis: the INSERT and the anomaly's two columns in one commit.
Claim(w) ==
  /\ pc[w] = "read"
  /\ issued < MaxAttempts
  /\ ~Collides(issued + 1, target[w])
  /\ issued' = issued + 1
  /\ row' = [row EXCEPT ![issued + 1] = "QUEUED"]
  /\ of' = [of EXCEPT ![issued + 1] = target[w]]
  /\ analysisStatus' = [analysisStatus EXCEPT ![target[w]] = "QUEUED"]
  /\ current' = [current EXCEPT ![target[w]] = issued + 1]
  /\ pc' = [pc EXCEPT ![w] = "run"]
  /\ attempt' = [attempt EXCEPT ![w] = issued + 1]
  /\ stage' = [stage EXCEPT ![w] = "QUEUED"]
  /\ UNCHANGED <<horizon, target, watchdogVars, historyVars>>

\* The INSERT violates the index: rollback, and AnalysisInProgressError.
ClaimRejected(w) ==
  /\ pc[w] = "read"
  /\ \E j \in Attempts : of[j] = target[w] /\ Indexed(j)
  /\ Return(w)
  /\ UNCHANGED <<rowVars, issued, horizon, watchdogVars, historyVars>>

\* The next status an attempt reports while it runs: single context, tool
\* calling, or tool calling that falls back to single context.
Follows(s) ==
  CASE s = "QUEUED" -> {"ANALYZING", "PLANNING"}
    [] s = "PLANNING" -> {"COLLECTING_DATA"}
    [] s = "COLLECTING_DATA" -> {"GENERATING_ANALYSIS", "ANALYZING"}
    [] s = "GENERATING_ANALYSIS" -> {"ANALYZING"}
    [] OTHER -> {}

\* Where the LLM or the demo generator can deliver the outcome.  The demo
\* tools report no status of their own, so they finish from QUEUED.
MayFinish(s) == s \in {"QUEUED", "ANALYZING", "GENERATING_ANALYSIS"}

\* analysis.status = s and its commit, by primary key alone.
WriteRow(w, s) ==
  /\ row' = [row EXCEPT ![attempt[w]] = s]
  /\ stage' = [stage EXCEPT ![w] = s]
  /\ pc' = [pc EXCEPT ![w] = "publish"]
  /\ UNCHANGED <<of, analysisStatus, current, issued, horizon, target, attempt,
                 watchdogVars, historyVars>>

\* A status on the way.  The row may have been failed by a watchdog since:
\* then this write makes it active again, and the index can refuse it.
Advance(w) ==
  /\ pc[w] = "run"
  /\ ~Collides(attempt[w], target[w])
  /\ \E s \in Follows(stage[w]) : WriteRow(w, s)

\* The IntegrityError nobody catches: the request ends.
AdvanceRefused(w) ==
  /\ pc[w] = "run"
  /\ Follows(stage[w]) # {}
  /\ row[attempt[w]] \notin InProgress
  /\ Collides(attempt[w], target[w])
  /\ Return(w)
  /\ abandoned' = abandoned \union {attempt[w]}
  /\ UNCHANGED <<rowVars, issued, horizon, watchdogVars, swept>>

\* The outcome, written to the attempt's own row whoever owns the anomaly.
Finish(w) ==
  /\ pc[w] = "run"
  /\ MayFinish(stage[w])
  /\ \E s \in Final : WriteRow(w, s)

\* Seeded fault: current_analysis_id is not compared.
IsCurrentAnyway(a, i) == i # 0

\* The WHERE clause of set_anomaly_status_if_current.
IsCurrent(a, i) == current[a] = i

\* set_anomaly_status_if_current, after each commit of the row.
Publish(w) ==
  /\ pc[w] = "publish"
  /\ \/ /\ IsCurrent(target[w], attempt[w])
        /\ analysisStatus' = [analysisStatus EXCEPT ![target[w]] = stage[w]]
     \/ /\ ~IsCurrent(target[w], attempt[w])
        /\ UNCHANGED analysisStatus
  /\ \/ /\ stage[w] \in Final
        /\ Return(w)
     \/ /\ stage[w] \in InProgress
        /\ pc' = [pc EXCEPT ![w] = "run"]
        /\ UNCHANGED <<target, attempt, stage>>
  /\ UNCHANGED <<row, of, current, issued, horizon, watchdogVars, historyVars>>

\* The process dies, or an exception nothing catches ends the request.
Crash(w) ==
  /\ pc[w] # "idle"
  /\ Return(w)
  /\ abandoned' = IF attempt[w] # 0 /\ row[attempt[w]] \notin InProgress
                    THEN abandoned \union {attempt[w]} ELSE abandoned
  /\ UNCHANGED <<rowVars, issued, horizon, watchdogVars, swept>>

-----------------------------------------------------------------------------
(* reconcile_stale_anomaly_jobs.                                           *)

StaleAt(i, when) == row[i] \in InProgress /\ i <= when

\* Seeded fault: only attempts that never got past QUEUED are looked for.
ScanQueued(d) ==
  /\ candidates[d] = {}
  /\ owed[d] = 0
  /\ cutoff' = [cutoff EXCEPT ![d] = horizon]
  /\ candidates' = [candidates EXCEPT ![d] =
       {i \in Attempts : row[i] = "QUEUED" /\ i <= horizon}]
  /\ UNCHANGED <<rowVars, issued, horizon, workerVars, owed, historyVars>>

Scan(d) ==
  /\ candidates[d] = {}
  /\ owed[d] = 0
  /\ cutoff' = [cutoff EXCEPT ![d] = horizon]
  /\ candidates' = [candidates EXCEPT ![d] = {i \in Attempts : StaleAt(i, horizon)}]
  /\ UNCHANGED <<rowVars, issued, horizon, workerVars, owed, historyVars>>

\* Seeded fault: the sweep forgets to go on to the anomaly.
SweepRowOnly(d, i) ==
  /\ i \in candidates[d]
  /\ owed[d] = 0
  /\ candidates' = [candidates EXCEPT ![d] = @ \ {i}]
  /\ row' = [row EXCEPT ![i] = IF StaleAt(i, cutoff[d]) THEN "FAILED" ELSE @]
  /\ swept' = IF StaleAt(i, cutoff[d]) THEN swept \union {i} ELSE swept
  /\ UNCHANGED <<of, analysisStatus, current, issued, horizon, workerVars, cutoff, owed, abandoned>>

\* The conditional UPDATE of one attempt and its commit.
Sweep(d, i) ==
  /\ i \in candidates[d]
  /\ owed[d] = 0
  /\ candidates' = [candidates EXCEPT ![d] = @ \ {i}]
  /\ \/ /\ StaleAt(i, cutoff[d])
        /\ row' = [row EXCEPT ![i] = "FAILED"]
        /\ owed' = [owed EXCEPT ![d] = i]
        /\ swept' = swept \union {i}
     \/ /\ ~StaleAt(i, cutoff[d])
        /\ UNCHANGED <<row, owed, swept>>
  /\ UNCHANGED <<of, analysisStatus, current, issued, horizon, workerVars, cutoff, abandoned>>

\* The second UPDATE and commit, of the anomaly that attempt is current for.
ReleaseAnomaly(d) ==
  /\ owed[d] # 0
  /\ owed' = [owed EXCEPT ![d] = 0]
  /\ analysisStatus' = [a \in Anomalies |->
       IF a = of[owed[d]] /\ IsCurrent(a, owed[d]) THEN "FAILED" ELSE analysisStatus[a]]
  /\ UNCHANGED <<row, of, current, issued, horizon, workerVars, candidates, cutoff, historyVars>>

CrashWatchdog(d) ==
  /\ candidates[d] # {} \/ owed[d] # 0
  /\ candidates' = [candidates EXCEPT ![d] = {}]
  /\ owed' = [owed EXCEPT ![d] = 0]
  /\ abandoned' = IF owed[d] = 0 THEN abandoned ELSE abandoned \union {owed[d]}
  /\ UNCHANGED <<rowVars, issued, horizon, workerVars, cutoff, swept>>

\* Time passes: one more attempt is older than anomaly_stale_claim_timeout_seconds.
Age ==
  /\ horizon < issued
  /\ horizon' = horizon + 1
  /\ UNCHANGED <<rowVars, issued, workerVars, watchdogVars, historyVars>>

-----------------------------------------------------------------------------
WorkerStep(w) ==
  \/ \E a \in Anomalies : Request(w, a)
  \/ Claim(w)
  \/ ClaimRejected(w)
  \/ Advance(w)
  \/ AdvanceRefused(w)
  \/ Finish(w)
  \/ Publish(w)

WatchdogStep(d) ==
  \/ Scan(d)
  \/ \E i \in Attempts : Sweep(d, i)
  \/ ReleaseAnomaly(d)
  \/ CrashWatchdog(d)

Next ==
  \/ \E w \in Workers : WorkerStep(w) \/ Crash(w)
  \/ \E d \in Watchdogs : WatchdogStep(d)
  \/ Age

Spec == Init /\ [][Next]_vars

(***************************************************************************)
(* Cron runs the watchdog every fifteen minutes and time passes; nothing   *)
(* is assumed of the requests.                                             *)
(***************************************************************************)
Fairness ==
  /\ WF_vars(Age)
  /\ \A d \in Watchdogs : WF_vars(Scan(d)) /\ WF_vars(ReleaseAnomaly(d))
  /\ \A d \in Watchdogs, i \in Attempts : SF_vars(Sweep(d, i))

FairSpec == Spec /\ Fairness

-----------------------------------------------------------------------------
(* Properties.                                                             *)

Live(w) == attempt[w] # 0
Analyzing(w) == Live(w) /\ stage[w] \in InProgress

\* However requests, late workers and watchdogs interleave, at most one
\* request per anomaly is analyzing in an attempt that was not timed out.
OneLiveAttempt ==
  \A v, w \in Workers :
    Analyzing(v) /\ Analyzing(w) /\ v # w /\ target[v] = target[w] =>
      attempt[v] \in swept \/ attempt[w] \in swept

\* An anomaly shows an analysis in progress while its current attempt is
\* over only until a process that is still alive writes it, or after one
\* died between its commit of the row and its commit of the anomaly.
StuckOnlyByCrash ==
  \A a \in Anomalies :
    analysisStatus[a] \in InProgress =>
      \/ row[current[a]] \in InProgress
      \/ \E w \in Workers : attempt[w] = current[a]
      \/ \E d \in Watchdogs : owed[d] = current[a]
      \/ current[a] \in abandoned

(***************************************************************************)
(* The inductive invariant behind them, in named parts.                    *)
(***************************************************************************)
\* A request has an attempt exactly while it runs one, of its own anomaly.
WorkerShape ==
  \A w \in Workers :
    /\ Live(w) <=> pc[w] \in {"run", "publish"}
    /\ pc[w] # "idle" => target[w] \in Anomalies
    /\ pc[w] = "run" => stage[w] \in InProgress
    /\ Live(w) => attempt[w] <= issued /\ of[attempt[w]] = target[w]

\* Attempts are claimed once: by one request, for one anomaly.
ClaimShape ==
  /\ \A i \in Attempts : row[i] = "ABSENT" <=> i > issued
  /\ \A i \in Attempts : of[i] = NoAnomaly <=> i > issued
  /\ \A a \in Anomalies : current[a] # 0 => current[a] <= issued /\ of[current[a]] = a
  /\ \A a \in Anomalies : current[a] = 0 => analysisStatus[a] = "NOT_ANALYZED"
  /\ \A v, w \in Workers : Live(v) /\ attempt[v] = attempt[w] => v = w
  /\ \A d \in Watchdogs : owed[d] # 0 => owed[d] \in swept
  /\ \A i \in swept : i <= issued

\* A row that was not timed out says what its request last wrote, a final
\* status in any case.
RowHonest ==
  \A w \in Workers :
    Live(w) /\ (attempt[w] \notin swept \/ stage[w] \in Final) => row[attempt[w]] = stage[w]

\* The index at work.
OneActiveRow ==
  \A i, j \in Attempts :
    row[i] \in InProgress /\ row[j] \in InProgress /\ of[i] = of[j] => i = j

IInv ==
  /\ TypeOK
  /\ WorkerShape
  /\ ClaimShape
  /\ RowHonest
  /\ OneActiveRow
  /\ OneLiveAttempt
  /\ StuckOnlyByCrash

\* An outcome that was delivered in time is never lost: the attempt's row
\* keeps it, even against a watchdog that selected the row before.
OutcomeKept ==
  [][\A i \in Attempts :
       row[i] \in Final /\ i \notin swept => row'[i] = row[i] /\ i \notin swept']_vars

\* The shared status changes only on behalf of the current attempt: by its
\* own request, by a watchdog that has failed it, or by the claim of a newer one.
SupersededStaysSilent ==
  [][\A a \in Anomalies :
       analysisStatus'[a] # analysisStatus[a] =>
         \/ current'[a] > current[a]
         \/ \E w \in Workers : attempt[w] = current[a] /\ stage[w] = analysisStatus'[a]
         \/ current[a] \in swept /\ analysisStatus'[a] = "FAILED"]_vars

\* Whatever happens to the request, its attempt does not stay active for ever.
AttemptEnds ==
  \A i \in Attempts : row[i] \in InProgress ~> row[i] \notin InProgress

\* A late writer changes nothing that was settled: neither the status of an
\* anomaly by then claimed anew, nor the row of an attempt that ended in time.
NoLateWrite == SupersededStaysSilent /\ OutcomeKept
=============================================================================

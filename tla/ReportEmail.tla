---------------------------- MODULE ReportEmail ----------------------------
(***************************************************************************)
(* The monthly report e-mail job: services/monthly_report_email.py (claim, *)
(* send, conditional completion), services/job_reconciliation.py (the      *)
(* stale-claim watchdog and the operator's resolution) and the batch loop  *)
(* of cli.py that calls them.                                              *)
(*                                                                         *)
(* Each worker is one `send-monthly-report-emails` process with its own    *)
(* session.  A statement and the commit that follows it are one step;      *)
(* between two of them, and around the SMTP call, everybody else may run.  *)
(* Claims are numbered in the order they are committed: the number stands  *)
(* for both the fresh claim_token and the claimed_at it is written with,   *)
(* and time passes by moving the horizon, the newest claim older than the  *)
(* stale timeout.                                                          *)
(***************************************************************************)
EXTENDS Naturals

CONSTANTS
  Reports,     (* foreman_monthly_reports rows of the period being sent     *)
  Workers,     (* processes running send-monthly-report-emails              *)
  Watchdogs,   (* processes running reconcile-stale-jobs                    *)
  NoReport,    (* the value of cur while a worker handles no report         *)
  MaxRetry,    (* settings.email_max_retry_count                            *)
  MaxClaims    (* bound of the model: no claim after this many              *)

ASSUME ReportEmailAssumption ==
  /\ NoReport \notin Reports
  /\ MaxRetry \in Nat
  /\ MaxClaims \in Nat

VARIABLES
  emailStatus,   (* the row: email_status                                   *)
  claimToken,    (* the row: claim_token, 0 for NULL                        *)
  claimedAt,     (* the row: claimed_at, as the number of that claim        *)
  retryCount,    (* the row: email_retry_count                              *)
  issued,        (* claims committed so far                                 *)
  horizon,       (* claims up to this one are older than the stale timeout  *)
  pc,            (* where each worker is                                    *)
  cur,           (* the report it handles                                   *)
  token,         (* the claim_token it holds in a local variable, 0 = none  *)
  verdict,       (* the status its _complete call is about to write         *)
  todo,          (* candidates its loop has not reached                     *)
  retryFailed,   (* its --retry-failed flag                                 *)
  spent,         (* candidates whose loaded retry count was exhausted       *)
  loaded,        (* its session still holds the rows as selected            *)
  tx,            (* its session has an open database transaction            *)
  candidates,    (* watchdog: rows its sweep has not reached                *)
  cutoff,        (* watchdog: the horizon when it started                   *)
  accepted,      (* history: claims of r whose mail the SMTP server took    *)
  ambiguous,     (* history: claims whose mail was taken but raised         *)
  retried        (* history: claims an operator sent back for another try   *)

rowVars == <<emailStatus, claimToken, claimedAt, retryCount>>
workerVars == <<pc, cur, token, verdict, todo, retryFailed, spent, loaded, tx>>
watchdogVars == <<candidates, cutoff>>
historyVars == <<accepted, ambiguous, retried>>
vars == <<rowVars, issued, horizon, workerVars, watchdogVars, historyVars>>

EmailStatus == {"PENDING", "SENDING", "SENT", "FAILED", "SKIPPED",
                "RECONCILIATION_REQUIRED"}
Verdicts == {"SENT", "FAILED", "SKIPPED"}
WorkerStates == {"idle", "pick", "claim", "check", "smtp", "complete"}

TypeOK ==
  /\ emailStatus \in [Reports -> EmailStatus]
  /\ claimToken \in [Reports -> Nat]
  /\ claimedAt \in [Reports -> Nat]
  /\ retryCount \in [Reports -> Nat]
  /\ issued \in Nat
  /\ horizon \in Nat
  /\ pc \in [Workers -> WorkerStates]
  /\ cur \in [Workers -> Reports \union {NoReport}]
  /\ token \in [Workers -> Nat]
  /\ verdict \in [Workers -> Verdicts]
  /\ todo \in [Workers -> SUBSET Reports]
  /\ retryFailed \in [Workers -> BOOLEAN]
  /\ spent \in [Workers -> SUBSET Reports]
  /\ loaded \in [Workers -> BOOLEAN]
  /\ tx \in [Workers -> BOOLEAN]
  /\ candidates \in [Watchdogs -> SUBSET Reports]
  /\ cutoff \in [Watchdogs -> Nat]
  /\ accepted \in [Reports -> SUBSET Nat]
  /\ ambiguous \in SUBSET Nat
  /\ retried \in SUBSET Nat

Init ==
  /\ emailStatus = [r \in Reports |-> "PENDING"]
  /\ claimToken = [r \in Reports |-> 0]
  /\ claimedAt = [r \in Reports |-> 0]
  /\ retryCount = [r \in Reports |-> 0]
  /\ issued = 0
  /\ horizon = 0
  /\ pc = [w \in Workers |-> "idle"]
  /\ cur = [w \in Workers |-> NoReport]
  /\ token = [w \in Workers |-> 0]
  /\ verdict = [w \in Workers |-> "SKIPPED"]
  /\ todo = [w \in Workers |-> {}]
  /\ retryFailed = [w \in Workers |-> FALSE]
  /\ spent = [w \in Workers |-> {}]
  /\ loaded = [w \in Workers |-> FALSE]
  /\ tx = [w \in Workers |-> FALSE]
  /\ candidates = [d \in Watchdogs |-> {}]
  /\ cutoff = [d \in Watchdogs |-> 0]
  /\ accepted = [r \in Reports |-> {}]
  /\ ambiguous = {}
  /\ retried = {}

-----------------------------------------------------------------------------
(* The batch loop, cmd_send_monthly_report_emails.                         *)

RetriesSpent(r) == retryCount[r] >= MaxRetry

\* SELECT the candidates; FAILED rows only with --retry-failed.
StartBatch(w) ==
  /\ pc[w] = "idle"
  /\ \E flag \in BOOLEAN :
       /\ retryFailed' = [retryFailed EXCEPT ![w] = flag]
       /\ todo' = [todo EXCEPT ![w] =
            {r \in Reports : \/ emailStatus[r] = "PENDING"
                             \/ flag /\ emailStatus[r] = "FAILED"}]
  /\ spent' = [spent EXCEPT ![w] = {r \in Reports : RetriesSpent(r)}]
  /\ loaded' = [loaded EXCEPT ![w] = TRUE]
  /\ tx' = [tx EXCEPT ![w] = TRUE]
  /\ pc' = [pc EXCEPT ![w] = "pick"]
  /\ UNCHANGED <<rowVars, issued, horizon, cur, token, verdict, watchdogVars, historyVars>>

EndBatch(w) ==
  /\ pc[w] = "pick"
  /\ todo[w] = {}
  /\ pc' = [pc EXCEPT ![w] = "idle"]
  /\ tx' = [tx EXCEPT ![w] = FALSE]
  /\ loaded' = [loaded EXCEPT ![w] = FALSE]
  /\ spent' = [spent EXCEPT ![w] = {}]
  /\ retryFailed' = [retryFailed EXCEPT ![w] = FALSE]
  /\ UNCHANGED <<rowVars, issued, horizon, cur, token, verdict, todo, watchdogVars, historyVars>>

\* The retry limit is read from the session: the value selected at the start
\* until a commit expires it, the current one afterwards.
Exhausted(w, r) ==
  /\ retryFailed[w]
  /\ IF loaded[w] THEN r \in spent[w] ELSE RetriesSpent(r)

\* Next candidate: the retry limit, then send_monthly_report_email's refresh
\* and its SENT fast path.
Pick(w) ==
  /\ pc[w] = "pick"
  /\ \E r \in todo[w] :
       /\ todo' = [todo EXCEPT ![w] = @ \ {r}]
       /\ IF Exhausted(w, r) \/ emailStatus[r] = "SENT"
            THEN UNCHANGED <<pc, cur>>
            ELSE /\ pc' = [pc EXCEPT ![w] = "claim"]
                 /\ cur' = [cur EXCEPT ![w] = r]
  /\ UNCHANGED <<rowVars, issued, horizon, token, verdict, retryFailed, spent, loaded, tx,
                 watchdogVars, historyVars>>

-----------------------------------------------------------------------------
(* send_monthly_report_email.                                              *)

\* Faults seeded for the runs: a claim that also takes SENDING rows; one that
\* asks no more than that.
ClaimableWhileSending(r) == emailStatus[r] \in {"PENDING", "FAILED", "SENDING"}
ClaimableUnlessSending(r) == emailStatus[r] # "SENDING"

\* _CLAIMABLE_STATUSES
Claimable(r) == emailStatus[r] \in {"PENDING", "FAILED"}

\* _claim_report: one conditional UPDATE and its commit, which also expires
\* what the session had loaded.  The refresh after it opens a transaction.
Claim(w) ==
  /\ pc[w] = "claim"
  /\ \/ /\ Claimable(cur[w])
        /\ issued < MaxClaims
        /\ issued' = issued + 1
        /\ emailStatus' = [emailStatus EXCEPT ![cur[w]] = "SENDING"]
        /\ claimToken' = [claimToken EXCEPT ![cur[w]] = issued + 1]
        /\ claimedAt' = [claimedAt EXCEPT ![cur[w]] = issued + 1]
        /\ token' = [token EXCEPT ![w] = issued + 1]
        /\ pc' = [pc EXCEPT ![w] = "check"]
        /\ UNCHANGED <<retryCount, cur>>
     \/ /\ ~Claimable(cur[w])
        /\ pc' = [pc EXCEPT ![w] = "pick"]
        /\ cur' = [cur EXCEPT ![w] = NoReport]
        /\ UNCHANGED <<rowVars, issued, token>>
  /\ loaded' = [loaded EXCEPT ![w] = FALSE]
  /\ spent' = [spent EXCEPT ![w] = {}]
  /\ tx' = [tx EXCEPT ![w] = TRUE]
  /\ UNCHANGED <<horizon, verdict, todo, retryFailed, watchdogVars, historyVars>>

\* Everything before the SMTP call that can end the attempt: is_reliable
\* (SKIPPED; regenerating the report may change it between two claims), the
\* foreman's address, the stored PDF and its download.  These read through
\* the session, so its transaction is open when the step ends.
Prepare(w) ==
  /\ pc[w] = "check"
  /\ \/ /\ pc' = [pc EXCEPT ![w] = "complete"]
        /\ \E v \in {"SKIPPED", "FAILED"} : verdict' = [verdict EXCEPT ![w] = v]
     \/ /\ pc' = [pc EXCEPT ![w] = "smtp"]
        /\ UNCHANGED verdict
  /\ tx' = [tx EXCEPT ![w] = TRUE]
  /\ UNCHANGED <<rowVars, issued, horizon, cur, token, todo, retryFailed, spent, loaded,
                 watchdogVars, historyVars>>

\* The SMTP call.  The server may take the message and the call still raise
\* (a timeout or an error after the data): the caller sees EmailSendError.
SendMail(w) ==
  /\ pc[w] = "smtp"
  /\ \E taken, raised \in BOOLEAN :
       /\ taken \/ raised
       /\ accepted' = IF taken
                        THEN [accepted EXCEPT ![cur[w]] = @ \union {token[w]}]
                        ELSE accepted
       /\ ambiguous' = IF taken /\ raised THEN ambiguous \union {token[w]} ELSE ambiguous
       /\ verdict' = [verdict EXCEPT ![w] = IF raised THEN "FAILED" ELSE "SENT"]
  /\ pc' = [pc EXCEPT ![w] = "complete"]
  /\ UNCHANGED <<rowVars, issued, horizon, cur, token, todo, retryFailed, spent, loaded, tx,
                 watchdogVars, retried>>

\* Seeded fault: the token is not compared.
OwnsAnyClaim(w) == emailStatus[cur[w]] = "SENDING"

\* The WHERE clause of _complete.
OwnsClaim(w) ==
  /\ emailStatus[cur[w]] = "SENDING"
  /\ claimToken[cur[w]] = token[w]

\* _complete: the conditional UPDATE, or nothing when the claim is lost.
Complete(w) ==
  /\ pc[w] = "complete"
  /\ \/ /\ OwnsClaim(w)
        /\ emailStatus' = [emailStatus EXCEPT ![cur[w]] = verdict[w]]
        /\ claimToken' = [claimToken EXCEPT ![cur[w]] = 0]
        /\ retryCount' = [retryCount EXCEPT ![cur[w]] =
                            IF verdict[w] = "FAILED" THEN @ + 1 ELSE @]
        /\ UNCHANGED claimedAt
     \/ /\ ~OwnsClaim(w)
        /\ UNCHANGED rowVars
  /\ pc' = [pc EXCEPT ![w] = "pick"]
  /\ cur' = [cur EXCEPT ![w] = NoReport]
  /\ token' = [token EXCEPT ![w] = 0]
  /\ verdict' = [verdict EXCEPT ![w] = "SKIPPED"]
  /\ UNCHANGED <<issued, horizon, todo, retryFailed, spent, loaded, tx,
                 watchdogVars, historyVars>>

\* The process dies, or an exception nothing catches ends the batch.
Crash(w) ==
  /\ pc[w] # "idle"
  /\ pc' = [pc EXCEPT ![w] = "idle"]
  /\ cur' = [cur EXCEPT ![w] = NoReport]
  /\ token' = [token EXCEPT ![w] = 0]
  /\ todo' = [todo EXCEPT ![w] = {}]
  /\ retryFailed' = [retryFailed EXCEPT ![w] = FALSE]
  /\ spent' = [spent EXCEPT ![w] = {}]
  /\ loaded' = [loaded EXCEPT ![w] = FALSE]
  /\ tx' = [tx EXCEPT ![w] = FALSE]
  /\ verdict' = [verdict EXCEPT ![w] = "SKIPPED"]
  /\ UNCHANGED <<rowVars, issued, horizon, watchdogVars, historyVars>>

-----------------------------------------------------------------------------
(* reconcile_stale_email_jobs and resolve_email_reconciliation.            *)

StaleAt(r, when) == emailStatus[r] = "SENDING" /\ claimedAt[r] <= when

\* Seeded fault: the SELECT looks for the wrong status.
ScanPending(d) ==
  /\ candidates[d] = {}
  /\ cutoff' = [cutoff EXCEPT ![d] = horizon]
  /\ candidates' = [candidates EXCEPT ![d] =
       {r \in Reports : emailStatus[r] = "PENDING" /\ claimedAt[r] <= horizon}]
  /\ UNCHANGED <<rowVars, issued, horizon, workerVars, historyVars>>

\* The cutoff is computed once; the candidates are selected with it.
Scan(d) ==
  /\ candidates[d] = {}
  /\ cutoff' = [cutoff EXCEPT ![d] = horizon]
  /\ candidates' = [candidates EXCEPT ![d] = {r \in Reports : StaleAt(r, horizon)}]
  /\ UNCHANGED <<rowVars, issued, horizon, workerVars, historyVars>>

\* Seeded fault: the sweep puts the report back to PENDING.
SweepRequeue(d, r) ==
  /\ r \in candidates[d]
  /\ candidates' = [candidates EXCEPT ![d] = @ \ {r}]
  /\ emailStatus' = [emailStatus EXCEPT ![r] = IF StaleAt(r, cutoff[d]) THEN "PENDING" ELSE @]
  /\ UNCHANGED <<claimToken, claimedAt, retryCount, issued, horizon, workerVars, cutoff,
                 historyVars>>

\* The conditional UPDATE repeats the predicate with the same cutoff.
Sweep(d, r) ==
  /\ r \in candidates[d]
  /\ candidates' = [candidates EXCEPT ![d] = @ \ {r}]
  /\ \/ /\ StaleAt(r, cutoff[d])
        /\ emailStatus' = [emailStatus EXCEPT ![r] = "RECONCILIATION_REQUIRED"]
        /\ claimToken' = [claimToken EXCEPT ![r] = 0]
        /\ UNCHANGED <<claimedAt, retryCount>>
     \/ /\ ~StaleAt(r, cutoff[d])
        /\ UNCHANGED rowVars
  /\ UNCHANGED <<issued, horizon, workerVars, cutoff, historyVars>>

CrashWatchdog(d) ==
  /\ candidates[d] # {}
  /\ candidates' = [candidates EXCEPT ![d] = {}]
  /\ UNCHANGED <<rowVars, issued, horizon, workerVars, cutoff, historyVars>>

\* The operator's decision; any other status raises and changes nothing.
ResolveSent(r) ==
  /\ emailStatus[r] = "RECONCILIATION_REQUIRED"
  /\ emailStatus' = [emailStatus EXCEPT ![r] = "SENT"]
  /\ claimToken' = [claimToken EXCEPT ![r] = 0]
  /\ UNCHANGED <<claimedAt, retryCount, issued, horizon, workerVars, watchdogVars, historyVars>>

ResolveRetry(r) ==
  /\ emailStatus[r] = "RECONCILIATION_REQUIRED"
  /\ emailStatus' = [emailStatus EXCEPT ![r] = "PENDING"]
  /\ claimToken' = [claimToken EXCEPT ![r] = 0]
  /\ retried' = retried \union {claimedAt[r]}
  /\ UNCHANGED <<claimedAt, retryCount, issued, horizon, workerVars, watchdogVars,
                 accepted, ambiguous>>

\* Time passes: one more claim is older than email_stale_claim_timeout_seconds.
Age ==
  /\ horizon < issued
  /\ horizon' = horizon + 1
  /\ UNCHANGED <<rowVars, issued, workerVars, watchdogVars, historyVars>>

-----------------------------------------------------------------------------
WorkerStep(w) ==
  StartBatch(w) \/ EndBatch(w) \/ Pick(w) \/ Claim(w) \/ Prepare(w) \/ SendMail(w) \/ Complete(w)

Next ==
  \/ \E w \in Workers : WorkerStep(w) \/ Crash(w)
  \/ \E d \in Watchdogs : Scan(d) \/ CrashWatchdog(d) \/ \E r \in Reports : Sweep(d, r)
  \/ \E r \in Reports : ResolveSent(r) \/ ResolveRetry(r)
  \/ Age

Spec == Init /\ [][Next]_vars

(***************************************************************************)
(* Cron runs the watchdog every fifteen minutes and time passes; a sweep   *)
(* that is due infinitely often is not cut short every single time.        *)
(* Nothing is assumed of the workers or of the operator.                   *)
(***************************************************************************)
Fairness ==
  /\ WF_vars(Age)
  /\ \A d \in Watchdogs : WF_vars(Scan(d))
  /\ \A d \in Watchdogs, r \in Reports : SF_vars(Sweep(d, r))

FairSpec == Spec /\ Fairness

-----------------------------------------------------------------------------
(* Properties.                                                             *)

\* Of all the mails the SMTP server took for a report, only the one of the
\* latest claim was not followed by a permission to try again: either the
\* send raised although the server had taken it, or an operator resolved the
\* stale claim with `retry`.  So crashes, stale workers and overlapping
\* batches never cause a second mail by themselves.
NoSilentDuplicate ==
  \A r \in Reports : accepted[r] \subseteq {claimedAt[r]} \union ambiguous \union retried

\* A worker that holds a token either still owns its report's claim, or lost
\* it to the watchdog: the claim is parked or resolved as sent, or an
\* operator has sent it back and anything may have happened to it since.
LostOnlyToWatchdog ==
  \A w \in Workers : token[w] # 0 =>
    \/ token[w] \in retried
    \/ /\ token[w] = claimedAt[cur[w]]
       /\ OwnsClaim(w) \/ emailStatus[cur[w]] \in {"RECONCILIATION_REQUIRED", "SENT"}

(***************************************************************************)
(* The inductive invariant behind them, in named parts.                    *)
(***************************************************************************)
\* A worker has a report exactly while it handles one, and a token exactly
\* between its claim and its completion.
WorkerShape ==
  \A w \in Workers :
    /\ pc[w] \in {"idle", "pick"} <=> cur[w] = NoReport
    /\ pc[w] \in {"check", "smtp", "complete"} <=> token[w] # 0

\* A row is SENDING exactly while it has a token, its latest claim's.
RowShape ==
  \A r \in Reports :
    /\ emailStatus[r] = "SENDING" <=> claimToken[r] # 0
    /\ claimToken[r] # 0 => claimToken[r] = claimedAt[r]

\* Claim numbers are issued once: to one report and to one worker.
ClaimsUnique ==
  /\ \A r \in Reports : claimedAt[r] <= issued
  /\ \A w \in Workers : token[w] <= issued
  /\ \A r \in Reports : \A t \in accepted[r] : 0 < t /\ t <= issued
  /\ \A w1, w2 \in Workers : token[w1] # 0 /\ token[w1] = token[w2] => w1 = w2

\* What a worker is about to write agrees with what its mail did.
VerdictHonest ==
  \A w \in Workers :
    /\ pc[w] \in {"check", "smtp"} => token[w] \notin accepted[cur[w]]
    /\ pc[w] = "complete" /\ verdict[w] # "SENT" =>
         (token[w] \in accepted[cur[w]] => token[w] \in ambiguous)

\* An open row's latest claim had no effect, or a second one is permitted.
OpenIsSafe ==
  \A r \in Reports :
    Claimable(r) /\ claimedAt[r] \in accepted[r] => claimedAt[r] \in ambiguous \union retried

\* A sweep works with a cutoff of the past.
CutoffPast == \A d \in Watchdogs : cutoff[d] <= horizon

IInv ==
  /\ TypeOK
  /\ WorkerShape
  /\ RowShape
  /\ ClaimsUnique
  /\ VerdictHonest
  /\ OpenIsSafe
  /\ LostOnlyToWatchdog
  /\ NoSilentDuplicate
  /\ CutoffPast

\* A report whose mail was sent, or that was skipped, is settled: no batch,
\* late worker, watchdog or operator changes its status again.
FinalVerdicts ==
  [][\A r \in Reports :
       emailStatus[r] \in {"SENT", "SKIPPED"} => emailStatus'[r] = emailStatus[r]]_vars

\* The status SENDING is replaced by a verdict only by the worker of the
\* latest claim, with that worker's own verdict: a worker that was swept and
\* comes back late writes nothing over a newer attempt.
LatestClaimDecides ==
  [][\A r \in Reports :
       emailStatus[r] = "SENDING" /\ emailStatus'[r] \in Verdicts =>
         \E w \in Workers : /\ cur[w] = r
                            /\ token[w] = claimedAt[r]
                            /\ emailStatus'[r] = verdict[w]]_vars

\* The watchdog parks a claim only when that very claim is older than the
\* timeout, even if the report was completed and claimed afresh between the
\* watchdog's SELECT and its UPDATE.
SweepRespectsTimeout ==
  [][\A r \in Reports :
       emailStatus[r] = "SENDING" /\ emailStatus'[r] = "RECONCILIATION_REQUIRED" =>
         claimedAt[r] <= horizon]_vars

\* However the worker dies, its claim does not stay SENDING for ever.
ClaimReleased ==
  \A r \in Reports : emailStatus[r] = "SENDING" ~> emailStatus[r] # "SENDING"

\* Two workers send one report at a time only if an operator has asked for a
\* second try while the first was still in its SMTP call: README, Job Claiming
\* & Concurrency, promises one sender without that exception.
SecondSenderIsRetried ==
  \A w1, w2 \in Workers :
    /\ pc[w1] = "smtp" /\ pc[w2] = "smtp" /\ cur[w1] = cur[w2]
    /\ token[w1] < token[w2]
    => token[w1] \in retried

(***************************************************************************)
(* The job implements DeliveryPromise: PENDING and FAILED rows are open,   *)
(* a SENDING row is held, and the history variables are the effects.       *)
(***************************************************************************)
Phase(r) ==
  CASE emailStatus[r] \in {"PENDING", "FAILED"} -> "open"
    [] emailStatus[r] = "SENDING" -> "held"
    [] emailStatus[r] = "RECONCILIATION_REQUIRED" -> "limbo"
    [] OTHER -> "closed"

Promise == INSTANCE DeliveryPromise WITH
  Jobs <- Reports,
  phase <- [r \in Reports |-> Phase(r)],
  last <- claimedAt,
  granted <- issued,
  effects <- accepted,
  permitted <- ambiguous \union retried

\* Every step of the job is a step of DeliveryPromise or changes nothing there.
KeepsPromise == Promise!Spec

\* Overlapping batches and operators: a claim is lost only to the watchdog,
\* and a second sender of one report is one an operator has asked for.
OverlapExplained == LostOnlyToWatchdog /\ SecondSenderIsRetried

\* What was decided stands: a sent or skipped report is never touched again,
\* an attempt gets the verdict of its own worker only, and no claim is parked
\* before its time, whoever has read the row how long ago.
VerdictsStand == FinalVerdicts /\ LatestClaimDecides /\ SweepRespectsTimeout
=============================================================================

# Formen Takip: TLA+ models, checks and proofs

Formen Takip is a web application that collects production figures per plant,
day and foreman, scores them against published targets, lets an LLM analyse the
anomalies it finds, and mails a report to every foreman once a month. The back
end is a FastAPI application over PostgreSQL (`src/backend/app`) and a scheduler
container that starts the same code from cron (`src/backend/scheduler`).

There is no message queue, and threads share next to nothing. Concurrency is between
**sessions that share tables**: HTTP requests, overlapping cron jobs, operators
at the command line. What keeps them apart is conditional `UPDATE`s, row locks,
and unique, partial unique and exclusion constraints under READ COMMITTED; what
separates them in time is a long external call (SMTP, the LLM, object storage)
without a row lock, or an answer put together from many `SELECT`s that each see
what is committed when they run. The models are about that, and about the
arithmetic of the scores and what the pages say of it.

## Contents

1. Inventory of the system
2. The modules and how they correspond to the code
3. The runs: what they check, with which bounds, and why these are enough
4. Fairness
5. What is proved
6. Where the code and its documents disagree
7. What is not modelled
8. Plan
9. How to run it

## 1. Inventory of the system

| component | state it keeps | operations | talks to | hard behaviour | correct when |
|---|---|---|---|---|---|
| Report e-mail job (`monthly_report_email.py`, `cli.py`) | e-mail columns of a report: status, claim token, claim time, retry count | batch selection, claim, send, complete | reports and PDFs, SMTP, watchdog | overlapping batches; a crash around the SMTP call; a call that raises although the mail went out | no second mail unless the first was reported failed or an operator asked for it; late workers write nothing |
| Watchdog and operator (`job_reconciliation.py`) | none of its own | sweep of stale e-mail claims, sweep of stale attempts, resolve sent / retry | the tables of both jobs | its SELECT and its UPDATEs are apart; it overlaps itself; it may die in between | it only parks what is stale; it ends everything that is |
| Anomaly analysis (`anomaly_job_claim.py`, `anomaly_analysis_*.py`) | attempt rows; shared status and current attempt of an anomaly | claim, stages, finish, publish | watchdog, LLM | two tables in two commits; superseded attempts still running | one live attempt; the shared status speaks for the current one; outcomes are kept |
| LLM orchestrator (`anomaly_orchestrator.py`, `services/tools`, `llm_service.py`, the demos) | conversation, budget, cache, rows of tool calls | plan, tool loop, final answer, single request, demo | LLM provider, database | a limit in the middle of a message; refused, failed, slow and repeated calls; answers that are no JSON | it ends within its limits; each call has its answer; citations exist; a cut analysis says so |
| Anomaly read model | none | lists, manual status | tables | pages of a list while rows are added | see the paged lists |
| Target and rule publishing (`target_publisher.py`, resolvers) | versioned rows with start and end date per scope | publish; resolve for a date | scoring | two publishers with one predecessor; scopes that override each other | every date has one value, the past never changes |
| Ingestion (`ingestion.py`) | performance rows, scores, issues, the run row | batches: fetch, compare, write; finish | the providers, rules, targets | overlapping runs with old comparisons, two unique constraints of which one may raise, crashes between batches, rules published during a run | rows keep their owner, problems are visible, a replay catches up |
| Rescoring (`rescoring.py`) | stored scores | read all, write in batches | ingestion | long-lived reads | a score is that of its row, unless overtaken |
| KPI scores and totals (`kpi_engine.py`, `analytics.py`, `level_lookup.py`) | none (functions of the rows) | six formulas, period scores, totals, levels | rows, rules, targets | piecewise formulas with limits, aggregation order, gaps between levels | better work never scores less |
| Assignments and rotation (`assignment_resolver.py`, `shift_rotation.py`) | assignments with dates | resolve; shift of a week | ingestion, shift pages | a record in another shift than the rotation's | a row counts in the shift it was expected in |
| Report and PDF (`monthly_foreman_report*.py`, `storage/`) | report row, version, PDF status; the stored object | create, regenerate, render, upload, download, link | storage, e-mail job | two creators, two regenerations, copies of a row that was changed, a PDF stuck in GENERATING | one report per foreman and month; what is shown, stored and mailed is that report |
| Works and bonus (`contribution_*.py`) | works, links to foremen and plants, gains, derived columns, audit | create, update, delete, score, share | views | requests that read a work before another's commit | dates, score and leader fit the work; published works are complete; every change has a record |
| Paged lists (`core/pagination.py`, repositories) | none; a cursor in the client's hand | first page, next page | all tables | rows written between two pages; values joined from a ranking; NULLs and ties | a row nobody wrote comes once, in order |
| Shift analysis (`shift_analysis.py`) | none | cards, detail, heatmap, matrix | records | three copies of the thresholds; several SELECTs per page | words, colours and numbers agree |
| Views of performance (`analytics.py`, `dashboard_*`, `foreman_service.py`, `chief_service.py`, `plant_service.py`, `kpi_service.py`, `reporting.py`) | none | pages, ranks, leaders, exports | records, bonuses | the same number computed in several places; many SELECTs per answer; empty and absent filters | the pages tell one story, and only of what the reader may see |
| Authentication and roles (`oidc.py`, `permissions.py`, `authz_admin.py`) | roles, scopes, cached keys | assign, revoke, resolve | identity provider | concurrent assignments; key rotation | the scope of a request is that of one assignment |
| Rate limiter (`rate_limit.py`) | hits per key | check and record | HTTP | the edge of its window | at most the limit within a window |
| Synthetic world, HTTP layer, scheduler, front end, deployment | none that matters here | | | | |

`PROJECT.json` lists the same parts with their files and how much of each is
modelled, and every hazard with its line and the properties that watch it.

## 2. The modules

| module | what it is |
|---|---|
| `ReportEmail` | e-mail job, its watchdog, and the operator |
| `DeliveryPromise` | what such a job promises: an effect is repeated only where that is permitted |
| `ReportEmailProofs` | theorems about `ReportEmail`, its refinement of `DeliveryPromise` included |
| `AnomalyClaim` | analyze requests and their watchdog over attempts and anomalies |
| `ToolLoop` | one attempt from the inside: plan, tool calls, limits, final answer |
| `AnomalyProofs` | theorems about `AnomalyClaim` and `ToolLoop` |
| `TargetHistory` | publishers of targets and rules, and the resolvers |
| `TargetTimeline` | what publishing promises: one value per date, the past never changes |
| `Ingestion` | runs of the feed, rescoring, corrected records, new rules |
| `PerformanceLedger` | what loading promises: a row keeps its owner and shows only what that reported |
| `RecordProofs` | theorems about the targets and records above, and the refinements of their promises |
| `KpiScores` | the six formulas, period scores, totals and levels, as functions of a set of records |
| `Scoring` | records that are loaded and corrected, and what becomes of their scores |
| `Powers` | powers as a recursive function, for `Scoring`, `Views` and their proofs |
| `ContributionWork` | requests that create, edit and delete a work |
| `GeneralPerformanceProofs` | theorems about `KpiScores`, `Scoring` and `ContributionWork`, the two halves of a general score |
| `MonthlyReport` | sessions that create, regenerate, store, show and mail one report |
| `MonthlyReportProofs` | theorems about it |
| `Listing` | one reader of a paged list among writers |
| `ShiftAnalysis` | the four shift pages over interleaved commits |
| `PageProofs` | theorems about `Listing` and `ShiftAnalysis` |
| `Views` | one request for any page of performance over interleaved commits |
| `ViewsProofs` | theorems about it |
| `SumProofs` | lemmas on sums, products and powers that other proof modules share |
| `MC*` | symmetry sets, and the inputs of a run where they are more than a few values |

Every module says at each variable and each action what it stands for, and
`PROJECT.json` ("map") names the lines. Definitions under a comment *Seeded
fault* are no part of the model: each is a variant with a plausible bug, listed
under "mutants", and the property it belongs to fails when it is put in.

A run's property is often a conjunction, with a name and a comment for each part:
`WorkHangsTogether` is `TypeOK /\ DatesInOrder /\ ScoreCurrent /\ LeaderIsAlone
/\ GoneIsGone`. The parts answer one question together; the theorems of
section 5 use them one by one.

The modules meet where the code does. `ToolLoop` is what `AnomalyClaim` sees as a
sequence of stages. `MonthlyReport` has the claim and the completion of the mail job
as single steps, because `ReportEmail` takes them apart. `Views` takes formulas
as given that `Scoring` examines, and a bonus that `ContributionWork` makes.
`ShiftAnalysis` and `Views` abstract a commit of `Ingestion` to the rows it changes.
Three refinements are checked and proved: of `DeliveryPromise`, `TargetTimeline` and
`PerformanceLedger`.

### ReportEmail

The three kinds of actors are processes. A **worker** is one `send-monthly-report-emails`
call: `StartBatch` loads the candidates with their retry counts, `Pick` takes the
next, `Claim` is the conditional UPDATE of `_claim_report`, `Prepare` the checks of
recipients and PDF (any failure is one of the outcomes FAILED and SKIPPED),
`SendMail` the SMTP call with every outcome it may have, `Complete` the UPDATE
conditional on the token. A **watchdog** is one run of `reconcile-stale-jobs`:
`Scan` fixes the cutoff and the candidates, `Sweep` is one conditional UPDATE.
The **operator** has `ResolveSent` and `ResolveRetry`. `Crash` and `CrashWatchdog`
may come between any two of these.

One number stands for a claim's token (a UUID) and its time, since both are
written together and later claims have later times. Time itself is `horizon`:
the newest claim that is older than the stale timeout. `Age` moves it, at any
time, past any worker that is still busy: no relation between the timeout
and the length of an SMTP call is assumed, because the code does not enforce one.
The variable `tx` says whether the worker's session has an open transaction.
`accepted`, `ambiguous` and `retried` are history: which claims' mails the server took,
which of those calls raised all the same, which an operator reopened.

### AnomalyClaim

A **request** passes the fast check (`Request`), inserts its attempt and points the
anomaly at it (`Claim`, or `ClaimRejected` when the partial unique index refuses),
walks through the stages of its mode (`Advance`, or `AdvanceRefused` when
it would reactivate a row that was failed while the index is taken by a newer one),
commits its outcome (`Finish`), and separately writes it to the anomaly (`Publish`), guarded by
`current_analysis_id`. A **watchdog** selects, fails attempts one by one
(`Sweep`) and then, in a second UPDATE under its own guard, the anomaly
(`ReleaseAnomaly`). Row and anomaly are two variables because they are
two commits. `swept` and `abandoned` are history.

### TargetHistory

A publisher opens a transaction (`Begin`), executes the SELECT ... FOR UPDATE in
two steps, the snapshot and the wait for the row lock after which the row is
re-evaluated (`Snapshot`, `Lock`), reads the last version (`Number`), and closes the
old row and inserts the new one (`Publish`), or fails on the exclusion constraint
(`Conflict`), on a start date that is not later (`RejectStart`), or anywhere
(`Abort`). Rows are identified by scope and start date. Targets and rules
follow the same protocol and are modelled by the same actions; a scope stands for
a combination of KPI, plant and foreman, the resolvers' order of precedence is
the order of scopes. Today `publish_*` are called by tests only, the seeds write
rows directly: the model says what the functions guarantee to the screens
they are made for.

### Ingestion

A **run** reads the feed in order (`Fetch`), compares a batch with the table
(`FlushSelect`), and writes it (`FlushWrite`: INSERT ... ON CONFLICT DO NOTHING on
the natural key, the UPDATEs, scores, issues, counters, commit), unless the second
unique constraint raises (`FlushRejected`). Comparison and writing are two actions,
because another run may commit in between. `FinishRun` writes the
status. `Correct` changes a source record (value, or identity), `PublishRule(q)` opens a new
rule of KPI `q`, named by its first day, and closes the one before. The derivation of value and status from a
raw record is data here, its target included: values in `Good` are COMPLETE, each value in `Bad`
stands for a status with a problem.

Runs and rescorings load the rules once (`LoadRules`) and keep them as objects of their session,
whose commits expire them (`ExpireRules`; `expire_on_commit` is left at its default, `db/session.py:20`). The next
use of a KPI's rules (`UseRules`) reads them again: a rule closed meanwhile is closed then, and the
rule that took its place is not in the list. `lookup` is the list, `lapsed` the keys that have lost their rule
in this way, `expired` the KPIs to be read again. `resolve_rule` may thus find nothing; `NewScore` then
gives a COMPLETE row no score, or deletes the one it had, as `ingestion.py:361-364` and `203-206` do.

`StartRescore`, `ScanScores`, `RescoreRow`, `RescoreFlush` and `EndRescore` are `rescore_all` with its rules
and rows read up front. `RescoreRow` computes one row for the next UPDATE (`due`), or skips it (`Skips`: the KPI
is not active, there is no rule, the formula raises), which leaves its score as it is. The UPDATE
goes by the id of the score, so a score that an ingestion has deleted since (`gone`) is not written. `setting` is the size of a batch
and the KPIs that are active. `quiet`, `overtaken` and `unruled` are history: whether anything interfered with a
process since it began, which scores a rescoring wrote from a row that had been corrected
meanwhile, and which rows were written by a run that did not have the rule in force.

### Scoring

State is the records of a period; an action loads one (`Insert`) or corrects one
(`Correct`). All the rest is functions, in `KpiScores`: the six formulas with their limits, the order of summing and
scoring, which differs per KPI (`PeriodScore`), the equal weights of a foreman's
plants, coverage, the geometric total (kept as a product and a degree instead of
a root, so that comparisons stay exact), and the levels. Scores are integers in
hundredths. The logarithm of the code's formula is exact at powers of two and linear
in between; it is strictly increasing like the code's and has the same value at
every limit the formulas are pieced together at, which is all the properties use.

### ContributionWork

State is the rows of a work (`work`, `links`, `gains`) and the records of changes (`audited`).
`Create` and `Delete` are single transactions. An update is taken apart where
the code talks to the database: `Load` reads the row and checks the request by it,
`Drop` deletes the old links and gains, `Flush` writes what is new and computes the
score, `Commit` makes it visible. Between them others commit. Only columns
that differ from what was *read* are written (`Changed`), which is what the ORM
does, and the row is locked only from `Flush` on (`Locked`). A CHECK constraint, a
unique link or a missing row disable `Flush`, and `RollBack` is possible anywhere.
`strained` and `quiet` are history: which concerns of a work (its score, its roles, its required
fields) were last written by somebody who had read it before another's commit.
The override of one saving (per occurrence, per month) is kept only
in the request that names it; a later update recomputes both silently, and
`EveryChangeAudited` says that this is the only change of what a person can
enter that leaves no record.

### MonthlyReport

A session asks for a report's detail, its PDF, a link to it, a mail, or a
regeneration. `Find` and `Miss` are the first SELECT, `Build` reads the month,
`Insert` meets the unique constraint (the loser takes the winner's row), `Update`
changes a row in place. `Begin`, `Refresh`, `Upload` or `Fail` or `Raise`, and
`Store` are `generate_and_store_report_pdf` with its commits: a session works on
its own copy of the row (`mem`), and writes back the columns in which it differs
(`WriteBack`), also over what another has committed. `Download`, `Access` and
the mail's `Claim`, `Attach`, `Send`, `Complete` read what is there. `Crash` may come
anywhere. `had`, `given`, `mailed` record which data the row had, which were
handed out and which mailed. `force=True` has no caller in the application besides
tests and the function itself; it is modelled as an operator's tool (`Regenerators`).

### Listing

One reader, one list, and other sessions that insert, change, delete and publish. The
lists differ in where the order comes from: a column of the row (works, anomalies, exports),
a column nobody changes (names), or a score computed by earlier statements and
joined to the page (`ranked`). Each SELECT is an action. The cursor carries the last
row's value and id and the signature of filter and order; `CursorFits` refuses
it under another filter, for instance after midnight has moved the default
dates (`Switch`). NULLs come first or last with the direction, `keyset_after` treats
them apart, and a Boolean sort value cannot be compared at all (`Incomparable`): such
a page fails. A foreman who appears between ranking and page makes
`list_foremen` fail too; the reader asks again (`Retry`).

### ToolLoop

One attempt of `run_analysis`. The model, the tools and the clock are free: every
message of the model with up to `CallsPerTurn` calls, arguments that are no JSON,
an unknown tool, dates out of order or too far apart, a name that is not found, a
call that fails, takes too long or repeats another (`cache`), an HTTP error, an
answer that cannot be read. `DeadlinePasses` may come at any time or never. Limits
are looked at before each turn and before each call; a call refused by a limit
still has to be answered in the conversation (`RefuseCall`). `FinalAnswer`,
`FinalRetry` and `FinalRaises` are `_finalize`; the single request with the whole
context and the two demos are `Context*` and `Demo*`. An exception that
nobody catches ends the model in `raised`: the row is then the watchdog's.

### ShiftAnalysis

State is the weekly sums of one plant and the page being built. `LoadCards`,
`LoadHeatmap`, `OpenMatrix` and `OpenDetail` begin a page;
`build_foreman_shift_matrix`, `ReadWeeks` and `ReadAssigned` are its further SELECTs, and
`Ingest` commits a change between them. Averages stay fractions
(`num`, `den`), so that comparisons at a threshold are exact, and the
three copies of the thresholds (`Severity`, `classify_diff_level`,
`_shift_diff_classification`) are three definitions. Records are stored under the
shift of the source; one in another shift than the rotation's is SUSPICIOUS and
counted by no average, though it still says that the foreman was at work.

### Views

A request is served by a number of SELECTs (`Selects`); `at` says for each of them
which committed database it saw, `Commit` adds one, `Answer` evaluates the page's
function over those databases (each page has its operator, with the code's name:
`get_foreman`, `snapshot`, `foreman_kpi_breakdown`). `Received` narrows the filters to
the reader's scope as the routes do, and `Allowed` answers 403. `Orders` are the
orders in which the database may return equal rows; the list of a plant's foremen is sorted by the
database itself, by score and `ForemanId`. Workers are assignments with their months, which the monthly report and
the current plants of a foreman go by (`assignments_overlapping_period`). A reading carries, besides its sums, the score stored of it
and the types of its issues, for the calculation detail and the report of missing data. Two KPIs stand for all: one of a
single SELECT, and AGIR_GITME, whose ratio comes from a second one. Formulas and the
geometric mean are rounded down to integers. A property compares the answer with
what *another* page would have answered on the same database (`Now`), or with
itself.

## 3. The runs

Passing runs, each with every action fired:

| run | instance |
|---|---|
| `ReportEmail` | 1 report, 2 workers, 2 watchdogs, 1 retry, 2 claims |
| `AnomalyClaim` | 1 anomaly, 2 requests, 1 watchdog, 2 attempts |
| `ToolLoop` | up to 2 calls in a message, 2 counted calls, 2 turns, 4 requests (one for a tool that does not exist), periods of 7 and of 400 days |
| `TargetHistory` | 2 publishers, 2 scopes, dates 1, 2 and 4 |
| `Ingestion` | 2 source records, 2 keys of 2 KPIs (one without a rule at first), 2 good values (one of which fails under the second rule) and 1 bad, 2 runs, 1 rescorer, batches of 1 with both KPIs active or of 2 with one, 1 correction, rules from day 1 or 2 |
| `Scoring` | up to 3 records in 2 plants, any 2 KPIs (and one choice of 3) |
| `ContributionWork` | 1 work, 2 editors, 2 foremen, 9 kinds of request bodies, 4 requests |
| `MonthlyReport` | 2 sessions, one of which may regenerate, 1 correction, 3 requests |
| `Listing` | 3 rows, 2 values and NULL, pages of 1 and 2, all lists and orders, 2 writes, 1 change of the filter |
| `ShiftAnalysis` | 1 plant, 2 shifts, 3 foremen, 4 weeks, 2 KPIs of opposite direction, 3 results per week, 1 commit |
| `Views` | 3 foremen, 3 chiefs, 4 plants in 2 factories, 2 months, about 70 requests, 10 databases, 3 changes, 2 orders, 1 commit |

- **ReportEmail.** `NoSilentDuplicate`: a report has been mailed twice only if each
  earlier mail's call had raised or an operator asked for a retry. `OverlapExplained`:
  a worker that holds a token owns its report's claim unless the watchdog parked it or
  an operator has resolved it since (`LostOnlyToWatchdog`), and two workers are sending
  one report only after an operator's retry (`SecondSenderIsRetried`). `VerdictsStand`: SENT
  and SKIPPED are final (`FinalVerdicts`), only the worker of the latest claim
  decides a SENDING report (`LatestClaimDecides`), and what is parked was stale at
  that moment, not just when it was selected (`SweepRespectsTimeout`). `KeepsPromise`:
  the job implements `DeliveryPromise`. `ClaimReleased` (liveness): no claim is
  SENDING for ever.
- **AnomalyClaim.** `OneLiveAttempt`: two requests analyse an anomaly only if the watchdog
  gave up on one. `StuckOnlyByCrash`: an anomaly is in progress without an
  attempt in progress only while somebody alive is about to write it, or
  after a crash between two commits. `NoLateWrite`: the shared status changes only for the
  current attempt (`SupersededStaysSilent`), and a timely outcome is never overwritten
  (`OutcomeKept`). `AttemptEnds` (liveness): no attempt is in progress for ever.
- **ToolLoop.** `RecordIsWhole`: whenever the model is asked again, every call it made has
  its one answer, in order (`EveryCallAnswered`), and the stored steps are numbered without
  gaps and repeat no successful call (`TraceIsReadable`). `LimitsHold`: turns, counted
  calls and the length of the conversation are bounded whatever the model asks. `OutcomeHonest`:
  an answer made with tools cites calls that returned data (`CitesOnlyWhatWasSeen`), the status only
  moves forward (`ProgressOnlyForward`), and an attempt without a warning was cut by
  nothing (`NoWarningMeansWhole`). `LoopEnds` (liveness): it ends by itself, even if the
  deadline never passes.
- **TargetHistory.** `HistorySound`: the resolvers never find two rows (`NeverAmbiguous`), and
  versions grow with the start dates although the number is read early (`VersionsInOrder`).
  `KeepsTimeline`: a publish takes over from its start date, uncovers no
  date, and changes nothing before.
- **Ingestion.** `TablesAgree`: only COMPLETE rows have a score, of their present value unless overtaken, and one
  is without only where the run that wrote it began before there was a rule for its day, or before the rule in force was
  published; a row with a problem has its issue; the counters account for every record fetched. `RunCatchesUp`: an
  undisturbed run leaves every raw record in its row, or turned away with an issue. `RescoreCatchesUp`: an undisturbed rescoring leaves every score as
  the rule in force says, the rows it skips aside. `KeepsLedger`: rows never change hands and show only
  what their source has said.
- **Scoring.** `BetterNeverScoresLess`: improving any records lowers no score and no
  total, over every limit. `ScoresMeanTheSame`: meeting each target is worth 100 also in
  sum, with different targets per plant, and missing all of them by what hundredths can
  tell (`OffTarget`) is worth less (`TargetMeansHundred`); a KPI at zero zeroes the total, which never exceeds the
  arithmetic mean (`NoKpiHidesAnother`). `LevelNeverDrops`: nor does better work lower
  the level, out of a gap between two levels aside.
- **ContributionWork.** `WorkHangsTogether`: dates in order although each of two
  requests checks only one of them; a score of the present columns unless it was computed from an
  old reading; a leader exactly if there is one foreman; nothing left of a deleted
  work. `PublishedComplete`: a work whose status was checked last, by an undisturbed
  request, has what it needs. `SharesAddUp`: all of a saving is credited, and nothing
  twice. `ChangesAreAccounted`: a request changes only the columns it names, and leaves a record.
- **MonthlyReport.** `OneReport`: whoever asks gets data that the one row has had,
  and a READY report has a key and an object. `DeliveredIsCurrent`: while no
  regeneration is unfinished or was disturbed, what is stored and mailed is what the
  row says. `NewDataNewVersion`: when the row's data change the version changes, and by
  one upwards unless the regeneration had loaded another version than there is now.
- **Listing.** `PagesAreOneList`: a row that nobody writes stands at most once in the
  pages put together, in one order. `NothingSkipped`: at the end each of them was delivered.
  `ShownAsRanked`: foremen show the score they were ordered and filtered by.
- **ShiftAnalysis.** `CardsTellOneStory`: a card opens, nobody lies beyond its two
  foremen, and a signal of another KPI has a card of its own. `ChartExplained`: the sentence
  "repeats all month" and the empty weeks are true of the chart beside them.
  `InsightMatchesMatrix`: so is the sentence under the matrix. `OneScale`: the
  three threshold tables agree, and a shift lies among its foremen.
- **Views.** `PagesAgree`: rank, team, reports, sections and mailed report say what the other
  pages say. A rank is a place of the foreman's *score* on the other page: foremen of one score may stand in another order there.
  The mailed report is made exactly if the page calls the month reliable and an assignment overlaps it. `PartsMakeTheTotal`: the KPI
  scores beside a total (on a foreman's KPI page, in a comparison, in the analysis of a KPI) make that
  total, a trend of one bucket is the score, a plant lies between its weakest and
  strongest KPI. `CommitsDoNotTear`: a dashboard answer agrees with itself, and an
  announced leader is the best of what was read, whatever is committed meanwhile.
  `NothingOutsideFilter`: an answer is what it would be if rows outside the filter and
  the reader's scope did not exist.

**Bounds.** Everything in the two claim protocols is per report, or per anomaly;
rows do not interact except through a process that works on one at a time, so
one row with two claims and two workers has every race of a late, a
current and an overlapping actor. The two overlapping watchdogs of the e-mail job are checked;
those of the anomaly job, which would make the run with liveness too long, are covered by
the proofs, which are for any number. `MaxClaims`, `MaxAttempts`, `MaxRuns`,
`MaxEdits`, `MaxRules` and `MaxRequests` cap counters that grow in time; the theorems of
section 5 hold without regard to their values. Two publishers are enough
for a snapshot that is stale when its lock is granted, and the gap in the dates
makes "the day before" differ from "the date before". In `Ingestion` a batch of
two holds a good and a rejected record at once, batches of one put a commit between two
records, after which a rule may be lost, and two runs with one
correction between them make the comparison of one stale. Readings in `Scoring` lie
on, below and above each limit of each formula, negative values and targets of zero
included where the code accepts them.

Four requests in `ContributionWork` are a creation, two overlapping updates and a
deletion or a third update; links of plants are treated as those of foremen. Three
requests in `MonthlyReport` let one session find what two others left, crashed ones included. Three
rows in pages of one or two give a page break inside and outside a tie and a page
that is exactly full; `LevelFloor` and `MaxScore` are scaled to two values. In `ToolLoop`
a message of two calls is cut in the middle by each limit, and 400 days exceed the longest range a tool
accepts. In `ShiftAnalysis` `MinRecords` is 2 for the code's 4, with weeks of one and
two days on either side; results differ by exactly 15 % and by exactly one point, and the second KPI is signed, as AGIR_GITME is. In `Views` one
foreman works in two plants of one chief, one in two plants of two chiefs until he leaves one, and one has no assignment in the
second month though he has records of it, so pooled sums, averages over plants and current assignments all differ; some foremen have equal scores, and their ids
put the three in an order that is neither of the two; one commit at any
point of a request is the shortest torn read.

`CHECK_DEADLOCK FALSE` is said for `Ingestion`, `ContributionWork`, `MonthlyReport`, `Listing` and
`Views` only, since there the system may really stop: the runs, corrections or requests
allowed by the bounds are used up and everybody is idle, or the one list or answer is
complete. **Symmetry** is used over processes and interchangeable data in
runs without liveness.

Properties that speak about `quiet`, `overtaken`, `unruled`, `strained` or `clean`, and `LevelNeverDrops`
about `InGap`, name exactly the cases the code leaves open; they are hazards
in `PROJECT.json`, not assumptions about the environment.

## 4. Fairness

Cron starts `reconcile-stale-jobs` every 15 minutes, whatever became of the
last one, and time passes. Hence weak fairness of `Age` and of `Scan`. A watchdog may
die in any run, and it may be restarted at any time, so nothing forbids that it dies
for ever; strong fairness of `Sweep` of one row (and, for anomalies, weak fairness of
`ReleaseAnomaly`) says that it does not die before that UPDATE every single time.
Nothing is assumed of workers, requests or operators: they may stall for ever, and
`ClaimReleased` and `AnomalyClaim`'s `AttemptEnds` hold all the same.

`ToolLoop` is about a thread that is not killed: weak fairness of `Attempt`, its
next step, whatever that is. The code justifies it by the time-outs of every request it makes;
`DeadlinePasses` is not part of `Attempt` and gets no fairness.

## 5. What is proved

TLAPS checks the following for every value of the constants (any number of reports, attempts,
scopes, records, sessions, workers, foremen, weeks, and any bound), from the named
assumptions of the modules only:

- `ReportEmailAssumption`, `AnomalyClaimAssumption`, `TargetHistoryAssumption`, `MonthlyAssumption`,
  `IngestionAssumption`, `ListingAssumption`, `LimitsArePositive`, `RequestsAreCalls`: types of the constants; a null value
  is not a value.
- `ContributionAssumption`: the same, and a request body that gives a column gives it a value of its type.
- `ScoringAssumption`: readings are ones the derivation of KPIs yields (`IsReading`), weights are positive,
  levels are sorted by their minimum, as `level_lookup.py` sorts them.
- `ShiftAssumption`: a sum over days with a record has a positive denominator, there are two shifts or more,
  and the thresholds of a severity grow.
- `ViewsAssumption`: the same types, no plant and nothing that has a page is called `*`, a filter has the fields the
  services read (it may name anything in them), a reader sees some of the plants or has no limit, the database returns
  the rows of a result in some order, without ties, weights are positive, a complete record has a quantity to divide by
  (`production_kpi_derivation.py:34-71`), and the limit of a snapshot is at least 1 (`dashboard.py:143`).

| module | theorems |
|---|---|
| `ReportEmailProofs` | `TypeCorrect`, `InvariantCorrect`, `NoSilentDuplicateCorrect`, `OverlapExplainedCorrect`, `FinalVerdictsCorrect`, `LatestClaimDecidesCorrect`, `SweepRespectsTimeoutCorrect`, `VerdictsStandCorrect`, `PromiseKept` |
| `AnomalyProofs` | of `AnomalyClaim`: `TypeCorrect`, `InvariantCorrect`, `OneLiveAttemptCorrect`, `StuckOnlyByCrashCorrect`, `OutcomeKeptCorrect`, `SupersededStaysSilentCorrect`, `NoLateWriteCorrect`; of `ToolLoop`: `LoopInvariantCorrect`, `RecordIsWholeCorrect`, `LimitsHoldCorrect`, `OutcomeHonestCorrect` |
| `RecordProofs` | of `TargetHistory`: `HistoryTypeCorrect`, `HistoryInvariantCorrect`, `VersionsInOrderCorrect`, `NeverAmbiguousCorrect`, `HistorySoundCorrect`, `TimelineKept`; of `Ingestion`: `InvariantCorrect`, `TablesAgreeCorrect`, `RunCatchesUpCorrect`, `RescoreCatchesUpCorrect`, `LedgerKept` |
| `GeneralPerformanceProofs` | of `ContributionWork`: `InvariantCorrect`, `WorkHangsTogetherCorrect`, `PublishedCompleteCorrect`, `SharesAddUpCorrect`, `ChangesAreAccountedCorrect`; of the single formulas: `ScoresInRange`, `BetterWorkScoresNoLess`, `TargetIsHundred`; of `Scoring`: `ScoresMeanTheSameCorrect`, `BetterNeverScoresLessCorrect`, `LevelNeverDropsCorrect` |
| `MonthlyReportProofs` | `InvariantCorrect`, `OneReportCorrect`, `DeliveredIsCurrentCorrect`, `NewDataNewVersionCorrect` |
| `PageProofs` | of `Listing`: `KeysetIsOrder`, `InvariantCorrect`, `PagesAreOneListCorrect`, `NothingSkippedCorrect`, `ShownAsRankedCorrect`; of `ShiftAnalysis`: `ShiftInvariantCorrect`, `CardsTellOneStoryCorrect`, `ChartExplainedCorrect`, `InsightMatchesMatrixCorrect`, `OneScaleCorrect` |
| `ViewsProofs` | `ViewsInvariantCorrect`, `NothingOutsideFilterCorrect`, `CommitsDoNotTearCorrect`; `PagesAgreeCorrect`, from `RankMatchesRankingCorrect`, `FactoryRankInFactoryCorrect`, `ChiefPagesAgreeCorrect`, `MonthlyReportMatchesPageCorrect`, `ReportsAgreeCorrect` and `SnapshotMatchesSectionsCorrect`; `PartsMakeTheTotalCorrect`, from `PlantTotalBetweenKpisCorrect`, `KpisExplainScoresCorrect` and `OneBucketIsTheScoreCorrect` |

With them every safety property that a passing run checks is proved.
Each follows from an inductive invariant (`IInv`, `HistoryInv`, `LoopInv`, `ShiftInv`, `ViewsInv`) that stands with its parts
in the module it is about and was model-checked before it was proved; the runs no longer list it.
Why its parts are needed:

- **ReportEmail.** That no mail is repeated silently depends on what a worker
  is about to write, so `VerdictHonest` ties the verdict in its memory to what its
  mail did; the verdict is written only under its token, so `ClaimsUnique` says that a token is issued
  once, to one worker; and a report is claimed again only when it is open, so
  `OpenIsSafe` says what may have happened to the latest claim of an open report.
  `RowShape` ties status to token, `WorkerShape` memory to program counter, and
  `CutoffPast` makes a watchdog's old cutoff harmless. `PromiseKept` maps every
  action to a step of `DeliveryPromise` or to a stutter; a lemma per kind of move
  (`PhaseMove`, `Invisible`) keeps the cases short. `OverlapExplained` needs one invariant
  more, `TokenBehind`: a worker's token is never newer than the latest claim of its report, so
  of two senders the older one has lost its claim, and `LostOnlyToWatchdog` says how.
- **AnomalyClaim.** `OneLiveAttempt` follows from `OneActiveRow`, the partial index, and
  `RowHonest`, which says that a row that was not timed out agrees with its request's
  stage. `ClaimShape` identifies attempts with requests, and `StuckOnlyByCrash`
  is inductive once these are known.
- **TargetHistory.** `HistoryShape` says that every scope's rows are a chain without gap, the last one
  open; from it every date has at most one row in a scope, which
  is `NeverAmbiguous`. `LocksHold` and `NumberFresh` say that a publisher that holds the
  open row has read the last version, so `VersionsInOrder` survives the race. `TimelineKept`
  compares, for each date, the row that applies before and after a step.
- **Ingestion.** A batch is compared in one step and written in another, so `BatchShape` says what the writer may
  rely on: whatever it has read its source has reported, and a row it is going to
  update still is its source's, since owners never change. `OneRowPerSource` is the second unique constraint.
  `QuietRuns` says of an undisturbed run that its comparison is still true and that every record
  it has passed is in its batch or settled, from which `RunCatchesUp` follows at its end;
  `QuietRescorers` and `ScanShape` do the same for a rescoring: a score it has still to write is there unless it was deleted, and
  one it has written or skipped is as it should be. `RuleShape` is about the rules in memory: rules only get newer, so whoever has not
  found a rule, or has lost it, is behind the rule in force, and a score missing from a batch is that of a row that `unruled` will hold
  (`MemoryStep`, `UsedStep` and `RuleStep` carry it over loading, expiring and publishing). `LedgerKept` maps the write
  of a batch to one step of `PerformanceLedger`.
- **ContributionWork.** `EditorShape` ties a request's memory to its place, and gives each a number of its own.
  `FlushedShape` is the row lock: of the requests that have flushed for a work at most one
  has changed its row. `QuietShape` says that an undisturbed request has checked what it will
  commit, `TimeShape` that a time of publication is past. `LinkShape` looks ahead: the
  links are those of one foreman each *whichever* request commits next. That shares add up for any number of foremen
  and plants takes a lemma on sums: `SumSet` is a fold, so each equation is proved by a smallest set that
  violates it, the sums over rows and over columns of shares are exchanged, and
  the scale is a factorial, which every number of sharers divides.
- **KpiScores, Scoring.** Each of the six formulas never falls when the work gets better, by one lemma per piece and
  one at each limit where pieces meet, rounding and the logarithm included; it stays in its range and is
  100 exactly on its target (`BetterWorkScoresNoLess`, `ScoresInRange`, `TargetIsHundred`). Weighted means and
  the geometric total then never fall: a smallest set of records for which they did would have a smaller one. That the total never exceeds the arithmetic
  mean is Bernoulli's inequality in integers, carried from one factor to the next. A level is found by
  the first minimum that is reached, so `LevelNeverDrops` compares the smallest levels not reached.
- **ToolLoop.** `TalkShape` says that every message of the model has its answers, in order, up to the
  calls that are still open; `StageShape` which of the counters a stage may have moved, `LimitShape` that a conversation, the calls still open
  included, is no longer than its turns allow. `RowShape` ties the stored
  row to the stage, and `WarningShape` a missing warning to limits that were never met.
- **MonthlyReport.** Sessions write back copies, so the invariant is about them: every copy has data the row has
  had (`CopiesHad`), a copy's key is in the row (`StoredStays`), and its version is below the number of the request
  that will write it (`VersionShape`). `CopiesFresh`, `AloneShape` and `CleanShape` say what holds while no
  regeneration disturbs another, and `SessionShape` ties kind and place of a session.
- **Listing.** `KeysetIsOrder`: `keyset_after` holds of exactly the rows that come later in the order, for NULLs first or
  last and either direction, and that order is total on rows. `WalkShape` then says that the cursor parts the rows nobody
  writes: those shown are not after it, and those not after it have been shown. `Fresh` is
  that a request knows such a row, and its score, as it is, `RequestShape` and `RankShape` what it remembers between statements.
  The order of a page (`Ordered`) is written out as a quantifier, since the library defines sorting recursively.
- **ShiftAnalysis.** The properties compare a page with what an earlier SELECT has shown, so each part of `ShiftInv`
  says what of it is still true while `changes` is as it is: of the list (`ListShape`), the heatmap
  (`HeatShape`), the matrix (`MatrixShape`), a pair of foremen and its signals (`PairShape`). `WeeksShape` holds always: who has a value
  in a week has worked in it. The arithmetic is lemmas on fractions: moving two averages further apart never lowers the severity
  of their difference (`Wider`), an average of sums lies among the averages of its parts (`ShiftAmongForemen`, by a smallest set of
  foremen that violates it), and a cell with two readings has a lowest and a highest one.
- **Views.** `AnswerStands` says that an answer is the page made of what all its SELECTs read, and that only a reader who may
  have it holds it, one who downloads another's export included; with `ReadInOrder`, a page whose first and last SELECT
  saw one database saw no other. `NothingOutsideFilter` then compares two databases that agree on some plants: a filter that
  lets only rows of those plants through gives the same sums (`RowsSame`), so the same scores (`ScoresSame`), so the
  same result of every service (`GroupsSame`, `TrendSame`, `BreakdownSame`), so the same page, for each page with the
  filters it derives from the one it was given (`FiltersInside`). Nothing is assumed of rounding, ranks or levels.
  `CommitsDoNotTear` is about lists, and each SELECT of the page may have seen another database: `SortedIs` says that the list put together by
  counting who comes before (`Place`) has every entry once, at its place, from which follow the lengths (`CutIs`), the first entry
  (`FirstIsBest`), and what two lists cut from one order share (`SnapshotStands`); `LevelsPartition` adds the levels up.
  The parts of `PagesAgree` and `PartsMakeTheTotal` are about a page that saw one database; `SteadyPage` says which, from `ReadInOrder`.
  What is shown there is reduced to the rows it comes from: `GroupScore` is the score of a set of rows, and `GroupedAre`, `ForemanMadeOf`,
  `ChiefScoreIs` say which sets a table of scores is made of. Two services then agree because they take the same rows
  out in different ways, by a filter or out of a group of all (`ForemanRows`, `ChiefFilters`), or because they order the same
  entries and then cut or search the list (`RankInRanking`, `SortedRanks`, `_factory_ranked`). Where two lists break ties
  differently, the same place still holds the same score (`SamePlaceSameScore`). The monthly report and the foreman's page group by
  plant and average, so a foreman of one KPI has groups of groups; a trend of one bucket has the same groups under
  other keys (`TotalRenamed`, `AverageRenamed`). A weighted geometric mean lies between the smallest and the largest score
  (`MeanBetween`), since a product of powers of one number is its power to the sum of the weights (`ProductOfPowers`).

Four statements turned out to be wrong while they were being proved, and the models were corrected:
two overlapping regenerations may take a report's version from 2 to 4, so `NewDataNewVersion` is about change, and about a
step of one for a fresh copy; the number of shares that `ContributionWork` counted in, n(n+1), is no multiple of every n' ≤ n
from 5 on; a reading that misses its target by less than a hundredth can tell (1/3 against 33.33 %) scores 100 as well; and a severity
is relative to the *absolute* values of both averages (`shift_analysis.py`), which matters for AGIR_GITME alone, whose
averages may be negative.

**Only model-checked:** the liveness properties (`ClaimReleased`, `AttemptEnds` and `LoopEnds`), as
fairness and ENABLED are out of the prover's reach. Statements about sums and products over sets are
proved without induction over data: a smallest counterexample is a fact of natural numbers.

## 6. Where the code and its documents disagree

One run is expected to fail. `ScoringLevelGap` checks that the last level is earned, as the
README of the repository says ("Başarılı (90 ve üzeri)", `src/README.md:323-324`): a total between 69.99 and
70 belongs to no level, since totals are not rounded, and falls through to the last one.

The following statements were refuted as well. The passing properties say what
holds instead; they have no run of their own.

- *No transaction is open during the SMTP call* (`src/README.md:1301`, `monthly_report_email.py:57-58`). The refresh
  after the claim's commit (line 136) opens one, and nothing ends it before the call (line 173). `ReportEmail` keeps it as `tx`.
- *The first of watchdog and worker to commit wins* (`src/README.md:1374`, `anomaly_job_claim.py:61`). The watchdog's UPDATE
  (`job_reconciliation.py:155-161`) leaves `current_analysis_id` alone, so a worker that returns late overwrites the FAILED of
  row and anomaly. `OutcomeKept` says that a *timely* outcome is kept.
- *The sweep frees the anomaly* (`job_reconciliation.py:117`). After a crash between the commit of the row and that of the anomaly
  (`anomaly_analysis_service.py:210` and `213`) the row is final, no sweep selects it, and the fast check turns every
  new request away. `StuckOnlyByCrash` says that this is the only way.
- *PLANA_UYUM makes one score of one ratio* (`src/README.md:238`, `320-321`). Every record is scored and the scores are averaged by planned
  quantity (`analytics.py:210-236`).
- *The filters reach all queries of the dashboard* (`src/README.md:712-716`). The plants with missing data, the numbers of plants and the
  missing-data report are filtered by date only (`dashboard_overview_service.py:90-98`, `reporting.py:238-252`);
  `NothingOutsideFilter` leaves them out, with the calculation detail and the monthly report, which take no filter of plants
  (`foreman_service.py:384`, `monthly_foreman_report.py:262`).
- *A fallback is told in analysis_limitations* (`src/README.md:965-968`). Only the warnings are set; `NoWarningMeansWhole` is about those.
- *After two unusable answers the analysis is `failed`* (`src/README.md:857-859`). A message whose content is null raises a TypeError that
  `_finalize` does not catch (`anomaly_orchestrator.py:352-361`), so the row is left to the watchdog; it is `FinalRaises`.
- The demo cites the code of its first *successful* call under the name of the first tool of its sequence, which may be another
  (`anomaly_demo_tool_calling.py:94`); `CitesOnlyWhatWasSeen` compares codes.
- *Works have no link to performance scoring* (`src/README.md:1050`). Their bonus is part of the general score.
- *A chief's score is the mean of his foremen's*, and *a total is the weighted sum over the weights*
  (`src/docs/is-analizi-formen-takip-sistemi.md:366`, `316`). The code scores the chief's rows as a group, and takes a weighted geometric mean.

## 7. What is not modelled

- **Contents**: texts, PDF layout, mail bodies, prompts, JSON shapes, logging, titles and labels.
- **Roles, tokens, rate limit**: assigning and revoking a role, the OIDC key cache, the sliding window of the rate
  limiter. `Views` starts from a scope that was resolved.
- **Front end and deployment**: no protocol of their own.
- **Synthetic world**: a generator of demo data; only its seeded parameters (KPIs, levels, limits) are
  used.
- **Calendars**: the e-mail and report models have one month (a report left PENDING when the next
  month begins is a hazard without a property), `Scoring` and `Views` one rule per KPI, `Scoring` one period. The 90 days of works that
  make a bonus, and the choice of a highlighted gain, are left out: a bonus is a number.
- **Ingestion**: targets that are closed during a run (a target is part of the raw record, as it was when that was
  fetched), KPIs switched on or off while a process runs.
- **Generic formulas** that no seeded rule uses (`kpi_engine.py:309-420`), the backfill of issues, and
  the two one-off steps before the rescoring of model v2.
- **Views**: average actuals and targets, the missing-data pages beyond their counts, comparisons of shifts in
  a page of a plant, the shape of a trend beyond its buckets, `meta_service`. A stored export is its answer; its audit
  rows are left out. One request runs at a time; nothing is written by it.
- **Shift analysis**: the separate average of AGIR_GITME, the target read beside a card, the order
  of cards, the summaries above cards and heatmap.
- **Tool loop**: what a tool computes. An error of the database inside a tool is one outcome
  (`AbortedCall`), after which the session cannot write and the attempt raises.

Behaviour met while modelling that no property states, because the code promises nothing of it:

- AGIR_GITME and PLANA_UYUM are read by two SELECTs; a group whose records go in between gets the ratio 0,
  which for AGIR_GITME is the full score (`analytics.py:252`). `Views` lets it happen.
- A plant's `critical_foreman_count` goes by operational scores, the lists by general ones; a chief's foreman count
  includes foremen whose only records are incomplete and whom the list omits; `_month_leader` asks for one
  foreman, so an unreliable first hides a reliable second; the list of improving foremen may hold negative differences.
- Plants and chiefs are scored again for the page they are shown on, so a score may be newer than its place; the
  total beside a page is a later SELECT.
- With three foremen and two whose shifts lie apart the sentence under the matrix says "stable"; only the first two
  foremen are compared with each other.
- A saving entered by hand is recomputed by the next update that does not name it, and a highlighted gain keeps pointing to a row
  that an update of the gains has replaced. `min(operational + bonus, 120)` lowers an operational score above 120.
- A report is frozen when it is first made: nothing in the application regenerates it. Errors of the
  S3 client other than `ClientError` are not mapped (`s3_storage.py:16-30`); they are `Raise`.
- A rule published while a run is in progress takes the rule of its dates from the run without giving it the new one, so COMPLETE
  rows stay without a score or lose it (`ingestion.py:206`, `275`, `361`). `rescore_all` does not bring it back, as it joins the scores there
  are (`rescoring.py:121-136`); nor does a later run, which finds the record unchanged. `TablesAgree` says that nothing else has this effect.
- Foremen of one score may have different ranks on different pages: the list of a plant breaks ties by id
  (`foreman_repository.py:159-161`), detail and dashboard leave them as the groups came back (`foreman_service.py:288-296`).
- The calculation detail of a record shows the stored score, by the rule of the record's date (`foreman_service.py:384-400`); the
  breakdown beside it applies the rule of today to all dates (`analytics.py:77-90`). After a publication the two differ. `Views` keeps the
  stored score apart from the formula, and no property relates them.
- A replayed feed reports DUPLICATE and SUSPICIOUS again (`ingestion.py:247`); the limit of retries is that of the rows as loaded, once per batch (`cli.py:418`); a mail of
  which some recipients were refused counts as SENT (`email_sender.py:50`).

## 8. Plan

Order of work, the most important first.

1. `ReportEmail`, `AnomalyClaim`, `TargetHistory` with their proofs: done.
2. `Ingestion`, `Scoring`: done.
3. `ContributionWork`, `MonthlyReport`, `Listing`, `ToolLoop`, `ShiftAnalysis`, `Views`: done.
4. Proofs about `Ingestion`, `MonthlyReport`, `ContributionWork`, `Scoring`, `ToolLoop`, `Listing` and `ShiftAnalysis`,
   and the refinement of `PerformanceLedger`: done.
5. Proofs about `Views`: its invariant, `NothingOutsideFilter`, `CommitsDoNotTear`, `PagesAgree` and
   `PartsMakeTheTotal`: done.
6. `Rbac` and `RateLimiter`: concurrent assignments, key cache, sliding window.
7. Several months: reports that stay PENDING, the window of the bonus, and the composition of `TargetHistory` and
   `Scoring` (stored scores use the rule of their own date, views today's).

## 9. How to run it

    tlc -workers 2 -config ReportEmail.cfg ReportEmail.tla
    tlapm ReportEmailProofs.tla

`PROJECT.json` ("runs") names the module of each configuration. `Ingestion` takes the
longest, about three minutes, then `Views` with two; the others take little more than one at most. From nothing,
`ViewsProofs` takes about nine minutes, `GeneralPerformanceProofs` five, `PageProofs` four, `AnomalyProofs` two, each
other module less.

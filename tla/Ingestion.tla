----------------------------- MODULE Ingestion -----------------------------
(***************************************************************************)
(* Loading performance data, run_ingestion of ingestion.py, and scoring it *)
(* anew, rescore_all of rescoring.py, by processes that overlap and die.   *)
(*                                                                         *)
(* The feed yields one raw record per source record, in the order of their *)
(* numbers.  A raw record is the natural key it names and its value, which *)
(* stands for the _MUTABLE_VALUE_FIELDS; a value in Bad is one that gets   *)
(* a data_quality_status other than COMPLETE, and Unknown stands for codes *)
(* the lookups do not have.  A flush takes two steps: the SELECT of the    *)
(* rows its batch is compared with, and the writes, whose row locks and    *)
(* commit make them one step for everybody else.                           *)
(*                                                                         *)
(* A run and a rescoring load the calculation rules once and keep them as  *)
(* objects of their session.  Each commit expires these, and the next use  *)
(* loads them again: a rule that was closed meanwhile is closed then, and  *)
(* the rule that took its place is not among those loaded at the start.    *)
(* A rule is named by its first day.                                       *)
(***************************************************************************)
EXTENDS Naturals, FiniteSets

CONSTANTS
  NumSources,  (* source records in the feed                                *)
  Keys,        (* natural keys: foreman, KPI, chief, shift, date and plant  *)
  KpiOf, Day,  (* KpiOf[k], Day[k]: the KPI and the date of a natural key   *)
  Days,        (* days a rule may begin on                                  *)
  FirstDays,   (* what the open rule of each KPI may begin on at first      *)
  Contents,    (* what a source record may yield: Raw or Unknown            *)
  Feeds,       (* what the feed may yield at first                          *)
  Fails,       (* <<value, rule>> with a KpiCalculationError                *)
  Good,        (* values that are COMPLETE                                  *)
  Bad,         (* values that are MISSING, INVALID, SUSPICIOUS ...          *)
  Runs,        (* processes that may run an ingestion                       *)
  Rescorers,   (* processes that may run rescore_all                        *)
  Settings,    (* [batch : BATCH_SIZE, active : KPIs with is_active]        *)
  NoSource, NoValue, NoScore, Unknown,
  MaxRuns, MaxEdits   (* bounds of the model                                *)

Sources == 1 .. NumSources
Values == Good \union Bad
Raw == [key : Keys, value : Values]
Procs == Runs \union Rescorers
Kpis == {KpiOf[k] : k \in Keys}
NoRule == 0
Rules == Days \union {NoRule}

ASSUME IngestionAssumption ==
  /\ NumSources \in Nat
  /\ Settings \subseteq [batch : Nat \ {0}, active : SUBSET Kpis]
  /\ MaxRuns \in Nat /\ MaxEdits \in Nat
  /\ Days \subseteq Nat \ {0} /\ Day \in [Keys -> Nat] /\ FirstDays \subseteq [Kpis -> Rules]
  /\ Feeds \subseteq [Sources -> Contents]
  /\ Good \intersect Bad = {}
  /\ Runs \intersect Rescorers = {}
  /\ NoSource \notin Sources \union [src : Sources, value : Values]
  /\ NoValue \notin Values
  /\ NoScore \notin [value : Good, rule : Days]
  /\ Unknown \notin Raw /\ Contents \subseteq Raw \union {Unknown}
  /\ "REPROCESSED" \notin Values

VARIABLES
  setting,    (* the setting all processes run with                         *)
  content,    (* content[s]: the raw record source record s yields now      *)
  edits,      (* how often the source data was corrected                    *)
  rule,       (* rule[k]: the rule in force on the day of k, or NoRule      *)
  since,      (* since[q]: the open rule of KPI q                           *)
  owner,      (* owner[k]: source record of the row of k, or NoSource       *)
  value,      (* value[k]: its values and status                            *)
  score,      (* score[k]: value and rule its score was computed from       *)
  issues,     (* issues[k]: types of the issues that name the row           *)
  orphans,    (* orphans[s]: issues without a row, DUPLICATE and SUSPICIOUS *)
  started,    (* runs started so far                                        *)
  status,     (* status of the latest row of integration_runs of each       *)
  pc,         (* where each run is                                          *)
  pos,        (* the source record it fetches next                          *)
  batch,      (* record_batch: source records not flushed yet               *)
  read,       (* what was read of them                                      *)
  used,       (* score_batch: the rules they were scored by, or NoRule      *)
  plan,       (* what the flush is going to do with them                    *)
  success, errors, skipped,   (* its counters                               *)
  rpc,        (* where each rescorer is                                     *)
  scan,       (* scan[x][k]: value it has read and not yet written          *)
  due,        (* its batch: due[x][k] is the rule of the score to write     *)
  gone,       (* keys whose score has been deleted since it read its id     *)
  lookup,     (* lookup[p][k]: rule of k that process p loaded at its start *)
  lapsed,     (* lapsed[p]: keys it has found without a rule since          *)
  expired,    (* expired[p]: KPIs whose rules it will load again            *)
  quiet,      (* history: nothing else touched the data since it started    *)
  overtaken,  (* history: keys scored from a value that had been replaced   *)
  unruled,    (* history: rows written by a run without today's rule        *)
  reported    (* history: what each source record has ever yielded          *)

worldVars == <<setting, content, edits, rule, since>>
rowVars == <<owner, value, score, issues, orphans>>
runVars == <<started, status, pc, pos, batch, read, used, plan, success, errors, skipped>>
rescoreVars == <<rpc, scan, due, gone>>
ruleVars == <<lookup, lapsed, expired>>
vars == <<worldVars, rowVars, runVars, rescoreVars, ruleVars, quiet, overtaken, unruled, reported>>

Decisions == {"none", "insert", "update", "conflict", "same"}
Scores == [value : Good, rule : Days]

TypeOK ==
  /\ setting \in Settings
  /\ content \in [Sources -> Contents]
  /\ edits \in 0 .. MaxEdits
  /\ rule \in [Keys -> Rules] /\ since \in [Kpis -> Rules]
  /\ owner \in [Keys -> Sources \union {NoSource}]
  /\ value \in [Keys -> Values \union {NoValue}]
  /\ score \in [Keys -> Scores \union {NoScore}]
  /\ issues \in [Keys -> SUBSET (Bad \union {"REPROCESSED"})]
  /\ orphans \in [Sources -> Nat]
  /\ started \in 0 .. MaxRuns
  /\ status \in [Runs -> {"none", "RUNNING", "SUCCESS", "PARTIAL_SUCCESS"}]
  /\ pc \in [Runs -> {"idle", "fetch", "write"}]
  /\ pos \in [Runs -> 1 .. NumSources + 1]
  /\ batch \in [Runs -> SUBSET Sources]
  /\ read \in [Runs -> [Sources -> Contents \union {Unknown}]]
  /\ used \in [Runs -> [Sources -> Rules]]
  /\ plan \in [Runs -> [Sources -> Decisions]]
  /\ success \in [Runs -> Nat] /\ errors \in [Runs -> Nat] /\ skipped \in [Runs -> Nat]
  /\ rpc \in [Rescorers -> {"idle", "scan", "score"}]
  /\ scan \in [Rescorers -> [Keys -> Good \union {NoValue}]]
  /\ due \in [Rescorers -> [Keys -> Rules]]
  /\ gone \in [Rescorers -> SUBSET Keys]
  /\ lookup \in [Procs -> [Keys -> Rules]]
  /\ lapsed \in [Procs -> SUBSET Keys]
  /\ expired \in [Procs -> SUBSET Kpis]
  /\ quiet \in [Procs -> BOOLEAN]
  /\ overtaken \in SUBSET Keys /\ unruled \in SUBSET Keys
  /\ reported \in [Sources -> SUBSET Contents]

Nothing == [s \in Sources |-> Unknown]
Undecided == [s \in Sources |-> "none"]
Unscored == [s \in Sources |-> NoRule]
NoScan == [k \in Keys |-> NoValue]
NoRules == [k \in Keys |-> NoRule]

Init ==
  /\ setting \in Settings
  /\ content \in Feeds
  /\ edits = 0
  /\ since \in FirstDays
  /\ rule = [k \in Keys |-> IF since[KpiOf[k]] <= Day[k] THEN since[KpiOf[k]] ELSE NoRule]
  /\ owner = [k \in Keys |-> NoSource]
  /\ value = [k \in Keys |-> NoValue]
  /\ score = [k \in Keys |-> NoScore]
  /\ issues = [k \in Keys |-> {}]
  /\ orphans = [s \in Sources |-> 0]
  /\ started = 0
  /\ status = [r \in Runs |-> "none"]
  /\ pc = [r \in Runs |-> "idle"]
  /\ pos = [r \in Runs |-> 1]
  /\ batch = [r \in Runs |-> {}]
  /\ read = [r \in Runs |-> Nothing]
  /\ used = [r \in Runs |-> Unscored]
  /\ plan = [r \in Runs |-> Undecided]
  /\ success = [r \in Runs |-> 0] /\ errors = [r \in Runs |-> 0] /\ skipped = [r \in Runs |-> 0]
  /\ rpc = [x \in Rescorers |-> "idle"]
  /\ scan = [x \in Rescorers |-> NoScan]
  /\ due = [x \in Rescorers |-> NoRules]
  /\ gone = [x \in Rescorers |-> {}]
  /\ lookup = [p \in Procs |-> NoRules]
  /\ lapsed = [p \in Procs |-> {}]
  /\ expired = [p \in Procs |-> {}]
  /\ quiet = [p \in Procs |-> FALSE]
  /\ overtaken = {} /\ unruled = {}
  /\ reported = [s \in Sources |-> {content[s]}]

Active(r) == pc[r] # "idle"

-----------------------------------------------------------------------------
(* The surroundings: corrected source data, and new rules.                 *)

Disturbed == [p \in Procs |-> FALSE]

Correct(s) ==
  /\ edits < MaxEdits
  /\ edits' = edits + 1
  /\ \E c \in Contents \ {content[s]} :
       /\ content' = [content EXCEPT ![s] = c]
       /\ reported' = [reported EXCEPT ![s] = @ \union {c}]
  /\ quiet' = Disturbed
  /\ UNCHANGED <<setting, rule, since, rowVars, runVars, rescoreVars, ruleVars, overtaken, unruled>>

\* publish_rule: the rule open so far ends the day before the new one begins.
PublishRule(q) ==
  \E d \in Days :
    /\ since[q] < d
    /\ since' = [since EXCEPT ![q] = d]
    /\ rule' = [k \in Keys |-> IF KpiOf[k] = q /\ d <= Day[k] THEN d ELSE rule[k]]
    /\ quiet' = Disturbed
    /\ UNCHANGED <<setting, content, edits, rowVars, runVars, rescoreVars, ruleVars, overtaken, unruled, reported>>

-----------------------------------------------------------------------------
(* The rules a process has in memory.                                      *)

\* All rules there are.
LoadRules(p) ==
  /\ lookup' = [lookup EXCEPT ![p] = rule]
  /\ lapsed' = [lapsed EXCEPT ![p] = {}]
  /\ expired' = [expired EXCEPT ![p] = {}]

\* The keys without a rule once the rules of KPI q are loaded again, if they must be.
LapsedOf(p, q) ==
  lapsed[p] \union {k \in Keys : KpiOf[k] = q /\ q \in expired[p] /\ lookup[p][k] # rule[k]}

\* What resolve_rule finds; NoRule stands for its NoRuleFoundError.
resolve_rule(p, k) == IF k \in LapsedOf(p, KpiOf[k]) THEN NoRule ELSE lookup[p][k]

UseRules(p, q) ==
  /\ lapsed' = [lapsed EXCEPT ![p] = LapsedOf(p, q)]
  /\ expired' = [expired EXCEPT ![p] = @ \ {q}]
  /\ UNCHANGED lookup

\* A commit expires every object of the session.
ExpireRules(p) ==
  /\ expired' = [expired EXCEPT ![p] = Kpis]
  /\ UNCHANGED <<lookup, lapsed>>

DropRules(p) ==
  /\ lookup' = [lookup EXCEPT ![p] = NoRules]
  /\ lapsed' = [lapsed EXCEPT ![p] = {}]
  /\ expired' = [expired EXCEPT ![p] = {}]

-----------------------------------------------------------------------------
(* run_ingestion.                                                          *)

\* The RUNNING row, and the lookups.
StartRun(r) ==
  /\ pc[r] = "idle"
  /\ started < MaxRuns
  /\ started' = started + 1
  /\ status' = [status EXCEPT ![r] = "RUNNING"]
  /\ pc' = [pc EXCEPT ![r] = "fetch"]
  /\ LoadRules(r)
  /\ quiet' = [p \in Procs |-> p = r /\ \A q \in Runs : ~Active(q)]
  /\ UNCHANGED <<worldVars, rowVars, pos, batch, read, used, plan, success, errors, skipped, rescoreVars,
                 overtaken, unruled, reported>>

FlushDue(r) ==
  \/ Cardinality(batch[r]) >= setting.batch
  \/ pos[r] > NumSources /\ batch[r] # {}

\* A COMPLETE record is scored by the rule of its day, if there is one.  A
\* KpiCalculationError ends the run, as CrashRun.
ScoreRaw(r, s, c) ==
  IF c.value \in Good
  THEN /\ <<c.value, resolve_rule(r, c.key)>> \notin Fails
       /\ used' = [used EXCEPT ![r][s] = resolve_rule(r, c.key)]
       /\ UseRules(r, KpiOf[c.key])
  ELSE UNCHANGED <<used, ruleVars>>

\* One turn of the loop over provider.fetch.
Fetch(r) ==
  /\ pc[r] = "fetch"
  /\ ~FlushDue(r)
  /\ pos[r] <= NumSources
  /\ pos' = [pos EXCEPT ![r] = @ + 1]
  /\ \/ /\ content[pos[r]] = Unknown
        /\ errors' = [errors EXCEPT ![r] = @ + 1]
        /\ UNCHANGED <<batch, read, used, ruleVars>>
     \/ /\ content[pos[r]] # Unknown
        /\ batch' = [batch EXCEPT ![r] = @ \union {pos[r]}]
        /\ read' = [read EXCEPT ![r][pos[r]] = content[pos[r]]]
        /\ ScoreRaw(r, pos[r], content[pos[r]])
        /\ UNCHANGED errors
  /\ UNCHANGED <<worldVars, rowVars, started, status, pc, plan, success, skipped, rescoreVars,
                 quiet, overtaken, unruled, reported>>

\* Seeded fault: the row's identity is not compared.
DecideByValue(s, c) ==
  IF \A k \in Keys : owner[k] # s THEN "insert"
  ELSE IF value[c.key] # c.value THEN "update" ELSE "same"

\* Seeded fault: any known source record is taken for unchanged.
DecideKnown(s, c) ==
  IF \A k \in Keys : owner[k] # s THEN "insert"
  ELSE IF owner[c.key] # s THEN "conflict" ELSE "same"

\* What a raw record calls for, given the row its source record has.
Decide(s, c) ==
  IF \A k \in Keys : owner[k] # s THEN "insert"
  ELSE IF owner[c.key] # s THEN "conflict"
  ELSE IF value[c.key] # c.value THEN "update"
  ELSE "same"

FlushSelect(r) ==
  /\ pc[r] = "fetch"
  /\ FlushDue(r)
  /\ plan' = [plan EXCEPT ![r] =
       [s \in Sources |-> IF s \in batch[r] THEN Decide(s, read[r][s]) ELSE "none"]]
  /\ pc' = [pc EXCEPT ![r] = "write"]
  /\ UNCHANGED <<worldVars, rowVars, started, status, pos, batch, read, used, success, errors, skipped,
                 rescoreVars, ruleVars, quiet, overtaken, unruled, reported>>

KeyOf(r, s) == read[r][s].key

\* INSERT ... ON CONFLICT (natural key) DO NOTHING, RETURNING id: a key that
\* has a row by now, or had one earlier in the statement, gets no other.
Inserted(r) ==
  {s \in batch[r] :
     /\ plan[r][s] = "insert"
     /\ owner[KeyOf(r, s)] = NoSource
     /\ \A t \in batch[r] : t < s /\ plan[r][t] = "insert" => KeyOf(r, t) # KeyOf(r, s)}

Updated(r) == {s \in batch[r] : plan[r][s] = "update"}

Written(r) == Inserted(r) \union Updated(r)

\* Raw records that get no row: known keys and changed identities.
Rejected(r) == {s \in batch[r] : plan[r][s] \in {"insert", "conflict"}} \ Inserted(r)

\* Raw records that are in the table afterwards.
Kept(r) == Written(r) \union {s \in batch[r] : plan[r][s] = "same"}

\* The other unique constraint, on the source record, has no ON CONFLICT.
SourceTaken(r) == \E s \in Inserted(r), k \in Keys : owner[k] = s

\* The source records that write the row of k.
Writers(r, k) == {s \in Written(r) : KeyOf(r, s) = k}
Writer(r, k) == CHOOSE s \in Writers(r, k) : TRUE
Loaded(r) == {k \in Keys : Writers(r, k) # {}}
NewValue(r, k) == read[r][Writer(r, k)].value

\* Seeded fault: the old score of a row that gets none stays.
NewScoreKept(r, k) ==
  IF used[r][Writer(r, k)] = NoRule THEN score[k]
  ELSE [value |-> NewValue(r, k), rule |-> used[r][Writer(r, k)]]

\* Upserted for a row that was scored, deleted for one that was not: it is not COMPLETE,
\* or no rule was found for it.
NewScore(r, k) ==
  IF used[r][Writer(r, k)] = NoRule THEN NoScore
  ELSE [value |-> NewValue(r, k), rule |-> used[r][Writer(r, k)]]

\* There was no rule for k when run r began, or one has been published since.
Unruled(r, k) == lookup[r][k] = NoRule \/ lookup[r][k] # rule[k]

NewIssues(r, k) ==
  IF NewValue(r, k) \in Bad THEN {NewValue(r, k)}
  ELSE IF Writer(r, k) \in Updated(r) THEN {"REPROCESSED"}
  ELSE {}

EndFlush(r) ==
  /\ batch' = [batch EXCEPT ![r] = {}]
  /\ read' = [read EXCEPT ![r] = Nothing]
  /\ used' = [used EXCEPT ![r] = Unscored]
  /\ plan' = [plan EXCEPT ![r] = Undecided]

\* The INSERT, the UPDATEs, the scores and the issues, and their commit.  A
\* score that was deleted is out of reach of a rescorer that has read its id.
FlushWrite(r) ==
  /\ pc[r] = "write"
  /\ ~SourceTaken(r)
  /\ owner' = [k \in Keys |-> IF k \in Loaded(r) THEN Writer(r, k) ELSE owner[k]]
  /\ value' = [k \in Keys |-> IF k \in Loaded(r) THEN NewValue(r, k) ELSE value[k]]
  /\ score' = [k \in Keys |-> IF k \in Loaded(r) THEN NewScore(r, k) ELSE score[k]]
  /\ issues' = [k \in Keys |->
       IF k \in Loaded(r) THEN issues[k] \union NewIssues(r, k) ELSE issues[k]]
  /\ orphans' = [s \in Sources |-> IF s \in Rejected(r) THEN orphans[s] + 1 ELSE orphans[s]]
  /\ gone' = [x \in Rescorers |->
       gone[x] \union {k \in Loaded(r) : scan[x][k] # NoValue /\ NewScore(r, k) = NoScore}]
  /\ success' = [success EXCEPT ![r] = @ + Cardinality(Kept(r))]
  /\ skipped' = [skipped EXCEPT ![r] = @ + Cardinality(Rejected(r))]
  /\ overtaken' = overtaken \ Loaded(r)
  /\ unruled' = (unruled \ Loaded(r)) \union {k \in Loaded(r) : Unruled(r, k)}
  /\ pc' = [pc EXCEPT ![r] = "fetch"]
  /\ EndFlush(r)
  /\ ExpireRules(r)
  /\ quiet' = [p \in Procs |-> quiet[p] /\ p \notin Rescorers]
  /\ UNCHANGED <<worldVars, started, status, pos, errors, rpc, scan, due, reported>>

\* The process is gone; what it kept in memory goes with it.
EndRun(r) ==
  /\ pc' = [pc EXCEPT ![r] = "idle"]
  /\ pos' = [pos EXCEPT ![r] = 1]
  /\ success' = [success EXCEPT ![r] = 0]
  /\ errors' = [errors EXCEPT ![r] = 0]
  /\ skipped' = [skipped EXCEPT ![r] = 0]
  /\ quiet' = [quiet EXCEPT ![r] = FALSE]
  /\ EndFlush(r)
  /\ DropRules(r)
  /\ UNCHANGED <<worldVars, rowVars, started, rescoreVars, overtaken, unruled, reported>>

\* The IntegrityError nobody catches: the flush is rolled back, and the row of
\* the run says RUNNING for ever.
FlushRejected(r) ==
  /\ pc[r] = "write"
  /\ SourceTaken(r)
  /\ EndRun(r)
  /\ UNCHANGED status

FeedDone(r) == pc[r] = "fetch" /\ pos[r] > NumSources /\ batch[r] = {}

\* The final status goes into the row of the run, with the counters.
FinishRun(r) ==
  /\ FeedDone(r)
  /\ status' = [status EXCEPT ![r] = IF errors[r] = 0 THEN "SUCCESS" ELSE "PARTIAL_SUCCESS"]
  /\ EndRun(r)

\* The process dies, or an error nobody catches ends it.
CrashRun(r) ==
  /\ Active(r)
  /\ EndRun(r)
  /\ UNCHANGED status

-----------------------------------------------------------------------------
(* rescore_all.                                                            *)

\* The rules are loaded first.
StartRescore(x) ==
  /\ rpc[x] = "idle"
  /\ rpc' = [rpc EXCEPT ![x] = "scan"]
  /\ LoadRules(x)
  /\ quiet' = [quiet EXCEPT ![x] = TRUE]
  /\ UNCHANGED <<worldVars, rowVars, runVars, scan, due, gone, overtaken, unruled, reported>>

\* The rows to score again: the COMPLETE ones that have a score.
Scannable(k) == score[k] # NoScore /\ value[k] \in Good

ScanScores(x) ==
  /\ rpc[x] = "scan"
  /\ rpc' = [rpc EXCEPT ![x] = "score"]
  /\ scan' = [scan EXCEPT ![x] =
       [k \in Keys |-> IF Scannable(k) THEN value[k] ELSE NoValue]]
  /\ UNCHANGED <<worldVars, rowVars, runVars, due, gone, ruleVars, quiet, overtaken, unruled, reported>>

Pending(x) == {k \in Keys : scan[x][k] # NoValue}

\* The rows computed and not yet written.
Batch(x) == {k \in Keys : due[x][k] # NoRule}

\* Why a row is left with the score it has.
Skips(k, v, d) == KpiOf[k] \notin setting.active \/ d = NoRule \/ <<v, d>> \in Fails

\* One turn of the loop over the rows: skipped, or computed for the next UPDATE.
RescoreRow(x, k) ==
  /\ rpc[x] = "score" /\ k \in Pending(x) \ Batch(x)
  /\ IF Skips(k, scan[x][k], resolve_rule(x, k))
     THEN /\ scan' = [scan EXCEPT ![x][k] = NoValue]
          /\ gone' = [gone EXCEPT ![x] = @ \ {k}]
          /\ UNCHANGED due
     ELSE /\ due' = [due EXCEPT ![x][k] = resolve_rule(x, k)]
          /\ UNCHANGED <<scan, gone>>
  /\ IF KpiOf[k] \in setting.active THEN UseRules(x, KpiOf[k]) ELSE UNCHANGED ruleVars
  /\ UNCHANGED <<worldVars, rowVars, runVars, rpc, quiet, overtaken, unruled, reported>>

\* Seeded fault: the score keeps the rule it was computed by.
RescoredOldRule(x, k) == [value |-> scan[x][k], rule |-> score[k].rule]

Rescored(x, k) == [value |-> scan[x][k], rule |-> due[x][k]]

\* One UPDATE of a batch of scores by id, and its commit.
RescoreFlush(x) ==
  /\ rpc[x] = "score" /\ Batch(x) # {}
  /\ LET K == Batch(x) \ gone[x]
     IN  /\ score' = [k \in Keys |-> IF k \in K THEN Rescored(x, k) ELSE score[k]]
         /\ overtaken' = (overtaken \ K) \union {k \in K : scan[x][k] # value[k]}
  /\ scan' = [scan EXCEPT ![x] = [k \in Keys |-> IF k \in Batch(x) THEN NoValue ELSE scan[x][k]]]
  /\ due' = [due EXCEPT ![x] = NoRules]
  /\ gone' = [gone EXCEPT ![x] = @ \ Batch(x)]
  /\ ExpireRules(x)
  /\ quiet' = [p \in Procs |-> quiet[p] /\ p \in Runs \union {x}]
  /\ UNCHANGED <<worldVars, owner, value, issues, orphans, runVars, rpc, unruled, reported>>

RescoreDone(x) == rpc[x] = "score" /\ Pending(x) = {}

\* It has scored everything it has read, or dies before.
EndRescore(x) ==
  /\ rpc[x] # "idle"
  /\ rpc' = [rpc EXCEPT ![x] = "idle"]
  /\ scan' = [scan EXCEPT ![x] = NoScan]
  /\ due' = [due EXCEPT ![x] = NoRules]
  /\ gone' = [gone EXCEPT ![x] = {}]
  /\ DropRules(x)
  /\ quiet' = [quiet EXCEPT ![x] = FALSE]
  /\ UNCHANGED <<worldVars, rowVars, runVars, overtaken, unruled, reported>>

-----------------------------------------------------------------------------
Next ==
  \/ \E s \in Sources : Correct(s)
  \/ \E q \in Kpis : PublishRule(q)
  \/ \E r \in Runs :
       \/ StartRun(r) \/ Fetch(r) \/ FlushSelect(r) \/ FlushWrite(r) \/ FlushRejected(r)
       \/ FinishRun(r) \/ CrashRun(r)
  \/ \E x \in Rescorers :
       \/ StartRescore(x) \/ ScanScores(x) \/ RescoreFlush(x) \/ EndRescore(x)
       \/ \E k \in Keys : RescoreRow(x, k)

Spec == Init /\ [][Next]_vars

-----------------------------------------------------------------------------
(* Properties.                                                             *)

\* A row whose status is not COMPLETE always has an issue of that status, also
\* after corrections in both directions by runs that overlap.
ProblemsReported == \A k \in Keys : value[k] \in Bad => value[k] \in issues[k]

\* Only COMPLETE rows have a score, and it is that of the value the row shows, unless a
\* rescoring had read the row before it was corrected.  A COMPLETE row is without one
\* only where the run that wrote it began before there was a rule for its day, or
\* before the one in force was published: a run does not find a rule that was published
\* after its start, and may lose the one this closed.
ScoresMatchRows ==
  \A k \in Keys :
    /\ score[k] # NoScore => value[k] \in Good
    /\ value[k] \in Good /\ k \notin unruled => score[k] # NoScore
    /\ score[k] # NoScore /\ k \notin overtaken => score[k].value = value[k]

\* The raw record of s is in the row of its key, or was turned away.
Accounted(s) ==
  IF owner[content[s].key] = s THEN value[content[s].key] = content[s].value ELSE orphans[s] > 0

\* A run that nothing else touches loads all of the feed: every raw record is
\* in the row of its key, or was turned away with an issue.
RunCatchesUp ==
  \A r \in Runs :
    FeedDone(r) /\ quiet[r] => \A s \in Sources : content[s] # Unknown => Accounted(s)

\* A rescoring that nothing else touches leaves every score as the rules in force say,
\* but for those it cannot compute: of a KPI that is not active, without a rule, or
\* with an error.
RescoreCatchesUp ==
  \A x \in Rescorers :
    RescoreDone(x) /\ quiet[x] =>
      \A k \in Keys : score[k] # NoScore /\ ~Skips(k, value[k], rule[k])
        => score[k] = [value |-> value[k], rule |-> rule[k]]

\* The counters of a run account for every raw record it has fetched.
CountsAddUp ==
  \A r \in Runs :
    success[r] + errors[r] + skipped[r] + Cardinality(batch[r]) = pos[r] - 1

\* The rows implement PerformanceLedger.
Ledger == INSTANCE PerformanceLedger WITH
  NoEntry <- NoSource,
  entry <- [k \in Keys |->
              IF owner[k] = NoSource THEN NoSource ELSE [src |-> owner[k], value |-> value[k]]]

\* However runs, rescorings and corrections interleave, a row never changes
\* hands, and it only shows what its source record has once reported.
KeepsLedger == Ledger!Spec

\* Whatever runs, rescorings, corrections and crashes leave behind, the tables
\* agree: problems with their rows, scores with the values they were computed
\* from, and the counters of a run with what it has fetched.
TablesAgree == TypeOK /\ ProblemsReported /\ ScoresMatchRows /\ CountsAddUp

-----------------------------------------------------------------------------
(* What makes them inductive.                                              *)

OneRowPerSource == \A j, k \in Keys : owner[j] = owner[k] /\ owner[j] # NoSource => j = k

\* What a run has read its source records have reported, and a row it is going
\* to update, or to leave as it is, is that of its source record.  A run starts
\* with the first source record.
BatchShape ==
  /\ \A s \in Sources : content[s] \in reported[s]
  /\ \A r \in Runs : pc[r] = "idle" => pos[r] = 1
  /\ \A r \in Runs : \A s \in batch[r] :
       /\ s < pos[r]
       /\ read[r][s] \in reported[s] \ {Unknown}
       /\ pc[r] = "write" =>
            /\ plan[r][s] # "none"
            /\ plan[r][s] \in {"update", "same"} => owner[KeyOf(r, s)] = s

\* Rules only get newer, so a process that has not found its rule, or has lost it, is
\* behind: what it scores without a rule is of an unruled row.
RuleShape ==
  /\ \A k \in Keys : rule[k] <= since[KpiOf[k]]
  /\ \A p \in Procs, k \in Keys : /\ lookup[p][k] <= rule[k]
                                  /\ k \in lapsed[p] => lookup[p][k] # rule[k]
  /\ \A r \in Runs, s \in Sources :
       /\ used[r][s] # NoRule => s \in batch[r] /\ read[r][s].value \in Good
       /\ s \in batch[r] /\ read[r][s].value \in Good /\ used[r][s] = NoRule => Unruled(r, KeyOf(r, s))

\* The score a rescorer has read and not yet written is there unless it was deleted.
ScanShape ==
  \A x \in Rescorers, k \in Keys :
    /\ scan[x][k] # NoValue => rpc[x] = "score"
    /\ k \in gone[x] \/ due[x][k] # NoRule => scan[x][k] # NoValue
    /\ scan[x][k] # NoValue /\ k \notin gone[x] => score[k] # NoScore

\* While nothing else touches the data, a run decides by what is still so, and
\* what it has fetched is in its batch or accounted for.
QuietRuns ==
  \A r \in Runs : quiet[r] =>
    /\ Active(r) /\ \A q \in Runs \ {r} : ~Active(q)
    /\ \A s \in batch[r] :
         /\ read[r][s] = content[s]
         /\ pc[r] = "write" => plan[r][s] = Decide(s, content[s])
    /\ \A s \in Sources \ batch[r] : s < pos[r] /\ content[s] # Unknown => Accounted(s)

\* So does a rescorer: a score it has still to write is that of a row it has read as it
\* is, and one that it has written or left alone is as it should be.
QuietRescorers ==
  \A x \in Rescorers : quiet[x] =>
    /\ rpc[x] # "idle" /\ lookup[x] = rule /\ gone[x] = {}
    /\ rpc[x] = "score" => \A k \in Keys :
         IF scan[x][k] = NoValue
         THEN score[k] # NoScore /\ ~Skips(k, value[k], rule[k])
                => score[k] = [value |-> value[k], rule |-> rule[k]]
         ELSE scan[x][k] = value[k] /\ due[x][k] \in {NoRule, rule[k]}

IInv ==
  /\ TablesAgree
  /\ OneRowPerSource
  /\ BatchShape
  /\ RuleShape
  /\ ScanShape
  /\ QuietRuns
  /\ QuietRescorers
=============================================================================

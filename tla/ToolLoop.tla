------------------------------ MODULE ToolLoop ------------------------------
(***************************************************************************)
(* One analysis attempt of an anomaly, from the claim to the row it        *)
(* settles: the tool-calling loop of the language model with its three     *)
(* limits, the plan, the final structured answer, the fall back to a       *)
(* single request with the whole context, and the demo that runs a fixed   *)
(* sequence of tools without a model.                                      *)
(*                                                                         *)
(* The language model, the tools' data and the clock are the environment:  *)
(* an answer is any sequence of tool calls, an error or a final text, a    *)
(* tool answers, fails or is slow, and the deadline may pass at any        *)
(* moment.  Claims, crashes and the watchdog are those of AnomalyClaim;    *)
(* here nobody else touches the attempt.                                   *)
(***************************************************************************)
EXTENDS Naturals, Sequences, FiniteSets

CONSTANTS
    Requests,         \* the tool calls the model may make, see RequestType
    CallsPerTurn,     \* the most tool calls in one message of the model
    MaxToolCalls,     \* settings.llm_max_tool_calls
    MaxAnalysisSteps, \* settings.llm_max_analysis_steps
    MaxRangeDays,     \* settings.llm_max_date_range_days
    PeriodDays        \* the lengths an anomaly's own period may have

ASSUME LimitsArePositive ==
    /\ MaxToolCalls \in Nat \ {0} /\ MaxAnalysisSteps \in Nat \ {0}
    /\ CallsPerTurn \in Nat \ {0} /\ MaxRangeDays \in Nat \ {0}
    /\ PeriodDays \subseteq Nat \ {0}

(* The registry: for each tool the names its handler looks up. *)
Registry ==
    [get_anomaly_details     |-> {"anomaly"},
     get_kpi_history         |-> {"plant", "shift", "kpi"},
     compare_shifts          |-> {"plant", "kpi"},
     compare_plants          |-> {"factory", "plant", "kpi"},
     get_related_kpis        |-> {"plant", "shift", "kpi"},
     get_downtime_breakdown  |-> {"plant", "shift"},
     get_maintenance_signals |-> {"plant"},
     get_product_mix         |-> {"plant", "shift"},
     get_changeover_records  |-> {"plant", "shift"},
     get_shift_notes         |-> {"plant", "shift"},
     find_similar_anomalies  |-> {"anomaly", "kpi", "factory", "plant"}]

Tools == DOMAIN Registry
Ranged == Tools \ {"get_anomaly_details", "find_similar_anomalies"}

(* A tool call as far as the code tells calls apart: whether its arguments *)
(* are JSON, its dates, and the names in it that nothing answers to.       *)
RequestType ==
    [tool : Tools \cup {"unlisted"}, json : BOOLEAN, ordered : BOOLEAN,
     days : Nat, unknown : SUBSET {"anomaly", "plant", "shift", "kpi", "factory"}]

ASSUME RequestsAreCalls == Requests \subseteq RequestType

(* Arguments a tool refuses: dates the wrong way round, a range that is    *)
(* too long, a name that does not resolve.                                 *)
WrongDates(r) == r.tool \in Ranged /\ ~r.ordered
TooLong(r) == r.tool \in Ranged /\ r.days > MaxRangeDays
Unresolved(r) == r.unknown \cap Registry[r.tool] # {}
Refused(r) == WrongDates(r) \/ TooLong(r) \/ Unresolved(r)

DemoSequence ==
    <<"compare_shifts", "get_kpi_history", "get_downtime_breakdown",
      "get_maintenance_signals", "get_product_mix", "find_similar_anomalies">>

DemoRequest(i, days) ==
    [tool |-> DemoSequence[i], json |-> TRUE, ordered |-> TRUE,
     days |-> days, unknown |-> {}]

VARIABLES
    llm,       \* llm_service.is_configured()
    days,      \* the length of the anomaly's own period, read by the demo
    position,  \* where the attempt is
    status,    \* AnomalyAnalysis.status as committed
    mode,      \* the mode the attempt is in, AnomalyAnalysis.mode in the end
    late,      \* time.monotonic() > deadline
    turn,      \* llm_turn
    count,     \* _tool_call_count
    rows,      \* anomaly_tool_calls of the attempt; a row's place is its code
    cache,     \* _cache: the row that answers a request
    messages,  \* the conversation after its opening
    todo,      \* calls of the model's last message still to be answered
    limit,     \* limit_reached
    tries,     \* failed requests for the final answer
    result,    \* result_payload, as far as what it cites
    warned,    \* warnings # []
    fault      \* what made run_analysis raise

loop == <<turn, count, rows, cache, messages, todo>>
answer == <<limit, tries, result, warned, fault>>
loopVars == <<llm, days, position, status, mode, late, loop, answer>>

(* A message is a turn of the model with the calls in it, or the answer to  *)
(* one call.                                                                *)
CallIds == Nat \X Nat
MessageType == [role : {"assistant", "tool"}, calls : Seq(CallIds),
                said : {"calls", "result", "error", "limit"}]

Row(step, r, st) == [step |-> step, request |-> r, status |-> st]
RowType == [step : Nat, request : RequestType, status : {"success", "error", "timeout"}]

(* _tool_call_codes *)
Codes == {c \in DOMAIN rows : rows[c].status = "success"}

NoResult == [given |-> FALSE, refs |-> {}]
Result(refs) == [given |-> TRUE, refs |-> refs]

Ended == {"completed", "completed_with_warnings", "failed"}

LoopInit ==
    /\ llm \in BOOLEAN /\ days = 0
    /\ position = "idle" /\ status = "not_analyzed" /\ mode = "single_context"
    /\ late = FALSE /\ turn = 0 /\ count = 0
    /\ rows = <<>> /\ cache = <<>> /\ messages = <<>> /\ todo = <<>>
    /\ limit = FALSE /\ tries = 0
    /\ result = NoResult /\ warned = FALSE /\ fault = "none"
-----------------------------------------------------------------------------
StartWith(m, place, st) ==
    /\ position = "idle"
    /\ mode' = m /\ position' = place /\ status' = st
    /\ UNCHANGED <<llm, late, loop, answer>>

(* run_analysis: asked for a single request, or for tools while             *)
(* llm_tool_calling_enabled is off.                                         *)
StartContext == StartWith("single_context", "context", "analyzing") /\ UNCHANGED days

(* _run_tool_calling with a model; without one the demo, if it is enabled,  *)
(* or a failure at once.                                                    *)
StartTools == llm /\ StartWith("tool_calling", "plan", "queued") /\ UNCHANGED days
StartDemo == ~llm /\ StartWith("tool_calling", "demo", "queued") /\ days' \in PeriodDays
StartNothing == ~llm /\ StartWith("tool_calling", "done", "queued") /\ UNCHANGED days

(* The deadline of the attempt passes. *)
DeadlinePasses ==
    /\ position \in {"plan", "planning", "ask", "calls"} /\ ~late
    /\ late' = TRUE
    /\ UNCHANGED <<llm, days, position, status, mode, loop, answer>>

BeginPlan ==
    /\ position = "plan"
    /\ position' = "planning" /\ status' = "planning"
    /\ UNCHANGED <<llm, days, mode, late, loop, answer>>

(* _make_plan: whatever the model answers, the loop goes on, with or        *)
(* without a plan.                                                          *)
EndPlan ==
    /\ position = "planning"
    /\ position' = "ask" /\ status' = "collecting_data"
    /\ UNCHANGED <<llm, days, mode, late, loop, answer>>

OutOfTurns == turn >= MaxAnalysisSteps

(* Seeded fault: calls are not counted.                                    *)
OutOfCallsNever == FALSE
OutOfCalls == count >= MaxToolCalls

(* The head of the loop: one of the three limits ends it. *)
StopAtLimit ==
    /\ position = "ask"
    /\ late \/ OutOfCalls \/ OutOfTurns
    /\ limit' = TRUE
    /\ position' = "final" /\ status' = "generating_analysis"
    /\ UNCHANGED <<llm, days, mode, late, loop, tries, result, warned, fault>>

MayAsk == position = "ask" /\ ~late /\ ~OutOfCalls /\ ~OutOfTurns

(* LLMTimeoutError, LLMRequestError, LLMResponseInvalidError *)
Failures == {"no answer in time", "refused or unreachable", "unreadable"}

Replies == UNION {[1 .. n -> Requests] : n \in 0 .. CallsPerTurn}

(* The model answers: its message joins the conversation; without tool      *)
(* calls the loop ends.                                                     *)
Ask ==
    /\ MayAsk
    /\ turn' = turn + 1
    /\ \E reply \in Replies :
         LET ids == [k \in DOMAIN reply |-> <<turn', k>>]
         IN  /\ messages' = Append(messages, [role |-> "assistant", calls |-> ids,
                                              said |-> "calls"])
             /\ todo' = [k \in DOMAIN reply |-> [id |-> ids[k], request |-> reply[k]]]
             /\ IF reply = <<>> THEN position' = "final" /\ status' = "generating_analysis"
                                ELSE position' = "calls" /\ UNCHANGED status
    /\ UNCHANGED <<llm, days, mode, late, count, rows, cache, answer>>

(* A time-out, a failed request, an unreadable answer: the loop ends as if  *)
(* a limit had been reached.                                                *)
AskFails ==
    /\ MayAsk
    /\ turn' = turn + 1
    /\ limit' = TRUE
    /\ position' = "final" /\ status' = "generating_analysis"
    /\ UNCHANGED <<llm, days, mode, late, count, rows, cache, messages, todo, tries,
                   result, warned, fault>>

(* The answer holds no message: _strip_message raises through run_analysis. *)
AskRaises ==
    /\ MayAsk
    /\ turn' = turn + 1
    /\ position' = "raised" /\ fault' = "answer"
    /\ UNCHANGED <<llm, days, status, mode, late, count, rows, cache, messages, todo,
                   limit, tries, result, warned>>

(* LLMToolCallingUnsupportedError, in the loop or for the final answer: the *)
(* attempt goes on as a single request with the whole context.              *)
Unsupported ==
    /\ \/ MayAsk /\ turn' = turn + 1
       \/ position = "final" /\ turn' = turn
    /\ mode' = "single_context" /\ warned' = TRUE /\ tries' = 0
    /\ position' = "context" /\ status' = "analyzing"
    /\ UNCHANGED <<llm, days, late, count, rows, cache, messages, todo, limit, result, fault>>
-----------------------------------------------------------------------------
(* _save_tool_call: committed with the next step number, whatever came of   *)
(* the call.                                                                *)
Save(r, st) == rows' = Append(rows, Row(Len(rows) + 1, r, st))

(* _tool_result_message, then the next call of the message; after the last  *)
(* one the loop is left if a limit was met among them.                      *)
Respond(said, cut) ==
    /\ messages' = Append(messages, [role |-> "tool", calls |-> <<Head(todo).id>>,
                                     said |-> said])
    /\ todo' = Tail(todo)
    /\ limit' = (limit \/ cut)
    /\ IF Len(todo) > 1 THEN UNCHANGED <<position, status>>
       ELSE IF limit' THEN position' = "final" /\ status' = "generating_analysis"
       ELSE position' = "ask" /\ UNCHANGED status
    /\ UNCHANGED <<llm, days, mode, late, turn, tries, result, warned, fault>>

(* Seeded fault: a limit met between two calls of one message leaves the    *)
(* rest of them unanswered.                                                 *)
RefuseCallSilently ==
    /\ position = "calls" /\ (late \/ OutOfCalls)
    /\ limit' = TRUE /\ todo' = <<>>
    /\ position' = "final" /\ status' = "generating_analysis"
    /\ UNCHANGED <<llm, days, mode, late, turn, count, rows, cache, messages, tries,
                   result, warned, fault>>

(* Past the deadline or the number of calls, a call is answered without     *)
(* being made.                                                              *)
RefuseCall ==
    /\ position = "calls" /\ (late \/ OutOfCalls)
    /\ Respond("limit", TRUE)
    /\ UNCHANGED <<count, rows, cache>>

Execute(r) == position = "calls" /\ ~late /\ ~OutOfCalls /\ r = Head(todo).request

(* Neither unreadable arguments nor an unlisted tool reach a handler. *)
Unreadable(r) == ~r.json \/ r.tool \notin Tools

UnreadableCall ==
    \E r \in Requests :
      /\ Execute(r) /\ Unreadable(r)
      /\ Save(r, "error") /\ Respond("error", FALSE)
      /\ UNCHANGED <<count, cache>>

Cached(r) == ~Unreadable(r) /\ r \in DOMAIN cache

(* The same call again: the first answer, no row, no count. *)
CachedCall ==
    \E r \in Requests :
      /\ Execute(r) /\ Cached(r)
      /\ Respond("result", FALSE)
      /\ UNCHANGED <<count, rows, cache>>

Handled(r) == Execute(r) /\ ~Unreadable(r) /\ ~Cached(r)

(* The arguments are refused, or the handler raises. *)
FailedCall ==
    \E r \in Requests :
      /\ Handled(r)
      /\ Save(r, "error") /\ Respond("error", FALSE)
      /\ UNCHANGED <<count, cache>>

(* The handler answered too late: its answer is kept in the row only. *)
SlowCall ==
    \E r \in Requests :
      /\ Handled(r) /\ ~Refused(r)
      /\ Save(r, "timeout") /\ Respond("error", FALSE)
      /\ UNCHANGED <<count, cache>>

SuccessfulCall ==
    \E r \in Requests :
      /\ Handled(r) /\ ~Refused(r)
      /\ count' = count + 1
      /\ Save(r, "success")
      /\ cache' = [q \in DOMAIN cache \cup {r} |->
                      IF q = r THEN Len(rows) + 1 ELSE cache[q]]
      /\ Respond("result", FALSE)

(* A statement of the handler fails in the database: the transaction is     *)
(* aborted and saving the row raises through run_analysis.                  *)
AbortedCall ==
    \E r \in Requests :
      /\ Handled(r) /\ ~WrongDates(r) /\ ~TooLong(r)
      /\ position' = "raised" /\ fault' = "database"
      /\ UNCHANGED <<llm, days, status, mode, late, loop, limit, tries, result, warned>>
-----------------------------------------------------------------------------
(* What the model may say when it is asked for the structured analysis: as  *)
(* the schema has it, under one to three keys, under more, with a field     *)
(* missing, no JSON, or no content at all.                                  *)
Answers == {"bare", "wrapped", "buried", "partial", "text", "empty"}

(* The codes an answer may cite: any row of the attempt, or an invented     *)
(* one.                                                                     *)
Citable == {[code |-> c, tool |-> IF c \in DOMAIN rows THEN rows[c].request.tool
                                                       ELSE "unlisted"] :
              c \in 1 .. Len(rows) + 1}

(* Seeded fault: the row is looked for, not its success.                   *)
SanitizedByRow(refs) == {ref \in refs : ref.code \in DOMAIN rows}

(* _sanitize_source_refs *)
Sanitized(refs) == {ref \in refs : ref.code \in Codes}

FinalAnswer ==
    /\ position = "final"
    /\ \E refs \in SUBSET Citable :
         /\ Cardinality(refs) <= 2
         /\ result' = Result(Sanitized(refs))
    /\ warned' = limit
    /\ position' = "done"
    /\ UNCHANGED <<llm, days, status, mode, late, loop, limit, tries, fault>>

(* Seeded fault: the tries are never used up.                              *)
FinalRetryForever ==
    /\ position = "final"
    /\ \E a \in Answers \cup Failures : a \notin {"bare", "empty"}
    /\ tries' = (tries + 1) % 2
    /\ UNCHANGED <<llm, days, position, status, mode, late, loop, limit, result, warned, fault>>

(* A request that fails and an answer that is not the schema are tried once *)
(* more, with the same conversation.                                        *)
FinalRetry ==
    /\ position = "final"
    /\ \E a \in Answers \cup Failures : a \notin {"bare", "empty"}
    /\ tries' = tries + 1
    /\ position' = IF tries' = 2 THEN "done" ELSE "final"
    /\ UNCHANGED <<llm, days, status, mode, late, loop, limit, result, warned, fault>>

(* json.loads(None) is a TypeError, which is not among the errors caught. *)
FinalRaises ==
    /\ position = "final"
    /\ \E a \in Answers : a = "empty"
    /\ position' = "raised" /\ fault' = "answer"
    /\ UNCHANGED <<llm, days, status, mode, late, loop, limit, tries, result, warned>>

(* _unwrap_llm_payload opens three keys; what a single-context answer cites *)
(* is stored as it came.                                                    *)
Unwrapped == {"bare", "wrapped"}

ContextAnswer ==
    /\ position = "context" /\ llm
    /\ \E a \in Answers : a \in Unwrapped
    /\ \E refs \in {{}, {[code |-> Len(rows) + 1, tool |-> "unlisted"]}} :
         result' = Result(refs)
    /\ position' = "done"
    /\ UNCHANGED <<llm, days, status, mode, late, loop, limit, tries, warned, fault>>

ContextRetry ==
    /\ position = "context" /\ llm
    /\ \E a \in Answers \cup Failures : a \notin Unwrapped
    /\ tries' = tries + 1
    /\ position' = IF tries' = 2 THEN "done" ELSE "context"
    /\ UNCHANGED <<llm, days, status, mode, late, loop, limit, result, warned, fault>>

(* Without a model the context is answered by the demo's text. *)
ContextDemo ==
    /\ position = "context" /\ ~llm
    /\ result' = Result({})
    /\ position' = "done"
    /\ UNCHANGED <<llm, days, status, mode, late, loop, limit, tries, warned, fault>>
-----------------------------------------------------------------------------
DemoStep == Len(rows) + 1

(* One tool of the demo's sequence, asked about the anomaly's own period. *)
DemoCall ==
    /\ position = "demo" /\ DemoStep <= Len(DemoSequence)
    /\ LET r == DemoRequest(DemoStep, days)
       IN  Save(r, IF Refused(r) THEN "error" ELSE "success")
    /\ UNCHANGED <<llm, days, position, status, mode, late, turn, count, cache, messages, todo, answer>>

(* Only a ToolError is caught. *)
DemoRaises ==
    /\ position = "demo" /\ DemoStep <= Len(DemoSequence)
    /\ ~Refused(DemoRequest(DemoStep, days))
    /\ position' = "raised" /\ fault' = "database"
    /\ UNCHANGED <<llm, days, status, mode, late, loop, limit, tries, result, warned>>

(* The codes of the calls that succeeded, in order, are put beside the      *)
(* first names of the sequence.                                             *)
DemoCitation(i) ==
    LET c == CHOOSE c \in Codes : Cardinality({d \in Codes : d <= c}) = i
    IN  [code |-> c, tool |-> DemoSequence[i]]

DemoAnswer ==
    /\ position = "demo" /\ DemoStep > Len(DemoSequence)
    /\ result' = Result({DemoCitation(i) : i \in 1 .. Cardinality(Codes)})
    /\ position' = "done"
    /\ UNCHANGED <<llm, days, status, mode, late, loop, limit, tries, warned, fault>>

(* The attempt's row takes its result and its final status. *)
Settle ==
    /\ position = "done"
    /\ status' = IF ~result.given THEN "failed"
                 ELSE IF warned THEN "completed_with_warnings" ELSE "completed"
    /\ position' = "settled"
    /\ UNCHANGED <<llm, days, mode, late, loop, answer>>

(* The request is over, with an answer or with an error 500. *)
Over ==
    /\ position \in {"settled", "raised"}
    /\ UNCHANGED loopVars

Attempt ==
    \/ StartContext \/ StartTools \/ StartDemo \/ StartNothing
    \/ BeginPlan \/ EndPlan
    \/ StopAtLimit \/ Ask \/ AskFails \/ AskRaises \/ Unsupported
    \/ RefuseCall \/ UnreadableCall \/ CachedCall
    \/ FailedCall \/ SlowCall \/ SuccessfulCall \/ AbortedCall
    \/ FinalAnswer \/ FinalRetry \/ FinalRaises
    \/ ContextAnswer \/ ContextRetry \/ ContextDemo
    \/ DemoCall \/ DemoRaises \/ DemoAnswer
    \/ Settle

LoopNext == Attempt \/ DeadlinePasses \/ Over

LoopSpec == LoopInit /\ [][LoopNext]_loopVars

(* The thread that runs the attempt keeps running: every request to the     *)
(* model and to the database has a time-out of its own.  The deadline need  *)
(* not pass.                                                                *)
FairLoopSpec == LoopSpec /\ WF_loopVars(Attempt)
-----------------------------------------------------------------------------
LoopTypeOK ==
    /\ llm \in BOOLEAN /\ days \in PeriodDays \cup {0}
    /\ position \in {"idle", "plan", "planning", "ask", "calls", "final", "context",
               "demo", "done", "settled", "raised"}
    /\ status \in Ended \cup {"not_analyzed", "queued", "planning", "collecting_data",
                               "generating_analysis", "analyzing"}
    /\ mode \in {"single_context", "tool_calling"}
    /\ late \in BOOLEAN /\ limit \in BOOLEAN /\ warned \in BOOLEAN
    /\ turn \in 0 .. MaxAnalysisSteps /\ count \in 0 .. MaxToolCalls
    /\ tries \in 0 .. 2
    /\ rows \in Seq(RowType) /\ messages \in Seq(MessageType)
    /\ todo \in Seq([id : CallIds, request : Requests])
    /\ DOMAIN cache \subseteq Requests /\ \A r \in DOMAIN cache : cache[r] \in Nat
    /\ result \in [given : BOOLEAN,
                   refs : SUBSET [code : Nat, tool : Tools \cup {"unlisted"}]]
    /\ fault \in {"none", "answer", "database"}

Turns == {m \in DOMAIN messages : messages[m].role = "assistant"}

(* The calls of turn m are answered, in their order and before anything     *)
(* else.                                                                    *)
Answered(m) ==
    /\ m + Len(messages[m].calls) <= Len(messages)
    /\ \A k \in DOMAIN messages[m].calls :
         /\ messages[m + k].role = "tool"
         /\ messages[m + k].calls = <<messages[m].calls[k]>>
    /\ LET next == m + Len(messages[m].calls) + 1
       IN  next <= Len(messages) => messages[next].role = "assistant"

(* Whenever the model is asked again, every call it made is followed by one *)
(* answer, in its order and before anything else: a provider refuses a      *)
(* conversation in which a call stands unanswered, so a limit met in the    *)
(* middle of a message still has to answer the rest of it.                  *)
EveryCallAnswered == position \in {"ask", "final"} => \A m \in Turns : Answered(m)

(* The limits hold whatever the model asks for: failed, slow and repeated   *)
(* calls do not count, so it is the turns that bound them.                  *)
LimitsHold ==
    /\ Cardinality(Turns) <= MaxAnalysisSteps
    /\ Cardinality(Codes) <= MaxToolCalls \/ position = "demo" \/ turn = 0
    /\ Len(messages) <= MaxAnalysisSteps * (CallsPerTurn + 1)

(* The trace of an attempt can be read: its steps are numbered without gaps *)
(* in the order they were made, and no call that has succeeded was made a   *)
(* second time.                                                             *)
TraceIsReadable ==
    /\ \A c \in DOMAIN rows : rows[c].step = c
    /\ \A c, d \in DOMAIN rows :
         c < d /\ c \in Codes => rows[c].request # rows[d].request

(* What an analysis made with tools cites are calls of this attempt that    *)
(* returned data to whoever wrote it: not an invented code, and not the     *)
(* code of a call that failed or whose answer came too late to be used.     *)
CitesOnlyWhatWasSeen ==
    [][/\ result' # result /\ mode = "tool_calling"
       => \A ref \in result'.refs : ref.code \in Codes]_loopVars

(* The model has seen enough, or was asked once and without tools. *)
Whole ==
    \/ mode = "single_context" /\ messages = <<>> /\ turn = 0
    \/ /\ mode = "tool_calling" /\ messages # <<>>
       /\ messages[Len(messages)].role = "assistant"
       /\ messages[Len(messages)].calls = <<>>

(* An attempt with tools ends without a warning only if the model itself    *)
(* said it had seen enough: not after a limit, a failed request or a call   *)
(* that was refused, and not after falling back to a single request.        *)
NoWarningMeansWhole == status = "completed" /\ llm => Whole

Rank == [s \in Ended \cup {"not_analyzed", "queued", "planning", "collecting_data",
                            "generating_analysis", "analyzing"} |->
           CASE s = "not_analyzed" -> 0 [] s = "queued" -> 1 [] s = "planning" -> 2
             [] s = "collecting_data" -> 3 [] s = "generating_analysis" -> 4
             [] s = "analyzing" -> 5 [] OTHER -> 6]

(* Someone who watches the attempt sees it move forward only, through       *)
(* collecting data before the analysis is written, and never sees a settled *)
(* attempt change.                                                          *)
ProgressOnlyForward ==
    [][/\ status' # status => Rank[status] < Rank[status']]_loopVars

(* Every attempt comes to an end by itself, however the model answers and   *)
(* even if the deadline never passes: with a final status, or with an error *)
(* that leaves its row to the watchdog.                                     *)
LoopEnds == <>(status \in Ended \/ fault # "none")

(* The record of an attempt is whole, towards the model and towards whoever *)
(* reads its trace.                                                         *)
RecordIsWhole == LoopTypeOK /\ EveryCallAnswered /\ TraceIsReadable

(* What an attempt shows of itself is true: it moves forward only, cites    *)
(* what it has seen, and hides no limit, refusal or fall-back.              *)
OutcomeHonest == CitesOnlyWhatWasSeen /\ ProgressOnlyForward /\ []NoWarningMeansWhole
-----------------------------------------------------------------------------
(* What makes them inductive. *)

(* The stages in which the model may use tools. *)
WithTools == {"plan", "planning", "ask", "calls", "final"}

(* What the row of the attempt says while it is under way. *)
Stage == [idle |-> "not_analyzed", plan |-> "queued", planning |-> "planning",
          ask |-> "collecting_data", calls |-> "collecting_data",
          final |-> "generating_analysis", context |-> "analyzing", demo |-> "queued"]

Blank == /\ turn = 0 /\ count = 0 /\ tries = 0 /\ ~limit /\ ~warned
         /\ rows = <<>> /\ cache = <<>> /\ messages = <<>> /\ todo = <<>>

StageShape ==
    /\ position \in DOMAIN Stage => status = Stage[position] /\ result = NoResult
    /\ position \in {"done", "raised"} => status \notin Ended
    /\ position \in {"idle", "plan", "planning"} => Blank
    /\ position \in WithTools => llm /\ mode = "tool_calling"
    /\ position = "demo" => ~llm /\ mode = "tool_calling"
    /\ position = "context" => mode = "single_context"
    /\ position \in {"ask", "calls"} => tries = 0
    /\ position \in {"final", "context"} => tries < 2

(* Turn m has calls that wait for an answer: those in todo. *)
Open(m) ==
    LET done == Len(messages) - m
    IN  /\ done + Len(todo) = Len(messages[m].calls)
        /\ \A k \in 1 .. done : /\ messages[m + k].role = "tool"
                                /\ messages[m + k].calls = <<messages[m].calls[k]>>
        /\ \A k \in DOMAIN todo : todo[k].id = messages[m].calls[done + k]

TalkShape ==
    /\ position \in {"ask", "final"} => todo = <<>> /\ \A m \in Turns : Answered(m)
    /\ position = "calls" =>
         /\ todo # <<>>
         /\ \A m \in Turns :
              \/ Open(m)
              \/ Answered(m) /\ m + Len(messages[m].calls) < Len(messages)

(* What has succeeded is in the cache, where only calls of listed tools get. *)
RowShape ==
    /\ \A r \in DOMAIN cache : ~Unreadable(r)
    /\ position \in WithTools => \A c \in Codes : rows[c].request \in DOMAIN cache
    /\ position = "demo" => /\ Len(rows) <= Len(DemoSequence)
                      /\ \A c \in DOMAIN rows : rows[c].request = DemoRequest(c, days)

LimitShape ==
    /\ Cardinality(Turns) <= turn
    /\ Len(messages) + Len(todo) <= turn * (CallsPerTurn + 1)
    /\ llm => Cardinality(Codes) <= count
    /\ ~llm => turn = 0

WarningShape ==
    /\ position = "final" /\ ~limit => Whole
    /\ position = "context" /\ ~warned => Whole
    /\ position = "done" /\ llm /\ result.given /\ ~warned => Whole

LoopInv ==
    /\ RecordIsWhole
    /\ StageShape
    /\ TalkShape
    /\ RowShape
    /\ LimitShape
    /\ WarningShape
    /\ NoWarningMeansWhole
=============================================================================

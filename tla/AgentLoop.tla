------------------------------ MODULE AgentLoop ------------------------------
(***************************************************************************)
(* One run of run_rca_agent (agent/loop.py): the tool-calling loop around  *)
(* an OpenAI-compatible model.  The model, the tools and the database are  *)
(* the environment: every outcome the loop distinguishes is a choice.      *)
(* The run is called as the worker calls it, with a database session.      *)
(***************************************************************************)
EXTENDS Integers, Sequences, FiniteSets, SequencesExt, FiniteSetsExt

CONSTANTS
  Calls,                \* tool calls the model may ask for, one per cache key
  HistoryCalls,         \* those to find_past_incidents, which use the session
  MaxIterations,        \* settings.llm_max_iterations
  MaxRateLimitRetries,  \* settings.llm_rate_limit_retries
  MaxCallsPerTurn,      \* bound: tool calls in one assistant message
  Scores,               \* confidence scores the model may give, in hundredths
  Claims                \* counts the model may write in its own report

ASSUME HistoryAssumption == HistoryCalls \subseteq Calls
ASSUME LimitsAssumption == /\ MaxIterations \in Nat
                           /\ MaxRateLimitRetries \in Nat
                           /\ MaxCallsPerTurn \in Nat
ASSUME ModelOutputAssumption == Scores \subseteq 0..100 /\ Claims \subseteq Nat

VARIABLES
  pc,                        \* "call", "tools", "done" (returned), "raised"
  iteration,
  attempt,                   \* failed attempts of the call_llm in progress
  requests,                  \* history: completions requested in this run
  rateLimitRetries,
  correctionSent,
  toolCollectionPromptSent,
  toolCallsMade,
  toolResultCache,           \* "absent", or what the first execution returned
  pending,                   \* calls of the last assistant message still to run
  messages,                  \* the transcript sent with every request
  log,                       \* tool_call_logs rows flushed in this transaction
  txn,                       \* "open", or "aborted" by a failed statement
  report                     \* what the run returned

vars == <<pc, iteration, attempt, requests, rateLimitRetries, correctionSent,
          toolCollectionPromptSent, toolCallsMade, toolResultCache, pending,
          messages, log, txn, report>>

flags    == <<rateLimitRetries, correctionSent, toolCollectionPromptSent>>
evidence == <<toolCallsMade, toolResultCache, log, txn>>

Contract == INSTANCE RcaRun WITH
              phase    <- CASE pc = "done" -> "reported"
                            [] pc = "raised" -> "aborted"
                            [] OTHER -> "running",
              evidence <- log

NoReport == Contract!NoReport
Report   == Contract!Report

(***************************************************************************)
(* The transcript.  The three retry prompts are user messages; a message   *)
(* carries the calls it makes (assistant) or the one it answers (tool).    *)
(***************************************************************************)
Roles   == {"system", "user", "collect", "correct", "truncate", "assistant", "tool"}
Message == [role : Roles, calls : Seq(Calls)]

Prompt(kind)     == [role |-> kind, calls |-> <<>>]
Assistant(calls) == [role |-> "assistant", calls |-> calls]
ToolResult(call) == [role |-> "tool", calls |-> <<call>>]
TurnCalls        == BoundedSeq(Calls, MaxCallsPerTurn)

(***************************************************************************)
(* The completion call: call_llm makes at most three attempts, whatever    *)
(* the API error, and the error of the last one is what the loop sees.     *)
(* The request count saturates one above its budget, so that the state     *)
(* space stays finite whatever the loop does.                              *)
(***************************************************************************)
MaxAttempts   == 3
RequestBudget == MaxAttempts * (MaxIterations + MaxRateLimitRetries)
OneMore(n)    == IF n > RequestBudget THEN n ELSE n + 1

\* Mutant: the loop condition lets one iteration too many through.
CallingOneTooMany == /\ pc = "call" /\ iteration <= MaxIterations
                     /\ requests' = OneMore(requests)

Calling == /\ pc = "call" /\ iteration < MaxIterations
           /\ requests' = OneMore(requests)

Answered == Calling /\ attempt' = 0
GaveUp   == Calling /\ attempt + 1 = MaxAttempts /\ attempt' = 0

Init ==
  /\ pc = "call" /\ iteration = 0 /\ attempt = 0 /\ requests = 0
  /\ rateLimitRetries = 0
  /\ correctionSent = FALSE /\ toolCollectionPromptSent = FALSE
  /\ toolCallsMade = 0
  /\ toolResultCache = [c \in Calls |-> "absent"]
  /\ pending = <<>>
  /\ messages = <<Prompt("system"), Prompt("user")>>
  /\ log = <<>> /\ txn = "open"
  /\ report = NoReport

\* _build_fallback_report: score 0.2, LOW, and the counts of this run.
FallbackReport(iterations) ==
  [kind |-> "fallback", score |-> 20, label |-> "LOW",
   toolCalls |-> toolCallsMade, iterations |-> iterations]

ReturnReport(r) == pc' = "done" /\ report' = r
GoOn            == pc' = "call" /\ iteration' = iteration + 1 /\ UNCHANGED report

LlmRetry ==
  /\ Calling /\ attempt + 1 < MaxAttempts
  /\ attempt' = attempt + 1
  /\ UNCHANGED <<pc, iteration, flags, evidence, pending, messages, report>>

\* Mutant: a rate-limited completion is retried without being counted.
RateLimitedUncounted ==
  /\ GaveUp
  /\ UNCHANGED <<pc, iteration, flags, evidence, pending, messages, report>>

\* The third attempt ended in RateLimitError.  The retry that follows spends
\* no iteration, but the count is for the whole run.
RateLimited ==
  /\ GaveUp
  /\ rateLimitRetries' = rateLimitRetries + 1
  /\ \/ /\ rateLimitRetries' <= MaxRateLimitRetries
        /\ UNCHANGED <<pc, report>>
     \/ /\ rateLimitRetries' > MaxRateLimitRetries
        /\ ReturnReport(FallbackReport(iteration + 1))
  /\ UNCHANGED <<iteration, correctionSent, toolCollectionPromptSent,
                 evidence, pending, messages>>

\* The third attempt timed out or failed with any other API error.
LlmFailed ==
  /\ GaveUp
  /\ ReturnReport(FallbackReport(iteration + 1))
  /\ UNCHANGED <<iteration, flags, evidence, pending, messages>>

\* An exception that is no APIError is neither retried nor caught.
LlmUnexpectedError ==
  /\ Answered
  /\ pc' = "raised"
  /\ UNCHANGED <<iteration, flags, evidence, pending, messages, report>>

\* A response without choices, or a choice without a message.
EmptyResponse ==
  /\ Answered
  /\ ReturnReport(FallbackReport(iteration + 1))
  /\ UNCHANGED <<iteration, flags, evidence, pending, messages>>

(***************************************************************************)
(* finish_reason "stop": a final answer, parsed or not.                    *)
(***************************************************************************)
\* Mutant: the model's own counts are believed.
ParsedReportAsClaimed(score, claimedCalls, claimedIterations) ==
  [kind |-> "parsed", score |-> score,
   label |-> Contract!DeriveConfidenceLabel(score),
   toolCalls |-> claimedCalls, iterations |-> claimedIterations]

\* parse_rca_report replaces the label the model wrote; the loop raises the
\* two counts to at least its own.
ParsedReport(score, claimedCalls, claimedIterations) ==
  [kind |-> "parsed", score |-> score,
   label |-> Contract!DeriveConfidenceLabel(score),
   toolCalls |-> Max({claimedCalls, toolCallsMade}),
   iterations |-> Max({claimedIterations, iteration + 1})]

FinalAnswer ==
  /\ Answered
  /\ \E score \in Scores, c \in Claims, i \in Claims :
        ReturnReport(ParsedReport(score, c, i))
  /\ UNCHANGED <<iteration, flags, evidence, pending, messages>>

AskForToolCalls ==
  /\ Answered
  /\ toolCallsMade = 0 /\ ~toolCollectionPromptSent
  /\ toolCollectionPromptSent' = TRUE
  /\ messages' = Append(messages, Prompt("collect"))
  /\ GoOn
  /\ UNCHANGED <<rateLimitRetries, correctionSent, evidence, pending>>

\* Mutant: the correction prompt is not remembered.
AskForCorrectionAgain ==
  /\ Answered
  /\ toolCallsMade > 0 \/ toolCollectionPromptSent
  /\ messages' = Append(messages, Prompt("correct"))
  /\ GoOn
  /\ UNCHANGED <<flags, evidence, pending>>

AskForCorrection ==
  /\ Answered
  /\ toolCallsMade > 0 \/ toolCollectionPromptSent
  /\ ~correctionSent
  /\ correctionSent' = TRUE
  /\ messages' = Append(messages, Prompt("correct"))
  /\ GoOn
  /\ UNCHANGED <<rateLimitRetries, toolCollectionPromptSent, evidence, pending>>

UnparsableAgain ==
  /\ Answered
  /\ toolCallsMade > 0 \/ toolCollectionPromptSent
  /\ correctionSent
  /\ ReturnReport(FallbackReport(iteration + 1))
  /\ UNCHANGED <<iteration, flags, evidence, pending, messages>>

(***************************************************************************)
(* finish_reason "tool_calls": the calls of one message, one by one.       *)
(***************************************************************************)
\* Mutant: a turn that makes progress resets the rate-limit count.
ToolTurnResettingRateLimit ==
  /\ Answered
  /\ \E calls \in TurnCalls :
        /\ pending' = calls
        /\ messages' = Append(messages, Assistant(calls))
  /\ pc' = "tools" /\ rateLimitRetries' = 0
  /\ UNCHANGED <<iteration, correctionSent, toolCollectionPromptSent, evidence, report>>

ToolTurn ==
  /\ Answered
  /\ \E calls \in TurnCalls :
        /\ pending' = calls
        /\ messages' = Append(messages, Assistant(calls))
  /\ pc' = "tools"
  /\ UNCHANGED <<iteration, flags, evidence, report>>

\* dispatch_tool turns every failure, an unknown tool or bad arguments included,
\* into an error result.
DispatchResults == {"ok", "error"}

\* find_past_incidents catches a failing statement, but PostgreSQL may have
\* aborted the transaction of the session it shares with the run.
SessionAfter(c, result) ==
  \/ UNCHANGED txn
  \/ c \in HistoryCalls /\ result = "error" /\ txn' = "aborted"

\* Mutant: only successful results are cached.
ResolveCachingSuccess(c, result, cached) ==
  \/ /\ toolResultCache[c] # "absent"
     /\ result = toolResultCache[c] /\ cached
     /\ UNCHANGED <<toolResultCache, txn>>
  \/ /\ toolResultCache[c] = "absent" /\ ~cached
     /\ toolResultCache' = [toolResultCache EXCEPT
                              ![c] = IF result = "ok" THEN "ok" ELSE "absent"]
     /\ UNCHANGED txn

\* A call already in the cache reports its first result; any other is
\* dispatched, and its result cached whatever it is.
Resolve(c, result, cached) ==
  \/ /\ toolResultCache[c] # "absent"
     /\ result = toolResultCache[c] /\ cached
     /\ UNCHANGED <<toolResultCache, txn>>
  \/ /\ toolResultCache[c] = "absent" /\ ~cached
     /\ toolResultCache' = [toolResultCache EXCEPT ![c] = result]
     /\ SessionAfter(c, result)

\* Mutant: a repeated call is logged and counted, but its message is skipped.
AnswerCallSkippingRepeats ==
  /\ pc = "tools" /\ pending # <<>>
  /\ \E result \in DispatchResults, cached \in BOOLEAN :
        /\ Resolve(Head(pending), result, cached)
        /\ log' = Append(log, [call |-> Head(pending), success |-> result = "ok",
                               cached |-> cached])
        /\ messages' = IF cached THEN messages
                       ELSE Append(messages, ToolResult(Head(pending)))
  /\ txn' = "open"
  /\ toolCallsMade' = toolCallsMade + 1
  /\ pending' = Tail(pending)
  /\ UNCHANGED <<pc, iteration, attempt, requests, flags, report>>

\* Mutant: a repeated call is not counted.
AnswerCallUncounted ==
  /\ pc = "tools" /\ pending # <<>>
  /\ \E result \in DispatchResults, cached \in BOOLEAN :
        /\ Resolve(Head(pending), result, cached)
        /\ log' = Append(log, [call |-> Head(pending), success |-> result = "ok",
                               cached |-> cached])
        /\ toolCallsMade' = IF cached THEN toolCallsMade ELSE toolCallsMade + 1
  /\ txn' = "open"
  /\ messages' = Append(messages, ToolResult(Head(pending)))
  /\ pending' = Tail(pending)
  /\ UNCHANGED <<pc, iteration, attempt, requests, flags, report>>

AnswerCall ==
  /\ pc = "tools" /\ pending # <<>>
  /\ \E result \in DispatchResults, cached \in BOOLEAN :
        /\ Resolve(Head(pending), result, cached)
        /\ log' = Append(log, [call |-> Head(pending), success |-> result = "ok",
                               cached |-> cached])
  /\ txn' = "open"
  /\ messages' = Append(messages, ToolResult(Head(pending)))
  /\ toolCallsMade' = toolCallsMade + 1
  /\ pending' = Tail(pending)
  /\ UNCHANGED <<pc, iteration, attempt, requests, flags, report>>

\* log_tool_call flushes outside any try: a failing flush ends the run, and
\* in an aborted transaction every flush fails.
LogWriteFails ==
  /\ pc = "tools" /\ pending # <<>>
  /\ \E result \in DispatchResults, cached \in BOOLEAN :
        Resolve(Head(pending), result, cached)
  /\ pc' = "raised"
  /\ UNCHANGED <<iteration, attempt, requests, flags, toolCallsMade, pending,
                 messages, log, report>>

TurnDone ==
  /\ pc = "tools" /\ pending = <<>>
  /\ GoOn
  /\ UNCHANGED <<attempt, requests, flags, evidence, pending, messages>>

\* finish_reason "length" adds a prompt, any other reason nothing.
OtherFinish ==
  /\ Answered
  /\ \/ messages' = Append(messages, Prompt("truncate"))
     \/ UNCHANGED messages
  /\ GoOn
  /\ UNCHANGED <<flags, evidence, pending>>

IterationsExhausted ==
  /\ pc = "call" /\ iteration >= MaxIterations
  /\ ReturnReport(FallbackReport(iteration))
  /\ UNCHANGED <<iteration, attempt, requests, flags, evidence, pending, messages>>

Next ==
  \/ LlmRetry \/ RateLimited \/ LlmFailed \/ LlmUnexpectedError \/ EmptyResponse
  \/ FinalAnswer \/ AskForToolCalls \/ AskForCorrection \/ UnparsableAgain
  \/ ToolTurn \/ AnswerCall \/ LogWriteFails \/ TurnDone
  \/ OtherFinish \/ IterationsExhausted

Spec == Init /\ [][Next]_vars

\* Every await of the loop is bounded by a timeout (LLM client, OpenMetadata
\* client) or by the database driver, so a step that can be taken is taken.
FairSpec == Spec /\ WF_vars(Next)

-----------------------------------------------------------------------------
LogRow == [call : Calls, success : BOOLEAN, cached : BOOLEAN]

\* The types of the run's local state.
TypeOK ==
  /\ pc \in {"call", "tools", "done", "raised"}
  /\ iteration \in 0..MaxIterations
  /\ attempt \in 0..(MaxAttempts - 1)
  /\ requests \in Nat
  /\ rateLimitRetries \in 0..(MaxRateLimitRetries + 1)
  /\ correctionSent \in BOOLEAN /\ toolCollectionPromptSent \in BOOLEAN
  /\ toolCallsMade \in Nat
  /\ toolResultCache \in [Calls -> {"absent", "ok", "error"}]
  /\ pending \in Seq(Calls)
  /\ messages \in Seq(Message)
  /\ log \in Seq(LogRow)
  /\ txn \in {"open", "aborted"}
  /\ report \in Report \cup {NoReport}

\* Chat-completion protocol: the calls of an assistant message are answered
\* by the tool messages right after it, in order, all of them before the next
\* request, and no tool message answers anything else (loop.py:410-466).
Follows(i, m, calls) ==   \* messages i+1.. of m answer the first of calls
  \A j \in 1..Len(calls) : i + j <= Len(m) => m[i + j] = ToolResult(calls[j])

TranscriptAnswered ==
  \A i \in DOMAIN messages :
    /\ messages[i].role = "assistant" =>
         /\ Follows(i, messages, messages[i].calls)
         /\ pc = "call" => i + Len(messages[i].calls) <= Len(messages)
    /\ messages[i].role = "tool" =>
         \E a \in 1..(i - 1) : /\ messages[a].role = "assistant"
                               /\ i - a <= Len(messages[a].calls)

\* Every tool result the model has been shown, cached or not, is counted and
\* has its tool_call_logs row (loop.py:446-465).
EvidenceAccounted ==
  /\ Len(log) = toolCallsMade
  /\ Cardinality({i \in DOMAIN messages : messages[i].role = "tool"}) = toolCallsMade

\* Cache and log agree: a call with a result was executed exactly once, first,
\* and all its rows report that result; a call without one has no row
\* (loop.py:419-444).  A run that raised may have lost the row of its last call.
CacheMatchesLog ==
  \A c \in Calls :
    LET rows == Contract!RowsOf(c, log) IN
    /\ \A i \in rows : /\ toolResultCache[c] = IF log[i].success THEN "ok" ELSE "error"
                       /\ log[i].cached <=> \E j \in rows : j < i
    /\ toolResultCache[c] # "absent" /\ pc # "raised" => rows # {}

\* However rate limits, retries and prompts interleave, a run requests at most
\* three completions per iteration and per rate-limit retry of the run
\* (loop.py:202-215, 280-307).
RequestsBounded == requests <= RequestBudget

\* Each of the two parse-retry prompts is sent at most once, and tool
\* collection is not asked for once a tool has answered (loop.py:385-404).
PromptsSentOnce ==
  \A i, j \in DOMAIN messages :
    /\ messages[i].role = messages[j].role /\ messages[i].role \in {"collect", "correct"}
         => i = j
    /\ messages[i].role = "collect" /\ messages[j].role = "tool" => i < j

\* The loop implements the contract of a run.
ContractHolds == Contract!Spec

\* Each step of a run brings it nearer to its end: it finishes an iteration or
\* the run, or within one opens a turn, answers a pending call, or uses up a
\* retry or an attempt, of which it then has one less for good; TypeOK bounds
\* them all (loop.py:280-307, 410-466).
LoopAdvances ==
  [][/\ pc \notin {"done", "raised"}
     /\ \/ iteration' > iteration
        \/ /\ iteration' = iteration
           /\ \/ pc' \in {"done", "raised"}
              \/ pc = "call" /\ pc' = "tools"
              \/ pc = "tools" /\ pc' = "tools" /\ Len(pending') < Len(pending)
              \/ /\ pc = "call" /\ pc' = "call"
                 /\ \/ rateLimitRetries' > rateLimitRetries
                    \/ rateLimitRetries' = rateLimitRetries /\ attempt' > attempt]_vars

\* Every run ends: no reply of the model, and no sequence of failures, keeps
\* the loop going (loop.py:280).
Terminates == <>(pc \in {"done", "raised"})

-----------------------------------------------------------------------------
\* "Tool failures return error dicts and never abort the loop"
\* (knowledge/services/agent.md:212): a run that raised had a usable session.
ToolFailuresNeverAbort == pc = "raised" => txn = "open"
=============================================================================

--------------------------- MODULE AgentLoopProofs ---------------------------
(***************************************************************************)
(* Proofs about AgentLoop, for any set of calls and any settings.          *)
(***************************************************************************)
EXTENDS AgentLoop, SequenceTheorems, TLAPS

(***************************************************************************)
(* The strengthening of TypeOK and RequestsBounded that every step keeps:  *)
(* while the run goes on its retry count is within the setting and its     *)
(* session is usable, a turn is inside the iteration limit, and each       *)
(* request is paid for by an iteration, a rate-limit retry or an attempt.  *)
(***************************************************************************)
StillRunning ==
  pc \in {"call", "tools"} => /\ rateLimitRetries <= MaxRateLimitRetries
                              /\ report = NoReport
                              /\ txn = "open"
InTurn == pc = "tools" => iteration < MaxIterations /\ attempt = 0

Paid ==
  /\ pc = "call" => requests <= 3 * (iteration + rateLimitRetries) + attempt
  /\ pc = "tools" => requests <= 3 * (iteration + rateLimitRetries) + 3
  /\ requests <= 3 * (MaxIterations + MaxRateLimitRetries)

RunInv == TypeOK /\ StillRunning /\ InTurn /\ Paid

-----------------------------------------------------------------------------
\* A turn's calls form a sequence of calls.
LEMMA TurnCallsAreSequences == TurnCalls \subseteq Seq(Calls)
  BY LimitsAssumption DEF TurnCalls, BoundedSeq, SeqOf

\* The greater of two naturals is one of them and bounds both.
LEMMA MaxOfTwo ==
  ASSUME NEW a \in Nat, NEW b \in Nat
  PROVE  Max({a, b}) \in Nat /\ Max({a, b}) >= a /\ Max({a, b}) >= b
<1>1. \E x \in {a, b} : \A y \in {a, b} : x >= y
  <2>1. CASE a >= b  BY <2>1
  <2>2. CASE b >= a  BY <2>2
  <2>3. QED  BY <2>1, <2>2
<1>2. Max({a, b}) \in {a, b} /\ \A y \in {a, b} : Max({a, b}) >= y
  BY <1>1 DEF Max
<1>3. QED  BY <1>2

\* The empty report and the reports the loop builds are typed and sound.
LEMMA FallbackSound ==
  ASSUME TypeOK, NEW n \in 0..MaxIterations
  PROVE  FallbackReport(n) \in Report
  BY DEF FallbackReport, Report, Contract!Report, Contract!Labels, TypeOK

LEMMA ParsedTyped ==
  ASSUME TypeOK, NEW s \in Scores, NEW c \in Claims, NEW i \in Claims
  PROVE  /\ ParsedReport(s, c, i) \in Report
         /\ ParsedReport(s, c, i).toolCalls >= toolCallsMade
<1>1. c \in Nat /\ i \in Nat /\ s \in 0..100 /\ iteration + 1 \in Nat /\ toolCallsMade \in Nat
  BY ModelOutputAssumption DEF TypeOK
<1>2. /\ Max({c, toolCallsMade}) \in Nat /\ Max({c, toolCallsMade}) >= toolCallsMade
      /\ Max({i, iteration + 1}) \in Nat
  BY <1>1, MaxOfTwo
<1>3. Contract!DeriveConfidenceLabel(s) \in Contract!Labels
  BY DEF Contract!DeriveConfidenceLabel, Contract!Labels
<1>4. QED
  BY <1>1, <1>2, <1>3 DEF ParsedReport, Report, Contract!Report

\* A transcript with a prompt appended is a transcript.
LEMMA PromptAppended ==
  ASSUME NEW kind \in Roles, NEW m \in Seq(Message)
  PROVE  Append(m, Prompt(kind)) \in Seq(Message)
<1>1. Prompt(kind) \in Message
  BY DEF Prompt, Message
<1>2. QED  BY <1>1

LEMMA RunInvInit == Init => RunInv
<1> SUFFICES ASSUME Init PROVE RunInv
  OBVIOUS
<1>1. TypeOK
  <2>1. Prompt("system") \in Message /\ Prompt("user") \in Message
    BY DEF Prompt, Message, Roles
  <2>2. messages \in Seq(Message)
    BY <2>1 DEF Init
  <2>3. /\ toolResultCache \in [Calls -> {"absent", "ok", "error"}]
        /\ pending \in Seq(Calls) /\ log \in Seq(LogRow)
    BY DEF Init
  <2>4. /\ pc \in {"call", "tools", "done", "raised"}
        /\ iteration \in 0..MaxIterations /\ attempt \in 0..(MaxAttempts - 1)
        /\ requests \in Nat /\ rateLimitRetries \in 0..(MaxRateLimitRetries + 1)
        /\ toolCallsMade \in Nat
    BY LimitsAssumption DEF Init, MaxAttempts
  <2>5. /\ correctionSent \in BOOLEAN /\ toolCollectionPromptSent \in BOOLEAN
        /\ txn \in {"open", "aborted"} /\ report \in Report \cup {NoReport}
    BY DEF Init
  <2>6. QED
    BY <2>2, <2>3, <2>4, <2>5 DEF TypeOK
<1>2. StillRunning /\ InTurn /\ Paid
  BY LimitsAssumption DEF Init, StillRunning, InTurn, Paid
<1>3. QED  BY <1>1, <1>2 DEF RunInv

LEMMA RunInvNext == RunInv /\ [Next]_vars => RunInv'
<1> SUFFICES ASSUME RunInv, [Next]_vars PROVE RunInv'
  OBVIOUS
<1> USE LimitsAssumption DEF RunInv, TypeOK, StillRunning, InTurn, Paid, flags, evidence
<1>a. ASSUME Calling
      PROVE  /\ pc = "call" /\ iteration < MaxIterations
             /\ iteration \in Nat /\ iteration + 1 \in 0..MaxIterations
             /\ requests' \in Nat /\ requests' <= requests + 1
             /\ requests' <= 3 * (MaxIterations + MaxRateLimitRetries)
  BY <1>a DEF Calling, OneMore, RequestBudget, MaxAttempts
<1>b. \A k \in Roles : Append(messages, Prompt(k)) \in Seq(Message)
  BY PromptAppended
<1>1. CASE LlmRetry
  BY <1>1, <1>a DEF LlmRetry, MaxAttempts
<1>2. CASE RateLimited
  <2>1. FallbackReport(iteration + 1) \in Report
    BY <1>2, <1>a, FallbackSound DEF RateLimited, GaveUp
  <2>2. QED
    BY <1>2, <1>a, <2>1 DEF RateLimited, GaveUp, ReturnReport, MaxAttempts
<1>3. CASE LlmFailed \/ EmptyResponse \/ UnparsableAgain
  <2>1. FallbackReport(iteration + 1) \in Report
    BY <1>3, <1>a, FallbackSound DEF LlmFailed, EmptyResponse, UnparsableAgain, GaveUp, Answered
  <2>2. QED
    BY <1>3, <1>a, <2>1 DEF LlmFailed, EmptyResponse, UnparsableAgain, GaveUp, Answered,
                            ReturnReport, MaxAttempts
<1>4. CASE LlmUnexpectedError
  BY <1>4, <1>a DEF LlmUnexpectedError, Answered, MaxAttempts
<1>5. CASE FinalAnswer
  BY <1>5, <1>a, ParsedTyped DEF FinalAnswer, Answered, ReturnReport, MaxAttempts
<1>6. CASE AskForToolCalls
  BY <1>6, <1>a, <1>b DEF AskForToolCalls, Answered, GoOn, MaxAttempts, Roles
<1>7. CASE AskForCorrection
  BY <1>7, <1>a, <1>b DEF AskForCorrection, Answered, GoOn, MaxAttempts, Roles
<1>8. CASE ToolTurn
  <2>1. PICK calls \in TurnCalls : pending' = calls /\ messages' = Append(messages, Assistant(calls))
    BY <1>8 DEF ToolTurn
  <2>2. pending' \in Seq(Calls) /\ messages' \in Seq(Message)
    BY <2>1, TurnCallsAreSequences DEF Assistant, Message, Roles
  <2>3. QED
    BY <1>8, <1>a, <2>2 DEF ToolTurn, Answered, MaxAttempts
<1>9. CASE AnswerCall
  <2>1. PICK result \in DispatchResults, cached \in BOOLEAN :
           /\ Resolve(Head(pending), result, cached)
           /\ log' = Append(log, [call |-> Head(pending), success |-> result = "ok",
                                  cached |-> cached])
    BY <1>9 DEF AnswerCall
  <2>2. Head(pending) \in Calls /\ pending' \in Seq(Calls)
    BY <1>9 DEF AnswerCall
  <2>3. log' \in Seq(LogRow)
    BY <2>1, <2>2 DEF LogRow
  <2>4. messages' \in Seq(Message)
    BY <1>9, <2>2 DEF AnswerCall, ToolResult, Message, Roles
  <2>5. toolResultCache' \in [Calls -> {"absent", "ok", "error"}]
    BY <2>1, <2>2 DEF Resolve, DispatchResults
  <2>6. QED
    BY <1>9, <2>2, <2>3, <2>4, <2>5 DEF AnswerCall
<1>10. CASE LogWriteFails
  <2>1. PICK result \in DispatchResults, cached \in BOOLEAN :
           Resolve(Head(pending), result, cached)
    BY <1>10 DEF LogWriteFails
  <2>2. Head(pending) \in Calls
    BY <1>10 DEF LogWriteFails
  <2>3. /\ toolResultCache' \in [Calls -> {"absent", "ok", "error"}]
        /\ txn' \in {"open", "aborted"}
    BY <2>1, <2>2 DEF Resolve, DispatchResults, SessionAfter
  <2>4. QED
    BY <1>10, <2>3 DEF LogWriteFails
<1>11. CASE TurnDone
  BY <1>11 DEF TurnDone, GoOn, MaxAttempts
<1>12. CASE OtherFinish
  <2>2. messages' \in Seq(Message)
    <3>1. messages' = messages \/ messages' = Append(messages, Prompt("truncate"))
      BY <1>12 DEF OtherFinish
    <3>2. messages \in Seq(Message)
      OBVIOUS
    <3>3. QED
      BY <1>b, <3>1, <3>2 DEF Roles
  <2>3. QED
    BY <1>12, <1>a, <2>2 DEF OtherFinish, Answered, GoOn, MaxAttempts
<1>13. CASE IterationsExhausted
  <2>1. FallbackReport(iteration) \in Report
    BY FallbackSound
  <2>2. QED
    BY <1>13, <2>1 DEF IterationsExhausted, ReturnReport
<1>14. CASE UNCHANGED vars
  BY <1>14 DEF vars
<1> HIDE DEF RunInv
<1>15. QED
  BY <1>1, <1>2, <1>3, <1>4, <1>5, <1>6, <1>7, <1>8, <1>9, <1>10, <1>11, <1>12,
     <1>13, <1>14 DEF Next

LEMMA RunInvariant == Spec => []RunInv
  BY RunInvInit, RunInvNext, PTL DEF Spec

\* The run's local state keeps its types.
THEOREM TypeCorrect == Spec => []TypeOK
<1>1. RunInv => TypeOK  BY DEF RunInv
<1>2. QED  BY <1>1, RunInvariant, PTL

\* A run never requests more completions than its iterations and its
\* rate-limit retries allow.
THEOREM RequestsWithinBudget == Spec => []RequestsBounded
<1>1. RunInv => RequestsBounded
  BY DEF RunInv, Paid, RequestsBounded, RequestBudget, MaxAttempts
<1>2. QED  BY <1>1, RunInvariant, PTL

-----------------------------------------------------------------------------
(***************************************************************************)
(* The evidence of a run: the log, the cache and the count move together,  *)
(* in AnswerCall and nowhere else.                                         *)
(***************************************************************************)
EvidenceInv == CacheMatchesLog /\ Len(log) = toolCallsMade

\* A step answers a call, fails to log one, or leaves cache, log and count
\* alone and does not come from a run that is over.
LEMMA EvidenceSteps ==
  ASSUME Next
  PROVE  \/ AnswerCall
         \/ LogWriteFails
         \/ /\ UNCHANGED <<log, toolResultCache, toolCallsMade>>
            /\ pc \in {"call", "tools"}
<1> USE DEF Answered, GaveUp, Calling, evidence
<1>1. CASE LlmRetry \/ RateLimited \/ LlmFailed \/ LlmUnexpectedError \/ EmptyResponse
  BY <1>1 DEF LlmRetry, RateLimited, LlmFailed, LlmUnexpectedError, EmptyResponse
<1>2. CASE FinalAnswer \/ AskForToolCalls \/ AskForCorrection \/ UnparsableAgain
  BY <1>2 DEF FinalAnswer, AskForToolCalls, AskForCorrection, UnparsableAgain
<1>3. CASE ToolTurn \/ TurnDone \/ OtherFinish \/ IterationsExhausted
  BY <1>3 DEF ToolTurn, TurnDone, OtherFinish, IterationsExhausted
<1>4. QED
  BY <1>1, <1>2, <1>3 DEF Next

\* What appending a row does to a log.
LEMMA RowAppended ==
  ASSUME NEW rows \in Seq(LogRow), NEW row \in LogRow
  PROVE  /\ Append(rows, row) \in Seq(LogRow)
         /\ Len(Append(rows, row)) = Len(rows) + 1
         /\ DOMAIN Append(rows, row) = 1..(Len(rows) + 1)
         /\ DOMAIN rows = 1..Len(rows)
         /\ \A i \in 1..Len(rows) : Append(rows, row)[i] = rows[i]
         /\ Append(rows, row)[Len(rows) + 1] = row
  OBVIOUS

\* How AnswerCall extends the log and the cache: the first execution of a call
\* has no rows before it, a repeated one has, with the same outcome.
LEMMA AnswerCallEffect ==
  ASSUME RunInv, CacheMatchesLog, AnswerCall
  PROVE  \E c \in Calls, ok \in BOOLEAN, cached \in BOOLEAN :
           LET row == [call |-> c, success |-> ok, cached |-> cached] IN
           /\ row \in LogRow
           /\ log' = Append(log, row)
           /\ cached <=> Contract!RowsOf(c, log) # {}
           /\ \A i \in Contract!RowsOf(c, log) : log[i].success = ok
           /\ toolResultCache' = [toolResultCache EXCEPT ![c] = IF ok THEN "ok" ELSE "error"]
<1> DEFINE c == Head(pending)
<1>1. PICK result \in DispatchResults, cached \in BOOLEAN :
         /\ Resolve(c, result, cached)
         /\ log' = Append(log, [call |-> c, success |-> result = "ok", cached |-> cached])
  BY DEF AnswerCall
<1>2. c \in Calls
  BY DEF AnswerCall, RunInv, TypeOK
<1>3. toolResultCache \in [Calls -> {"absent", "ok", "error"}] /\ pc # "raised"
  BY DEF AnswerCall, RunInv, TypeOK
<1>4. /\ \A i \in Contract!RowsOf(c, log) :
            toolResultCache[c] = IF log[i].success THEN "ok" ELSE "error"
      /\ toolResultCache[c] # "absent" => Contract!RowsOf(c, log) # {}
  BY <1>2, <1>3 DEF CacheMatchesLog
<1> DEFINE ok == result = "ok"
<1>5. ok \in BOOLEAN /\ result = IF ok THEN "ok" ELSE "error"
  BY <1>1 DEF DispatchResults
<1>6. cached <=> toolResultCache[c] # "absent"
  BY <1>1 DEF Resolve
<1>7. cached <=> Contract!RowsOf(c, log) # {}
  BY <1>4, <1>6
<1>8. \A i \in Contract!RowsOf(c, log) : log[i].success \in BOOLEAN
  <2>1. log \in Seq(LogRow)
    BY DEF RunInv, TypeOK
  <2>2. \A i \in DOMAIN log : log[i] \in LogRow
    BY <2>1
  <2>3. QED
    BY <2>2 DEF Contract!RowsOf, LogRow
<1>9. \A i \in Contract!RowsOf(c, log) : log[i].success = ok
  <2>1. SUFFICES ASSUME NEW i \in Contract!RowsOf(c, log) PROVE log[i].success = ok
    OBVIOUS
  <2>2. toolResultCache[c] # "absent" /\ cached
    BY <1>4, <1>6, <2>1
  <2>3. result = toolResultCache[c]
    BY <1>1, <2>2 DEF Resolve
  <2>4. QED
    BY <1>4, <1>5, <1>8, <2>1, <2>3
<1>10. toolResultCache' = [toolResultCache EXCEPT ![c] = result]
  BY <1>1, <1>2, <1>3 DEF Resolve
<1>11. [call |-> c, success |-> ok, cached |-> cached] \in LogRow
  BY <1>2, <1>5 DEF LogRow
<1> HIDE DEF c, ok
<1>12. QED
  BY <1>1, <1>2, <1>5, <1>7, <1>9, <1>10, <1>11 DEF ok

LEMMA CacheNext == RunInv /\ CacheMatchesLog /\ [Next]_vars => CacheMatchesLog'
<1> SUFFICES ASSUME RunInv, CacheMatchesLog, [Next]_vars PROVE CacheMatchesLog'
  OBVIOUS
<1>1. log \in Seq(LogRow) /\ toolResultCache \in [Calls -> {"absent", "ok", "error"}]
  BY DEF RunInv, TypeOK
<1>2. CASE AnswerCall
  <2>1. PICK c \in Calls, ok \in BOOLEAN, cached \in BOOLEAN :
           LET row == [call |-> c, success |-> ok, cached |-> cached] IN
           /\ row \in LogRow
           /\ log' = Append(log, row)
           /\ cached <=> Contract!RowsOf(c, log) # {}
           /\ \A i \in Contract!RowsOf(c, log) : log[i].success = ok
           /\ toolResultCache' = [toolResultCache EXCEPT ![c] = IF ok THEN "ok" ELSE "error"]
    BY <1>2, AnswerCallEffect
  <2> DEFINE row == [call |-> c, success |-> ok, cached |-> cached]
             last == Len(log) + 1
  <2>2. /\ DOMAIN log' = 1..last /\ DOMAIN log = 1..Len(log) /\ Len(log) \in Nat
        /\ \A i \in 1..Len(log) : log'[i] = log[i]
        /\ log'[last] = row
    BY <1>1, <2>1, RowAppended
  <2>3. /\ row.call = c /\ row.success = ok /\ row.cached = cached
    OBVIOUS
  <2> HIDE DEF row
  <2>4. ASSUME NEW d \in Calls, d # c
        PROVE  /\ Contract!RowsOf(d, log') = Contract!RowsOf(d, log)
               /\ toolResultCache'[d] = toolResultCache[d]
    BY <1>1, <2>1, <2>2, <2>3, <2>4 DEF Contract!RowsOf
  <2>5. Contract!RowsOf(c, log') = Contract!RowsOf(c, log) \cup {last}
    BY <2>2, <2>3 DEF Contract!RowsOf
  <2>6. toolResultCache'[c] = IF ok THEN "ok" ELSE "error"
    BY <1>1, <2>1
  <2>7. SUFFICES ASSUME NEW d \in Calls
        PROVE  /\ \A i \in Contract!RowsOf(d, log') :
                    /\ toolResultCache'[d] = IF log'[i].success THEN "ok" ELSE "error"
                    /\ log'[i].cached <=> \E j \in Contract!RowsOf(d, log') : j < i
               /\ toolResultCache'[d] # "absent" /\ pc' # "raised"
                    => Contract!RowsOf(d, log') # {}
    BY DEF CacheMatchesLog
  <2>8. /\ \A i \in Contract!RowsOf(d, log) :
              /\ toolResultCache[d] = IF log[i].success THEN "ok" ELSE "error"
              /\ log[i].cached <=> \E j \in Contract!RowsOf(d, log) : j < i
        /\ toolResultCache[d] # "absent" /\ pc # "raised" => Contract!RowsOf(d, log) # {}
        /\ \A i \in Contract!RowsOf(d, log) : i \in 1..Len(log) /\ log'[i] = log[i]
    BY <2>2 DEF CacheMatchesLog, Contract!RowsOf
  <2>9. CASE d # c
    <3>1. pc # "raised"
      BY <1>2 DEF AnswerCall
    <3>2. /\ Contract!RowsOf(d, log') = Contract!RowsOf(d, log)
          /\ toolResultCache'[d] = toolResultCache[d]
      BY <2>4, <2>9
    <3>3. QED
      BY <2>8, <3>1, <3>2
  <2>10. CASE d = c
    <3>1. \A i \in Contract!RowsOf(c, log) : i \in 1..Len(log) /\ i < last /\ log'[i].success = ok
      BY <2>1, <2>2, <2>8, <2>10
    <3>2. ASSUME NEW i \in Contract!RowsOf(c, log')
          PROVE  toolResultCache'[c] = IF log'[i].success THEN "ok" ELSE "error"
      BY <2>2, <2>3, <2>5, <2>6, <3>1, <3>2
    <3>3. ASSUME NEW i \in Contract!RowsOf(c, log)
          PROVE  log'[i].cached <=> \E j \in Contract!RowsOf(c, log') : j < i
      <4>1. i < last /\ ~(last < i)
        BY <2>2, <3>1, <3>3
      <4>2. (\E j \in Contract!RowsOf(c, log') : j < i)
              <=> (\E j \in Contract!RowsOf(c, log) : j < i)
        BY <2>5, <4>1
      <4>3. QED
        BY <2>8, <2>10, <3>3, <4>2
    <3>4. log'[last].cached <=> \E j \in Contract!RowsOf(c, log') : j < last
      <4>1. ~(last < last)
        BY <2>2
      <4>2. (\E j \in Contract!RowsOf(c, log') : j < last) <=> Contract!RowsOf(c, log) # {}
        BY <2>5, <3>1, <4>1
      <4>3. QED
        BY <2>1, <2>2, <2>3, <4>2
    <3>5. QED
      BY <2>5, <2>10, <3>2, <3>3, <3>4
  <2>11. QED  BY <2>9, <2>10
<1>3. CASE LogWriteFails
  <2>1. PICK result \in DispatchResults, cached \in BOOLEAN :
           Resolve(Head(pending), result, cached)
    BY <1>3 DEF LogWriteFails
  <2>2. log' = log /\ pc' = "raised"
    BY <1>3 DEF LogWriteFails
  <2>3. \A d \in Calls : toolResultCache[d] # "absent" => toolResultCache'[d] = toolResultCache[d]
    BY <1>1, <2>1 DEF Resolve
  <2>4. \A d \in Calls : \A i \in Contract!RowsOf(d, log) : toolResultCache[d] # "absent"
    BY DEF CacheMatchesLog
  <2>5. QED
    BY <2>2, <2>3, <2>4 DEF CacheMatchesLog
<1>4. CASE UNCHANGED <<log, toolResultCache, toolCallsMade>> /\ pc \in {"call", "tools"}
  BY <1>4 DEF CacheMatchesLog
<1>5. CASE UNCHANGED vars
  BY <1>5 DEF CacheMatchesLog, vars
<1>6. QED
  BY <1>2, <1>3, <1>4, <1>5, EvidenceSteps

LEMMA EvidenceInvariant == Spec => []EvidenceInv
<1>1. Init => EvidenceInv
  BY DEF Init, EvidenceInv, CacheMatchesLog, Contract!RowsOf
<1>2. RunInv /\ EvidenceInv /\ [Next]_vars => (Len(log) = toolCallsMade)'
  <2> SUFFICES ASSUME RunInv, EvidenceInv, [Next]_vars PROVE Len(log)' = toolCallsMade'
    OBVIOUS
  <2>1. CASE AnswerCall
    <3>1. log \in Seq(LogRow) /\ toolCallsMade' = toolCallsMade + 1 /\ Len(log) = toolCallsMade
      BY <2>1 DEF RunInv, TypeOK, EvidenceInv, AnswerCall
    <3>2. PICK row \in LogRow : log' = Append(log, row)
      BY <2>1, AnswerCallEffect DEF EvidenceInv
    <3>3. QED
      BY <3>1, <3>2, RowAppended
  <2>2. CASE LogWriteFails
    BY <2>2 DEF LogWriteFails, EvidenceInv
  <2>3. CASE UNCHANGED <<log, toolResultCache, toolCallsMade>>
    BY <2>3 DEF EvidenceInv
  <2>4. CASE UNCHANGED vars
    BY <2>4 DEF EvidenceInv, vars
  <2>5. QED
    BY <2>1, <2>2, <2>3, <2>4, EvidenceSteps
<1>3. RunInv /\ EvidenceInv /\ [Next]_vars => EvidenceInv'
  BY <1>2, CacheNext DEF EvidenceInv
<1>4. QED
  BY <1>1, <1>3, RunInvariant, PTL DEF Spec

\* No call is executed twice in a run, and every repetition reports the
\* outcome of the first execution.
THEOREM CacheAgreesWithLog == Spec => []CacheMatchesLog
<1>1. EvidenceInv => CacheMatchesLog  BY DEF EvidenceInv
<1>2. QED  BY <1>1, EvidenceInvariant, PTL

-----------------------------------------------------------------------------
(***************************************************************************)
(* The loop implements RcaRun: an answered call is a Gather, a return a    *)
(* Conclude, an exception an Abort, and every other step a stutter.        *)
(***************************************************************************)

\* How any step looks to the contract.
LEMMA StepKinds ==
  ASSUME RunInv, Next
  PROVE  \/ AnswerCall
         \/ /\ pc \in {"call", "tools"} /\ pc' = "raised" /\ UNCHANGED <<log, report>>
         \/ /\ pc \in {"call", "tools"} /\ pc' \in {"call", "tools"}
            /\ UNCHANGED <<log, report>>
         \/ /\ pc = "call" /\ pc' = "done" /\ UNCHANGED log
            /\ \/ report' = FallbackReport(iteration)
               \/ report' = FallbackReport(iteration + 1) /\ iteration < MaxIterations
               \/ \E s \in Scores, c \in Claims, i \in Claims : report' = ParsedReport(s, c, i)
<1> USE DEF Answered, GaveUp, Calling, evidence, ReturnReport, GoOn
<1>1. CASE LlmRetry \/ LlmUnexpectedError
  BY <1>1 DEF LlmRetry, LlmUnexpectedError
<1>8. CASE LlmFailed \/ EmptyResponse \/ UnparsableAgain
  BY <1>8 DEF LlmFailed, EmptyResponse, UnparsableAgain
<1>9. CASE FinalAnswer
  BY <1>9 DEF FinalAnswer
<1>2. CASE RateLimited
  BY <1>2 DEF RateLimited
<1>3. CASE AskForToolCalls \/ AskForCorrection
  BY <1>3 DEF AskForToolCalls, AskForCorrection
<1>4. CASE ToolTurn \/ TurnDone \/ OtherFinish
  BY <1>4 DEF ToolTurn, TurnDone, OtherFinish
<1>5. CASE IterationsExhausted
  BY <1>5 DEF IterationsExhausted
<1>6. CASE LogWriteFails
  BY <1>6 DEF LogWriteFails
<1>10. QED
  BY <1>1, <1>2, <1>3, <1>4, <1>5, <1>6, <1>8, <1>9 DEF Next

\* The reports the loop returns satisfy the contract.
LEMMA ReturnedReportSound ==
  ASSUME RunInv, EvidenceInv,
         NEW r,
         \/ r = FallbackReport(iteration)
         \/ r = FallbackReport(iteration + 1) /\ iteration < MaxIterations
         \/ \E s \in Scores, c \in Claims, i \in Claims : r = ParsedReport(s, c, i)
  PROVE  r \in Report /\ Contract!Sound(r, log)
<1>1. TypeOK /\ Len(log) = toolCallsMade /\ toolCallsMade \in Nat
      /\ iteration \in 0..MaxIterations /\ MaxIterations \in Nat
  BY LimitsAssumption DEF RunInv, TypeOK, EvidenceInv
<1>2. ASSUME NEW n \in 0..MaxIterations, r = FallbackReport(n)
      PROVE  r \in Report /\ Contract!Sound(r, log)
  <2>1. r \in Report
    BY <1>1, <1>2, FallbackSound
  <2>2. /\ r.kind = "fallback" /\ r.score = 20 /\ r.label = "LOW"
        /\ r.toolCalls = toolCallsMade /\ r.iterations = n
    BY <1>2 DEF FallbackReport
  <2>3. QED
    BY <1>1, <2>1, <2>2 DEF Contract!Sound, Contract!DeriveConfidenceLabel
<1>3. ASSUME NEW s \in Scores, NEW c \in Claims, NEW i \in Claims, r = ParsedReport(s, c, i)
      PROVE  r \in Report /\ Contract!Sound(r, log)
  <2>1. r \in Report /\ r.toolCalls >= toolCallsMade
    BY <1>1, <1>3, ParsedTyped
  <2>2. /\ r.kind = "parsed" /\ r.score = s
        /\ r.label = Contract!DeriveConfidenceLabel(s)
    BY <1>3 DEF ParsedReport
  <2>3. QED
    BY <1>1, <2>1, <2>2 DEF Contract!Sound
<1>4. iteration < MaxIterations => iteration + 1 \in 0..MaxIterations
  BY <1>1
<1>5. QED
  BY <1>1, <1>2, <1>3, <1>4

LEMMA ContractInit == Init => Contract!Init
  BY DEF Init, Contract!Init, NoReport

LEMMA ContractNext == RunInv /\ EvidenceInv /\ [Next]_vars => [Contract!Next]_(Contract!vars)
<1> SUFFICES ASSUME RunInv, EvidenceInv, [Next]_vars
             PROVE  [Contract!Next]_(Contract!vars)
  OBVIOUS
<1> USE DEF Contract!vars
<1>1. CASE AnswerCall
  <2>1. PICK c \in Calls, ok \in BOOLEAN, cached \in BOOLEAN :
           LET row == [call |-> c, success |-> ok, cached |-> cached] IN
           /\ row \in LogRow
           /\ log' = Append(log, row)
           /\ cached <=> Contract!RowsOf(c, log) # {}
           /\ \A i \in Contract!RowsOf(c, log) : log[i].success = ok
           /\ toolResultCache' = [toolResultCache EXCEPT ![c] = IF ok THEN "ok" ELSE "error"]
    BY <1>1, AnswerCallEffect DEF EvidenceInv
  <2>2. pc = "tools" /\ UNCHANGED <<pc, report>>
    BY <1>1 DEF AnswerCall
  <2>3. cached = (Contract!RowsOf(c, log) # {})
    BY <2>1
  <2>4. Contract!Gather(c, ok)
    BY <2>1, <2>2, <2>3 DEF Contract!Gather
  <2>5. QED
    BY <2>4 DEF Contract!Next
<1>2. CASE pc \in {"call", "tools"} /\ pc' = "raised" /\ UNCHANGED <<log, report>>
  BY <1>2 DEF Contract!Next, Contract!Abort
<1>3. CASE pc \in {"call", "tools"} /\ pc' \in {"call", "tools"} /\ UNCHANGED <<log, report>>
  BY <1>3
<1>4. CASE /\ pc = "call" /\ pc' = "done" /\ UNCHANGED log
           /\ \/ report' = FallbackReport(iteration)
              \/ report' = FallbackReport(iteration + 1) /\ iteration < MaxIterations
              \/ \E s \in Scores, c \in Claims, i \in Claims : report' = ParsedReport(s, c, i)
  <2>1. report' \in Report /\ Contract!Sound(report', log)
    BY <1>4, ReturnedReportSound
  <2>2. Contract!Conclude
    BY <1>4, <2>1 DEF Contract!Conclude, Report
  <2>3. QED
    BY <2>2 DEF Contract!Next
<1>5. CASE UNCHANGED vars
  BY <1>5 DEF vars
<1>6. QED
  BY <1>1, <1>2, <1>3, <1>4, <1>5, StepKinds

\* Every run of the loop is a run the contract allows.
THEOREM LoopImplementsContract == Spec => ContractHolds
<1>1. QED
  BY ContractInit, ContractNext, RunInvariant, EvidenceInvariant, PTL
     DEF Spec, ContractHolds, Contract!Spec

-----------------------------------------------------------------------------
\* Whatever the model answers and however requests fail, no step of a run takes
\* it back or leaves it where it is (loop.py:280-307, 410-466).
THEOREM LoopsAdvance == Spec => LoopAdvances
<1>1. ASSUME RunInv, Next
      PROVE  /\ pc \notin {"done", "raised"}
             /\ \/ iteration' > iteration
                \/ /\ iteration' = iteration
                   /\ \/ pc' \in {"done", "raised"}
                      \/ pc = "call" /\ pc' = "tools"
                      \/ pc = "tools" /\ pc' = "tools" /\ Len(pending') < Len(pending)
                      \/ /\ pc = "call" /\ pc' = "call"
                         /\ \/ rateLimitRetries' > rateLimitRetries
                            \/ rateLimitRetries' = rateLimitRetries /\ attempt' > attempt
  <2>1. /\ iteration \in Nat /\ attempt \in Nat /\ rateLimitRetries \in Nat
        /\ pending \in Seq(Calls)
    BY <1>1, LimitsAssumption DEF RunInv, TypeOK, MaxAttempts
  <2>2. iteration + 1 > iteration /\ attempt + 1 > attempt /\ rateLimitRetries + 1 > rateLimitRetries
    BY <2>1
  <2>3. CASE LlmRetry \/ RateLimited
    BY <2>2, <2>3 DEF LlmRetry, RateLimited, GaveUp, Calling, ReturnReport, flags
  <2>4. CASE LlmFailed \/ LlmUnexpectedError \/ EmptyResponse \/ FinalAnswer \/ UnparsableAgain
    BY <2>4 DEF LlmFailed, LlmUnexpectedError, EmptyResponse, FinalAnswer, UnparsableAgain,
                GaveUp, Answered, Calling, ReturnReport
  <2>5. CASE AskForToolCalls \/ AskForCorrection \/ OtherFinish \/ TurnDone
    BY <2>2, <2>5 DEF AskForToolCalls, AskForCorrection, OtherFinish, TurnDone, Answered, Calling, GoOn
  <2>6. CASE ToolTurn \/ LogWriteFails \/ IterationsExhausted
    BY <2>6 DEF ToolTurn, LogWriteFails, IterationsExhausted, Answered, Calling, ReturnReport
  <2>7. CASE AnswerCall
    <3>1. pc = "tools" /\ pc' = "tools" /\ iteration' = iteration
          /\ pending # <<>> /\ pending' = Tail(pending)
      BY <2>7 DEF AnswerCall
    <3>2. Len(pending') < Len(pending)  BY <2>1, <3>1
    <3>3. QED  BY <3>1, <3>2
  <2>8. QED  BY <1>1, <2>3, <2>4, <2>5, <2>6, <2>7 DEF Next
<1>2. QED  BY <1>1, RunInvariant, PTL DEF Spec, LoopAdvances
=============================================================================

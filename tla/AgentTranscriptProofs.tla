------------------------ MODULE AgentTranscriptProofs ------------------------
(***************************************************************************)
(* Proofs about the transcript of AgentLoop, for any set of calls and any  *)
(* settings: which messages it holds, in what order, and how many.         *)
(***************************************************************************)
EXTENDS AgentLoopProofs, FiniteSetTheorems

\* What appending a message does to a transcript.
LEMMA MessageAppended ==
  ASSUME NEW m \in Seq(Message), NEW x \in Message
  PROVE  /\ Append(m, x) \in Seq(Message)
         /\ Len(m) \in Nat /\ Len(Append(m, x)) = Len(m) + 1
         /\ DOMAIN m = 1..Len(m) /\ DOMAIN Append(m, x) = 1..(Len(m) + 1)
         /\ \A i \in 1..Len(m) : Append(m, x)[i] = m[i] /\ m[i] \in Message
         /\ Append(m, x)[Len(m) + 1] = x
  OBVIOUS

\* The messages the loop builds are messages.
LEMMA MessagesTyped ==
  /\ \A kind \in Roles : Prompt(kind) \in Message /\ Prompt(kind).role = kind
  /\ \A calls \in Seq(Calls) : /\ Assistant(calls) \in Message
                               /\ Assistant(calls).role = "assistant"
                               /\ Assistant(calls).calls = calls
  /\ \A c \in Calls : ToolResult(c) \in Message /\ ToolResult(c).role = "tool"
<1>1. \A kind \in Roles : Prompt(kind) \in Message /\ Prompt(kind).role = kind
  BY DEF Prompt, Message
<1>2. \A calls \in Seq(Calls) : /\ Assistant(calls) \in Message
                                /\ Assistant(calls).role = "assistant"
                                /\ Assistant(calls).calls = calls
  BY DEF Assistant, Message, Roles
<1>3. \A c \in Calls : ToolResult(c) \in Message /\ ToolResult(c).role = "tool"
  BY DEF ToolResult, Message, Roles
<1>4. QED  BY <1>1, <1>2, <1>3

\* How any step treats the transcript: it answers a call, opens a turn, sends
\* a prompt, or leaves the transcript alone.
Sends(kind) == pc = "call" /\ pc' = "call" /\ messages' = Append(messages, Prompt(kind))

Opens == /\ pc = "call" /\ pc' = "tools" /\ pending' \in Seq(Calls)
         /\ messages' = Append(messages, Assistant(pending'))

Quiet == /\ UNCHANGED messages /\ pc' # "tools"
         /\ pc' = "call" => pc = "call" \/ (pc = "tools" /\ pending = <<>>)

SameFlags == UNCHANGED <<toolCallsMade, correctionSent, toolCollectionPromptSent>>

LEMMA MessageSteps ==
  ASSUME Next
  PROVE  \/ AnswerCall
         \/ Opens /\ SameFlags
         \/ AskForToolCalls /\ Sends("collect")
         \/ AskForCorrection /\ Sends("correct")
         \/ Sends("truncate") /\ SameFlags
         \/ Quiet /\ SameFlags
<1> USE DEF Answered, GaveUp, Calling, evidence, flags, SameFlags
<1>1. CASE LlmRetry \/ RateLimited \/ LlmFailed \/ LlmUnexpectedError \/ EmptyResponse
  BY <1>1 DEF LlmRetry, RateLimited, LlmFailed, LlmUnexpectedError, EmptyResponse, Quiet,
              ReturnReport
<1>2. CASE FinalAnswer \/ UnparsableAgain \/ IterationsExhausted
  BY <1>2 DEF FinalAnswer, UnparsableAgain, IterationsExhausted, Quiet, ReturnReport
<1>3. CASE AskForToolCalls \/ AskForCorrection
  BY <1>3 DEF AskForToolCalls, AskForCorrection, Sends, GoOn
<1>4. CASE ToolTurn
  <2>1. PICK calls \in TurnCalls : pending' = calls /\ messages' = Append(messages, Assistant(calls))
    BY <1>4 DEF ToolTurn
  <2>2. Opens
    BY <1>4, <2>1, TurnCallsAreSequences DEF ToolTurn, Opens
  <2>3. SameFlags
    BY <1>4 DEF ToolTurn
  <2>4. QED  BY <2>2, <2>3
<1>5. CASE TurnDone \/ LogWriteFails
  BY <1>5 DEF TurnDone, LogWriteFails, Quiet, GoOn
<1>6. CASE OtherFinish
  BY <1>6 DEF OtherFinish, Quiet, Sends, GoOn
<1>7. QED
  BY <1>1, <1>2, <1>3, <1>4, <1>5, <1>6 DEF Next

\* What the step that answers a call does to transcript and count.
LEMMA AnswerAppended ==
  ASSUME RunInv, AnswerCall
  PROVE  /\ pc = "tools" /\ pc' = "tools" /\ pending # <<>>
         /\ Head(pending) \in Calls /\ pending' = Tail(pending)
         /\ messages' = Append(messages, ToolResult(Head(pending)))
         /\ toolCallsMade' = toolCallsMade + 1
         /\ UNCHANGED <<correctionSent, toolCollectionPromptSent>>
  BY DEF AnswerCall, RunInv, TypeOK, flags

-----------------------------------------------------------------------------
(***************************************************************************)
(* The prompts.  The two flags and the count of answered calls say which   *)
(* roles the transcript has none of yet.                                   *)
(***************************************************************************)
None(role) == \A i \in DOMAIN messages : messages[i].role # role

PromptInv ==
  /\ ~correctionSent => None("correct")
  /\ ~toolCollectionPromptSent => None("collect")
  /\ toolCallsMade = 0 => None("tool")
  /\ PromptsSentOnce

\* A message that is no prompt of the two and no answer changes nothing.
LEMMA OtherMessage ==
  ASSUME RunInv, PromptInv, SameFlags,
         NEW x \in Message, x.role \notin {"collect", "correct", "tool"},
         messages' = Append(messages, x)
  PROVE  PromptInv'
<1>1. messages \in Seq(Message)  BY DEF RunInv, TypeOK
<1> DEFINE last == Len(messages) + 1
<1>2. /\ DOMAIN messages' = 1..last /\ DOMAIN messages = 1..Len(messages)
      /\ Len(messages) \in Nat /\ messages'[last] = x
      /\ \A i \in 1..Len(messages) : messages'[i] = messages[i]
  BY <1>1, MessageAppended
<1>3. \A i \in 1..last : messages'[i].role \in {"collect", "correct", "tool"} =>
        i \in DOMAIN messages /\ messages'[i] = messages[i]
  BY <1>2
<1>4. \A role \in {"collect", "correct", "tool"} : None(role) => None(role)'
  BY <1>2, <1>3 DEF None
<1>5. PromptsSentOnce'
  BY <1>2, <1>3 DEF PromptInv, PromptsSentOnce
<1>6. QED
  BY <1>4, <1>5 DEF PromptInv, SameFlags

LEMMA PromptInvNext == RunInv /\ PromptInv /\ [Next]_vars => PromptInv'
<1> SUFFICES ASSUME RunInv, PromptInv, [Next]_vars PROVE PromptInv'
  OBVIOUS
<1>1. messages \in Seq(Message) /\ toolCallsMade \in Nat
  BY DEF RunInv, TypeOK
<1> DEFINE last == Len(messages) + 1
<1>2. ASSUME NEW x \in Message, messages' = Append(messages, x)
      PROVE  /\ DOMAIN messages' = 1..last /\ DOMAIN messages = 1..Len(messages)
             /\ Len(messages) \in Nat /\ messages'[last] = x
             /\ \A i \in 1..Len(messages) : messages'[i] = messages[i]
             /\ \A role : None(role) /\ x.role # role => None(role)'
  BY <1>1, <1>2, MessageAppended DEF None
<1>3. CASE AnswerCall
  <2>1. ToolResult(Head(pending)) \in Message /\ ToolResult(Head(pending)).role = "tool"
    BY <1>3, AnswerAppended, MessagesTyped
  <2>2. messages' = Append(messages, ToolResult(Head(pending)))
    BY <1>3, AnswerAppended
  <2>3. toolCallsMade' # 0 /\ UNCHANGED <<correctionSent, toolCollectionPromptSent>>
    BY <1>1, <1>3, AnswerAppended
  <2>4. None("correct") => None("correct")'
    BY <1>2, <2>1, <2>2
  <2>5. None("collect") => None("collect")'
    BY <1>2, <2>1, <2>2
  <2>6. PromptsSentOnce'
    <3>1. \A i \in DOMAIN messages' : messages'[i].role \in {"collect", "correct"} =>
            i \in DOMAIN messages /\ messages'[i] = messages[i] /\ i < last
      BY <1>2, <2>1, <2>2
    <3>2. \A i \in DOMAIN messages' : \/ i \in DOMAIN messages /\ messages'[i] = messages[i]
                                      \/ i = last
      BY <1>2, <2>1, <2>2
    <3>3. QED
      BY <3>1, <3>2 DEF PromptInv, PromptsSentOnce
  <2>7. QED  BY <2>3, <2>4, <2>5, <2>6 DEF PromptInv
<1>4. CASE Opens /\ SameFlags
  BY <1>4, OtherMessage, MessagesTyped DEF Opens
<1>5. CASE Sends("truncate") /\ SameFlags
  BY <1>5, OtherMessage, MessagesTyped DEF Sends, Roles
<1>6. CASE AskForToolCalls /\ Sends("collect")
  <2>1. /\ toolCallsMade = 0 /\ UNCHANGED <<correctionSent, toolCallsMade>>
        /\ ~toolCollectionPromptSent /\ toolCollectionPromptSent'
    BY <1>6 DEF AskForToolCalls, evidence
  <2>2. /\ messages' = Append(messages, Prompt("collect"))
        /\ Prompt("collect") \in Message /\ Prompt("collect").role = "collect"
    BY <1>6, MessagesTyped DEF Sends, Roles
  <2>3. None("collect") /\ None("tool")
    BY <2>1 DEF PromptInv
  <2>4. /\ None("correct") => None("correct")'
        /\ None("tool")'
    BY <1>2, <2>2, <2>3
  <2>5. PromptsSentOnce'
    <3>1. \A i \in DOMAIN messages' : \/ i \in DOMAIN messages /\ messages'[i] = messages[i]
                                      \/ i = last /\ messages'[i].role = "collect"
      BY <1>2, <2>2
    <3>2. \A i \in DOMAIN messages : messages[i].role \notin {"collect", "tool"}
      BY <2>3 DEF None
    <3>3. QED
      BY <3>1, <3>2 DEF PromptInv, PromptsSentOnce
  <2>6. QED  BY <2>1, <2>4, <2>5 DEF PromptInv
<1>7. CASE AskForCorrection /\ Sends("correct")
  <2>1. /\ UNCHANGED <<toolCollectionPromptSent, toolCallsMade>>
        /\ ~correctionSent /\ correctionSent'
    BY <1>7 DEF AskForCorrection, evidence
  <2>2. /\ messages' = Append(messages, Prompt("correct"))
        /\ Prompt("correct") \in Message /\ Prompt("correct").role = "correct"
    BY <1>7, MessagesTyped DEF Sends, Roles
  <2>3. None("correct")
    BY <2>1 DEF PromptInv
  <2>4. /\ None("collect") => None("collect")'
        /\ None("tool") => None("tool")'
    BY <1>2, <2>2
  <2>5. PromptsSentOnce'
    <3>1. \A i \in DOMAIN messages' : \/ i \in DOMAIN messages /\ messages'[i] = messages[i]
                                      \/ i = last /\ messages'[i].role = "correct"
      BY <1>2, <2>2
    <3>2. \A i \in DOMAIN messages : messages[i].role # "correct"
      BY <2>3 DEF None
    <3>3. QED
      BY <3>1, <3>2 DEF PromptInv, PromptsSentOnce
  <2>6. QED  BY <2>1, <2>4, <2>5 DEF PromptInv
<1>8. CASE (Quiet /\ SameFlags) \/ UNCHANGED vars
  BY <1>8 DEF Quiet, SameFlags, vars, PromptInv, None, PromptsSentOnce
<1>9. QED
  BY <1>3, <1>4, <1>5, <1>6, <1>7, <1>8, MessageSteps

\* A transcript has each of the two parse-retry prompts at most once, and none
\* that asks for tool collection after the answer of a tool.
THEOREM PromptsAreSentOnce == Spec => []PromptsSentOnce
<1>1. Init => PromptInv
  <2> SUFFICES ASSUME Init PROVE PromptInv  OBVIOUS
  <2>1. \A i \in DOMAIN messages : messages[i].role \in {"system", "user"}
    BY DEF Init, Prompt
  <2>2. QED  BY <2>1 DEF PromptInv, None, PromptsSentOnce
<1>2. PromptInv => PromptsSentOnce  BY DEF PromptInv
<1>3. QED  BY <1>1, <1>2, PromptInvNext, RunInvariant, PTL DEF Spec

-----------------------------------------------------------------------------
(***************************************************************************)
(* The evidence in the transcript: as many tool messages as calls counted. *)
(***************************************************************************)
Answers == {i \in DOMAIN messages : messages[i].role = "tool"}

Counted == IsFiniteSet(Answers) /\ Cardinality(Answers) = toolCallsMade

LEMMA CountedNext == RunInv /\ Counted /\ [Next]_vars => Counted'
<1> SUFFICES ASSUME RunInv, Counted, [Next]_vars PROVE Counted'
  OBVIOUS
<1>1. messages \in Seq(Message)  BY DEF RunInv, TypeOK
<1> DEFINE last == Len(messages) + 1
<1>2. ASSUME NEW x \in Message, messages' = Append(messages, x)
      PROVE  Answers' = (IF x.role = "tool" THEN Answers \cup {last} ELSE Answers)
             /\ last \notin Answers
  <2>1. /\ DOMAIN messages' = DOMAIN messages \cup {last} /\ last \notin DOMAIN messages
        /\ messages'[last] = x /\ \A i \in DOMAIN messages : messages'[i] = messages[i]
    BY <1>1, <1>2, MessageAppended
  <2>2. QED  BY <2>1 DEF Answers
<1>3. CASE AnswerCall
  <2>1. /\ messages' = Append(messages, ToolResult(Head(pending)))
        /\ ToolResult(Head(pending)) \in Message /\ ToolResult(Head(pending)).role = "tool"
        /\ toolCallsMade' = toolCallsMade + 1
    BY <1>3, AnswerAppended, MessagesTyped
  <2>2. Answers' = Answers \cup {last} /\ last \notin Answers
    BY <1>2, <2>1
  <2>3. /\ IsFiniteSet(Answers \cup {last})
        /\ Cardinality(Answers \cup {last}) = Cardinality(Answers) + 1
    BY <2>2, FS_AddElement DEF Counted
  <2>4. QED  BY <2>1, <2>2, <2>3 DEF Counted
<1>4. ASSUME NEW x \in Message, x.role # "tool", messages' = Append(messages, x),
             UNCHANGED toolCallsMade
      PROVE  Counted'
  <2>1. Answers' = Answers  BY <1>2, <1>4
  <2>2. QED  BY <1>4, <2>1 DEF Counted
<1>5. CASE Opens /\ SameFlags
  BY <1>4, <1>5, MessagesTyped DEF Opens, SameFlags
<1>6. CASE \E kind \in {"collect", "correct", "truncate"} : Sends(kind) /\ UNCHANGED toolCallsMade
  BY <1>4, <1>6, MessagesTyped DEF Sends, Roles
<1>7. CASE (Quiet /\ SameFlags) \/ UNCHANGED vars
  BY <1>7 DEF Quiet, SameFlags, vars, Counted, Answers
<1>8. QED
  <2>1. (AskForToolCalls \/ AskForCorrection) => UNCHANGED toolCallsMade
    BY DEF AskForToolCalls, AskForCorrection, evidence
  <2>2. QED
    BY <1>3, <1>5, <1>6, <1>7, <2>1, MessageSteps DEF SameFlags

\* However often a call is repeated, the counted calls, the logged rows and the
\* tool messages the model has been shown are the same in number.
THEOREM EvidenceIsAccounted == Spec => []EvidenceAccounted
<1>1. Init => Counted
  <2> SUFFICES ASSUME Init PROVE Counted  OBVIOUS
  <2>1. Answers = {}
    BY DEF Init, Prompt, Answers
  <2>2. QED  BY <2>1, FS_EmptySet DEF Init, Counted
<1>2. EvidenceInv /\ Counted => EvidenceAccounted
  BY DEF EvidenceInv, Counted, EvidenceAccounted, Answers
<1>3. QED
  BY <1>1, <1>2, CountedNext, RunInvariant, EvidenceInvariant, PTL DEF Spec

-----------------------------------------------------------------------------
(***************************************************************************)
(* The chat-completion protocol.  While a turn is open one assistant       *)
(* message is partly answered: what is pending is the rest of its calls.   *)
(* Every other one has all its answers.                                    *)
(***************************************************************************)
Complete(i) == messages[i].role = "assistant" => i + Len(messages[i].calls) <= Len(messages)

OpenTurn(a) ==
  /\ messages[a].role = "assistant"
  /\ Len(messages) + Len(pending) = a + Len(messages[a].calls)
  /\ \A j \in 1..Len(pending) : pending[j] = messages[a].calls[Len(messages) - a + j]

TurnInv ==
  pc = "tools" => \E a \in DOMAIN messages :
                    OpenTurn(a) /\ \A i \in DOMAIN messages \ {a} : Complete(i)

\* What TranscriptAnswered says of one message.
AnswersOf(i) == messages[i].role = "assistant" => Follows(i, messages, messages[i].calls)

AnsweredBy(i) ==
  messages[i].role = "tool" =>
    \E a \in 1..(i - 1) : messages[a].role = "assistant" /\ i - a <= Len(messages[a].calls)

ProtocolInv ==
  /\ \A i \in DOMAIN messages : AnswersOf(i) /\ AnsweredBy(i)
  /\ pc = "call" => \A i \in DOMAIN messages : Complete(i)
  /\ TurnInv

\* A message whose turn is complete, and the answers there are, stay as they
\* are when the transcript grows.
LEMMA OldMessagesKept ==
  ASSUME RunInv, NEW x \in Message, messages' = Append(messages, x),
         NEW i \in DOMAIN messages
  PROVE  /\ AnsweredBy(i) => AnsweredBy(i)'
         /\ Complete(i) => Complete(i)'
         /\ AnswersOf(i) /\ Complete(i) => AnswersOf(i)'
<1>1. /\ DOMAIN messages = 1..Len(messages) /\ Len(messages) \in Nat
      /\ Len(messages') = Len(messages) + 1
      /\ \A k \in 1..Len(messages) : messages'[k] = messages[k] /\ messages[k] \in Message
  BY MessageAppended DEF RunInv, TypeOK
<1>2. Len(messages[i].calls) \in Nat
  BY <1>1 DEF Message
<1>3. AnsweredBy(i) => AnsweredBy(i)'
  BY <1>1 DEF AnsweredBy
<1>4. Complete(i) => Complete(i)'
  BY <1>1, <1>2 DEF Complete
<1>5. ASSUME AnswersOf(i), Complete(i), messages[i].role = "assistant",
             NEW j \in 1..Len(messages[i].calls)
      PROVE  messages'[i + j] = ToolResult(messages[i].calls[j])
  <2>1. i + j \in 1..Len(messages)
    BY <1>1, <1>2, <1>5 DEF Complete
  <2>2. messages[i + j] = ToolResult(messages[i].calls[j])
    BY <1>5, <2>1 DEF AnswersOf, Follows
  <2>3. QED  BY <1>1, <2>1, <2>2
<1>6. AnswersOf(i) /\ Complete(i) => AnswersOf(i)'
  BY <1>1, <1>5 DEF AnswersOf, Follows
<1>7. QED  BY <1>3, <1>4, <1>6

LEMMA ProtocolNext == RunInv /\ ProtocolInv /\ [Next]_vars => ProtocolInv'
<1> SUFFICES ASSUME RunInv, ProtocolInv, [Next]_vars PROVE ProtocolInv'
  OBVIOUS
<1>0. PICK n \in Nat : n = Len(messages)
  BY DEF RunInv, TypeOK
<1>1. messages \in Seq(Message) /\ pending \in Seq(Calls) /\ Len(pending) \in Nat
      /\ n = Len(messages) /\ DOMAIN messages = 1..n
  BY <1>0 DEF RunInv, TypeOK
<1>2. ASSUME NEW x \in Message, messages' = Append(messages, x)
      PROVE  /\ DOMAIN messages' = DOMAIN messages \cup {n + 1} /\ Len(messages') = n + 1
             /\ messages'[n + 1] = x
             /\ \A i \in DOMAIN messages : messages'[i] = messages[i]
  BY <1>1, <1>2, MessageAppended
<1>3. CASE \E kind \in {"collect", "correct", "truncate"} : Sends(kind)
  <2>1. PICK kind \in {"collect", "correct", "truncate"} : Sends(kind)
    BY <1>3
  <2>2. /\ Prompt(kind) \in Message /\ Prompt(kind).role \notin {"assistant", "tool"}
        /\ messages' = Append(messages, Prompt(kind)) /\ pc = "call" /\ pc' = "call"
    BY <2>1, MessagesTyped DEF Sends, Roles
  <2>3. \A i \in DOMAIN messages : (AnswersOf(i) /\ AnsweredBy(i) /\ Complete(i))'
    BY <2>2, OldMessagesKept DEF ProtocolInv
  <2>4. (AnswersOf(n + 1) /\ AnsweredBy(n + 1) /\ Complete(n + 1))'
    BY <1>2, <2>2 DEF AnswersOf, AnsweredBy, Complete
  <2>5. QED
    BY <1>2, <2>2, <2>3, <2>4 DEF ProtocolInv, TurnInv
<1>4. CASE Opens
  <2>1. /\ pending' \in Seq(Calls) /\ Assistant(pending') \in Message
        /\ Assistant(pending').role = "assistant" /\ Assistant(pending').calls = pending'
        /\ messages' = Append(messages, Assistant(pending')) /\ pc = "call" /\ pc' = "tools"
    BY <1>4, MessagesTyped DEF Opens
  <2>2. /\ DOMAIN messages' = DOMAIN messages \cup {n + 1} /\ Len(messages') = n + 1
        /\ messages'[n + 1].role = "assistant" /\ messages'[n + 1].calls = pending'
    BY <1>2, <2>1
  <2>3. \A i \in DOMAIN messages : (AnswersOf(i) /\ AnsweredBy(i) /\ Complete(i))'
    BY <2>1, OldMessagesKept DEF ProtocolInv
  <2>4. AnswersOf(n + 1)' /\ AnsweredBy(n + 1)'
    <3>1. \A j \in 1..Len(pending') : ~(n + 1 + j <= n + 1)
      BY <1>1, <2>1
    <3>2. QED  BY <2>2, <3>1 DEF AnswersOf, Follows, AnsweredBy
  <2>5. OpenTurn(n + 1)'
    BY <1>1, <2>1, <2>2 DEF OpenTurn
  <2>6. QED
    BY <2>1, <2>2, <2>3, <2>4, <2>5 DEF ProtocolInv, TurnInv
<1>5. CASE AnswerCall
  <2>1. /\ pc = "tools" /\ pc' = "tools" /\ pending # <<>> /\ pending' = Tail(pending)
        /\ Head(pending) \in Calls
        /\ messages' = Append(messages, ToolResult(Head(pending)))
        /\ ToolResult(Head(pending)) \in Message /\ ToolResult(Head(pending)).role = "tool"
    BY <1>5, AnswerAppended, MessagesTyped
  <2>2. PICK a \in DOMAIN messages :
           OpenTurn(a) /\ \A i \in DOMAIN messages \ {a} : Complete(i)
    BY <2>1 DEF ProtocolInv, TurnInv
  <2>c. PICK calls \in Seq(Calls) : calls = messages[a].calls
    <3>1. messages[a] \in Message  BY <1>1, <2>2
    <3>2. QED  BY <3>1 DEF Message
  <2>3. /\ calls = messages[a].calls /\ Len(calls) \in Nat /\ n \in Nat
        /\ messages[a].role = "assistant"
        /\ n + Len(pending) = a + Len(calls) /\ a \in 1..n
        /\ \A j \in 1..Len(pending) : pending[j] = calls[n - a + j]
    BY <1>1, <2>2, <2>c DEF OpenTurn
  <2>4. /\ Len(pending) >= 1 /\ Head(pending) = pending[1]
        /\ Len(pending') = Len(pending) - 1
        /\ \A j \in 1..Len(pending') : pending'[j] = pending[j + 1]
    BY <1>1, <2>1
  <2>5. /\ DOMAIN messages' = DOMAIN messages \cup {n + 1} /\ Len(messages') = n + 1
        /\ messages'[n + 1] = ToolResult(Head(pending))
        /\ \A i \in DOMAIN messages : messages'[i] = messages[i]
    BY <1>2, <2>1
  <2>6. \A i \in DOMAIN messages : AnsweredBy(i)'
    BY <2>1, OldMessagesKept DEF ProtocolInv
  <2>7. \A i \in DOMAIN messages \ {a} : AnswersOf(i)' /\ Complete(i)'
    BY <2>1, <2>2, OldMessagesKept DEF ProtocolInv
  <2>8. AnswersOf(a)'
    <3>1. SUFFICES ASSUME NEW j \in 1..Len(calls), a + j <= n + 1
                   PROVE  messages'[a + j] = ToolResult(calls[j])
      BY <2>3, <2>5 DEF AnswersOf, Follows
    <3>0. a \in Nat /\ j \in Nat /\ j >= 1 /\ n \in Nat  BY <1>1, <2>3
    <3>2. CASE a + j = n + 1
      <4>1. j = n - a + 1  BY <3>0, <3>2
      <4>2. pending[1] = calls[j]
        BY <2>3, <2>4, <4>1
      <4>3. QED  BY <2>4, <2>5, <3>2, <4>2
    <3>3. CASE a + j # n + 1
      <4>1. a + j \in 1..n  BY <3>0, <3>1, <3>3
      <4>2. messages[a + j] = ToolResult(calls[j])
        BY <1>1, <2>3, <4>1 DEF ProtocolInv, AnswersOf, Follows
      <4>3. QED  BY <1>1, <2>5, <4>1, <4>2
    <3>4. QED  BY <3>2, <3>3
  <2>9. AnswersOf(n + 1)' /\ AnsweredBy(n + 1)' /\ Complete(n + 1)'
    <3>1. a \in 1..(n + 1 - 1) /\ n + 1 - a <= Len(calls)
      BY <1>1, <2>3, <2>4
    <3>2. messages'[a].role = "assistant" /\ messages'[a].calls = calls
      BY <2>3, <2>5
    <3>3. messages'[n + 1].role = "tool"
      BY <2>1, <2>5
    <3>4. QED
      BY <3>1, <3>2, <3>3 DEF AnswersOf, AnsweredBy, Complete
  <2>10. OpenTurn(a)'
    <3>1. messages'[a].role = "assistant" /\ messages'[a].calls = calls
      BY <2>3, <2>5
    <3>2. n + 1 + Len(pending') = a + Len(calls)
      BY <1>1, <2>3, <2>4
    <3>3. ASSUME NEW j \in 1..Len(pending')
          PROVE  pending'[j] = calls[n + 1 - a + j]
      <4>1. j + 1 \in 1..Len(pending) /\ n - a + (j + 1) = n + 1 - a + j
        BY <1>1, <2>3, <2>4
      <4>2. QED  BY <2>3, <2>4, <4>1
    <3>4. QED  BY <2>5, <3>1, <3>2, <3>3 DEF OpenTurn
  <2>11. \A i \in DOMAIN messages' \ {a} : Complete(i)'
    BY <2>5, <2>7, <2>9
  <2>12. TurnInv'
    BY <2>2, <2>5, <2>10, <2>11 DEF TurnInv
  <2>13. QED
    BY <2>1, <2>5, <2>6, <2>7, <2>8, <2>9, <2>12 DEF ProtocolInv
<1>6. CASE Quiet
  <2>1. /\ UNCHANGED messages /\ pc' # "tools"
        /\ \A i : (AnswersOf(i)' <=> AnswersOf(i)) /\ (AnsweredBy(i)' <=> AnsweredBy(i))
                  /\ (Complete(i)' <=> Complete(i))
    BY <1>6 DEF Quiet, AnswersOf, AnsweredBy, Complete
  <2>2. ASSUME pc = "tools", pending = <<>>, NEW i \in DOMAIN messages
        PROVE  Complete(i)
    <3>1. PICK a \in DOMAIN messages :
             OpenTurn(a) /\ \A k \in DOMAIN messages \ {a} : Complete(k)
      BY <2>2 DEF ProtocolInv, TurnInv
    <3>2. Complete(a)
      <4>1. a + Len(messages[a].calls) = n + 0
        BY <1>1, <2>2, <3>1 DEF OpenTurn
      <4>2. QED  BY <1>1, <4>1 DEF Complete
    <3>3. QED  BY <3>1, <3>2
  <2>3. pc' = "call" => \A i \in DOMAIN messages : Complete(i)
    BY <1>6, <2>2 DEF Quiet, ProtocolInv
  <2>4. QED
    BY <2>1, <2>3 DEF ProtocolInv, TurnInv
<1>7. CASE UNCHANGED vars
  BY <1>7 DEF vars, ProtocolInv, TurnInv, AnswersOf, AnsweredBy, Complete, OpenTurn
<1>8. QED
  BY <1>3, <1>4, <1>5, <1>6, <1>7, MessageSteps

\* Whatever the model asks for, in however many turns, the answers of a turn
\* follow its assistant message in the order of the calls, all of them before
\* the next request, and no answer is without its call.
THEOREM TranscriptIsAnswered == Spec => []TranscriptAnswered
<1>1. Init => ProtocolInv
  <2> SUFFICES ASSUME Init PROVE ProtocolInv  OBVIOUS
  <2>1. /\ pc = "call"
        /\ \A i \in DOMAIN messages : messages[i].role \in {"system", "user"}
    BY DEF Init, Prompt
  <2>2. QED
    BY <2>1 DEF ProtocolInv, TurnInv, AnswersOf, AnsweredBy, Complete
<1>2. ProtocolInv => TranscriptAnswered
  BY DEF ProtocolInv, AnswersOf, AnsweredBy, Complete, TranscriptAnswered
<1>3. QED  BY <1>1, <1>2, ProtocolNext, RunInvariant, PTL DEF Spec
=============================================================================

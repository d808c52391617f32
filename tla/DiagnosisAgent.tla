-------------------------- MODULE DiagnosisAgent --------------------------
(***************************************************************************)
(* The tool-calling loop of internal/agent/diagnosis_agent.go: one Run of  *)
(* the DiagnosisAgent, from the first request to its Outcome.              *)
(*                                                                         *)
(* The provider answers with tool calls, with a final text that is or is   *)
(* not a complete RCA, with no choices, or with an error, after the        *)
(* retries of its own that OpenAIClient.Complete leaves to the SDK.        *)
(* Content is abstracted away; the conversation keeps who said what and    *)
(* which tool call a result answers.                                       *)
(***************************************************************************)
EXTENDS Integers, Sequences, FiniteSets

CONSTANTS
    MaxIter,   \* the agent's MaxIter, from the CR or the operator
    MaxTools,  \* bound on the tool calls of one reply
    MaxUsage   \* bound on the tokens reported by one reply

ASSUME AgentAssumption ==
    /\ MaxIter \in Int
    /\ MaxTools \in Nat \ {0}
    /\ MaxUsage \in Nat \ {0}

VARIABLES
    pc,        \* "ask", "tools", "repair" or "end"
    i,         \* iterations completed
    messages,  \* the conversation after the system prompt and the context
    pending,   \* tool calls of the last reply not executed yet
    trace,     \* tool calls recorded for the outcome
    tokens,    \* totalTokens
    outcome,   \* the Outcome's phase, "None" while running
    rca,       \* whether the Outcome carries an RCA
    requests,  \* requests the provider received
    billed     \* tokens the provider reported, request by request

agentVars == <<pc, i, messages, pending, trace, tokens, outcome, rca, requests,
               billed>>

-----------------------------------------------------------------------------
(* Building blocks *)

\* An unset, zero or negative MaxIter falls back to 5.
EffectiveMaxIter == IF MaxIter <= 0 THEN 5 ELSE MaxIter

Assistant(calls) == [role |-> "assistant", calls |-> calls]

ToolResult(id) == [role |-> "tool", answers |-> id]

\* The calls of reply n are numbered.
Calls(n, count) == [j \in 1..count |-> <<n, j>>]

\* parseRCA accepts a text that decodes and has a summary and a root cause.
Texts == {"rca", "incomplete", "invalid"}

ParseRCA(text) == text = "rca"

\* Run returns.
Return(phase, hasRCA) ==
    /\ pc' = "end"
    /\ outcome' = phase
    /\ rca' = hasRCA

Answered(usage) ==
    /\ requests' = requests + 1
    /\ billed' = Append(billed, usage)
    /\ tokens' = tokens + usage

-----------------------------------------------------------------------------
(* The loop *)

\* The provider fails, after the SDK's retries: nothing is billed.
ProviderError ==
    /\ pc = "ask"
    /\ requests' = requests + 1
    /\ Return("Failed", FALSE)
    /\ UNCHANGED <<i, messages, pending, trace, tokens, billed>>

NoChoices(usage) ==
    /\ pc = "ask"
    /\ Answered(usage)
    /\ Return("Failed", FALSE)
    /\ UNCHANGED <<i, messages, pending, trace>>

\* A reply without tool calls is the final one: it parses, or one repair is
\* tried.
FinalReply(usage, text) ==
    /\ pc = "ask"
    /\ Answered(usage)
    /\ messages' = Append(messages, Assistant(<<>>))
    /\ \/ ParseRCA(text) /\ Return("Done", TRUE)
       \/ ~ParseRCA(text) /\ pc' = "repair" /\ UNCHANGED <<outcome, rca>>
    /\ UNCHANGED <<i, pending, trace>>

ToolReply(usage, count) ==
    /\ pc = "ask"
    /\ Answered(usage)
    /\ messages' = Append(messages, Assistant(Calls(i + 1, count)))
    /\ pending' = Calls(i + 1, count)
    /\ pc' = "tools"
    /\ UNCHANGED <<i, trace, outcome, rca>>

\* Mutant: a tool that fails is traced but not answered.
CallToolUnanswered ==
    /\ pc = "tools"
    /\ pending # <<>>
    /\ trace' = Append(trace, Head(pending))
    /\ pending' = Tail(pending)
    /\ UNCHANGED <<pc, i, messages, tokens, outcome, rca, requests, billed>>

\* callTool never fails the run: an error becomes the result's text.
CallTool ==
    /\ pc = "tools"
    /\ pending # <<>>
    /\ trace' = Append(trace, Head(pending))
    /\ messages' = Append(messages, ToolResult(Head(pending)))
    /\ pending' = Tail(pending)
    /\ UNCHANGED <<pc, i, tokens, outcome, rca, requests, billed>>

\* Mutant: one iteration too many.
IterateOnceMore ==
    /\ pc = "tools"
    /\ pending = <<>>
    /\ i' = i + 1
    /\ \/ i + 1 <= EffectiveMaxIter /\ pc' = "ask" /\ UNCHANGED <<outcome, rca>>
       \/ i + 1 > EffectiveMaxIter /\ Return("Partial", FALSE)
    /\ UNCHANGED <<messages, pending, trace, tokens, requests, billed>>

\* The next iteration, or the end of the loop.
Iterate ==
    /\ pc = "tools"
    /\ pending = <<>>
    /\ i' = i + 1
    /\ \/ i + 1 < EffectiveMaxIter /\ pc' = "ask" /\ UNCHANGED <<outcome, rca>>
       \/ i + 1 >= EffectiveMaxIter /\ Return("Partial", FALSE)
    /\ UNCHANGED <<messages, pending, trace, tokens, requests, billed>>

\* Mutant: a failed repair fails the diagnosis.
RepairFailsRun ==
    /\ pc = "repair"
    /\ requests' = requests + 1
    /\ Return("Failed", FALSE)
    /\ UNCHANGED <<i, messages, pending, trace, tokens, billed>>

\* repairRCA: one more request, without tools.
RepairFails ==
    /\ pc = "repair"
    /\ requests' = requests + 1
    /\ Return("Partial", FALSE)
    /\ UNCHANGED <<i, messages, pending, trace, tokens, billed>>

Repair(usage, text) ==
    /\ pc = "repair"
    /\ Answered(usage)
    /\ \/ ParseRCA(text) /\ Return("Done", TRUE)
       \/ ~ParseRCA(text) /\ Return("Partial", FALSE)
    /\ UNCHANGED <<i, messages, pending, trace>>

-----------------------------------------------------------------------------
(* A run *)

AgentInit ==
    /\ pc = "ask"
    /\ i = 0
    /\ messages = <<>>
    /\ pending = <<>>
    /\ trace = <<>>
    /\ tokens = 0
    /\ outcome = "None"
    /\ rca = FALSE
    /\ requests = 0
    /\ billed = <<>>

AgentStep ==
    \/ ProviderError
    \/ \E u \in 0..MaxUsage :
          \/ NoChoices(u)
          \/ \E text \in Texts : FinalReply(u, text) \/ Repair(u, text)
          \/ \E n \in 1..MaxTools : ToolReply(u, n)
    \/ CallTool
    \/ Iterate
    \/ RepairFails

-----------------------------------------------------------------------------
(* Properties *)

\* Every variable holds a value of its type.
AgentTypeOK ==
    /\ pc \in {"ask", "tools", "repair", "end"}
    /\ i \in 0..EffectiveMaxIter
    /\ tokens \in Nat /\ requests \in Nat
    /\ outcome \in {"None", "Done", "Partial", "Failed"}
    /\ rca \in BOOLEAN
    /\ billed \in Seq(0..MaxUsage)

\* Tool results among the first n messages.
Results(n) == Cardinality({m \in 1..n : messages[m].role = "tool"})

\* What the chat-completions API demands of a request: whenever one is about
\* to be sent, each assistant message is followed by the results of all of
\* its tool calls, in order, before the next assistant message; the trace
\* kept for the operator lists exactly those calls (133-150): its k-th entry
\* is the call the k-th result answers.
ConversationIsClosed ==
    pc \in {"ask", "repair", "end"} =>
        /\ \A n \in 1..Len(messages) :
              messages[n].role = "assistant" =>
                  \A j \in 1..Len(messages[n].calls) :
                      /\ n + j <= Len(messages)
                      /\ messages[n + j] = ToolResult(messages[n].calls[j])
        /\ Len(trace) = Results(Len(messages))
        /\ \A n \in 1..Len(messages) :
              messages[n].role = "tool" => trace[Results(n)] = messages[n].answers

TotalOf(s) ==
    LET sum[n \in 0..Len(s)] == IF n = 0 THEN 0 ELSE sum[n - 1] + s[n]
    IN  sum[Len(s)]

\* The cost of a diagnosis is bounded and fully reported: at most one request
\* per iteration and one repair, and the outcome's TokensUsed is the sum of
\* what the provider reported, the repair's share included.
CostIsBounded ==
    /\ requests <= EffectiveMaxIter + 1
    /\ tokens = TotalOf(billed)

\* The documented meaning of the phases (55-57): Done carries an RCA and the
\* others do not; Partial means that the model did respond; Failed is never
\* reached once a repair was asked for, so a diagnosis the model answered is
\* kept (only Done and Partial are persisted by the reconciler).
OutcomeMeans ==
    /\ rca <=> outcome = "Done"
    /\ outcome = "Partial" => \E n \in 1..Len(messages) :
                                  messages[n].role = "assistant"
    /\ outcome = "Failed" => \A n \in 1..Len(messages) :
                                  messages[n].role = "assistant" =>
                                      messages[n].calls # <<>>

=============================================================================

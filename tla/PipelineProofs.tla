-------------------------- MODULE PipelineProofs --------------------------
(***************************************************************************)
(* TLAPS proofs about one diagnosis (Pipeline): the context that nothing   *)
(* is silently missing from, the conversation, cost and outcome of its     *)
(* agent, the turns of the channels that announce it, and why it comes to  *)
(* its end; for any number of pods, MaxIter, tool calls per reply, usage   *)
(* and Budget.                                                             *)
(***************************************************************************)
EXTENDS Pipeline, Induction, FiniteSetTheorems

-----------------------------------------------------------------------------
(* Sums *)

\* TotalOf is what a loop adding up the sequence computes.
LEMMA TotalIsALoop ==
  ASSUME NEW s \in Seq(Nat)
  PROVE  \E f \in [0..Len(s) -> Nat] :
            /\ f[0] = 0
            /\ \A k \in 1..Len(s) : f[k] = f[k - 1] + s[k]
            /\ TotalOf(s) = f[Len(s)]
  <1> DEFINE F(f) == [n \in 0..Len(s) |-> IF n = 0 THEN 0 ELSE f[n - 1] + s[n]]
             sum == CHOOSE f : f = F(f)
             round == [k \in 1..Len(s) |-> [x \in Nat |-> x + s[k]]]
  <1>1. Len(s) \in Nat /\ \A k \in 1..Len(s) : s[k] \in Nat
    BY LenProperties, ElementOfSeq
  <1>2. round \in [1..Len(s) -> [Nat -> Nat]]
    BY <1>1
  <1>3. \A k \in 1..Len(s) : \A x \in Nat : round[k][x] = x + s[k]
    BY <1>1
  <1>4. PICK g \in [0..Len(s) -> Nat] :
            g[0] = 0 /\ \A k \in 1..Len(s) : g[k] = round[k][g[k - 1]]
    <2> HIDE DEF round
    <2>1. \E f : IsLoop(f, Len(s), Nat, 0, round)
      BY <1>1, <1>2, LoopExists
    <2> QED
      BY <2>1 DEF IsLoop
  <1>5. \A k \in 1..Len(s) : g[k] = g[k - 1] + s[k]
    <2> HIDE DEF round
    <2>1. \A k \in 1..Len(s) : k - 1 \in 0..Len(s)
      BY <1>1
    <2> QED
      BY <1>3, <1>4, <2>1
  <1>6. g = F(g)
    <2>1. \A k \in 0..Len(s) : k # 0 => k \in 1..Len(s)
      BY <1>1
    <2> QED
      BY <1>4, <1>5, <2>1
  <1>7. sum = F(sum)
    <2> HIDE DEF F
    <2> QED
      BY <1>6
  <1>8. sum[0] = 0 /\ \A k \in 1..Len(s) : sum[k] = sum[k - 1] + s[k]
    <2> HIDE DEF sum
    <2>1. sum[0] = 0
      BY <1>1, <1>7
    <2>2. ASSUME NEW k \in 1..Len(s) PROVE sum[k] = sum[k - 1] + s[k]
      <3>1. k \in 0..Len(s) /\ k # 0
        BY <1>1
      <3> QED
        BY <1>7, <3>1
    <2> QED
      BY <2>1, <2>2
  <1>9. sum \in [0..Len(s) -> Nat]
    <2> DEFINE Good == {k \in 0..Len(s) : sum[k] = g[k]}
    <2> HIDE DEF sum
    <2>1. 0 \in Good
      BY <1>1, <1>4, <1>8
    <2>2. ASSUME NEW k \in 1..Len(s), k - 1 \in Good PROVE k \in Good
      BY <1>1, <1>5, <1>8, <2>2
    <2>3. \A k \in 0..Len(s) : k \in Good
      <3> HIDE DEF Good
      <3> QED
        BY <1>1, <2>1, <2>2, UpTo
    <2>4. \A k \in 0..Len(s) : sum[k] \in Nat
      BY <1>4, <2>3
    <2>5. sum = [n \in 0..Len(s) |-> sum[n]]
      BY <1>7
    <2> QED
      BY <2>4, <2>5
  <1>10. TotalOf(s) = sum[Len(s)]
    BY DEF TotalOf
  <1> HIDE DEF sum
  <1> QED
    BY <1>8, <1>9, <1>10

LEMMA TotalOfNone == TotalOf(<<>>) = 0
  <1>1. <<>> \in Seq(Nat) /\ Len(<<>>) = 0
    OBVIOUS
  <1> QED
    BY <1>1, TotalIsALoop

\* A loop over a longer sequence starts as the one over its prefix.
LEMMA TotalOfOneMore ==
  ASSUME NEW s \in Seq(Nat), NEW u \in Nat
  PROVE  TotalOf(Append(s, u)) = TotalOf(s) + u
  <1> DEFINE t == Append(s, u)
  <1>1. /\ Len(s) \in Nat /\ t \in Seq(Nat) /\ Len(t) = Len(s) + 1
        /\ t[Len(s) + 1] = u /\ \A k \in 1..Len(s) : t[k] = s[k]
    BY LenProperties, AppendProperties
  <1> HIDE DEF t
  <1>2. PICK f \in [0..Len(s) -> Nat] :
            /\ f[0] = 0
            /\ \A k \in 1..Len(s) : f[k] = f[k - 1] + s[k]
            /\ TotalOf(s) = f[Len(s)]
    BY TotalIsALoop
  <1>3. PICK g \in [0..Len(t) -> Nat] :
            /\ g[0] = 0
            /\ \A k \in 1..Len(t) : g[k] = g[k - 1] + t[k]
            /\ TotalOf(t) = g[Len(t)]
    BY <1>1, TotalIsALoop
  <1> DEFINE Good == {k \in 0..Len(s) : f[k] = g[k]}
  <1>4. 0 \in Good
    BY <1>1, <1>2, <1>3
  <1>5. ASSUME NEW k \in 1..Len(s), k - 1 \in Good PROVE k \in Good
    BY <1>1, <1>2, <1>3, <1>5
  <1>6. \A k \in 0..Len(s) : k \in Good
    <2>1. \A k \in 1..Len(s) : k - 1 \in Good => k \in Good
      BY <1>5
    <2> HIDE DEF Good
    <2> QED
      BY <1>1, <1>4, <2>1, UpTo
  <1>7. f[Len(s)] = g[Len(s)]
    BY <1>1, <1>6
  <1>8. g[Len(t)] = g[Len(s)] + u
    <2>1. Len(t) \in 1..Len(t) /\ Len(t) - 1 = Len(s)
      BY <1>1
    <2> QED
      BY <1>1, <1>3, <2>1
  <1>9. TotalOf(t) = TotalOf(s) + u
    BY <1>2, <1>3, <1>7, <1>8
  <1> QED
    BY <1>9 DEF t

-----------------------------------------------------------------------------
(* The conversation *)

CallId == Nat \X Nat

Said == [role : {"assistant"}, calls : Seq(CallId)]
            \cup [role : {"tool"}, answers : CallId]

ResultsIn(s, n) == Cardinality({m \in 1..n : s[m].role = "tool"})

LEMMA TheResults == \A n : Results(n) = ResultsIn(messages, n)
  BY DEF Results, ResultsIn

LEMMA SaidTypes ==
  /\ \A calls \in Seq(CallId) :
        /\ Assistant(calls) \in Said
        /\ Assistant(calls).role = "assistant" /\ Assistant(calls).calls = calls
  /\ \A id \in CallId :
        /\ ToolResult(id) \in Said
        /\ ToolResult(id).role = "tool" /\ ToolResult(id).answers = id
  /\ \A m \in Said : \/ m.role = "assistant" /\ m.calls \in Seq(CallId)
                     \/ m.role = "tool" /\ m.answers \in CallId
  BY DEF Said, Assistant, ToolResult

\* A message added at the end changes no earlier count.
LEMMA OneMoreMessage ==
  ASSUME NEW s \in Seq(Said), NEW e \in Said
  PROVE  /\ \A n \in 0..Len(s) : /\ ResultsIn(s, n) \in Nat
                                 /\ ResultsIn(Append(s, e), n) = ResultsIn(s, n)
         /\ ResultsIn(Append(s, e), Len(s) + 1)
               = ResultsIn(s, Len(s)) + (IF e.role = "tool" THEN 1 ELSE 0)
  <1> DEFINE t == Append(s, e)
             Tools(q, n) == {m \in 1..n : q[m].role = "tool"}
  <1>1. /\ Len(s) \in Nat /\ t[Len(s) + 1] = e
        /\ \A k \in 1..Len(s) : t[k] = s[k]
    BY LenProperties, AppendProperties
  <1> HIDE DEF t
  <1>2. ASSUME NEW n \in 0..Len(s)
        PROVE  /\ IsFiniteSet(Tools(s, n)) /\ Cardinality(Tools(s, n)) \in Nat
               /\ Tools(t, n) = Tools(s, n)
    <2>1. \A m \in 1..n : t[m] = s[m]
      BY <1>1
    <2>2. IsFiniteSet(1..n)
      BY <1>1, FS_Interval
    <2>3. IsFiniteSet(Tools(s, n))
      BY <2>2, FS_Subset
    <2>4. Cardinality(Tools(s, n)) \in Nat
      <3> HIDE DEF Tools
      <3> QED
        BY <2>3, FS_CardinalityType
    <2> QED
      BY <2>1, <2>3, <2>4
  <1>3. Len(s) \in 0..Len(s)
    BY <1>1
  <1>4. Tools(t, Len(s) + 1)
          = IF e.role = "tool" THEN Tools(s, Len(s)) \cup {Len(s) + 1}
                               ELSE Tools(s, Len(s))
    <2>1. 1..(Len(s) + 1) = (1..Len(s)) \cup {Len(s) + 1}
      BY <1>1
    <2> QED
      BY <1>1, <2>1
  <1>5. Len(s) + 1 \notin Tools(s, Len(s))
    BY <1>1
  <1>6. Cardinality(Tools(t, Len(s) + 1))
          = Cardinality(Tools(s, Len(s))) + (IF e.role = "tool" THEN 1 ELSE 0)
    <2>1. IsFiniteSet(Tools(s, Len(s))) /\ Cardinality(Tools(s, Len(s))) \in Nat
      BY <1>2, <1>3
    <2> HIDE DEF Tools
    <2>2. CASE e.role = "tool"
      BY <1>4, <1>5, <2>1, <2>2, FS_AddElement
    <2>3. CASE e.role # "tool"
      BY <1>4, <2>1, <2>3
    <2> QED
      BY <2>2, <2>3
  <1>7. \A q, n : ResultsIn(q, n) = Cardinality(Tools(q, n))
    BY DEF ResultsIn
  <1> HIDE DEF Tools
  <1> QED
    BY <1>2, <1>6, <1>7 DEF t

\* Each call of a reply is answered where it should be, or it is the call that
\* will be answered there: the pending calls are the end of the last reply's.
Dialogue ==
    /\ messages \in Seq(Said) /\ pending \in Seq(CallId) /\ trace \in Seq(CallId)
    /\ pc # "tools" => pending = <<>>
    /\ \A n \in 1..Len(messages) :
          messages[n].role = "assistant" =>
              \A j \in 1..Len(messages[n].calls) :
                  \/ /\ n + j <= Len(messages)
                     /\ messages[n + j] = ToolResult(messages[n].calls[j])
                  \/ /\ n + j - Len(messages) \in 1..Len(pending)
                     /\ pending[n + j - Len(messages)] = messages[n].calls[j]

\* The trace follows the results.
Traced ==
    /\ Len(trace) = Results(Len(messages))
    /\ \A n \in 1..Len(messages) :
          messages[n].role = "tool" =>
              /\ Results(n) \in 1..Len(trace)
              /\ trace[Results(n)] = messages[n].answers

\* How far the run is, told from its requests.
Progress ==
    /\ pc \in {"ask", "tools", "repair"} => i < EffectiveMaxIter
    /\ pc = "ask" => requests = i
    /\ pc \in {"tools", "repair"} => requests = i + 1
    /\ requests <= EffectiveMaxIter + 1

\* What has been said so far, told from where the run is.
Meaning ==
    /\ pc # "end" => outcome = "None"
    /\ rca <=> outcome = "Done"
    /\ pc \in {"tools", "repair"} \/ outcome = "Partial" =>
          \E n \in 1..Len(messages) : messages[n].role = "assistant"
    /\ pc \in {"ask", "tools"} \/ outcome = "Failed" =>
          \A n \in 1..Len(messages) :
              messages[n].role = "assistant" => messages[n].calls # <<>>

AgentInv ==
    /\ AgentTypeOK
    /\ Dialogue
    /\ Traced
    /\ Progress
    /\ Meaning
    /\ tokens = TotalOf(billed)

LEMMA IterationBound == EffectiveMaxIter \in Nat \ {0}
  BY AgentAssumption DEF EffectiveMaxIter

LEMMA FreshRun == AgentInit => AgentInv
  <1> SUFFICES ASSUME AgentInit PROVE AgentInv
    OBVIOUS
  <1> USE DEF AgentInit
  <1>1. 0 \in 0..EffectiveMaxIter /\ 0 < EffectiveMaxIter
        /\ 0 <= EffectiveMaxIter + 1
    BY IterationBound
  <1>2. \A S : <<>> \in Seq(S) /\ Len(<<>>) = 0 /\ 1..0 = {}
    OBVIOUS
  <1>3. AgentTypeOK
    BY <1>1, <1>2 DEF AgentTypeOK
  <1>4. Dialogue
    BY <1>2 DEF Dialogue
  <1>5. Traced
    <2>1. {m \in 1..0 : messages[m].role = "tool"} = {}
      OBVIOUS
    <2>2. Results(0) = 0
      BY <2>1, FS_EmptySet DEF Results
    <2> QED
      BY <1>2, <2>2 DEF Traced
  <1>6. Progress
    BY <1>1 DEF Progress
  <1>7. Meaning
    BY <1>2 DEF Meaning
  <1>8. tokens = TotalOf(billed)
    BY TotalOfNone
  <1> QED
    BY <1>3, <1>4, <1>5, <1>6, <1>7, <1>8 DEF AgentInv

\* The steps of a run, told apart by what they add to the conversation.
Silent ==
    \/ ProviderError
    \/ \E u \in 0..MaxUsage : NoChoices(u)
    \/ \E u \in 0..MaxUsage, text \in Texts : Repair(u, text)
    \/ Iterate
    \/ RepairFails

LEMMA StepsOfARun ==
  ASSUME AgentStep
  PROVE  \/ Silent
         \/ \E u \in 0..MaxUsage, text \in Texts : FinalReply(u, text)
         \/ \E u \in 0..MaxUsage, n \in 1..MaxTools : ToolReply(u, n)
         \/ CallTool
  BY DEF AgentStep, Silent

LEMMA CallsAreCalls ==
  ASSUME NEW n \in Nat, NEW count \in Nat
  PROVE  /\ Calls(n, count) \in Seq(CallId)
         /\ Len(Calls(n, count)) = count
  <1>1. \A j \in 1..count : <<n, j>> \in CallId
    BY DEF CallId
  <1>2. Calls(n, count) \in [1..count -> CallId]
    BY <1>1 DEF Calls
  <1> QED
    BY <1>2, LenProperties, ElementOfSeq, SeqDef

LEMMA RunTypes == AgentInv /\ AgentStep => AgentTypeOK'
  <1> SUFFICES ASSUME AgentInv, AgentStep PROVE AgentTypeOK'
    OBVIOUS
  <1> USE DEF Return
  <1>1. AgentTypeOK /\ Progress
    BY DEF AgentInv
  <1>2. /\ i \in Nat /\ tokens \in Nat /\ requests \in Nat
        /\ i \in 0..EffectiveMaxIter /\ billed \in Seq(0..MaxUsage)
        /\ rca \in BOOLEAN /\ outcome \in {"None", "Done", "Partial", "Failed"}
    BY <1>1, IterationBound DEF AgentTypeOK
  <1>3. ASSUME NEW u \in 0..MaxUsage, Answered(u)
        PROVE  tokens' \in Nat /\ requests' \in Nat /\ billed' \in Seq(0..MaxUsage)
    <2>1. u \in Nat
      BY AgentAssumption
    <2> QED
      BY <1>2, <1>3, <2>1, AppendProperties DEF Answered
  <1>4. CASE ProviderError \/ RepairFails
    <2>1. /\ requests' = requests + 1 /\ pc' = "end" /\ rca' = FALSE
          /\ outcome' \in {"Failed", "Partial"}
          /\ i' = i /\ tokens' = tokens /\ billed' = billed
      BY <1>4 DEF ProviderError, RepairFails
    <2>2. requests' \in Nat
      BY <1>2, <2>1
    <2>3. billed' \in Seq(0..MaxUsage)
      BY <1>2, <2>1
    <2>4. i' \in 0..EffectiveMaxIter /\ tokens' \in Nat
      BY <1>2, <2>1
    <2> QED
      BY <2>1, <2>2, <2>3, <2>4 DEF AgentTypeOK
  <1>5. CASE \E u \in 0..MaxUsage : NoChoices(u)
    BY <1>2, <1>3, <1>5 DEF NoChoices, AgentTypeOK
  <1>6. CASE \E u \in 0..MaxUsage, text \in Texts : Repair(u, text)
    BY <1>2, <1>3, <1>6 DEF Repair, AgentTypeOK
  <1>7. CASE \E u \in 0..MaxUsage, text \in Texts : FinalReply(u, text)
    BY <1>2, <1>3, <1>7 DEF FinalReply, AgentTypeOK
  <1>8. CASE \E u \in 0..MaxUsage, n \in 1..MaxTools : ToolReply(u, n)
    BY <1>2, <1>3, <1>8 DEF ToolReply, AgentTypeOK
  <1>9. CASE CallTool
    BY <1>1, <1>2, <1>9 DEF CallTool, AgentTypeOK
  <1>10. CASE Iterate
    <2>1. i < EffectiveMaxIter
      BY <1>1, <1>10 DEF Iterate, Progress
    <2>2. i' \in 0..EffectiveMaxIter
      BY <1>2, <1>10, <2>1, IterationBound DEF Iterate
    <2> QED
      BY <1>2, <1>10, <2>2 DEF Iterate, AgentTypeOK
  <1> QED
    BY <1>4, <1>5, <1>6, <1>7, <1>8, <1>9, <1>10, StepsOfARun DEF Silent

LEMMA RunProgress == AgentInv /\ AgentStep => Progress'
  <1> SUFFICES ASSUME AgentInv, AgentStep PROVE Progress'
    OBVIOUS
  <1> USE DEF Return
  <1>1. Progress
    BY DEF AgentInv
  <1>2. i \in Nat /\ requests \in Nat /\ EffectiveMaxIter \in Nat
    BY IterationBound DEF AgentInv, AgentTypeOK
  <1>3. EffectiveMaxIter' = EffectiveMaxIter
    BY DEF EffectiveMaxIter
  <1>4. CASE ProviderError \/ RepairFails
    BY <1>1, <1>2, <1>3, <1>4 DEF ProviderError, RepairFails, Progress
  <1>5. CASE \E u \in 0..MaxUsage : NoChoices(u)
    BY <1>1, <1>2, <1>3, <1>5 DEF NoChoices, Answered, Progress
  <1>6. CASE \E u \in 0..MaxUsage, text \in Texts : Repair(u, text)
    BY <1>1, <1>2, <1>3, <1>6 DEF Repair, Answered, Progress
  <1>7. CASE \E u \in 0..MaxUsage, text \in Texts : FinalReply(u, text)
    BY <1>1, <1>2, <1>3, <1>7 DEF FinalReply, Answered, Progress
  <1>8. CASE \E u \in 0..MaxUsage, n \in 1..MaxTools : ToolReply(u, n)
    BY <1>1, <1>2, <1>3, <1>8 DEF ToolReply, Answered, Progress
  <1>9. CASE CallTool
    BY <1>1, <1>2, <1>3, <1>9 DEF CallTool, Progress
  <1>10. CASE Iterate
    BY <1>1, <1>2, <1>3, <1>10 DEF Iterate, Progress
  <1> QED
    BY <1>4, <1>5, <1>6, <1>7, <1>8, <1>9, <1>10, StepsOfARun DEF Silent

\* Every answer of the provider is added to both sides.
LEMMA RunCost == AgentInv /\ AgentStep => tokens' = TotalOf(billed')
  <1> SUFFICES ASSUME AgentInv, AgentStep PROVE tokens' = TotalOf(billed')
    OBVIOUS
  <1>1. tokens = TotalOf(billed) /\ billed \in Seq(0..MaxUsage)
    BY DEF AgentInv, AgentTypeOK
  <1>2. billed \in Seq(Nat) /\ 0..MaxUsage \subseteq Nat
    <2>1. 0..MaxUsage \subseteq Nat
      BY AgentAssumption
    <2>2. \A k \in 1..Len(billed) : billed[k] \in Nat
      BY <1>1, <2>1, ElementOfSeq
    <2>3. billed = [k \in 1..Len(billed) |-> billed[k]] /\ Len(billed) \in Nat
      BY <1>1, LenProperties
    <2> QED
      BY <2>1, <2>2, <2>3, SeqDef
  <1>3. ASSUME NEW u \in 0..MaxUsage, Answered(u)
        PROVE  tokens' = TotalOf(billed')
    BY <1>1, <1>2, <1>3, TotalOfOneMore DEF Answered
  <1>4. \/ UNCHANGED <<tokens, billed>>
        \/ \E u \in 0..MaxUsage : Answered(u)
    BY DEF AgentStep, ProviderError, NoChoices, FinalReply, Repair, ToolReply,
           CallTool, Iterate, RepairFails
  <1>5. CASE UNCHANGED <<tokens, billed>>
    BY <1>1, <1>5
  <1> QED
    BY <1>3, <1>4, <1>5

LEMMA RunMeaning == AgentInv /\ AgentStep => Meaning'
  <1> SUFFICES ASSUME AgentInv, AgentStep PROVE Meaning'
    OBVIOUS
  <1> USE DEF Return
  <1>1. Meaning /\ messages \in Seq(Said) /\ Len(messages) \in Nat
    BY LenProperties DEF AgentInv, Dialogue
  <1>2. CASE ProviderError
    BY <1>1, <1>2 DEF ProviderError, Meaning
  <1>3. CASE RepairFails
    BY <1>1, <1>3 DEF RepairFails, Meaning
  <1>4. CASE \E u \in 0..MaxUsage : NoChoices(u)
    BY <1>1, <1>4 DEF NoChoices, Answered, Meaning
  <1>5. CASE \E u \in 0..MaxUsage, text \in Texts : Repair(u, text)
    BY <1>1, <1>5 DEF Repair, Answered, Meaning
  <1>6. CASE Iterate
    BY <1>1, <1>6 DEF Iterate, Meaning
  <1>7. ASSUME NEW e \in Said, messages' = Append(messages, e)
        PROVE  /\ Len(messages') = Len(messages) + 1
               /\ messages'[Len(messages')] = e
               /\ \A n \in 1..Len(messages) : messages'[n] = messages[n]
               /\ 1..Len(messages') = (1..Len(messages)) \cup {Len(messages')}
    <2>1. /\ Len(messages') = Len(messages) + 1
          /\ messages'[Len(messages) + 1] = e
          /\ \A n \in 1..Len(messages) : messages'[n] = messages[n]
      BY <1>1, <1>7, AppendProperties
    <2> QED
      BY <1>1, <2>1
  <1>8. CASE \E u \in 0..MaxUsage, text \in Texts : FinalReply(u, text)
    <2>1. PICK u \in 0..MaxUsage, text \in Texts : FinalReply(u, text)
      BY <1>8
    <2>2. /\ messages' = Append(messages, Assistant(<<>>))
          /\ Assistant(<<>>) \in Said /\ Assistant(<<>>).role = "assistant"
      <3>1. <<>> \in Seq(CallId)
        OBVIOUS
      <3> QED
        BY <2>1, <3>1, SaidTypes, Zenon DEF FinalReply
    <2>3. Len(messages') \in 1..Len(messages')
      BY <1>1, <1>7, <2>2
    <2>4. \E n \in 1..Len(messages') : messages'[n].role = "assistant"
      BY <1>7, <2>2, <2>3
    <2>5. pc' \in {"repair", "end"} /\ outcome' # "Failed"
          /\ (pc' # "end" => outcome' = "None") /\ (rca' <=> outcome' = "Done")
      BY <1>1, <2>1 DEF FinalReply, Meaning
    <2> QED
      BY <2>4, <2>5 DEF Meaning
  <1>9. CASE \E u \in 0..MaxUsage, n \in 1..MaxTools : ToolReply(u, n)
    <2>1. PICK u \in 0..MaxUsage, c \in 1..MaxTools : ToolReply(u, c)
      BY <1>9
    <2> DEFINE calls == Calls(i + 1, c)
    <2>2. i + 1 \in Nat /\ c \in Nat /\ c # 0
      BY AgentAssumption, IterationBound DEF AgentInv, AgentTypeOK
    <2>3. calls \in Seq(CallId) /\ calls # <<>>
      BY <2>2, CallsAreCalls
    <2>4. messages' = Append(messages, Assistant(calls))
      BY <2>1 DEF ToolReply
    <2> HIDE DEF calls
    <2>5. /\ Assistant(calls) \in Said /\ Assistant(calls).role = "assistant"
          /\ Assistant(calls).calls # <<>>
      BY <2>3, SaidTypes
    <2>6. Len(messages') \in 1..Len(messages')
      BY <1>1, <1>7, <2>4, <2>5
    <2>7. \E n \in 1..Len(messages') : messages'[n].role = "assistant"
      BY <1>7, <2>4, <2>5, <2>6
    <2>8. \A n \in 1..Len(messages') :
              messages'[n].role = "assistant" => messages'[n].calls # <<>>
      <3>1. \A n \in 1..Len(messages) :
              messages[n].role = "assistant" => messages[n].calls # <<>>
        BY <1>1, <2>1 DEF ToolReply, Meaning
      <3> QED
        BY <1>7, <2>4, <2>5, <3>1
    <2>9. pc' = "tools" /\ outcome' = "None" /\ (rca' <=> outcome' = "Done")
      BY <1>1, <2>1 DEF ToolReply, Meaning
    <2> QED
      BY <2>7, <2>8, <2>9 DEF Meaning
  <1>10. CASE CallTool
    <2> DEFINE e == ToolResult(Head(pending))
    <2>1. /\ messages' = Append(messages, e) /\ pc = "tools" /\ pc' = "tools"
          /\ outcome' = outcome /\ rca' = rca
      BY <1>10 DEF CallTool
    <2>2. Head(pending) \in CallId
      BY <1>10, HeadTailProperties DEF CallTool, AgentInv, Dialogue
    <2>3. e \in Said /\ e.role = "tool"
      BY <2>2, SaidTypes
    <2> HIDE DEF e
    <2>4. PICK a \in 1..Len(messages) : messages[a].role = "assistant"
      BY <1>1, <2>1 DEF Meaning
    <2>5. \E n \in 1..Len(messages') : messages'[n].role = "assistant"
      BY <1>7, <2>1, <2>3, <2>4
    <2>6. \A n \in 1..Len(messages') :
              messages'[n].role = "assistant" => messages'[n].calls # <<>>
      <3>1. \A n \in 1..Len(messages) :
              messages[n].role = "assistant" => messages[n].calls # <<>>
        BY <1>1, <2>1 DEF Meaning
      <3> QED
        BY <1>7, <2>1, <2>3, <3>1
    <2> QED
      BY <1>1, <2>1, <2>5, <2>6 DEF Meaning
  <1> QED
    BY <1>2, <1>3, <1>4, <1>5, <1>6, <1>8, <1>9, <1>10, StepsOfARun DEF Silent

\* A step that says nothing leaves the conversation and the trace alone, and
\* no call is pending after it.
LEMMA SilentStep ==
  ASSUME AgentInv, Silent
  PROVE  UNCHANGED <<messages, pending, trace>> /\ pending = <<>>
  <1>1. pc # "tools" => pending = <<>>
    BY DEF AgentInv, Dialogue
  <1> QED
    BY <1>1 DEF Silent, ProviderError, NoChoices, Repair, Iterate, RepairFails

LEMMA RunDialogue == AgentInv /\ AgentStep => Dialogue'
  <1> SUFFICES ASSUME AgentInv, AgentStep PROVE Dialogue'
    OBVIOUS
  <1> DEFINE L == Len(messages)
             Replied(ms, ps, n, j) ==
                 \/ /\ n + j <= Len(ms)
                    /\ ms[n + j] = ToolResult(ms[n].calls[j])
                 \/ /\ n + j - Len(ms) \in 1..Len(ps)
                    /\ ps[n + j - Len(ms)] = ms[n].calls[j]
             Closed(ms, ps) ==
                 \A n \in 1..Len(ms) :
                     ms[n].role = "assistant" =>
                         \A j \in 1..Len(ms[n].calls) : Replied(ms, ps, n, j)
  <1>1. /\ messages \in Seq(Said) /\ pending \in Seq(CallId) /\ trace \in Seq(CallId)
        /\ (pc # "tools" => pending = <<>>) /\ Closed(messages, pending)
    BY DEF AgentInv, Dialogue
  <1>2. SUFFICES /\ messages' \in Seq(Said) /\ pending' \in Seq(CallId)
                 /\ trace' \in Seq(CallId) /\ (pc' # "tools" => pending' = <<>>)
                 /\ Closed(messages', pending')
    BY DEF Dialogue
  <1>3. L \in Nat /\ Len(pending) \in Nat /\ \A n \in 1..L : messages[n] \in Said
    BY <1>1, LenProperties, ElementOfSeq
  <1>4. ASSUME NEW e \in Said, messages' = Append(messages, e)
        PROVE  /\ Len(messages') = L + 1 /\ messages'[L + 1] = e
               /\ \A n \in 1..L : messages'[n] = messages[n]
               /\ messages' \in Seq(Said)
    BY <1>1, <1>4, AppendProperties
  <1>5. ASSUME NEW n \in 1..L, messages[n].role = "assistant"
        PROVE  Len(messages[n].calls) \in Nat
    BY <1>3, <1>5, SaidTypes, LenProperties
  <1>6. CASE Silent
    BY <1>1, <1>6, SilentStep
  <1>7. ASSUME NEW calls \in Seq(CallId), pending = <<>>,
               messages' = Append(messages, Assistant(calls)), pending' = calls
        PROVE  messages' \in Seq(Said) /\ Closed(messages', pending')
    <2>1. /\ Len(messages') = L + 1 /\ messages'[L + 1] = Assistant(calls)
          /\ \A n \in 1..L : messages'[n] = messages[n]
          /\ messages' \in Seq(Said) /\ Assistant(calls).calls = calls
      BY <1>4, <1>7, SaidTypes
    <2>2. ASSUME NEW n \in 1..L, messages[n].role = "assistant",
                 NEW j \in 1..Len(messages[n].calls)
          PROVE  Replied(messages', pending', n, j)
      <3>1. Replied(messages, pending, n, j)
        BY <1>1, <2>2
      <3>2. n + j <= L /\ messages[n + j] = ToolResult(messages[n].calls[j])
        BY <1>7, <3>1
      <3>3. n + j \in 1..L
        BY <1>3, <1>5, <2>2, <3>2
      <3> QED
        BY <1>3, <2>1, <3>2, <3>3
    <2>3. ASSUME NEW j \in 1..Len(calls) PROVE Replied(messages', pending', L + 1, j)
      <3>1. Len(calls) \in Nat /\ L + 1 + j - Len(messages') = j
        BY <1>3, <2>1, LenProperties
      <3> QED
        BY <1>7, <2>1, <2>3, <3>1
    <2>4. 1..Len(messages') = (1..L) \cup {L + 1}
      BY <1>3, <2>1
    <2> QED
      BY <2>1, <2>2, <2>3, <2>4
  <1>8. CASE \E u \in 0..MaxUsage, text \in Texts : FinalReply(u, text)
    <2>1. /\ messages' = Append(messages, Assistant(<<>>)) /\ pc = "ask"
          /\ pending' = pending /\ trace' = trace
      BY <1>8 DEF FinalReply
    <2>2. <<>> \in Seq(CallId)
      OBVIOUS
    <2>3. pending = <<>>
      BY <1>1, <2>1
    <2>4. messages' \in Seq(Said) /\ Closed(messages', pending')
      BY <1>7, <2>1, <2>2, <2>3
    <2> QED
      BY <1>1, <2>1, <2>3, <2>4
  <1>9. CASE \E u \in 0..MaxUsage, n \in 1..MaxTools : ToolReply(u, n)
    <2>1. PICK u \in 0..MaxUsage, c \in 1..MaxTools : ToolReply(u, c)
      BY <1>9
    <2> DEFINE calls == Calls(i + 1, c)
    <2>2. i + 1 \in Nat /\ c \in Nat
      BY AgentAssumption, IterationBound DEF AgentInv, AgentTypeOK
    <2>3. calls \in Seq(CallId)
      BY <2>2, CallsAreCalls
    <2>4. /\ messages' = Append(messages, Assistant(calls)) /\ pending' = calls
          /\ pc = "ask" /\ pc' = "tools" /\ trace' = trace
      BY <2>1 DEF ToolReply
    <2> HIDE DEF calls
    <2>5. messages' \in Seq(Said) /\ Closed(messages', pending')
      BY <1>1, <1>7, <2>3, <2>4
    <2> QED
      BY <1>1, <2>3, <2>4, <2>5
  <1>10. CASE CallTool
    <2> DEFINE e == ToolResult(Head(pending))
    <2>1. /\ messages' = Append(messages, e) /\ pending # <<>> /\ pc' = "tools"
          /\ pending' = Tail(pending) /\ trace' = Append(trace, Head(pending))
      BY <1>10 DEF CallTool
    <2>2. /\ Head(pending) \in CallId /\ Head(pending) = pending[1]
          /\ pending' \in Seq(CallId) /\ Len(pending') = Len(pending) - 1
          /\ \A k \in 1..Len(pending') : pending'[k] = pending[k + 1]
      BY <1>1, <2>1, HeadTailProperties
    <2>3. e \in Said /\ e.role = "tool"
      BY <2>2, SaidTypes
    <2>4. /\ Len(messages') = L + 1 /\ messages'[L + 1] = e
          /\ \A n \in 1..L : messages'[n] = messages[n]
          /\ messages' \in Seq(Said) /\ trace' \in Seq(CallId)
      BY <1>1, <1>4, <2>1, <2>2, <2>3, AppendProperties
    <2>5. ASSUME NEW n \in 1..L, messages[n].role = "assistant",
                 NEW j \in 1..Len(messages[n].calls)
          PROVE  Replied(messages', pending', n, j)
      <3> DEFINE call == messages[n].calls[j]
                 p == n + j
      <3>1. p \in Nat /\ p >= 1
        BY <1>3, <1>5, <2>5
      <3>2. Replied(messages, pending, n, j)
        BY <1>1, <2>5
      <3>3. messages'[n].calls[j] = call
        BY <2>4
      <3>4. \/ p <= L /\ messages[p] = ToolResult(call)
            \/ p - L \in 1..Len(pending) /\ pending[p - L] = call
        BY <3>2
      <3>5. SUFFICES \/ p <= L + 1 /\ messages'[p] = ToolResult(call)
                     \/ /\ p - (L + 1) \in 1..Len(pending')
                        /\ pending'[p - (L + 1)] = call
        BY <2>4, <3>3
      <3> HIDE DEF call, p
      <3>6. CASE p <= L /\ messages[p] = ToolResult(call)
        BY <1>3, <2>4, <3>1, <3>6
      <3>7. CASE p - L = 1 /\ pending[p - L] = call
        <4>1. p = L + 1
          BY <1>3, <3>1, <3>7
        <4>2. messages'[p] = ToolResult(call)
          BY <2>2, <2>4, <3>7, <4>1
        <4> QED
          BY <1>3, <4>1, <4>2
      <3>8. CASE p - L \in 2..Len(pending) /\ pending[p - L] = call
        <4>1. p - (L + 1) \in 1..Len(pending') /\ p - (L + 1) + 1 = p - L
          BY <1>3, <2>2, <3>1, <3>8
        <4> QED
          BY <2>2, <3>8, <4>1
      <3> QED
        BY <1>3, <3>1, <3>4, <3>6, <3>7, <3>8
    <2>6. 1..Len(messages') = (1..L) \cup {L + 1}
      BY <1>3, <2>4
    <2>7. Closed(messages', pending')
      <3> HIDE DEF Replied
      <3> QED
        BY <2>3, <2>4, <2>5, <2>6
    <2> QED
      BY <2>1, <2>2, <2>4, <2>7
  <1> QED
    BY <1>6, <1>8, <1>9, <1>10, StepsOfARun

LEMMA RunTraced == AgentInv /\ AgentStep => Traced'
  <1> SUFFICES ASSUME AgentInv, AgentStep PROVE Traced'
    OBVIOUS
  <1> DEFINE L == Len(messages)
             Follows(ms, tr) ==
                 /\ Len(tr) = ResultsIn(ms, Len(ms))
                 /\ \A n \in 1..Len(ms) :
                       ms[n].role = "tool" =>
                           /\ ResultsIn(ms, n) \in 1..Len(tr)
                           /\ tr[ResultsIn(ms, n)] = ms[n].answers
  <1>1. messages \in Seq(Said) /\ pending \in Seq(CallId) /\ trace \in Seq(CallId)
    BY DEF AgentInv, Dialogue
  <1>2. Follows(messages, trace)
    BY TheResults DEF AgentInv, Traced
  <1>3. SUFFICES Follows(messages', trace')
    BY DEF Traced, Results, ResultsIn
  <1>4. L \in Nat /\ Len(trace) \in Nat
    BY <1>1, LenProperties
  <1>5. ASSUME NEW e \in Said, messages' = Append(messages, e)
        PROVE  /\ Len(messages') = L + 1 /\ messages'[L + 1] = e
               /\ \A n \in 1..L : messages'[n] = messages[n]
               /\ \A n \in 1..L : ResultsIn(messages', n) = ResultsIn(messages, n)
               /\ ResultsIn(messages', L + 1)
                     = ResultsIn(messages, L) + (IF e.role = "tool" THEN 1 ELSE 0)
               /\ 1..(L + 1) = (1..L) \cup {L + 1}
               /\ ResultsIn(messages, L) \in Nat
    <2>1. \A n \in 1..L : n \in 0..L
      BY <1>4
    <2>2. L \in 0..L /\ 1..(L + 1) = (1..L) \cup {L + 1}
      BY <1>4
    <2>3. /\ Len(messages') = L + 1 /\ messages'[L + 1] = e
          /\ \A n \in 1..L : messages'[n] = messages[n]
      BY <1>1, <1>5, AppendProperties
    <2>4. /\ \A n \in 0..L : /\ ResultsIn(messages, n) \in Nat
                             /\ ResultsIn(messages', n) = ResultsIn(messages, n)
          /\ ResultsIn(messages', L + 1)
                = ResultsIn(messages, L) + (IF e.role = "tool" THEN 1 ELSE 0)
      BY <1>1, <1>5, OneMoreMessage
    <2> QED
      BY <2>1, <2>2, <2>3, <2>4
  <1>6. CASE Silent
    BY <1>2, <1>6, SilentStep
  <1>7. ASSUME NEW calls \in Seq(CallId), trace' = trace,
               messages' = Append(messages, Assistant(calls))
        PROVE  Follows(messages', trace')
    <2> DEFINE e == Assistant(calls)
    <2>1. e \in Said /\ e.role # "tool"
      BY SaidTypes
    <2> HIDE DEF e
    <2>2. messages' = Append(messages, e)
      BY <1>7 DEF e
    <2>3. /\ Len(messages') = L + 1 /\ messages'[L + 1] = e
          /\ \A n \in 1..L : messages'[n] = messages[n]
          /\ \A n \in 1..L : ResultsIn(messages', n) = ResultsIn(messages, n)
          /\ ResultsIn(messages', L + 1) = ResultsIn(messages, L)
          /\ 1..(L + 1) = (1..L) \cup {L + 1}
      BY <1>5, <2>1, <2>2
    <2> QED
      BY <1>2, <1>7, <2>1, <2>3
  <1>8. CASE \E u \in 0..MaxUsage, text \in Texts : FinalReply(u, text)
    <2>1. <<>> \in Seq(CallId)
      OBVIOUS
    <2> QED
      BY <1>7, <1>8, <2>1 DEF FinalReply
  <1>9. CASE \E u \in 0..MaxUsage, n \in 1..MaxTools : ToolReply(u, n)
    <2>1. PICK u \in 0..MaxUsage, c \in 1..MaxTools : ToolReply(u, c)
      BY <1>9
    <2>2. i + 1 \in Nat /\ c \in Nat
      BY AgentAssumption, IterationBound DEF AgentInv, AgentTypeOK
    <2>3. Calls(i + 1, c) \in Seq(CallId)
      BY <2>2, CallsAreCalls
    <2> QED
      BY <1>7, <2>1, <2>3 DEF ToolReply
  <1>10. CASE CallTool
    <2> DEFINE id == Head(pending)
               e == ToolResult(id)
    <2>1. pending # <<>> /\ messages' = Append(messages, e) /\ trace' = Append(trace, id)
      BY <1>10 DEF CallTool
    <2>2. id \in CallId
      BY <1>1, <2>1, HeadTailProperties
    <2>3. e \in Said /\ e.role = "tool" /\ e.answers = id
      BY <2>2, SaidTypes
    <2> HIDE DEF e, id
    <2>4. /\ Len(trace') = Len(trace) + 1 /\ trace'[Len(trace) + 1] = id
          /\ \A k \in 1..Len(trace) : trace'[k] = trace[k]
      BY <1>1, <2>1, <2>2, AppendProperties
    <2>5. /\ Len(messages') = L + 1 /\ messages'[L + 1] = e
          /\ \A n \in 1..L : messages'[n] = messages[n]
          /\ \A n \in 1..L : ResultsIn(messages', n) = ResultsIn(messages, n)
          /\ ResultsIn(messages', L + 1) = Len(trace) + 1
          /\ 1..(L + 1) = (1..L) \cup {L + 1}
      BY <1>2, <1>5, <2>1, <2>3
    <2>6. /\ Len(trace) + 1 \in 1..Len(trace')
          /\ \A k \in 1..Len(trace) : k \in 1..Len(trace')
      BY <1>4, <2>4
    <2> QED
      BY <1>2, <2>3, <2>4, <2>5, <2>6
  <1> QED
    BY <1>6, <1>8, <1>9, <1>10, StepsOfARun

LEMMA RunKept == AgentInv /\ AgentStep => AgentInv'
  BY RunTypes, RunDialogue, RunTraced, RunProgress, RunMeaning, RunCost DEF AgentInv

-----------------------------------------------------------------------------
(* The channels *)

LEMMA Ranks ==
  /\ Channels = {"email", "slack", "jira", "linear"}
  /\ Rank("email") = 1 /\ Rank("slack") = 2 /\ Rank("jira") = 3
  /\ Rank("linear") = 4
  <1>1. DOMAIN Order = 1..4
    BY DEF Order
  <1>2. /\ Order[1] = "email" /\ Order[2] = "slack" /\ Order[3] = "jira"
        /\ Order[4] = "linear"
    BY DEF Order
  <1>3. \A n \in 1..4 : n \in {1, 2, 3, 4}
    OBVIOUS
  <1>4. Channels = {"email", "slack", "jira", "linear"}
    BY <1>1, <1>2, <1>3 DEF Channels
  <1>5. ASSUME NEW k \in 1..4 PROVE (CHOOSE n \in DOMAIN Order : Order[n] = Order[k]) = k
    BY <1>1, <1>2, <1>3, <1>5
  <1> QED
    BY <1>2, <1>4, <1>5 DEF Rank

\* q lists the channels of S, each once, in the order of their ranks.
Ranked(q, S, r) ==
    /\ q \in Seq(Channels)
    /\ \A a \in 1..Len(q) : q[a] \in S /\ Rank(q[a]) <= r
    /\ \A c \in S : \E a \in 1..Len(q) : q[a] = c
    /\ \A a, b \in 1..Len(q) : a < b => Rank(q[a]) < Rank(q[b])

LEMMA OneMoreChannel ==
  ASSUME NEW q, NEW S, NEW r \in Nat, Ranked(q, S, r), NEW set,
         NEW c \in Channels, Rank(c) = r + 1,
         NEW T, T = IF Needs(c) \subseteq set THEN S \cup {c} ELSE S
  PROVE  Ranked(q \o When(c, set), T, Rank(c))
  <1>1. q \in Seq(Channels) /\ Len(q) \in Nat
    BY LenProperties DEF Ranked
  <1>2. \A a \in 1..Len(q) : Rank(q[a]) \in Nat
    BY <1>1, ElementOfSeq, Ranks
  <1>3. CASE Needs(c) \subseteq set
    <2> DEFINE t == Append(q, c)
    <2>1. q \o When(c, set) = t
      BY <1>1, <1>3, AppendIsConcat DEF When
    <2>2. /\ t \in Seq(Channels) /\ Len(t) = Len(q) + 1 /\ t[Len(q) + 1] = c
          /\ \A a \in 1..Len(q) : t[a] = q[a]
      BY <1>1, AppendProperties
    <2> HIDE DEF t
    <2>3. 1..Len(t) = (1..Len(q)) \cup {Len(q) + 1}
      BY <1>1, <2>2
    <2>4. \A a \in 1..Len(t) : t[a] \in S \cup {c} /\ Rank(t[a]) <= r + 1
      BY <1>2, <2>2, <2>3 DEF Ranked
    <2>5. \A d \in S \cup {c} : \E a \in 1..Len(t) : t[a] = d
      BY <2>2, <2>3 DEF Ranked
    <2>6. \A a, b \in 1..Len(t) : a < b => Rank(t[a]) < Rank(t[b])
      <3> SUFFICES ASSUME NEW a \in 1..Len(t), NEW b \in 1..Len(t), a < b
                   PROVE  Rank(t[a]) < Rank(t[b])
        OBVIOUS
      <3>1. a \in 1..Len(q)
        BY <1>1, <2>2
      <3>2. CASE b \in 1..Len(q)
        BY <2>2, <3>1, <3>2 DEF Ranked
      <3>3. CASE b = Len(q) + 1
        BY <1>2, <2>2, <3>1, <3>3 DEF Ranked
      <3> QED
        BY <2>3, <3>2, <3>3
    <2> QED
      BY <1>3, <2>1, <2>2, <2>4, <2>5, <2>6 DEF Ranked
  <1>4. CASE ~(Needs(c) \subseteq set)
    <2>1. q \o When(c, set) = q
      BY <1>1, <1>4 DEF When
    <2> QED
      BY <1>2, <1>4, <2>1 DEF Ranked
  <1> QED
    BY <1>3, <1>4

LEMMA EnabledChannels ==
  ASSUME NEW set
  PROVE  Ranked(Enabled(set), {c \in Channels : Needs(c) \subseteq set}, 4)
  <1> DEFINE Add(S, c) == IF Needs(c) \subseteq set THEN S \cup {c} ELSE S
             q1 == <<>> \o When("email", set)
             q2 == q1 \o When("slack", set)
             q3 == q2 \o When("jira", set)
             q4 == q3 \o When("linear", set)
             S1 == Add({}, "email")
             S2 == Add(S1, "slack")
             S3 == Add(S2, "jira")
             S4 == Add(S3, "linear")
  <1>1. Ranked(<<>>, {}, 0)
    BY DEF Ranked
  <1>2. Ranked(q1, S1, 1)
    <2>1. S1 = Add({}, "email")
      OBVIOUS
    <2>2. Ranked(q1, S1, Rank("email"))
      <3> DEFINE q0 == <<>>
                 none == {}
                 zero == 0
      <3>1. Ranked(q0, none, zero) /\ zero \in Nat /\ Rank("email") = zero + 1
            /\ S1 = Add(none, "email") /\ "email" \in Channels
        BY <1>1, <2>1, Ranks
      <3> HIDE DEF q0, S1, none, zero
      <3>2. Ranked(q0 \o When("email", set), S1, Rank("email"))
        BY <3>1, OneMoreChannel
      <3> QED
        BY <3>2 DEF q0
    <2> QED
      BY <2>2, Ranks
  <1>3. Ranked(q2, S2, 2)
    <2>1. S2 = Add(S1, "slack")
      OBVIOUS
    <2> HIDE DEF q1, S1, S2
    <2>2. Ranked(q2, S2, Rank("slack"))
      BY <1>2, <2>1, Ranks, OneMoreChannel
    <2> QED
      BY <2>2, Ranks
  <1>4. Ranked(q3, S3, 3)
    <2>1. S3 = Add(S2, "jira")
      OBVIOUS
    <2> HIDE DEF q2, S2, S3
    <2>2. Ranked(q3, S3, Rank("jira"))
      BY <1>3, <2>1, Ranks, OneMoreChannel
    <2> QED
      BY <2>2, Ranks
  <1>5. Ranked(q4, S4, 4)
    <2>1. S4 = Add(S3, "linear")
      OBVIOUS
    <2> HIDE DEF q3, S3, S4
    <2>2. Ranked(q4, S4, Rank("linear"))
      BY <1>4, <2>1, Ranks, OneMoreChannel
    <2> QED
      BY <2>2, Ranks
  <1>6. S4 = {c \in Channels : Needs(c) \subseteq set}
    BY Ranks
  <1>7. q4 = Enabled(set)
    <2>1. When("email", set) \in Seq(Channels)
      <3>1. "email" \in Channels
        BY Ranks
      <3>2. <<"email">> \in Seq(Channels) /\ <<>> \in Seq(Channels)
        BY <3>1
      <3> QED
        BY <3>2 DEF When
    <2>2. q1 = When("email", set)
      BY <2>1, ConcatEmptySeq
    <2> QED
      BY <2>2 DEF Enabled
  <1> QED
    BY <1>5, <1>6, <1>7

Tryings == {"delivered", "refused", "timeout", "unread", "too late"}

TurnTypes ==
    /\ queue \in Seq(Channels)
    /\ left \in 0..Budget
    /\ metric \in {"none", "off", "sent", "failed"}
    /\ result \in [Channels -> {"none", "due"} \cup Tryings]

\* The channels in the queue are the ones that are due, in order.
InOrder ==
    \A a, b \in 1..Len(queue) : a < b => Rank(queue[a]) < Rank(queue[b])

QueuedAreDue == \A a \in 1..Len(queue) : result[queue[a]] = "due"

DueAreQueued ==
    \A c \in Channels :
        result[c] = "due" => \E a \in 1..Len(queue) : queue[a] = c

\* Every channel tried comes before them.
TriedBefore ==
    \A c \in Channels :
        result[c] \in Tryings => \A a \in 1..Len(queue) : Rank(c) < Rank(queue[a])

\* The time of those still to come is only used up by one that timed out.
OutOfTime ==
    left = 0 /\ queue # <<>> => \E d \in Channels : result[d] = "timeout"

LateAfterTimeout ==
    \A c \in Channels :
        result[c] = "too late" =>
            \E d \in Channels : Rank(d) < Rank(c) /\ result[d] = "timeout"

Turns ==
    /\ TurnTypes
    /\ InOrder
    /\ QueuedAreDue
    /\ DueAreQueued
    /\ TriedBefore
    /\ OutOfTime
    /\ LateAfterTimeout
    /\ metric # "none" => queue = <<>>

LEMMA TurnsSoFar == Turns => EveryChannelHasItsTurn
  <1> SUFFICES ASSUME Turns, metric \in {"sent", "failed"}, NEW c \in Channels
               PROVE  /\ result[c] # "due"
                      /\ result[c] = "too late" =>
                            \E d \in Channels :
                                Rank(d) < Rank(c) /\ result[d] = "timeout"
    BY DEF EveryChannelHasItsTurn
  <1>1. queue = <<>>
    BY DEF Turns
  <1>2. 1..Len(queue) = {}
    BY <1>1
  <1>3. DueAreQueued /\ LateAfterTimeout
    BY DEF Turns
  <1>4. result[c] # "due"
    BY <1>2, <1>3 DEF DueAreQueued
  <1> QED
    BY <1>3, <1>4 DEF LateAfterTimeout

LEMMA NoTurns == Quiet => Turns
  <1> SUFFICES ASSUME Quiet PROVE Turns
    OBVIOUS
  <1>1. queue = <<>> /\ Len(queue) = 0 /\ 1..0 = {} /\ queue \in Seq(Channels)
    BY DEF Quiet
  <1>2. 0 \in 0..Budget
    BY BudgetAssumption
  <1>3. result = [c \in Channels |-> "none"] /\ left = 0 /\ metric = "none"
    BY DEF Quiet
  <1> QED
    BY <1>1, <1>2, <1>3 DEF Turns, Tryings, TurnTypes, InOrder, QueuedAreDue,
                            DueAreQueued, TriedBefore, OutOfTime, LateAfterTimeout

LEMMA AllTurns ==
  ASSUME NEW set, Announce(set)
  PROVE  Turns'
  <1> DEFINE S == {c \in Channels : Needs(c) \subseteq set}
             q == Enabled(set)
  <1>1. /\ queue' = q /\ left' = Budget
        /\ result' = [c \in Channels |->
                        IF Needs(c) \subseteq set THEN "due" ELSE "none"]
        /\ metric' = IF q = <<>> THEN "off" ELSE "none"
    BY DEF Announce
  <1>2. Ranked(q, S, 4)
    BY EnabledChannels
  <1>3. \A c \in Channels : /\ result'[c] \in {"none", "due"}
                            /\ result'[c] = "due" <=> c \in S
    BY <1>1
  <1>4. Budget \in 0..Budget /\ Budget # 0
    BY BudgetAssumption
  <1>5. result' \in [Channels -> {"none", "due"} \cup Tryings]
    BY <1>1
  <1>6. \A s : s \in {"none", "due"} => s \notin Tryings
    BY DEF Tryings
  <1>7. \A a \in 1..Len(q) : q[a] \in S /\ q[a] \in Channels
    BY <1>2 DEF Ranked
  <1> HIDE DEF S, q
  <1>8. \A c \in Channels : result'[c] \notin Tryings /\ result'[c] # "too late"
    BY <1>3, <1>6 DEF Tryings
  <1>9. \A a \in 1..Len(q) : result'[q[a]] = "due"
    BY <1>3, <1>7
  <1>10. \A c \in Channels : result'[c] = "due" => \E a \in 1..Len(q) : q[a] = c
    BY <1>2, <1>3 DEF Ranked
  <1> QED
    BY <1>1, <1>2, <1>4, <1>5, <1>8, <1>9, <1>10
       DEF Turns, Ranked, TurnTypes, InOrder, QueuedAreDue, DueAreQueued,
           TriedBefore, OutOfTime, LateAfterTimeout

\* One channel's turn: it ends in time, or it uses up what is left.
TakesTurn(how, time) ==
    /\ queue # <<>>
    /\ how \in Tryings
    /\ time \in 0..left
    /\ Tried(Head(queue), how, time)
    /\ time = left => left = 0 \/ how = "timeout" \/ BodyIsOptional(Head(queue))
    /\ how = "too late" => left = 0

\* It leaves the queue, and the ones after it are due.
LEMMA OneTurn ==
  ASSUME Turns, NEW how, NEW time, TakesTurn(how, time)
  PROVE  Turns'
  <1> DEFINE c == Head(queue)
  <1>0. /\ TurnTypes /\ InOrder /\ QueuedAreDue /\ DueAreQueued /\ TriedBefore
        /\ OutOfTime /\ LateAfterTimeout /\ metric = "none"
    BY DEF Turns, TakesTurn
  <1>1. /\ queue \in Seq(Channels) /\ Len(queue) \in Nat /\ Len(queue) # 0
        /\ result \in [Channels -> {"none", "due"} \cup Tryings]
        /\ left \in Nat /\ Budget \in Nat /\ left <= Budget
    <2>1. queue # <<>>
      BY DEF TakesTurn
    <2>2. queue \in Seq(Channels) /\ left \in 0..Budget
          /\ result \in [Channels -> {"none", "due"} \cup Tryings]
      BY <1>0 DEF TurnTypes
    <2>3. Len(queue) \in Nat /\ Len(queue) # 0
      BY <2>1, <2>2, LenProperties, EmptySeq
    <2>4. left \in Nat /\ Budget \in Nat /\ left <= Budget
      BY <2>2, BudgetAssumption
    <2> QED
      BY <2>2, <2>3, <2>4
  <1>2. /\ c \in Channels /\ c = queue[1] /\ Tail(queue) \in Seq(Channels)
        /\ Len(Tail(queue)) = Len(queue) - 1
        /\ \A k \in 1..Len(Tail(queue)) : Tail(queue)[k] = queue[k + 1]
    BY <1>1, HeadTailProperties
  <1>3. /\ result' = [result EXCEPT ![c] = how] /\ left' = left - time
        /\ queue' = Tail(queue) /\ metric' = metric
    BY DEF TakesTurn, Tried, AfterOne
  <1> HIDE DEF c
  <1>4. /\ queue' \in Seq(Channels) /\ Len(queue') = Len(queue) - 1
        /\ \A k \in 1..Len(queue') :
              /\ k + 1 \in 1..Len(queue) /\ queue'[k] = queue[k + 1]
              /\ k + 1 > 1
        /\ 1 \in 1..Len(queue)
    BY <1>1, <1>2, <1>3
  <1>5. \A d \in Channels : Rank(d) \in Nat
    BY Ranks
  <1>6. /\ result' \in [Channels -> {"none", "due"} \cup Tryings]
        /\ result'[c] = how
        /\ \A d \in Channels : d # c => result'[d] = result[d]
    BY <1>1, <1>2, <1>3 DEF TakesTurn
  <1>7. how \in Tryings /\ how # "due" /\ how # "none" /\ queue # <<>>
    BY DEF TakesTurn, Tryings
  <1>8. \A k \in 1..Len(queue') : Rank(c) < Rank(queue'[k]) /\ queue'[k] # c
                                  /\ queue'[k] \in Channels
    <2>1. \A k \in 1..Len(queue') : Rank(c) < Rank(queue'[k])
      BY <1>0, <1>2, <1>4 DEF InOrder
    <2>2. \A k \in 1..Len(queue') : queue'[k] \in Channels
      BY <1>4, ElementOfSeq
    <2> QED
      BY <1>2, <1>5, <2>1, <2>2
  <1>9. /\ left' \in 0..Budget /\ metric' \in {"none", "off", "sent", "failed"}
        /\ left' = 0 => time = left
    <2>1. time \in 0..left
      BY Zenon DEF TakesTurn
    <2>2. time \in Nat /\ time <= left
      BY <1>1, <2>1
    <2> QED
      BY <1>0, <1>1, <1>3, <2>2
  <1>10. \A a, b \in 1..Len(queue') : a < b => Rank(queue'[a]) < Rank(queue'[b])
    <2> SUFFICES ASSUME NEW a \in 1..Len(queue'), NEW b \in 1..Len(queue'), a < b
                 PROVE  Rank(queue'[a]) < Rank(queue'[b])
      OBVIOUS
    <2>1. /\ a + 1 \in 1..Len(queue) /\ b + 1 \in 1..Len(queue)
          /\ queue'[a] = queue[a + 1] /\ queue'[b] = queue[b + 1]
      BY <1>4
    <2>2. a + 1 < b + 1
      BY <1>1, <1>4
    <2> QED
      BY <1>0, <2>1, <2>2 DEF InOrder
  <1>11. \A a \in 1..Len(queue') : result'[queue'[a]] = "due"
    BY <1>0, <1>4, <1>6, <1>8 DEF QueuedAreDue
  <1>12. \A d \in Channels :
            result'[d] = "due" => \E a \in 1..Len(queue') : queue'[a] = d
    <2> SUFFICES ASSUME NEW d \in Channels, result'[d] = "due"
                 PROVE  \E a \in 1..Len(queue') : queue'[a] = d
      OBVIOUS
    <2>1. d # c /\ result[d] = "due"
      BY <1>6, <1>7
    <2>2. PICK a \in 1..Len(queue) : queue[a] = d
      BY <1>0, <2>1 DEF DueAreQueued
    <2>3. a # 1 /\ a - 1 \in 1..Len(queue') /\ a - 1 + 1 = a
      BY <1>1, <1>2, <1>4, <2>1, <2>2
    <2> QED
      BY <1>4, <2>2, <2>3
  <1>13. \A d \in Channels :
            result'[d] \in Tryings =>
                \A a \in 1..Len(queue') : Rank(d) < Rank(queue'[a])
    <2> SUFFICES ASSUME NEW d \in Channels, result'[d] \in Tryings,
                        NEW a \in 1..Len(queue')
                 PROVE  Rank(d) < Rank(queue'[a])
      OBVIOUS
    <2>1. CASE d = c
      BY <1>8, <2>1
    <2>2. CASE d # c
      BY <1>0, <1>4, <1>6, <2>2 DEF TriedBefore
    <2> QED
      BY <2>1, <2>2
  <1>14. left = 0 => \E d \in Channels : Rank(d) < Rank(c) /\ result[d] = "timeout"
    <2> SUFFICES ASSUME left = 0
                 PROVE  \E d \in Channels : Rank(d) < Rank(c) /\ result[d] = "timeout"
      OBVIOUS
    <2>1. PICK d \in Channels : result[d] = "timeout"
      BY <1>0, <1>7 DEF OutOfTime
    <2>2. Rank(d) < Rank(queue[1])
      BY <1>0, <1>4, <2>1 DEF TriedBefore, Tryings
    <2> QED
      BY <1>2, <2>1, <2>2
  <1>15. result[c] = "due"
    BY <1>0, <1>2, <1>4 DEF QueuedAreDue
  <1>16. \A d \in Channels : result[d] = "timeout" => result'[d] = "timeout"
    BY <1>6, <1>15
  <1>17. left' = 0 /\ queue' # <<>> => \E d \in Channels : result'[d] = "timeout"
    <2>1. left' = 0 => left = 0 \/ how = "timeout" \/ BodyIsOptional(c)
      BY <1>9, Zenon DEF TakesTurn, c
    <2>2. CASE left = 0
      BY <1>14, <1>16, <2>2
    <2>3. CASE how = "timeout"
      BY <1>2, <1>6, <2>3
    <2>4. CASE BodyIsOptional(c)
      <3>1. Rank(c) = 4 /\ \A d \in Channels : Rank(d) <= 4
        BY <2>4, Ranks DEF BodyIsOptional
      <3>2. 1..Len(queue') = {}
        BY <1>8, <3>1, Ranks
      <3>3. Len(queue') = 0
        BY <1>1, <1>4, <3>2
      <3>4. queue' = <<>>
        BY <1>4, <3>3, EmptySeq
      <3> QED
        BY <3>4
    <2> QED
      BY <2>1, <2>2, <2>3, <2>4
  <1>18. \A d \in Channels :
            result'[d] = "too late" =>
                \E f \in Channels : Rank(f) < Rank(d) /\ result'[f] = "timeout"
    <2> SUFFICES ASSUME NEW d \in Channels, result'[d] = "too late"
                 PROVE  \E f \in Channels : Rank(f) < Rank(d) /\ result'[f] = "timeout"
      OBVIOUS
    <2>1. CASE d = c
      BY <1>6, <1>14, <1>16, <2>1 DEF TakesTurn
    <2>2. CASE d # c
      <3>1. \E f \in Channels : Rank(f) < Rank(d) /\ result[f] = "timeout"
        BY <1>0, <1>6, <2>2 DEF LateAfterTimeout
      <3> QED
        BY <1>16, <3>1
    <2> QED
      BY <2>1, <2>2
  <1>19. metric' = "none"
    BY <1>0, <1>3
  <1> QED
    <2>1. TurnTypes'
      BY <1>4, <1>6, <1>9 DEF TurnTypes
    <2>2. InOrder' /\ QueuedAreDue' /\ DueAreQueued'
      BY <1>10, <1>11, <1>12 DEF InOrder, QueuedAreDue, DueAreQueued
    <2>3. TriedBefore' /\ OutOfTime' /\ LateAfterTimeout'
      BY <1>13, <1>17, <1>18 DEF TriedBefore, OutOfTime, LateAfterTimeout
    <2> QED
      BY <1>19, <2>1, <2>2, <2>3 DEF Turns

LEMMA TurnsKept == Turns /\ (Try \/ Count) => Turns'
  <1> SUFFICES ASSUME Turns, Try \/ Count PROVE Turns'
    OBVIOUS
  <1>1. CASE Count
    <2>1. UNCHANGED <<queue, left, result>> /\ queue = <<>>
          /\ metric' \in {"sent", "failed"}
      BY <1>1 DEF Count
    <2>2. TurnTypes'
      BY <2>1 DEF Turns, TurnTypes
    <2>3. InOrder' /\ QueuedAreDue' /\ DueAreQueued'
      BY <2>1 DEF Turns, InOrder, QueuedAreDue, DueAreQueued
    <2>4. TriedBefore' /\ OutOfTime' /\ LateAfterTimeout'
      BY <2>1 DEF Turns, TriedBefore, OutOfTime, LateAfterTimeout
    <2> QED
      BY <2>1, <2>2, <2>3, <2>4 DEF Turns
  <1>2. CASE Try
    <2>1. left \in Nat
      BY BudgetAssumption DEF Turns, TurnTypes
    <2>2. queue # <<>>
      BY <1>2 DEF Try
    <2>3. CASE \E time \in 0..Budget, how \in Judged :
                  time < left /\ Tried(Head(queue), how, time)
      <3>1. PICK time \in 0..Budget, how \in Judged :
                  time < left /\ Tried(Head(queue), how, time)
        BY <2>3
      <3>2. how \in Tryings /\ how # "too late" /\ Tried(Head(queue), how, time)
        BY <3>1 DEF Tryings, Judged
      <3>3. time \in 0..left /\ time # left /\ left # 0
        BY <2>1, <3>1
      <3> QED
        BY <2>2, <3>2, <3>3, OneTurn DEF TakesTurn
    <2>4. CASE left > 0 /\ Tried(Head(queue), "timeout", left)
      <3>1. left \in 0..left /\ left # 0 /\ "timeout" \in Tryings
        BY <2>1, <2>4 DEF Tryings
      <3> QED
        <4>1. TakesTurn("timeout", left)
          BY <2>2, <2>4, <3>1 DEF TakesTurn
        <4> QED
          BY <4>1, OneTurn
    <2>5. CASE /\ left > 0 /\ BodyIsOptional(Head(queue))
               /\ Tried(Head(queue), "unread", left)
      <3>1. left \in 0..left /\ left # 0 /\ "unread" \in Tryings
        BY <2>1, <2>5 DEF Tryings
      <3>2. TakesTurn("unread", left)
        BY <2>2, <2>5, <3>1 DEF TakesTurn
      <3> QED
        BY <3>2, OneTurn
    <2>6. CASE left = 0 /\ Tried(Head(queue), "too late", 0)
      <3>1. "too late" \in Tryings
        BY DEF Tryings
      <3>2. left = 0 /\ 0 \in 0..left
        <4>1. left = 0
          BY <2>6
        <4> QED
          BY <4>1
      <3>3. TakesTurn("too late", 0)
        BY <2>2, <2>6, <3>1, <3>2 DEF TakesTurn
      <3> QED
        BY <3>3, OneTurn
    <2> QED
      BY <1>2, <2>3, <2>4, <2>5, <2>6 DEF Try
  <1> QED
    BY <1>1, <1>2

-----------------------------------------------------------------------------
(* The reads *)

\* What a sequence of sequences holds once it is flattened.
LEMMA FlattenElems ==
  ASSUME NEW S, NEW m \in Nat, NEW ss \in [1..m -> Seq(S)],
         \A k \in 1..m : Distinct(ss[k]),
         \A k, l \in 1..m : k # l => Elems(ss[k]) \cap Elems(ss[l]) = {}
  PROVE  /\ FlattenSeq(ss) \in Seq(S)
         /\ Elems(FlattenSeq(ss)) = UNION {Elems(ss[k]) : k \in 1..m}
         /\ Distinct(FlattenSeq(ss))
  <1> DEFINE T == Seq(S)
  <1>1. ss \in Seq(T) /\ Len(ss) = m
    BY SeqDef, LenProperties
  <1>2. CASE m = 0
    <2>1. ss = <<>>
      BY <1>1, <1>2, EmptySeq
    <2>2. FlattenSeq(ss) = ss
      BY <1>1, <1>2 DEF FlattenSeq
    <2>3. 1..m = {}
      BY <1>2
    <2> QED
      BY <2>1, <2>2, <2>3, NoElems, EmptySeq
  <1>3. CASE m # 0
    <2> DEFINE F(f) == [n \in 1..Len(ss) |->
                           IF n = 1 THEN ss[n] ELSE f[n - 1] \o ss[n]]
               flat == CHOOSE f : f = F(f)
               round == [k \in 1..m |-> [x \in T |-> x \o ss[k]]]
    <2>1. \A x \in T, y \in T : x \o y \in T
      BY ConcatProperties
    <2>2. round \in [1..m -> [T -> T]] /\ <<>> \in T
      <3>1. \A k \in 1..m : ss[k] \in T
        OBVIOUS
      <3> HIDE DEF T
      <3>2. round \in [1..m -> [T -> T]]
        BY <2>1, <3>1
      <3> QED
        BY <3>2 DEF T
    <2>3. PICK g : IsLoop(g, m, T, <<>>, round)
      <3> HIDE DEF round, T
      <3> QED
        BY <2>2, LoopExists
    <2>4. g[0] = <<>> /\ \A k \in 1..m : g[k] = g[k - 1] \o ss[k]
      <3>1. /\ g \in [0..m -> T] /\ g[0] = <<>>
            /\ \A k \in 1..m : g[k] = round[k][g[k - 1]]
        BY <2>3 DEF IsLoop
      <3>2. \A k \in 1..m : k - 1 \in 0..m
        OBVIOUS
      <3> HIDE DEF T
      <3> QED
        BY <3>1, <3>2
    <2> DEFINE h == [n \in 1..m |-> g[n]]
    <2>5. h = F(h)
      <3>1. 1 \in 1..m => g[1] = ss[1]
        <4>1. \A y \in Seq(S) : <<>> \o y = y
          BY ConcatEmptySeq
        <4>2. 1 \in 1..m => g[1] = g[1 - 1] \o ss[1] /\ ss[1] \in Seq(S)
          BY <2>4
        <4>3. 1 - 1 = 0
          OBVIOUS
        <4> QED
          BY <2>4, <4>1, <4>2, <4>3
      <3>2. \A n \in 1..m : n # 1 => n - 1 \in 1..m
        OBVIOUS
      <3> QED
        BY <1>1, <2>4, <3>1, <3>2
    <2>6. flat = F(flat)
      <3> HIDE DEF F, h
      <3> QED
        BY <2>5
    <2>7. /\ flat[1] = ss[1]
          /\ \A k \in 1..m : k # 1 => flat[k] = flat[k - 1] \o ss[k]
      <3> HIDE DEF flat
      <3>1. 1 \in 1..m
        BY <1>3
      <3> QED
        BY <1>1, <2>6, <3>1
    <2>8. FlattenSeq(ss) = flat[m]
      BY <1>1, <1>3 DEF FlattenSeq
    <2> HIDE DEF flat
    <2> DEFINE Upto(k) == UNION {Elems(ss[j]) : j \in 1..k}
               Fine(k) == /\ flat[k] \in Seq(S)
                          /\ Elems(flat[k]) = Upto(k)
                          /\ Distinct(flat[k])
               Good == {k \in 0..m : k = 0 \/ Fine(k)}
    <2>9. ASSUME NEW k \in 1..m, k - 1 \in Good PROVE k \in Good
      <3>1. CASE k = 1
        <4>1. 1..1 = {1}
          OBVIOUS
        <4>2. Upto(1) = Elems(ss[1])
          BY <4>1
        <4> QED
          BY <2>7, <3>1, <4>2
      <3>2. CASE k # 1
        <4> DEFINE j == k - 1
        <4>1. j \in 1..m /\ 1..k = (1..j) \cup {k} /\ k \notin 1..j /\ 1..j \subseteq 1..m
          BY <3>2
        <4>2. Fine(j) /\ flat[k] = flat[j] \o ss[k]
          BY <2>7, <2>9, <3>2, <4>1
        <4> HIDE DEF j
        <4>3. Upto(k) = Upto(j) \cup Elems(ss[k])
          BY <4>1
        <4>4. Upto(j) \cap Elems(ss[k]) = {}
          BY <4>1
        <4>5. /\ flat[j] \in Seq(S) /\ ss[k] \in Seq(S)
              /\ Distinct(flat[j]) /\ Distinct(ss[k])
              /\ Elems(flat[j]) \cap Elems(ss[k]) = {}
          BY <4>2, <4>4
        <4>6. /\ flat[k] \in Seq(S) /\ Distinct(flat[k])
              /\ Elems(flat[k]) = Elems(flat[j]) \cup Elems(ss[k])
          BY <4>2, <4>5, ConcatElems
        <4>7. Fine(k)
          <5> HIDE DEF Upto
          <5> QED
            BY <4>2, <4>3, <4>6
        <4> QED
          BY <4>7
      <3> QED
        BY <3>1, <3>2
    <2>10. m \in Good
      <3>1. 0 \in Good
        OBVIOUS
      <3>2. \A k \in 1..m : k - 1 \in Good => k \in Good
        BY <2>9
      <3> HIDE DEF Good
      <3>3. \A k \in 0..m : k \in Good
        BY <3>1, <3>2, UpTo
      <3> QED
        BY <3>3
    <2>11. Fine(m)
      BY <1>3, <2>10
    <2> QED
      BY <2>8, <2>11
  <1> QED
    BY <1>2, <1>3

Reads ==
    {<<"events">>, <<"object">>, <<"pods">>}
    \cup {<<"logs", p, c>> : p \in Nat, c \in Nat}
    \cup {<<"node", p>> : p \in Nat}

\* What is read of one pod.
OfPod(p) ==
    {<<"logs", p, c>> : c \in 1..Containers}
    \cup (IF p \in object.placed THEN {<<"node", p>>} ELSE {})

LEMMA ReadsOfPod ==
  ASSUME NEW p \in Nat
  PROVE  /\ PodReads(p) \in Seq(Reads)
         /\ Elems(PodReads(p)) = OfPod(p)
         /\ Distinct(PodReads(p))
         /\ \A r \in OfPod(p) : r[1] \in {"logs", "node"} /\ r[2] = p
  <1> DEFINE logs == [c \in 1..Containers |-> <<"logs", p, c>>]
             node == IF p \in object.placed THEN <<<<"node", p>>>> ELSE <<>>
  <1>1. Containers \in Nat
    BY EnrichmentAssumption
  <1>2. \A c \in 1..Containers : /\ <<"logs", p, c>> \in Reads
                                 /\ <<"logs", p, c>>[1] = "logs"
                                 /\ <<"logs", p, c>>[2] = p
                                 /\ <<"logs", p, c>>[3] = c
    BY <1>1 DEF Reads
  <1>3. <<"node", p>> \in Reads /\ <<"node", p>>[1] = "node" /\ <<"node", p>>[2] = p
    BY DEF Reads
  <1>4. /\ logs \in Seq(Reads) /\ Len(logs) = Containers
        /\ \A c \in 1..Containers : logs[c] = <<"logs", p, c>>
    <2>1. logs \in [1..Containers -> Reads]
      BY <1>2
    <2> QED
      BY <1>1, <2>1, SeqDef, LenProperties
  <1>5. Elems(logs) = {<<"logs", p, c>> : c \in 1..Containers} /\ Distinct(logs)
    <2> HIDE DEF logs
    <2>1. \A a \in 1..Containers : logs[a][3] = a
      BY <1>2, <1>4
    <2>2. \A a, b \in 1..Len(logs) : logs[a] = logs[b] => a = b
      BY <1>4, <2>1, Zenon
    <2>3. Elems(logs) = {logs[c] : c \in 1..Containers}
      BY <1>4 DEF Elems
    <2>4. Elems(logs) = {<<"logs", p, c>> : c \in 1..Containers}
      BY <1>4, <2>3, Zenon
    <2> QED
      BY <2>2, <2>4 DEF Distinct
  <1>6. /\ node \in Seq(Reads) /\ Distinct(node)
        /\ Elems(node) = IF p \in object.placed THEN {<<"node", p>>} ELSE {}
    <2>1. CASE p \in object.placed
      BY <1>3, <2>1, OneElem
    <2>2. CASE p \notin object.placed
      BY <2>2, NoElems
    <2> QED
      BY <2>1, <2>2
  <1>7. Elems(logs) \cap Elems(node) = {}
    BY <1>2, <1>3, <1>5, <1>6
  <1>8. PodReads(p) = logs \o node
    BY DEF PodReads
  <1>9. OfPod(p) = Elems(logs) \cup Elems(node)
    BY <1>5, <1>6 DEF OfPod
  <1>10. \A r \in OfPod(p) : r[1] \in {"logs", "node"} /\ r[2] = p
    BY <1>2, <1>3 DEF OfPod
  <1> HIDE DEF logs, node
  <1> QED
    BY <1>4, <1>5, <1>6, <1>7, <1>8, <1>9, <1>10, ConcatElems

LEMMA ReadsOfPods ==
  ASSUME NEW m \in Nat
  PROVE  LET all == FlattenSeq([p \in 1..m |-> PodReads(p)])
         IN  /\ all \in Seq(Reads)
             /\ Elems(all) = UNION {OfPod(p) : p \in 1..m}
             /\ Distinct(all)
  <1> DEFINE ss == [p \in 1..m |-> PodReads(p)]
  <1>1. \A p \in 1..m : /\ ss[p] \in Seq(Reads) /\ Elems(ss[p]) = OfPod(p)
                        /\ Distinct(ss[p])
    BY ReadsOfPod
  <1>2. ss \in [1..m -> Seq(Reads)]
    BY <1>1
  <1>3. \A p, q \in 1..m : p # q => OfPod(p) \cap OfPod(q) = {}
    <2>1. \A p \in 1..m : \A r \in OfPod(p) : r[2] = p
      BY ReadsOfPod
    <2> QED
      BY <2>1
  <1> HIDE DEF ss
  <1>4. \A p, q \in 1..m : p # q => Elems(ss[p]) \cap Elems(ss[q]) = {}
    BY <1>1, <1>3
  <1>5. /\ FlattenSeq(ss) \in Seq(Reads) /\ Distinct(FlattenSeq(ss))
        /\ Elems(FlattenSeq(ss)) = UNION {Elems(ss[p]) : p \in 1..m}
    BY <1>1, <1>2, <1>4, FlattenElems
  <1>6. UNION {Elems(ss[p]) : p \in 1..m} = UNION {OfPod(p) : p \in 1..m}
    BY <1>1
  <1> QED
    BY <1>5, <1>6 DEF ss

\* What is due, pod by pod.
Base ==
    {<<"events">>}
    \cup (IF object.kind = "Other" THEN {<<"kind">>} ELSE {<<"object">>})
    \cup (IF <<"object">> \in snapshot /\ object.selector THEN {<<"pods">>} ELSE {})

Found == {p \in 1..NumPods : PodFound(p)}

LEMMA ObjectKinds ==
  ASSUME object \in Objects
  PROVE  /\ object.kind = "Pod" => /\ object.pods = 1 /\ ~object.selector
                                   /\ object.placed \subseteq {1}
         /\ object.kind = "Other" => object.pods = 0 /\ ~object.selector
                                     /\ object.placed = {}
         /\ object.pods \in 0..NumPods /\ object.selector \in BOOLEAN
         /\ object.placed \subseteq 1..NumPods
  <1>1. NumPods \in Nat /\ 1 \in 1..NumPods /\ 0 \in 0..NumPods /\ 1 \in 0..NumPods
    BY EnrichmentAssumption
  <1>2. CASE object \in [kind : {"Pod"}, pods : {1}, selector : {FALSE},
                        placed : SUBSET {1}]
    <2>1. /\ object.kind = "Pod" /\ object.pods = 1 /\ object.selector = FALSE
          /\ object.placed \subseteq {1}
      BY <1>2
    <2> QED
      BY <1>1, <2>1
  <1>3. CASE object \in [kind : Workloads, pods : 0..NumPods, selector : BOOLEAN,
                        placed : {{}, 1..NumPods}]
    <2>1. /\ object.kind \in {"Deployment", "ReplicaSet"}
          /\ object.pods \in 0..NumPods /\ object.selector \in BOOLEAN
          /\ object.placed \in {{}, 1..NumPods}
      BY <1>3 DEF Workloads
    <2> QED
      BY <2>1
  <1>4. CASE object = NoObject
    <2>1. /\ object.kind = "Other" /\ object.pods = 0 /\ object.selector = FALSE
          /\ object.placed = {}
      BY <1>4 DEF NoObject
    <2> QED
      BY <1>1, <2>1
  <1> QED
    BY <1>2, <1>3, <1>4 DEF Objects

LEMMA DueIs ==
  object \in Objects => Due = Base \cup UNION {OfPod(p) : p \in Found}
  <1> SUFFICES ASSUME object \in Objects
               PROVE  Due = Base \cup UNION {OfPod(p) : p \in Found}
    OBVIOUS
  <1>1. {<<"kind">> : k \in {object.kind} \cap {"Other"}}
           \cup {<<"object">> : k \in {object.kind} \ {"Other"}}
           = IF object.kind = "Other" THEN {<<"kind">>} ELSE {<<"object">>}
    OBVIOUS
  <1>2. {<<"pods">> : o \in {s \in snapshot : s = <<"object">> /\ object.selector}}
           = IF <<"object">> \in snapshot /\ object.selector
             THEN {<<"pods">>} ELSE {}
    OBVIOUS
  <1>3. {<<"logs", p, c>> : p \in Found, c \in 1..Containers}
           \cup {<<"node", p>> : p \in {q \in object.placed : PodFound(q)}}
           = UNION {OfPod(p) : p \in Found}
    <2>1. {q \in object.placed : PodFound(q)} = {q \in Found : q \in object.placed}
      BY ObjectKinds DEF Found
    <2> HIDE DEF Found
    <2> QED
      BY <2>1 DEF OfPod
  <1> QED
    BY <1>1, <1>2, <1>3 DEF Due, Base, Found

\* The reads that a pod is not part of can be told from those it is.
LEMMA BaseReads ==
  \A r \in Base : r[1] \in {"events", "kind", "object", "pods"}
  BY DEF Base

\* A read that succeeded calls for what BuildSnapshot reads next, and for
\* nothing that was called for before.
LEMMA FollowUpsAreDue ==
  ASSUME object \in Objects, object' = object,
         NEW r \in Due, r \in Reads, r \notin snapshot, snapshot \subseteq Due,
         snapshot' = snapshot \cup {r}
  PROVE  /\ FollowUps(r) \in Seq(Reads) /\ Distinct(FollowUps(r))
         /\ Due' = Due \cup Elems(FollowUps(r))
         /\ Elems(FollowUps(r)) \cap Due = {}
  <1>1. /\ Due = Base \cup UNION {OfPod(p) : p \in Found}
        /\ Due' = Base' \cup UNION {OfPod(p) : p \in Found'}
    <2>1. Due = Base \cup UNION {OfPod(p) : p \in Found}
      BY DueIs
    <2>2. (Due = Base \cup UNION {OfPod(p) : p \in Found})'
      <3>1. (object \in Objects)'
        BY DEF Objects, NoObject, Workloads
      <3> QED
        BY <3>1, DueIs, PTL
    <2>3. \A p : OfPod(p)' = OfPod(p)
      BY DEF OfPod
    <2> QED
      BY <2>1, <2>2, <2>3
  <1> DEFINE Obj == <<"object">>
             Pds == <<"pods">>
  <1>2. /\ \A p \in Nat : \A x \in OfPod(p) : x[1] \in {"logs", "node"}
        /\ Obj[1] = "object" /\ Pds[1] = "pods" /\ Obj # Pds
        /\ <<"events">>[1] = "events" /\ <<"kind">>[1] = "kind"
        /\ Found \subseteq Nat
    <2>1. Found \subseteq Nat
      BY EnrichmentAssumption DEF Found
    <2>2. \A p \in Nat : \A x \in OfPod(p) : x[1] \in {"logs", "node"}
      BY ReadsOfPod
    <2> QED
      BY <2>1, <2>2
  <1>3. /\ Obj \in Due => object.kind # "Other"
        /\ Pds \in Due => Obj \in snapshot /\ object.selector
    <2>1. Obj \in Due => Obj \in Base
      BY <1>1, <1>2
    <2>2. Pds \in Due => Pds \in Base
      BY <1>1, <1>2
    <2> QED
      BY <1>2, <2>1, <2>2 DEF Base
  <1>4. /\ r[1] = "object" => r = Obj
        /\ r[1] = "pods" => r = Pds
    BY DEF Reads
  <1>5. \A p : /\ PodFound(p) <=> \/ p = 1 /\ object.kind = "Pod" /\ Obj \in snapshot
                                  \/ /\ p \in 1..object.pods /\ Pds \in snapshot
                                     /\ p <= PodCap
               /\ PodFound(p)' <=>
                     \/ p = 1 /\ object.kind = "Pod" /\ Obj \in snapshot'
                     \/ /\ p \in 1..object.pods /\ Pds \in snapshot' /\ p <= PodCap
    <2>1. PodCap = IF MaxPods > 0 THEN MaxPods ELSE 3
      BY EnrichmentAssumption DEF PodCap
    <2> QED
      BY <2>1 DEF PodFound
  <1>6. CASE r[1] \notin {"object", "pods"}
    <2>1. r # Obj /\ r # Pds
      BY <1>2, <1>6
    <2>2. FollowUps(r) = <<>>
      BY <1>6 DEF FollowUps
    <2>3. Base' = Base /\ Found' = Found
      BY <1>5, <2>1 DEF Base, Found
    <2> QED
      BY <1>1, <2>2, <2>3, NoElems, EmptySeq
  <1>7. CASE r[1] = "object"
    <2>1. r = Obj /\ object.kind # "Other" /\ Obj \notin snapshot /\ Obj \in snapshot'
      BY <1>3, <1>4, <1>7
    <2>2. Pds \notin snapshot /\ Pds \notin snapshot'
      BY <1>2, <1>3, <2>1
    <2>3. Found = {}
      BY <1>5, <2>1, <2>2 DEF Found
    <2>4. Base = {<<"events">>, Obj} /\ Due = Base /\ Pds \notin Due
      BY <1>1, <1>2, <2>1, <2>3 DEF Base
    <2>5. Base' = Base \cup (IF object.selector THEN {Pds} ELSE {})
      BY <2>1 DEF Base
    <2>6. CASE object.kind = "Pod"
      <3>1. FollowUps(r) = PodReads(1)
        <4>1. ~object.selector
          BY <2>6, ObjectKinds
        <4> QED
          BY <1>7, <2>6, <4>1 DEF FollowUps
      <3>2. Found' = {1}
        <4>1. \A p : PodFound(p)' <=> p = 1
          BY <1>5, <2>1, <2>2, <2>6
        <4>2. 1 \in 1..NumPods
          BY EnrichmentAssumption
        <4> QED
          BY <4>1, <4>2 DEF Found
      <3>3. Base' = Base
        BY <2>5, <2>6, ObjectKinds
      <3>4. OfPod(1) \cap Due = {}
        BY <1>2, <2>4
      <3>5. UNION {OfPod(p) : p \in Found'} = OfPod(1)
        BY <3>2
      <3>6. Due' = Due \cup OfPod(1)
        BY <1>1, <2>4, <3>3, <3>5
      <3> QED
        BY <3>1, <3>4, <3>6, ReadsOfPod
    <2>7. CASE object.kind # "Pod"
      <3>1. Found' = {}
        BY <1>5, <2>2, <2>7 DEF Found
      <3>2. CASE object.selector
        <4>1. FollowUps(r) = <<Pds>>
          BY <1>7, <2>7, <3>2 DEF FollowUps
        <4>2. Due' = Due \cup {Pds}
          BY <1>1, <2>4, <2>5, <3>1, <3>2
        <4>3. <<Pds>> \in Seq(Reads)
          BY DEF Reads
        <4> HIDE DEF Pds
        <4>4. Elems(<<Pds>>) = {Pds} /\ Distinct(<<Pds>>)
          BY OneElem
        <4> QED
          BY <2>4, <4>1, <4>2, <4>3, <4>4
      <3>3. CASE ~object.selector
        <4>1. FollowUps(r) = <<>>
          BY <1>7, <2>7, <3>3 DEF FollowUps
        <4>2. Due' = Due
          BY <1>1, <2>4, <2>5, <3>1, <3>3
        <4> QED
          BY <4>1, <4>2, NoElems, EmptySeq
      <3> QED
        BY <3>2, <3>3
    <2> QED
      BY <2>6, <2>7
  <1>8. CASE r[1] = "pods"
    <2> DEFINE kept == IF object.pods < PodCap THEN object.pods ELSE PodCap
    <2>1. /\ r = Pds /\ Obj \in snapshot /\ object.selector /\ Pds \notin snapshot
          /\ Pds \in snapshot'
      BY <1>3, <1>4, <1>8
    <2>2. object.kind # "Pod" /\ object.pods \in 0..NumPods
      BY <2>1, ObjectKinds
    <2>3. PodCap \in Nat /\ NumPods \in Nat /\ object.pods \in Nat
      BY <2>2, EnrichmentAssumption DEF PodCap
    <2>4. kept \in Nat /\ kept <= NumPods
      BY <2>2, <2>3
    <2>5. Found = {}
      BY <1>5, <2>1, <2>2 DEF Found
    <2>6. Found' = 1..kept
      <3>1. \A p : PodFound(p)' <=> p \in 1..object.pods /\ p <= PodCap
        BY <1>5, <2>1, <2>2
      <3>2. \A p : p \in 1..kept <=> p \in 1..object.pods /\ p <= PodCap
        BY <2>3
      <3>3. \A p : p \in 1..kept => p \in 1..NumPods
        BY <2>3, <2>4
      <3> HIDE DEF kept
      <3> QED
        BY <3>1, <3>2, <3>3 DEF Found
    <2>7. Base' = Base
      BY <2>1 DEF Base
    <2>8. FollowUps(r) = FlattenSeq([p \in 1..kept |-> PodReads(p)])
      BY <1>8 DEF FollowUps
    <2> HIDE DEF kept
    <2>9. /\ FollowUps(r) \in Seq(Reads) /\ Distinct(FollowUps(r))
          /\ Elems(FollowUps(r)) = UNION {OfPod(p) : p \in 1..kept}
      BY <2>4, <2>8, ReadsOfPods
    <2>10. Due = Base /\ Due' = Base \cup UNION {OfPod(p) : p \in 1..kept}
      BY <1>1, <2>5, <2>6, <2>7
    <2>11. (UNION {OfPod(p) : p \in 1..kept}) \cap Base = {}
      <3>1. \A p \in 1..kept : p \in Nat
        BY <2>4
      <3> QED
        BY <1>2, <3>1, BaseReads
    <2> QED
      BY <2>9, <2>10, <2>11
  <1> QED
    BY <1>6, <1>7, <1>8

\* While the context is collected, the reads made and the reads to come are
\* those that are due, each of them once.
Owed ==
    /\ object \in Objects
    /\ todo \in Seq(Reads) /\ Distinct(todo)
    /\ snapshot \cup partial \cup Elems(todo) = Due
    /\ snapshot \cap partial = {}
    /\ Elems(todo) \cap (snapshot \cup partial) = {}

Context == stage = "collect" => Owed

LEMMA FirstReads == EnrichInit => Owed
  <1> SUFFICES ASSUME EnrichInit PROVE Owed
    OBVIOUS
  <1> DEFINE Ev == <<"events">>
             Obj == <<"object">>
  <1>1. /\ object \in Objects /\ snapshot = {}
        /\ todo = IF object.kind = "Other" THEN <<Ev>> ELSE <<Ev, Obj>>
        /\ partial = IF object.kind = "Other" THEN {<<"kind">>} ELSE {}
    BY DEF EnrichInit
  <1>2. Found = {}
    BY <1>1 DEF Found, PodFound
  <1>3. Due = {Ev} \cup (IF object.kind = "Other" THEN {<<"kind">>} ELSE {Obj})
    BY <1>1, <1>2, DueIs DEF Base
  <1>4. /\ Ev \in Reads /\ Obj \in Reads /\ Ev[1] = "events" /\ Obj[1] = "object"
        /\ <<"kind">>[1] = "kind"
    BY DEF Reads
  <1>5. Ev # Obj /\ Ev # <<"kind">>
    BY <1>4
  <1> HIDE DEF Ev, Obj
  <1>7. CASE object.kind = "Other"
    <2>1. todo \in Seq(Reads) /\ Elems(todo) = {Ev} /\ Distinct(todo)
      BY <1>1, <1>4, <1>7, OneElem
    <2> QED
      BY <1>1, <1>3, <1>5, <1>7, <2>1 DEF Owed
  <1>8. CASE object.kind # "Other"
    <2>1. todo = <<Ev, Obj>> /\ todo \in Seq(Reads) /\ Len(todo) = 2
      BY <1>1, <1>4, <1>8
    <2>2. 1..2 = {1, 2} /\ todo[1] = Ev /\ todo[2] = Obj
      BY <2>1
    <2>3. Elems(todo) = {Ev, Obj} /\ Distinct(todo)
      BY <1>5, <2>1, <2>2 DEF Elems, Distinct
    <2> QED
      BY <1>1, <1>3, <1>8, <2>1, <2>3 DEF Owed
  <1> QED
    BY <1>7, <1>8

\* A failed read moves from what is to come to Partial; one that succeeds
\* moves to the snapshot and brings its follow-ups.
LEMMA CollectKept == Owed /\ Collect => Owed'
  <1> SUFFICES ASSUME Owed, Collect PROVE Owed'
    OBVIOUS
  <1> DEFINE r == Head(todo)
             rest == Tail(todo)
  <1>1. /\ object \in Objects /\ todo \in Seq(Reads) /\ Distinct(todo)
        /\ snapshot \cup partial \cup Elems(todo) = Due
        /\ snapshot \cap partial = {}
        /\ Elems(todo) \cap (snapshot \cup partial) = {}
    BY DEF Owed
  <1>2. todo # <<>> /\ object' = object
    BY DEF Collect
  <1>3. /\ rest \in Seq(Reads) /\ r \in Reads /\ Elems(todo) = {r} \cup Elems(rest)
        /\ Distinct(rest) /\ r \notin Elems(rest)
    BY <1>1, <1>2, TailElems
  <1>4. r \in Due /\ r \notin snapshot /\ snapshot \subseteq Due
    BY <1>1, <1>3
  <1>5. (object \in Objects)'
    BY <1>1, <1>2 DEF Objects, NoObject, Workloads
  <1>6. CASE /\ snapshot' = snapshot \cup {r}
             /\ todo' = FollowUps(r) \o rest /\ partial' = partial
    <2> DEFINE next == FollowUps(r)
    <2> HIDE DEF r, rest
    <2>1. /\ next \in Seq(Reads) /\ Distinct(next)
          /\ Due' = Due \cup Elems(next) /\ Elems(next) \cap Due = {}
      BY <1>1, <1>2, <1>3, <1>4, <1>6, FollowUpsAreDue
    <2> HIDE DEF next
    <2>2. todo' = next \o rest
      BY <1>6 DEF next
    <2>3. Elems(next) \cap Elems(rest) = {}
      BY <1>1, <1>3, <2>1
    <2>4. /\ todo' \in Seq(Reads) /\ Distinct(todo')
          /\ Elems(todo') = Elems(next) \cup Elems(rest)
      BY <1>3, <2>1, <2>2, <2>3, ConcatElems
    <2>5. snapshot' \cup partial' \cup Elems(todo') = Due'
      BY <1>1, <1>3, <1>6, <2>1, <2>4
    <2>6. snapshot' \cap partial' = {}
      BY <1>1, <1>3, <1>6
    <2>7. Elems(todo') \cap (snapshot' \cup partial') = {}
      BY <1>1, <1>3, <1>4, <1>6, <2>1, <2>4
    <2> QED
      BY <1>5, <2>4, <2>5, <2>6, <2>7 DEF Owed, Elems, Distinct
  <1>7. CASE /\ partial' = partial \cup {r} /\ todo' = rest
             /\ snapshot' = snapshot
    <2>1. Due' = Due
      BY <1>2, <1>7 DEF Due, PodFound
    <2> HIDE DEF r, rest
    <2>2. /\ todo' \in Seq(Reads) /\ Distinct(todo') /\ Elems(todo') = Elems(rest)
      BY <1>3, <1>7
    <2>3. /\ snapshot' \cup partial' \cup Elems(todo') = Due'
          /\ snapshot' \cap partial' = {}
          /\ Elems(todo') \cap (snapshot' \cup partial') = {}
      BY <1>1, <1>3, <1>4, <1>7, <2>1, <2>2
    <2> QED
      BY <1>5, <2>2, <2>3 DEF Owed, Elems, Distinct
  <1> QED
    BY <1>6, <1>7 DEF Collect, AfterFailure

LEMMA ContextKept == Context /\ Next => Context'
  <1> SUFFICES ASSUME Context, Next PROVE Context'
    OBVIOUS
  <1>1. CASE CollectContext
    BY <1>1, CollectKept DEF CollectContext, Context
  <1>2. CASE StartRun
    BY <1>2 DEF StartRun, Context
  <1>3. CASE Run \/ EndRun \/ Notify \/ Over
    <2>1. stage # "collect" /\ stage' # "collect"
      BY <1>3 DEF Run, EndRun, Notify, Over
    <2> QED
      BY <2>1 DEF Context
  <1> QED
    BY <1>1, <1>2, <1>3 DEF Next

LEMMA ContextHolds == Spec => []Context
  <1>1. Init => Context
    BY FirstReads DEF Init, Context
  <1>2. Context /\ [Next]_vars => Context'
    <2>1. ASSUME Context, UNCHANGED vars PROVE Context'
      BY <2>1 DEF vars, enrichVars, Context, Owed, Due, PodFound
    <2> QED
      BY <2>1, ContextKept
  <1> QED
    BY <1>1, <1>2, PTL DEF Spec

\* Whatever reads fail, and whatever number of pods and containers there are,
\* BuildSnapshot leaves nothing silently out: when the collection ends, every
\* read that was called for is in the snapshot or in Partial, and in one of
\* them only (context_builder.go 34-245).
THEOREM NothingSilentlyMissing == Spec => []ContextIsWhole
  <1>1. Context => ContextIsWhole
    <2>1. ASSUME Owed, todo = <<>> PROVE NothingMissing
      BY <2>1, NoElems DEF Owed, NothingMissing
    <2> QED
      BY <2>1 DEF Context, ContextIsWhole
  <1> QED
    BY <1>1, ContextHolds, PTL

-----------------------------------------------------------------------------
(* The diagnosis *)

Inv ==
    /\ AgentInv
    /\ Turns
    /\ stage \in {"collect", "run", "notify", "over"}
    /\ phase \in {"None", "Done", "Partial", "Failed"}

\* Every stage but its own leaves the agent, and the channels, as they are.
LEMMA InvHolds == Spec => []Inv
  <1>1. Init => Inv
    BY FreshRun, NoTurns DEF Init, Inv
  <1>2. Inv /\ [Next]_vars => Inv'
    <2> SUFFICES ASSUME Inv, [Next]_vars PROVE Inv'
      OBVIOUS
    <2>1. /\ AgentInv /\ Turns /\ stage \in {"collect", "run", "notify", "over"}
          /\ phase \in {"None", "Done", "Partial", "Failed"}
      BY DEF Inv
    <2>2. UNCHANGED agentVars => AgentInv'
      <3> SUFFICES ASSUME UNCHANGED agentVars PROVE AgentInv'
        OBVIOUS
      <3> USE DEF agentVars
      <3>1. AgentTypeOK' /\ Progress' /\ Meaning'
        BY <2>1 DEF AgentInv, AgentTypeOK, Progress, Meaning
      <3>2. Dialogue' /\ Traced'
        BY <2>1 DEF AgentInv, Dialogue, Traced, Results
      <3> QED
        BY <2>1, <3>1, <3>2 DEF AgentInv
    <2>3. UNCHANGED notifyVars => Turns'
      <3> SUFFICES ASSUME UNCHANGED notifyVars PROVE Turns'
        OBVIOUS
      <3> USE DEF notifyVars
      <3>1. TurnTypes' /\ InOrder' /\ (metric' # "none" => queue' = <<>>)
        BY <2>1 DEF Turns, TurnTypes, InOrder
      <3>2. QueuedAreDue' /\ DueAreQueued' /\ TriedBefore'
        BY <2>1 DEF Turns, QueuedAreDue, DueAreQueued, TriedBefore
      <3>3. OutOfTime' /\ LateAfterTimeout'
        BY <2>1 DEF Turns, OutOfTime, LateAfterTimeout
      <3> QED
        BY <3>1, <3>2, <3>3 DEF Turns
    <2>4. CASE CollectContext
      BY <2>1, <2>2, <2>3, <2>4 DEF CollectContext, Inv
    <2>5. CASE StartRun
      BY <2>1, <2>2, <2>3, <2>5 DEF StartRun, Inv
    <2>6. CASE Run
      BY <2>1, <2>3, <2>6, RunKept DEF Run, Inv
    <2>7. CASE EndRun
      <3>1. AgentInit'
        BY <2>7 DEF EndRun, AgentInit
      <3>2. AgentInv'
        BY <3>1, FreshRun, PTL
      <3>3. Turns'
        BY <2>7, AllTurns DEF EndRun
      <3>4. phase' = outcome /\ stage' = "notify"
        BY <2>7 DEF EndRun
      <3>5. phase' \in {"None", "Done", "Partial", "Failed"}
        BY <2>1, <3>4 DEF AgentInv, AgentTypeOK
      <3> QED
        BY <3>2, <3>3, <3>4, <3>5 DEF Inv
    <2>8. CASE Notify
      BY <2>1, <2>2, <2>8, TurnsKept DEF Notify, Inv
    <2>9. CASE Over
      BY <2>1, <2>2, <2>3, <2>9 DEF Over, Inv
    <2>10. CASE UNCHANGED vars
      BY <2>1, <2>2, <2>3, <2>10 DEF vars, Inv
    <2> QED
      BY <2>4, <2>5, <2>6, <2>7, <2>8, <2>9, <2>10 DEF Next
  <1> QED
    BY <1>1, <1>2, PTL DEF Spec

\* Every variable of the agent and of the stages keeps its type: no run makes
\* more than the effective MaxIter iterations, whatever MaxIter is set to.
THEOREM PipelineTypes == Spec => []TypeOK
  <1>1. Inv => TypeOK
    BY DEF Inv, AgentInv, Turns, TurnTypes, TypeOK
  <1> QED
    BY <1>1, InvHolds, PTL

\* The requests that DiagnosisAgent.Run sends are well formed: each assistant
\* message is followed by the results of all of its tool calls, in order, and
\* the trace lists exactly the calls that were answered.
THEOREM RequestsAreWellFormed == Spec => []ConversationIsClosed
  <1>1. Inv => ConversationIsClosed
    <2> SUFFICES ASSUME Inv, pc \in {"ask", "repair", "end"}
                 PROVE  /\ \A n \in 1..Len(messages) :
                              messages[n].role = "assistant" =>
                                  \A j \in 1..Len(messages[n].calls) :
                                      /\ n + j <= Len(messages)
                                      /\ messages[n + j]
                                            = ToolResult(messages[n].calls[j])
                        /\ Traced
      BY DEF ConversationIsClosed, Traced
    <2>1. Dialogue /\ Traced
      BY DEF Inv, AgentInv
    <2>2. pending = <<>>
      BY <2>1 DEF Dialogue
    <2>3. 1..Len(pending) = {}
      BY <2>2
    <2> QED
      BY <2>1, <2>3 DEF Dialogue
  <1> QED
    BY <1>1, InvHolds, PTL

\* A diagnosis asks the provider at most EffectiveMaxIter + 1 times, and the
\* TokensUsed of its outcome is the sum of what the provider reported.
THEOREM DiagnosisCost == Spec => []CostIsBounded
  <1>1. Inv => CostIsBounded
    BY DEF Inv, AgentInv, Progress, CostIsBounded
  <1> QED
    BY <1>1, InvHolds, PTL

\* The phases mean what the code documents: an RCA exactly for Done, Partial
\* only if the model responded, Failed never after a final reply.
THEOREM PhasesMean == Spec => []OutcomeMeans
  <1>1. Inv => OutcomeMeans
    BY DEF Inv, AgentInv, Meaning, OutcomeMeans
  <1> QED
    BY <1>1, InvHolds, PTL

\* Whatever the channels of notify.Multi answer, each one configured has its
\* turn, and one is too late only if a channel before it ran out of time.
THEOREM ChannelsHaveTurns == Spec => []EveryChannelHasItsTurn
  <1>1. Inv => EveryChannelHasItsTurn
    BY TurnsSoFar DEF Inv
  <1> QED
    BY <1>1, InvHolds, PTL

-----------------------------------------------------------------------------
(* The end of a diagnosis *)

\* How far the diagnosis is from its end, stage by stage.  A read may call for
\* others, so the collection is measured first by the reads that do: the
\* object, then its pods.
Level ==
    IF <<"object">> \in Elems(todo) THEN 2
    ELSE IF <<"pods">> \in Elems(todo) THEN 1 ELSE 0

Place ==
    CASE pc = "ask" -> 2
      [] pc \in {"tools", "repair"} -> 1
      [] OTHER -> 0

Distance ==
    CASE stage = "collect" -> <<3, Level, Len(todo), 0>>
      [] stage = "run" -> <<2, EffectiveMaxIter - i, Place, Len(pending)>>
      [] stage = "notify" ->
            <<1, Len(queue), IF metric = "none" THEN 1 ELSE 0, 0>>
      [] OTHER -> <<0, 0, 0, 0>>

\* The order of quadruples of numbers, which has no infinite descent.
Smaller(m, n) ==
    \E k \in 1..4 : m[k] < n[k] /\ \A j \in 1..k - 1 : m[j] = n[j]

Closer == Smaller(Distance', Distance)

\* Nothing but the end is final: a run that has ended has an outcome, which is
\* the phase that is announced, and what was announced will be counted.
EndsWithAnOutcome ==
    /\ pc = "end" => outcome # "None"
    /\ stage \in {"notify", "over"} => phase # "None"
    /\ stage = "notify" /\ metric = "none" =>
         \E c \in Channels : result[c] # "none"

LEMMA SmallerIs ==
  ASSUME NEW a1, NEW a2, NEW a3, NEW a4, NEW b1, NEW b2, NEW b3, NEW b4,
         \/ a1 < b1
         \/ a1 = b1 /\ a2 < b2
         \/ a1 = b1 /\ a2 = b2 /\ a3 < b3
         \/ a1 = b1 /\ a2 = b2 /\ a3 = b3 /\ a4 < b4
  PROVE  Smaller(<<a1, a2, a3, a4>>, <<b1, b2, b3, b4>>)
  <1> DEFINE m == <<a1, a2, a3, a4>>
             n == <<b1, b2, b3, b4>>
  <1>1. /\ m[1] = a1 /\ m[2] = a2 /\ m[3] = a3 /\ m[4] = a4
        /\ n[1] = b1 /\ n[2] = b2 /\ n[3] = b3 /\ n[4] = b4
    OBVIOUS
  <1> HIDE DEF m, n
  <1>2. CASE a1 < b1
    <2>1. 1 \in 1..4 /\ m[1] < n[1] /\ \A j \in 1..1 - 1 : m[j] = n[j]
      BY <1>1, <1>2
    <2> QED
      BY <2>1 DEF Smaller, m, n
  <1>3. CASE a1 = b1 /\ a2 < b2
    <2>1. 2 \in 1..4 /\ m[2] < n[2] /\ \A j \in 1..2 - 1 : m[j] = n[j]
      BY <1>1, <1>3
    <2> QED
      BY <2>1 DEF Smaller, m, n
  <1>4. CASE a1 = b1 /\ a2 = b2 /\ a3 < b3
    <2>1. 3 \in 1..4 /\ m[3] < n[3] /\ \A j \in 1..3 - 1 : m[j] = n[j]
      BY <1>1, <1>4
    <2> QED
      BY <2>1 DEF Smaller, m, n
  <1>5. CASE a1 = b1 /\ a2 = b2 /\ a3 = b3 /\ a4 < b4
    <2>1. 4 \in 1..4 /\ m[4] < n[4] /\ \A j \in 1..4 - 1 : m[j] = n[j]
      BY <1>1, <1>5
    <2> QED
      BY <2>1 DEF Smaller, m, n
  <1> QED
    BY <1>2, <1>3, <1>4, <1>5

\* A read that succeeds or fails is done with, and what it calls for is
\* nearer to the end than it was.
LEMMA CollectCloser ==
  ASSUME Owed, Collect
  PROVE  \/ Level' < Level
         \/ Level' = Level /\ Len(todo') < Len(todo)
  <1> DEFINE Obj == <<"object">>
             Pds == <<"pods">>
             r == Head(todo)
             rest == Tail(todo)
  <1>1. Owed'
    BY CollectKept
  <1>2. /\ todo \in Seq(Reads) /\ todo # <<>> /\ Distinct(todo)
        /\ snapshot \cup partial \cup Elems(todo) = Due
        /\ Elems(todo) \cap (snapshot \cup partial) = {}
        /\ object \in Objects
    BY DEF Owed, Collect
  <1>3. /\ Elems(todo) = {r} \cup Elems(rest) /\ r \in Reads
        /\ rest \in Seq(Reads)
        /\ Len(rest) = Len(todo) - 1 /\ Len(todo) \in Nat
    BY <1>2, TailElems, HeadTailProperties, LenProperties
  <1>4. /\ snapshot' \cup partial' = (snapshot \cup partial) \cup {r}
        /\ snapshot \subseteq snapshot'
        /\ todo' \in {FollowUps(r) \o rest, rest}
    BY DEF Collect, AfterFailure
  <1>5. Elems(todo') \cap (snapshot' \cup partial') = {}
    BY <1>1 DEF Owed, Elems
  <1>6. Obj # Pds /\ Obj[1] = "object" /\ Pds[1] = "pods"
    OBVIOUS
  <1>7. Pds \in Due => Obj \in snapshot
    <2>1. Due = Base \cup UNION {OfPod(p) : p \in Found} /\ Found \subseteq Nat
      BY <1>2, DueIs, EnrichmentAssumption DEF Found
    <2>2. \A p \in Nat : \A x \in OfPod(p) : x[1] \in {"logs", "node"}
      BY ReadsOfPod
    <2>3. Pds \in Due => Pds \in Base
      BY <1>6, <2>1, <2>2
    <2> QED
      BY <1>6, <2>3 DEF Base
  <1>8. /\ Level = IF Obj \in Elems(todo) THEN 2
                   ELSE IF Pds \in Elems(todo) THEN 1 ELSE 0
        /\ Level' = IF Obj \in Elems(todo') THEN 2
                    ELSE IF Pds \in Elems(todo') THEN 1 ELSE 0
    BY DEF Level, Elems
  <1>9. /\ r[1] = "object" => r = Obj
        /\ r[1] = "pods" => r = Pds
    BY <1>3 DEF Reads
  <1>10. CASE r[1] = "object"
    <2>1. Obj \in Elems(todo) /\ Obj \notin Elems(todo')
      BY <1>3, <1>4, <1>5, <1>9, <1>10
    <2> QED
      BY <1>8, <2>1
  <1>11. CASE r[1] = "pods"
    <2>1. Pds \in Elems(todo) /\ Pds \notin Elems(todo')
      BY <1>3, <1>4, <1>5, <1>9, <1>11
    <2>2. Obj \in snapshot
      BY <1>2, <1>7, <2>1
    <2>3. Obj \notin Elems(todo) /\ Obj \notin Elems(todo')
      BY <1>2, <1>4, <1>5, <2>2
    <2> QED
      BY <1>8, <2>1, <2>3
  <1>12. CASE r[1] \notin {"object", "pods"}
    <2>1. FollowUps(r) = <<>>
      BY <1>12 DEF FollowUps
    <2> HIDE DEF r, rest
    <2>2. <<>> \o rest = rest
      BY <1>3, ConcatEmptySeq
    <2>3. todo' = rest
      BY <1>4, <2>1, <2>2
    <2>4. Elems(todo') \subseteq Elems(todo) /\ Len(todo') < Len(todo)
      BY <1>3, <2>3
    <2> QED
      BY <1>8, <2>4
  <1> QED
    BY <1>10, <1>11, <1>12

\* A step of the agent ends an iteration, is one of the few places of an
\* iteration, or answers a call.
LEMMA RunCloser ==
  ASSUME AgentInv, AgentStep
  PROVE  /\ \/ EffectiveMaxIter - i' < EffectiveMaxIter - i
            \/ i' = i /\ Place' < Place
            \/ i' = i /\ Place' = Place /\ Len(pending') < Len(pending)
         /\ pc' = "end" => outcome' # "None"
  <1> USE DEF Return
  <1>1. /\ i \in Nat /\ EffectiveMaxIter \in Nat
        /\ pc \in {"ask", "tools", "repair", "end"}
        /\ pc' \in {"ask", "tools", "repair", "end"}
        /\ pending \in Seq(CallId)
    BY IterationBound, RunTypes DEF AgentInv, AgentTypeOK, Dialogue
  <1>2. CASE ProviderError \/ RepairFails
    BY <1>2 DEF ProviderError, RepairFails, Place
  <1>3. CASE \E u \in 0..MaxUsage : NoChoices(u)
    BY <1>3 DEF NoChoices, Place
  <1>4. CASE \E u \in 0..MaxUsage, text \in Texts : Repair(u, text)
    BY <1>4 DEF Repair, Place
  <1>5. CASE \E u \in 0..MaxUsage, text \in Texts : FinalReply(u, text)
    BY <1>5 DEF FinalReply, Place
  <1>6. CASE \E u \in 0..MaxUsage, n \in 1..MaxTools : ToolReply(u, n)
    BY <1>6 DEF ToolReply, Place
  <1>7. CASE CallTool
    <2>1. Len(pending') = Len(pending) - 1 /\ Len(pending) \in Nat
      BY <1>1, <1>7, HeadTailProperties, LenProperties DEF CallTool
    <2>2. pc' = "tools" /\ i' = i /\ Place' = Place
      BY <1>7 DEF CallTool, Place
    <2> QED
      BY <2>1, <2>2
  <1>8. CASE Iterate
    BY <1>1, <1>8 DEF Iterate
  <1> QED
    BY <1>2, <1>3, <1>4, <1>5, <1>6, <1>7, <1>8, StepsOfARun DEF Silent

\* Every channel tried leaves the queue, and the count comes last.
LEMMA NotifyCloser ==
  ASSUME Turns, Try \/ Count
  PROVE  /\ \/ Len(queue') < Len(queue)
            \/ queue' = queue /\ metric = "none" /\ metric' # "none"
         /\ (\E c \in Channels : result[c] # "none")
               => (\E c \in Channels : result'[c] # "none")
  <1>1. /\ queue \in Seq(Channels)
        /\ result \in [Channels -> {"none", "due"} \cup Tryings]
    BY DEF Turns, TurnTypes
  <1>2. CASE Try
    <2>1. PICK how, time : Tried(Head(queue), how, time) /\ how \in Tryings
      BY <1>2 DEF Try, Tryings, Judged
    <2>2. queue # <<>>
      BY <1>2 DEF Try
    <2>3. Len(queue') = Len(queue) - 1 /\ Len(queue) \in Nat
      BY <1>1, <2>1, <2>2, HeadTailProperties, LenProperties DEF Tried, AfterOne
    <2>4. Head(queue) \in Channels
      BY <1>1, <2>2, HeadTailProperties
    <2>5. result'[Head(queue)] = how /\ how # "none"
      BY <1>1, <2>1, <2>4 DEF Tried, Tryings
    <2> QED
      BY <2>3, <2>4, <2>5
  <1>3. CASE Count
    BY <1>3 DEF Count
  <1> QED
    BY <1>2, <1>3

LEMMA StepIsCloser ==
  ASSUME Inv, Context, Next
  PROVE  Closer
  <1>1. AgentInv /\ Turns
    BY DEF Inv
  <1>2. CASE CollectContext
    <2>1. stage = "collect" /\ stage' = "collect" /\ Collect
      BY <1>2 DEF CollectContext
    <2>2. Distance = <<3, Level, Len(todo), 0>>
      BY <2>1 DEF Distance
    <2>3. Distance' = <<3, Level', Len(todo'), 0>>
      BY <2>1 DEF Distance
    <2>4. \/ Level' < Level
          \/ Level' = Level /\ Len(todo') < Len(todo)
      BY <2>1, CollectCloser DEF Context
    <2> QED
      BY <2>2, <2>3, <2>4, SmallerIs DEF Closer
  <1>3. CASE StartRun
    <2>1. stage = "collect" /\ stage' = "run"
      BY <1>3 DEF StartRun
    <2>2. Distance = <<3, Level, Len(todo), 0>>
      BY <2>1 DEF Distance
    <2>3. Distance' = <<2, EffectiveMaxIter - i', Place', Len(pending')>>
      BY <2>1 DEF Distance, EffectiveMaxIter
    <2>4. 2 < 3
      OBVIOUS
    <2> QED
      BY <2>2, <2>3, <2>4, SmallerIs DEF Closer
  <1>4. CASE Run
    <2>1. stage = "run" /\ stage' = "run" /\ AgentStep
      BY <1>4 DEF Run
    <2>2. Distance = <<2, EffectiveMaxIter - i, Place, Len(pending)>>
      BY <2>1 DEF Distance
    <2>3. Distance' = <<2, EffectiveMaxIter - i', Place', Len(pending')>>
      BY <2>1 DEF Distance, EffectiveMaxIter
    <2>4. \/ EffectiveMaxIter - i' < EffectiveMaxIter - i
          \/ /\ EffectiveMaxIter - i' = EffectiveMaxIter - i
             /\ \/ Place' < Place
                \/ Place' = Place /\ Len(pending') < Len(pending)
      BY <1>1, <2>1, RunCloser
    <2> QED
      BY <2>2, <2>3, <2>4, SmallerIs DEF Closer
  <1>5. CASE EndRun
    <2>1. stage = "run" /\ stage' = "notify"
      BY <1>5 DEF EndRun
    <2>2. Distance = <<2, EffectiveMaxIter - i, Place, Len(pending)>>
      BY <2>1 DEF Distance
    <2>3. Distance' = <<1, Len(queue'), IF metric' = "none" THEN 1 ELSE 0, 0>>
      BY <2>1 DEF Distance
    <2>4. 1 < 2
      OBVIOUS
    <2> QED
      BY <2>2, <2>3, <2>4, SmallerIs DEF Closer
  <1>6. CASE Notify
    <2>1. stage = "notify" /\ stage' = "notify" /\ (Try \/ Count)
      BY <1>6 DEF Notify
    <2> DEFINE m == IF metric = "none" THEN 1 ELSE 0
               n == IF metric' = "none" THEN 1 ELSE 0
    <2>2. Distance = <<1, Len(queue), m, 0>>
      BY <2>1 DEF Distance
    <2>3. Distance' = <<1, Len(queue'), n, 0>>
      BY <2>1 DEF Distance
    <2>4. \/ Len(queue') < Len(queue)
          \/ Len(queue') = Len(queue) /\ n < m
      BY <1>1, <2>1, NotifyCloser
    <2> HIDE DEF m, n
    <2> QED
      BY <2>2, <2>3, <2>4, SmallerIs DEF Closer
  <1>7. CASE Over
    <2>1. stage = "notify" /\ stage' = "over"
      BY <1>7 DEF Over
    <2>2. Distance = <<1, Len(queue), IF metric = "none" THEN 1 ELSE 0, 0>>
      BY <2>1 DEF Distance
    <2>3. Distance' = <<0, 0, 0, 0>>
      BY <2>1 DEF Distance
    <2>4. 0 < 1
      OBVIOUS
    <2> QED
      BY <2>2, <2>3, <2>4, SmallerIs DEF Closer
  <1> QED
    BY <1>2, <1>3, <1>4, <1>5, <1>6, <1>7 DEF Next

LEMMA DistanceIsNumbers ==
  ASSUME Inv, Context
  PROVE  Distance \in Nat \X Nat \X Nat \X Nat
  <1>1. CASE stage = "collect"
    <2>1. Len(todo) \in Nat /\ Level \in Nat
      BY <1>1, LenProperties DEF Context, Owed, Level
    <2>2. Distance = <<3, Level, Len(todo), 0>>
      BY <1>1 DEF Distance
    <2> QED
      BY <2>1, <2>2
  <1>2. CASE stage = "run"
    <2>1. EffectiveMaxIter - i \in Nat /\ Len(pending) \in Nat /\ Place \in Nat
      BY IterationBound, LenProperties
         DEF Inv, AgentInv, AgentTypeOK, Dialogue, Place
    <2>2. Distance = <<2, EffectiveMaxIter - i, Place, Len(pending)>>
      BY <1>2 DEF Distance
    <2> QED
      BY <2>1, <2>2
  <1>3. CASE stage = "notify"
    <2>1. Len(queue) \in Nat
      BY LenProperties DEF Inv, Turns, TurnTypes
    <2>2. Distance = <<1, Len(queue), IF metric = "none" THEN 1 ELSE 0, 0>>
      BY <1>3 DEF Distance
    <2> QED
      BY <2>1, <2>2
  <1>4. CASE stage = "over"
    BY <1>4 DEF Distance
  <1> QED
    BY <1>1, <1>2, <1>3, <1>4 DEF Inv

LEMMA OutcomeKept ==
  ASSUME Inv, EndsWithAnOutcome, Next, Inv'
  PROVE  EndsWithAnOutcome'
  <1>1. /\ AgentInv /\ Turns
        /\ pc = "end" => outcome # "None"
        /\ stage \in {"notify", "over"} => phase # "None"
        /\ stage = "notify" /\ metric = "none" =>
             \E c \in Channels : result[c] # "none"
    BY DEF Inv, EndsWithAnOutcome
  <1>2. CASE CollectContext \/ StartRun
    BY <1>1, <1>2 DEF CollectContext, StartRun, agentVars, EndsWithAnOutcome
  <1>3. CASE Run
    BY <1>1, <1>3, RunCloser DEF Run, EndsWithAnOutcome
  <1>4. CASE EndRun
    <2>1. phase' # "None" /\ stage' = "notify" /\ pc' # "end"
      BY <1>1, <1>4 DEF EndRun
    <2>2. metric' = "none" => queue' # <<>>
      BY <1>4 DEF EndRun, Announce
    <2>3. metric' = "none" => \E c \in Channels : result'[c] # "none"
      <3> SUFFICES ASSUME metric' = "none"
                   PROVE  \E c \in Channels : result'[c] # "none"
        OBVIOUS
      <3>1. queue' \in Seq(Channels) /\ QueuedAreDue'
        BY DEF Inv, Turns, TurnTypes
      <3>2. 1 \in 1..Len(queue')
        BY <2>2, <3>1, LenProperties, EmptySeq
      <3>3. queue'[1] \in Channels /\ result'[queue'[1]] = "due"
        BY <3>1, <3>2, ElementOfSeq DEF QueuedAreDue
      <3> QED
        BY <3>3
    <2> QED
      BY <2>1, <2>3 DEF EndsWithAnOutcome
  <1>5. CASE Notify
    <2>1. (\E c \in Channels : result[c] # "none")
             => (\E c \in Channels : result'[c] # "none")
      BY <1>1, <1>5, NotifyCloser DEF Notify
    <2>2. metric' = "none" => metric = "none"
      BY <1>5 DEF Notify, Try, Tried, Count
    <2>3. UNCHANGED <<pc, outcome, stage, phase>> /\ stage = "notify"
      BY <1>5 DEF Notify, agentVars
    <2> QED
      BY <1>1, <2>1, <2>2, <2>3 DEF EndsWithAnOutcome
  <1>6. CASE Over
    BY <1>1, <1>6 DEF Over, agentVars, EndsWithAnOutcome
  <1> QED
    BY <1>2, <1>3, <1>4, <1>5, <1>6 DEF Next

\* A diagnosis always comes to its end.  Every step takes it closer, whatever
\* reads, requests, tools or channels fail, and no distance can shrink for
\* ever (context_builder.go:34-68, diagnosis_agent.go:54-160, multi.go); and
\* it is not stuck before: a run that is over has an outcome, which is the
\* phase announced, and the goroutine of notifyTerminal has something to
\* count.
THEOREM DiagnosisComesToAnEnd ==
  Spec => /\ []EndsWithAnOutcome
          /\ [](Distance \in Nat \X Nat \X Nat \X Nat)
          /\ [][Closer]_vars
  <1>1. Init => EndsWithAnOutcome
    BY DEF Init, AgentInit, EndsWithAnOutcome
  <1>2. Inv /\ Inv' /\ EndsWithAnOutcome /\ [Next]_vars => EndsWithAnOutcome'
    <2>1. ASSUME EndsWithAnOutcome, UNCHANGED vars PROVE EndsWithAnOutcome'
      BY <2>1 DEF vars, agentVars, notifyVars, EndsWithAnOutcome
    <2> QED
      BY <2>1, OutcomeKept
  <1>3. Inv /\ Context => Distance \in Nat \X Nat \X Nat \X Nat
    BY DistanceIsNumbers
  <1>4. Inv /\ Context /\ [Next]_vars => [Closer]_vars
    BY StepIsCloser
  <1> QED
    BY <1>1, <1>2, <1>3, <1>4, InvHolds, ContextHolds, PTL DEF Spec

=============================================================================

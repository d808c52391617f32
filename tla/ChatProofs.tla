---------------------------- MODULE ChatProofs ----------------------------
(***************************************************************************)
(* TLAPS proofs about chat turns (ChatTurn), for any number of concurrent  *)
(* turns and viewers, any message sizes, buffers, caps and reply lengths:  *)
(* type correctness with the bounds on channels and prompts, the growth of *)
(* what a viewer is sent, a transcript of whole replies, the question in   *)
(* the prompt, and a bound on the steps of a turn.                         *)
(***************************************************************************)
EXTENDS ChatTurn, Induction

-----------------------------------------------------------------------------
(* The history sent to the provider *)

\* Bytes is what a loop adding up the sizes computes.
LEMMA BytesIsALoop ==
  ASSUME NEW s \in Seq(Message)
  PROVE  \E f \in [0..Len(s) -> Nat] :
            /\ f[0] = 0
            /\ \A k \in 1..Len(s) : f[k] = f[k - 1] + s[k].size
            /\ Bytes(s) = f[Len(s)]
  <1> DEFINE F(f) == [n \in 0..Len(s) |-> IF n = 0 THEN 0 ELSE f[n - 1] + s[n].size]
             sum == CHOOSE f : f = F(f)
             round == [k \in 1..Len(s) |-> [x \in Nat |-> x + s[k].size]]
  <1>1. Len(s) \in Nat /\ \A k \in 1..Len(s) : s[k].size \in Nat
    <2>1. Len(s) \in Nat /\ \A k \in 1..Len(s) : s[k] \in Message
      BY LenProperties, ElementOfSeq
    <2> QED
      BY <2>1 DEF Message
  <1>2. round \in [1..Len(s) -> [Nat -> Nat]]
    BY <1>1
  <1>3. \A k \in 1..Len(s) : \A x \in Nat : round[k][x] = x + s[k].size
    BY <1>1
  <1>4. PICK g \in [0..Len(s) -> Nat] :
            g[0] = 0 /\ \A k \in 1..Len(s) : g[k] = round[k][g[k - 1]]
    <2> HIDE DEF round
    <2>1. \E f : IsLoop(f, Len(s), Nat, 0, round)
      BY <1>1, <1>2, LoopExists
    <2> QED
      BY <2>1 DEF IsLoop
  <1>5. \A k \in 1..Len(s) : g[k] = g[k - 1] + s[k].size
    <2> HIDE DEF round
    <2>1. \A k \in 1..Len(s) : k - 1 \in 0..Len(s)
      BY <1>1
    <2> QED
      BY <1>3, <1>4, <2>1
  <1>6. g = F(g)
    <2>1. \A k \in 0..Len(s) : k # 0 => k \in 1..Len(s)
      BY <1>1
    <2> QED
      BY <1>4, <1>5, <2>1
  <1>7. sum = F(sum)
    <2> HIDE DEF F
    <2> QED
      BY <1>6
  <1>8. sum[0] = 0 /\ \A k \in 1..Len(s) : sum[k] = sum[k - 1] + s[k].size
    <2> HIDE DEF sum
    <2>1. sum[0] = 0
      BY <1>1, <1>7
    <2>2. ASSUME NEW k \in 1..Len(s) PROVE sum[k] = sum[k - 1] + s[k].size
      <3>1. k \in 0..Len(s) /\ k # 0
        BY <1>1
      <3> QED
        BY <1>7, <3>1
    <2> QED
      BY <2>1, <2>2
  <1>9. sum \in [0..Len(s) -> Nat]
    <2> DEFINE Good == {k \in 0..Len(s) : sum[k] = g[k]}
    <2> HIDE DEF sum
    <2>1. 0 \in Good
      BY <1>1, <1>4, <1>8
    <2>2. ASSUME NEW k \in 1..Len(s), k - 1 \in Good PROVE k \in Good
      BY <1>1, <1>5, <1>8, <2>2
    <2>3. \A k \in 0..Len(s) : k \in Good
      <3> HIDE DEF Good
      <3> QED
        BY <1>1, <2>1, <2>2, UpTo
    <2>4. \A k \in 0..Len(s) : sum[k] \in Nat
      BY <1>4, <2>3
    <2>5. sum = [n \in 0..Len(s) |-> sum[n]]
      BY <1>7
    <2> QED
      BY <2>4, <2>5
  <1>10. Bytes(s) = sum[Len(s)]
    BY DEF Bytes
  <1> HIDE DEF sum
  <1> QED
    BY <1>8, <1>9, <1>10

LEMMA NoBytes == Bytes(<<>>) = 0
  <1>1. <<>> \in Seq(Message) /\ Len(<<>>) = 0
    OBVIOUS
  <1> QED
    BY <1>1, BytesIsALoop

\* A loop over a longer sequence starts as the one over its prefix.
LEMMA BytesOfOneMore ==
  ASSUME NEW s \in Seq(Message), NEW m \in Message
  PROVE  /\ Bytes(Append(s, m)) = Bytes(s) + m.size
         /\ Bytes(s) \in Nat /\ m.size \in Nat
  <1> DEFINE t == Append(s, m)
  <1>1. /\ Len(s) \in Nat /\ t \in Seq(Message) /\ Len(t) = Len(s) + 1
        /\ t[Len(s) + 1] = m /\ \A k \in 1..Len(s) : t[k] = s[k]
    BY LenProperties, AppendProperties
  <1> HIDE DEF t
  <1>2. PICK f \in [0..Len(s) -> Nat] :
            /\ f[0] = 0
            /\ \A k \in 1..Len(s) : f[k] = f[k - 1] + s[k].size
            /\ Bytes(s) = f[Len(s)]
    BY BytesIsALoop
  <1>3. PICK g \in [0..Len(t) -> Nat] :
            /\ g[0] = 0
            /\ \A k \in 1..Len(t) : g[k] = g[k - 1] + t[k].size
            /\ Bytes(t) = g[Len(t)]
    BY <1>1, BytesIsALoop
  <1> DEFINE Good == {k \in 0..Len(s) : f[k] = g[k]}
  <1>4. 0 \in Good
    BY <1>1, <1>2, <1>3
  <1>5. ASSUME NEW k \in 1..Len(s), k - 1 \in Good PROVE k \in Good
    BY <1>1, <1>2, <1>3, <1>5
  <1>6. \A k \in 0..Len(s) : k \in Good
    <2>1. \A k \in 1..Len(s) : k - 1 \in Good => k \in Good
      BY <1>5
    <2> HIDE DEF Good
    <2> QED
      BY <1>1, <1>4, <2>1, UpTo
  <1>7. f[Len(s)] = g[Len(s)]
    BY <1>1, <1>6
  <1>8. g[Len(t)] = g[Len(s)] + m.size
    <2>1. Len(t) \in 1..Len(t) /\ Len(t) - 1 = Len(s)
      BY <1>1
    <2> QED
      BY <1>1, <1>3, <2>1
  <1>9. Bytes(t) = Bytes(s) + m.size
    BY <1>2, <1>3, <1>7, <1>8
  <1>10. Bytes(s) \in Nat
    <2>1. Len(s) \in 0..Len(s)
      BY <1>1
    <2> QED
      BY <1>2, <2>1
  <1>11. m.size \in Nat
    BY DEF Message
  <1> QED
    BY <1>9, <1>10, <1>11 DEF t

LEMMA Suffixes ==
  ASSUME NEW S, NEW s \in Seq(S), NEW n \in 0..Len(s)
  PROVE  Suffix(s, n) \in Seq(S) /\ Len(Suffix(s, n)) = n
  <1>1. Len(s) \in Nat /\ \A i \in Len(s) - n + 1 .. Len(s) : s[i] \in S
    BY LenProperties, ElementOfSeq
  <1> QED
    BY <1>1, SubSeqProperties DEF Suffix

LEMMA SuffixElements ==
  ASSUME NEW S, NEW s \in Seq(S), NEW n \in 0..Len(s)
  PROVE  \A i \in 1..n : Suffix(s, n)[i] = s[Len(s) - n + i]
  <1>1. Len(s) \in Nat /\ \A i \in Len(s) - n + 1 .. Len(s) : s[i] \in S
    BY LenProperties, ElementOfSeq
  <1> QED
    BY <1>1, SubSeqProperties DEF Suffix

\* The prompt's history is within both caps, and it is the longest one that
\* is: there always is one, for dropping everything fits any budget.
LEMMA HistoryWithinCaps ==
  ASSUME NEW s \in Seq(Message)
  PROVE  /\ History(s) \in Seq(Message)
         /\ Len(History(s)) <= HistoryLimit
         /\ Bytes(History(s)) <= HistoryBytes
         /\ Len(History(s)) \in 0..Len(s)
         /\ History(s) = Suffix(s, Len(History(s)))
         /\ \A n \in 0..Len(s) :
              n <= HistoryLimit /\ Bytes(Suffix(s, n)) <= HistoryBytes
                => n <= Len(History(s))
  <1> DEFINE fits == {n \in 0..Len(s) :
                        /\ n <= HistoryLimit
                        /\ Bytes(Suffix(s, n)) <= HistoryBytes}
             longest == CHOOSE n \in fits : \A m \in fits : m <= n
  <1>1. Len(s) \in Nat
    BY LenProperties
  <1>2. 0 \in fits
    <2>1. Suffix(s, 0) = <<>>
      BY <1>1, SubSeqEmpty DEF Suffix
    <2> QED
      BY <1>1, <2>1, NoBytes, ChatAssumption
  <1>3. fits \subseteq 0..Len(s)
    OBVIOUS
  <1>4. longest \in fits /\ \A m \in fits : m <= longest
    <2>1. \E n \in fits : \A m \in fits : m <= n
      <3> HIDE DEF fits
      <3> QED
        BY <1>1, <1>2, <1>3, GreatestBelow
    <2> HIDE DEF fits
    <2> QED
      BY <2>1
  <1>5. History(s) = Suffix(s, longest)
    BY DEF History
  <1> HIDE DEF longest
  <1>6. longest \in 0..Len(s) /\ longest <= HistoryLimit
        /\ Bytes(Suffix(s, longest)) <= HistoryBytes
    BY <1>4
  <1>7. Suffix(s, longest) \in Seq(Message) /\ Len(Suffix(s, longest)) = longest
    BY <1>6, Suffixes
  <1> QED
    BY <1>4, <1>5, <1>6, <1>7

-----------------------------------------------------------------------------
(* Typing *)

\* What a turn has received and may still receive; a turn that has not
\* streamed yet has nothing, and has retries left.
Paced ==
    \A t \in Turns :
        /\ acc[t] + left[t] <= MaxDeltas
        /\ pc[t] \in {"idle", "load", "connect"} =>
             acc[t] = 0 /\ left[t] = 0 /\ tries[t] <= Retries

ChatInv == TypeOK /\ Paced

\* A turn's steps that publish nothing: neither the frames nor the length of
\* the reply change.
Quiet(t) ==
    \/ AppendUser(t) \/ LoadHistory(t) \/ Connect(t) \/ ConnectFails(t)
    \/ StreamEnds(t) \/ AppendAssistant(t) \/ Abort(t)
    \/ CompleteAtOnce(t) /\ UNCHANGED <<acc, broker>>

\* The steps that publish: the reply is n long now, longer than before.
Speaks(t, n) ==
    /\ \/ Delta(t) /\ n = acc[t] + 1
       \/ CompleteAtOnce(t) /\ n \in 1..MaxDeltas
    /\ acc' = [acc EXCEPT ![t] = n]
    /\ Publish([turn |-> t, len |-> n])

\* The steps of a page.
Page(v) == Subscribe(v) \/ Unsubscribe(v) \/ Receive(v) \/ ClearStream(v)

LEMMA ChatSteps ==
  ASSUME [Next]_vars, ChatInv
  PROVE  \/ \E t \in Turns : Quiet(t)
         \/ \E t \in Turns : \E n \in Nat : Speaks(t, n)
         \/ \E v \in Viewers : Page(v)
         \/ UNCHANGED vars
  <1>1. ASSUME NEW t \in Turns, CompleteAtOnce(t)
        PROVE  Quiet(t) \/ \E n \in Nat : Speaks(t, n)
    <2>1. ASSUME NEW n \in 1..MaxDeltas, acc' = [acc EXCEPT ![t] = n],
                 Publish([turn |-> t, len |-> n])
          PROVE  n \in Nat /\ Speaks(t, n)
      BY <1>1, <2>1, ChatAssumption DEF Speaks
    <2>2. CASE UNCHANGED <<acc, broker>>
      BY <1>1, <2>2 DEF Quiet
    <2> QED
      BY <1>1, <2>1, <2>2 DEF CompleteAtOnce
  <1>2. ASSUME NEW t \in Turns, Delta(t)
        PROVE  \E n \in Nat : Speaks(t, n)
    <2>1. acc[t] + 1 \in Nat
      BY DEF ChatInv, TypeOK
    <2>2. Speaks(t, acc[t] + 1)
      BY <1>2 DEF Speaks, Delta
    <2> QED
      BY <2>1, <2>2
  <1>3. ASSUME NEW t \in Turns, Turn(t) \/ Abort(t)
        PROVE  Quiet(t) \/ \E n \in Nat : Speaks(t, n)
    BY <1>1, <1>2, <1>3 DEF Turn, Quiet
  <1> QED
    BY <1>3 DEF Next, Page

LEMMA PublishTypes ==
  ASSUME TypeOK, NEW f \in Frame, Publish(f)
  PROVE  /\ buf' \in [Viewers -> Seq(Frame)]
         /\ \A v \in Viewers : Len(buf'[v]) <= Buffer
         /\ newest' \in Seq(Frame) /\ late' \in SUBSET Viewers
         /\ missed' \in SUBSET Viewers
         /\ UNCHANGED <<subs, shown>>
  <1>1. \A w \in Viewers : /\ Append(buf[w], f) \in Seq(Frame)
                           /\ Len(Append(buf[w], f)) = Len(buf[w]) + 1
                           /\ Len(buf[w]) \in Nat /\ Len(buf[w]) <= Buffer
    BY AppendProperties, LenProperties DEF TypeOK
  <1>2. buf' \in [Viewers -> Seq(Frame)]
    BY <1>1 DEF Publish, TypeOK
  <1>3. ASSUME NEW v \in Viewers
        PROVE  Len(buf'[v]) <= Buffer
    <2>1. CASE v \in subs /\ Room(v)
      <3>1. buf'[v] = Append(buf[v], f)
        BY <2>1 DEF Publish
      <3> QED
        BY <1>1, <2>1, <3>1, ChatAssumption DEF Room
    <2>2. CASE ~(v \in subs /\ Room(v))
      <3>1. buf'[v] = buf[v]
        BY <2>2 DEF Publish
      <3> QED
        BY <1>1, <3>1
    <2> QED
      BY <2>1, <2>2
  <1>4. newest' \in Seq(Frame)
    BY DEF Publish
  <1>5. late' \in SUBSET Viewers /\ missed' \in SUBSET Viewers
    BY DEF Publish, TypeOK
  <1> QED
    BY <1>2, <1>3, <1>4, <1>5 DEF Publish

LEMMA TypesQuiet ==
  ASSUME ChatInv, NEW t \in Turns, Quiet(t)
  PROVE  ChatInv' /\ UNCHANGED <<acc, broker>>
  <1> USE ChatAssumption DEF rows, Goto
  <1>0. UNCHANGED <<acc, broker>>
    BY DEF Quiet, AppendUser, LoadHistory, Connect, ConnectFails, StreamEnds,
           AppendAssistant, Abort
  <1>1. chat' \in Seq(Message)
    <2>1. CASE UNCHANGED chat
      BY <2>1 DEF ChatInv, TypeOK
    <2>2. ASSUME NEW m \in Message, chat' = Append(chat, m)
          PROVE  chat' \in Seq(Message)
      BY <2>2, AppendProperties DEF ChatInv, TypeOK
    <2>3. acc[t] \in Nat
      BY DEF ChatInv, TypeOK
    <2>4. CASE AppendUser(t)
      BY <2>2, <2>4 DEF AppendUser, Message
    <2>5. CASE AppendAssistant(t)
      BY <2>2, <2>3, <2>5 DEF AppendAssistant, Message
    <2> QED
      BY <2>1, <2>4, <2>5
         DEF Quiet, LoadHistory, Connect, ConnectFails, StreamEnds, Abort,
             CompleteAtOnce
  <1>2. /\ prompt' \in [Turns -> Seq(Message)]
        /\ \A u \in Turns : /\ Len(prompt'[u]) <= HistoryLimit
                            /\ Bytes(prompt'[u]) <= HistoryBytes
    <2>1. CASE UNCHANGED prompt
      BY <2>1 DEF ChatInv, TypeOK
    <2>2. CASE LoadHistory(t)
      <3>1. /\ History(chat) \in Seq(Message)
            /\ Len(History(chat)) <= HistoryLimit
            /\ Bytes(History(chat)) <= HistoryBytes
        BY HistoryWithinCaps DEF ChatInv, TypeOK
      <3>2. prompt' = [prompt EXCEPT ![t] = History(chat)]
        BY <2>2 DEF LoadHistory
      <3> QED
        BY <3>1, <3>2 DEF ChatInv, TypeOK
    <2> QED
      BY <2>1, <2>2
         DEF Quiet, AppendUser, Connect, ConnectFails, StreamEnds,
             AppendAssistant, Abort, CompleteAtOnce
  <1>3. /\ pc' \in [Turns -> {"idle", "load", "connect", "stream", "reply"}
                              \cup Ended]
        /\ \A u \in Turns \ {t} : pc'[u] = pc[u]
    BY DEF Quiet, AppendUser, LoadHistory, Connect, ConnectFails, StreamEnds,
           AppendAssistant, Abort, CompleteAtOnce, Ended, ChatInv, TypeOK
  <1>4. /\ tries' \in [Turns -> 0..Retries + 1]
        /\ \A u \in Turns \ {t} : tries'[u] = tries[u]
        /\ pc'[t] \in {"idle", "load", "connect"} =>
             /\ pc[t] \in {"idle", "load", "connect"}
             /\ tries'[t] <= Retries
             /\ left' = left
    <2>1. CASE ConnectFails(t)
      <3>1. /\ tries[t] \in Nat /\ tries[t] <= Retries
            /\ tries' = [tries EXCEPT ![t] = tries[t] + 1]
            /\ pc'[t] = IF tries[t] < Retries THEN "connect" ELSE "error"
            /\ pc[t] = "connect" /\ left' = left
        BY <2>1 DEF ConnectFails, ChatInv, TypeOK, Paced
      <3> QED
        BY <3>1 DEF ChatInv, TypeOK
    <2>2. CASE \/ AppendUser(t) \/ LoadHistory(t) \/ Connect(t) \/ StreamEnds(t)
               \/ AppendAssistant(t) \/ Abort(t) \/ CompleteAtOnce(t)
      <3>1. /\ tries' = tries
            /\ pc'[t] \in {"idle", "load", "connect"} =>
                 pc[t] \in {"idle", "load", "connect"} /\ left' = left
        BY <2>2 DEF AppendUser, LoadHistory, Connect, StreamEnds,
                    AppendAssistant, Abort, CompleteAtOnce, ChatInv, TypeOK
      <3> QED
        BY <3>1 DEF ChatInv, TypeOK, Paced
    <2> QED
      BY <2>1, <2>2 DEF Quiet
  <1>5. /\ left' \in [Turns -> 0..MaxDeltas]
        /\ \A u \in Turns : acc[u] + left'[u] <= MaxDeltas
        /\ \A u \in Turns \ {t} : left'[u] = left[u]
    <2>1. CASE UNCHANGED left
      BY <2>1 DEF ChatInv, TypeOK, Paced
    <2>2. CASE Connect(t)
      <3>1. PICK k \in 0..MaxDeltas : left' = [left EXCEPT ![t] = k]
        BY <2>2 DEF Connect
      <3>2. pc[t] = "connect" /\ left \in [Turns -> 0..MaxDeltas]
        BY <2>2 DEF Connect, ChatInv, TypeOK
      <3>3. acc[t] = 0 /\ \A u \in Turns : acc[u] + left[u] <= MaxDeltas
        BY <3>2 DEF ChatInv, Paced
      <3> QED
        BY <3>1, <3>2, <3>3
    <2> QED
      BY <2>1, <2>2
         DEF Quiet, AppendUser, LoadHistory, ConnectFails, StreamEnds,
             AppendAssistant, Abort, CompleteAtOnce
  <1>6. TypeOK'
    BY <1>0, <1>1, <1>2, <1>3, <1>4, <1>5 DEF ChatInv, TypeOK, broker
  <1>7. Paced'
    BY <1>0, <1>3, <1>4, <1>5 DEF ChatInv, Paced
  <1> QED
    BY <1>0, <1>6, <1>7 DEF ChatInv

\* What a step that publishes does to its turn.
LEMMA Spoken ==
  ASSUME ChatInv, NEW t \in Turns, NEW n \in Nat, Speaks(t, n)
  PROVE  /\ acc[t] \in Nat /\ acc[t] < n /\ n <= MaxDeltas
         /\ acc' \in [Turns -> 0..MaxDeltas] /\ left' \in [Turns -> 0..MaxDeltas]
         /\ \A u \in Turns : acc'[u] = IF u = t THEN n ELSE acc[u]
         /\ \A u \in Turns \ {t} : left'[u] = left[u] /\ pc'[u] = pc[u]
         /\ n + left'[t] <= MaxDeltas
         /\ pc[t] \in {"connect", "stream"} /\ pc'[t] \in {"stream", "reply"}
         /\ pc' \in [Turns -> {"idle", "load", "connect", "stream", "reply"}
                              \cup Ended]
         /\ UNCHANGED <<chat, prompt, tries>>
         /\ [turn |-> t, len |-> n] \in Frame
  <1> USE ChatAssumption
  <1>1. /\ acc \in [Turns -> 0..MaxDeltas] /\ left \in [Turns -> 0..MaxDeltas]
        /\ DOMAIN pc = Turns
        /\ acc[t] + left[t] <= MaxDeltas
        /\ pc[t] = "connect" => acc[t] = 0 /\ left[t] = 0
    BY DEF ChatInv, TypeOK, Paced
  <1>2. acc' = [acc EXCEPT ![t] = n] /\ [turn |-> t, len |-> n] \in Frame
    BY DEF Speaks, Frame
  <1>3. CASE Delta(t) /\ n = acc[t] + 1
    <2>1. /\ pc[t] = "stream" /\ left[t] > 0 /\ pc' = pc
          /\ left' = [left EXCEPT ![t] = left[t] - 1]
          /\ UNCHANGED <<chat, prompt, tries>>
      BY <1>3 DEF Delta, rows
    <2>2. /\ acc[t] \in Nat /\ left[t] \in Nat /\ n <= MaxDeltas
          /\ n + (left[t] - 1) <= MaxDeltas
          /\ left[t] - 1 \in 0..MaxDeltas
      BY <1>1, <1>3, <2>1
    <2>3. /\ acc' \in [Turns -> 0..MaxDeltas]
          /\ left' \in [Turns -> 0..MaxDeltas]
      BY <1>1, <1>2, <2>1, <2>2
    <2>4. pc' \in [Turns -> {"idle", "load", "connect", "stream", "reply"}
                            \cup Ended]
      BY <2>1 DEF ChatInv, TypeOK
    <2> QED
      BY <1>1, <1>2, <1>3, <2>1, <2>2, <2>3, <2>4
  <1>4. CASE CompleteAtOnce(t) /\ n \in 1..MaxDeltas
    <2>1. /\ pc[t] = "connect" /\ pc' = [pc EXCEPT ![t] = "reply"]
          /\ UNCHANGED <<chat, prompt, tries, left>>
      BY <1>4 DEF CompleteAtOnce, rows, Goto
    <2>2. acc' \in [Turns -> 0..MaxDeltas]
      BY <1>1, <1>2, <1>4
    <2>3. pc' \in [Turns -> {"idle", "load", "connect", "stream", "reply"}
                            \cup Ended]
      BY <2>1 DEF ChatInv, TypeOK
    <2> QED
      BY <1>1, <1>2, <1>4, <2>1, <2>2, <2>3
  <1> QED
    BY <1>3, <1>4 DEF Speaks

LEMMA TypesSpeaks ==
  ASSUME ChatInv, NEW t \in Turns, NEW n \in Nat, Speaks(t, n)
  PROVE  ChatInv'
  <1>1. /\ acc' \in [Turns -> 0..MaxDeltas] /\ left' \in [Turns -> 0..MaxDeltas]
        /\ \A u \in Turns : acc'[u] = IF u = t THEN n ELSE acc[u]
        /\ \A u \in Turns \ {t} : left'[u] = left[u] /\ pc'[u] = pc[u]
        /\ n + left'[t] <= MaxDeltas /\ pc'[t] \in {"stream", "reply"}
        /\ pc' \in [Turns -> {"idle", "load", "connect", "stream", "reply"}
                             \cup Ended]
        /\ UNCHANGED <<chat, prompt, tries>>
        /\ [turn |-> t, len |-> n] \in Frame
    BY Spoken
  <1>2. TypeOK'
    <2>1. /\ buf' \in [Viewers -> Seq(Frame)]
          /\ \A v \in Viewers : Len(buf'[v]) <= Buffer
          /\ newest' \in Seq(Frame) /\ late' \in SUBSET Viewers
          /\ missed' \in SUBSET Viewers
          /\ UNCHANGED <<subs, shown>>
      BY <1>1, PublishTypes DEF Speaks, ChatInv
    <2> QED
      BY <1>1, <2>1 DEF ChatInv, TypeOK
  <1>3. Paced'
    BY <1>1 DEF Paced, ChatInv
  <1> QED
    BY <1>2, <1>3 DEF ChatInv

LEMMA TypesPage ==
  ASSUME ChatInv, NEW v \in Viewers, Page(v)
  PROVE  ChatInv' /\ UNCHANGED <<chat, prompt, pc, tries, left, acc, newest>>
  <1>0. TypeOK /\ Paced
    BY DEF ChatInv
  <1>1. UNCHANGED <<chat, prompt, pc, tries, left, acc, newest>>
    BY DEF Page, Subscribe, Unsubscribe, Receive, ClearStream, rows
  <1>2. /\ <<>> \in Seq(Frame) /\ Len(<<>>) = 0
        /\ buf[v] \in Seq(Frame) /\ shown[v] \in Seq(Frame)
        /\ Len(buf[v]) \in Nat /\ Len(buf[v]) <= Buffer /\ Len(shown[v]) <= 1
    BY <1>0, EmptySeq, LenProperties DEF TypeOK
  <1>3. subs' \in SUBSET Viewers /\ late' \in SUBSET Viewers
        /\ missed' \in SUBSET Viewers
    BY <1>0 DEF Page, Subscribe, Unsubscribe, Receive, ClearStream, TypeOK
  <1> DEFINE BufOK == /\ buf' \in [Viewers -> Seq(Frame)]
                      /\ \A w \in Viewers : Len(buf'[w]) <= Buffer
             ShownOK == /\ shown' \in [Viewers -> Seq(Frame)]
                        /\ \A w \in Viewers : Len(shown'[w]) <= 1
  <1>4. BufOK
    <2>0. ASSUME NEW b \in Seq(Frame), buf' = [buf EXCEPT ![v] = b],
                 Len(b) <= Buffer
          PROVE  BufOK
      BY <1>0, <2>0 DEF TypeOK
    <2> HIDE DEF BufOK
    <2>1. CASE Subscribe(v) \/ Unsubscribe(v)
      <3>1. buf' = [buf EXCEPT ![v] = <<>>]
        BY <2>1 DEF Subscribe, Unsubscribe
      <3>2. Len(<<>>) <= Buffer
        BY <1>2, ChatAssumption
      <3> QED
        BY <1>2, <2>0, <3>1, <3>2
    <2>2. CASE Receive(v)
      <3>1. buf[v] # <<>> /\ buf' = [buf EXCEPT ![v] = Tail(buf[v])]
        BY <2>2 DEF Receive
      <3>2. Tail(buf[v]) \in Seq(Frame) /\ Len(Tail(buf[v])) = Len(buf[v]) - 1
        BY <1>2, <3>1, HeadTailProperties
      <3>3. Len(buf[v]) - 1 <= Buffer
        BY <1>2, ChatAssumption
      <3> QED
        BY <2>0, <3>1, <3>2, <3>3
    <2>3. CASE ClearStream(v)
      <3>1. buf' = [buf EXCEPT ![v] = buf[v]]
        BY <1>0, <2>3 DEF ClearStream, TypeOK
      <3> QED
        BY <1>2, <2>0, <3>1
    <2> QED
      BY <2>1, <2>2, <2>3 DEF Page
  <1>5. ShownOK
    <2>0. ASSUME NEW s \in Seq(Frame), shown' = [shown EXCEPT ![v] = s],
                 Len(s) <= 1
          PROVE  ShownOK
      BY <1>0, <2>0 DEF TypeOK
    <2> HIDE DEF ShownOK
    <2>1. CASE Subscribe(v) \/ ClearStream(v)
      <3>1. \/ shown' = [shown EXCEPT ![v] = <<>>]
            \/ shown' = [shown EXCEPT ![v] = shown[v]]
        BY <2>1 DEF Subscribe, ClearStream
      <3>2. Len(<<>>) <= 1
        BY <1>2
      <3> QED
        BY <1>2, <2>0, <3>1, <3>2
    <2>2. CASE Receive(v)
      <3>1. Head(buf[v]) \in Frame
        BY <1>2, <2>2, HeadTailProperties DEF Receive
      <3>2. <<Head(buf[v])>> \in Seq(Frame) /\ Len(<<Head(buf[v])>>) = 1
        BY <3>1
      <3>3. shown' = [shown EXCEPT ![v] = <<Head(buf[v])>>]
        BY <2>2 DEF Receive
      <3>4. Len(<<Head(buf[v])>>) <= 1
        BY <3>2
      <3> QED
        BY <2>0, <3>2, <3>3, <3>4
    <2>3. CASE Unsubscribe(v)
      <3>1. shown' = [shown EXCEPT ![v] = shown[v]]
        BY <1>0, <2>3 DEF Unsubscribe, TypeOK
      <3> QED
        BY <1>2, <2>0, <3>1
    <2> QED
      BY <2>1, <2>2, <2>3 DEF Page
  <1>6. TypeOK'
    BY <1>0, <1>1, <1>3, <1>4, <1>5 DEF TypeOK
  <1> QED
    BY <1>0, <1>1, <1>6 DEF ChatInv, Paced

LEMMA ChatAlways == Spec => []ChatInv
  <1>1. Init => ChatInv
    <2> SUFFICES ASSUME Init PROVE ChatInv
      OBVIOUS
    <2>1. /\ <<>> \in Seq(Message) /\ <<>> \in Seq(Frame) /\ Len(<<>>) = 0
          /\ Bytes(<<>>) = 0
      BY EmptySeq, NoBytes
    <2>2. TypeOK
      BY <2>1, ChatAssumption DEF Init, TypeOK, Ended
    <2>3. Paced
      BY ChatAssumption DEF Init, Paced
    <2> QED
      BY <2>2, <2>3 DEF ChatInv
  <1>2. ChatInv /\ [Next]_vars => ChatInv'
    <2> SUFFICES ASSUME ChatInv, [Next]_vars PROVE ChatInv'
      OBVIOUS
    <2>1. CASE UNCHANGED vars
      BY <2>1 DEF vars, ChatInv, TypeOK, Paced
    <2> QED
      BY <2>1, ChatSteps, TypesQuiet, TypesSpeaks, TypesPage
  <1> QED
    BY <1>1, <1>2, PTL DEF Spec

\* Every variable holds a value of its type; no channel is ever over its
\* capacity and no prompt over its caps, however many turns and viewers meet.
THEOREM ChatTypes == Spec => []TypeOK
  <1>1. ChatInv => TypeOK
    BY DEF ChatInv
  <1> QED
    BY <1>1, ChatAlways, PTL

-----------------------------------------------------------------------------
(* What a viewer is sent *)

\* FramesGrowToLatest, for all viewers: what a page shows stays there while it
\* is not connected.
Ordered(v) ==
    \A i, j \in 1..Len(Line(v)) :
        i < j /\ Line(v)[i].turn = Line(v)[j].turn => Line(v)[i].len < Line(v)[j].len

Sent(v) == \A i \in 1..Len(Line(v)) : Line(v)[i].len <= acc[Line(v)[i].turn]

Latest(v) ==
    v \in subs /\ v \notin late \cup missed =>
        newest = <<>> \/ (Len(Line(v)) > 0 /\ Line(v)[Len(Line(v))] = newest[1])

Newest ==
    IF newest = <<>> THEN \A v \in Viewers : Line(v) = <<>>
    ELSE newest[1].len = acc[newest[1].turn]

Frames == Newest /\ \A v \in Viewers : Ordered(v) /\ Sent(v) /\ Latest(v)

LEMMA Joined ==
  ASSUME NEW S, NEW s \in Seq(S), NEW b \in Seq(S)
  PROVE  /\ s \o b \in Seq(S)
         /\ Len(s) \in Nat /\ Len(b) \in Nat
         /\ Len(s \o b) = Len(s) + Len(b)
         /\ \A i \in 1..Len(s) + Len(b) :
              (s \o b)[i] = IF i <= Len(s) THEN s[i] ELSE b[i - Len(s)]
  BY ConcatProperties, LenProperties

\* The frames of a line: the one shown, and the ones waiting.
LEMMA LineFacts ==
  ASSUME TypeOK, NEW v \in Viewers
  PROVE  /\ Line(v) \in Seq(Frame)
         /\ Len(Line(v)) \in Nat /\ Len(shown[v]) \in 0..1 /\ Len(buf[v]) \in Nat
         /\ Len(Line(v)) = Len(shown[v]) + Len(buf[v])
         /\ \A i \in 1..Len(Line(v)) :
              /\ Line(v)[i].turn \in Turns /\ Line(v)[i].len \in Nat
              /\ Line(v)[i] = IF i <= Len(shown[v]) THEN shown[v][i]
                              ELSE buf[v][i - Len(shown[v])]
  <1>1. /\ shown[v] \in Seq(Frame) /\ buf[v] \in Seq(Frame) /\ Len(shown[v]) <= 1
        /\ Len(shown[v]) \in Nat /\ Len(buf[v]) \in Nat
    BY LenProperties DEF TypeOK
  <1>2. /\ Line(v) \in Seq(Frame)
        /\ Len(Line(v)) = Len(shown[v]) + Len(buf[v])
        /\ \A i \in 1..Len(shown[v]) + Len(buf[v]) :
             Line(v)[i] = IF i <= Len(shown[v]) THEN shown[v][i]
                          ELSE buf[v][i - Len(shown[v])]
    BY <1>1, Joined DEF Line
  <1>3. \A i \in 1..Len(Line(v)) : Line(v)[i] \in Frame
    BY <1>2, ElementOfSeq
  <1>4. \A i \in 1..Len(Line(v)) :
          Line(v)[i].turn \in Turns /\ Line(v)[i].len \in Nat
    BY <1>3 DEF Frame
  <1>5. Len(shown[v]) \in 0..1 /\ Len(Line(v)) \in Nat
    <2>1. \A k \in Nat : k <= 1 => k \in 0..1
      OBVIOUS
    <2>2. Len(shown[v]) \in 0..1
      BY <1>1, <2>1
    <2>3. Len(Line(v)) \in Nat
      BY <1>2, LenProperties
    <2> QED
      BY <2>2, <2>3
  <1>6. \A i \in 1..Len(Line(v)) :
          Line(v)[i] = IF i <= Len(shown[v]) THEN shown[v][i]
                       ELSE buf[v][i - Len(shown[v])]
    BY <1>2
  <1> QED
    BY <1>1, <1>2, <1>4, <1>5, <1>6

\* Publish puts the frame at the end of a line, or leaves the line alone.
LEMMA LinePublished ==
  ASSUME TypeOK, TypeOK', NEW f \in Frame, Publish(f), NEW v \in Viewers
  PROVE  \/ /\ Len(Line(v)') = Len(Line(v)) + 1
            /\ \A i \in 1..Len(Line(v)) : Line(v)'[i] = Line(v)[i]
            /\ Line(v)'[Len(Line(v)) + 1] = f
         \/ Line(v)' = Line(v) /\ (v \in subs => v \in missed')
  <1> DEFINE m == Len(shown[v])
             n == Len(buf[v])
  <1>1. /\ m \in 0..1 /\ n \in Nat /\ Len(Line(v)) = m + n
        /\ \A i \in 1..m + n : Line(v)[i] = IF i <= m THEN shown[v][i]
                                            ELSE buf[v][i - m]
    BY LineFacts
  <1>2. /\ Append(buf[v], f) \in Seq(Frame)
        /\ Len(Append(buf[v], f)) = n + 1
        /\ \A i \in 1..n : Append(buf[v], f)[i] = buf[v][i]
        /\ Append(buf[v], f)[n + 1] = f
    BY AppendProperties DEF TypeOK
  <1>3. shown' = shown
    BY DEF Publish
  <1>4. CASE v \in subs /\ Room(v)
    <2>1. buf'[v] = Append(buf[v], f)
      BY <1>4 DEF Publish
    <2>2. /\ Line(v)' = shown[v] \o Append(buf[v], f)
          /\ shown[v] \in Seq(Frame)
      BY <1>3, <2>1 DEF Line, TypeOK
    <2>3. /\ Len(Line(v)') = m + (n + 1)
          /\ \A i \in 1..m + (n + 1) :
               Line(v)'[i] = IF i <= m THEN shown[v][i]
                             ELSE Append(buf[v], f)[i - m]
      <3> DEFINE b == Append(buf[v], f)
      <3>1. b \in Seq(Frame) /\ Len(b) = n + 1
        BY <1>2
      <3> HIDE DEF b
      <3>2. /\ Len(shown[v] \o b) = Len(shown[v]) + Len(b)
            /\ \A i \in 1..Len(shown[v]) + Len(b) :
                 (shown[v] \o b)[i] = IF i <= Len(shown[v]) THEN shown[v][i]
                                      ELSE b[i - Len(shown[v])]
        BY <2>2, <3>1, Joined
      <3>3. Line(v)' = shown[v] \o b
        BY <2>2 DEF b
      <3> QED
        BY <3>1, <3>2, <3>3 DEF b
    <2> HIDE DEF m, n
    <2>4. ASSUME NEW i \in 1..m + n PROVE Line(v)'[i] = Line(v)[i]
      <3>1. i \in 1..m + (n + 1) /\ (~(i <= m) => i - m \in 1..n)
        BY <1>1
      <3> QED
        BY <1>1, <1>2, <2>3, <3>1
    <2>5. Line(v)'[m + n + 1] = f
      <3>1. /\ m + n + 1 \in 1..m + (n + 1) /\ ~(m + n + 1 <= m)
            /\ (m + n + 1) - m = n + 1
        BY <1>1
      <3> QED
        BY <1>2, <2>3, <3>1
    <2> QED
      BY <1>1, <2>3, <2>4, <2>5
  <1>5. CASE ~(v \in subs /\ Room(v))
    <2>1. buf'[v] = buf[v] /\ (v \in subs => v \in missed')
      BY <1>5 DEF Publish
    <2> QED
      BY <1>3, <2>1 DEF Line
  <1> QED
    BY <1>4, <1>5

\* A step of a page leaves of each line a run of what was there.
LEMMA LineKept ==
  ASSUME TypeOK, TypeOK', NEW v \in Viewers, Page(v), NEW w \in Viewers
  PROVE  \E d \in Nat :
            /\ Len(Line(w)') + d <= Len(Line(w))
            /\ \A i \in 1..Len(Line(w)') : Line(w)'[i] = Line(w)[i + d]
            /\ w # v => Line(w)' = Line(w)
            /\ Receive(v) => Len(Line(w)') + d = Len(Line(w))
  <1>1. CASE w # v
    <2>1. buf'[w] = buf[w] /\ shown'[w] = shown[w]
      BY <1>1 DEF Page, Subscribe, Unsubscribe, Receive, ClearStream, TypeOK
    <2>2. Line(w)' = Line(w) /\ Len(Line(w)) \in Nat
      BY <2>1, LineFacts DEF Line
    <2>3. /\ Len(Line(w)') + 0 <= Len(Line(w))
          /\ \A i \in 1..Len(Line(w)') : Line(w)'[i] = Line(w)[i + 0]
          /\ Len(Line(w)') + 0 = Len(Line(w))
      BY <2>2
    <2> QED
      BY <2>2, <2>3
  <1>2. CASE w = v
    <2> DEFINE m == Len(shown[v])
               n == Len(buf[v])
               p == Len(shown'[v])
               q == Len(buf'[v])
    <2>1. /\ m \in 0..1 /\ n \in Nat /\ Len(Line(v)) = m + n
          /\ \A i \in 1..m + n : Line(v)[i] = IF i <= m THEN shown[v][i]
                                              ELSE buf[v][i - m]
      BY LineFacts
    <2>2. /\ p \in 0..1 /\ q \in Nat /\ Len(Line(v)') = p + q
          /\ \A i \in 1..p + q : Line(v)'[i] = IF i <= p THEN shown'[v][i]
                                               ELSE buf'[v][i - p]
      <3>1. shown'[v] \in Seq(Frame) /\ buf'[v] \in Seq(Frame) /\ p <= 1
        BY DEF TypeOK
      <3>2. p \in Nat /\ q \in Nat
        BY <3>1, LenProperties
      <3>3. Line(v)' = shown'[v] \o buf'[v]
        BY DEF Line
      <3>4. /\ Len(shown'[v] \o buf'[v]) = p + q
            /\ \A i \in 1..p + q :
                 (shown'[v] \o buf'[v])[i] = IF i <= p THEN shown'[v][i]
                                             ELSE buf'[v][i - p]
        BY <3>1, Joined
      <3>5. p \in 0..1
        <4>1. \A k \in Nat : k <= 1 => k \in 0..1
          OBVIOUS
        <4> HIDE DEF p
        <4> QED
          BY <3>1, <3>2, <4>1
      <3> HIDE DEF p, q
      <3> QED
        BY <3>2, <3>3, <3>4, <3>5
    <2> HIDE DEF m, n, p, q
    <2>3. CASE Unsubscribe(v) \/ Subscribe(v)
      <3>1. /\ buf'[v] = <<>>
            /\ shown'[v] = <<>> \/ shown'[v] = shown[v]
        BY <2>3 DEF Unsubscribe, Subscribe, TypeOK
      <3>2. q = 0 /\ (p = 0 \/ (p = m /\ shown'[v] = shown[v]))
        BY <3>1 DEF p, q, m
      <3>3. p + q + 0 <= m + n
        BY <2>1, <2>2, <3>2
      <3>4. ASSUME NEW i \in 1..p + q PROVE Line(v)'[i] = Line(v)[i + 0]
        <4>1. p = m /\ shown'[v] = shown[v] /\ i <= p /\ i \in 1..m + n /\ i + 0 = i
          BY <2>1, <2>2, <3>2
        <4> QED
          BY <2>1, <2>2, <4>1
      <3>5. ~Receive(v)
        BY <2>3, <3>1 DEF Unsubscribe, Subscribe, Receive, TypeOK
      <3> QED
        BY <1>2, <2>1, <2>2, <3>3, <3>4, <3>5
    <2>4. CASE ClearStream(v)
      <3>1. buf'[v] = buf[v] /\ shown'[v] = <<>> /\ shown[v] # <<>>
        BY <2>4 DEF ClearStream, TypeOK
      <3>2. q = n /\ p = 0 /\ m = 1
        <4>1. m # 0
          BY <3>1, EmptySeq DEF TypeOK, m
        <4> QED
          BY <2>1, <3>1, <4>1 DEF p, q, n
      <3>3. ASSUME NEW i \in 1..p + q PROVE Line(v)'[i] = Line(v)[i + 1]
        <4>1. i + 1 \in 1..m + n /\ ~(i + 1 <= m) /\ (i + 1) - m = i
              /\ ~(i <= p) /\ i - p = i
          BY <2>1, <2>2, <3>2
        <4> QED
          BY <2>1, <2>2, <3>1, <4>1
      <3>4. (p + q) + 1 <= m + n /\ (p + q) + 1 = m + n
        BY <2>1, <2>2, <3>2
      <3> QED
        BY <1>2, <2>1, <2>2, <3>3, <3>4
    <2>5. CASE Receive(v)
      <3>1. /\ buf[v] \in Seq(Frame) /\ buf[v] # <<>>
            /\ buf'[v] = Tail(buf[v]) /\ shown'[v] = <<Head(buf[v])>>
        BY <2>5 DEF Receive, TypeOK
      <3>2. /\ Head(buf[v]) = buf[v][1] /\ n > 0 /\ q = n - 1 /\ p = 1
            /\ \A i \in 1..q : buf'[v][i] = buf[v][i + 1]
            /\ shown'[v][1] = buf[v][1]
        <4>1. n # 0
          BY <3>1, EmptySeq DEF n
        <4> QED
          BY <2>1, <3>1, <4>1, HeadTailProperties DEF n, p, q
      <3>3. ASSUME NEW i \in 1..p + q PROVE Line(v)'[i] = Line(v)[i + m]
        <4>1. i + m \in 1..m + n /\ ~(i + m <= m) /\ (i + m) - m = i
          BY <2>1, <2>2, <3>2
        <4>2. Line(v)[i + m] = buf[v][i]
          BY <2>1, <4>1
        <4>3. CASE i = 1
          BY <2>2, <3>2, <4>2, <4>3
        <4>4. CASE i # 1
          <5>1. ~(i <= p) /\ i - p \in 1..q /\ (i - p) + 1 = i
            BY <2>2, <3>2, <4>4
          <5> QED
            BY <2>2, <3>2, <4>2, <5>1
        <4> QED
          BY <4>3, <4>4
      <3>4. (p + q) + m <= m + n /\ (p + q) + m = m + n /\ m \in Nat
        BY <2>1, <2>2, <3>2
      <3> QED
        BY <1>2, <2>1, <2>2, <3>3, <3>4
    <2> QED
      BY <2>3, <2>4, <2>5 DEF Page
  <1> QED
    BY <1>1, <1>2

\* A published frame is longer than every frame of its turn before it.
LEMMA FramesSpeaks ==
  ASSUME ChatInv, ChatInv', Frames, NEW t \in Turns, NEW n \in Nat, Speaks(t, n)
  PROVE  Frames'
  <1> DEFINE f == [turn |-> t, len |-> n]
  <1>1. /\ acc[t] \in Nat /\ acc[t] < n
        /\ \A u \in Turns : acc'[u] = IF u = t THEN n ELSE acc[u]
        /\ f \in Frame /\ f.turn = t /\ f.len = n
    BY Spoken
  <1>2. Publish(f) /\ TypeOK /\ TypeOK' /\ (\A u \in Turns : acc[u] \in Nat)
    <2>1. Publish(f)
      BY DEF Speaks
    <2>2. TypeOK /\ TypeOK'
      BY DEF ChatInv
    <2>3. \A u \in Turns : acc[u] \in Nat
      BY <2>2 DEF TypeOK
    <2> QED
      BY <2>1, <2>2, <2>3
  <1>3. Newest'
    <2>1. newest' = <<f>>
      BY <1>2 DEF Publish
    <2> HIDE DEF f
    <2>2. newest' # <<>> /\ newest'[1] = f
      BY <2>1
    <2> QED
      BY <1>1, <2>2 DEF Newest
  <1>4. newest'[1] = f /\ subs' = subs
    BY <1>2 DEF Publish
  <1> HIDE DEF f
  <1>5. ASSUME NEW v \in Viewers
        PROVE  Ordered(v)' /\ Sent(v)' /\ Latest(v)'
    <2> DEFINE k == Len(Line(v))
    <2>1. /\ k \in Nat
          /\ \A i \in 1..k : Line(v)[i].turn \in Turns /\ Line(v)[i].len \in Nat
      BY <1>2, LineFacts
    <2>2. Ordered(v) /\ Sent(v)
      BY DEF Frames
    <2>3. \A i \in 1..k : /\ Line(v)[i].len <= acc[Line(v)[i].turn]
                          /\ Line(v)[i].len <= acc'[Line(v)[i].turn]
                          /\ Line(v)[i].turn = t => Line(v)[i].len < n
      BY <1>1, <1>2, <2>1, <2>2 DEF Sent
    <2>4. CASE /\ Len(Line(v)') = k + 1
               /\ \A i \in 1..k : Line(v)'[i] = Line(v)[i]
               /\ Line(v)'[k + 1] = f
      <3> HIDE DEF k
      <3>1. \A i \in 1..k + 1 : i \in 1..k \/ i = k + 1
        BY <2>1
      <3>2. ASSUME NEW i \in 1..k + 1, NEW j \in 1..k + 1, i < j,
                   Line(v)'[i].turn = Line(v)'[j].turn
            PROVE  Line(v)'[i].len < Line(v)'[j].len
        <4>1. i \in 1..k
          BY <2>1, <3>2
        <4>2. CASE j \in 1..k
          BY <2>2, <2>4, <3>2, <4>1, <4>2 DEF Ordered, k
        <4>3. CASE j = k + 1
          BY <1>1, <2>3, <2>4, <3>2, <4>1, <4>3
        <4> QED
          BY <3>1, <4>2, <4>3
      <3>3. \A i \in 1..k + 1 : Line(v)'[i].len <= acc'[Line(v)'[i].turn]
        BY <1>1, <2>3, <2>4, <3>1
      <3>4. Latest(v)'
        BY <1>4, <2>1, <2>4 DEF Latest
      <3> QED
        BY <2>4, <3>2, <3>3, <3>4 DEF Ordered, Sent
    <2>5. CASE Line(v)' = Line(v) /\ (v \in subs => v \in missed')
      <3>1. Ordered(v)'
        BY <2>2, <2>5 DEF Ordered
      <3>2. Sent(v)'
        BY <2>3, <2>5 DEF Sent
      <3>3. Latest(v)'
        BY <1>4, <2>5 DEF Latest
      <3> QED
        BY <3>1, <3>2, <3>3
    <2> QED
      BY <1>1, <1>2, <2>4, <2>5, LinePublished
  <1> QED
    BY <1>3, <1>5 DEF Frames

LEMMA FramesPage ==
  ASSUME ChatInv, ChatInv', Frames, NEW v \in Viewers, Page(v)
  PROVE  Frames'
  <1>1. TypeOK /\ TypeOK' /\ acc' = acc /\ newest' = newest
    BY TypesPage DEF ChatInv
  <1>2. ASSUME NEW w \in Viewers
        PROVE  /\ Ordered(w)' /\ Sent(w)' /\ Latest(w)'
               /\ newest = <<>> => Line(w)' = <<>>
    <2>1. PICK d \in Nat :
            /\ Len(Line(w)') + d <= Len(Line(w))
            /\ \A i \in 1..Len(Line(w)') : Line(w)'[i] = Line(w)[i + d]
            /\ w # v => Line(w)' = Line(w)
            /\ Receive(v) => Len(Line(w)') + d = Len(Line(w))
      BY <1>1, LineKept
    <2>2. Len(Line(w)) \in Nat
      BY <1>1, LineFacts
    <2>3. Line(w)' \in Seq(Frame) /\ Len(Line(w)') \in Nat
      <3>1. shown'[w] \in Seq(Frame) /\ buf'[w] \in Seq(Frame)
        BY <1>1 DEF TypeOK
      <3>2. Line(w)' = shown'[w] \o buf'[w]
        BY DEF Line
      <3> QED
        BY <3>1, <3>2, ConcatProperties, LenProperties
    <2>4. Ordered(w) /\ Sent(w) /\ Latest(w)
      BY DEF Frames
    <2>5. \A i \in 1..Len(Line(w)') : i + d \in 1..Len(Line(w))
      BY <2>1, <2>2, <2>3
    <2>6. Ordered(w)'
      <3>1. ASSUME NEW i \in 1..Len(Line(w)'), NEW j \in 1..Len(Line(w)'), i < j,
                   Line(w)'[i].turn = Line(w)'[j].turn
            PROVE  Line(w)'[i].len < Line(w)'[j].len
        <4>1. i + d < j + d
          BY <2>1, <2>3, <3>1
        <4> QED
          BY <2>1, <2>4, <2>5, <3>1, <4>1 DEF Ordered
      <3> QED
        BY <3>1 DEF Ordered
    <2>7. Sent(w)'
      BY <1>1, <2>1, <2>4, <2>5 DEF Sent
    <2>8. newest = <<>> => Line(w)' = <<>>
      <3> SUFFICES ASSUME newest = <<>> PROVE Line(w)' = <<>>
        OBVIOUS
      <3>1. Len(Line(w)) = 0
        BY DEF Frames, Newest
      <3>2. Len(Line(w)') = 0
        BY <2>1, <2>3, <3>1
      <3> QED
        BY <2>3, <3>2, EmptySeq
    <2>9. Latest(w)'
      <3> SUFFICES ASSUME w \in subs', w \notin late' \cup missed', newest # <<>>
                   PROVE  /\ Len(Line(w)') > 0
                          /\ Line(w)'[Len(Line(w)')] = newest[1]
        BY <1>1 DEF Latest
      <3>1. CASE w # v
        <4>1. w \in subs /\ w \notin late \cup missed /\ Line(w)' = Line(w)
          BY <2>1, <3>1 DEF Page, Subscribe, Unsubscribe, Receive, ClearStream
        <4> QED
          BY <2>4, <4>1 DEF Latest
      <3>2. CASE w = v
        <4>1. Receive(v) /\ w \in subs /\ w \notin late \cup missed
          BY <3>2 DEF Page, Subscribe, Unsubscribe, Receive, ClearStream
        <4>2. Len(Line(w)) > 0 /\ Line(w)[Len(Line(w))] = newest[1]
          BY <2>4, <4>1 DEF Latest
        <4>3. Len(Line(w)') > 0
          <5>1. shown'[w] = <<Head(buf[w])>>
            BY <1>1, <3>2, <4>1 DEF Receive, TypeOK
          <5>2. Len(shown'[w]) = 1
            BY <5>1
          <5>3. shown'[w] \in Seq(Frame) /\ buf'[w] \in Seq(Frame)
                /\ Len(buf'[w]) \in Nat
            BY <1>1, LenProperties DEF TypeOK
          <5>4. Len(Line(w)') = Len(shown'[w]) + Len(buf'[w])
            BY <5>3, ConcatProperties DEF Line
          <5> QED
            BY <5>2, <5>3, <5>4
        <4>4. /\ Len(Line(w)') \in 1..Len(Line(w)')
              /\ Len(Line(w)') + d = Len(Line(w))
          BY <2>1, <2>3, <4>1, <4>3
        <4> QED
          BY <2>1, <4>2, <4>3, <4>4
      <3> QED
        BY <3>1, <3>2
    <2> QED
      BY <2>6, <2>7, <2>8, <2>9
  <1>3. Newest'
    BY <1>1, <1>2 DEF Frames, Newest
  <1> QED
    BY <1>2, <1>3 DEF Frames

LEMMA FramesStep ==
  ASSUME ChatInv, ChatInv', Frames, [Next]_vars
  PROVE  Frames'
  <1>1. ASSUME UNCHANGED <<acc, broker>> PROVE Frames'
    <2>1. /\ UNCHANGED <<acc, subs, newest, late, missed>>
          /\ \A v \in Viewers : Line(v)' = Line(v)
      BY <1>1 DEF broker, Line
    <2>2. Newest'
      BY <2>1 DEF Frames, Newest
    <2>3. ASSUME NEW v \in Viewers PROVE Ordered(v)' /\ Sent(v)' /\ Latest(v)'
      <3>1. Ordered(v) /\ Sent(v) /\ Latest(v)
        BY DEF Frames
      <3>2. Ordered(v)'
        BY <2>1, <3>1 DEF Ordered
      <3>3. Sent(v)'
        BY <2>1, <3>1 DEF Sent
      <3>4. Latest(v)'
        BY <2>1, <3>1 DEF Latest
      <3> QED
        BY <3>2, <3>3, <3>4
    <2> QED
      BY <2>2, <2>3 DEF Frames
  <1>2. ASSUME NEW t \in Turns, Quiet(t) PROVE Frames'
    BY <1>1, <1>2, TypesQuiet
  <1>3. CASE UNCHANGED vars
    BY <1>1, <1>3 DEF vars, broker
  <1> QED
    BY <1>2, <1>3, ChatSteps, FramesSpeaks, FramesPage

\* Whatever concurrent turns publish to the one element of a page, and however
\* pages come, go, read slowly and are cleared: the frames of a turn reach a
\* page in growing order, and the page ends with the newest frame published
\* unless that frame was dropped for it or the page is newer.
THEOREM FramesAreOrdered == Spec => []FramesGrowToLatest
  <1>1. Init => Frames
    <2> SUFFICES ASSUME Init PROVE Frames
      OBVIOUS
    <2>1. \A v \in Viewers : Line(v) = <<>>
      BY DEF Init, Line
    <2>2. \A v \in Viewers : Len(Line(v)) = 0
      BY <2>1
    <2> QED
      BY <2>1, <2>2 DEF Init, Frames, Newest, Ordered, Sent, Latest
  <1>2. ChatInv /\ ChatInv' /\ Frames /\ [Next]_vars => Frames'
    BY FramesStep
  <1>3. ChatInv /\ Frames => FramesGrowToLatest
    <2> SUFFICES ASSUME ChatInv, Frames, NEW v \in subs
                 PROVE  /\ DOMAIN Line(v) = 1..Len(Line(v))
                        /\ Ordered(v) /\ Sent(v)
                        /\ v \notin late \cup missed =>
                             IF newest = <<>> THEN Line(v) = <<>>
                             ELSE /\ Line(v) # <<>>
                                  /\ Line(v)[Len(Line(v))] = newest[1]
                                  /\ newest[1].len = acc[newest[1].turn]
      BY DEF FramesGrowToLatest, Ordered, Sent
    <2>1. v \in Viewers /\ TypeOK
      BY DEF ChatInv, TypeOK
    <2>2. Line(v) \in Seq(Frame)
      BY <2>1, LineFacts
    <2>3. Len(Line(v)) > 0 => Line(v) # <<>>
      BY <2>2
    <2> QED
      BY <2>1, <2>2, <2>3, LenProperties DEF Frames, Newest, Latest
  <1> QED
    BY <1>1, <1>2, <1>3, ChatAlways, PTL DEF Spec

-----------------------------------------------------------------------------
(* The transcript *)

\* A turn past its first step has its question in the table, and a reply in
\* the table belongs to a turn that is done.
Asked(t) == \E j \in 1..Len(chat) : chat[j].role = "user" /\ chat[j].turn = t

Transcript ==
    /\ \A t \in Turns :
         pc[t] \in {"load", "connect", "stream", "reply", "done"} => Asked(t)
    /\ RepliesAreWhole

\* A row at the end of the table.
LEMMA RowAdded ==
  ASSUME TypeOK, NEW m \in Message, chat' = Append(chat, m)
  PROVE  /\ Len(chat) \in Nat /\ Len(chat') = Len(chat) + 1
         /\ \A i \in 1..Len(chat) : chat'[i] = chat[i]
         /\ chat'[Len(chat) + 1] = m
         /\ \A t : Asked(t) => Asked(t)'
  <1>1. /\ Len(chat) \in Nat /\ Len(chat') = Len(chat) + 1
        /\ \A i \in 1..Len(chat) : chat'[i] = chat[i]
        /\ chat'[Len(chat) + 1] = m
    BY AppendProperties, LenProperties DEF TypeOK
  <1> QED
    BY <1>1 DEF Asked

LEMMA TranscriptStep ==
  ASSUME ChatInv, Transcript, [Next]_vars
  PROVE  Transcript'
  <1>0. TypeOK
    BY DEF ChatInv
  <1> DEFINE n == Len(chat)
             Whole(i) ==
                 LET t == chat[i].turn
                 IN  /\ pc[t] = "done"
                     /\ acc[t] > 0 => chat[i].size = acc[t]
                     /\ \E j \in 1..i - 1 :
                           chat[j].role = "user" /\ chat[j].turn = t
                     /\ \A j \in 1..Len(chat) \ {i} :
                           chat[j].role = "assistant" => chat[j].turn # t
  <1>1. n \in Nat /\ \A i \in 1..n : chat[i] \in Message /\ chat[i].turn \in Turns
    <2>1. n \in Nat /\ \A i \in 1..n : chat[i] \in Message
      BY <1>0, LenProperties, ElementOfSeq DEF TypeOK
    <2> QED
      BY <2>1 DEF Message
  <1>2. \A i \in 1..n : chat[i].role = "assistant" => Whole(i)
    BY DEF Transcript, RepliesAreWhole
  <1>3. \A i \in 1..n : chat[i].role = "assistant" => pc[chat[i].turn] = "done"
    BY <1>2
  <1>4. ASSUME NEW t \in Turns, AppendUser(t) PROVE Transcript'
    <2>1. PICK m \in Message : /\ chat' = Append(chat, m)
                               /\ m.role = "user" /\ m.turn = t
      BY <1>4, ChatAssumption DEF AppendUser, Message
    <2>2. /\ pc' = [pc EXCEPT ![t] = "load"] /\ pc[t] = "idle"
          /\ UNCHANGED acc
      BY <1>4 DEF AppendUser, Goto
    <2>3. /\ Len(chat') = n + 1
          /\ \A i \in 1..n : chat'[i] = chat[i]
          /\ chat'[n + 1] = m
          /\ \A u : Asked(u) => Asked(u)'
      BY <1>0, <2>1, RowAdded
    <2>4. Asked(t)'
      BY <1>1, <2>1, <2>3 DEF Asked
    <2>5. \A u \in Turns :
            pc'[u] \in {"load", "connect", "stream", "reply", "done"} => Asked(u)'
      BY <1>0, <2>2, <2>3, <2>4 DEF Transcript, TypeOK
    <2>6. ASSUME NEW i \in 1..Len(chat'), chat'[i].role = "assistant"
          PROVE  Whole(i)'
      <3>1. i \in 1..n /\ chat'[i] = chat[i] /\ chat[i].role = "assistant"
        BY <1>1, <2>1, <2>3, <2>6
      <3>2. chat[i].turn # t /\ Whole(i)
        BY <1>2, <2>2, <3>1
      <3>3. pc'[chat[i].turn] = "done"
        BY <1>0, <1>1, <2>2, <3>1, <3>2 DEF TypeOK
      <3>4. \E j \in 1..i - 1 :
               chat'[j].role = "user" /\ chat'[j].turn = chat[i].turn
        BY <1>1, <2>3, <3>1, <3>2
      <3>5. \A j \in 1..Len(chat') \ {i} :
               chat'[j].role = "assistant" => chat'[j].turn # chat[i].turn
        <4> SUFFICES ASSUME NEW j \in 1..Len(chat') \ {i},
                            chat'[j].role = "assistant"
                     PROVE  chat'[j].turn # chat[i].turn
          OBVIOUS
        <4>1. j \in 1..n
          BY <1>1, <2>1, <2>3
        <4>2. chat'[j] = chat[j]
          BY <2>3, <4>1
        <4> QED
          BY <3>2, <4>1, <4>2
      <3> QED
        BY <2>2, <3>1, <3>2, <3>3, <3>4, <3>5
    <2> QED
      BY <2>5, <2>6 DEF Transcript, RepliesAreWhole
  <1>5. ASSUME NEW t \in Turns, AppendAssistant(t) PROVE Transcript'
    <2>0. acc[t] \in Nat
      BY <1>0 DEF TypeOK
    <2>1. PICK m \in Message : /\ chat' = Append(chat, m)
                               /\ m.role = "assistant" /\ m.turn = t
                               /\ acc[t] > 0 => m.size = acc[t]
      BY <1>5, <2>0 DEF AppendAssistant, Message
    <2>2. /\ pc' = [pc EXCEPT ![t] = "done"] /\ pc[t] = "reply"
          /\ UNCHANGED acc
      BY <1>5 DEF AppendAssistant, Goto
    <2>3. /\ Len(chat') = n + 1
          /\ \A i \in 1..n : chat'[i] = chat[i]
          /\ chat'[n + 1] = m
          /\ \A u : Asked(u) => Asked(u)'
      BY <1>0, <2>1, RowAdded
    <2>4. \A u \in Turns :
            pc'[u] \in {"load", "connect", "stream", "reply", "done"} => Asked(u)'
      BY <1>0, <2>2, <2>3 DEF Transcript, TypeOK
    <2>5. ASSUME NEW i \in 1..n, chat[i].role = "assistant" PROVE Whole(i)'
      <3>1. chat'[i] = chat[i] /\ chat[i].turn # t /\ Whole(i)
        BY <1>2, <2>2, <2>3, <2>5
      <3>2. pc'[chat[i].turn] = "done"
        BY <1>0, <1>1, <2>2, <3>1 DEF TypeOK
      <3>3. \E j \in 1..i - 1 :
               chat'[j].role = "user" /\ chat'[j].turn = chat[i].turn
        BY <1>1, <2>3, <3>1
      <3>4. \A j \in 1..Len(chat') \ {i} :
               chat'[j].role = "assistant" => chat'[j].turn # chat[i].turn
        BY <1>1, <2>1, <2>3, <3>1
      <3> QED
        BY <2>2, <3>1, <3>2, <3>3, <3>4
    <2>6. ASSUME NEW i, i = n + 1 PROVE Whole(i)'
      <3>1. pc'[t] = "done"
        BY <1>0, <2>2 DEF TypeOK
      <3>2. \E j \in 1..n : chat'[j].role = "user" /\ chat'[j].turn = t
        BY <2>2, <2>3 DEF Transcript, Asked
      <3>3. \A j \in 1..n : chat'[j].role = "assistant" => chat'[j].turn # t
        BY <1>3, <2>2, <2>3
      <3>4. 1..Len(chat') \ {i} = 1..n /\ 1..i - 1 = 1..n /\ chat'[i] = m
        BY <1>1, <2>3, <2>6
      <3> QED
        <4>1. chat'[i].turn = t /\ (acc'[t] > 0 => chat'[i].size = acc'[t])
          BY <2>1, <2>2, <3>4
        <4>2. \E j \in 1..i - 1 : chat'[j].role = "user" /\ chat'[j].turn = t
          BY <3>2, <3>4
        <4>3. \A j \in 1..Len(chat') \ {i} :
                 chat'[j].role = "assistant" => chat'[j].turn # t
          BY <3>3, <3>4
        <4> QED
          BY <3>1, <4>1, <4>2, <4>3
    <2>7. ASSUME NEW i \in 1..Len(chat'), chat'[i].role = "assistant"
          PROVE  Whole(i)'
      <3>1. i \in 1..n \/ i = n + 1
        BY <1>1, <2>3
      <3>2. CASE i \in 1..n
        BY <2>3, <2>5, <2>7, <3>2
      <3>3. CASE i = n + 1
        BY <2>6, <3>3
      <3> QED
        BY <3>1, <3>2, <3>3
    <2> QED
      BY <2>4, <2>7 DEF Transcript, RepliesAreWhole
  <1>6. ASSUME UNCHANGED chat,
               \A t \in Turns : pc[t] = "done" => pc'[t] = "done" /\ acc'[t] = acc[t],
               \A t \in Turns :
                  pc'[t] \in {"load", "connect", "stream", "reply", "done"} =>
                  pc[t] \in {"load", "connect", "stream", "reply", "done"}
        PROVE  Transcript'
    <2>1. ASSUME NEW i \in 1..Len(chat'), chat'[i].role = "assistant"
          PROVE  Whole(i)'
      <3>1. Whole(i) /\ chat[i].turn \in Turns
        BY <1>1, <1>2, <1>6, <2>1
      <3> QED
        BY <1>6, <3>1
    <2>2. \A t \in Turns :
            pc'[t] \in {"load", "connect", "stream", "reply", "done"} => Asked(t)'
      BY <1>6 DEF Transcript, Asked
    <2> QED
      BY <2>1, <2>2 DEF Transcript, RepliesAreWhole
  <1>7. ASSUME NEW t \in Turns,
               \/ LoadHistory(t) \/ Connect(t) \/ ConnectFails(t)
               \/ StreamEnds(t) \/ Abort(t)
               \/ CompleteAtOnce(t) /\ UNCHANGED <<acc, broker>>
        PROVE  Transcript'
    <2>1. /\ UNCHANGED chat
          /\ pc[t] # "done"
          /\ \A u \in Turns \ {t} : pc'[u] = pc[u] /\ acc'[u] = acc[u]
          /\ pc'[t] \in {"load", "connect", "stream", "reply", "done"} =>
             pc[t] \in {"load", "connect", "stream", "reply", "done"}
      BY <1>0, <1>7 DEF LoadHistory, Connect, ConnectFails, StreamEnds, Abort,
                        CompleteAtOnce, Goto, rows, Ended, TypeOK
    <2> QED
      BY <1>6, <2>1
  <1>8. ASSUME NEW t \in Turns, NEW k \in Nat, Speaks(t, k)
        PROVE  Transcript'
    <2>1. /\ UNCHANGED chat
          /\ pc[t] \in {"connect", "stream"}
          /\ \A u \in Turns \ {t} : pc'[u] = pc[u] /\ acc'[u] = acc[u]
      BY <1>8, Spoken
    <2> QED
      BY <1>6, <2>1
  <1>10. ASSUME NEW v \in Viewers, Page(v) PROVE Transcript'
    BY <1>6, <1>10, TypesPage
  <1>9. CASE UNCHANGED vars
    BY <1>6, <1>9 DEF vars
  <1> QED
    BY <1>4, <1>5, <1>7, <1>8, <1>9, <1>10, ChatSteps DEF Quiet

\* The transcript stays coherent: a reply stands after its own question, once,
\* in full, and only if its turn succeeded.
THEOREM TranscriptIsWhole == Spec => []RepliesAreWhole
  <1>1. Init => Transcript
    BY DEF Init, Transcript, RepliesAreWhole
  <1>2. ChatInv /\ Transcript /\ [Next]_vars => Transcript'
    BY TranscriptStep
  <1>3. Transcript => RepliesAreWhole
    BY DEF Transcript
  <1> QED
    BY <1>1, <1>2, <1>3, ChatAlways, PTL DEF Spec

-----------------------------------------------------------------------------
(* The question in the prompt *)

\* A suffix of a longer table is one row longer.
LEMMA SuffixOfOneMore ==
  ASSUME NEW s \in Seq(Message), NEW m \in Message, NEW n \in 0..Len(s)
  PROVE  Suffix(Append(s, m), n + 1) = Append(Suffix(s, n), m)
  <1> DEFINE t == Append(s, m)
             old == Suffix(s, n)
             new == Suffix(t, n + 1)
             both == Append(old, m)
  <1>1. Len(s) \in Nat /\ n \in Nat
    BY LenProperties
  <1>2. /\ t \in Seq(Message) /\ Len(t) = Len(s) + 1
        /\ \A i \in 1..Len(s) : t[i] = s[i]
        /\ t[Len(s) + 1] = m
    BY <1>1, AppendProperties
  <1> HIDE DEF t
  <1>3. n + 1 \in 0..Len(t)
    BY <1>1, <1>2
  <1>4. /\ old \in Seq(Message) /\ Len(old) = n
        /\ \A i \in 1..n : old[i] = s[Len(s) - n + i]
    BY Suffixes, SuffixElements
  <1>5. /\ new \in Seq(Message) /\ Len(new) = n + 1
        /\ \A i \in 1..n + 1 : new[i] = t[Len(t) - (n + 1) + i]
    BY <1>2, <1>3, Suffixes, SuffixElements
  <1> HIDE DEF old, new
  <1>6. /\ both \in Seq(Message) /\ Len(both) = n + 1
        /\ \A i \in 1..n : both[i] = old[i]
        /\ both[n + 1] = m
    BY <1>4, AppendProperties
  <1> HIDE DEF both
  <1>7. ASSUME NEW i \in 1..n + 1 PROVE new[i] = both[i]
    <2>1. new[i] = t[Len(s) - n + i]
      BY <1>1, <1>2, <1>5
    <2>2. CASE i \in 1..n
      <3>1. Len(s) - n + i \in 1..Len(s)
        BY <1>1, <2>2
      <3> QED
        BY <1>2, <1>4, <1>6, <2>1, <2>2, <3>1
    <2>3. CASE i = n + 1
      <3>1. Len(s) - n + i = Len(s) + 1
        BY <1>1, <2>3
      <3> QED
        BY <1>2, <1>6, <2>1, <2>3, <3>1
    <2>4. i \in 1..n \/ i = n + 1
      BY <1>1
    <2> QED
      BY <2>2, <2>3, <2>4
  <1>8. new = both
    BY <1>5, <1>6, <1>7, SeqEqual
  <1> QED
    BY <1>8 DEF new, both, old, t

\* Whoever was crowded out stays so: the table only grows.
LEMMA CrowdStays ==
  ASSUME TypeOK, NEW m \in Message, chat' = Append(chat, m),
         NEW q \in 1..Len(chat), Crowded(q)
  PROVE  Crowded(q)'
  <1> DEFINE n == Len(chat) - q + 1
             old == Suffix(chat, n)
             new == Suffix(chat', n + 1)
  <1>1. chat \in Seq(Message) /\ Len(chat) \in Nat
    BY LenProperties DEF TypeOK
  <1>2. Len(chat') = Len(chat) + 1
    BY <1>1, AppendProperties
  <1>3. n \in 0..Len(chat) /\ n \in Nat
    BY <1>1
  <1>4. Len(chat') - q + 1 = n + 1
    BY <1>1, <1>2
  <1>5. ~(n <= HistoryLimit /\ Bytes(old) <= HistoryBytes)
    BY DEF Crowded
  <1> HIDE DEF n
  <1>6. old \in Seq(Message) /\ new = Append(old, m)
    BY <1>1, <1>3, Suffixes, SuffixOfOneMore
  <1> HIDE DEF old, new
  <1>7. Bytes(new) = Bytes(old) + m.size /\ Bytes(old) \in Nat /\ m.size \in Nat
    BY <1>6, BytesOfOneMore
  <1>8. ~(n + 1 <= HistoryLimit /\ Bytes(new) <= HistoryBytes)
    BY <1>3, <1>5, <1>7, ChatAssumption
  <1> QED
    BY <1>4, <1>8 DEF Crowded, new

\* What is loaded holds the question, if it is not crowded out already.
LEMMA LoadedQuestion ==
  ASSUME TypeOK, NEW t \in Turns, NEW q \in 1..Len(chat),
         Question(chat, q, t), ~Crowded(q)
  PROVE  \E i \in 1..Len(History(chat)) : Question(History(chat), i, t)
  <1> DEFINE n == Len(chat) - q + 1
             h == History(chat)
             i == Len(h) - n + 1
  <1>1. chat \in Seq(Message) /\ Len(chat) \in Nat
    BY LenProperties DEF TypeOK
  <1>2. n \in 1..Len(chat) /\ n \in 0..Len(chat)
    BY <1>1
  <1>3. n <= HistoryLimit /\ Bytes(Suffix(chat, n)) <= HistoryBytes
    BY DEF Crowded
  <1>4. n <= Len(h) /\ Len(h) \in 0..Len(chat) /\ h = Suffix(chat, Len(h))
    <2> HIDE DEF n
    <2> QED
      BY <1>1, <1>2, <1>3, HistoryWithinCaps
  <1> HIDE DEF h
  <1>5. i \in 1..Len(h) /\ Len(chat) - Len(h) + i = q
    BY <1>1, <1>2, <1>4
  <1>6. h[i] = chat[q]
    <2>1. \A j \in 1..Len(h) : Suffix(chat, Len(h))[j] = chat[Len(chat) - Len(h) + j]
      BY <1>1, <1>4, SuffixElements
    <2> HIDE DEF i
    <2> QED
      BY <1>4, <1>5, <2>1
  <1>7. Question(h, i, t)
    BY <1>6 DEF Question
  <1> HIDE DEF i
  <1> QED
    BY <1>5, <1>7 DEF h

Loaded == {"connect", "stream", "reply", "done"}

LEMMA QuestionStep ==
  ASSUME ChatInv, Transcript, QuestionUnlessCrowded, [Next]_vars
  PROVE  QuestionUnlessCrowded'
  <1>0. TypeOK
    BY DEF ChatInv
  <1> DEFINE InPrompt(t) ==
                 \E i \in 1..Len(prompt[t]) : Question(prompt[t], i, t)
             Out(t) == \E q \in 1..Len(chat) : Question(chat, q, t) /\ Crowded(q)
  <1>1. \A t \in Turns : pc[t] \in Loaded => InPrompt(t) \/ Out(t)
    BY DEF QuestionUnlessCrowded, Loaded
  <1>2. SUFFICES \A t \in Turns : pc'[t] \in Loaded => InPrompt(t)' \/ Out(t)'
    BY DEF QuestionUnlessCrowded, Loaded
  <1>3. ASSUME NEW m \in Message, chat' = Append(chat, m), UNCHANGED prompt,
               \A t \in Turns : pc'[t] \in Loaded => pc[t] \in Loaded
        PROVE  \A t \in Turns : pc'[t] \in Loaded => InPrompt(t)' \/ Out(t)'
    <2> SUFFICES ASSUME NEW t \in Turns, pc'[t] \in Loaded
                 PROVE  InPrompt(t)' \/ Out(t)'
      OBVIOUS
    <2>1. CASE InPrompt(t)
      BY <1>3, <2>1
    <2>2. CASE Out(t)
      <3>1. PICK q \in 1..Len(chat) : Question(chat, q, t) /\ Crowded(q)
        BY <2>2
      <3>2. Crowded(q)'
        BY <1>0, <1>3, <3>1, CrowdStays
      <3>3. q \in 1..Len(chat') /\ chat'[q] = chat[q]
        <4>1. /\ Len(chat) \in Nat /\ Len(chat') = Len(chat) + 1
              /\ \A i \in 1..Len(chat) : chat'[i] = chat[i]
          BY <1>0, <1>3, RowAdded
        <4> QED
          BY <4>1
      <3>4. Question(chat', q, t)
        BY <3>1, <3>3 DEF Question
      <3> QED
        BY <3>2, <3>3, <3>4
    <2> QED
      BY <1>1, <1>3, <2>1, <2>2
  <1>4. ASSUME UNCHANGED <<chat, prompt>>,
               \A t \in Turns : pc'[t] \in Loaded => pc[t] \in Loaded
        PROVE  \A t \in Turns : pc'[t] \in Loaded => InPrompt(t)' \/ Out(t)'
    BY <1>1, <1>4 DEF Crowded
  <1>5. ASSUME NEW t \in Turns, LoadHistory(t)
        PROVE  \A u \in Turns : pc'[u] \in Loaded => InPrompt(u)' \/ Out(u)'
    <2>1. /\ UNCHANGED chat /\ pc[t] = "load"
          /\ prompt' = [prompt EXCEPT ![t] = History(chat)]
          /\ pc' = [pc EXCEPT ![t] = "connect"]
      BY <1>5 DEF LoadHistory, Goto
    <2>2. \A u \in Turns \ {t} : pc'[u] = pc[u] /\ prompt'[u] = prompt[u]
      BY <1>0, <2>1 DEF TypeOK
    <2>3. prompt'[t] = History(chat)
      BY <1>0, <2>1 DEF TypeOK
    <2>4. PICK q \in 1..Len(chat) : Question(chat, q, t)
      BY <2>1 DEF Transcript, Asked, Question
    <2>5. CASE Crowded(q)
      <3>1. Out(t)'
        BY <2>1, <2>4, <2>5 DEF Crowded
      <3> QED
        BY <1>1, <2>1, <2>2, <3>1 DEF Crowded
    <2>6. CASE ~Crowded(q)
      <3>1. InPrompt(t)'
        BY <1>0, <2>3, <2>4, <2>6, LoadedQuestion
      <3> QED
        BY <1>1, <2>1, <2>2, <3>1 DEF Crowded
    <2> QED
      BY <2>5, <2>6
  <1> HIDE DEF InPrompt, Out
  <1>6. ASSUME NEW t \in Turns, AppendUser(t)
        PROVE  \A u \in Turns : pc'[u] \in Loaded => InPrompt(u)' \/ Out(u)'
    <2>1. \E m \in Message : chat' = Append(chat, m)
      BY <1>6, ChatAssumption DEF AppendUser, Message
    <2>2. UNCHANGED prompt /\ \A u \in Turns : pc'[u] \in Loaded => pc[u] \in Loaded
      BY <1>0, <1>6 DEF AppendUser, Goto, Loaded, TypeOK
    <2> QED
      BY <1>3, <2>1, <2>2
  <1>7. ASSUME NEW t \in Turns, AppendAssistant(t)
        PROVE  \A u \in Turns : pc'[u] \in Loaded => InPrompt(u)' \/ Out(u)'
    <2>1. acc[t] \in Nat
      BY <1>0 DEF TypeOK
    <2>2. \E m \in Message : chat' = Append(chat, m)
      BY <1>7, <2>1 DEF AppendAssistant, Message
    <2>3. UNCHANGED prompt /\ \A u \in Turns : pc'[u] \in Loaded => pc[u] \in Loaded
      BY <1>0, <1>7 DEF AppendAssistant, Goto, Loaded, TypeOK
    <2> QED
      BY <1>3, <2>2, <2>3
  <1>8. ASSUME NEW t \in Turns,
               \/ Connect(t) \/ ConnectFails(t) \/ StreamEnds(t) \/ Abort(t)
               \/ CompleteAtOnce(t)
        PROVE  \A u \in Turns : pc'[u] \in Loaded => InPrompt(u)' \/ Out(u)'
    <2>1. UNCHANGED <<chat, prompt>>
      BY <1>8 DEF Connect, ConnectFails, StreamEnds, Abort, CompleteAtOnce, rows
    <2>2. \A u \in Turns : pc'[u] \in Loaded => pc[u] \in Loaded
      BY <1>0, <1>8 DEF Connect, ConnectFails, StreamEnds, Abort, CompleteAtOnce,
                        Goto, Loaded, Ended, TypeOK
    <2> QED
      BY <1>4, <2>1, <2>2
  <1>9. ASSUME NEW t \in Turns, Delta(t)
        PROVE  \A u \in Turns : pc'[u] \in Loaded => InPrompt(u)' \/ Out(u)'
    BY <1>4, <1>9 DEF Delta, rows
  <1>10. ASSUME NEW v \in Viewers, Page(v)
         PROVE  \A u \in Turns : pc'[u] \in Loaded => InPrompt(u)' \/ Out(u)'
    BY <1>4, <1>10 DEF Page, Subscribe, Unsubscribe, Receive, ClearStream, rows
  <1>11. CASE UNCHANGED vars
    BY <1>4, <1>11 DEF vars
  <1> QED
    BY <1>5, <1>6, <1>7, <1>8, <1>9, <1>10, <1>11 DEF Next, Turn, Page

\* Whatever other turns persist in the meantime, the history a turn sends to
\* the provider holds its question (chat.go:77-99), unless that and what has
\* come after it are more than a cap allows.
THEOREM QuestionIsSent == Spec => []QuestionUnlessCrowded
  <1>1. Init => Transcript /\ QuestionUnlessCrowded
    BY DEF Init, Transcript, RepliesAreWhole, QuestionUnlessCrowded
  <1>2. ChatInv /\ Transcript /\ [Next]_vars => Transcript'
    BY TranscriptStep
  <1>3. ChatInv /\ Transcript /\ QuestionUnlessCrowded /\ [Next]_vars
          => QuestionUnlessCrowded'
    BY QuestionStep
  <1> QED
    BY <1>1, <1>2, <1>3, ChatAlways, PTL DEF Spec

-----------------------------------------------------------------------------
(* How long a turn can take *)

\* An upper bound on the steps turn t has left: in each place, the retries,
\* the deltas and the places still before it.
StepsLeft(t) ==
    CASE pc[t] = "idle" -> MaxDeltas + Retries + 5
      [] pc[t] = "load" -> MaxDeltas + Retries + 4
      [] pc[t] = "connect" -> MaxDeltas + (Retries - tries[t]) + 3
      [] pc[t] = "stream" -> left[t] + 2
      [] pc[t] = "reply" -> 1
      [] OTHER -> 0

\* What a step may do to a turn: leave it where it is, or bring it nearer to
\* its end.
NearerToItsEnd ==
    \A t \in Turns :
        /\ StepsLeft(t)' <= StepsLeft(t)
        /\ <<pc[t], tries[t], left[t], acc[t]>>'
             # <<pc[t], tries[t], left[t], acc[t]>> => StepsLeft(t)' < StepsLeft(t)

\* The bound is a number, and is zero for the turns that have ended.
StepsAreBounded ==
    \A t \in Turns :
        /\ StepsLeft(t) \in 0..MaxDeltas + Retries + 5
        /\ StepsLeft(t) = 0 <=> pc[t] \in Ended

LEMMA StepsLeftBound ==
  ASSUME ChatInv, NEW t \in Turns
  PROVE  /\ StepsLeft(t) \in 0..MaxDeltas + Retries + 5
         /\ StepsLeft(t) = 0 <=> pc[t] \in Ended
  <1>1. /\ tries[t] \in Nat /\ left[t] \in 0..MaxDeltas
        /\ pc[t] = "connect" => tries[t] <= Retries
        /\ pc[t] \in {"idle", "load", "connect", "stream", "reply", "done", "error"}
    BY DEF ChatInv, TypeOK, Paced, Ended
  <1> QED
    BY <1>1, ChatAssumption DEF StepsLeft, Ended

LEMMA TurnGetsNearer ==
  ASSUME ChatInv, NEW t \in Turns, Turn(t) \/ Abort(t)
  PROVE  StepsLeft(t)' < StepsLeft(t) /\ StepsLeft(t)' <= StepsLeft(t)
  <1>1. /\ tries \in [Turns -> 0..Retries + 1] /\ left \in [Turns -> 0..MaxDeltas]
        /\ DOMAIN pc = Turns
        /\ tries[t] \in Nat /\ left[t] \in 0..MaxDeltas
        /\ pc[t] = "connect" => tries[t] <= Retries
        /\ pc[t] \in {"idle", "load", "connect", "stream", "reply", "done", "error"}
    BY DEF ChatInv, TypeOK, Paced, Ended
  <1> USE ChatAssumption DEF Goto
  <1>2. CASE AppendUser(t)
    <2>1. pc[t] = "idle" /\ pc'[t] = "load"
      BY <1>1, <1>2 DEF AppendUser
    <2> QED
      BY <2>1 DEF StepsLeft
  <1>3. CASE LoadHistory(t)
    <2>1. /\ pc[t] = "load" /\ pc'[t] = "connect"
          /\ tries[t] \in 0..Retries /\ tries' = tries
      BY <1>1, <1>3 DEF LoadHistory, ChatInv, Paced
    <2> QED
      BY <2>1 DEF StepsLeft
  <1>4. CASE Connect(t)
    <2>1. /\ pc[t] = "connect" /\ pc'[t] = "stream"
          /\ tries[t] \in 0..Retries /\ left'[t] \in 0..MaxDeltas
      BY <1>1, <1>4 DEF Connect
    <2> QED
      BY <2>1 DEF StepsLeft
  <1>5. CASE ConnectFails(t)
    <2>1. /\ pc[t] = "connect" /\ pc'[t] \in {"connect", "error"}
          /\ tries[t] \in 0..Retries /\ tries'[t] = tries[t] + 1
      BY <1>1, <1>5 DEF ConnectFails
    <2> QED
      BY <2>1 DEF StepsLeft
  <1>10. CASE CompleteAtOnce(t)
    <2>1. /\ pc[t] = "connect" /\ pc'[t] = "reply" /\ tries[t] \in 0..Retries
      BY <1>1, <1>10 DEF CompleteAtOnce
    <2> QED
      BY <2>1 DEF StepsLeft
  <1>6. CASE Delta(t)
    <2>1. /\ pc[t] = "stream" /\ pc'[t] = "stream"
          /\ left[t] \in Nat /\ left'[t] = left[t] - 1
      BY <1>1, <1>6 DEF Delta
    <2> QED
      BY <2>1 DEF StepsLeft
  <1>7. CASE StreamEnds(t)
    <2>1. pc[t] = "stream" /\ pc'[t] = "reply" /\ left[t] = 0
      BY <1>1, <1>7 DEF StreamEnds
    <2> QED
      BY <2>1 DEF StepsLeft
  <1>8. CASE AppendAssistant(t)
    <2>1. pc[t] = "reply" /\ pc'[t] = "done"
      BY <1>1, <1>8 DEF AppendAssistant
    <2> QED
      BY <2>1 DEF StepsLeft
  <1>9. CASE Abort(t)
    <2>1. StepsLeft(t) \in Nat /\ StepsLeft(t) # 0
      BY <1>9, StepsLeftBound DEF Abort
    <2>2. pc'[t] = "error"
      BY <1>1, <1>9 DEF Abort
    <2>3. StepsLeft(t)' = 0
      BY <2>2 DEF StepsLeft
    <2> QED
      BY <2>1, <2>3
  <1> QED
    BY <1>2, <1>3, <1>4, <1>5, <1>6, <1>7, <1>8, <1>9, <1>10 DEF Turn

\* Another turn's steps and the viewers' leave a turn where it is.
LEMMA OthersLeaveATurn ==
  ASSUME ChatInv, NEW t \in Turns,
         \/ \E u \in Turns \ {t} : Turn(u) \/ Abort(u)
         \/ \E v \in Viewers : Page(v)
         \/ UNCHANGED vars
  PROVE  /\ pc'[t] = pc[t] /\ tries'[t] = tries[t]
         /\ left'[t] = left[t] /\ acc'[t] = acc[t]
  <1>1. /\ DOMAIN pc = Turns /\ DOMAIN tries = Turns
        /\ DOMAIN left = Turns /\ DOMAIN acc = Turns
    BY DEF ChatInv, TypeOK
  <1>2. ASSUME NEW u \in Turns \ {t}, Turn(u) \/ Abort(u)
        PROVE  /\ pc'[t] = pc[t] /\ tries'[t] = tries[t]
               /\ left'[t] = left[t] /\ acc'[t] = acc[t]
    <2>1. /\ pc'[t] = pc[t] /\ tries'[t] = tries[t] /\ left'[t] = left[t]
      BY <1>1, <1>2 DEF Turn, AppendUser, LoadHistory, Connect, ConnectFails,
           CompleteAtOnce, Delta, StreamEnds, AppendAssistant, Abort, Goto
    <2>2. acc'[t] = acc[t]
      BY <1>1, <1>2 DEF Turn, AppendUser, LoadHistory, Connect, ConnectFails,
           CompleteAtOnce, Delta, StreamEnds, AppendAssistant, Abort
    <2> QED
      BY <2>1, <2>2
  <1>3. CASE \E v \in Viewers : Page(v)
    BY <1>3, TypesPage
  <1>4. CASE UNCHANGED vars
    BY <1>4 DEF vars
  <1> QED
    BY <1>2, <1>3, <1>4

\* A turn takes at most MaxDeltas + Retries + 5 steps: every step of its own
\* brings it nearer to its end and no step of another turn or of a viewer
\* sets it back (chat.go:39-126, openai.go:203-222).
THEOREM TurnsRunDown == Spec => []StepsAreBounded /\ [][NearerToItsEnd]_vars
  <1>1. ChatInv /\ [Next]_vars => NearerToItsEnd
    <2> SUFFICES ASSUME ChatInv, [Next]_vars, NEW t \in Turns
                 PROVE  /\ StepsLeft(t)' <= StepsLeft(t)
                        /\ <<pc[t], tries[t], left[t], acc[t]>>'
                             # <<pc[t], tries[t], left[t], acc[t]>>
                           => StepsLeft(t)' < StepsLeft(t)
      BY DEF NearerToItsEnd
    <2>1. StepsLeft(t) \in Nat
      BY StepsLeftBound, ChatAssumption
    <2>4. CASE Turn(t) \/ Abort(t)
      BY <2>4, TurnGetsNearer
    <2>5. CASE ~(Turn(t) \/ Abort(t))
      <3>1. /\ pc'[t] = pc[t] /\ tries'[t] = tries[t]
            /\ left'[t] = left[t] /\ acc'[t] = acc[t]
        <4>1. \/ \E u \in Turns \ {t} : Turn(u) \/ Abort(u)
              \/ \E v \in Viewers : Page(v)
              \/ UNCHANGED vars
          BY <2>5 DEF Next, Page
        <4> QED
          BY <4>1, OthersLeaveATurn
      <3>2. StepsLeft(t)' = StepsLeft(t)
        BY <3>1 DEF StepsLeft
      <3> QED
        BY <2>1, <3>1, <3>2
    <2> QED
      BY <2>4, <2>5
  <1>2. ChatInv => StepsAreBounded
    BY StepsLeftBound DEF StepsAreBounded
  <1> QED
    BY <1>1, <1>2, ChatAlways, PTL DEF Spec
=============================================================================

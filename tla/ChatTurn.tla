----------------------------- MODULE ChatTurn -----------------------------
(***************************************************************************)
(* Chat about one incident: RunChat (internal/web/chat.go) called by       *)
(* chatPost, the provider's stream (internal/agent/openai.go), the SSE     *)
(* Broker (internal/web/broker.go) and the chatStream handlers that        *)
(* forward its events to browsers (internal/web/server.go).                *)
(*                                                                         *)
(* Turns run concurrently, one per POST, and share the incident's chat     *)
(* table, its Broker topic and the one element of each page that shows     *)
(* what is streamed.  Text is abstracted to its length: a reply of n       *)
(* deltas has length n, none of them blank.  A frame carries the length of *)
(* the text it shows, and for the properties the turn the text is of: the  *)
(* Event itself says nothing of a turn.                                    *)
(***************************************************************************)
EXTENDS Naturals, Sequences, FiniteSets

CONSTANTS
    Turns,         \* POSTs to the incident's chat
    Viewers,       \* SSE connections to the incident's chat topic
    Sizes,         \* lengths a user message may have
    Buffer,        \* capacity of a subscriber's channel (8)
    HistoryLimit,  \* chatHistoryLimit (10)
    HistoryBytes,  \* chatHistoryByteBudget (8192)
    Retries,       \* connection retries of CompleteStream (2)
    MaxDeltas      \* bound on the deltas of a reply

ASSUME ChatAssumption ==
    /\ Sizes \subseteq Nat \ {0}
    /\ Buffer \in Nat \ {0}
    /\ HistoryLimit \in Nat \ {0}
    /\ HistoryBytes \in Nat
    /\ Retries \in Nat
    /\ MaxDeltas \in Nat

VARIABLES
    chat,     \* the incident's rows of chat_messages, by id
    pc,       \* pc[t]: where RunChat is in turn t
    prompt,   \* prompt[t]: the history sent to the provider
    tries,    \* tries[t]: failed connection attempts
    left,     \* left[t]: deltas the provider has yet to send
    acc,      \* acc[t]: length of the accumulated reply
    subs,     \* subscribed viewers
    buf,      \* buf[v]: the viewer's channel
    shown,    \* shown[v]: what the page's #chat-stream holds, <<>> or a frame
    newest,   \* history: the newest frame published, <<>> before the first
    late,     \* history: viewers that connected, or whose page was cleared,
              \* after the newest frame
    missed    \* history: viewers the newest frame was dropped for

rows == <<chat, prompt>>
broker == <<subs, buf, shown, newest, late, missed>>
vars == <<chat, pc, prompt, tries, left, acc,
          subs, buf, shown, newest, late, missed>>

-----------------------------------------------------------------------------
(* Building blocks *)

Message == [role : {"user", "assistant"}, turn : Turns, size : Nat]

Frame == [turn : Turns, len : Nat]

Ended == {"done", "error"}

Goto(t, label) == pc' = [pc EXCEPT ![t] = label]

Bytes(s) ==
    LET sum[i \in 0..Len(s)] == IF i = 0 THEN 0 ELSE sum[i - 1] + s[i].size
    IN  sum[Len(s)]

Suffix(s, n) == SubSeq(s, Len(s) - n + 1, Len(s))

\* Mutant: the newest messages are dropped until the rest fit the byte budget.
HistoryOldest(s) ==
    LET n == IF Len(s) < HistoryLimit THEN Len(s) ELSE HistoryLimit
        fits == {m \in 0..n :
                    Bytes(SubSeq(Suffix(s, n), 1, m)) <= HistoryBytes}
    IN  SubSeq(Suffix(s, n), 1, CHOOSE m \in fits : \A k \in fits : k <= m)

\* The last HistoryLimit messages, of which the oldest are dropped until the
\* rest fit the byte budget: the longest suffix within both caps.
History(s) ==
    LET fits == {n \in 0..Len(s) :
                    n <= HistoryLimit /\ Bytes(Suffix(s, n)) <= HistoryBytes}
    IN  Suffix(s, CHOOSE n \in fits : \A m \in fits : m <= n)

\* Mutant: channels without a capacity.
RoomAlways(v) == v \in Viewers

\* Broker.Publish: sent to every subscriber that has room, dropped for the
\* others; the publisher never waits.
Room(v) == Len(buf[v]) < Buffer

\* Mutant: the publisher waits until every subscriber has room.
PublishBlocks(f) ==
    /\ \A v \in subs : Room(v)
    /\ buf' = [v \in Viewers |-> IF v \in subs THEN Append(buf[v], f) ELSE buf[v]]
    /\ newest' = <<f>>
    /\ late' = {}
    /\ missed' = {}
    /\ UNCHANGED <<subs, shown>>

Publish(f) ==
    /\ buf' = [v \in Viewers |->
                 IF v \in subs /\ Room(v) THEN Append(buf[v], f) ELSE buf[v]]
    /\ newest' = <<f>>
    /\ late' = {}
    /\ missed' = {v \in subs : ~Room(v)}
    /\ UNCHANGED <<subs, shown>>

-----------------------------------------------------------------------------
(* RunChat *)

\* Step 1: persist the user's message (chatPost turns down empty ones).
AppendUser(t) ==
    /\ pc[t] = "idle"
    /\ \E n \in Sizes :
          chat' = Append(chat, [role |-> "user", turn |-> t, size |-> n])
    /\ Goto(t, "load")
    /\ UNCHANGED <<prompt, tries, left, acc, broker>>

\* Steps 2 and 3: load the incident and the history.
LoadHistory(t) ==
    /\ pc[t] = "load"
    /\ prompt' = [prompt EXCEPT ![t] = History(chat)]
    /\ Goto(t, "connect")
    /\ UNCHANGED <<chat, tries, left, acc, broker>>

\* Step 4: connect to the provider; transport errors, 429 and 5xx are
\* retried, since no delta was delivered yet.
Connect(t) ==
    /\ pc[t] = "connect"
    /\ \E n \in 0..MaxDeltas : left' = [left EXCEPT ![t] = n]
    /\ Goto(t, "stream")
    /\ UNCHANGED <<rows, tries, acc, broker>>

ConnectFails(t) ==
    /\ pc[t] = "connect"
    /\ tries' = [tries EXCEPT ![t] = @ + 1]
    /\ Goto(t, IF tries[t] < Retries THEN "connect" ELSE "error")
    /\ UNCHANGED <<rows, left, acc, broker>>

\* A provider that does not stream: one delta with the whole content.  A
\* response without choices, or without text, adds no text; the event that an
\* empty content still publishes carries no data, and pages ignore it.
CompleteAtOnce(t) ==
    /\ pc[t] = "connect"
    /\ \/ \E n \in 1..MaxDeltas :
             /\ acc' = [acc EXCEPT ![t] = n]
             /\ Publish([turn |-> t, len |-> n])
       \/ UNCHANGED <<acc, broker>>
    /\ Goto(t, "reply")
    /\ UNCHANGED <<rows, tries, left>>

\* Mutant: the delta is published alone.
DeltaAlone(t) ==
    /\ pc[t] = "stream"
    /\ left[t] > 0
    /\ left' = [left EXCEPT ![t] = @ - 1]
    /\ acc' = [acc EXCEPT ![t] = @ + 1]
    /\ Publish([turn |-> t, len |-> 1])
    /\ UNCHANGED <<rows, pc, tries>>

\* A delta: the accumulated text is published, not the delta.
Delta(t) ==
    /\ pc[t] = "stream"
    /\ left[t] > 0
    /\ left' = [left EXCEPT ![t] = @ - 1]
    /\ acc' = [acc EXCEPT ![t] = @ + 1]
    /\ Publish([turn |-> t, len |-> acc[t] + 1])
    /\ UNCHANGED <<rows, pc, tries>>

\* The stream ends, with [DONE] or with the end of the body.
StreamEnds(t) ==
    /\ pc[t] = "stream"
    /\ left[t] = 0
    /\ Goto(t, "reply")
    /\ UNCHANGED <<rows, tries, left, acc, broker>>

\* Mutant: what was streamed is persisted although the stream broke off.
AppendUnchecked(t) ==
    /\ pc[t] \in {"reply", "error"}
    /\ chat' = Append(chat, [role |-> "assistant", turn |-> t,
                             size |-> IF acc[t] = 0 THEN 1 ELSE acc[t]])
    /\ Goto(t, IF pc[t] = "reply" THEN "done" ELSE "error")
    /\ UNCHANGED <<prompt, tries, left, acc, broker>>

\* Step 5: persist the reply, or a visible fallback if there is no text.
AppendAssistant(t) ==
    /\ pc[t] = "reply"
    /\ chat' = Append(chat, [role |-> "assistant", turn |-> t,
                             size |-> IF acc[t] = 0 THEN 1 ELSE acc[t]])
    /\ Goto(t, "done")
    /\ UNCHANGED <<prompt, tries, left, acc, broker>>

\* A store error, a status that is not retried, a stream that breaks off, or
\* a cancelled request: RunChat returns the error.
Abort(t) ==
    /\ pc[t] \notin Ended
    /\ Goto(t, "error")
    /\ UNCHANGED <<rows, tries, left, acc, broker>>

-----------------------------------------------------------------------------
(* chatStream and the page *)

\* A page connects: a new one, with nothing shown, or one whose connection
\* was lost, as it is.  What was published before is not replayed.
Subscribe(v) ==
    /\ v \notin subs
    /\ subs' = subs \cup {v}
    /\ buf' = [buf EXCEPT ![v] = <<>>]
    /\ \E page \in {<<>>, shown[v]} : shown' = [shown EXCEPT ![v] = page]
    /\ late' = IF newest = <<>> THEN late ELSE late \cup {v}
    /\ missed' = missed \ {v}
    /\ UNCHANGED <<rows, pc, tries, left, acc, newest>>

\* Its request ends: the channel is removed and what it holds is lost.
Unsubscribe(v) ==
    /\ v \in subs
    /\ subs' = subs \ {v}
    /\ buf' = [buf EXCEPT ![v] = <<>>]
    /\ UNCHANGED <<rows, pc, tries, left, acc, shown, newest, late, missed>>

\* The handler takes an event from its channel and writes it to the browser,
\* where it replaces what #chat-stream holds, whichever turn that was of.
Receive(v) ==
    /\ v \in subs
    /\ buf[v] # <<>>
    /\ shown' = [shown EXCEPT ![v] = <<Head(buf[v])>>]
    /\ buf' = [buf EXCEPT ![v] = Tail(@)]
    /\ UNCHANGED <<rows, pc, tries, left, acc, subs, newest, late, missed>>

\* The page's form is submitted: #chat-stream is emptied at once, before the
\* POST is answered.
ClearStream(v) ==
    /\ shown[v] # <<>>
    /\ shown' = [shown EXCEPT ![v] = <<>>]
    /\ late' = late \cup {v}
    /\ UNCHANGED <<rows, pc, tries, left, acc, subs, buf, newest, missed>>

-----------------------------------------------------------------------------
(* Specification *)

Init ==
    /\ chat = <<>>
    /\ pc = [t \in Turns |-> "idle"]
    /\ prompt = [t \in Turns |-> <<>>]
    /\ tries = [t \in Turns |-> 0]
    /\ left = [t \in Turns |-> 0]
    /\ acc = [t \in Turns |-> 0]
    /\ subs = {}
    /\ buf = [v \in Viewers |-> <<>>]
    /\ shown = [v \in Viewers |-> <<>>]
    /\ newest = <<>>
    /\ late = {}
    /\ missed = {}

Turn(t) ==
    \/ AppendUser(t)
    \/ LoadHistory(t)
    \/ Connect(t)
    \/ ConnectFails(t)
    \/ CompleteAtOnce(t)
    \/ Delta(t)
    \/ StreamEnds(t)
    \/ AppendAssistant(t)

Next ==
    \/ \E t \in Turns : Turn(t) \/ Abort(t)
    \/ \E v \in Viewers :
          Subscribe(v) \/ Unsubscribe(v) \/ Receive(v) \/ ClearStream(v)

Spec == Init /\ [][Next]_vars

\* A turn that was started keeps going.  Viewers may stop reading.
FairSpec == Spec /\ \A t \in Turns : WF_vars(pc[t] # "idle" /\ Turn(t))

-----------------------------------------------------------------------------
(* Properties *)

\* Every variable holds a value of its type; no channel is over its capacity
\* and no history over its caps.
TypeOK ==
    /\ chat \in Seq(Message)
    /\ pc \in [Turns -> {"idle", "load", "connect", "stream", "reply"}
                          \cup Ended]
    /\ prompt \in [Turns -> Seq(Message)]
    /\ \A t \in Turns : /\ Len(prompt[t]) <= HistoryLimit
                        /\ Bytes(prompt[t]) <= HistoryBytes
    /\ tries \in [Turns -> 0..Retries + 1]
    /\ left \in [Turns -> 0..MaxDeltas]
    /\ acc \in [Turns -> 0..MaxDeltas]
    /\ subs \in SUBSET Viewers
    /\ buf \in [Viewers -> Seq(Frame)]
    /\ \A v \in Viewers : Len(buf[v]) <= Buffer
    /\ shown \in [Viewers -> Seq(Frame)]
    /\ \A v \in Viewers : Len(shown[v]) <= 1
    /\ newest \in Seq(Frame)
    /\ late \in SUBSET Viewers
    /\ missed \in SUBSET Viewers

\* What v has on its page and will have there, one after the other.
Line(v) == shown[v] \o buf[v]

\* Frames of concurrent turns replace each other on a page, but none comes out
\* of order: of each turn a page only ever gets longer and longer prefixes of
\* the reply, and the frame it ends with is the newest one published, with all
\* the text its turn has so far, unless that one was dropped for the page or
\* the page is newer (broker.go:47-56, chat.go:106-114).
FramesGrowToLatest ==
    \A v \in subs :
        /\ \A i, j \in DOMAIN Line(v) :
              i < j /\ Line(v)[i].turn = Line(v)[j].turn =>
                Line(v)[i].len < Line(v)[j].len
        /\ \A i \in DOMAIN Line(v) : Line(v)[i].len <= acc[Line(v)[i].turn]
        /\ v \notin late \cup missed =>
              IF newest = <<>> THEN Line(v) = <<>>
              ELSE /\ Line(v) # <<>>
                   /\ Line(v)[Len(Line(v))] = newest[1]
                   /\ newest[1].len = acc[newest[1].turn]

\* The transcript stays coherent (chat.go:39-42, 115-126): a reply stands
\* after its own question, once, in full, and only if its turn succeeded; a
\* turn that broke off leaves a question without a reply.
RepliesAreWhole ==
    \A i \in 1..Len(chat) :
        chat[i].role = "assistant" =>
            LET t == chat[i].turn
            IN  /\ pc[t] = "done"
                /\ acc[t] > 0 => chat[i].size = acc[t]
                /\ \E j \in 1..i - 1 : chat[j].role = "user" /\ chat[j].turn = t
                /\ \A j \in 1..Len(chat) \ {i} :
                      chat[j].role = "assistant" => chat[j].turn # t

\* A turn that was started ends, whether or not the viewers read: Publish
\* never waits for a subscriber, and connecting is retried a bounded number
\* of times (openai.go:203-222).
TurnEnds == \A t \in Turns : pc[t] = "load" ~> pc[t] \in Ended

\* "A slow subscriber catching up always gets the latest coalesced state": a
\* page that has read all it was sent, and was connected when the newest frame
\* was published, shows that frame.
SlowViewerCatchesUp ==
    \A v \in subs \ late : buf[v] = <<>> => shown[v] = newest

Question(s, i, t) == s[i].role = "user" /\ s[i].turn = t

\* The messages from the q-th on are too many or too long.
Crowded(q) ==
    LET n == Len(chat) - q + 1
    IN  ~(n <= HistoryLimit /\ Bytes(Suffix(chat, n)) <= HistoryBytes)

\* The history sent to the provider "includes the user turn we just persisted"
\* (chat.go:77), whatever other turns persist before it is loaded, unless that
\* question alone, or with the messages that have come after it, is over a cap.
QuestionUnlessCrowded ==
    \A t \in Turns :
        pc[t] \in {"connect", "stream", "reply", "done"} =>
            \/ \E i \in 1..Len(prompt[t]) : Question(prompt[t], i, t)
            \/ \E q \in 1..Len(chat) : Question(chat, q, t) /\ Crowded(q)

=============================================================================

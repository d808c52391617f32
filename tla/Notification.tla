---------------------------- MODULE Notification ----------------------------
(***************************************************************************)
(* How a finished diagnosis is announced: notifyTerminal's goroutine and   *)
(* notify.Multi over the channels main.go sets up.  All channels share one *)
(* context of ten seconds, here Budget ticks, and are tried in turn.       *)
(***************************************************************************)
EXTENDS Naturals, Sequences

CONSTANT Budget   \* notifyTerminal's timeout, in ticks

ASSUME BudgetAssumption == Budget \in Nat \ {0}

VARIABLES
    queue,    \* channels still to be tried
    left,     \* ticks left of the shared context
    result,   \* result[c]: what became of channel c
    metric    \* NotificationsTotal's label, once counted

notifyVars == <<queue, left, result, metric>>

-----------------------------------------------------------------------------

Order == <<"email", "slack", "jira", "linear">>
Channels == {Order[n] : n \in DOMAIN Order}

Settings == {"ResendAPIKey", "NotifyEmailTo", "SlackWebhookURL", "JiraBaseURL",
             "JiraProjectKey", "LinearAPIKey", "LinearTeamID"}

Needs(c) ==
    CASE c = "email"  -> {"ResendAPIKey", "NotifyEmailTo"}
      [] c = "slack"  -> {"SlackWebhookURL"}
      [] c = "jira"   -> {"JiraBaseURL", "JiraProjectKey"}
      [] c = "linear" -> {"LinearAPIKey", "LinearTeamID"}

\* The channels whose settings are all there, one after the other.
When(c, set) == IF Needs(c) \subseteq set THEN <<c>> ELSE <<>>

Enabled(set) ==
    When("email", set) \o When("slack", set) \o When("jira", set)
        \o When("linear", set)

Quiet ==
    /\ queue = <<>>
    /\ left = 0
    /\ result = [c \in Channels |-> "none"]
    /\ metric = "none"

\* notifyTerminal; without a notifier nothing is counted.
Announce(set) ==
    /\ queue' = Enabled(set)
    /\ left' = Budget
    /\ result' = [c \in Channels |->
                     IF Needs(c) \subseteq set THEN "due" ELSE "none"]
    /\ metric' = IF Enabled(set) = <<>> THEN "off" ELSE "none"

\* What a channel's Notify makes of an answer that came in time.
Judged == {"delivered", "refused"}

\* Linear looks for errors in the body of a success, but ignores how reading
\* it ends: a body that does not come, or cannot be parsed, counts as none.
BodyIsOptional(c) == c = "linear"

\* Mutant: the first error is returned.
AfterOneUnlessFailed(outcome, rest) ==
    IF outcome = "delivered" THEN rest ELSE <<>>

\* Every notifier is tried, whatever became of the ones before it.
AfterOne(outcome, rest) == rest

Tried(c, outcome, time) ==
    /\ result' = [result EXCEPT ![c] = outcome]
    /\ left' = left - time
    /\ queue' = AfterOne(outcome, Tail(queue))
    /\ UNCHANGED metric

\* The endpoint answers in time, or the context ends first, perhaps after the
\* status ("unread"); a request made with a context that has ended fails at
\* once.
Try ==
    /\ queue # <<>>
    /\ LET c == Head(queue)
       IN  \/ \E time \in 0 .. Budget, how \in Judged :
                time < left /\ Tried(c, how, time)
           \/ left > 0 /\ Tried(c, "timeout", left)
           \/ left > 0 /\ BodyIsOptional(c) /\ Tried(c, "unread", left)
           \/ left = 0 /\ Tried(c, "too late", 0)

\* One count for all channels.
Count ==
    /\ queue = <<>>
    /\ metric = "none"
    /\ \E c \in Channels : result[c] # "none"
    /\ metric' = IF \A c \in Channels :
                       result[c] \in {"none", "delivered", "unread"}
                 THEN "sent" ELSE "failed"
    /\ UNCHANGED <<queue, left, result>>

-----------------------------------------------------------------------------
(* Properties *)

Rank(c) == CHOOSE n \in DOMAIN Order : Order[n] = c

\* A channel that fails costs the later ones nothing: by the time the outcome
\* is counted every configured channel was tried, and one came too late only
\* if another before it had used up the shared ten seconds (multi.go 16-24).
EveryChannelHasItsTurn ==
    metric \in {"sent", "failed"} =>
        \A c \in Channels :
            /\ result[c] # "due"
            /\ result[c] = "too late" =>
                \E d \in Channels : Rank(d) < Rank(c) /\ result[d] = "timeout"
=============================================================================

---------------------------- MODULE LoginLimiter ----------------------------
(***************************************************************************)
(* The login form's limiter (internal/web/auth.go): a sliding window over  *)
(* the failed attempts of each client address.  loginSubmit asks tooMany,  *)
(* compares the token and calls recordFailure; each takes the mutex for    *)
(* itself, so requests of one address overlap between check and record.    *)
(* Time is kept as ages in ticks that stop at Window.                      *)
(*                                                                         *)
(* What is recorded is not all that happened: the map is thrown away when  *)
(* it tracks too many addresses, and with its process.  Two history        *)
(* variables follow the failures that are forgotten that way; no step      *)
(* reads them.                                                             *)
(***************************************************************************)
EXTENDS Naturals, Sequences, FiniteSets

CONSTANTS
    Addrs,     \* client addresses
    NoAddr,    \* none of them
    Requests,  \* POST /login handlers that run at the same time
    Limit,     \* loginAttemptLimit
    Window,    \* loginAttemptWindow, in ticks
    MaxAddrs,  \* loginTrackedIPsMax
    MaxLost    \* bound on the forgotten failures followed for each address

ASSUME LoginAssumption ==
    /\ IsFiniteSet(Addrs)
    /\ NoAddr \notin Addrs
    /\ IsFiniteSet(Requests)
    /\ Limit \in Nat \ {0}
    /\ Window \in Nat \ {0}
    /\ MaxAddrs \in Nat
    /\ MaxLost \in Nat

VARIABLES
    failures,   \* failures[a]: ages of the recorded failures, oldest first
    request,    \* request[r]: address whose token r has still to compare
    lost,       \* history: ages of the forgotten failures of the window
    quiet       \* history: ticks since the map was thrown away, up to Window

loginVars == <<failures, request, lost, quiet>>

\* The failures that tooMany keeps: those still in the window.
Live(ages) ==
    LET keep[n \in 0 .. Len(ages)] ==
            IF n = 0 THEN <<>>
            ELSE IF ages[n] < Window THEN Append(keep[n - 1], ages[n])
                 ELSE keep[n - 1]
    IN  keep[Len(ages)]

\* Mutant: the attempt after the last one of the budget is let through.
TooManyOffByOne(a) == Len(Live(failures[a])) > Limit

\* tooMany, after it has dropped what left the window.
TooMany(a) == Len(Live(failures[a])) >= Limit

Tracked == {a \in Addrs : failures[a] # <<>>}

\* Mutant: an attempt that is turned away counts as one more failure.
SubmitRecordsDenied(r, a) ==
    /\ request[r] = NoAddr
    /\ failures' = [failures EXCEPT
           ![a] = IF TooMany(a) THEN Append(Tail(Live(@)), 0) ELSE Live(@)]
    /\ request' = IF TooMany(a) THEN request ELSE [request EXCEPT ![r] = a]
    /\ UNCHANGED <<lost, quiet>>

\* The check: over budget, the answer is 429 and the token is not looked at.
Submit(r, a) ==
    /\ request[r] = NoAddr
    /\ failures' = [failures EXCEPT ![a] = Live(@)]
    /\ request' = IF TooMany(a) THEN request ELSE [request EXCEPT ![r] = a]
    /\ UNCHANGED <<lost, quiet>>

\* The token matches: the cookie is set, earlier failures stay recorded.
Accept(r) ==
    /\ request[r] # NoAddr
    /\ request' = [request EXCEPT ![r] = NoAddr]
    /\ UNCHANGED <<failures, lost, quiet>>

\* The failed attempts of an address within the window, whether or not they
\* are still recorded.
Happened(a) == lost[a] \o Live(failures[a])

Youngest(ages) ==
    IF Len(ages) <= MaxLost THEN ages
    ELSE SubSeq(ages, Len(ages) - MaxLost + 1, Len(ages))

\* The map is gone.
Forget ==
    /\ lost' = [a \in Addrs |-> Youngest(Happened(a))]
    /\ quiet' = 0

\* Too many addresses are tracked: recordFailure starts a new map.
Overflow == Cardinality(Tracked) > MaxAddrs

RoomyFailures == IF Overflow THEN [a \in Addrs |-> <<>>] ELSE failures

\* It does not: recordFailure, then 401.
Reject(r) ==
    /\ request[r] # NoAddr
    /\ failures' = [RoomyFailures EXCEPT ![request[r]] = Append(@, 0)]
    /\ request' = [request EXCEPT ![r] = NoAddr]
    /\ IF Overflow THEN Forget ELSE UNCHANGED <<lost, quiet>>

Older(ages) ==
    [i \in DOMAIN ages |-> IF ages[i] < Window THEN ages[i] + 1 ELSE Window]

LoginTick ==
    /\ failures' = [a \in Addrs |-> Older(failures[a])]
    /\ lost' = [a \in Addrs |-> Live(Older(lost[a]))]
    /\ quiet' = IF quiet < Window THEN quiet + 1 ELSE Window
    /\ UNCHANGED request

LoginInit ==
    /\ failures = [a \in Addrs |-> <<>>]
    /\ request = [r \in Requests |-> NoAddr]
    /\ lost = [a \in Addrs |-> <<>>]
    /\ quiet = Window

\* The process ends: so do the requests it handles, and the map is lost.
LoginStop ==
    /\ failures' = [a \in Addrs |-> <<>>]
    /\ request' = [r \in Requests |-> NoAddr]
    /\ Forget

LoginStep(r) == Accept(r) \/ Reject(r) \/ \E a \in Addrs : Submit(r, a)

-----------------------------------------------------------------------------
(* Properties *)

LoginTypeOK ==
    /\ failures \in [Addrs -> Seq(0 .. Window)]
    /\ request \in [Requests -> Addrs \cup {NoAddr}]
    /\ quiet \in 0 .. Window
    /\ lost \in [Addrs -> Seq(0 .. Window)]

InFlight(a) == Cardinality({r \in Requests : request[r] = a})

\* The attempts an address may fail in one window: with n handlers at work
\* each of them may have passed the check before the others recorded.
Budget == Limit - 1 + Cardinality(Requests)

\* Unless the map was thrown away within the window, the failures of an
\* address that really happened in it stay within the budget, those counted
\* that are being handled (auth.go:31-56, 124-133).
BudgetHolds ==
    quiet = Window =>
        \A a \in Addrs : Len(Happened(a)) + InFlight(a) <= Budget

\* "An attacker churning IPs past this only resets budgets, never gains extra
\* attempts within a window" (auth.go:20): no address fails more often in a
\* window than the budget allows.
NoExtraAttempts == \A a \in Addrs : Len(Happened(a)) <= Budget

\* A lockout ends by itself, however often the address tries in the meantime.
LockoutEnds == \A a \in Addrs : TooMany(a) ~> ~TooMany(a)
=============================================================================

------------------------------ MODULE Operator ------------------------------
(***************************************************************************)
(* The operator's processes over time: they start and migrate the shared   *)
(* database (Migrations), then serve the dashboard (LoginLimiter).  The    *)
(* limiter lives in a process's memory; that of one process is followed,   *)
(* since processes do not share it.                                        *)
(***************************************************************************)
EXTENDS Migrations, LoginLimiter

CONSTANT Front   \* the process whose dashboard is followed

ASSUME FrontAssumption == Front \in Procs

vars == <<startVars, loginVars>>

Init == StartInit /\ LoginInit

Startup(p) == (StartStep(p) \/ Busy(p)) /\ UNCHANGED loginVars

\* The web server is a runnable of the manager: it answers while that runs.
Login(r) == pc[Front] = "serving" /\ LoginStep(r) /\ UNCHANGED startVars

\* With a process go the requests it handles and the failures it remembers.
Stop(p) ==
    /\ Exit(p)
    /\ IF p = Front THEN LoginStop ELSE UNCHANGED loginVars

Time == LoginTick /\ UNCHANGED startVars

Next ==
    \/ \E p \in Procs : Startup(p) \/ Stop(p)
    \/ \E r \in Requests : Login(r)
    \/ Time

\* The kubelet restarts what exited, a start runs to its end, and time goes on.
Fairness ==
    /\ \A p \in Procs : WF_vars(Startup(p))
    /\ WF_vars(Time)

Spec == Init /\ [][Next]_vars /\ Fairness

\* Every variable of the two components keeps its type.
TypeOK == StartTypeOK /\ LoginTypeOK
=============================================================================

------------------------------ MODULE Pipeline ------------------------------
(***************************************************************************)
(* One diagnosis from end to end, as Reconcile runs it between its writes: *)
(* the context is collected (Enrichment), the agent runs on it             *)
(* (DiagnosisAgent), and the outcome is announced (Notification).          *)
(* The stages hand on little: the agent gets the snapshot's bytes, the     *)
(* notification the outcome's phase, so what a stage has used up is put    *)
(* back to its initial value.                                              *)
(***************************************************************************)
EXTENDS DiagnosisAgent, Enrichment, Notification

VARIABLES
    stage,   \* "collect", "run", "notify" or "over"
    phase    \* the phase of the diagnosis, once its run has ended

vars == <<agentVars, enrichVars, notifyVars, stage, phase>>

Init ==
    /\ AgentInit
    /\ EnrichInit
    /\ Quiet
    /\ stage = "collect"
    /\ phase = "None"

CollectContext ==
    /\ stage = "collect"
    /\ Collect
    /\ UNCHANGED <<agentVars, notifyVars, stage, phase>>

\* ag.Run(ctx, snapshotJSON)
StartRun ==
    /\ stage = "collect"
    /\ EncodeSnapshot
    /\ stage' = "run"
    /\ UNCHANGED <<agentVars, notifyVars, phase>>

Run ==
    /\ stage = "run"
    /\ AgentStep
    /\ UNCHANGED <<enrichVars, notifyVars, stage, phase>>

\* The outcome is mirrored and counted (the Reconciler's part), then sent.
EndRun ==
    /\ stage = "run"
    /\ pc = "end"
    /\ phase' = outcome
    /\ stage' = "notify"
    /\ \E set \in SUBSET Settings : Announce(set)
    /\ pc' = "ask" /\ i' = 0 /\ messages' = <<>> /\ pending' = <<>>
    /\ trace' = <<>> /\ tokens' = 0 /\ outcome' = "None" /\ rca' = FALSE
    /\ requests' = 0 /\ billed' = <<>>
    /\ UNCHANGED enrichVars

Notify ==
    /\ stage = "notify"
    /\ Try \/ Count
    /\ UNCHANGED <<agentVars, enrichVars, stage, phase>>

Over ==
    /\ stage = "notify"
    /\ metric # "none"
    /\ stage' = "over"
    /\ UNCHANGED <<agentVars, enrichVars, notifyVars, phase>>

Next == CollectContext \/ StartRun \/ Run \/ EndRun \/ Notify \/ Over

Spec == Init /\ [][Next]_vars

-----------------------------------------------------------------------------
(* Properties *)

\* Every variable of the agent and of the stages keeps its type.
TypeOK ==
    /\ AgentTypeOK
    /\ stage \in {"collect", "run", "notify", "over"}
    /\ phase \in {"None", "Done", "Partial", "Failed"}
    /\ left \in 0 .. Budget
    /\ metric \in {"none", "off", "sent", "failed"}

\* REQ-004: whatever fails, nothing is silently missing from the context the
\* agent gets.  Every read that was called for is in the snapshot or recorded
\* in Partial, never in both, and only pods within the cap are read
\* (context_builder.go 34-245).
ContextIsWhole == stage = "collect" /\ todo = <<>> => NothingMissing

=============================================================================

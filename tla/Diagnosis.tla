----------------------------- MODULE Diagnosis -----------------------------
(***************************************************************************)
(* What the reconciler promises of a diagnosis to those who watch it       *)
(* (docs and ADR-003): it is postponed or started, and started again if it *)
(* must; it comes to its end only from Diagnosing; and an end that claims  *)
(* an RCA comes after the RCA was stored, which happens only while it runs.*)
(***************************************************************************)
CONSTANT Keys   \* namespaced names of the KscribeDiagnosis objects

VARIABLES
    phase,   \* phase[k]: the phase the CR shows
    rca      \* rca[k]: whether an RCA of k is stored

Init ==
    /\ phase = [k \in Keys |-> "Unset"]
    /\ rca = [k \in Keys |-> FALSE]

Postpone(k) ==
    /\ phase' = [phase EXCEPT ![k] = "Pending"]
    /\ UNCHANGED rca

Start(k) ==
    /\ phase' = [phase EXCEPT ![k] = "Diagnosing"]
    /\ UNCHANGED rca

Store(k) ==
    /\ phase[k] = "Diagnosing"
    /\ rca' = [rca EXCEPT ![k] = TRUE]
    /\ UNCHANGED phase

Finish(k) ==
    /\ phase[k] = "Diagnosing"
    /\ rca[k]
    /\ \E o \in {"Done", "Partial"} : phase' = [phase EXCEPT ![k] = o]
    /\ UNCHANGED rca

GiveUp(k) ==
    /\ phase[k] = "Diagnosing"
    /\ phase' = [phase EXCEPT ![k] = "Failed"]
    /\ UNCHANGED rca

Step(k) == Postpone(k) \/ Start(k) \/ Store(k) \/ Finish(k) \/ GiveUp(k)

Next == \E k \in Keys : Step(k)

Spec == Init /\ [][Next]_<<phase, rca>>
=============================================================================

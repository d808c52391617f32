----------------------------- MODULE Enrichment -----------------------------
(***************************************************************************)
(* BuildSnapshot and EncodeSnapshot (internal/enricher): the reads that    *)
(* collect the context of a diagnosis, each of which may fail, and what    *)
(* the snapshot says about the ones that did.                              *)
(*                                                                         *)
(* A read stands for the section of the snapshot it fills.  Text is left   *)
(* out, and with it what Redact makes of it.                               *)
(***************************************************************************)
EXTENDS Integers, SequencesExt

CONSTANTS
    MaxPods,      \* KSCRIBE_MAX_PODS_PER_WORKLOAD
    NumPods,      \* bound on the pods a selector finds
    Containers    \* containers per pod

ASSUME EnrichmentAssumption ==
    /\ MaxPods \in Int
    /\ NumPods \in Nat \ {0}
    /\ Containers \in Nat

VARIABLES
    object,     \* the involved object as the cluster has it
    todo,       \* reads still to make, in order
    snapshot,   \* reads whose result is in the snapshot
    partial     \* reads recorded in Snapshot.Partial

enrichVars == <<object, todo, snapshot, partial>>

-----------------------------------------------------------------------------

Workloads == {"Deployment", "ReplicaSet"}

\* The object's kind, the pods its selector finds (itself, for a pod; none
\* without a selector) and the ones of them that have a node.
NoObject == [kind |-> "Other", pods |-> 0, selector |-> FALSE, placed |-> {}]

Objects ==
    [kind : {"Pod"}, pods : {1}, selector : {FALSE}, placed : SUBSET {1}]
    \cup [kind : Workloads, pods : 0 .. NumPods, selector : BOOLEAN,
          placed : {{}, 1 .. NumPods}]
    \cup {NoObject}

PodCap == IF MaxPods <= 0 THEN 3 ELSE MaxPods

\* The logs of its containers, then its node.
PodReads(p) ==
    [c \in 1 .. Containers |-> <<"logs", p, c>>]
        \o IF p \in object.placed THEN <<<<"node", p>>>> ELSE <<>>

\* What the result of a read makes BuildSnapshot read next.
FollowUps(read) ==
    CASE read[1] = "object" /\ object.kind = "Pod" -> PodReads(1)
      [] read[1] = "object" /\ object.selector -> <<<<"pods">>>>
      [] read[1] = "pods" ->
            LET kept == IF object.pods < PodCap THEN object.pods ELSE PodCap
            IN  FlattenSeq([p \in 1 .. kept |-> PodReads(p)])
      [] OTHER -> <<>>

\* The related events, then the object; a kind it does not know is recorded.
EnrichInit ==
    /\ object \in Objects
    /\ todo = IF object.kind = "Other" THEN <<<<"events">>>>
              ELSE <<<<"events">>, <<"object">>>>
    /\ snapshot = {}
    /\ partial = IF object.kind = "Other" THEN {<<"kind">>} ELSE {}

\* Mutant: the first failure ends the collection.
AfterFailureStop(rest) == <<>>

\* A failed read is recorded with its error and the others go on.
AfterFailure(rest) == rest

Collect ==
    /\ todo # <<>>
    /\ \/ /\ snapshot' = snapshot \cup {Head(todo)}
          /\ todo' = FollowUps(Head(todo)) \o Tail(todo)
          /\ UNCHANGED partial
       \/ /\ partial' = partial \cup {Head(todo)}
          /\ todo' = AfterFailure(Tail(todo))
          /\ UNCHANGED snapshot
    /\ UNCHANGED object

\* The bytes handed to the agent; of what was collected only they remain.
EncodeSnapshot ==
    /\ todo = <<>>
    /\ object' = NoObject
    /\ snapshot' = {}
    /\ partial' = {}
    /\ UNCHANGED todo

-----------------------------------------------------------------------------
(* Properties *)

\* What the diagnosis needs to know, told from the object and from the reads
\* that succeeded: the reference for the order and nesting of the collection.
PodFound(p) ==
    \/ p = 1 /\ object.kind = "Pod" /\ <<"object">> \in snapshot
    \/ p \in 1 .. object.pods /\ <<"pods">> \in snapshot
          /\ p <= (IF MaxPods > 0 THEN MaxPods ELSE 3)

Due ==
    {<<"events">>}
    \cup {<<"kind">> : k \in {object.kind} \cap {"Other"}}
    \cup {<<"object">> : k \in {object.kind} \ {"Other"}}
    \cup {<<"pods">> : o \in {s \in snapshot : s = <<"object">>
                                                /\ object.selector}}
    \cup {<<"logs", p, c>> : p \in {q \in 1 .. NumPods : PodFound(q)},
                             c \in 1 .. Containers}
    \cup {<<"node", p>> : p \in {q \in object.placed : PodFound(q)}}

\* The reads made are those that were called for, each with one outcome.
NothingMissing == snapshot \cup partial = Due /\ snapshot \cap partial = {}
=============================================================================

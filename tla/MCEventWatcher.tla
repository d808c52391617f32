-------------------------- MODULE MCEventWatcher --------------------------
(***************************************************************************)
(* EventWatcher for TLC.  "free" has no policy, so the operator            *)
(* namespace's "default" decides and accepts e1.  "app" has two of its     *)
(* own, listed in any order, that both turn e2 down, where "default" and   *)
(* the configuration would accept it.                                      *)
(***************************************************************************)
EXTENDS EventWatcher

MCNameOf == [e \in Events |-> IF e = "e1" THEN "n1" ELSE "n2"]
MCNames == {MCNameOf[e] : e \in Events}
MCNamespaces == {"free", "app", "op"}
MCNamespaceOf == [e \in Events |-> IF e = "e1" THEN "free" ELSE "app"]
MCReasonOf == [e \in Events |-> "BackOff"]
MCPolicies ==
    [free |-> {},
     app  |-> {[name |-> "quiet", enabled |-> "false", reasons |-> {}],
               [name |-> "strict", enabled |-> "true", reasons |-> {"Evicted"}]},
     op   |-> {[name |-> "default", enabled |-> "nil", reasons |-> {}],
               [name |-> "unused", enabled |-> "false", reasons |-> {}]}]

=============================================================================

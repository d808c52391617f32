CONSTANTS
    Events = {"e1"}
    Names <- MCNames
    Namespaces <- MCNamespaces
    NameOf <- MCNameOf
    NamespaceOf <- MCNamespaceOf
    ReasonOf <- MCReasonOf
    OperatorNS = "op"
    Policies <- MCPolicies
    CfgReasons = {"BackOff"}
    TTL = 1
    SweepThresh = 1
    MaxFaults = 1
    MaxCrashes = 0
    MaxForeign = 0
    Outlive = TRUE
SPECIFICATION FairSpec
PROPERTY
    EveryAcceptedEventHasCR

CONSTANTS
    Events = {"e1", "e2"}
    Names <- MCNames
    Namespaces <- MCNamespaces
    NameOf <- MCNameOf
    NamespaceOf <- MCNamespaceOf
    ReasonOf <- MCReasonOf
    OperatorNS = "op"
    Policies <- MCPolicies
    CfgReasons = {"BackOff"}
    TTL = 1
    SweepThresh = 1
    MaxFaults = 1
    MaxCrashes = 1
    MaxForeign = 1
    Outlive = FALSE
SPECIFICATION FairSpec
INVARIANTS
    TypeOK
    NamespacePolicyWins
PROPERTIES
    DedupGrowsOnlyLive
    BackfillNeverRecreates
    MetadataArrives

CONSTANTS
    None = None
    Requests = {r1}
    Workers = {w1, w2}
    Keys = {k1}
    Policies = {"hero"}
    ScopePolicies = {}
    Delegations <- MCDelegations
    Documents <- CleanOnly
    CustomPlan <- TransferPlan
    ApprovalTTL = 0
    MaxNow = 0
    Budget <- ExecutionsRace
    MayCrash = FALSE
SPECIFICATION FairSpec
INVARIANTS
    TrailCompleteAtRest
PROPERTIES
    OutcomeGetsReceipt
CHECK_DEADLOCK FALSE

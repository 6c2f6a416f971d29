CONSTANTS
    None = None
    Requests = {r1}
    Workers = {w1}
    Keys = {k1, k2}
    Policies = {"hero", "unattended", "transfer"}
    ScopePolicies = {"transfer"}
    Delegations <- MCDelegations
    Documents <- CleanOrInjected
    CustomPlan <- TransferPlan
    ApprovalTTL = 0
    MaxNow = 1
    Budget <- SerialCalls
    MayCrash = TRUE
SPECIFICATION Spec
INVARIANTS
    AtMostOneSubmission
    RejectedNeverSubmitted
    AtMostOnePlanRow
    OneAnswerPerKey
PROPERTIES
    FollowsDocumentedFlow
CONSTRAINT RevokedInUse
SYMMETRY KeySymmetry
CHECK_DEADLOCK FALSE

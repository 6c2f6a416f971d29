CONSTANTS
    None = None
    Requests = {r1}
    Workers = {w1, w2}
    Runner = w1
    Keys = {k1}
    ScenarioKey = k1
    Policies = {"hero", "transfer"}
    ScopePolicies = {"transfer"}
    ScenarioPolicy <- MCScenarioPolicy
    Delegations <- MCDelegations
    Documents <- CleanOrInjected
    InjectedDocument <- InjectionDoc
    CustomPlan <- TransferPlan
    ApprovalTTL = 0
    MaxNow = 1
    Budget <- OperatorCalls
    MayCrash = TRUE
SPECIFICATION ScenarioSpec
INVARIANTS
    ScenarioTypeOK
    SubmittedUnderApproval
    RevokedDelegationStartsNoSubmission
    StateBackedByEvidence
    ApprovedPlanWasReviewed
    AttacksEndInQuarantine
PROPERTY ExecutesAsAuthorised
CONSTRAINTS RevokedInUse ThreeCalls UntilOver
CHECK_DEADLOCK FALSE

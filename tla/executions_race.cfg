CONSTANTS
    None = None
    Requests = {r1}
    Workers = {w1, w2}
    Keys = {k1}
    Policies = {"hero"}
    ScopePolicies = {}
    Delegations <- MCDelegations
    Documents <- CleanOnly
    CustomPlan <- TransferPlan
    ApprovalTTL = 0
    MaxNow = 1
    Budget <- ExecutionsRace
    MayCrash = TRUE
SPECIFICATION Spec
INVARIANTS
    TypeOK
    SubmittedUnderApproval
    RevokedDelegationStartsNoSubmission
    EvidenceNeverExceedsEffect
    ExecutionNeverAsksForApproval
PROPERTIES
    StoredResponseIsFinal
    ExecutesAsAuthorised
ACTION_CONSTRAINT CrashesAfterPlanning
SYMMETRY WorkerSymmetry
CHECK_DEADLOCK FALSE

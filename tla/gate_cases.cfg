CONSTANTS
    None = None
    Standings <- MCStandingsOneWrong
    Terms <- MCTerms
    Plans <- MCPlans
    Documents <- MCDocuments
    Credentials <- MCCredentials
SPECIFICATION Spec
INVARIANTS
    TypeOK
    AllowMeansWithinMandate
    GateAgreesWithGateway
    ApprovalLiftsOnlyTheApprovalRule
    ReplayedApprovalIsQuarantined
    RiskThresholdIsCovered
    DangerSignalsNeverLowRisk
    PlannedPlanFitsItsPolicy
CHECK_DEADLOCK FALSE

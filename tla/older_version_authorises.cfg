CONSTANTS
    None = None
    Gone = Gone
    Handlers = {w1, w2}
    PolicyIds = {"rate", "transfer"}
    SeededPolicy = "rate"
    TransferPolicy = "transfer"
    Versions = {1, 2}
    Requests = {r1}
    Calls <- TwoVersions
    Operators = {o1, o2}
    IncidentIds = {r1}
    Interventions = {"PAUSE_AGENT", "CLOSE_INCIDENT"}
    MaxInterventions = 1
SPECIFICATION Spec
INVARIANT
    RevocationDisablesAuthorizations
CHECK_DEADLOCK FALSE

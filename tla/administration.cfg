CONSTANTS
    None = None
    Gone = Gone
    Handlers = {w1, w2}
    PolicyIds = {"rate", "transfer"}
    SeededPolicy = "rate"
    TransferPolicy = "transfer"
    Versions = {1, 2}
    Requests = {r1}
    Calls <- EveryOperation
    Operators = {o1, o2}
    IncidentIds = {r1}
    Interventions = {"PAUSE_AGENT", "CLOSE_INCIDENT"}
    MaxInterventions = 1
SPECIFICATION Spec
INVARIANTS
    TypeOK
    RevokedVersionAuthorisesNothing
    RegistryPresentAtRest
    ClosedWhenSomeoneClosedIt
    LostInterventionsStayInTheTrace
PROPERTIES
    RevokedStaysRevoked
SYMMETRY PeopleSymmetry
CHECK_DEADLOCK FALSE

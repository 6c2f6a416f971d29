CONSTANTS
    None = None
    Writers = {w1, w2}
    MaxCalls = 3
SPECIFICATION Spec
INVARIANT
    IntactTraceVerifies
CHECK_DEADLOCK FALSE

CONSTANTS
    None = None
    Writers = {w1, w2, w3}
    MaxCalls = 4
SPECIFICATION Spec
INVARIANTS
    TypeOK
    EveryEventHasItsPredecessor
    VerifiesExactlyWhenIntactAndLinear
SYMMETRY WriterSymmetry
CHECK_DEADLOCK FALSE

SPECIFICATION Spec
CONSTANTS
    a1 = a1
    a2 = a2
    a3 = a3
    Nobody = Nobody
    Writers = {a1, a2, a3}
    Appends = 2
    Orders = {"begin"}
INVARIANT
    UntouchedChainVerifies
SYMMETRY Symmetry
CHECK_DEADLOCK FALSE

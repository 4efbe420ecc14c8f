SPECIFICATION Spec
CONSTANTS
    r1 = r1
    r2 = r2
    f1 = f1
    f2 = f2
    t1 = t1
    t2 = t2
    v1 = v1
    v2 = v2
    Nobody = Nobody
    Requests = {r1}
    ExtractTasks = {r1}
    Rates <- MCRates
    Configs <- MeteredOnly
    Refunds = {}
    RefundOf <- MCRefundOf
    RefundAmount <- MCRefundAmount
    TxRefs = {t1}
    Paid <- MCPaid
    Verifiers = {v1}
    VerifierRef <- MCVerifierRef
INVARIANT
    EveryRouteSettles
CHECK_DEADLOCK FALSE

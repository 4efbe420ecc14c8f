SPECIFICATION SettlementSpec
CONSTANTS
    r1 = r1
    r2 = r2
    f1 = f1
    f2 = f2
    t1 = t1
    t2 = t2
    v1 = v1
    v2 = v2
    Nobody = Nobody
    Requests = {r1, r2}
    ExtractTasks = {r2}
    Rates <- MCRates
    Configs <- MeteredAndOff
    Refunds = {f1, f2}
    RefundOf <- MCRefundOf
    RefundAmount <- MCRefundAmount
    TxRefs = {t1, t2}
    Paid <- MCPaid
    Verifiers = {v1, v2}
    VerifierRef <- MCVerifierRef
INVARIANTS
    TypeOK
    NeverOverdrawn
    Conservation
    RefundWithinCharge
    NoStaleDecision
    CreditedOnce
PROPERTIES
    SettledIsFinal
    HoldsAreSettled
    ImplementsAccount
CHECK_DEADLOCK FALSE

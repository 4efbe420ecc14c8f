SPECIFICATION Spec
CONSTANTS
    inv = inv
    pay = pay
    o1 = o1
    o2 = o2
    w2 = w2
    Documents = {inv}
    Payments = {pay}
    PaidDocument <- MCPaidDocument
    Unsupported = {}
    Reviewable = {inv}
    Orgs = {o1, o2}
    NoOrg = NoOrg
    Exporters = {w1, w2}
    NoTask = NoTask
    Nobody = Nobody
    ExportAttempts = 2
INVARIANTS
    ExportTypeOK
    SubmittedOnce
    SuccessIsTrue
    PaymentFollowsDocument
PROPERTIES
    QuarantineHolds
    ExportSettles
CHECK_DEADLOCK FALSE

SPECIFICATION Spec
CONSTANTS
    Messages = {"m1"}
    Envelopes = {"r1", "r2"}
    Senders = {"s1", "s2"}
    NoSender = NoSender
    NoEnvelope = NoEnvelope
    MailAttempts = 2
    Days = {1, 2}
    Accounts = {"cost"}
    Moves <- MCMoves
    Periods = {"year"}
    Years = {"year"}
    PeriodDays <- MCPeriodDays
    LastDay <- MCLastDay
    Expenses = {x1}
    NoExpense = NoExpense
    Editors = {e1, e2}
    NoFigure = NoFigure
    MaxEntries = 4
    Restricted = {0, 1, 2}
    Closers = {c1, c2}
    Bookkeepers = {b1}
    NoCloser = NoCloser
    MaxAdjustments = 3
    Locations = {"here", "there"}
    Allocations = {"a1"}
    Jobs = {"j1"}
    JobOf <- MCJobOf
    PlaceOf <- MCPlaceOf
    Quantities = {1}
    Clerks = {k1, k2}
    NoClerk = NoClerk
    NoAllocation = NoAllocation
    MaxStock = 2
INVARIANTS
    TypesOK
    HandedOverOnce
    DuplicatesExcused
    ClosedAsFiled
    YearIsCleared
    ReversedOnce
    DoubledByOverlap
    AdjustedOnce
    AdjustmentStands
    ReservedIsCovered
    CountedOnce
PROPERTIES
    SentIsFinal
    CancelHolds
    UndoHolds
    HeldStays
CHECK_DEADLOCK FALSE

SPECIFICATION GLSpec
CONSTANTS
    Days = {1}
    Accounts = {"cost"}
    Moves <- MCMoves
    Periods = {}
    Years = {}
    PeriodDays <- MCPeriodDays
    LastDay <- MCLastDay
    Expenses = {x1}
    NoExpense = NoExpense
    Editors = {e1, e2}
    NoFigure = NoFigure
    MaxEntries = 3
INVARIANTS
    NeverDoubleCounts
CHECK_DEADLOCK FALSE

---------------------------- MODULE MCGeneralLedger ----------------------------
(***************************************************************************)
(* One expense and two requests that work on it, in a ledger without       *)
(* periods.                                                                *)
(***************************************************************************)
EXTENDS GeneralLedger

MCMoves      == {[a \in Accounts |-> 1]}
MCPeriodDays == [p \in Periods |-> Days]
MCLastDay    == [p \in Periods |-> 1]
================================================================================

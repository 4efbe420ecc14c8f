--------------------------- MODULE BackOffice_Proofs ---------------------------
(***************************************************************************)
(* MCBackOffice checks four services in one run, with bounds of its own on *)
(* their steps.  Each of its behaviours is a behaviour of every service,   *)
(* so it inherits what is proved of them.                                  *)
(***************************************************************************)
EXTENDS MCBackOffice, Outboxes_Proofs, Books_Proofs, StockLedger_Proofs

\* Every step of the run is a step of each service, or leaves its state alone.
LEMMA StepsOfServices ==
    [Next]_<<mailVars, mailOnly>> =>
       /\ [MailNext]_mailVars
       /\ [GLNext]_glVars
       /\ [VatNext]_vatVars
       /\ [StockNext]_stockVars
BY DEF Next, mailOnly, ledgerOnly, vatOnly, stockOnly

\* The run explores behaviours of the four specifications and no others.
THEOREM RunsTheServices == Spec => MailSpec /\ GLSpec /\ VatSpec /\ StockSpec
<1>1. Init => MailInit /\ GLInit /\ VatInit /\ StockInit
  BY DEF Init
<1> QED
  BY <1>1, StepsOfServices, PTL DEF Spec, MailSpec, GLSpec, VatSpec, StockSpec

\* Every variable of the four services keeps its type.
THEOREM BackOfficeTypesCorrect == Spec => []TypesOK
<1>1. MailTypeOK /\ GLTypeOK /\ VatTypeOK /\ StockTypeOK => TypesOK
  BY DEF TypesOK
<1> QED
  BY <1>1, RunsTheServices, MailTypeCorrect, LedgerTypeCorrect, VatTypeCorrect,
     StockTypeCorrect, PTL
================================================================================

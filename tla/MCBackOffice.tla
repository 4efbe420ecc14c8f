------------------------------ MODULE MCBackOffice ------------------------------
(***************************************************************************)
(* Small instances of four back-office services.  They share no state in   *)
(* these models, so they are not interleaved: a behaviour is one of one    *)
(* service, chosen at the start.                                           *)
(***************************************************************************)
EXTENDS MailOutbox, GeneralLedger, VatClose, StockLedger

VARIABLE service

mailOnly   == <<glVars, vatVars, stockVars, service>>
ledgerOnly == <<mailVars, vatVars, stockVars, service>>
vatOnly    == <<mailVars, glVars, stockVars, service>>
stockOnly  == <<mailVars, glVars, vatVars, service>>
--------------------------------------------------------------------------------
(* Values of the constants that a configuration cannot write down          *)

MCMoves      == {[a \in {"cost"} |-> 1]}
MCPeriodDays == [p \in {"year"} |-> {1}]
MCLastDay    == [p \in {"year"} |-> 1]
MCJobOf      == [a \in {"a1"} |-> "j1"]
MCPlaceOf    == [a \in {"a1"} |-> "here"]
--------------------------------------------------------------------------------
(* Bounds                                                                  *)

\* A second envelope only follows the first, and only when a message is handed
\* over twice.
EnvelopeBound ==
    /\ mail'["r2"] # "none" => mail'["r1"] # "none"
    /\ \/ \E r \in Envelopes : mail'[r] = "none"
       \/ \E m \in Messages : handed'[m] = 2

\* A journal is posted by hand first or beside no expense, and the last entry is
\* for a close or for a ledger without expenses.
LedgerBound ==
    Len(book') > Len(book) =>
        \/ period' # period
        \/ \A x \in Expenses : expense'[x] = "none"
        \/ Len(book) = 0
        \/ Len(book) < MaxEntries - 1 /\ book'[Len(book')].source # NoExpense

\* The count finds a difference at one location.
CountBound == variance'["there"] = 0
--------------------------------------------------------------------------------
Init ==
    /\ MailInit /\ GLInit /\ VatInit /\ StockInit
    /\ service \in {"mail", "ledger", "vat", "stock"}
    /\ service # "vat" => restricted = 0

Next ==
    \/ service = "mail" /\ MailNext /\ EnvelopeBound /\ UNCHANGED mailOnly
    \/ service = "ledger" /\ GLNext /\ LedgerBound /\ UNCHANGED ledgerOnly
    \/ service = "vat" /\ VatNext /\ UNCHANGED vatOnly
    \/ service = "stock" /\ StockNext /\ CountBound /\ UNCHANGED stockOnly

Spec == Init /\ [][Next]_<<mailVars, mailOnly>>

\* The type invariants of the four services.
TypesOK ==
    /\ MailTypeOK
    /\ GLTypeOK
    /\ VatTypeOK
    /\ StockTypeOK
================================================================================

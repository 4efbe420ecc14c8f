--------------------------- MODULE MCAccountingExport ---------------------------
(***************************************************************************)
(* An invoice and its payment, two overlapping exporters and one           *)
(* organisation that is connected and disconnected; or the invoice alone,  *)
(* then delivered to another organisation too, by one exporter.            *)
(***************************************************************************)
EXTENDS AccountingExport

CONSTANTS inv, pay, o1, o2, w2

MCPaidDocument == [p \in Payments |-> inv]

\* Bound: the other organisation comes after the delivery to the first, without
\* a payment, and with one exporter.
OneAfterTheOther ==
    LET there == connection' = o2 \/ task'[<<inv, o2>>] # "none" IN
    /\ there => /\ task'[<<inv, o1>>] \in {"SUCCESS", "RECONCILE"}
                /\ task'[<<pay, o1>>] = "none"
                /\ connection' # o1
                /\ at'[w2] = "idle"
    /\ task'[<<pay, o2>>] = "none"

Next == ExportNext /\ OneAfterTheOther

Spec == ExportInit /\ [][Next]_exportVars /\ ExportFairness
================================================================================

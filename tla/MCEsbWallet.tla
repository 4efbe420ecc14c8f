------------------------------ MODULE MCEsbWallet ------------------------------
(* A small instance: two calls that cannot both be afforded, two refunds that *)
(* together exceed one charge, and one payment verified twice.                *)
EXTENDS EsbWallet

CONSTANTS r1, r2, f1, f2, t1, t2, v1, v2

MCRefundOf     == [f \in Refunds |-> r1]
MCRefundAmount == [f \in Refunds |-> 2]
MCPaid         == [t \in TxRefs |-> 4]
MCVerifierRef  == [v \in Verifiers |-> t1]
MCRates        == {2, 3}

Full    == [metered |-> TRUE, enabled |-> TRUE, rated |-> TRUE]
Unrated == [Full EXCEPT !.rated = FALSE]
Off     == [Full EXCEPT !.metered = FALSE]

MeteredAndOff   == {Full, Off}
MeteredOnly     == {Full}
MeteredUnrated  == {Unrated}

\* The second call and the refunds run while the service is metered and beside
\* one checkout only; the second checkout and the unmetered service meet one call.
SecondCallBound ==
    (rpc'[r2] # "idle" \/ \E f \in Refunds : fpc'[f] # "idle") =>
        config' = Full /\ checkout'[t2] = "absent"

SettlementSpec == Init /\ [][Next /\ SecondCallBound]_vars /\ Fairness
================================================================================

---------------------------- MODULE EsbWallet_Proofs ----------------------------
(***************************************************************************)
(* Type correctness, the safety properties and the refinement of EsbWallet *)
(* for any number of calls, refunds, top-ups and verify calls and for any  *)
(* prices and amounts.  The argument is one inductive invariant, IndInv:   *)
(* the locks that reserve() and refund() hold make their reads stable, and *)
(* capture() and releaseReservation(), which hold none, are safe because   *)
(* one operation is settled by one call, step after step.                  *)
(***************************************************************************)
EXTENDS EsbWallet, SumTheorems

\* Every action keeps the types.
LEMMA TypeStep == TypeOK /\ [Next]_vars => TypeOK'
<1> SUFFICES ASSUME TypeOK, [Next]_vars PROVE TypeOK'
  OBVIOUS
<1> USE EsbConstants DEF TypeOK, OpStatus, CallPc, RefundPc, CheckoutPc,
                         VerifyPc, walletVars, opVars, topUpVars
<1>1. ASSUME Reconfigure PROVE TypeOK'
  BY <1>1 DEF Reconfigure
<1>2. ASSUME NEW r \in Requests, ResolveConfig(r) PROVE TypeOK'
  BY <1>2 DEF ResolveConfig, GotoCall
<1>3. ASSUME NEW r \in Requests, MeterBefore(r) PROVE TypeOK'
  BY <1>3 DEF MeterBefore, GotoCall
<1>4. ASSUME NEW r \in Requests, ReserveLock(r) PROVE TypeOK'
  BY <1>4 DEF ReserveLock, GotoCall, WalletRowFree
<1>5. ASSUME NEW r \in Requests, ReserveSum(r) PROVE TypeOK'
  BY <1>5 DEF ReserveSum, GotoCall
<1>6. ASSUME NEW r \in Requests, ReservePost(r) PROVE TypeOK'
  BY <1>6 DEF ReservePost, GotoCall
<1>7. ASSUME NEW r \in Requests, ProviderAnswers(r) PROVE TypeOK'
  BY <1>7 DEF ProviderAnswers, GotoCall, Settling, SettlesUnparseable
<1>8. ASSUME NEW r \in Requests, ProviderFails(r) PROVE TypeOK'
  BY <1>8 DEF ProviderFails, GotoCall, Settling
<1>9. ASSUME NEW r \in Requests, SetupFails(r) PROVE TypeOK'
  BY <1>9 DEF SetupFails, GotoCall
<1>10. ASSUME NEW r \in Requests, CaptureRead(r) PROVE TypeOK'
  BY <1>10 DEF CaptureRead, GotoCall, Capturable
<1>11. ASSUME NEW r \in Requests, CapturePost(r) PROVE TypeOK'
  BY <1>11 DEF CapturePost, GotoCall, CaptureNet
<1>12. ASSUME NEW r \in Requests, CaptureFails(r) PROVE TypeOK'
  BY <1>12 DEF CaptureFails, GotoCall
<1>13. ASSUME NEW r \in Requests, Answer(r) PROVE TypeOK'
  BY <1>13 DEF Answer, GotoCall
<1>14. ASSUME NEW r \in Requests, ReleaseRead(r) PROVE TypeOK'
  BY <1>14 DEF ReleaseRead, GotoCall, MayRelease, Releasable
<1>15. ASSUME NEW r \in Requests, ReleasePost(r) PROVE TypeOK'
  BY <1>15 DEF ReleasePost, ReleasedStatus, GotoCall
<1>16. ASSUME NEW r \in Requests, ReleaseFails(r) PROVE TypeOK'
  BY <1>16 DEF ReleaseFails, GotoCall
<1>17. ASSUME NEW r \in Requests, CallCrashes(r) PROVE TypeOK'
  BY <1>17 DEF CallCrashes, GotoCall
<1>18. ASSUME NEW f \in Refunds, RefundLock(f) PROVE TypeOK'
  BY <1>18 DEF RefundLock, GotoRefund, OpRowFree
<1>19. ASSUME NEW f \in Refunds, RefundSum(f) PROVE TypeOK'
  BY <1>19 DEF RefundSum, GotoRefund
<1>20. ASSUME NEW f \in Refunds, RefundPost(f) PROVE TypeOK'
  BY <1>20 DEF RefundPost, GotoRefund
<1>21. ASSUME NEW f \in Refunds, RefundCrashes(f) PROVE TypeOK'
  BY <1>21 DEF RefundCrashes, GotoRefund
<1>22. ASSUME NEW t \in TxRefs, CheckoutStart(t) PROVE TypeOK'
  BY <1>22 DEF CheckoutStart, GotoCheckout
<1>23. ASSUME NEW t \in TxRefs, EnsureWallet(t) PROVE TypeOK'
  BY <1>23 DEF EnsureWallet, GotoCheckout
<1>24. ASSUME NEW t \in TxRefs, CheckoutInsert(t) PROVE TypeOK'
  BY <1>24 DEF CheckoutInsert, GotoCheckout
<1>25. ASSUME NEW t \in TxRefs, Pay(t) PROVE TypeOK'
  BY <1>25 DEF Pay
<1>26. ASSUME NEW v \in Verifiers, VerifyStart(v) PROVE TypeOK'
  BY <1>26 DEF VerifyStart, GotoVerify
<1>27. ASSUME NEW v \in Verifiers, VerifyCheckout(v) PROVE TypeOK'
  BY <1>27 DEF VerifyCheckout, GotoVerify
<1>28. ASSUME NEW v \in Verifiers, VerifyDuplicate(v) PROVE TypeOK'
  BY <1>28 DEF VerifyDuplicate, GotoVerify
<1>29. ASSUME NEW v \in Verifiers, VerifyInsert(v) PROVE TypeOK'
  BY <1>29 DEF VerifyInsert, GotoVerify, GotoCheckout, UniqueTxRef
<1>30. ASSUME NEW v \in Verifiers, VerifyCrashes(v) PROVE TypeOK'
  BY <1>30 DEF VerifyCrashes, GotoVerify
<1>31. CASE UNCHANGED vars
  BY <1>31 DEF vars
<1> QED
  BY <1>1, <1>2, <1>3, <1>4, <1>5, <1>6, <1>7, <1>8, <1>9, <1>10, <1>11, <1>12,
     <1>13, <1>14, <1>15, <1>16,
     <1>17, <1>18, <1>19, <1>20, <1>21, <1>22, <1>23, <1>24, <1>25, <1>26,
     <1>27, <1>28, <1>29, <1>30, <1>31
  DEF Next, CallStep, RefundStep, CheckoutStep, VerifyStep

\* The initial state satisfies the inductive invariant.
LEMMA IndInit == Init => IndInv
<1> SUFFICES ASSUME Init PROVE IndInv
  OBVIOUS
<1> USE EsbConstants DEF Init
<1>1. wallet \in BOOLEAN
  BY Zenon
<1>2. TypeOK
  BY <1>1 DEF TypeOK, OpStatus, CallPc, RefundPc, CheckoutPc, VerifyPc
<1>3. /\ NeverOverdrawn /\ RefundWithinCharge /\ CreditedOnce
      /\ NoStaleDecision /\ LocksHeld /\ OperationLife
  BY DEF NeverOverdrawn, RefundWithinCharge, CreditedOnce, NoStaleDecision,
         LocksHeld, OperationLife, Holding
<1> QED
  BY <1>2, <1>3 DEF IndInv

\* Every action keeps the inductive invariant.
LEMMA IndStep == IndInv /\ [Next]_vars => IndInv'
<1> SUFFICES ASSUME IndInv, [Next]_vars PROVE IndInv'
  OBVIOUS
<1> TypeOK'
  BY TypeStep DEF IndInv
<1> USE EsbConstants DEF IndInv, TypeOK, NeverOverdrawn, RefundWithinCharge,
                         CreditedOnce, NoStaleDecision, LocksHeld,
                         OperationLife, Holding, walletVars, opVars, topUpVars
<1>1. ASSUME Reconfigure PROVE IndInv'
  BY <1>1 DEF Reconfigure
<1>2. ASSUME NEW r \in Requests, ResolveConfig(r) PROVE IndInv'
  BY <1>2 DEF ResolveConfig, GotoCall
<1>3. ASSUME NEW r \in Requests, MeterBefore(r) PROVE IndInv'
  BY <1>3 DEF MeterBefore, GotoCall
<1>4. ASSUME NEW r \in Requests, ReserveLock(r) PROVE IndInv'
  BY <1>4 DEF ReserveLock, GotoCall, WalletRowFree
<1>5. ASSUME NEW r \in Requests, ReserveSum(r) PROVE IndInv'
  BY <1>5 DEF ReserveSum, GotoCall
<1>6. ASSUME NEW r \in Requests, ReservePost(r) PROVE IndInv'
  BY <1>6, SMTT(30) DEF ReservePost, GotoCall
<1>7. ASSUME NEW r \in Requests, ProviderAnswers(r) PROVE IndInv'
  BY <1>7 DEF ProviderAnswers, GotoCall, Settling, SettlesUnparseable
<1>8. ASSUME NEW r \in Requests, ProviderFails(r) PROVE IndInv'
  BY <1>8 DEF ProviderFails, GotoCall, Settling
<1>9. ASSUME NEW r \in Requests, SetupFails(r) PROVE IndInv'
  BY <1>9 DEF SetupFails, GotoCall
<1>10. ASSUME NEW r \in Requests, CaptureRead(r) PROVE IndInv'
  BY <1>10 DEF CaptureRead, GotoCall, Capturable
<1>11. ASSUME NEW r \in Requests, CapturePost(r) PROVE IndInv'
  BY <1>11 DEF CapturePost, GotoCall, CaptureNet
<1>12. ASSUME NEW r \in Requests, CaptureFails(r) PROVE IndInv'
  BY <1>12 DEF CaptureFails, GotoCall
<1>13. ASSUME NEW r \in Requests, Answer(r) PROVE IndInv'
  BY <1>13 DEF Answer, GotoCall
<1>14. ASSUME NEW r \in Requests, ReleaseRead(r) PROVE IndInv'
  BY <1>14 DEF ReleaseRead, GotoCall, MayRelease, Releasable
<1>15. ASSUME NEW r \in Requests, ReleasePost(r) PROVE IndInv'
  BY <1>15 DEF ReleasePost, ReleasedStatus, GotoCall
<1>16. ASSUME NEW r \in Requests, ReleaseFails(r) PROVE IndInv'
  BY <1>16 DEF ReleaseFails, GotoCall
<1>17. ASSUME NEW r \in Requests, CallCrashes(r) PROVE IndInv'
  BY <1>17 DEF CallCrashes, GotoCall
<1>18. ASSUME NEW f \in Refunds, RefundLock(f) PROVE IndInv'
  BY <1>18 DEF RefundLock, GotoRefund, OpRowFree
<1>19. ASSUME NEW f \in Refunds, RefundSum(f) PROVE IndInv'
  BY <1>19, SMTT(30) DEF RefundSum, GotoRefund
<1>20. ASSUME NEW f \in Refunds, RefundPost(f) PROVE IndInv'
  BY <1>20 DEF RefundPost, GotoRefund
<1>21. ASSUME NEW f \in Refunds, RefundCrashes(f) PROVE IndInv'
  BY <1>21 DEF RefundCrashes, GotoRefund
<1>22. ASSUME NEW t \in TxRefs, CheckoutStart(t) PROVE IndInv'
  BY <1>22 DEF CheckoutStart, GotoCheckout
<1>23. ASSUME NEW t \in TxRefs, EnsureWallet(t) PROVE IndInv'
  BY <1>23 DEF EnsureWallet, GotoCheckout
<1>24. ASSUME NEW t \in TxRefs, CheckoutInsert(t) PROVE IndInv'
  BY <1>24 DEF CheckoutInsert, GotoCheckout
<1>25. ASSUME NEW t \in TxRefs, Pay(t) PROVE IndInv'
  BY <1>25 DEF Pay
<1>26. ASSUME NEW v \in Verifiers, VerifyStart(v) PROVE IndInv'
  BY <1>26 DEF VerifyStart, GotoVerify
<1>27. ASSUME NEW v \in Verifiers, VerifyCheckout(v) PROVE IndInv'
  BY <1>27 DEF VerifyCheckout, GotoVerify
<1>28. ASSUME NEW v \in Verifiers, VerifyDuplicate(v) PROVE IndInv'
  BY <1>28 DEF VerifyDuplicate, GotoVerify
<1>29. ASSUME NEW v \in Verifiers, VerifyInsert(v) PROVE IndInv'
  BY <1>29 DEF VerifyInsert, GotoVerify, GotoCheckout, UniqueTxRef
<1>30. ASSUME NEW v \in Verifiers, VerifyCrashes(v) PROVE IndInv'
  BY <1>30 DEF VerifyCrashes, GotoVerify
<1>31. CASE UNCHANGED vars
  BY <1>31 DEF vars
<1> QED
  BY <1>1, <1>2, <1>3, <1>4, <1>5, <1>6, <1>7, <1>8, <1>9, <1>10, <1>11, <1>12,
     <1>13, <1>14, <1>15, <1>16,
     <1>17, <1>18, <1>19, <1>20, <1>21, <1>22, <1>23, <1>24, <1>25, <1>26,
     <1>27, <1>28, <1>29, <1>30, <1>31
  DEF Next, CallStep, RefundStep, CheckoutStep, VerifyStep

\* Every reachable state satisfies the inductive invariant.
LEMMA Inductive == Spec => []IndInv
BY IndInit, IndStep, PTL DEF Spec

\* The variables keep their types: no amount becomes negative and only reserve
\* and refund transactions hold row locks.
THEOREM TypeCorrect == Spec => []TypeOK
BY Inductive, PTL DEF IndInv

\* The balance of postings never goes below zero, however many reservations,
\* settlements, refunds and crashes interleave.
THEOREM NoOverdraft == Spec => []NeverOverdrawn
BY Inductive, PTL DEF IndInv

\* Refunds of one operation never exceed its charge, however many race.
THEOREM RefundsBounded == Spec => []RefundWithinCharge
BY Inductive, PTL DEF IndInv

\* A payment is credited at most once, exactly once when a verify call said so.
THEOREM CreditExactlyOnce == Spec => []CreditedOnce
BY Inductive, PTL DEF IndInv

\* What a transaction read still holds when its last statement runs.
THEOREM DecisionsStayValid == Spec => []NoStaleDecision
BY Inductive, PTL DEF IndInv

\* A captured or released operation is never settled a second time.
THEOREM SettlementIsFinal == Spec => SettledIsFinal
<1> DEFINE Final == \A r \in Requests : opStatus[r] \in Settled =>
                       opStatus'[r] = opStatus[r] /\ actual'[r] = actual[r]
<1> USE EsbConstants DEF IndInv, TypeOK, NoStaleDecision, Holding, OperationLife,
                         Settled, walletVars, opVars, topUpVars
<1>1. IndInv /\ Next => Final
  <2> SUFFICES ASSUME IndInv, Next PROVE Final
    OBVIOUS
  <2>1. ASSUME NEW r \in Requests, ReservePost(r) PROVE Final
    BY <2>1 DEF ReservePost, GotoCall
  <2>2. ASSUME NEW r \in Requests, CapturePost(r) PROVE Final
    BY <2>2 DEF CapturePost, GotoCall, CaptureNet
  <2>3. ASSUME NEW r \in Requests, ReleasePost(r) PROVE Final
    BY <2>3 DEF ReleasePost, ReleasedStatus, GotoCall
  <2>4. CASE UNCHANGED <<opStatus, actual>>
    BY <2>4
  <2> QED
    BY <2>1, <2>2, <2>3, <2>4 DEF Next, CallStep, RefundStep, CheckoutStep, VerifyStep,
        Reconfigure, ResolveConfig, MeterBefore, ReserveLock, ReserveSum,
        ProviderAnswers, ProviderFails, SetupFails, CaptureRead, CaptureFails,
        Answer, ReleaseRead, ReleaseFails, CallCrashes, RefundLock, RefundSum,
        RefundPost, RefundCrashes, CheckoutStart, EnsureWallet, CheckoutInsert,
        Pay, VerifyStart, VerifyCheckout, VerifyDuplicate, VerifyInsert,
        VerifyCrashes
<1>2. IndInv /\ [Next]_vars => [Final]_vars
  BY <1>1
<1> QED
  BY <1>2, Inductive, PTL DEF Spec, SettledIsFinal

\* The wallet implements the prepaid account: holds, charges, returns and
\* refunds are atomic and affordable, whatever the transactions do in between.
THEOREM WalletImplementsAccount == Spec => ImplementsAccount
<1> DEFINE held == [r \in Requests |-> IF Holding(r) THEN quoted[r] ELSE 0]
           charge == [r \in Requests |-> actual[r] - refunded[r]]
<1>1. Init => Account!Init
  BY DEF Init, Account!Init, Holding
<1>2. IndInv /\ IndInv' /\ [Next]_vars => [Account!Next]_Account!vars
  <2> SUFFICES ASSUME IndInv, IndInv', [Next]_vars
               PROVE  Account!Next \/ UNCHANGED <<balance, opStatus, held, charge>>
    BY DEF Account!vars
  <2> USE EsbConstants DEF IndInv, TypeOK, NeverOverdrawn, NoStaleDecision,
          OperationLife, RefundWithinCharge, Holding, walletVars, opVars, topUpVars
  <2>1. ASSUME NEW r \in Requests, ReservePost(r) PROVE Account!Hold(r)
    <3>1. quoted[r] \in 1..balance
      BY <2>1 DEF ReservePost
    <3>2. held' = [held EXCEPT ![r] = quoted[r]] /\ UNCHANGED charge
      BY <2>1 DEF ReservePost
    <3> QED
      BY <2>1, <3>1, <3>2 DEF ReservePost, Account!Hold
  <2>2. ASSUME NEW r \in Requests, CapturePost(r) PROVE Account!Charge(r)
    <3>1. held[r] = quoted[r] /\ quoted[r] \in 0..held[r]
      BY <2>2 DEF CapturePost
    <3>2. held' = [held EXCEPT ![r] = 0]
      BY <2>2 DEF CapturePost
    <3>3. refunded[r] = 0 /\ refunded' = refunded
      BY <2>2 DEF CapturePost
    <3>4. actual' = [actual EXCEPT ![r] = quoted[r]]
      BY <2>2 DEF CapturePost
    <3>5. ASSUME NEW x \in Requests
          PROVE  actual'[x] - refunded'[x] =
                    IF x = r THEN quoted[r] ELSE actual[x] - refunded[x]
      BY <3>3, <3>4
    <3>6. charge' = [charge EXCEPT ![r] = quoted[r]]
      BY <3>5, Zenon
    <3>7. balance' = balance + held[r] - quoted[r]
      BY <2>2, <3>1 DEF CapturePost, CaptureNet
    <3> QED
      BY <2>2, <3>1, <3>2, <3>7, <3>6 DEF CapturePost, Account!Charge
  <2>3. ASSUME NEW r \in Requests, ReleasePost(r) PROVE Account!GiveBack(r)
    <3>1. held' = [held EXCEPT ![r] = 0] /\ UNCHANGED charge
      BY <2>3, ZenonT(30) DEF ReleasePost, ReleasedStatus
    <3> QED
      BY <2>3, <3>1 DEF ReleasePost, ReleasedStatus, Account!GiveBack
  <2>4. ASSUME NEW f \in Refunds, RefundPost(f)
        PROVE  Account!Refund(RefundOf[f])
    <3> DEFINE o == RefundOf[f]
    <3>1. RefundAmount[f] \in 1..charge[o]
      BY <2>4 DEF RefundPost
    <3>2. /\ refunded' = [refunded EXCEPT ![o] = @ + RefundAmount[f]]
          /\ actual' = actual /\ o \in Requests /\ RefundAmount[f] \in Nat
      BY <2>4 DEF RefundPost
    <3>3. ASSUME NEW x \in Requests
          PROVE  actual'[x] - refunded'[x] =
                    IF x = o THEN actual[o] - refunded[o] - RefundAmount[f]
                             ELSE actual[x] - refunded[x]
      BY <3>2
    <3>4. charge' = [charge EXCEPT ![o] = @ - RefundAmount[f]]
      BY <3>3, Zenon
    <3>5. UNCHANGED held
      BY <2>4 DEF RefundPost
    <3> QED
      BY <2>4, <3>1, <3>4, <3>5 DEF RefundPost, Account!Refund
  <2>5. ASSUME NEW v \in Verifiers, VerifyInsert(v)
        PROVE  Account!Deposit \/ UNCHANGED <<balance, opStatus, held, charge>>
    <3>1. UNCHANGED <<opStatus, held, charge>>
      BY <2>5 DEF VerifyInsert
    <3>2. UNCHANGED balance \/ (balance' \in Nat /\ balance' > balance)
      BY <2>5 DEF VerifyInsert
    <3> QED
      BY <3>1, <3>2 DEF Account!Deposit
  <2>6. ASSUME NEW r \in Requests, MeterBefore(r)
        PROVE  UNCHANGED <<balance, opStatus, held, charge>>
    BY <2>6 DEF MeterBefore, GotoCall
  <2>7. CASE UNCHANGED <<balance, opStatus, quoted, actual, refunded>>
    BY <2>7
  <2> QED
    BY <2>1, <2>2, <2>3, <2>4, <2>5, <2>6, <2>7
    DEF vars, Account!Next, Next, CallStep, RefundStep, CheckoutStep, VerifyStep,
        Reconfigure, ResolveConfig, ReserveLock, ReserveSum, ProviderAnswers,
        ProviderFails, SetupFails, CaptureRead, CaptureFails, Answer,
        ReleaseRead, ReleaseFails, CallCrashes, RefundLock, RefundSum,
        RefundCrashes, CheckoutStart, EnsureWallet, CheckoutInsert,
        Pay, VerifyStart, VerifyCheckout, VerifyDuplicate,
        VerifyCrashes
<1> QED
  BY <1>1, <1>2, Inductive, PTL DEF Spec, ImplementsAccount, Account!Spec

--------------------------------------------------------------------------------
(* Conservation: two sums, over the top-ups that are credited and over the *)
(* operations that have a row.  There are finitely many of either, because *)
(* a step adds at most one.                                                *)

Funds ==
    /\ IsFiniteSet(Credited)
    /\ IsFiniteSet(Operations)
    /\ Conservation

\* What is summed are numbers.
LEMMA AmountsAreInt ==
    ASSUME TypeOK, TypeOK'
    PROVE  /\ \A t \in TxRefs : Received[t] \in Int /\ Received'[t] \in Int
           /\ \A r \in Requests : Taken[r] \in Int /\ Taken'[r] \in Int
<1>1. ASSUME NEW t \in TxRefs PROVE Received[t] \in Int /\ Received'[t] \in Int
  <2>1. credits[t] \in Int /\ credits'[t] \in Int /\ Paid[t] \in Int
    BY EsbConstants DEF TypeOK
  <2>2. credits[t] * Paid[t] \in Int /\ credits'[t] * Paid[t] \in Int
    BY <2>1
  <2> QED
    BY <2>2 DEF Received
<1>2. ASSUME NEW r \in Requests PROVE Taken[r] \in Int /\ Taken'[r] \in Int
  BY <1>2 DEF TypeOK, Taken
<1> QED
  BY <1>1, <1>2

\* A step that changes neither balance nor rows changes no sum.
LEMMA FundsSame ==
    ASSUME Funds, UNCHANGED balance,
           Credited' = Credited, Operations' = Operations,
           \A t \in Credited : Received'[t] = Received[t],
           \A r \in Operations : Taken'[r] = Taken[r]
    PROVE  Funds'
BY SumSame DEF Funds, Conservation

\* A step that adds no operation changes what one operation takes.
LEMMA FundsTaken ==
    ASSUME TypeOK, TypeOK', Funds, NEW o \in Operations,
           Operations' = Operations, UNCHANGED credits,
           \A r \in Operations \ {o} : Taken'[r] = Taken[r],
           balance' = balance + Taken[o] - Taken'[o]
    PROVE  Funds'
<1>1. Operations \subseteq Requests /\ Operations' \subseteq Requests
  BY DEF Operations
<1>2. \A r \in Operations : Taken[r] \in Int /\ Taken'[r] \in Int
  BY <1>1, AmountsAreInt
<1>3. SumFunctionOnSet(Taken', Operations)
         = SumFunctionOnSet(Taken, Operations) + Taken'[o] - Taken[o]
  BY <1>2, SumChange DEF Funds
<1>4. Credited' = Credited /\ Received' = Received
  BY DEF Credited, Received
<1>5. /\ SumFunctionOnSet(Taken, Operations) \in Int
      /\ SumFunctionOnSet(Received, Credited) \in Int
      /\ Taken[o] \in Int /\ Taken'[o] \in Int
  <2>1. \A t \in Credited : Received[t] \in Int
    BY AmountsAreInt DEF Credited
  <2> QED
    BY <1>2, <2>1, SumInt DEF Funds
<1> QED
  BY <1>3, <1>4, <1>5 DEF Funds, Conservation

\* Every step keeps the postings and their owners balanced.
LEMMA FundsStep == IndInv /\ IndInv' /\ Funds /\ [Next]_vars => Funds'
<1> SUFFICES ASSUME IndInv, IndInv', Funds, [Next]_vars PROVE Funds'
  OBVIOUS
<1> TypeOK /\ TypeOK'
  BY DEF IndInv
<1>1. ASSUME NEW r \in Requests, ReservePost(r) PROVE Funds'
  <2>1. opStatus[r] = "none" /\ actual[r] = 0 /\ refunded[r] = 0
    BY <1>1 DEF ReservePost, IndInv, NoStaleDecision, OperationLife
  <2>2. r \notin Operations /\ Operations' = Operations \cup {r}
    BY <1>1, <2>1 DEF ReservePost, Operations, TypeOK
  <2>3. Credited' = Credited /\ Received' = Received
    BY <1>1 DEF ReservePost, topUpVars, Credited, Received
  <2>4. \A x \in Operations : Taken'[x] = Taken[x]
    BY <1>1, <2>2 DEF ReservePost, Operations, TypeOK, Taken, Holding
  <2>5. Taken'[r] = quoted[r] /\ quoted[r] \in Int /\ balance' = balance - quoted[r]
    BY <1>1, <2>1 DEF ReservePost, TypeOK, Taken, Holding
  <2>6. \A x \in Operations \cup {r} : Taken'[x] \in Int
    BY <2>2, AmountsAreInt DEF Operations
  <2>7. SumFunctionOnSet(Taken', Operations \cup {r})
           = Taken'[r] + SumFunctionOnSet(Taken', Operations)
    BY <2>2, <2>6, SumAdd DEF Funds
  <2>8. SumFunctionOnSet(Taken', Operations) = SumFunctionOnSet(Taken, Operations)
    BY <2>4, SumSame DEF Funds
  <2>9. /\ SumFunctionOnSet(Taken, Operations) \in Int
        /\ SumFunctionOnSet(Received, Credited) \in Int
    <3>1. /\ \A t \in Credited : Received[t] \in Int
          /\ \A x \in Operations : Taken[x] \in Int
      BY AmountsAreInt DEF Credited, Operations
    <3> QED
      BY <3>1, SumInt DEF Funds
  <2>10. IsFiniteSet(Operations')
    BY <2>2, FS_AddElement DEF Funds
  <2> QED
    BY <2>2, <2>3, <2>5, <2>7, <2>8, <2>9, <2>10 DEF Funds, Conservation
<1>2. ASSUME NEW r \in Requests, CapturePost(r) PROVE Funds'
  <2>1. Holding(r) /\ actual[r] = 0 /\ refunded[r] = 0
    BY <1>2 DEF CapturePost, IndInv, NoStaleDecision, OperationLife, Holding
  <2>2. r \in Operations /\ Operations' = Operations /\ UNCHANGED credits
    BY <1>2, <2>1 DEF CapturePost, Operations, TypeOK, Holding, topUpVars
  <2>3. \A x \in Operations \ {r} : Taken'[x] = Taken[x]
    BY <1>2 DEF CapturePost, Operations, TypeOK, Taken, Holding
  <2>4. Taken[r] = quoted[r] /\ Taken'[r] = quoted[r] /\ quoted[r] \in Int
    BY <1>2, <2>1 DEF CapturePost, TypeOK, Taken, Holding
  <2>5. balance' = balance + Taken[r] - Taken'[r]
    BY <1>2, <2>4 DEF CapturePost, CaptureNet
  <2> QED
    BY <2>2, <2>3, <2>5, FundsTaken
<1>3. ASSUME NEW r \in Requests, ReleasePost(r) PROVE Funds'
  <2>1. Holding(r) /\ actual[r] = 0 /\ refunded[r] = 0
    BY <1>3 DEF ReleasePost, IndInv, NoStaleDecision, OperationLife, Holding
  <2>2. r \in Operations /\ Operations' = Operations /\ UNCHANGED credits
    BY <1>3, <2>1 DEF ReleasePost, ReleasedStatus, Operations, TypeOK, Holding, topUpVars
  <2>3. \A x \in Operations \ {r} : Taken'[x] = Taken[x]
    BY <1>3 DEF ReleasePost, ReleasedStatus, Operations, TypeOK, Taken, Holding
  <2>4. Taken[r] = quoted[r] /\ Taken'[r] = 0 /\ quoted[r] \in Int /\ balance \in Int
    BY <1>3, <2>1 DEF ReleasePost, ReleasedStatus, TypeOK, Taken, Holding
  <2>5. balance' = balance + Taken[r] - Taken'[r]
    BY <1>3, <2>4 DEF ReleasePost
  <2> QED
    BY <2>2, <2>3, <2>5, FundsTaken
<1>4. ASSUME NEW f \in Refunds, RefundPost(f) PROVE Funds'
  <2> DEFINE o == RefundOf[f]
  <2>1. o \in Requests /\ opStatus[o] = "captured" /\ RefundAmount[f] \in Nat
    BY <1>4, EsbConstants DEF RefundPost, IndInv, NoStaleDecision
  <2>2. o \in Operations /\ Operations' = Operations /\ UNCHANGED credits
    BY <1>4, <2>1 DEF RefundPost, Operations, topUpVars
  <2>3. refunded' = [refunded EXCEPT ![o] = @ + RefundAmount[f]]
        /\ UNCHANGED <<opStatus, quoted, actual>> /\ balance' = balance + RefundAmount[f]
    BY <1>4 DEF RefundPost
  <2> HIDE DEF o
  <2>4. \A x \in Operations \ {o} : Taken'[x] = Taken[x]
    BY <2>3 DEF Operations, TypeOK, Taken, Holding
  <2>5. Taken'[o] = Taken[o] - RefundAmount[f] /\ Taken[o] \in Int /\ balance \in Int
    BY <2>1, <2>3 DEF TypeOK, Taken, Holding
  <2>6. balance' = balance + Taken[o] - Taken'[o]
    BY <2>1, <2>3, <2>5
  <2> QED
    BY <2>2, <2>4, <2>6, FundsTaken
<1>5. ASSUME NEW v \in Verifiers, VerifyInsert(v) PROVE Funds'
  <2> DEFINE t == VerifierRef[v]
  <2>1. CASE UniqueTxRef(t)
    <3>1. /\ t \in TxRefs /\ credits[t] = 0 /\ credits' = [credits EXCEPT ![t] = @ + 1]
          /\ balance' = balance + Paid[t] /\ Paid[t] \in Int
          /\ UNCHANGED <<opStatus, quoted, actual, refunded>>
      BY <1>5, <2>1, EsbConstants DEF VerifyInsert, UniqueTxRef, opVars
    <3> HIDE DEF t
    <3>2. t \notin Credited /\ Credited' = Credited \cup {t} /\ credits'[t] = 1
      BY <3>1 DEF Credited, TypeOK
    <3>3. \A x \in Credited : Received'[x] = Received[x]
      BY <3>1, <3>2 DEF Credited, Received, TypeOK
    <3>4. Received'[t] = Paid[t]
      BY <3>1, <3>2 DEF Received
    <3>5. Operations' = Operations /\ Taken' = Taken
      BY <3>1 DEF Operations, Taken, Holding
    <3>6. \A x \in Credited \cup {t} : Received'[x] \in Int
      BY <3>1, AmountsAreInt DEF Credited
    <3>7. SumFunctionOnSet(Received', Credited \cup {t})
             = Received'[t] + SumFunctionOnSet(Received', Credited)
      BY <3>2, <3>6, SumAdd DEF Funds
    <3>8. SumFunctionOnSet(Received', Credited) = SumFunctionOnSet(Received, Credited)
      BY <3>3, SumSame DEF Funds
    <3>9. /\ SumFunctionOnSet(Taken, Operations) \in Int
          /\ SumFunctionOnSet(Received, Credited) \in Int
      <4>1. /\ \A x \in Credited : Received[x] \in Int
            /\ \A x \in Operations : Taken[x] \in Int
        BY AmountsAreInt DEF Credited, Operations
      <4> QED
        BY <4>1, SumInt DEF Funds
    <3>10. IsFiniteSet(Credited')
      BY <3>2, FS_AddElement DEF Funds
    <3> QED
      BY <3>1, <3>2, <3>4, <3>5, <3>7, <3>8, <3>9, <3>10 DEF Funds, Conservation
  <2>2. CASE ~UniqueTxRef(t)
    <3>1. UNCHANGED <<balance, credits, opStatus, quoted, actual, refunded>>
      BY <1>5, <2>2 DEF VerifyInsert, opVars
    <3> QED
      BY <3>1, FundsSame DEF Credited, Received, Operations, Taken, Holding
  <2> QED
    BY <2>1, <2>2
<1>6. ASSUME NEW r \in Requests, MeterBefore(r) PROVE Funds'
  <2>1. /\ r \notin Operations /\ UNCHANGED <<balance, credits, opStatus, actual, refunded>>
        /\ \A x \in Requests \ {r} : quoted'[x] = quoted[x]
    BY <1>6 DEF MeterBefore, Operations, IndInv, OperationLife, TypeOK, walletVars, topUpVars
  <2>2. \A x \in Operations : Taken'[x] = Taken[x]
    BY <2>1 DEF Operations, Taken, Holding
  <2>3. Credited' = Credited /\ Received' = Received /\ Operations' = Operations
    BY <2>1 DEF Credited, Received, Operations
  <2> QED
    BY <2>1, <2>2, <2>3, FundsSame
<1>7. CASE UNCHANGED <<balance, credits, opStatus, quoted, actual, refunded>>
  BY <1>7, FundsSame DEF Credited, Received, Operations, Taken, Holding
<1> QED
  BY <1>1, <1>2, <1>3, <1>4, <1>5, <1>6, <1>7
  DEF vars, walletVars, opVars, topUpVars, Next, CallStep, RefundStep, CheckoutStep,
      VerifyStep, Reconfigure, ResolveConfig, ReserveLock, ReserveSum, ProviderAnswers,
      ProviderFails, SetupFails, CaptureRead, CaptureFails, Answer, ReleaseRead,
      ReleaseFails, CallCrashes, RefundLock, RefundSum, RefundCrashes, CheckoutStart,
      EnsureWallet, CheckoutInsert, Pay, VerifyStart, VerifyCheckout, VerifyDuplicate,
      VerifyCrashes

\* Every shilling has an owner, whatever overlaps, is refunded or crashes.
THEOREM FundsConserved == Spec => []Conservation
<1>1. Init => Funds
  <2> SUFFICES ASSUME Init PROVE Funds
    OBVIOUS
  <2>1. Credited = {} /\ Operations = {} /\ balance = 0
    BY DEF Init, Credited, Operations
  <2> QED
    BY <2>1, SumEmpty, FS_EmptySet DEF Funds, Conservation
<1>2. Spec => []Funds
  BY <1>1, Inductive, FundsStep, PTL DEF Spec
<1> QED
  BY <1>2, PTL DEF Funds
================================================================================

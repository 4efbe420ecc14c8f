------------------------------- MODULE EsbWallet -------------------------------
(***************************************************************************)
(* The External Services Balance: one tenant's prepaid wallet, the metered *)
(* AI calls that reserve and settle against it, the refunds of captured    *)
(* calls, and the top-ups that fund it.                                    *)
(*                                                                         *)
(* Every withTenant callback is one READ COMMITTED transaction.  It is cut *)
(* here at each statement whose result a concurrent transaction can make   *)
(* stale: the row lock, the SUM, the status read.  The statements after    *)
(* the last such read and the COMMIT are one action, because nothing they  *)
(* write is visible before it.  A request that dies inside a transaction   *)
(* rolls it back.                                                          *)
(*                                                                         *)
(* esb_postings is append-only and read only through SUM(amount), so the   *)
(* ledger is its running sum `balance`, plus what is read per key: the     *)
(* top_up postings of a tx_ref (credits) and the refund postings of an     *)
(* operation (refunded).                                                   *)
(***************************************************************************)
EXTENDS Integers, FiniteSets, Functions

CONSTANTS
    Requests,       \* metered AI calls; a call reserves at most one operation
    ExtractTasks,   \* the calls among them that run POST /ai/extract-task
    Rates,          \* prices of a call, in TZS
    Configs,        \* service configurations an administrator may set
    Refunds,        \* refund requests
    RefundOf,       \* [Refunds -> Requests]: the operation each refunds
    RefundAmount,   \* [Refunds -> Nat]: how much
    TxRefs,         \* top-up checkouts, by payment reference
    Paid,           \* [TxRefs -> Nat]: the amount the payer sends
    Verifiers,      \* verify-on-return calls
    VerifierRef,    \* [Verifiers -> TxRefs]: the reference each verifies
    Nobody          \* holder of a free row lock

ASSUME EsbConstants ==
    /\ ExtractTasks \subseteq Requests
    /\ Rates \subseteq Nat \ {0}
    /\ Configs \subseteq [metered : BOOLEAN, enabled : BOOLEAN, rated : BOOLEAN]
    /\ RefundOf \in [Refunds -> Requests]
    /\ RefundAmount \in [Refunds -> Nat \ {0}]
    /\ Paid \in [TxRefs -> Nat \ {0}]
    /\ VerifierRef \in [Verifiers -> TxRefs]
    /\ Nobody \notin Requests \cup Refunds

VARIABLES
    config,      \* tenant_service_config and provider_rates, for service 'ai'
    wallet,      \* TRUE once the esb_wallets row exists
    walletLock,  \* the reserve transaction that holds the wallet row
    balance,     \* SUM(esb_postings.amount)
    opStatus,    \* esb_operations.status, "none" before the row exists
    quoted,      \* esb_operations.quoted_amount
    actual,      \* esb_operations.actual_amount
    refunded,    \* SUM of the refund postings of the operation
    opLock,      \* the refund transaction that holds the operation row
    rpc,         \* where each AI call is
    fpc,         \* where each refund is
    checkout,    \* esb_checkout_requests.status, with the steps before it
    paid,        \* references the gateway reports as successful
    credits,     \* number of top_up postings of each reference
    vpc          \* where each verify call is

walletVars == <<wallet, walletLock, balance>>
opVars     == <<opStatus, quoted, actual, refunded, opLock>>
topUpVars  == <<checkout, paid, credits, vpc>>
vars == <<config, walletVars, opVars, rpc, fpc, topUpVars>>

OpStatus == {"none", "reserved", "captured", "released"}

\* The statuses capture() and releaseReservation() accept.  No statement of
\* the program writes 'dispatched' or 'failed', so they are left out.
Capturable == {"reserved"}
Releasable == {"reserved"}

CallPc == {"idle", "metering", "reserve", "sum", "post", "calling",
           "captureRead", "capture", "answered", "releaseRead", "release",
           "done", "denied", "unmetered", "error", "crashed"}
CallOver == {"done", "denied", "unmetered", "error", "crashed"}

RefundPc   == {"idle", "sum", "post", "done", "refused", "crashed"}
CheckoutPc == {"absent", "walletMissing", "walletReady", "pending",
               "completed", "failed"}
VerifyPc   == {"idle", "checkout", "dup", "insert", "ok",
               "refused", "error", "crashed"}

Init ==
    /\ config \in Configs
    /\ wallet = FALSE
    /\ walletLock = Nobody
    /\ balance = 0
    /\ opStatus = [r \in Requests |-> "none"]
    /\ quoted   = [r \in Requests |-> 0]
    /\ actual   = [r \in Requests |-> 0]
    /\ refunded = [r \in Requests |-> 0]
    /\ opLock   = [r \in Requests |-> Nobody]
    /\ rpc      = [r \in Requests |-> "idle"]
    /\ fpc      = [f \in Refunds |-> "idle"]
    /\ checkout = [t \in TxRefs |-> "absent"]
    /\ paid     = {}
    /\ credits  = [t \in TxRefs |-> 0]
    /\ vpc      = [v \in Verifiers |-> "idle"]

GotoCall(r, at)   == rpc' = [rpc EXCEPT ![r] = at]
GotoRefund(f, at) == fpc' = [fpc EXCEPT ![f] = at]
GotoVerify(v, at) == vpc' = [vpc EXCEPT ![v] = at]
--------------------------------------------------------------------------------
(* Metering: resolveAiCredentials and meterBefore                          *)

\* A platform administrator edits the tenant's service configuration or the
\* provider rates (routes of the console; the calls only read them).
Reconfigure ==
    /\ config' \in Configs \ {config}
    /\ UNCHANGED <<walletVars, opVars, rpc, fpc, topUpVars>>

\* resolveAiCredentials reads the configuration: is this tenant's AI metered?
\* If not, the call is billed by AI credits and never meets the wallet.
ResolveConfig(r) ==
    /\ rpc[r] = "idle"
    /\ GotoCall(r, IF config.metered THEN "metering" ELSE "unmetered")
    /\ UNCHANGED <<config, walletVars, opVars, fpc, topUpVars>>

\* What meterBefore answers when the service is disabled, not metered, or has
\* no rate: metered: false, which the caller takes for "no reservation needed".
NothingToReserve ==
    ~config.enabled \/ ~config.metered \/ ~config.rated

\* meterBefore reads the configuration again.  Its metered: false answers are
\* not refusals: the caller goes on to the provider without an operation.
MeterBefore(r) ==
    /\ rpc[r] = "metering"
    /\ IF NothingToReserve
       THEN /\ GotoCall(r, "calling")
            /\ UNCHANGED quoted
       ELSE /\ GotoCall(r, "reserve")
            /\ \E q \in Rates : quoted' = [quoted EXCEPT ![r] = q]
    /\ UNCHANGED <<config, walletVars, opStatus, actual, refunded, opLock,
                   fpc, topUpVars>>
--------------------------------------------------------------------------------
(* reserve(): lock the wallet row, SUM the postings, post the hold         *)

NoForUpdate == TRUE  \* a mutated WalletRowFree: SELECT without FOR UPDATE

WalletRowFree == walletLock = Nobody

ReserveLock(r) ==
    /\ rpc[r] = "reserve"
    /\ \/ /\ ~wallet
          /\ GotoCall(r, "denied")
          /\ UNCHANGED walletLock
       \/ /\ wallet
          /\ WalletRowFree
          /\ walletLock' = r
          /\ GotoCall(r, "sum")
    /\ UNCHANGED <<config, wallet, balance, opVars, fpc, topUpVars>>

ReserveSum(r) ==
    /\ rpc[r] = "sum"
    /\ IF balance < quoted[r]
       THEN /\ GotoCall(r, "denied")
            /\ walletLock' = Nobody
       ELSE /\ GotoCall(r, "post")
            /\ UNCHANGED walletLock
    /\ UNCHANGED <<config, wallet, balance, opVars, fpc, topUpVars>>

\* Insert the reserve posting and the operation row, and commit.
ReservePost(r) ==
    /\ rpc[r] = "post"
    /\ balance' = balance - quoted[r]
    /\ opStatus' = [opStatus EXCEPT ![r] = "reserved"]
    /\ walletLock' = Nobody
    /\ \/ GotoCall(r, "calling")
       \/ GotoCall(r, "error")   \* the acknowledgement of the COMMIT is lost
    /\ UNCHANGED <<config, wallet, quoted, actual, refunded, opLock,
                   fpc, topUpVars>>
--------------------------------------------------------------------------------
(* The routes: the provider call and the settlement around it              *)

\* A mutated SettlesUnparseable: no route settles an answer it cannot parse.
NeverSettlesUnparseable(r) == FALSE

\* Whether the route settles a successful answer that is not valid JSON.
\* compose-draft and automations/generate do; extract-task returns first.
SettlesUnparseable(r) == r \notin ExtractTasks

\* Without an operation id settleAiCall is a no-op.
Settling(r, at) == IF opStatus[r] = "none" THEN "done" ELSE at

ProviderAnswers(r) ==
    /\ rpc[r] = "calling"
    /\ \/ GotoCall(r, Settling(r, "captureRead"))
       \/ GotoCall(r, IF SettlesUnparseable(r)
                      THEN Settling(r, "captureRead") ELSE "done")
    /\ UNCHANGED <<config, walletVars, opVars, fpc, topUpVars>>

ProviderFails(r) ==
    /\ rpc[r] = "calling"
    /\ GotoCall(r, Settling(r, "releaseRead"))
    /\ UNCHANGED <<config, walletVars, opVars, fpc, topUpVars>>

\* A statement between the reservation and the route's try block throws:
\* decrypting the key, loading the history, inserting the agent run.
SetupFails(r) ==
    /\ rpc[r] = "calling"
    /\ GotoCall(r, "error")
    /\ UNCHANGED <<config, walletVars, opVars, fpc, topUpVars>>
--------------------------------------------------------------------------------
(* capture(): settleAiCall always captures the quoted amount               *)

\* A mutated CaptureNet: the hold is not released before the charge is posted.
CaptureNetKeepingHold(r) == - quoted[r]

\* The release posting of the hold plus the capture posting of the charge.
CaptureNet(r) == quoted[r] - quoted[r]

CaptureRead(r) ==
    /\ rpc[r] = "captureRead"
    /\ GotoCall(r, IF opStatus[r] \in Capturable THEN "capture" ELSE "answered")
    /\ UNCHANGED <<config, walletVars, opVars, fpc, topUpVars>>

\* The postings, the update of the operation and the COMMIT.  The update's
\* WHERE names the row only: it does not look at the status again.
CapturePost(r) ==
    /\ rpc[r] = "capture"
    /\ opLock[r] = Nobody
    /\ balance' = balance + CaptureNet(r)
    /\ opStatus' = [opStatus EXCEPT ![r] = "captured"]
    /\ actual' = [actual EXCEPT ![r] = quoted[r]]
    /\ \/ GotoCall(r, "answered")
       \/ GotoCall(r, "releaseRead")   \* committed, but the client saw an error
    /\ UNCHANGED <<config, wallet, walletLock, quoted, refunded, opLock,
                   fpc, topUpVars>>

\* The capture transaction fails and rolls back; the route's catch releases.
CaptureFails(r) ==
    /\ rpc[r] = "capture"
    /\ GotoCall(r, "releaseRead")
    /\ UNCHANGED <<config, walletVars, opVars, fpc, topUpVars>>

\* After settling, the route shapes its answer; when that throws inside the
\* try block, the catch calls settleAiCall(false) on a settled operation.
Answer(r) ==
    /\ rpc[r] = "answered"
    /\ GotoCall(r, "done") \/ GotoCall(r, "releaseRead")
    /\ UNCHANGED <<config, walletVars, opVars, fpc, topUpVars>>
--------------------------------------------------------------------------------
(* releaseReservation()                                                    *)

\* A mutated MayRelease: the status filter forgets that a charge was captured.
MayReleaseAny(r) == opStatus[r] # "none"

MayRelease(r) == opStatus[r] \in Releasable

ReleaseRead(r) ==
    /\ rpc[r] = "releaseRead"
    /\ GotoCall(r, IF MayRelease(r) THEN "release" ELSE "done")
    /\ UNCHANGED <<config, walletVars, opVars, fpc, topUpVars>>

\* A mutated ReleasedStatus: the status that the schema has and no query knows.
FailedStatus == "failed"

ReleasedStatus == "released"

ReleasePost(r) ==
    /\ rpc[r] = "release"
    /\ opLock[r] = Nobody
    /\ balance' = balance + quoted[r]
    /\ opStatus' = [opStatus EXCEPT ![r] = ReleasedStatus]
    /\ actual' = [actual EXCEPT ![r] = 0]
    /\ GotoCall(r, "done")
    /\ UNCHANGED <<config, wallet, walletLock, quoted, refunded, opLock,
                   fpc, topUpVars>>

\* The release transaction fails inside the catch block: the route answers 500
\* and nothing settles the operation any more.
ReleaseFails(r) ==
    /\ rpc[r] = "release"
    /\ GotoCall(r, "error")
    /\ UNCHANGED <<config, walletVars, opVars, fpc, topUpVars>>

\* The process dies; an open reserve transaction rolls back and its lock goes.
CallCrashes(r) ==
    /\ rpc[r] \notin CallOver \cup {"idle"}
    /\ GotoCall(r, "crashed")
    /\ walletLock' = IF walletLock = r THEN Nobody ELSE walletLock
    /\ UNCHANGED <<config, wallet, balance, opVars, fpc, topUpVars>>
--------------------------------------------------------------------------------
(* refund(): lock the operation row, SUM the prior refunds, post           *)

\* A mutated OpRowFree: SELECT without FOR UPDATE.
OpRowNotLocked(o) == TRUE

OpRowFree(o) == opLock[o] = Nobody

RefundLock(f) ==
    LET o == RefundOf[f] IN
    /\ fpc[f] = "idle"
    /\ \/ /\ opStatus[o] # "captured"
          /\ GotoRefund(f, "refused")
          /\ UNCHANGED opLock
       \/ /\ opStatus[o] = "captured"
          /\ OpRowFree(o)
          /\ opLock' = [opLock EXCEPT ![o] = f]
          /\ GotoRefund(f, "sum")
    /\ UNCHANGED <<config, walletVars, opStatus, quoted, actual, refunded,
                   rpc, topUpVars>>

RefundSum(f) ==
    LET o == RefundOf[f] IN
    /\ fpc[f] = "sum"
    /\ IF RefundAmount[f] > actual[o] - refunded[o]
       THEN /\ GotoRefund(f, "refused")
            /\ opLock' = [opLock EXCEPT ![o] = Nobody]
       ELSE /\ GotoRefund(f, "post")
            /\ UNCHANGED opLock
    /\ UNCHANGED <<config, walletVars, opStatus, quoted, actual, refunded,
                   rpc, topUpVars>>

RefundPost(f) ==
    LET o == RefundOf[f] IN
    /\ fpc[f] = "post"
    /\ balance' = balance + RefundAmount[f]
    /\ refunded' = [refunded EXCEPT ![o] = @ + RefundAmount[f]]
    /\ opLock' = [opLock EXCEPT ![o] = Nobody]
    /\ GotoRefund(f, "done")
    /\ UNCHANGED <<config, wallet, walletLock, opStatus, quoted, actual,
                   rpc, topUpVars>>

RefundCrashes(f) ==
    /\ fpc[f] \in {"sum", "post"}
    /\ GotoRefund(f, "crashed")
    /\ opLock' = [opLock EXCEPT ![RefundOf[f]] = Nobody]
    /\ UNCHANGED <<config, walletVars, opStatus, quoted, actual, refunded,
                   rpc, topUpVars>>
--------------------------------------------------------------------------------
(* Top-ups: createTopUpCheckout, the payer, and topUp() on verification    *)

GotoCheckout(t, at) == checkout' = [checkout EXCEPT ![t] = at]

\* ensureWallet: the SELECT.
CheckoutStart(t) ==
    /\ checkout[t] = "absent"
    /\ GotoCheckout(t, IF wallet THEN "walletReady" ELSE "walletMissing")
    /\ UNCHANGED <<config, walletVars, opVars, rpc, fpc,
                   paid, credits, vpc>>

\* ensureWallet: the INSERT, which UNIQUE (tenant_id) refuses when another
\* checkout created the row since the SELECT.
EnsureWallet(t) ==
    /\ checkout[t] = "walletMissing"
    /\ GotoCheckout(t, IF wallet THEN "failed" ELSE "walletReady")
    /\ wallet' = TRUE
    /\ UNCHANGED <<config, walletLock, balance, opVars, rpc, fpc,
                   paid, credits, vpc>>

CheckoutInsert(t) ==
    /\ checkout[t] = "walletReady"
    /\ GotoCheckout(t, "pending")
    /\ UNCHANGED <<config, walletVars, opVars, rpc, fpc,
                   paid, credits, vpc>>

\* The payer pays on the gateway's page.
Pay(t) ==
    /\ checkout[t] = "pending"
    /\ t \notin paid
    /\ paid' = paid \cup {t}
    /\ UNCHANGED <<config, walletVars, opVars, rpc, fpc,
                   checkout, credits, vpc>>

\* The verify route asks the gateway, then ensureWallet finds the wallet that
\* the checkout created.
VerifyStart(v) ==
    /\ vpc[v] = "idle"
    /\ GotoVerify(v, IF VerifierRef[v] \in paid THEN "checkout" ELSE "refused")
    /\ UNCHANGED <<config, walletVars, opVars, rpc, fpc,
                   checkout, paid, credits>>

\* topUp reads the checkout row; a completed one that has its posting is a
\* repeated call and answers success.  Otherwise it asks the gateway again,
\* inside its transaction, and that call may fail.
VerifyCheckout(v) ==
    LET t == VerifierRef[v] IN
    /\ vpc[v] = "checkout"
    /\ \/ /\ checkout[t] = "completed" /\ credits[t] > 0
          /\ GotoVerify(v, "ok")
       \/ /\ ~(checkout[t] = "completed" /\ credits[t] > 0)
          /\ GotoVerify(v, "dup") \/ GotoVerify(v, "refused")
    /\ UNCHANGED <<config, walletVars, opVars, rpc, fpc,
                   checkout, paid, credits>>

VerifyDuplicate(v) ==
    /\ vpc[v] = "dup"
    /\ GotoVerify(v, IF credits[VerifierRef[v]] > 0 THEN "ok" ELSE "insert")
    /\ UNCHANGED <<config, walletVars, opVars, rpc, fpc,
                   checkout, paid, credits>>

\* A mutated UniqueTxRef: the schema before migration 639.
NoUniqueIndex(t) == TRUE

\* The unique partial index on (tenant_id, gateway_tx_ref) of top_up postings.
UniqueTxRef(t) == credits[t] = 0

\* Insert the posting, complete the checkout, commit; a duplicate key aborts.
VerifyInsert(v) ==
    LET t == VerifierRef[v] IN
    /\ vpc[v] = "insert"
    /\ \/ /\ UniqueTxRef(t)
          /\ credits' = [credits EXCEPT ![t] = @ + 1]
          /\ balance' = balance + Paid[t]
          /\ GotoCheckout(t, "completed")
          /\ GotoVerify(v, "ok")
       \/ /\ ~UniqueTxRef(t)
          /\ GotoVerify(v, "error")
          /\ UNCHANGED <<balance, credits, checkout>>
    /\ UNCHANGED <<config, wallet, walletLock, opVars, rpc, fpc, paid>>

VerifyCrashes(v) ==
    /\ vpc[v] \in {"checkout", "dup", "insert"}
    /\ GotoVerify(v, "crashed")
    /\ UNCHANGED <<config, walletVars, opVars, rpc, fpc,
                   checkout, paid, credits>>
--------------------------------------------------------------------------------
CallStep(r) ==
    \/ ResolveConfig(r) \/ MeterBefore(r)
    \/ ReserveLock(r) \/ ReserveSum(r) \/ ReservePost(r)
    \/ ProviderAnswers(r) \/ ProviderFails(r) \/ SetupFails(r)
    \/ CaptureRead(r) \/ CapturePost(r) \/ CaptureFails(r) \/ Answer(r)
    \/ ReleaseRead(r) \/ ReleasePost(r) \/ ReleaseFails(r)

RefundStep(f) == RefundLock(f) \/ RefundSum(f) \/ RefundPost(f)

CheckoutStep(t) == CheckoutStart(t) \/ EnsureWallet(t) \/ CheckoutInsert(t)

VerifyStep(v) ==
    \/ VerifyStart(v) \/ VerifyCheckout(v)
    \/ VerifyDuplicate(v) \/ VerifyInsert(v)

Next ==
    \/ Reconfigure
    \/ \E r \in Requests : CallStep(r) \/ CallCrashes(r)
    \/ \E f \in Refunds : RefundStep(f) \/ RefundCrashes(f)
    \/ \E t \in TxRefs : CheckoutStep(t) \/ Pay(t)
    \/ \E v \in Verifiers : VerifyStep(v) \/ VerifyCrashes(v)

Spec == Init /\ [][Next]_vars

\* An HTTP handler that has started goes on until it answers or its process
\* dies: each awaited statement returns or throws, and the provider call ends
\* with an answer, an error or the client's timeout.
Fairness == \A r \in Requests : WF_vars(rpc[r] # "idle" /\ CallStep(r))

FairSpec == Spec /\ Fairness
--------------------------------------------------------------------------------
TypeOK ==
    /\ config \in Configs
    /\ wallet \in BOOLEAN
    /\ walletLock \in Requests \cup {Nobody}
    /\ balance \in Int
    /\ opStatus \in [Requests -> OpStatus]
    /\ quoted \in [Requests -> Nat]
    /\ actual \in [Requests -> Nat]
    /\ refunded \in [Requests -> Nat]
    /\ opLock \in [Requests -> Refunds \cup {Nobody}]
    /\ rpc \in [Requests -> CallPc]
    /\ fpc \in [Refunds -> RefundPc]
    /\ checkout \in [TxRefs -> CheckoutPc]
    /\ paid \in SUBSET TxRefs
    /\ credits \in [TxRefs -> Nat]
    /\ vpc \in [Verifiers -> VerifyPc]

Settled == {"captured", "released"}
Holding(r) == opStatus[r] = "reserved"

\* No interleaving of reservations spends money the tenant does not have: the
\* SUM that reserve() compared with its quote is still covered at its commit.
NeverOverdrawn == balance >= 0

\* The top-ups that have a posting and the operations that have a row, with
\* what the former brought and the latter keep of it.
Credited   == {t \in TxRefs : credits[t] > 0}
Received   == [t \in TxRefs |-> credits[t] * Paid[t]]
Operations == {r \in Requests : opStatus[r] # "none"}
Taken      == [r \in Requests |-> (IF Holding(r) THEN quoted[r] ELSE 0)
                                      + actual[r] - refunded[r]]

\* Every shilling has an owner: the sum of the postings is what the payers sent,
\* less the open holds and the captured charges, plus what was refunded.  A hold
\* settled twice, or a charge posted on top of its hold, breaks it.
Conservation ==
    balance = SumFunctionOnSet(Received, Credited) - SumFunctionOnSet(Taken, Operations)

\* Concurrent refunds of one operation never return more than it was charged.
RefundWithinCharge == \A r \in Requests : refunded[r] <= actual[r]

\* A payment is credited once however many verify calls race for it, and a
\* verify call that answered success has exactly one posting behind it.
CreditedOnce ==
    /\ \A t \in TxRefs : credits[t] <= 1
    /\ \A v \in Verifiers : vpc[v] = "ok" => credits[VerifierRef[v]] = 1

\* No transaction acts on a decision that has gone stale: whatever it read
\* before its last statement still holds when that statement runs, although
\* only reserve and refund hold a row lock in between.  The quote is covered,
\* the operation to settle is still reserved, the refund still fits the charge.
NoStaleDecision ==
    /\ \A r \in Requests :
          /\ rpc[r] = "post" => opStatus[r] = "none" /\ quoted[r] <= balance
          /\ rpc[r] \in {"capture", "release"} => Holding(r)
    /\ \A f \in Refunds :
          /\ fpc[f] \in {"sum", "post"} => opStatus[RefundOf[f]] = "captured"
          /\ fpc[f] = "post" =>
                RefundAmount[f] <= actual[RefundOf[f]] - refunded[RefundOf[f]]

\* The rest of the inductive invariant: who holds which row lock...
LocksHeld ==
    /\ \A r \in Requests : walletLock = r <=> rpc[r] \in {"sum", "post"}
    /\ \A f \in Refunds, o \in Requests :
          opLock[o] = f <=> RefundOf[f] = o /\ fpc[f] \in {"sum", "post"}

\* ...and what an operation's amounts are at each point of its life.
OperationLife ==
    \A r \in Requests :
        /\ rpc[r] \in {"idle", "metering", "reserve", "sum", "post"} =>
              opStatus[r] = "none"
        /\ rpc[r] \in {"reserve", "sum", "post"} => quoted[r] > 0
        /\ opStatus[r] # "captured" => actual[r] = 0 /\ refunded[r] = 0

IndInv ==
    /\ TypeOK
    /\ NeverOverdrawn
    /\ RefundWithinCharge
    /\ CreditedOnce
    /\ NoStaleDecision
    /\ LocksHeld
    /\ OperationLife

\* A settled operation is never settled again: once captured it stays captured
\* and keeps its amount (a late release would hand the money back twice).
SettledIsFinal ==
    [][\A r \in Requests : opStatus[r] \in Settled =>
          opStatus'[r] = opStatus[r] /\ actual'[r] = actual[r]]_vars

\* Every hold is settled in the end, unless its call died, a database error
\* ended it, or it was an extract-task call.
HoldsAreSettled ==
    \A r \in Requests \ ExtractTasks :
        Holding(r) ~> (~Holding(r) \/ rpc[r] \in {"crashed", "error"})

\* The wallet with its transactions, locks, crashes and lost acknowledgements
\* is a prepaid account: every step of it is a step of the account, or none.
Account == INSTANCE PrepaidAccount WITH
    Calls  <- Requests,
    funds  <- balance,
    stage  <- opStatus,
    held   <- [r \in Requests |-> IF Holding(r) THEN quoted[r] ELSE 0],
    charge <- [r \in Requests |-> actual[r] - refunded[r]]

ImplementsAccount == Account!Spec

\* esb-ai-settle.ts: "Call this in the finally/catch blocks of every AI route
\* that uses resolveAiCredentials" -- for every route, extract-task included.
EveryRouteSettles == \A r \in Requests : rpc[r] = "done" => ~Holding(r)

\* platform-settings.ts: a metered tenant whose reservation failed, "no rate"
\* among the reasons it lists, gets no credentials.
MeteredCallsAreReserved ==
    \A r \in Requests : rpc[r] = "calling" => opStatus[r] # "none"
================================================================================

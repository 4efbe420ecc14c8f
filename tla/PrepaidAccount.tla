---------------------------- MODULE PrepaidAccount ----------------------------
(***************************************************************************)
(* What the External Services Balance promises, with no transactions, no   *)
(* locks and no failures: a prepaid account from which a call sets funds   *)
(* aside, is then charged at most what was set aside or gets it back, and  *)
(* may later be refunded at most what it was charged.                      *)
(***************************************************************************)
EXTENDS Integers

CONSTANT Calls

VARIABLES
    funds,   \* what the tenant can still spend
    stage,   \* where each call is in its life
    held,    \* what is set aside for each call
    charge   \* what each call has cost, net of refunds

vars == <<funds, stage, held, charge>>

Init ==
    /\ funds = 0
    /\ stage  = [c \in Calls |-> "none"]
    /\ held   = [c \in Calls |-> 0]
    /\ charge = [c \in Calls |-> 0]

Deposit ==
    /\ funds' \in Nat
    /\ funds' > funds
    /\ UNCHANGED <<stage, held, charge>>

\* Only money that is there can be set aside.
Hold(c) ==
    /\ stage[c] = "none"
    /\ \E q \in 1..funds :
          /\ funds' = funds - q
          /\ held' = [held EXCEPT ![c] = q]
    /\ stage' = [stage EXCEPT ![c] = "reserved"]
    /\ UNCHANGED charge

Charge(c) ==
    /\ stage[c] = "reserved"
    /\ \E a \in 0..held[c] :
          /\ funds' = funds + held[c] - a
          /\ charge' = [charge EXCEPT ![c] = a]
    /\ held' = [held EXCEPT ![c] = 0]
    /\ stage' = [stage EXCEPT ![c] = "captured"]

GiveBack(c) ==
    /\ stage[c] = "reserved"
    /\ funds' = funds + held[c]
    /\ held' = [held EXCEPT ![c] = 0]
    /\ stage' = [stage EXCEPT ![c] = "released"]
    /\ UNCHANGED charge

Refund(c) ==
    /\ stage[c] = "captured"
    /\ \E a \in 1..charge[c] :
          /\ funds' = funds + a
          /\ charge' = [charge EXCEPT ![c] = @ - a]
    /\ UNCHANGED <<stage, held>>

Next ==
    \/ Deposit
    \/ \E c \in Calls : Hold(c) \/ Charge(c) \/ GiveBack(c) \/ Refund(c)

Spec == Init /\ [][Next]_vars
================================================================================

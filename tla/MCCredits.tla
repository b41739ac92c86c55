----------------------------- MODULE MCCredits -----------------------------
(***************************************************************************)
(* The two ways credits come in, for TLC: an instance is about recharge    *)
(* orders or about redeem codes (they share nothing but users.credits,     *)
(* which both only add to), and the other component rests.                 *)
(***************************************************************************)
EXTENDS Payments, Cdk, TLC

CONSTANTS
  Parts,       \* "orders", "codes"
  m1, m2, n1   \* two codes of one marketing batch, and a normal code

VARIABLE part

vars == <<part, payVars, cdkVars>>

Batches == (m1 :> "batch") @@ (m2 :> "batch") @@ (n1 :> "normal")

ASSUME CodeOnce!CreditOnceAssumption

Init == part \in Parts /\ PayInit /\ CdkInit

Next == \/ part = "orders" /\ PayNext /\ UNCHANGED <<part, cdkVars>>
        \/ part = "codes" /\ CdkNext /\ UNCHANGED <<part, payVars>>

\* Time passes and the sweep runs, as in PayFairSpec.
OfOrders(A) == part = "orders" /\ A /\ UNCHANGED <<part, cdkVars>>
Fairness == WF_vars(OfOrders(ExpirePending)) /\ \A o \in Orders : WF_vars(OfOrders(Age(o)))

Spec == Init /\ [][Next]_vars
FairSpec == Spec /\ Fairness

-----------------------------------------------------------------------------
\* An order that is paid for, and a code that is redeemed, is credited unless a
\* statement failed or a process died; balances and records show what was credited;
\* and no order stays pending.
LostByFaultsOnly ==
  /\ [](PayTypeOK /\ Once!Backed /\ (faults = 0 => MarkedIsCredited))
  /\ [](CdkTypeOK /\ CodeOnce!Backed /\ BurntByFaultsOnly /\ RecordedIsCredited)
  /\ OrderSettles
=============================================================================

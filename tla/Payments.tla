------------------------------ MODULE Payments ------------------------------
(***************************************************************************)
(* Recharge orders (service/payment.go, repo/order_repo.go): CreateOrder   *)
(* and Continue, the gateway that takes the money and repeats its          *)
(* notification until it is answered "success", HandleNotify, the expiry   *)
(* of unpaid orders, crashes and failing statements.  A step is one        *)
(* statement or one call of the gateway.  Implements CreditOnce.           *)
(***************************************************************************)
EXTENDS Naturals

CONSTANTS
  Users, Nobody,
  Orders,         \* order ids, drawn by CreateOrder
  Handlers,       \* concurrent calls of HandleNotify
  Ratios,         \* values of pay.points_ratio an admin may save
  NoOrder,
  Late,           \* whether money and notifications may come after the TTL
  MaxFaults       \* bound on crashes and failing statements

ASSUME PaymentsAssumption ==
  /\ Nobody \notin Users
  /\ NoOrder \notin Orders
  /\ Ratios \subseteq Nat
  /\ Late \in BOOLEAN
  /\ MaxFaults \in Nat

VARIABLES
  ratio,          \* pay.points_ratio
  status,         \* column status, "none" before the row exists
  buyer, points,  \* columns user_id and points
  hasInfo,        \* column pay_info is set
  expired,        \* expires_at has passed
  create,         \* where CreateOrder is with the order
  live,           \* the gateway knows the order
  paid,           \* the gateway has the money
  acked,          \* the gateway was answered "success"
  handler,        \* [order, pc] of each notification under way
  grantee,        \* who was credited for the order
  balance,
  faults

rowVars == <<status, buyer, points, hasInfo>>
gatewayVars == <<live, paid, acked>>
payVars == <<ratio, rowVars, expired, create, gatewayVars, handler, grantee, balance, faults>>

PayTypeOK ==
  /\ ratio \in Nat
  /\ status \in [Orders -> {"none", "pending", "paid", "cancelled"}]
  /\ buyer \in [Orders -> Users \cup {Nobody}]
  /\ points \in [Orders -> Nat]
  /\ hasInfo \in [Orders -> BOOLEAN]
  /\ expired \in [Orders -> BOOLEAN]
  /\ create \in [Orders -> {"none", "placing", "shown", "failed", "dead"}]
  /\ live \in [Orders -> BOOLEAN]
  /\ paid \in [Orders -> BOOLEAN]
  /\ acked \in [Orders -> BOOLEAN]
  /\ handler \in [Handlers -> [order : Orders \cup {NoOrder}, pc : {"idle", "mark", "credit"}]]
  /\ grantee \in [Orders -> Users \cup {Nobody}]
  /\ balance \in [Users -> Nat]
  /\ faults \in Nat
  /\ \A o \in Orders : acked[o] => paid[o]

Idle == [order |-> NoOrder, pc |-> "idle"]

PayInit ==
  /\ ratio \in Ratios
  /\ status = [o \in Orders |-> "none"]
  /\ buyer = [o \in Orders |-> Nobody]
  /\ points = [o \in Orders |-> 0]
  /\ hasInfo = [o \in Orders |-> FALSE]
  /\ expired = [o \in Orders |-> FALSE]
  /\ create = [o \in Orders |-> "none"]
  /\ live = [o \in Orders |-> FALSE]
  /\ paid = [o \in Orders |-> FALSE]
  /\ acked = [o \in Orders |-> FALSE]
  /\ handler = [h \in Handlers |-> Idle]
  /\ grantee = [o \in Orders |-> Nobody]
  /\ balance = [u \in Users |-> 0]
  /\ faults = 0

Fault == faults < MaxFaults /\ faults' = faults + 1

-----------------------------------------------------------------------------
(* Orders.                                                                 *)

\* SaveSettings.
SaveSettings(r) ==
  /\ ratio' = r
  /\ UNCHANGED <<rowVars, expired, create, gatewayVars, handler, grantee, balance, faults>>

\* The row is written before the gateway is asked.
CreateOrder(o, u) ==
  /\ status[o] = "none"
  /\ status' = [status EXCEPT ![o] = "pending"]
  /\ buyer' = [buyer EXCEPT ![o] = u]
  /\ points' = [points EXCEPT ![o] = ratio]
  /\ create' = [create EXCEPT ![o] = "placing"]
  /\ UNCHANGED <<ratio, hasInfo, expired, gatewayVars, handler, grantee, balance, faults>>

\* A pending order with a code that is still valid is shown again, without a step;
\* a paid one is refused; for the others a fresh order is placed.
Continue(old, o) ==
  /\ status[old] \in {"pending", "cancelled"}
  /\ ~ (status[old] = "pending" /\ hasInfo[old] /\ ~ expired[old])
  /\ CreateOrder(o, buyer[old])

\* epay.Create: the gateway takes the order.
Place(o) ==
  /\ create[o] = "placing" /\ ~ live[o]
  /\ live' = [live EXCEPT ![o] = TRUE]
  /\ UNCHANGED <<ratio, rowVars, expired, create, paid, acked, handler, grantee, balance, faults>>

\* Its answer is saved and shown to the user; a failing save does not matter.
Show(o) ==
  /\ create[o] = "placing" /\ live[o]
  /\ create' = [create EXCEPT ![o] = "shown"]
  /\ \/ hasInfo' = [hasInfo EXCEPT ![o] = TRUE] /\ UNCHANGED faults
     \/ Fault /\ UNCHANGED hasInfo
  /\ UNCHANGED <<ratio, status, buyer, points, expired, gatewayVars, handler, grantee, balance>>

\* The gateway refuses, or its answer is lost: the order is cancelled, whatever
\* its status.
PlaceFails(o) ==
  /\ create[o] = "placing"
  /\ create' = [create EXCEPT ![o] = "failed"]
  /\ \/ status' = [status EXCEPT ![o] = "cancelled"] /\ UNCHANGED faults
     \/ Fault /\ UNCHANGED status
  /\ UNCHANGED <<ratio, buyer, points, hasInfo, expired, gatewayVars, handler, grantee, balance>>

\* The TTL of 30 minutes passes.
Age(o) ==
  /\ status[o] # "none" /\ ~ expired[o]
  /\ Late \/ ~ paid[o] \/ acked[o]
  /\ expired' = [expired EXCEPT ![o] = TRUE]
  /\ UNCHANGED <<ratio, rowVars, create, gatewayVars, handler, grantee, balance, faults>>

\* Mutant of ExpirePending: the status is not part of the condition.
ExpireAny ==
  /\ \E o \in Orders : status[o] # "none" /\ expired[o]
  /\ status' = [o \in Orders |-> IF status[o] # "none" /\ expired[o] THEN "cancelled" ELSE status[o]]
  /\ UNCHANGED <<ratio, buyer, points, hasInfo, expired, create, gatewayVars, handler, grantee, balance, faults>>

\* Mutant of ExpirePending: only orders with a code are looked at.
ExpireShown ==
  /\ \E o \in Orders : status[o] = "pending" /\ hasInfo[o] /\ expired[o]
  /\ status' = [o \in Orders |-> IF status[o] = "pending" /\ hasInfo[o] /\ expired[o] THEN "cancelled" ELSE status[o]]
  /\ UNCHANGED <<ratio, buyer, points, hasInfo, expired, create, gatewayVars, handler, grantee, balance, faults>>

\* ExpirePending, from the maintenance sweep: one UPDATE.
ExpirePending ==
  /\ \E o \in Orders : status[o] = "pending" /\ expired[o]
  /\ status' = [o \in Orders |-> IF status[o] = "pending" /\ expired[o] THEN "cancelled" ELSE status[o]]
  /\ UNCHANGED <<ratio, buyer, points, hasInfo, expired, create, gatewayVars, handler, grantee, balance, faults>>

-----------------------------------------------------------------------------
(* The gateway and its notifications.                                      *)

\* The user pays with the code that was shown.
Pay(o) ==
  /\ live[o] /\ create[o] = "shown" /\ ~ paid[o]
  /\ Late \/ ~ expired[o]
  /\ paid' = [paid EXCEPT ![o] = TRUE]
  /\ UNCHANGED <<ratio, rowVars, expired, create, live, acked, handler, grantee, balance, faults>>

\* The gateway repeats its notification until it is acknowledged; the handler
\* verifies it and reads the order.
Notify(h, o) ==
  /\ handler[h].pc = "idle"
  /\ paid[o] /\ ~ acked[o]
  /\ handler' = [handler EXCEPT ![h] = [order |-> o, pc |-> "mark"]]
  /\ UNCHANGED <<ratio, rowVars, expired, create, gatewayVars, grantee, balance, faults>>

\* The answer "success", and "fail".
Acknowledge(h) ==
  /\ acked' = [acked EXCEPT ![handler[h].order] = TRUE]
  /\ handler' = [handler EXCEPT ![h] = Idle]
Refuse(h) ==
  /\ Fault
  /\ handler' = [handler EXCEPT ![h] = Idle]
  /\ UNCHANGED acked

\* MarkPaid changes a pending order only; otherwise there is nothing to do.
MarkPaid(h) ==
  LET o == handler[h].order IN
  /\ handler[h].pc = "mark"
  /\ \/ /\ status[o] = "pending"
        /\ status' = [status EXCEPT ![o] = "paid"]
        /\ handler' = [handler EXCEPT ![h].pc = "credit"]
        /\ UNCHANGED <<acked, faults>>
     \/ /\ status[o] # "pending"
        /\ Acknowledge(h)
        /\ UNCHANGED <<status, faults>>
     \/ Refuse(h) /\ UNCHANGED status
  /\ UNCHANGED <<ratio, buyer, points, hasInfo, expired, create, live, paid, grantee, balance>>

\* Mutant of Credit: the ratio of today.
CreditToday(h) ==
  LET o == handler[h].order  u == buyer[handler[h].order] IN
  /\ handler[h].pc = "credit"
  /\ grantee' = [grantee EXCEPT ![o] = u]
  /\ balance' = [balance EXCEPT ![u] = @ + ratio]
  /\ Acknowledge(h)
  /\ UNCHANGED <<ratio, rowVars, expired, create, live, paid, faults>>

\* The points of the order are added to its user's balance.
Credit(h) ==
  LET o == handler[h].order  u == buyer[handler[h].order] IN
  /\ handler[h].pc = "credit"
  /\ \/ /\ grantee' = [grantee EXCEPT ![o] = u]
        /\ balance' = [balance EXCEPT ![u] = @ + points[o]]
        /\ Acknowledge(h)
        /\ UNCHANGED faults
     \/ Refuse(h) /\ UNCHANGED <<grantee, balance>>
  /\ UNCHANGED <<ratio, rowVars, expired, create, live, paid>>

\* The process dies; the gateway got no answers.
Crash ==
  /\ Fault
  /\ handler' = [h \in Handlers |-> Idle]
  /\ create' = [o \in Orders |-> IF create[o] = "placing" THEN "dead" ELSE create[o]]
  /\ UNCHANGED <<ratio, rowVars, expired, gatewayVars, grantee, balance>>

-----------------------------------------------------------------------------
HandlerStep(h) == MarkPaid(h) \/ Credit(h)

PayNext ==
  \/ \E r \in Ratios : SaveSettings(r)
  \/ \E o \in Orders :
       \/ \E u \in Users : CreateOrder(o, u)
       \/ \E old \in Orders : Continue(old, o)
       \/ Place(o) \/ Show(o) \/ PlaceFails(o) \/ Age(o) \/ Pay(o)
       \/ \E h \in Handlers : Notify(h, o)
  \/ \E h \in Handlers : HandlerStep(h)
  \/ ExpirePending
  \/ Crash

PaySpec == PayInit /\ [][PayNext]_payVars

\* Time passes and the sweep runs.
PayFairSpec == PaySpec /\ WF_payVars(ExpirePending) /\ \A o \in Orders : WF_payVars(Age(o))

-----------------------------------------------------------------------------
\* An order is credited at most once, to the user who placed it, with the points
\* it was placed for ("a duplicate notify can never double-credit",
\* repo/order_repo.go:88), whatever notifications overlap and settings change.
Once == INSTANCE CreditOnce WITH Claims <- Orders, worth <- points, Worths <- Nat
ImplementsCreditOnce == Once!OnceSpec

\* No credits without money, and a credited order stays paid: neither the expiry
\* nor a failing CreateOrder, which cancels whatever it finds, takes it back.
CreditsArePaidFor ==
  \A o \in Orders : grantee[o] # Nobody => paid[o] /\ status[o] = "paid"

\* "Idempotent callback auto-credits" (README.en.md:114): when the gateway is told
\* to stop notifying, every user has what was paid for, or is about to.
AckedIsCredited ==
  \A o \in Orders : acked[o] =>
    \/ grantee[o] # Nobody
    \/ \E h \in Handlers : handler[h] = [order |-> o, pc |-> "credit"]

\* An order marked paid has been credited, or is about to be (README.en.md:114).
MarkedIsCredited ==
  \A o \in Orders : status[o] = "paid" =>
    \/ grantee[o] # Nobody
    \/ \E h \in Handlers : handler[h] = [order |-> o, pc |-> "credit"]

\* No order stays pending, also one whose CreateOrder died half-way.
OrderSettles == \A o \in Orders : (status[o] = "pending") ~> (status[o] # "pending")
=============================================================================

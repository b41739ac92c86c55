---------------------------- MODULE CreditsProofs ----------------------------
(***************************************************************************)
(* Proofs about the two ways credits come in: for any number of orders,    *)
(* overlapping notifications, faults and changes of the settings an order  *)
(* is credited at most once and only for money; for any codes, users,      *)
(* overlapping requests, deletions and faults a code is credited once, and *)
(* a marketing batch once per user while no code is deleted.               *)
(***************************************************************************)
EXTENDS Payments, Cdk, TLAPS

-----------------------------------------------------------------------------
(* Recharge orders.                                                        *)

\* What is true of an order that does not exist, and of one that does.
RowInv(o) ==
  /\ status[o] = "none" => create[o] = "none" /\ ~ paid[o] /\ grantee[o] = Nobody
  /\ status[o] # "none" => buyer[o] \in Users

\* Money comes in for a code that was shown, which ends CreateOrder; only a paid
\* order is marked, and only a marked one credited.
MoneyInv(o) ==
  /\ paid[o] => create[o] = "shown"
  /\ status[o] = "paid" => paid[o]
  /\ grantee[o] # Nobody => status[o] = "paid"

\* A handler is about a paid order; the one that marked it is the only one to
\* credit it.
HandlerInv(h) ==
  LET o == handler[h].order IN
  /\ handler[h].pc # "idle" => o \in Orders /\ paid[o]
  /\ handler[h].pc = "credit" =>
       /\ status[o] = "paid" /\ grantee[o] = Nobody
       /\ \A k \in Handlers : (handler[k].pc = "credit" /\ handler[k].order = o) => k = h

PayInv ==
  /\ PayTypeOK
  /\ \A o \in Orders : RowInv(o) /\ MoneyInv(o)
  /\ \A h \in Handlers : HandlerInv(h)

LEMMA PayInitially == PayInit => PayInv
BY PaymentsAssumption DEF PayInit, PayInv, PayTypeOK, RowInv, MoneyInv, HandlerInv, Idle

LEMMA PayStep == PayInv /\ [PayNext]_payVars => PayInv'
<1> SUFFICES ASSUME PayInv, [PayNext]_payVars PROVE PayInv'
  OBVIOUS
<1> USE PaymentsAssumption DEF PayInv, PayTypeOK, RowInv, MoneyInv, HandlerInv, rowVars, gatewayVars, Fault, Idle
<1>1. ASSUME NEW r \in Ratios, SaveSettings(r) PROVE PayInv'
  BY <1>1 DEF SaveSettings
<1>2. ASSUME NEW o \in Orders, NEW u \in Users, CreateOrder(o, u) PROVE PayInv'
  BY <1>2 DEF CreateOrder
<1>3. ASSUME NEW o \in Orders, NEW old \in Orders, Continue(old, o) PROVE PayInv'
  BY <1>2, <1>3 DEF Continue
<1>4. ASSUME NEW o \in Orders, Place(o) PROVE PayInv'
  BY <1>4 DEF Place
<1>5. ASSUME NEW o \in Orders, Show(o) PROVE PayInv'
  <2>1. PayTypeOK'
    <3>0. hasInfo' = [hasInfo EXCEPT ![o] = TRUE] \/ hasInfo' = hasInfo
      BY <1>5, Zenon DEF Show
    <3>1. hasInfo' \in [Orders -> BOOLEAN] /\ faults' \in Nat
      <4>0. faults' \in Nat
        BY <1>5 DEF Show
      <4>1. CASE hasInfo' = [hasInfo EXCEPT ![o] = TRUE]
        BY <4>0, <4>1
      <4>2. CASE hasInfo' = hasInfo
        BY <4>0, <4>2
      <4> QED
        BY <3>0, <4>1, <4>2
    <3>2. create' \in [Orders -> {"none", "placing", "shown", "failed", "dead"}]
      BY <1>5 DEF Show
    <3>3. UNCHANGED <<ratio, status, buyer, points, expired, live, paid, acked, handler, grantee, balance>>
      BY <1>5 DEF Show
    <3> QED
      BY <3>1, <3>2, <3>3
  <2>2. \A p \in Orders : RowInv(p)' /\ MoneyInv(p)'
    BY <1>5 DEF Show
  <2>3. \A h \in Handlers : HandlerInv(h)'
    BY <1>5 DEF Show
  <2> QED
    BY <2>1, <2>2, <2>3
<1>6. ASSUME NEW o \in Orders, PlaceFails(o) PROVE PayInv'
  <2>1. PayTypeOK'
    BY <1>6 DEF PlaceFails
  <2>2. \A p \in Orders : RowInv(p)' /\ MoneyInv(p)'
    BY <1>6 DEF PlaceFails
  <2>3. \A h \in Handlers : HandlerInv(h)'
    BY <1>6 DEF PlaceFails
  <2> QED
    BY <2>1, <2>2, <2>3
<1>7. ASSUME NEW o \in Orders, Age(o) PROVE PayInv'
  BY <1>7 DEF Age
<1>8. ASSUME NEW o \in Orders, Pay(o) PROVE PayInv'
  BY <1>8 DEF Pay
<1>9. ASSUME NEW o \in Orders, NEW h \in Handlers, Notify(h, o) PROVE PayInv'
  BY <1>9 DEF Notify
<1>10. ASSUME NEW h \in Handlers, MarkPaid(h) PROVE PayInv'
  <2> DEFINE o == handler[h].order
  <2>0. handler[h].pc = "mark" /\ o \in Orders /\ paid[o]
    BY <1>10 DEF MarkPaid
  <2>1. CASE /\ status[o] = "pending"
             /\ status' = [status EXCEPT ![o] = "paid"]
             /\ handler' = [handler EXCEPT ![h].pc = "credit"]
             /\ UNCHANGED <<acked, faults>>
    <3>1. UNCHANGED <<ratio, buyer, points, hasInfo, expired, create, live, paid, grantee, balance>>
      BY <1>10 DEF MarkPaid
    <3>2. grantee[o] = Nobody
      BY <2>0, <2>1
    <3>3. \A k \in Handlers : handler[k].pc = "credit" => handler[k].order # o
      BY <2>1
    <3>4. handler'[h] = [order |-> o, pc |-> "credit"] /\ \A k \in Handlers : k # h => handler'[k] = handler[k]
      BY <2>1
    <3>5. PayTypeOK'
      BY <2>0, <2>1, <3>1
    <3>6. \A p \in Orders : RowInv(p)' /\ MoneyInv(p)'
      BY <2>0, <2>1, <3>1
    <3>7. \A k \in Handlers : HandlerInv(k)'
      BY <2>0, <2>1, <3>1, <3>2, <3>3, <3>4
    <3> QED
      BY <3>5, <3>6, <3>7
  <2>2. CASE UNCHANGED status /\ handler' = [handler EXCEPT ![h] = Idle]
    <3>1. UNCHANGED <<ratio, buyer, points, hasInfo, expired, create, live, paid, grantee, balance>>
      BY <1>10 DEF MarkPaid
    <3>2. faults' \in Nat /\ (acked' = acked \/ acked' = [acked EXCEPT ![o] = TRUE])
      BY <1>10 DEF MarkPaid, Acknowledge, Refuse
    <3>3. PayTypeOK'
      <4>1. acked' \in [Orders -> BOOLEAN] /\ \A p \in Orders : acked'[p] => paid'[p]
        <5>1. CASE acked' = [acked EXCEPT ![o] = TRUE]
          BY <2>0, <3>1, <3>2, <5>1
        <5>2. CASE acked' = acked
          BY <2>0, <3>1, <3>2, <5>2
        <5> QED
          BY <2>0, <3>1, <3>2, <5>1, <5>2, Zenon
      <4>2. handler' \in [Handlers -> [order : Orders \cup {NoOrder}, pc : {"idle", "mark", "credit"}]]
        BY <2>2
      <4>3. ratio' \in Nat /\ status' \in [Orders -> {"none", "pending", "paid", "cancelled"}]
             /\ buyer' \in [Orders -> Users \cup {Nobody}] /\ points' \in [Orders -> Nat]
             /\ hasInfo' \in [Orders -> BOOLEAN] /\ expired' \in [Orders -> BOOLEAN]
             /\ create' \in [Orders -> {"none", "placing", "shown", "failed", "dead"}]
             /\ live' \in [Orders -> BOOLEAN] /\ paid' \in [Orders -> BOOLEAN]
             /\ grantee' \in [Orders -> Users \cup {Nobody}] /\ balance' \in [Users -> Nat]
        BY <2>2, <3>1
      <4> QED
        BY <3>2, <4>1, <4>2, <4>3, Zenon
    <3>4. \A p \in Orders : RowInv(p)' /\ MoneyInv(p)'
      BY <2>2, <3>1
    <3>5. \A k \in Handlers : HandlerInv(k)'
      BY <2>2, <3>1
    <3> QED
      BY <3>3, <3>4, <3>5
  <2> QED
    BY <1>10, <2>1, <2>2 DEF MarkPaid, Acknowledge, Refuse
<1>11. ASSUME NEW h \in Handlers, Credit(h) PROVE PayInv'
  <2> DEFINE o == handler[h].order
  <2>1. o \in Orders /\ buyer[o] \in Users /\ paid[o] /\ status[o] = "paid"
    BY <1>11 DEF Credit
  <2>2. UNCHANGED <<ratio, rowVars, expired, create, live, paid>> /\ handler' = [handler EXCEPT ![h] = Idle]
    BY <1>11 DEF Credit, Acknowledge, Refuse
  <2>3. faults' \in Nat /\ (acked' = acked \/ acked' = [acked EXCEPT ![o] = TRUE])
    BY <1>11 DEF Credit, Acknowledge, Refuse
  <2>4. \/ grantee' = [grantee EXCEPT ![o] = buyer[o]] /\ balance' = [balance EXCEPT ![buyer[o]] = @ + points[o]]
        \/ UNCHANGED <<grantee, balance>>
    BY <1>11 DEF Credit
  <2>5. balance' \in [Users -> Nat] /\ grantee' \in [Orders -> Users \cup {Nobody}]
    <3>1. points[o] \in Nat
      BY <2>1
    <3> QED
      BY <2>1, <2>4, <3>1
  <2>6. PayTypeOK'
    <3>1. acked' \in [Orders -> BOOLEAN] /\ \A p \in Orders : acked'[p] => paid'[p]
      <4>1. CASE acked' = [acked EXCEPT ![o] = TRUE]
        BY <2>1, <2>2, <2>3, <4>1
      <4>2. CASE acked' = acked
        BY <2>1, <2>2, <2>3, <4>2
      <4> QED
        BY <2>1, <2>2, <2>3, <4>1, <4>2, Zenon
    <3>2. handler' \in [Handlers -> [order : Orders \cup {NoOrder}, pc : {"idle", "mark", "credit"}]]
      BY <2>2
    <3>3. ratio' \in Nat /\ status' \in [Orders -> {"none", "pending", "paid", "cancelled"}]
           /\ buyer' \in [Orders -> Users \cup {Nobody}] /\ points' \in [Orders -> Nat]
           /\ hasInfo' \in [Orders -> BOOLEAN] /\ expired' \in [Orders -> BOOLEAN]
           /\ create' \in [Orders -> {"none", "placing", "shown", "failed", "dead"}]
           /\ live' \in [Orders -> BOOLEAN] /\ paid' \in [Orders -> BOOLEAN]
      BY <2>2
    <3> QED
      BY <2>3, <2>5, <3>1, <3>2, <3>3, Zenon
  <2>7. \A p \in Orders : RowInv(p)' /\ MoneyInv(p)'
    BY <2>1, <2>2, <2>4
  <2>8. \A k \in Handlers : HandlerInv(k)'
    <3>1. \A k \in Handlers : handler'[k].pc = "credit" => k # h /\ handler'[k] = handler[k] /\ handler[k].order # o
      BY <1>11, <2>2 DEF Credit
    <3>2. \A k \in Handlers : handler'[k].pc = "mark" => handler'[k] = handler[k]
      BY <2>2
    <3> QED
      BY <2>1, <2>2, <2>4, <3>1, <3>2
  <2> QED
    BY <2>6, <2>7, <2>8
<1>12. CASE ExpirePending
  BY <1>12 DEF ExpirePending
<1>13. CASE Crash
  BY <1>13 DEF Crash
<1>14. CASE UNCHANGED payVars
  BY <1>14 DEF payVars
<1> QED
  BY <1>1, <1>2, <1>3, <1>4, <1>5, <1>6, <1>7, <1>8, <1>9, <1>10, <1>11, <1>12, <1>13, <1>14
  DEF PayNext, HandlerStep

\* Every variable keeps its type, and the gateway is answered about paid orders
\* only (HandleNotify).
THEOREM PaymentTypes == PaySpec => []PayTypeOK
<1>1. PayInv => PayTypeOK
  BY DEF PayInv
<1> QED
  BY <1>1, PayInitially, PayStep, PTL DEF PaySpec

\* Credits are given for money, and what was credited stays paid, whatever expires,
\* fails or overlaps.
THEOREM CreditsPaidFor == PaySpec => []CreditsArePaidFor
<1>1. PayInv => CreditsArePaidFor
  BY DEF PayInv, MoneyInv, CreditsArePaidFor
<1> QED
  BY <1>1, PayInitially, PayStep, PTL DEF PaySpec

\* An order is credited at most once, with the points it was placed for
\* (order_repo.go:88).
THEOREM OrdersCreditOnce == PaySpec => ImplementsCreditOnce
<1> USE PaymentsAssumption
<1>1. PayInit => Once!OnceInit
  BY DEF PayInit, Once!OnceInit
<1>2. ASSUME PayInv, [PayNext]_payVars PROVE [Once!OnceNext]_(Once!onceVars)
  <2> USE <1>2 DEF PayInv, PayTypeOK, RowInv, rowVars, gatewayVars, Once!onceVars
  <2>1. ASSUME NEW o \in Orders, NEW u \in Users, CreateOrder(o, u)
        PROVE  Once!OnceNext
    <3>1. Once!Price(o)
      BY <2>1 DEF CreateOrder, Once!Price
    <3> QED
      BY <3>1 DEF Once!OnceNext
  <2>2. ASSUME NEW o \in Orders, NEW old \in Orders, Continue(old, o) PROVE Once!OnceNext
    BY <2>1, <2>2 DEF Continue
  <2>3. ASSUME NEW h \in Handlers, Credit(h)
        PROVE  Once!OnceNext \/ UNCHANGED Once!onceVars
    <3> DEFINE o == handler[h].order
    <3>1. o \in Orders /\ grantee[o] = Nobody /\ buyer[o] \in Users
      BY <2>3 DEF Credit, HandlerInv
    <3>2. CASE grantee' = [grantee EXCEPT ![o] = buyer[o]]
               /\ balance' = [balance EXCEPT ![buyer[o]] = @ + points[o]]
      <4>1. Once!Grant(o, buyer[o])
        BY <2>3, <3>1, <3>2 DEF Credit, Once!Grant
      <4> QED
        BY <4>1, <3>1 DEF Once!OnceNext
    <3>3. CASE UNCHANGED <<grantee, balance>>
      BY <2>3, <3>3 DEF Credit
    <3> QED
      BY <2>3, <3>2, <3>3 DEF Credit
  <2>4. ASSUME NEW r \in Ratios, SaveSettings(r) PROVE UNCHANGED Once!onceVars
    BY <2>4 DEF SaveSettings
  <2>5. ASSUME NEW o \in Orders, Place(o) \/ Show(o) \/ PlaceFails(o) \/ Age(o) \/ Pay(o)
        PROVE  UNCHANGED Once!onceVars
    BY <2>5 DEF Place, Show, PlaceFails, Age, Pay
  <2>6. ASSUME NEW o \in Orders, NEW h \in Handlers, Notify(h, o) PROVE UNCHANGED Once!onceVars
    BY <2>6 DEF Notify
  <2>7. ASSUME NEW h \in Handlers, MarkPaid(h) PROVE UNCHANGED Once!onceVars
    BY <2>7 DEF MarkPaid
  <2>8. ASSUME ExpirePending \/ Crash \/ UNCHANGED payVars PROVE UNCHANGED Once!onceVars
    BY <2>8 DEF ExpirePending, Crash, payVars
  <2> QED
    BY <2>1, <2>2, <2>3, <2>4, <2>5, <2>6, <2>7, <2>8 DEF PayNext, HandlerStep
<1> QED
  BY <1>1, <1>2, PayInitially, PayStep, PTL DEF PaySpec, ImplementsCreditOnce, Once!OnceSpec

-----------------------------------------------------------------------------
(* Redeem codes.                                                           *)

CodeInv(c) ==
  /\ codeStatus[c] = "active" => redeemedBy[c] = NoRedeemer
  /\ creditedTo[c] # NoRedeemer => creditedTo[c] = redeemedBy[c]
  /\ c \in recorded => creditedTo[c] # NoRedeemer

\* Who holds the row lock past the checks has an active code before it; who is to
\* credit a code is the only one, and nobody has been credited.
RequestInv(r) ==
  LET c == request[r].code  u == request[r].user IN
  /\ request[r].pc # "idle" => c \in Codes /\ u \in Redeemers
  /\ request[r].pc = "locked" => codeStatus[c] # "deleted"
  /\ request[r].pc = "counted" => codeStatus[c] = "active"
  /\ request[r].pc = "credit" =>
       /\ redeemedBy[c] = u /\ creditedTo[c] = NoRedeemer /\ codeStatus[c] # "active"
       /\ \A q \in Requests : (request[q].pc = "credit" /\ request[q].code = c) => q = r
  /\ request[r].pc = "record" => creditedTo[c] # NoRedeemer

\* The partial unique index.
UniqueIndex ==
  \A c, d \in Marketing :
    (/\ Batch[c] = Batch[d] /\ redeemedBy[c] = redeemedBy[d] /\ redeemedBy[c] # NoRedeemer
     /\ codeStatus[c] # "deleted" /\ codeStatus[d] # "deleted") => c = d

Deletions == deletes <= MaxDeletes /\ (deletes = 0 => \A c \in Codes : codeStatus[c] # "deleted")

CdkInv ==
  /\ CdkTypeOK
  /\ \A c \in Codes : CodeInv(c)
  /\ \A r \in Requests : RequestInv(r)
  /\ UniqueIndex
  /\ Deletions

LEMMA CdkInitially == CdkInit => CdkInv
<1> SUFFICES ASSUME CdkInit PROVE CdkInv
  OBVIOUS
<1> USE CdkAssumption DEF CdkInit, FreeRequest
<1>1. CdkTypeOK
  BY DEF CdkTypeOK, Phases
<1>2. \A c \in Codes : CodeInv(c)
  BY DEF CodeInv
<1>3. \A r \in Requests : RequestInv(r)
  BY DEF RequestInv
<1>4. UniqueIndex /\ Deletions
  BY DEF UniqueIndex, Deletions
<1> QED
  BY <1>1, <1>2, <1>3, <1>4 DEF CdkInv

\* Each step preserves the types, the codes' and the requests' invariants.
LEMMA CdkStep == CdkInv /\ [CdkNext]_cdkVars => CdkInv'
<1> SUFFICES ASSUME CdkInv, [CdkNext]_cdkVars PROVE CdkInv'
  OBVIOUS
<1> USE CdkAssumption DEF CdkInv, CdkFault, codeVars, Give, To, Unlock, FreeRequest
<1>1. ASSUME NEW r \in Requests, NEW u \in Redeemers, NEW c \in Codes, LockCode(r, u, c) PROVE CdkInv'
  <2>1. CdkTypeOK'
    BY <1>1 DEF CdkTypeOK, Phases, RequestInv, LockCode
  <2>2. \A k \in Codes : CodeInv(k)'
    BY <1>1 DEF CdkTypeOK, Phases, CodeInv, RequestInv, LockCode
  <2>3. \A q \in Requests : RequestInv(q)'
    BY <1>1 DEF CdkTypeOK, Phases, CodeInv, RequestInv, LockCode
  <2>4. UniqueIndex'
    BY <1>1 DEF CdkTypeOK, Phases, UniqueIndex, RequestInv, LockCode
  <2>5. Deletions'
    BY <1>1 DEF CdkTypeOK, Phases, Deletions, RequestInv, LockCode
  <2> QED
    BY <2>1, <2>2, <2>3, <2>4, <2>5
<1>2. ASSUME NEW r \in Requests, CheckCode(r) PROVE CdkInv'
  <2> DEFINE c == request[r].code
  <2>0. /\ request[r].pc = "locked" /\ c \in Codes
        /\ UNCHANGED <<enabled, codeVars, creditedTo, wallet, recorded, deletes, cdkFaults>>
        /\ \/ request' = [request EXCEPT ![r] = FreeRequest] /\ rowLock' = [rowLock EXCEPT ![c] = NoRequest]
           \/ request' = [request EXCEPT ![r].pc = "counted"] /\ rowLock' = rowLock
    BY <1>2 DEF CdkTypeOK, Phases, RequestInv, CheckCode
  <2>1. CdkTypeOK'
    <3>1. CASE request' = [request EXCEPT ![r] = FreeRequest] /\ rowLock' = [rowLock EXCEPT ![c] = NoRequest]
      BY <2>0, <3>1 DEF CdkTypeOK, Phases
    <3>2. CASE request' = [request EXCEPT ![r].pc = "counted"] /\ rowLock' = rowLock
      BY <2>0, <3>2 DEF CdkTypeOK, Phases
    <3> QED
      BY <2>0, <3>1, <3>2
  <2>2. \A k \in Codes : CodeInv(k)'
    BY <1>2 DEF CdkTypeOK, Phases, CodeInv, RequestInv, CheckCode
  <2>3. \A q \in Requests : RequestInv(q)'
    <3>1. \A q \in Requests : RequestInv(q)
      BY DEF RequestInv
    <3>2. CASE request' = [request EXCEPT ![r] = FreeRequest]
      BY <2>0, <3>1, <3>2 DEF CdkTypeOK, RequestInv
    <3>3. CASE request' = [request EXCEPT ![r].pc = "counted"] /\ codeStatus[c] = "active"
      BY <2>0, <3>1, <3>3 DEF CdkTypeOK, RequestInv
    <3>4. request' = [request EXCEPT ![r].pc = "counted"] => codeStatus[c] = "active"
      BY <1>2, <2>0, <3>1 DEF CdkTypeOK, RequestInv, CheckCode
    <3> QED
      BY <2>0, <3>2, <3>3, <3>4
  <2>4. UniqueIndex'
    BY <1>2 DEF CdkTypeOK, Phases, UniqueIndex, RequestInv, CheckCode
  <2>5. Deletions'
    BY <1>2 DEF CdkTypeOK, Phases, Deletions, RequestInv, CheckCode
  <2> QED
    BY <2>1, <2>2, <2>3, <2>4, <2>5
<1>3. ASSUME NEW r \in Requests, SaveCode(r) PROVE CdkInv'
  <2> DEFINE c == request[r].code  u == request[r].user
  <2>0. /\ c \in Codes /\ u \in Redeemers /\ request[r].pc = "counted"
        /\ rowLock' = [rowLock EXCEPT ![c] = NoRequest]
        /\ UNCHANGED <<enabled, amount, creditedTo, wallet, recorded, deletes>>
    BY <1>3 DEF CdkTypeOK, RequestInv, SaveCode
  <2>1. CdkTypeOK'
    <3>1. CASE /\ codeStatus' = [codeStatus EXCEPT ![c] = "redeemed"]
               /\ redeemedBy' = [redeemedBy EXCEPT ![c] = u]
               /\ request' = [request EXCEPT ![r].pc = "credit"] /\ cdkFaults' = cdkFaults
      BY <2>0, <3>1 DEF CdkTypeOK, Phases
    <3>2. CASE /\ codeStatus' = codeStatus /\ redeemedBy' = redeemedBy
               /\ request' = [request EXCEPT ![r] = FreeRequest] /\ cdkFaults' \in {cdkFaults, cdkFaults + 1}
      BY <2>0, <3>2 DEF CdkTypeOK, Phases
    <3> QED
      BY <1>3, <3>1, <3>2 DEF SaveCode
  <2>2. \A k \in Codes : CodeInv(k)'
    BY <1>3 DEF CdkTypeOK, Phases, CodeInv, RequestInv, SaveCode, RedeemedIn
  <2>3. \A q \in Requests : RequestInv(q)'
    BY <1>3 DEF CdkTypeOK, Phases, CodeInv, RequestInv, SaveCode, RedeemedIn
  <2>4. UniqueIndex'
    BY <1>3 DEF CdkTypeOK, Phases, UniqueIndex, RequestInv, SaveCode, RedeemedIn
  <2>5. Deletions'
    BY <1>3 DEF CdkTypeOK, Phases, Deletions, RequestInv, SaveCode, RedeemedIn
  <2> QED
    BY <2>1, <2>2, <2>3, <2>4, <2>5
<1>4. ASSUME NEW r \in Requests, CreditCode(r) PROVE CdkInv'
  <2> DEFINE c == request[r].code  u == request[r].user
  <2>1. /\ c \in Codes /\ u \in Redeemers /\ request[r].pc = "credit"
        /\ redeemedBy[c] = u /\ codeStatus[c] # "active"
        /\ \A q \in Requests : (request[q].pc = "credit" /\ request[q].code = c) => q = r
    BY <1>4 DEF CreditCode, RequestInv
  <2>2. UNCHANGED <<enabled, amount, codeStatus, redeemedBy, rowLock, recorded, deletes>> /\ cdkFaults' \in Nat
    BY <1>4 DEF CreditCode, CdkTypeOK
  <2>3. CASE /\ creditedTo' = [creditedTo EXCEPT ![c] = u] /\ wallet' = [wallet EXCEPT ![u] = @ + amount[c]]
             /\ request' = [request EXCEPT ![r].pc = "record"]
    <3>1. CdkTypeOK'
      <4>1. amount[c] \in Nat
        BY <2>1 DEF CdkTypeOK
      <4>2. wallet' \in [Redeemers -> Nat] /\ creditedTo' \in [Codes -> Redeemers \cup {NoRedeemer}]
        BY <2>1, <2>3, <4>1 DEF CdkTypeOK
      <4>3. request' \in [Requests -> [user : Redeemers \cup {NoRedeemer}, code : Codes \cup {NoCode}, pc : Phases]]
        BY <2>3 DEF CdkTypeOK, Phases
      <4>4. \A d \in Codes, q \in Requests :
              rowLock[d] = q <=> (request'[q].code = d /\ request'[q].pc \in {"locked", "counted"})
        BY <2>1, <2>3 DEF CdkTypeOK, Phases
      <4> QED
        BY <2>2, <4>2, <4>3, <4>4 DEF CdkTypeOK
    <3>2. \A k \in Codes : CodeInv(k)'
      BY <2>1, <2>2, <2>3 DEF CdkTypeOK, CodeInv
    <3>3. \A q \in Requests : RequestInv(q)'
      BY <2>1, <2>2, <2>3 DEF CdkTypeOK, Phases, RequestInv
    <3>4. UniqueIndex' /\ Deletions'
      BY <2>2 DEF UniqueIndex, Deletions
    <3> QED
      BY <3>1, <3>2, <3>3, <3>4
  <2>4. CASE UNCHANGED <<creditedTo, wallet>> /\ request' = [request EXCEPT ![r] = FreeRequest]
    <3>1. CdkTypeOK'
      BY <2>1, <2>2, <2>4 DEF CdkTypeOK, Phases
    <3>2. \A k \in Codes : CodeInv(k)'
      BY <2>2, <2>4 DEF CdkTypeOK, CodeInv
    <3>3. \A q \in Requests : RequestInv(q)'
      BY <2>1, <2>2, <2>4 DEF CdkTypeOK, Phases, RequestInv
    <3>4. UniqueIndex' /\ Deletions'
      BY <2>2 DEF UniqueIndex, Deletions
    <3> QED
      BY <3>1, <3>2, <3>3, <3>4
  <2> QED
    BY <1>4, <2>3, <2>4 DEF CreditCode
<1>5. ASSUME NEW r \in Requests, RecordOrder(r) PROVE CdkInv'
  <2>1. CdkTypeOK'
    BY <1>5 DEF CdkTypeOK, Phases, RequestInv, RecordOrder
  <2>2. \A k \in Codes : CodeInv(k)'
    BY <1>5 DEF CdkTypeOK, Phases, CodeInv, RequestInv, RecordOrder
  <2>3. \A q \in Requests : RequestInv(q)'
    BY <1>5 DEF CdkTypeOK, Phases, CodeInv, RequestInv, RecordOrder
  <2>4. UniqueIndex'
    BY <1>5 DEF CdkTypeOK, Phases, UniqueIndex, RequestInv, RecordOrder
  <2>5. Deletions'
    BY <1>5 DEF CdkTypeOK, Phases, Deletions, RequestInv, RecordOrder
  <2> QED
    BY <2>1, <2>2, <2>3, <2>4, <2>5
<1>6. ASSUME NEW c \in Codes, DeleteCode(c) PROVE CdkInv'
  <2>1. CdkTypeOK'
    BY <1>6 DEF CdkTypeOK, Phases, RequestInv, DeleteCode
  <2>2. \A k \in Codes : CodeInv(k)'
    BY <1>6 DEF CdkTypeOK, Phases, CodeInv, RequestInv, DeleteCode
  <2>3. \A q \in Requests : RequestInv(q)'
    BY <1>6 DEF CdkTypeOK, Phases, CodeInv, RequestInv, DeleteCode
  <2>4. UniqueIndex'
    BY <1>6 DEF CdkTypeOK, Phases, UniqueIndex, RequestInv, DeleteCode
  <2>5. Deletions'
    BY <1>6 DEF CdkTypeOK, Phases, Deletions, RequestInv, DeleteCode
  <2> QED
    BY <2>1, <2>2, <2>3, <2>4, <2>5
<1>7. CASE SwitchRedeem
  <2>1. CdkTypeOK'
    BY <1>7 DEF CdkTypeOK, Phases, RequestInv, SwitchRedeem
  <2>2. \A k \in Codes : CodeInv(k)'
    BY <1>7 DEF CdkTypeOK, Phases, CodeInv, RequestInv, SwitchRedeem
  <2>3. \A q \in Requests : RequestInv(q)'
    BY <1>7 DEF CdkTypeOK, Phases, CodeInv, RequestInv, SwitchRedeem
  <2>4. UniqueIndex'
    BY <1>7 DEF CdkTypeOK, Phases, UniqueIndex, RequestInv, SwitchRedeem
  <2>5. Deletions'
    BY <1>7 DEF CdkTypeOK, Phases, Deletions, RequestInv, SwitchRedeem
  <2> QED
    BY <2>1, <2>2, <2>3, <2>4, <2>5
<1>8. CASE CrashCdk
  <2>1. CdkTypeOK'
    BY <1>8 DEF CdkTypeOK, Phases, RequestInv, CrashCdk
  <2>2. \A k \in Codes : CodeInv(k)'
    BY <1>8 DEF CdkTypeOK, Phases, CodeInv, RequestInv, CrashCdk
  <2>3. \A q \in Requests : RequestInv(q)'
    BY <1>8 DEF CdkTypeOK, Phases, CodeInv, RequestInv, CrashCdk
  <2>4. UniqueIndex'
    BY <1>8 DEF CdkTypeOK, Phases, UniqueIndex, RequestInv, CrashCdk
  <2>5. Deletions'
    BY <1>8 DEF CdkTypeOK, Phases, Deletions, RequestInv, CrashCdk
  <2> QED
    BY <2>1, <2>2, <2>3, <2>4, <2>5
<1>9. CASE UNCHANGED cdkVars
  <2>1. CdkTypeOK'
    BY <1>9 DEF CdkTypeOK, Phases, RequestInv, cdkVars
  <2>2. \A k \in Codes : CodeInv(k)'
    BY <1>9 DEF CdkTypeOK, Phases, CodeInv, RequestInv, cdkVars
  <2>3. \A q \in Requests : RequestInv(q)'
    BY <1>9 DEF CdkTypeOK, Phases, CodeInv, RequestInv, cdkVars
  <2>4. UniqueIndex'
    BY <1>9 DEF CdkTypeOK, Phases, UniqueIndex, RequestInv, cdkVars
  <2>5. Deletions'
    BY <1>9 DEF CdkTypeOK, Phases, Deletions, RequestInv, cdkVars
  <2> QED
    BY <2>1, <2>2, <2>3, <2>4, <2>5
<1> QED
  BY <1>1, <1>2, <1>3, <1>4, <1>5, <1>6, <1>7, <1>8, <1>9
  DEF CdkNext, RequestStep

\* Every variable keeps its type, and a row lock belongs to the transaction that
\* works on the code.
THEOREM CdkTypes == CdkSpec => []CdkTypeOK
<1>1. CdkInv => CdkTypeOK
  BY DEF CdkInv
<1> QED
  BY <1>1, CdkInitially, CdkStep, PTL DEF CdkSpec

\* A marketing batch gives one user one code as long as no code is deleted
\* (cdk_repo.go:109), however redemptions overlap.
THEOREM BatchOnce == CdkSpec => []OnePerBatch
<1>1. CdkInv => OnePerBatch
  BY CdkAssumption DEF CdkInv, CdkTypeOK, CodeInv, UniqueIndex, Deletions, OnePerBatch
<1> QED
  BY <1>1, CdkInitially, CdkStep, PTL DEF CdkSpec

\* The order list shows no redemption that was not credited (RecordCreditOrder).
THEOREM RecordsHold == CdkSpec => []RecordedIsCredited
<1>1. CdkInv => RecordedIsCredited
  BY DEF CdkInv, CdkTypeOK, CodeInv, RecordedIsCredited
<1> QED
  BY <1>1, CdkInitially, CdkStep, PTL DEF CdkSpec

\* A code is credited to one user, once (Redeem's row lock).
THEOREM CodesCreditOnce == CdkSpec => CdkImplementsCreditOnce
<1> USE CdkAssumption
<1>1. CdkInit => CodeOnce!OnceInit
  BY DEF CdkInit, CodeOnce!OnceInit
<1>2. ASSUME CdkInv, [CdkNext]_cdkVars PROVE [CodeOnce!OnceNext]_(CodeOnce!onceVars)
  <2> USE <1>2 DEF CdkInv, codeVars, CodeOnce!onceVars
  <2>1. ASSUME NEW r \in Requests, CreditCode(r) PROVE CodeOnce!OnceNext \/ UNCHANGED CodeOnce!onceVars
    <3> DEFINE c == request[r].code  u == request[r].user
    <3>1. c \in Codes /\ u \in Redeemers /\ creditedTo[c] = NoRedeemer
      BY <2>1 DEF CreditCode, RequestInv
    <3>2. CASE creditedTo' = [creditedTo EXCEPT ![c] = u] /\ wallet' = [wallet EXCEPT ![u] = @ + amount[c]]
      <4>1. CodeOnce!Grant(c, u)
        BY <2>1, <3>1, <3>2 DEF CreditCode, CodeOnce!Grant
      <4> QED
        BY <4>1, <3>1 DEF CodeOnce!OnceNext
    <3>3. CASE UNCHANGED <<creditedTo, wallet>>
      BY <2>1, <3>3 DEF CreditCode
    <3> QED
      BY <2>1, <3>2, <3>3 DEF CreditCode
  <2>2. ASSUME NEW r \in Requests, CheckCode(r) \/ SaveCode(r) \/ RecordOrder(r)
        PROVE  UNCHANGED CodeOnce!onceVars
    BY <2>2 DEF CheckCode, SaveCode, RecordOrder
  <2>3. ASSUME NEW r \in Requests, NEW u \in Redeemers, NEW c \in Codes, LockCode(r, u, c)
        PROVE  UNCHANGED CodeOnce!onceVars
    BY <2>3 DEF LockCode
  <2>4. ASSUME NEW c \in Codes, DeleteCode(c) PROVE UNCHANGED CodeOnce!onceVars
    BY <2>4 DEF DeleteCode
  <2>5. ASSUME SwitchRedeem \/ CrashCdk \/ UNCHANGED cdkVars PROVE UNCHANGED CodeOnce!onceVars
    BY <2>5 DEF SwitchRedeem, CrashCdk, cdkVars
  <2> QED
    BY <2>1, <2>2, <2>3, <2>4, <2>5 DEF CdkNext, RequestStep
<1> QED
  BY <1>1, <1>2, CdkInitially, CdkStep, PTL DEF CdkSpec, CdkImplementsCreditOnce, CodeOnce!OnceSpec
==============================================================================

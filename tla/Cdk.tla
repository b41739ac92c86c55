-------------------------------- MODULE Cdk --------------------------------
(***************************************************************************)
(* Redeem codes (service/cdk.go, repo/cdk_repo.go): the transaction that   *)
(* marks a code redeemed under its row lock, with the count and the        *)
(* partial unique index that keep a marketing batch to one code per user,  *)
(* the second transaction that credits it, the record of it among the      *)
(* orders, and the administrator who deletes codes.  READ COMMITTED: a     *)
(* count sees what is committed.  Implements CreditOnce.                   *)
(***************************************************************************)
EXTENDS Naturals, FiniteSets

CONSTANTS
  Redeemers,      \* users who enter codes
  NoRedeemer,
  Codes,
  Batch,          \* batch_id of each code (one per Generate)
  Marketing,      \* the codes of type marketing
  Amounts,        \* what a code may be worth
  Requests,       \* calls of Redeem
  NoRequest, NoCode,
  MaxDeletes,     \* bound on deletions of codes
  MaxCdkFaults    \* bound on crashes and failing statements

ASSUME CdkAssumption ==
  /\ NoRedeemer \notin Redeemers
  /\ NoCode \notin Codes
  /\ NoRequest \notin Requests
  /\ Marketing \subseteq Codes
  /\ Amounts \subseteq Nat
  /\ MaxDeletes \in Nat
  /\ MaxCdkFaults \in Nat

VARIABLES
  enabled,        \* credits.cdk_redeem_enabled
  amount,         \* amount of each code, as generated
  codeStatus,     \* status of a code: active, redeemed or deleted
  redeemedBy,     \* column redeemed_by
  rowLock,        \* the transaction that holds the code's row lock
  request,        \* [user, code, pc] of each call
  creditedTo,     \* who a code was credited to
  wallet,         \* users.credits, as far as it comes from codes
  recorded,       \* codes with an order row of source cdk
  deletes, cdkFaults

codeVars == <<amount, codeStatus, redeemedBy>>
cdkVars == <<enabled, codeVars, rowLock, request, creditedTo, wallet, recorded, deletes, cdkFaults>>

Phases == {"idle", "locked", "counted", "credit", "record"}

CdkTypeOK ==
  /\ enabled \in BOOLEAN
  /\ amount \in [Codes -> Amounts]
  /\ codeStatus \in [Codes -> {"active", "redeemed", "deleted"}]
  /\ redeemedBy \in [Codes -> Redeemers \cup {NoRedeemer}]
  /\ rowLock \in [Codes -> Requests \cup {NoRequest}]
  /\ request \in [Requests -> [user : Redeemers \cup {NoRedeemer}, code : Codes \cup {NoCode}, pc : Phases]]
  /\ creditedTo \in [Codes -> Redeemers \cup {NoRedeemer}]
  /\ wallet \in [Redeemers -> Nat]
  /\ recorded \subseteq Codes
  /\ deletes \in Nat
  /\ cdkFaults \in Nat
  /\ \A c \in Codes, r \in Requests :
       rowLock[c] = r <=> (request[r].code = c /\ request[r].pc \in {"locked", "counted"})

FreeRequest == [user |-> NoRedeemer, code |-> NoCode, pc |-> "idle"]

\* Generate has made the codes.
CdkInit ==
  /\ enabled = TRUE
  /\ amount \in [Codes -> Amounts]
  /\ codeStatus = [c \in Codes |-> "active"]
  /\ redeemedBy = [c \in Codes |-> NoRedeemer]
  /\ rowLock = [c \in Codes |-> NoRequest]
  /\ request = [r \in Requests |-> FreeRequest]
  /\ creditedTo = [c \in Codes |-> NoRedeemer]
  /\ wallet = [u \in Redeemers |-> 0]
  /\ recorded = {}
  /\ deletes = 0
  /\ cdkFaults = 0

CdkFault == cdkFaults < MaxCdkFaults /\ cdkFaults' = cdkFaults + 1

\* Codes of c's batch that u has redeemed, as committed.
RedeemedIn(c, u) ==
  {d \in Marketing : Batch[d] = Batch[c] /\ redeemedBy[d] = u /\ codeStatus[d] # "deleted"}

\* The transaction of r ends.
Unlock(r) == rowLock' = [rowLock EXCEPT ![request[r].code] = NoRequest]
Give(r) == request' = [request EXCEPT ![r] = FreeRequest]
To(r, pc) == request' = [request EXCEPT ![r].pc = pc]

-----------------------------------------------------------------------------
\* Redeem is switched on and the code exists: the transaction locks its row.
LockCode(r, u, c) ==
  /\ request[r].pc = "idle"
  /\ enabled
  /\ codeStatus[c] # "deleted"
  /\ rowLock[c] = NoRequest
  /\ rowLock' = [rowLock EXCEPT ![c] = r]
  /\ request' = [request EXCEPT ![r] = [user |-> u, code |-> c, pc |-> "locked"]]
  /\ UNCHANGED <<enabled, codeVars, creditedTo, wallet, recorded, deletes, cdkFaults>>

\* Mutant of CheckCode: the status is not looked at under the lock.
CheckBatch(r) ==
  LET c == request[r].code  u == request[r].user IN
  /\ request[r].pc = "locked"
  /\ IF c \in Marketing /\ RedeemedIn(c, u) # {}
     THEN Give(r) /\ Unlock(r)
     ELSE To(r, "counted") /\ UNCHANGED rowLock
  /\ UNCHANGED <<enabled, codeVars, creditedTo, wallet, recorded, deletes, cdkFaults>>

\* Under the lock: redeemed already, or (marketing) another of the batch was.
CheckCode(r) ==
  LET c == request[r].code  u == request[r].user IN
  /\ request[r].pc = "locked"
  /\ IF codeStatus[c] = "redeemed" \/ (c \in Marketing /\ RedeemedIn(c, u) # {})
     THEN Give(r) /\ Unlock(r)
     ELSE To(r, "counted") /\ UNCHANGED rowLock
  /\ UNCHANGED <<enabled, codeVars, creditedTo, wallet, recorded, deletes, cdkFaults>>

\* Mutant of SaveCode: without the partial unique index.
SaveUnindexed(r) ==
  LET c == request[r].code  u == request[r].user IN
  /\ request[r].pc = "counted"
  /\ codeStatus' = [codeStatus EXCEPT ![c] = "redeemed"]
  /\ redeemedBy' = [redeemedBy EXCEPT ![c] = u]
  /\ To(r, "credit")
  /\ Unlock(r)
  /\ UNCHANGED <<enabled, amount, creditedTo, wallet, recorded, deletes, cdkFaults>>

\* The row is saved and the transaction commits; the partial unique index on
\* (batch_id, redeemed_by) lets one of two overlapping ones through.
SaveCode(r) ==
  LET c == request[r].code  u == request[r].user IN
  /\ request[r].pc = "counted"
  /\ \/ /\ c \in Marketing => RedeemedIn(c, u) = {}
        /\ codeStatus' = [codeStatus EXCEPT ![c] = "redeemed"]
        /\ redeemedBy' = [redeemedBy EXCEPT ![c] = u]
        /\ To(r, "credit")
        /\ UNCHANGED cdkFaults
     \/ /\ c \in Marketing /\ RedeemedIn(c, u) # {}
        /\ Give(r)
        /\ UNCHANGED <<codeStatus, redeemedBy, cdkFaults>>
     \/ CdkFault /\ Give(r) /\ UNCHANGED <<codeStatus, redeemedBy>>
  /\ Unlock(r)
  /\ UNCHANGED <<enabled, amount, creditedTo, wallet, recorded, deletes>>

\* AdjustCredits, a transaction of its own.
CreditCode(r) ==
  LET c == request[r].code  u == request[r].user IN
  /\ request[r].pc = "credit"
  /\ \/ /\ creditedTo' = [creditedTo EXCEPT ![c] = u]
        /\ wallet' = [wallet EXCEPT ![u] = @ + amount[c]]
        /\ To(r, "record")
        /\ UNCHANGED cdkFaults
     \/ CdkFault /\ Give(r) /\ UNCHANGED <<creditedTo, wallet>>
  /\ UNCHANGED <<enabled, codeVars, rowLock, recorded, deletes>>

\* RecordCreditOrder, whose errors are ignored.
RecordOrder(r) ==
  /\ request[r].pc = "record"
  /\ \/ recorded' = recorded \cup {request[r].code} /\ UNCHANGED cdkFaults
     \/ CdkFault /\ UNCHANGED recorded
  /\ Give(r)
  /\ UNCHANGED <<enabled, codeVars, rowLock, creditedTo, wallet, deletes>>

\* Delete and DeleteBulk wait for the row lock.
DeleteCode(c) ==
  /\ deletes < MaxDeletes /\ deletes' = deletes + 1
  /\ codeStatus[c] # "deleted" /\ rowLock[c] = NoRequest
  /\ codeStatus' = [codeStatus EXCEPT ![c] = "deleted"]
  /\ UNCHANGED <<enabled, amount, redeemedBy, rowLock, request, creditedTo, wallet, recorded, cdkFaults>>

SwitchRedeem ==
  /\ enabled' = ~ enabled
  /\ UNCHANGED <<codeVars, rowLock, request, creditedTo, wallet, recorded, deletes, cdkFaults>>

\* The process dies: open transactions roll back.
CrashCdk ==
  /\ CdkFault
  /\ request' = [r \in Requests |-> FreeRequest]
  /\ rowLock' = [c \in Codes |-> NoRequest]
  /\ UNCHANGED <<enabled, codeVars, creditedTo, wallet, recorded, deletes>>

-----------------------------------------------------------------------------
RequestStep(r) == CheckCode(r) \/ SaveCode(r) \/ CreditCode(r) \/ RecordOrder(r)

CdkNext ==
  \/ \E r \in Requests : \/ \E u \in Redeemers, c \in Codes : LockCode(r, u, c)
                         \/ RequestStep(r)
  \/ \E c \in Codes : DeleteCode(c)
  \/ SwitchRedeem
  \/ CrashCdk

CdkSpec == CdkInit /\ [][CdkNext]_cdkVars

-----------------------------------------------------------------------------
\* A code is worth its amount to one user, once, also when two users enter it at
\* the same moment.
CodeOnce == INSTANCE CreditOnce WITH Users <- Redeemers, Nobody <- NoRedeemer, Claims <- Codes,
  Worths <- Amounts, worth <- amount, grantee <- creditedTo, balance <- wallet
CdkImplementsCreditOnce == CodeOnce!OnceSpec

\* "Marketing codes: a user may redeem only ONE code per batch"
\* (repo/cdk_repo.go:109), also when the requests for two of them overlap, until
\* an administrator deletes one: a deleted code is not counted any more, and its
\* user may redeem another of the batch.
OnePerBatch ==
  deletes = 0 =>
    \A c, d \in Marketing :
      (Batch[c] = Batch[d] /\ creditedTo[c] = creditedTo[d] /\ creditedTo[c] # NoRedeemer) => c = d

\* A code is not burnt without its credit: unless a statement fails or the process
\* dies, whoever redeemed it has been credited, or is about to be.
BurntCodes ==
  {c \in Codes : /\ codeStatus[c] = "redeemed" /\ creditedTo[c] = NoRedeemer
                 /\ \A r \in Requests : ~ (request[r].code = c /\ request[r].pc = "credit")}
BurntByFaultsOnly == BurntCodes # {} => cdkFaults > 0

\* The order list shows a redemption only when it was credited
\* (model/models.go:265).
RecordedIsCredited == \A c \in recorded : creditedTo[c] # NoRedeemer
=============================================================================

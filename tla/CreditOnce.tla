----------------------------- MODULE CreditOnce -----------------------------
(***************************************************************************)
(* What a source of credits promises, be it paid orders or redeem codes:   *)
(* a claim gives its worth to one user, at most once, and nothing else     *)
(* changes a balance.                                                      *)
(***************************************************************************)
EXTENDS Naturals, FiniteSetsExt

CONSTANTS
  Users, Claims, Nobody,
  Worths          \* what a claim may be worth

\* What an instance must give the constants.
CreditOnceAssumption == Nobody \notin Users /\ Worths \subseteq Nat

VARIABLES
  worth,          \* what a claim is worth: fixed before it is granted
  grantee,        \* the user a claim was credited to
  balance

onceVars == <<worth, grantee, balance>>

OnceInit ==
  /\ worth \in [Claims -> Worths]
  /\ grantee = [c \in Claims |-> Nobody]
  /\ balance = [u \in Users |-> 0]

\* A claim that nobody has been given yet may change what it is worth.
Price(c) ==
  /\ grantee[c] = Nobody
  /\ worth' \in [Claims -> Worths]
  /\ \A d \in Claims \ {c} : worth'[d] = worth[d]
  /\ UNCHANGED <<grantee, balance>>

Grant(c, u) ==
  /\ grantee[c] = Nobody
  /\ grantee' = [grantee EXCEPT ![c] = u]
  /\ balance' = [balance EXCEPT ![u] = @ + worth[c]]
  /\ UNCHANGED worth

OnceNext ==
  \E c \in Claims : Price(c) \/ \E u \in Users : Grant(c, u)

OnceSpec == OnceInit /\ [][OnceNext]_onceVars

\* A balance is the worth of the claims its user was given.
Backed ==
  \A u \in Users :
    balance[u] = MapThenSumSet(LAMBDA c : worth[c], {c \in Claims : grantee[c] = u})
=============================================================================

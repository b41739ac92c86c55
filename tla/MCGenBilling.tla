---------------------------- MODULE MCGenBilling ----------------------------
(***************************************************************************)
(* Instances of GenBilling for TLC: which kinds of requests are submitted, *)
(* by whom and to which process.  A user's balance pays for all but one of *)
(* the requests, so that the debit guard matters.                          *)
(***************************************************************************)
EXTENDS GenBilling, TLC

CONSTANTS u1, u2, g1, g2, g3, p1, p2, none

MCPrice == [k \in Kinds |-> IF k = "test" THEN 0 ELSE 1]

\* u2 was invited by u1.
MCInviter == [u \in Users |-> IF u = u2 THEN u1 ELSE none]

All(us, ks, ps) == [Gens -> [user : us, kind : ks, proc : ps]]

\* Requests of one user in one process, of any kinds.
AnyKinds == All({u2}, Kinds, {p1})

\* Requests of one user, each in a process of its own choosing.
TwoProcesses == All({u2}, Kinds, {p1, p2})

\* Requests with a work context deadline.
Media == All({u2}, {"image", "video", "job"}, {p1})

\* Requests that are given back by the handler itself when no row is written.
SelfRefunding == All({u2}, {"image", "chat"}, {p1})

ASSUME E!EscrowAssumption

\* No row stays pending for good, whatever happened to the request; a deduction ends
\* in a success or a refund, and what a crash left deducted comes back once nothing
\* fails any more; and the balances add up all the while.
EverythingSettles == PendingResolved /\ ChargeResolved /\ OrphanRefunded /\ []E!Conserved

Symm == Permutations(Gens)
=============================================================================

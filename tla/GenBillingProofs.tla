-------------------------- MODULE GenBillingProofs --------------------------
(***************************************************************************)
(* Proofs about GenBilling, for any number of users, requests, processes,  *)
(* faults and deletions, any prices and any cap.  The invariant BillingInv *)
(* is proved in three layers, each inductive relative to the ones before:  *)
(* the types, the life cycle of a request and its row, the accounts.       *)
(***************************************************************************)
EXTENDS GenBilling, FiniteSetTheorems, TLAPS

\* A request has an owner and a natural cost.
LEMMA CostNat ==
  ASSUME TypeOK, NEW g \in Gens
  PROVE  User(g) \in Users /\ Kind(g) \in Kinds /\ Proc(g) \in Procs /\ Cost(g) \in Nat
BY BillingAssumption DEF TypeOK, Request, User, Kind, Proc, Cost

\* What a deletion removes: rows, with their refunded marks.
LEMMA DeletedRows ==
  ASSUME ClearLog
  PROVE  \E S \in SUBSET Gens :
           /\ \A g \in S : row[g] # "none"
           /\ row' = [g \in Gens |-> IF g \in S THEN "none" ELSE row[g]]
           /\ refunded' = [g \in Gens |-> IF g \in S THEN FALSE ELSE refunded[g]]
           /\ offBook' = offBook \cup {g \in S : stake[g] = "held" /\ ~refunded[g]}
<1>1. PICK S \in {{g \in Gens : row[g] # "none"}, {g \in Gens : row[g] = "pending"}} :
        /\ row' = [g \in Gens |-> IF g \in S THEN "none" ELSE row[g]]
        /\ refunded' = [g \in Gens |-> IF g \in S THEN FALSE ELSE refunded[g]]
        /\ offBook' = offBook \cup {g \in S : stake[g] = "held" /\ ~refunded[g]}
  BY DEF ClearLog
<1>2. S \in SUBSET Gens /\ \A g \in S : row[g] # "none"
  OBVIOUS
<1>. QED
  BY <1>1, <1>2

\* The types, and with them that no balance is ever negative.
LEMMA TypeStep == TypeOK /\ [Next]_vars => TypeOK'
<1>. SUFFICES ASSUME TypeOK, [Next]_vars PROVE TypeOK'
  OBVIOUS
<1>. USE BillingAssumption, CostNat DEF TypeOK, PCs, Ages, reqVars, logVars, sweepVars, boundVars
<1>1. ASSUME NEW g \in Gens, Admit(g) PROVE TypeOK'
  BY <1>1 DEF Admit, Goto
<1>2. ASSUME NEW g \in Gens, TurnAway(g) PROVE TypeOK'
  BY <1>2 DEF TurnAway, LogRejected, Bump, Goto
<1>3. ASSUME NEW g \in Gens, Charge(g) PROVE TypeOK'
  BY <1>3 DEF Charge, Solvent, Goto
<1>4. ASSUME NEW g \in Gens, PrepareFails(g) PROVE TypeOK'
  BY <1>4 DEF PrepareFails, LogRejected, Bump, Goto
<1>5. ASSUME NEW g \in Gens, LogPending(g) PROVE TypeOK'
  BY <1>5 DEF LogPending, Bump, Goto
<1>6. ASSUME NEW g \in Gens, LogPendingFails(g) PROVE TypeOK'
  BY <1>6 DEF LogPendingFails, Fault, Goto
<1>7. ASSUME NEW g \in Gens, RefundUnlogged(g) PROVE TypeOK'
  BY <1>7 DEF RefundUnlogged, NoFault, Fault, Refund, Goto
<1>8. ASSUME NEW g \in Gens, StartWork(g) PROVE TypeOK'
  BY <1>8 DEF StartWork, Goto
<1>9. ASSUME NEW g \in Gens, Render(g) PROVE TypeOK'
  BY <1>9 DEF Render, Goto
<1>10. ASSUME NEW g \in Gens, FailWork(g) PROVE TypeOK'
  BY <1>10 DEF FailWork, FirstFailStep, Goto
<1>11. ASSUME NEW g \in Gens, ClaimRefund(g) PROVE TypeOK'
  <2>1. refunded' \in [Gens -> BOOLEAN]
    BY <1>11 DEF ClaimRefund
  <2>2. pc' \in [Gens -> PCs]
    BY <1>11 DEF ClaimRefund, AfterCredit, Goto
  <2>3. faults' \in Nat
    BY <1>11 DEF ClaimRefund, NoFault, Fault
  <2>. QED
    BY <1>11, <2>1, <2>2, <2>3 DEF ClaimRefund
<1>12. ASSUME NEW g \in Gens, CreditRefund(g) PROVE TypeOK'
  BY <1>12 DEF CreditRefund, NoFault, Fault, Refund, AfterCredit, Goto
<1>13. ASSUME NEW g \in Gens, MarkFailed(g) PROVE TypeOK'
  BY <1>13 DEF MarkFailed, SetStatus, Bump, NoFault, Fault, AfterStatus, Goto
<1>14. ASSUME NEW g \in Gens, MarkSuccess(g) PROVE TypeOK'
  BY <1>14 DEF MarkSuccess, SetStatus, Bump, NoFault, Fault, Goto
<1>15. ASSUME NEW g \in Gens, GrantReward(g) PROVE TypeOK'
  BY <1>15 DEF GrantReward, RewardDue, NoFault, Fault, Goto
<1>16. ASSUME NEW g \in Gens, Finish(g) PROVE TypeOK'
  BY <1>16 DEF Finish, Leave, Goto
<1>17. ASSUME NEW g \in Gens, Grow(g) PROVE TypeOK'
  BY <1>17 DEF Grow
<1>18. ASSUME NEW g \in Gens, ExpireSlot(g) PROVE TypeOK'
  BY <1>18 DEF ExpireSlot
<1>19. ASSUME NEW p \in Procs, SweepSelect(p) PROVE TypeOK'
  BY <1>19 DEF SweepSelect, Stale
<1>19a. ASSUME NEW p \in Procs, SweepSkip(p) PROVE TypeOK'
  BY <1>19a DEF SweepSkip
<1>20. ASSUME NEW p \in Procs, SweepAbandon(p) PROVE TypeOK'
  <2>1. row' \in [Gens -> {"none", "pending", "success", "failed", "rejected"}]
    BY <1>20 DEF SweepAbandon
  <2>2. faults' \in Nat
    BY <1>20 DEF SweepAbandon, NoFault, Fault
  <2>. QED
    BY <1>20, <2>1, <2>2 DEF SweepAbandon
<1>21. ASSUME NEW p \in Procs, NEW g \in Gens, SweepClaim(p, g) PROVE TypeOK'
  <2>1. refunded' \in [Gens -> BOOLEAN]
    BY <1>21 DEF SweepClaim
  <2>2. faults' \in Nat
    BY <1>21 DEF SweepClaim, NoFault, Fault
  <2>3. todo' \in [Procs -> SUBSET Gens] /\ claim' \in [Procs -> Gens \cup {NoGen}]
    BY <1>21 DEF SweepClaim
  <2>4. inflight' \subseteq Gens /\ cancelled' \subseteq Gens
    BY <1>21 DEF SweepClaim
  <2>. QED
    BY <1>21, <2>1, <2>2, <2>3, <2>4 DEF SweepClaim
<1>22. ASSUME NEW p \in Procs, SweepCredit(p) PROVE TypeOK'
  <2>1. claim[p] \in Gens
    BY <1>22 DEF SweepCredit
  <2>2. User(claim[p]) \in Users /\ Cost(claim[p]) \in Nat
    BY <2>1, CostNat
  <2>3. /\ balance' \in [Users -> Nat]
        /\ stake' \in [Gens -> {"none", "held", "returned"}]
        /\ offBook' \subseteq Gens
    BY <1>22, <2>1, <2>2 DEF SweepCredit, Refund
  <2>4. faults' \in Nat
    BY <1>22 DEF SweepCredit, NoFault, Fault
  <2>. QED
    BY <1>22, <2>3, <2>4 DEF SweepCredit
<1>23. ASSUME NEW p \in Procs, SweepEnd(p) PROVE TypeOK'
  BY <1>23 DEF SweepEnd
<1>24. ASSUME NEW p \in Procs, Crash(p) PROVE TypeOK'
  BY <1>24 DEF Crash, Running, Fault
<1>25. ASSUME ClearLog PROVE TypeOK'
  <2>1. PICK S \in SUBSET Gens :
          /\ row' = [g \in Gens |-> IF g \in S THEN "none" ELSE row[g]]
          /\ refunded' = [g \in Gens |-> IF g \in S THEN FALSE ELSE refunded[g]]
          /\ offBook' = offBook \cup {g \in S : stake[g] = "held" /\ ~refunded[g]}
    BY <1>25, DeletedRows
  <2>2. refunded' \in [Gens -> BOOLEAN]
    BY <2>1
  <2>3. /\ row' \in [Gens -> {"none", "pending", "success", "failed", "rejected"}]
        /\ offBook' \subseteq Gens
    BY <2>1
  <2>4. /\ clears' \in Nat
        /\ UNCHANGED <<req, reqVars, counters, inflight, slots, balance, rewarded, sweepVars,
                       stake, faults>>
    BY <1>25 DEF ClearLog
  <2>. QED
    BY <2>2, <2>3, <2>4
<1>26. CASE UNCHANGED vars
  BY <1>26 DEF vars, reqVars, logVars, sweepVars, boundVars
<1>. QED
  BY <1>1, <1>2, <1>3, <1>4, <1>5, <1>6, <1>7, <1>8, <1>9, <1>10, <1>11, <1>12, <1>13,
     <1>14, <1>15, <1>16, <1>17, <1>18, <1>19, <1>19a, <1>20, <1>21, <1>22,
     <1>23, <1>24, <1>25, <1>26
  DEF Next, Advance, Sweep

\* Before its row is written nobody but its handler touches a request, and a
\* request that left has released everything.
LEMMA LifecycleStep == TypeOK /\ Lifecycle /\ [Next]_vars => Lifecycle'
<1>. SUFFICES ASSUME TypeOK, Lifecycle, [Next]_vars PROVE Lifecycle'
  OBVIOUS
<1>. USE DEF TypeOK, Lifecycle, UnknownBeforeLog, StakeBeforeCharge, RowsFit, NothingHeldEarly,
             NothingLeftBehind, BeforeLog, PCs, Kind, Cost,
             reqVars, logVars, sweepVars, boundVars
<1>1. ASSUME NEW g \in Gens, Admit(g) PROVE Lifecycle'
  BY <1>1 DEF Admit, Goto
<1>2. ASSUME NEW g \in Gens, TurnAway(g) PROVE Lifecycle'
  BY <1>2 DEF TurnAway, LogRejected, Bump, Goto
<1>3. ASSUME NEW g \in Gens, Charge(g) PROVE Lifecycle'
  BY <1>3 DEF Charge, Solvent, Goto
<1>4. ASSUME NEW g \in Gens, PrepareFails(g) PROVE Lifecycle'
  BY <1>4 DEF PrepareFails, LogRejected, Bump, Goto
<1>5. ASSUME NEW g \in Gens, LogPending(g) PROVE Lifecycle'
  BY <1>5 DEF LogPending, Bump, Goto
<1>6. ASSUME NEW g \in Gens, LogPendingFails(g) PROVE Lifecycle'
  BY <1>6 DEF LogPendingFails, Fault, Goto
<1>7. ASSUME NEW g \in Gens, RefundUnlogged(g) PROVE Lifecycle'
  BY <1>7 DEF RefundUnlogged, NoFault, Fault, Refund, Goto
<1>8. ASSUME NEW g \in Gens, StartWork(g) PROVE Lifecycle'
  BY <1>8 DEF StartWork, Goto
<1>9. ASSUME NEW g \in Gens, Render(g) PROVE Lifecycle'
  BY <1>9 DEF Render, Goto
<1>10. ASSUME NEW g \in Gens, FailWork(g) PROVE Lifecycle'
  BY <1>10 DEF FailWork, FirstFailStep, Goto
<1>11. ASSUME NEW g \in Gens, ClaimRefund(g) PROVE Lifecycle'
  BY <1>11 DEF ClaimRefund, NoFault, Fault, Claimable, AfterCredit, Goto
<1>12. ASSUME NEW g \in Gens, CreditRefund(g) PROVE Lifecycle'
  BY <1>12 DEF CreditRefund, NoFault, Fault, Refund, AfterCredit, Goto
<1>13. ASSUME NEW g \in Gens, MarkFailed(g) PROVE Lifecycle'
  BY <1>13 DEF MarkFailed, SetStatus, Bump, NoFault, Fault, AfterStatus, Goto
<1>14. ASSUME NEW g \in Gens, MarkSuccess(g) PROVE Lifecycle'
  BY <1>14 DEF MarkSuccess, SetStatus, Bump, NoFault, Fault, Goto
<1>15. ASSUME NEW g \in Gens, GrantReward(g) PROVE Lifecycle'
  BY <1>15 DEF GrantReward, RewardDue, NoFault, Fault, Goto
<1>16. ASSUME NEW g \in Gens, Finish(g) PROVE Lifecycle'
  BY <1>16 DEF Finish, Leave, Goto
<1>17. ASSUME NEW g \in Gens, Grow(g) PROVE Lifecycle'
  BY <1>17 DEF Grow
<1>18. ASSUME NEW g \in Gens, ExpireSlot(g) PROVE Lifecycle'
  BY <1>18 DEF ExpireSlot
<1>19. ASSUME NEW p \in Procs, SweepSelect(p) PROVE Lifecycle'
  BY <1>19 DEF SweepSelect, Stale
<1>19a. ASSUME NEW p \in Procs, SweepSkip(p) PROVE Lifecycle'
  BY <1>19a DEF SweepSkip
<1>20. ASSUME NEW p \in Procs, SweepAbandon(p) PROVE Lifecycle'
  BY <1>20 DEF SweepAbandon, Abandoned, NoFault, Fault
<1>21. ASSUME NEW p \in Procs, NEW g \in Gens, SweepClaim(p, g) PROVE Lifecycle'
  BY <1>21 DEF SweepClaim, Claimable, NoFault, Fault
<1>22. ASSUME NEW p \in Procs, SweepCredit(p) PROVE Lifecycle'
  <2> DEFINE c == claim[p]
  <2>1. c \in Gens /\ pc[c] \notin BeforeLog
    BY <1>22 DEF SweepCredit
  <2>2. /\ \A g \in Gens : g # c => stake'[g] = stake[g] /\ (g \in offBook' => g \in offBook)
        /\ UNCHANGED <<req, reqVars, logVars, inflight, slots, todo>>
        /\ \A q \in Procs, g \in Gens : claim'[q] = g => claim[q] = g
    BY <1>22, <2>1, BillingAssumption DEF SweepCredit, Refund
  <2>. QED
    BY <2>1, <2>2
<1>23. ASSUME NEW p \in Procs, SweepEnd(p) PROVE Lifecycle'
  BY <1>23 DEF SweepEnd
<1>24. ASSUME NEW p \in Procs, Crash(p) PROVE Lifecycle'
  <2>1. /\ \A g \in Gens : pc'[g] \in {pc[g], "dead"}
        /\ \A g \in Gens : pc[g] \in {"idle", "rejected"} => pc'[g] = pc[g]
    BY <1>24 DEF Crash, Running
  <2>2. \A g \in offBook' : pc'[g] \notin BeforeLog
    BY <1>24 DEF Crash, Running
  <2>3. \A q \in Procs : /\ todo'[q] \subseteq todo[q]
                         /\ claim'[q] \in {claim[q], NoGen}
    BY <1>24, BillingAssumption DEF Crash
  <2>4. inflight' \subseteq inflight /\ UNCHANGED <<req, logVars, slots, stake>>
    BY <1>24 DEF Crash
  <2>5. UnknownBeforeLog'
    <3>1. ASSUME NEW g \in Gens, pc'[g] \in BeforeLog
          PROVE  pc[g] \in BeforeLog /\ g \notin offBook'
      BY <2>1, <2>2, <3>1
    <3>2. UNCHANGED <<row, refunded>>
      BY <2>4
    <3>3. \A g \in Gens : pc'[g] \in BeforeLog =>
            /\ row'[g] = "none" \/ row'[g] = "rejected"
            /\ ~refunded'[g]
      BY <3>1, <3>2
    <3>4. ASSUME NEW g \in Gens, pc'[g] \in BeforeLog, NEW q \in Procs
          PROVE  g \notin todo'[q] /\ claim'[q] # g
      BY <2>3, <3>1, <3>4, BillingAssumption
    <3>. QED
      BY <3>1, <3>3, <3>4
  <2>6. StakeBeforeCharge' /\ RowsFit'
    BY <2>1, <2>4
  <2>7. NothingHeldEarly' /\ NothingLeftBehind'
    BY <2>1, <2>4
  <2>. QED
    BY <2>5, <2>6, <2>7
<1>25. ASSUME ClearLog PROVE Lifecycle'
  BY <1>25 DEF ClearLog
<1>26. CASE UNCHANGED vars
  BY <1>26 DEF vars, reqVars, logVars, sweepVars, boundVars
<1>. QED
  BY <1>1, <1>2, <1>3, <1>4, <1>5, <1>6, <1>7, <1>8, <1>9, <1>10, <1>11, <1>12, <1>13,
     <1>14, <1>15, <1>16, <1>17, <1>18, <1>19, <1>19a, <1>20, <1>21, <1>22,
     <1>23, <1>24, <1>25, <1>26
  DEF Next, Advance, Sweep

\* The accounts: a claim of a refund has one owner, and what is held is answered
\* for exactly once.
LEMMA AccountsStep == TypeOK /\ Lifecycle /\ Accounts /\ [Next]_vars => Accounts'
<1>. SUFFICES ASSUME TypeOK, Lifecycle, Accounts, [Next]_vars PROVE Accounts'
  OBVIOUS
<1>. USE DEF TypeOK, Lifecycle, UnknownBeforeLog, StakeBeforeCharge, RowsFit, BeforeLog, Accounts,
             ClaimsExclusive, OffBookUnclaimable, LedgerMatchesRows, Claimed, Outstanding, Cost, Kind,
             reqVars, logVars, sweepVars, boundVars
<1>. USE BillingAssumption
<1>1. ASSUME NEW g \in Gens, Admit(g) PROVE Accounts'
  BY <1>1 DEF Admit, Goto
<1>2. ASSUME NEW g \in Gens, TurnAway(g) PROVE Accounts'
  BY <1>2 DEF TurnAway, LogRejected, Bump, Goto
<1>3. ASSUME NEW g \in Gens, Charge(g) PROVE Accounts'
  BY <1>3 DEF Charge, Solvent, Goto
<1>4. ASSUME NEW g \in Gens, PrepareFails(g) PROVE Accounts'
  BY <1>4 DEF PrepareFails, LogRejected, Bump, Goto
<1>5. ASSUME NEW g \in Gens, LogPending(g) PROVE Accounts'
  BY <1>5 DEF LogPending, Bump, Goto
<1>6. ASSUME NEW g \in Gens, LogPendingFails(g) PROVE Accounts'
  BY <1>6 DEF LogPendingFails, Fault, Goto
<1>7. ASSUME NEW g \in Gens, RefundUnlogged(g) PROVE Accounts'
  BY <1>7 DEF RefundUnlogged, NoFault, Fault, Refund, Goto
<1>8. ASSUME NEW g \in Gens, StartWork(g) PROVE Accounts'
  BY <1>8 DEF StartWork, Goto
<1>9. ASSUME NEW g \in Gens, Render(g) PROVE Accounts'
  BY <1>9 DEF Render, Goto
<1>10. ASSUME NEW g \in Gens, FailWork(g) PROVE Accounts'
  BY <1>10 DEF FailWork, FirstFailStep, Goto
<1>11. ASSUME NEW g \in Gens, ClaimRefund(g) PROVE Accounts'
  BY <1>11 DEF ClaimRefund, NoFault, Fault, Claimable, AfterCredit, Goto
<1>12. ASSUME NEW g \in Gens, CreditRefund(g) PROVE Accounts'
  BY <1>12 DEF CreditRefund, NoFault, Fault, Refund, AfterCredit, Goto
<1>13. ASSUME NEW g \in Gens, MarkFailed(g) PROVE Accounts'
  BY <1>13 DEF MarkFailed, SetStatus, Bump, NoFault, Fault, AfterStatus, Goto
<1>14. ASSUME NEW g \in Gens, MarkSuccess(g) PROVE Accounts'
  BY <1>14 DEF MarkSuccess, SetStatus, Bump, NoFault, Fault, Goto
<1>15. ASSUME NEW g \in Gens, GrantReward(g) PROVE Accounts'
  BY <1>15 DEF GrantReward, RewardDue, NoFault, Fault, Goto
<1>16. ASSUME NEW g \in Gens, Finish(g) PROVE Accounts'
  BY <1>16 DEF Finish, Leave, Goto
<1>17. ASSUME NEW g \in Gens, Grow(g) PROVE Accounts'
  BY <1>17 DEF Grow
<1>18. ASSUME NEW g \in Gens, ExpireSlot(g) PROVE Accounts'
  BY <1>18 DEF ExpireSlot
<1>19. ASSUME NEW p \in Procs, SweepSelect(p) PROVE Accounts'
  BY <1>19 DEF SweepSelect, Stale
<1>19a. ASSUME NEW p \in Procs, SweepSkip(p) PROVE Accounts'
  BY <1>19a DEF SweepSkip
<1>20. ASSUME NEW p \in Procs, SweepAbandon(p) PROVE Accounts'
  BY <1>20 DEF SweepAbandon, Abandoned, NoFault, Fault
<1>21. ASSUME NEW p \in Procs, NEW g \in Gens, SweepClaim(p, g) PROVE Accounts'
  <2>1. pc[g] \notin BeforeLog /\ claim[p] = NoGen /\ UNCHANGED <<req, pc, row, offBook, stake>>
    BY <1>21 DEF SweepClaim
  <2>2. CASE UNCHANGED <<refunded, claim>>
    BY <2>1, <2>2
  <2>3. CASE /\ Cost(g) > 0 /\ Claimable(g)
             /\ refunded' = [refunded EXCEPT ![g] = TRUE]
             /\ claim' = [claim EXCEPT ![p] = g]
    <3>1. /\ ~Claimed(g) /\ g \notin offBook
          /\ row[g] \in {"pending", "success", "failed"} /\ ~refunded[g]
      BY <2>1, <2>3 DEF Claimable
    <3>2. \A h \in Gens : Claimed(h)' <=> (Claimed(h) \/ h = g)
      BY <2>1, <2>3
    <3>3. \A h \in Gens : refunded'[h] <=> (refunded[h] \/ h = g)
      BY <2>3
    <3>4. ClaimsExclusive'
      BY <2>1, <2>3, <3>1, <3>2, <3>3
    <3>5. OffBookUnclaimable' /\ LedgerMatchesRows'
      BY <2>1, <2>3, <3>1, <3>2, <3>3
    <3>. QED
      BY <3>4, <3>5
  <2>. QED
    BY <1>21, <2>2, <2>3 DEF SweepClaim
<1>22. ASSUME NEW p \in Procs, SweepCredit(p) PROVE Accounts'
  BY <1>22 DEF SweepCredit, Refund, NoFault, Fault
<1>23. ASSUME NEW p \in Procs, SweepEnd(p) PROVE Accounts'
  BY <1>23 DEF SweepEnd
<1>24. ASSUME NEW p \in Procs, Crash(p) PROVE Accounts'
  BY <1>24 DEF Crash, Running, Fault
<1>25. ASSUME ClearLog PROVE Accounts'
  <2>1. PICK S \in SUBSET Gens :
          /\ \A g \in S : row[g] # "none"
          /\ row' = [g \in Gens |-> IF g \in S THEN "none" ELSE row[g]]
          /\ refunded' = [g \in Gens |-> IF g \in S THEN FALSE ELSE refunded[g]]
          /\ offBook' = offBook \cup {g \in S : stake[g] = "held" /\ ~refunded[g]}
    BY <1>25, DeletedRows
  <2>2. UNCHANGED <<req, reqVars, sweepVars, stake>>
    BY <1>25 DEF ClearLog
  <2>3. ClaimsExclusive'
    <3>1. \A g \in Gens : Claimed(g)' <=> Claimed(g)
      BY <2>2
    <3>2. \A g \in Gens : row[g] = "none" \/ refunded[g] => row'[g] = "none" \/ refunded'[g]
      BY <2>1
    <3>3. \A g \in Gens : Claimed(g) => g \notin offBook'
      BY <2>1
    <3>. QED
      BY <2>2, <3>1, <3>2, <3>3
  <2>4. OffBookUnclaimable'
    BY <2>1, <2>2
  <2>5. LedgerMatchesRows'
    BY <2>1, <2>2
  <2>. QED
    BY <2>3, <2>4, <2>5
<1>26. CASE UNCHANGED vars
  BY <1>26 DEF vars, reqVars, logVars, sweepVars, boundVars
<1>. QED
  BY <1>1, <1>2, <1>3, <1>4, <1>5, <1>6, <1>7, <1>8, <1>9, <1>10, <1>11, <1>12, <1>13,
     <1>14, <1>15, <1>16, <1>17, <1>18, <1>19, <1>19a, <1>20, <1>21, <1>22,
     <1>23, <1>24, <1>25, <1>26
  DEF Next, Advance, Sweep

-----------------------------------------------------------------------------
LEMMA InitBillingInv == Init => BillingInv
<1>. SUFFICES ASSUME Init PROVE BillingInv
  OBVIOUS
<1>. USE BillingAssumption DEF Init
<1>1. TypeOK
  BY DEF TypeOK, PCs, Ages
<1>2. Lifecycle
  BY DEF Lifecycle, UnknownBeforeLog, StakeBeforeCharge, RowsFit, NothingHeldEarly,
         NothingLeftBehind, BeforeLog
<1>3. Accounts
  BY DEF Accounts, ClaimsExclusive, OffBookUnclaimable, LedgerMatchesRows, Claimed, Outstanding
<1>. QED
  BY <1>1, <1>2, <1>3 DEF BillingInv

LEMMA BillingInvStep == BillingInv /\ [Next]_vars => BillingInv'
BY TypeStep, LifecycleStep, AccountsStep DEF BillingInv

\* The invariant holds in every reachable state.
THEOREM BillingCorrect == Spec => []BillingInv
BY InitBillingInv, BillingInvStep, PTL DEF Spec

\* Every variable keeps its type; with it, no balance of credits goes below
\* zero (TryDebitCredits).
THEOREM TypeCorrect == Spec => []TypeOK
<1>1. BillingInv => TypeOK
  BY DEF BillingInv
<1>. QED
  BY <1>1, BillingCorrect, PTL

\* A request holds its credits exactly while its handler, its row or a claimed
\* refund still answers for them: no refund is given twice and none is lost to
\* an interleaving of requests, sweeps, crashes and deletions.
THEOREM LedgerCorrect == Spec => []LedgerMatchesRows
<1>1. BillingInv => LedgerMatchesRows
  BY DEF BillingInv, Accounts
<1>. QED
  BY <1>1, BillingCorrect, PTL

\* A request that returned holds neither a slot nor a registry entry.
THEOREM ExitReleases == Spec => []NothingLeftBehind
<1>1. BillingInv => NothingLeftBehind
  BY DEF BillingInv, Lifecycle
<1>. QED
  BY <1>1, BillingCorrect, PTL

\* No step turns a success into a failure: the sweep's stale SELECT is checked
\* again by its UPDATE, and a handler that fails had not succeeded.
LEMMA SuccessStep ==
  ASSUME BillingInv, [Next]_vars, NEW h \in Gens, row[h] = "success"
  PROVE  row'[h] \in {"success", "none"}
<1>. USE DEF BillingInv, TypeOK, Lifecycle, RowsFit, UnknownBeforeLog, BeforeLog,
             reqVars, logVars, sweepVars, boundVars
<1>1. ASSUME NEW g \in Gens, TurnAway(g) PROVE row'[h] \in {"success", "none"}
  BY <1>1 DEF TurnAway, LogRejected, Bump
<1>2. ASSUME NEW g \in Gens, PrepareFails(g) PROVE row'[h] \in {"success", "none"}
  BY <1>2 DEF PrepareFails, LogRejected, Bump
<1>3. ASSUME NEW g \in Gens, LogPending(g) PROVE row'[h] \in {"success", "none"}
  BY <1>3 DEF LogPending, Bump
<1>4. ASSUME NEW g \in Gens, MarkFailed(g) PROVE row'[h] \in {"success", "none"}
  BY <1>4 DEF MarkFailed, SetStatus, Bump, NoFault, Fault, AfterStatus
<1>5. ASSUME NEW g \in Gens, MarkSuccess(g) PROVE row'[h] \in {"success", "none"}
  BY <1>5 DEF MarkSuccess, SetStatus, Bump, NoFault, Fault
<1>6. ASSUME NEW p \in Procs, SweepAbandon(p) PROVE row'[h] \in {"success", "none"}
  BY <1>6 DEF SweepAbandon, Abandoned
<1>7. ASSUME ClearLog PROVE row'[h] \in {"success", "none"}
  <2>1. PICK S \in SUBSET Gens : row' = [g \in Gens |-> IF g \in S THEN "none" ELSE row[g]]
    BY <1>7, DeletedRows
  <2>. QED
    BY <2>1
<1>8. CASE UNCHANGED row
  BY <1>8
<1>. QED
  BY <1>1, <1>2, <1>3, <1>4, <1>5, <1>6, <1>7, <1>8
  DEF vars, Next, Advance, Sweep, Admit, Charge, LogPendingFails, RefundUnlogged, StartWork, Render,
      FailWork, ClaimRefund, CreditRefund, GrantReward, Finish, Grow, ExpireSlot, SweepSelect,
      SweepSkip, SweepClaim, SweepCredit, SweepEnd, Crash

\* A delivered result is never marked failed afterwards.
THEOREM SuccessStays == Spec => SuccessIsFinal
<1>1. BillingInv /\ [Next]_vars
        => [\A g \in Gens : row[g] = "success" => row'[g] \in {"success", "none"}]_vars
  BY SuccessStep
<1>. QED
  BY <1>1, BillingCorrect, PTL DEF Spec, SuccessIsFinal

-----------------------------------------------------------------------------
(* GenBilling implements Escrow.                                           *)

LEMMA RefinesInit == Init => E!Init
<1>. SUFFICES ASSUME Init PROVE E!Init
  OBVIOUS
<1>1. \A g \in Gens : User(g) \in Users /\ Cost(g) \in {Price[k] : k \in Kinds}
  BY BillingAssumption DEF Init, Request, User, Cost, Kind
<1>. QED
  BY <1>1 DEF Init, E!Init

\* The owners and costs of the mapping never change.
LEMMA FixedRequests ==
  ASSUME UNCHANGED req
  PROVE  UNCHANGED <<[g \in Gens |-> User(g)], [g \in Gens |-> Cost(g)]>>
BY DEF User, Cost, Kind

\* A step that leaves balances, stakes and rewards alone is a stutter.
LEMMA RefinesStutter ==
  ASSUME UNCHANGED <<req, balance, stake, rewarded>> PROVE UNCHANGED E!escrowVars
BY FixedRequests DEF E!escrowVars

\* Giving back what a request holds is the abstract Return.
LEMMA RefinesReturn ==
  ASSUME TypeOK, NEW g \in Gens, stake[g] = "held", Refund(g), UNCHANGED <<req, rewarded>>
  PROVE  E!Return(g)
BY FixedRequests DEF E!Return, Refund

LEMMA RefinesStep == BillingInv /\ [Next]_vars => [E!Next]_(E!escrowVars)
<1>. SUFFICES ASSUME BillingInv, [Next]_vars PROVE E!Next \/ UNCHANGED E!escrowVars
  OBVIOUS
<1>. USE DEF BillingInv
<1>1. ASSUME NEW g \in Gens, Charge(g) PROVE E!Next \/ UNCHANGED E!escrowVars
  <2>1. stake[g] = "none" /\ balance[User(g)] >= Cost(g) /\ UNCHANGED <<req, rewarded>>
    BY <1>1 DEF Charge, Solvent, Lifecycle, StakeBeforeCharge
  <2>2. CASE Cost(g) > 0
    <3>1. E!Charge(g)
      BY <1>1, <2>1, <2>2, FixedRequests DEF Charge, E!Charge, TypeOK
    <3>. QED
      BY <3>1 DEF E!Next
  <2>3. CASE Cost(g) = 0
    <3>1. balance' = balance /\ stake' = stake
      BY <1>1, <2>3, CostNat DEF Charge, TypeOK
    <3>. QED
      BY <2>1, <3>1, RefinesStutter
  <2>. QED
    BY <2>2, <2>3, CostNat
<1>2. ASSUME NEW g \in Gens, RefundUnlogged(g) PROVE E!Next \/ UNCHANGED E!escrowVars
  <2>1. stake[g] = "held"
    BY <1>2
    DEF RefundUnlogged, Lifecycle, StakeBeforeCharge, Accounts, LedgerMatchesRows, Outstanding
  <2>2. CASE Refund(g)
    BY <1>2, <2>1, <2>2, RefinesReturn DEF RefundUnlogged, E!Next
  <2>3. CASE UNCHANGED <<balance, stake>>
    BY <1>2, <2>3, RefinesStutter DEF RefundUnlogged
  <2>. QED
    BY <1>2, <2>2, <2>3 DEF RefundUnlogged
<1>3. ASSUME NEW g \in Gens, CreditRefund(g) PROVE E!Next \/ UNCHANGED E!escrowVars
  <2>1. stake[g] = "held"
    BY <1>3 DEF CreditRefund, Accounts, ClaimsExclusive, Claimed, LedgerMatchesRows, Outstanding
  <2>2. CASE Refund(g)
    BY <1>3, <2>1, <2>2, RefinesReturn DEF CreditRefund, E!Next
  <2>3. CASE UNCHANGED <<balance, stake>>
    BY <1>3, <2>3, RefinesStutter DEF CreditRefund
  <2>. QED
    BY <1>3, <2>2, <2>3 DEF CreditRefund
<1>4. ASSUME NEW p \in Procs, SweepCredit(p) PROVE E!Next \/ UNCHANGED E!escrowVars
  <2>1. claim[p] \in Gens
    BY <1>4 DEF SweepCredit, TypeOK
  <2>2. stake[claim[p]] = "held"
    BY <2>1 DEF Accounts, ClaimsExclusive, Claimed, LedgerMatchesRows, Outstanding
  <2>3. CASE Refund(claim[p])
    BY <1>4, <2>1, <2>2, <2>3, RefinesReturn DEF SweepCredit, E!Next
  <2>4. CASE UNCHANGED <<balance, stake>>
    BY <1>4, <2>4, RefinesStutter DEF SweepCredit
  <2>. QED
    BY <1>4, <2>3, <2>4 DEF SweepCredit
<1>5. ASSUME NEW g \in Gens, GrantReward(g) PROVE E!Next \/ UNCHANGED E!escrowVars
  <2>1. User(g) \in Users /\ UNCHANGED <<req, stake>>
    BY <1>5, CostNat DEF GrantReward
  <2>2. CASE /\ RewardDue(User(g))
             /\ rewarded' = rewarded \cup {User(g)}
             /\ balance' = [balance EXCEPT ![Inviter[User(g)]] = @ + Reward]
    <3>1. E!Grant(User(g))
      BY <2>1, <2>2, FixedRequests DEF RewardDue, E!Grant
    <3>. QED
      BY <2>1, <3>1 DEF E!Next
  <2>3. CASE UNCHANGED <<balance, rewarded>>
    BY <2>1, <2>3, RefinesStutter
  <2>. QED
    BY <1>5, <2>2, <2>3 DEF GrantReward
<1>6. CASE UNCHANGED <<req, balance, stake, rewarded>>
  BY <1>6, RefinesStutter
<1>. QED
  BY <1>1, <1>2, <1>3, <1>4, <1>5, <1>6
  DEF vars, reqVars, logVars, sweepVars, boundVars, Next, Advance, Sweep,
      Admit, TurnAway, PrepareFails, LogPending, LogPendingFails, StartWork, Render, FailWork,
      ClaimRefund, MarkFailed, MarkSuccess, Finish, Grow, ExpireSlot,
      SweepSelect, SweepSkip, SweepAbandon,
      SweepClaim, SweepEnd, Crash, ClearLog

\* Every write to users.credits on behalf of a generation is a deduction, the
\* one return of that deduction, or the one reward of an invitee.
THEOREM Refinement == Spec => ImplementsEscrow
BY RefinesInit, RefinesStep, BillingCorrect, PTL DEF Spec, ImplementsEscrow, E!Spec

-----------------------------------------------------------------------------
(* A failure costs nothing when no statement fails.                        *)

\* While nothing failed and nothing was deleted: no deduction was written off,
\* a logged request has a row, and one past its refund has succeeded, has been
\* refunded, or was free.
PaidBack ==
  faults = 0 /\ clears = 0 =>
    /\ offBook = {}
    /\ \A g \in Gens :
         /\ pc[g] # "unlogged"
         /\ pc[g] \notin BeforeLog \cup {"dead"} => row[g] # "none"
         /\ \/ pc[g] \in {"reward", "finish", "done"}
            \/ pc[g] = "status" /\ Kind(g) # "chat"
            => row[g] = "success" \/ refunded[g] \/ Cost(g) = 0

LEMMA PaidBackStep == BillingInv /\ PaidBack /\ [Next]_vars => PaidBack'
<1>. SUFFICES ASSUME BillingInv, PaidBack, [Next]_vars PROVE PaidBack'
  OBVIOUS
<1>. USE CostNat
     DEF BillingInv, TypeOK, Lifecycle, RowsFit, UnknownBeforeLog, BeforeLog, PaidBack, Kind, Cost,
         reqVars, logVars, sweepVars, boundVars
<1>1. ASSUME NEW g \in Gens, Admit(g) PROVE PaidBack'
  BY <1>1 DEF Admit, Goto
<1>2. ASSUME NEW g \in Gens, TurnAway(g) PROVE PaidBack'
  BY <1>2 DEF TurnAway, LogRejected, Bump, Goto
<1>3. ASSUME NEW g \in Gens, Charge(g) PROVE PaidBack'
  BY <1>3 DEF Charge, Solvent, Goto
<1>4. ASSUME NEW g \in Gens, PrepareFails(g) PROVE PaidBack'
  BY <1>4 DEF PrepareFails, LogRejected, Bump, Goto
<1>5. ASSUME NEW g \in Gens, LogPending(g) PROVE PaidBack'
  BY <1>5 DEF LogPending, Bump, Goto
<1>6. ASSUME NEW g \in Gens, LogPendingFails(g) PROVE PaidBack'
  BY <1>6 DEF LogPendingFails, Fault, Goto
<1>7. ASSUME NEW g \in Gens, RefundUnlogged(g) PROVE PaidBack'
  BY <1>7 DEF RefundUnlogged, NoFault, Fault, Refund, Goto
<1>8. ASSUME NEW g \in Gens, StartWork(g) PROVE PaidBack'
  BY <1>8 DEF StartWork, Goto
<1>9. ASSUME NEW g \in Gens, Render(g) PROVE PaidBack'
  BY <1>9 DEF Render, Goto
<1>10. ASSUME NEW g \in Gens, FailWork(g) PROVE PaidBack'
  BY <1>10 DEF FailWork, FirstFailStep, Goto
<1>11. ASSUME NEW g \in Gens, ClaimRefund(g) PROVE PaidBack'
  BY <1>11 DEF ClaimRefund, NoFault, Fault, Claimable, AfterCredit, Goto
<1>12. ASSUME NEW g \in Gens, CreditRefund(g) PROVE PaidBack'
  <2>1. row[g] = "none" \/ refunded[g]
    BY <1>12 DEF CreditRefund, Accounts, ClaimsExclusive, Claimed
  <2>. QED
    BY <1>12, <2>1 DEF CreditRefund, NoFault, Fault, Refund, AfterCredit, Goto
<1>13. ASSUME NEW g \in Gens, MarkFailed(g) PROVE PaidBack'
  BY <1>13 DEF MarkFailed, SetStatus, Bump, NoFault, Fault, AfterStatus, Goto
<1>14. ASSUME NEW g \in Gens, MarkSuccess(g) PROVE PaidBack'
  BY <1>14 DEF MarkSuccess, SetStatus, Bump, NoFault, Fault, Goto
<1>15. ASSUME NEW g \in Gens, GrantReward(g) PROVE PaidBack'
  BY <1>15 DEF GrantReward, RewardDue, NoFault, Fault, Goto
<1>16. ASSUME NEW g \in Gens, Finish(g) PROVE PaidBack'
  BY <1>16 DEF Finish, Leave, Goto
<1>17. ASSUME NEW g \in Gens, Grow(g) PROVE PaidBack'
  BY <1>17 DEF Grow
<1>18. ASSUME NEW g \in Gens, ExpireSlot(g) PROVE PaidBack'
  BY <1>18 DEF ExpireSlot
<1>19. ASSUME NEW p \in Procs, SweepSelect(p) PROVE PaidBack'
  BY <1>19 DEF SweepSelect, Stale
<1>19a. ASSUME NEW p \in Procs, SweepSkip(p) PROVE PaidBack'
  BY <1>19a DEF SweepSkip
<1>20. ASSUME NEW p \in Procs, SweepAbandon(p) PROVE PaidBack'
  BY <1>20 DEF SweepAbandon, Abandoned, NoFault, Fault
<1>21. ASSUME NEW p \in Procs, NEW g \in Gens, SweepClaim(p, g) PROVE PaidBack'
  BY <1>21 DEF SweepClaim, Claimable, NoFault, Fault
<1>22. ASSUME NEW p \in Procs, SweepCredit(p) PROVE PaidBack'
  BY <1>22 DEF SweepCredit, Refund, NoFault, Fault
<1>23. ASSUME NEW p \in Procs, SweepEnd(p) PROVE PaidBack'
  BY <1>23 DEF SweepEnd
<1>24. ASSUME NEW p \in Procs, Crash(p) PROVE PaidBack'
  BY <1>24 DEF Crash, Running, Fault
<1>25. ASSUME ClearLog PROVE PaidBack'
  BY <1>25 DEF ClearLog
<1>26. CASE UNCHANGED vars
  BY <1>26 DEF vars
<1>. QED
  BY <1>1, <1>2, <1>3, <1>4, <1>5, <1>6, <1>7, <1>8, <1>9, <1>10, <1>11, <1>12, <1>13,
     <1>14, <1>15, <1>16, <1>17, <1>18, <1>19, <1>19a, <1>20, <1>21, <1>22,
     <1>23, <1>24, <1>25, <1>26
  DEF Next, Advance, Sweep

\* A request that ended failed has got its credits back, on every path and in
\* every order of request and sweeps, when no statement failed.
THEOREM FailuresRefunded == Spec => []FailedIsRefunded
<1>1. Init => PaidBack
  BY DEF Init, PaidBack, BeforeLog
<1>2. BillingInv /\ PaidBack => FailedIsRefunded
  BY DEF BillingInv, Accounts, LedgerMatchesRows, Outstanding, PaidBack, FailedIsRefunded
<1>. QED
  BY <1>1, <1>2, PaidBackStep, BillingCorrect, PTL DEF Spec

-----------------------------------------------------------------------------
(* The concurrency cap.                                                    *)

\* A young generation under way holds a slot, and a user's slots are within
\* the cap.
SlotsBounded ==
  /\ IsFiniteSet(slots)
  /\ \A g \in Gens : Gated(g) /\ Generating(g) /\ age[g] = 0 => g \in slots
  /\ Limit > 0 => \A u \in Users : Cardinality({g \in slots : User(g) = u}) <= Limit

\* Releasing slots keeps a user within the cap.
LEMMA FewerSlots ==
  ASSUME TypeOK, SlotsBounded, slots' \subseteq slots, UNCHANGED req
  PROVE  /\ IsFiniteSet(slots')
         /\ Limit > 0 => \A u \in Users : Cardinality({g \in slots' : User(g)' = u}) <= Limit
<1>1. IsFiniteSet(slots')
  BY FS_Subset DEF SlotsBounded
<1>2. ASSUME NEW u \in Users, Limit > 0 PROVE Cardinality({g \in slots' : User(g)' = u}) <= Limit
  <2> DEFINE S == {g \in slots : User(g) = u}
             T == {g \in slots' : User(g)' = u}
  <2>1. T \subseteq S
    BY DEF User
  <2>2. IsFiniteSet(S)
    BY FS_Subset DEF SlotsBounded
  <2>3. Cardinality(T) <= Cardinality(S) /\ Cardinality(T) \in Nat /\ Cardinality(S) \in Nat
    BY <2>1, <2>2, FS_Subset, FS_CardinalityType
  <2>4. Cardinality(S) <= Limit
    BY <1>2 DEF SlotsBounded
  <2>. QED
    BY <2>3, <2>4, BillingAssumption
<1>. QED
  BY <1>1, <1>2

\* A step that takes no slot, starts no generation, and takes a slot only away
\* from what is no young generation any more.
Relaxes ==
  /\ slots' \subseteq slots
  /\ UNCHANGED req
  /\ \A g \in Gens :
       Generating(g)' /\ age'[g] = 0
         => Generating(g) /\ age[g] = 0 /\ (g \in slots => g \in slots')

LEMMA RelaxingStep ==
  ASSUME TypeOK, SlotsBounded, Relaxes PROVE SlotsBounded'
<1>1. \A g \in Gens : Gated(g)' /\ Generating(g)' /\ age'[g] = 0 => g \in slots'
  BY DEF Relaxes, SlotsBounded, Gated, Kind
<1>. QED
  BY <1>1, FewerSlots DEF Relaxes, SlotsBounded

LEMMA SlotsStep == BillingInv /\ SlotsBounded /\ [Next]_vars => SlotsBounded'
<1>. SUFFICES ASSUME BillingInv, SlotsBounded, [Next]_vars PROVE SlotsBounded'
  OBVIOUS
<1>1. ASSUME NEW g \in Gens, Admit(g) PROVE SlotsBounded'
  <2>1. \A h \in Gens : Gated(h) /\ Generating(h)' /\ age[h] = 0 => h \in slots'
    BY <1>1 DEF Admit, Goto, Generating, SlotsBounded, BillingInv, TypeOK
  <2>2. CASE ~Gated(g)
    <3>1. slots' = slots /\ UNCHANGED req
      BY <1>1, <2>2 DEF Admit
    <3>2. \A h \in Gens : Gated(h)' /\ Generating(h)' /\ age'[h] = 0 => h \in slots'
      BY <1>1, <2>1, <3>1 DEF Admit, reqVars, Gated, Kind
    <3>. QED
      BY <3>1, <3>2, FewerSlots DEF SlotsBounded, BillingInv
  <2>3. CASE Gated(g)
    <3>1. slots' = slots \cup {g} /\ SlotFree(g) /\ UNCHANGED <<req, age>>
      BY <1>1, <2>3 DEF Admit, reqVars
    <3>2. IsFiniteSet(slots')
      BY <3>1, FS_AddElement DEF SlotsBounded
    <3>3. ASSUME NEW u \in Users, Limit > 0
          PROVE  Cardinality({h \in slots' : User(h)' = u}) <= Limit
      <4> DEFINE S == {h \in slots : User(h) = u}
                 T == {h \in slots' : User(h)' = u}
      <4>1. IsFiniteSet(S) /\ Cardinality(S) \in Nat /\ Cardinality(S) <= Limit
        BY <3>3, FS_Subset, FS_CardinalityType DEF SlotsBounded
      <4>2. CASE User(g) = u
        <5>1. T = S \cup {g} /\ Members(g) = S
          BY <3>1, <4>2 DEF User, Members
        <5>. HIDE DEF S, T
        <5>2. Cardinality(S) < Limit
          BY <3>1, <3>3, <5>1 DEF SlotFree
        <5>3. Cardinality(T) = IF g \in S THEN Cardinality(S) ELSE Cardinality(S) + 1
          BY <4>1, <5>1, FS_AddElement
        <5>4. Cardinality(T) <= Limit
          BY <4>1, <5>2, <5>3, BillingAssumption
        <5>. QED
          BY <5>4 DEF T
      <4>3. CASE User(g) # u
        <5>1. T = S
          BY <3>1, <4>3 DEF User
        <5>. QED
          BY <4>1, <5>1
      <4>. QED
        BY <4>2, <4>3
    <3>. QED
      BY <2>1, <3>1, <3>2, <3>3 DEF SlotsBounded, Gated, Kind, Generating
  <2>. QED
    BY <2>2, <2>3
<1>. USE DEF BillingInv, TypeOK, Relaxes, Generating, reqVars, logVars, sweepVars, boundVars
<1>2. ASSUME NEW g \in Gens, TurnAway(g) PROVE Relaxes
  BY <1>2 DEF TurnAway, Goto
<1>3. ASSUME NEW g \in Gens, Charge(g) PROVE Relaxes
  BY <1>3 DEF Charge, Goto
<1>4. ASSUME NEW g \in Gens, PrepareFails(g) PROVE Relaxes
  BY <1>4 DEF PrepareFails, Goto
<1>5. ASSUME NEW g \in Gens, LogPending(g) PROVE Relaxes
  BY <1>5 DEF LogPending, Goto
<1>6. ASSUME NEW g \in Gens, LogPendingFails(g) PROVE Relaxes
  BY <1>6 DEF LogPendingFails, Goto
<1>7. ASSUME NEW g \in Gens, RefundUnlogged(g) PROVE Relaxes
  BY <1>7 DEF RefundUnlogged, Goto
<1>8. ASSUME NEW g \in Gens, StartWork(g) PROVE Relaxes
  BY <1>8 DEF StartWork, Goto
<1>9. ASSUME NEW g \in Gens, Render(g) PROVE Relaxes
  BY <1>9 DEF Render, Goto
<1>10. ASSUME NEW g \in Gens, FailWork(g) PROVE Relaxes
  BY <1>10 DEF FailWork, FirstFailStep, Goto
<1>11. ASSUME NEW g \in Gens, ClaimRefund(g) PROVE Relaxes
  BY <1>11 DEF ClaimRefund, AfterCredit, Goto
<1>12. ASSUME NEW g \in Gens, CreditRefund(g) PROVE Relaxes
  BY <1>12 DEF CreditRefund, AfterCredit, Goto
<1>13. ASSUME NEW g \in Gens, MarkFailed(g) PROVE Relaxes
  BY <1>13 DEF MarkFailed, AfterStatus, Goto
<1>14. ASSUME NEW g \in Gens, MarkSuccess(g) PROVE Relaxes
  BY <1>14 DEF MarkSuccess, Goto
<1>15. ASSUME NEW g \in Gens, GrantReward(g) PROVE Relaxes
  BY <1>15 DEF GrantReward, Goto
<1>16. ASSUME NEW g \in Gens, Finish(g) PROVE Relaxes
  BY <1>16 DEF Finish, Leave, Goto
<1>17. ASSUME NEW g \in Gens, Grow(g) PROVE Relaxes
  BY <1>17 DEF Grow, Ages
<1>18. ASSUME NEW g \in Gens, ExpireSlot(g) PROVE Relaxes
  BY <1>18 DEF ExpireSlot
<1>19. ASSUME NEW p \in Procs, SweepSelect(p) PROVE Relaxes
  BY <1>19 DEF SweepSelect
<1>19a. ASSUME NEW p \in Procs, SweepSkip(p) PROVE Relaxes
  BY <1>19a DEF SweepSkip
<1>20. ASSUME NEW p \in Procs, SweepAbandon(p) PROVE Relaxes
  BY <1>20 DEF SweepAbandon
<1>21. ASSUME NEW p \in Procs, NEW g \in Gens, SweepClaim(p, g) PROVE Relaxes
  BY <1>21 DEF SweepClaim
<1>22. ASSUME NEW p \in Procs, SweepCredit(p) PROVE Relaxes
  BY <1>22 DEF SweepCredit
<1>23. ASSUME NEW p \in Procs, SweepEnd(p) PROVE Relaxes
  BY <1>23 DEF SweepEnd
<1>24. ASSUME NEW p \in Procs, Crash(p) PROVE Relaxes
  BY <1>24 DEF Crash, Running
<1>25. ASSUME ClearLog PROVE Relaxes
  BY <1>25 DEF ClearLog
<1>26. CASE UNCHANGED vars
  BY <1>26, RelaxingStep DEF vars, Relaxes, Generating, BillingInv
<1>. QED
  BY RelaxingStep, <1>1, <1>2, <1>3, <1>4, <1>5, <1>6, <1>7, <1>8, <1>9, <1>10, <1>11, <1>12, <1>13,
     <1>14, <1>15, <1>16, <1>17, <1>18, <1>19, <1>19a, <1>20, <1>21, <1>22,
     <1>23, <1>24, <1>25, <1>26
  DEF Next, Advance, Sweep

\* At most Limit gated generations of a user run at once, within the time their
\* slots live.
THEOREM GateHolds == Spec => []GateBound
<1>1. Init => SlotsBounded
  BY FS_EmptySet, BillingAssumption DEF Init, SlotsBounded, Generating
<1>2. BillingInv /\ SlotsBounded => GateBound
  <2>1. SUFFICES ASSUME BillingInv, SlotsBounded, NEW u \in Users, Limit > 0
                 PROVE  Cardinality({g \in Gens : /\ User(g) = u /\ Gated(g)
                                                 /\ Generating(g) /\ age[g] = 0}) <= Limit
    BY DEF GateBound
  <2> DEFINE S == {g \in slots : User(g) = u}
             T == {g \in Gens : User(g) = u /\ Gated(g) /\ Generating(g) /\ age[g] = 0}
  <2>2. T \subseteq S
    BY <2>1 DEF SlotsBounded
  <2>3. IsFiniteSet(S)
    BY <2>1, FS_Subset DEF SlotsBounded
  <2>4. Cardinality(T) <= Cardinality(S) /\ Cardinality(T) \in Nat /\ Cardinality(S) \in Nat
    BY <2>2, <2>3, FS_Subset, FS_CardinalityType
  <2>5. Cardinality(S) <= Limit
    BY <2>1 DEF SlotsBounded
  <2>. QED
    BY <2>4, <2>5, BillingAssumption
<1>. QED
  BY <1>1, <1>2, SlotsStep, BillingCorrect, PTL DEF Spec
-----------------------------------------------------------------------------
(* A request whose row could not be written.                               *)

\* While nothing was deleted: a request that has no row and is past its charge is
\* one that gives itself back, which takes a second fault to fail.
SelfRefunded ==
  /\ \A g \in Gens : ReturnsUnlogged(g)
  /\ clears = 0 =>
       \A g \in Gens :
         /\ pc[g] = "unlogged" => faults >= 1
         /\ row[g] = "none" =>
              /\ pc[g] \in BeforeLog \cup {"finish", "done", "dead"}
              /\ \A p \in Procs : claim[p] # g
              /\ pc[g] \in {"finish", "done"} /\ g \in offBook => faults >= 2

LEMMA SelfRefundedStep == BillingInv /\ SelfRefunded /\ [Next]_vars => SelfRefunded'
<1>. SUFFICES ASSUME BillingInv, SelfRefunded, [Next]_vars PROVE SelfRefunded'
  OBVIOUS
<1>. USE BillingAssumption
     DEF SelfRefunded, ReturnsUnlogged, Cost,
         BillingInv, TypeOK, Lifecycle, RowsFit, UnknownBeforeLog, BeforeLog, Kind, Proc,
         reqVars, logVars, sweepVars, boundVars
<1>1. ASSUME NEW g \in Gens, Admit(g) PROVE SelfRefunded'
  BY <1>1 DEF Admit, Goto
<1>2. ASSUME NEW g \in Gens, TurnAway(g) PROVE SelfRefunded'
  BY <1>2 DEF TurnAway, LogRejected, Bump, Goto
<1>3. ASSUME NEW g \in Gens, Charge(g) PROVE SelfRefunded'
  BY <1>3 DEF Charge, Solvent, Goto
<1>4. ASSUME NEW g \in Gens, PrepareFails(g) PROVE SelfRefunded'
  BY <1>4 DEF PrepareFails, LogRejected, Bump, Goto
<1>5. ASSUME NEW g \in Gens, LogPending(g) PROVE SelfRefunded'
  BY <1>5 DEF LogPending, Bump, Goto
<1>6. ASSUME NEW g \in Gens, LogPendingFails(g) PROVE SelfRefunded'
  BY <1>6 DEF LogPendingFails, Fault, Goto
<1>7. ASSUME NEW g \in Gens, RefundUnlogged(g) PROVE SelfRefunded'
  BY <1>7 DEF RefundUnlogged, NoFault, Fault, Refund, Goto
<1>8. ASSUME NEW g \in Gens, StartWork(g) PROVE SelfRefunded'
  BY <1>8 DEF StartWork, Goto
<1>9. ASSUME NEW g \in Gens, Render(g) PROVE SelfRefunded'
  BY <1>9 DEF Render, Goto
<1>10. ASSUME NEW g \in Gens, FailWork(g) PROVE SelfRefunded'
  BY <1>10 DEF FailWork, FirstFailStep, Goto
<1>11. ASSUME NEW g \in Gens, ClaimRefund(g) PROVE SelfRefunded'
  <2>1. /\ \E to \in {"credit", "finish", "status"} : pc' = [pc EXCEPT ![g] = to]
        /\ faults' \in Nat /\ faults' >= faults
        /\ UNCHANGED <<req, row, claim, offBook, clears>>
    BY <1>11 DEF ClaimRefund, NoFault, Fault, AfterCredit, Goto
  <2>2. clears = 0 => row[g] # "none"
    BY <1>11 DEF ClaimRefund
  <2>. QED
    BY <2>1, <2>2
<1>12. ASSUME NEW g \in Gens, CreditRefund(g) PROVE SelfRefunded'
  BY <1>12 DEF CreditRefund, NoFault, Fault, Refund, AfterCredit, Goto
<1>13. ASSUME NEW g \in Gens, MarkFailed(g) PROVE SelfRefunded'
  BY <1>13 DEF MarkFailed, SetStatus, Bump, NoFault, Fault, AfterStatus, Goto
<1>14. ASSUME NEW g \in Gens, MarkSuccess(g) PROVE SelfRefunded'
  BY <1>14 DEF MarkSuccess, SetStatus, Bump, NoFault, Fault, Goto
<1>15. ASSUME NEW g \in Gens, GrantReward(g) PROVE SelfRefunded'
  BY <1>15 DEF GrantReward, RewardDue, NoFault, Fault, Goto
<1>16. ASSUME NEW g \in Gens, Finish(g) PROVE SelfRefunded'
  BY <1>16 DEF Finish, Leave, Goto
<1>17. ASSUME NEW g \in Gens, Grow(g) PROVE SelfRefunded'
  BY <1>17 DEF Grow, Ages, WorkLimit
<1>18. ASSUME NEW g \in Gens, ExpireSlot(g) PROVE SelfRefunded'
  BY <1>18 DEF ExpireSlot
<1>19. ASSUME NEW p \in Procs, SweepSelect(p) PROVE SelfRefunded'
  BY <1>19 DEF SweepSelect, Stale
<1>20. ASSUME NEW p \in Procs, SweepSkip(p) PROVE SelfRefunded'
  BY <1>20 DEF SweepSkip, SkipLive
<1>21. ASSUME NEW p \in Procs, SweepAbandon(p) PROVE SelfRefunded'
  BY <1>21 DEF SweepAbandon, Abandoned, NoFault, Fault
<1>22. ASSUME NEW p \in Procs, SweepCredit(p) PROVE SelfRefunded'
  BY <1>22 DEF SweepCredit, Refund, NoFault, Fault
<1>23. ASSUME NEW p \in Procs, SweepEnd(p) PROVE SelfRefunded'
  BY <1>23 DEF SweepEnd
<1>24. ASSUME NEW p \in Procs, Crash(p) PROVE SelfRefunded'
  BY <1>24 DEF Crash, Running, Fault
<1>25. ASSUME NEW p \in Procs, NEW g \in Gens, SweepClaim(p, g) PROVE SelfRefunded'
  BY <1>25 DEF SweepClaim, Claimable, NoFault, Fault
<1>26. ASSUME ClearLog PROVE SelfRefunded'
  BY <1>26 DEF ClearLog
<1>27. CASE UNCHANGED vars
  BY <1>27 DEF vars
<1>. QED
  BY <1>1, <1>2, <1>3, <1>4, <1>5, <1>6, <1>7, <1>8, <1>9, <1>10, <1>11, <1>12, <1>13,
     <1>14, <1>15, <1>16, <1>17, <1>18, <1>19, <1>20, <1>21, <1>22, <1>23, <1>24,
     <1>25, <1>26, <1>27
  DEF Next, Advance, Sweep

\* A request that ends without a row costs nothing, as long as the failure to write
\* it is the only one: for images, chats and model tests, which give their charge
\* back themselves.  (Videos do not: nothing in LogPendingFails refunds them.)
THEOREM UnloggedRefunded ==
  ASSUME \A w \in Workloads, g \in Gens : w[g].kind \notin {"video", "job"}
  PROVE  Spec => []UnloggedIsRefunded
<1>1. Init => SelfRefunded
  BY BillingAssumption DEF Init, SelfRefunded, ReturnsUnlogged, Kind, Kinds, Request, BeforeLog
<1>2. BillingInv /\ SelfRefunded => UnloggedIsRefunded
  BY DEF BillingInv, TypeOK, Accounts, LedgerMatchesRows, Outstanding, Claimed, SelfRefunded,
         UnloggedIsRefunded, BeforeLog
<1>. QED
  BY <1>1, <1>2, SelfRefundedStep, BillingCorrect, PTL DEF Spec

-----------------------------------------------------------------------------
(* What the sweep abandons.                                                *)

\* Where statements around the work take minutes at most, only the work and what
\* follows it grow old; a generation with a deadline is registered while it works,
\* and the sweep's registry check leaves it out.
SparedByTheSweep ==
  \A g \in Gens :
    /\ pc[g] \in BeforeLog \cup {"logged"} => age[g] = 0
    /\ Kind(g) # "chat" =>
         /\ pc[g] \in {"work", "rendered"} => age[g] < 2 /\ g \in inflight
         /\ row[g] = "failed" => pc[g] \notin {"logged", "work", "rendered"}
    /\ \A p \in Procs :
         g \in todo[p] =>
           /\ pc[g] \notin BeforeLog \cup {"logged"}
           /\ Kind(g) # "chat" /\ sweepPc[p] \in {"skipped", "purging"}
                => pc[g] \notin {"work", "rendered"}
    /\ \A p \in Procs : sweepPc[p] = "idle" => todo[p] = {}

LEMMA SparedStep ==
  ASSUME Prompt, \A p, q \in Procs : p = q
  PROVE  BillingInv /\ SparedByTheSweep /\ [Next]_vars => SparedByTheSweep'
<1>. SUFFICES ASSUME BillingInv, SparedByTheSweep, [Next]_vars PROVE SparedByTheSweep'
  OBVIOUS
<1>. USE DEF SparedByTheSweep, Request, Kinds,
         BillingInv, TypeOK, Lifecycle, RowsFit, UnknownBeforeLog, BeforeLog, Kind, Proc,
         reqVars, logVars, sweepVars, boundVars
<1>1. ASSUME NEW g \in Gens, Admit(g) PROVE SparedByTheSweep'
  BY <1>1 DEF Admit, Goto
<1>2. ASSUME NEW g \in Gens, TurnAway(g) PROVE SparedByTheSweep'
  BY <1>2 DEF TurnAway, LogRejected, Bump, Goto
<1>3. ASSUME NEW g \in Gens, Charge(g) PROVE SparedByTheSweep'
  BY <1>3 DEF Charge, Solvent, Goto
<1>4. ASSUME NEW g \in Gens, PrepareFails(g) PROVE SparedByTheSweep'
  BY <1>4 DEF PrepareFails, LogRejected, Bump, Goto
<1>5. ASSUME NEW g \in Gens, LogPending(g) PROVE SparedByTheSweep'
  BY <1>5 DEF LogPending, Bump, Goto
<1>6. ASSUME NEW g \in Gens, LogPendingFails(g) PROVE SparedByTheSweep'
  BY <1>6 DEF LogPendingFails, Fault, Goto
<1>7. ASSUME NEW g \in Gens, RefundUnlogged(g) PROVE SparedByTheSweep'
  BY <1>7 DEF RefundUnlogged, NoFault, Fault, Refund, Goto
<1>8. ASSUME NEW g \in Gens, StartWork(g) PROVE SparedByTheSweep'
  BY <1>8 DEF StartWork, Goto
<1>9. ASSUME NEW g \in Gens, Render(g) PROVE SparedByTheSweep'
  BY <1>9 DEF Render, Goto
<1>10. ASSUME NEW g \in Gens, FailWork(g) PROVE SparedByTheSweep'
  BY <1>10 DEF FailWork, FirstFailStep, Goto
<1>11. ASSUME NEW g \in Gens, ClaimRefund(g) PROVE SparedByTheSweep'
  BY <1>11 DEF ClaimRefund, NoFault, Fault, Claimable, AfterCredit, Goto
<1>12. ASSUME NEW g \in Gens, CreditRefund(g) PROVE SparedByTheSweep'
  BY <1>12 DEF CreditRefund, NoFault, Fault, Refund, AfterCredit, Goto
<1>13. ASSUME NEW g \in Gens, MarkFailed(g) PROVE SparedByTheSweep'
  BY <1>13 DEF MarkFailed, SetStatus, Bump, NoFault, Fault, AfterStatus, Goto
<1>14. ASSUME NEW g \in Gens, MarkSuccess(g) PROVE SparedByTheSweep'
  BY <1>14 DEF MarkSuccess, SetStatus, Bump, NoFault, Fault, Goto
<1>15. ASSUME NEW g \in Gens, GrantReward(g) PROVE SparedByTheSweep'
  BY <1>15 DEF GrantReward, RewardDue, NoFault, Fault, Goto
<1>16. ASSUME NEW g \in Gens, Finish(g) PROVE SparedByTheSweep'
  BY <1>16 DEF Finish, Leave, Goto
<1>17. ASSUME NEW g \in Gens, Grow(g) PROVE SparedByTheSweep'
  BY <1>17 DEF Grow, Ages, WorkLimit
<1>18. ASSUME NEW g \in Gens, ExpireSlot(g) PROVE SparedByTheSweep'
  BY <1>18 DEF ExpireSlot
<1>19. ASSUME NEW p \in Procs, SweepSelect(p) PROVE SparedByTheSweep'
  BY <1>19 DEF SweepSelect, Stale
<1>20. ASSUME NEW p \in Procs, SweepSkip(p) PROVE SparedByTheSweep'
  BY <1>20 DEF SweepSkip, SkipLive
<1>21. ASSUME NEW p \in Procs, SweepAbandon(p) PROVE SparedByTheSweep'
  BY <1>21 DEF SweepAbandon, Abandoned, NoFault, Fault
<1>22. ASSUME NEW p \in Procs, SweepCredit(p) PROVE SparedByTheSweep'
  BY <1>22 DEF SweepCredit, Refund, NoFault, Fault
<1>23. ASSUME NEW p \in Procs, SweepEnd(p) PROVE SparedByTheSweep'
  BY <1>23 DEF SweepEnd
<1>24. ASSUME NEW p \in Procs, Crash(p) PROVE SparedByTheSweep'
  BY <1>24 DEF Crash, Running, Fault
<1>25. ASSUME NEW p \in Procs, NEW g \in Gens, SweepClaim(p, g) PROVE SparedByTheSweep'
  BY <1>25 DEF SweepClaim, Claimable, NoFault, Fault
<1>26. ASSUME ClearLog PROVE SparedByTheSweep'
  BY <1>26 DEF ClearLog
<1>27. CASE UNCHANGED vars
  BY <1>27 DEF vars
<1>. QED
  BY <1>1, <1>2, <1>3, <1>4, <1>5, <1>6, <1>7, <1>8, <1>9, <1>10, <1>11, <1>12, <1>13,
     <1>14, <1>15, <1>16, <1>17, <1>18, <1>19, <1>20, <1>21, <1>22, <1>23, <1>24,
     <1>25, <1>26, <1>27
  DEF Next, Advance, Sweep

\* A row becomes a success when its own request says so.
LEMMA SuccessMove ==
  ASSUME BillingInv, [Next]_vars, NEW h \in Gens, row'[h] = "success", row[h] # "success"
  PROVE  pc[h] = "rendered"
<1>. USE DEF BillingInv, TypeOK, reqVars, logVars, sweepVars, boundVars
<1>1. ASSUME NEW g \in Gens, Admit(g) PROVE pc[h] = "rendered"
  BY <1>1 DEF Admit, Goto
<1>2. ASSUME NEW g \in Gens, TurnAway(g) PROVE pc[h] = "rendered"
  BY <1>2 DEF TurnAway, LogRejected, Bump, Goto
<1>3. ASSUME NEW g \in Gens, Charge(g) PROVE pc[h] = "rendered"
  BY <1>3 DEF Charge, Solvent, Goto
<1>4. ASSUME NEW g \in Gens, PrepareFails(g) PROVE pc[h] = "rendered"
  BY <1>4 DEF PrepareFails, LogRejected, Bump, Goto
<1>5. ASSUME NEW g \in Gens, LogPending(g) PROVE pc[h] = "rendered"
  BY <1>5 DEF LogPending, Bump, Goto
<1>6. ASSUME NEW g \in Gens, LogPendingFails(g) PROVE pc[h] = "rendered"
  BY <1>6 DEF LogPendingFails, Fault, Goto
<1>7. ASSUME NEW g \in Gens, RefundUnlogged(g) PROVE pc[h] = "rendered"
  BY <1>7 DEF RefundUnlogged, NoFault, Fault, Refund, Goto
<1>8. ASSUME NEW g \in Gens, StartWork(g) PROVE pc[h] = "rendered"
  BY <1>8 DEF StartWork, Goto
<1>9. ASSUME NEW g \in Gens, Render(g) PROVE pc[h] = "rendered"
  BY <1>9 DEF Render, Goto
<1>10. ASSUME NEW g \in Gens, FailWork(g) PROVE pc[h] = "rendered"
  BY <1>10 DEF FailWork, FirstFailStep, Goto
<1>11. ASSUME NEW g \in Gens, ClaimRefund(g) PROVE pc[h] = "rendered"
  BY <1>11 DEF ClaimRefund, NoFault, Fault, Claimable, AfterCredit, Goto
<1>12. ASSUME NEW g \in Gens, CreditRefund(g) PROVE pc[h] = "rendered"
  BY <1>12 DEF CreditRefund, NoFault, Fault, Refund, AfterCredit, Goto
<1>13. ASSUME NEW g \in Gens, MarkFailed(g) PROVE pc[h] = "rendered"
  BY <1>13 DEF MarkFailed, SetStatus, Bump, NoFault, Fault, AfterStatus, Goto
<1>14. ASSUME NEW g \in Gens, MarkSuccess(g) PROVE pc[h] = "rendered"
  BY <1>14 DEF MarkSuccess, SetStatus, Bump, NoFault, Fault, Goto
<1>15. ASSUME NEW g \in Gens, GrantReward(g) PROVE pc[h] = "rendered"
  BY <1>15 DEF GrantReward, RewardDue, NoFault, Fault, Goto
<1>16. ASSUME NEW g \in Gens, Finish(g) PROVE pc[h] = "rendered"
  BY <1>16 DEF Finish, Leave, Goto
<1>17. ASSUME NEW g \in Gens, Grow(g) PROVE pc[h] = "rendered"
  BY <1>17 DEF Grow, Ages, WorkLimit
<1>18. ASSUME NEW g \in Gens, ExpireSlot(g) PROVE pc[h] = "rendered"
  BY <1>18 DEF ExpireSlot
<1>19. ASSUME NEW p \in Procs, SweepSelect(p) PROVE pc[h] = "rendered"
  BY <1>19 DEF SweepSelect, Stale
<1>20. ASSUME NEW p \in Procs, SweepSkip(p) PROVE pc[h] = "rendered"
  BY <1>20 DEF SweepSkip, SkipLive
<1>21. ASSUME NEW p \in Procs, SweepAbandon(p) PROVE pc[h] = "rendered"
  BY <1>21 DEF SweepAbandon, Abandoned, NoFault, Fault
<1>22. ASSUME NEW p \in Procs, SweepCredit(p) PROVE pc[h] = "rendered"
  BY <1>22 DEF SweepCredit, Refund, NoFault, Fault
<1>23. ASSUME NEW p \in Procs, SweepEnd(p) PROVE pc[h] = "rendered"
  BY <1>23 DEF SweepEnd
<1>24. ASSUME NEW p \in Procs, Crash(p) PROVE pc[h] = "rendered"
  BY <1>24 DEF Crash, Running, Fault
<1>25. ASSUME NEW p \in Procs, NEW g \in Gens, SweepClaim(p, g) PROVE pc[h] = "rendered"
  BY <1>25 DEF SweepClaim, Claimable, NoFault, Fault
<1>26. ASSUME ClearLog PROVE pc[h] = "rendered"
  BY <1>26 DEF ClearLog
<1>27. CASE UNCHANGED vars
  BY <1>27 DEF vars
<1>. QED
  BY <1>1, <1>2, <1>3, <1>4, <1>5, <1>6, <1>7, <1>8, <1>9, <1>10, <1>11, <1>12, <1>13,
     <1>14, <1>15, <1>16, <1>17, <1>18, <1>19, <1>20, <1>21, <1>22, <1>23, <1>24,
     <1>25, <1>26, <1>27
  DEF Next, Advance, Sweep

\* With one backend process no image, video or job that the sweep abandoned turns
\* into a success later: who is at work is registered, and spared.
THEOREM OnlyChatsLate ==
  ASSUME Prompt, \A p, q \in Procs : p = q
  PROVE  Spec => OnlyChatsAreLate
<1>1. Init => SparedByTheSweep
  BY DEF Init, SparedByTheSweep, BeforeLog
<1>2. BillingInv /\ SparedByTheSweep /\ [Next]_vars
        => [\A g \in Gens : row[g] = "failed" /\ row'[g] = "success" => Kind(g) = "chat"]_vars
  <2>1. SUFFICES ASSUME BillingInv, SparedByTheSweep, [Next]_vars,
                        NEW g \in Gens, row[g] = "failed", row'[g] = "success"
                 PROVE  Kind(g) = "chat"
    OBVIOUS
  <2>2. pc[g] = "rendered"
    BY <2>1, SuccessMove
  <2>. QED
    BY <2>1, <2>2 DEF SparedByTheSweep
<1>. QED
  BY <1>1, <1>2, SparedStep, BillingCorrect, PTL DEF Spec, OnlyChatsAreLate
=============================================================================

---------------------------- MODULE BalanceSweep ----------------------------
(***************************************************************************)
(* The maintenance sweep looks at a few grok accounts (are they alive?) or *)
(* a few poor oreate accounts (has the balance come back?) at a time: the  *)
(* ones that were looked at longest ago, and none twice within an          *)
(* interval.  Time is counted in sweeps; the interval and the batch of the *)
(* code are six hours or thirty minutes, and four accounts.                *)
(***************************************************************************)
EXTENDS Integers, FiniteSets, FiniteSetsExt

CONSTANTS
  Pool,      \* "grok" or "oreate"
  Accounts,  \* 1..n, in the order of their creation
  Batch, Interval

\* What an instance must give the constants.
SweepAssumption ==
  /\ Pool \in {"grok", "oreate"}
  /\ IsFiniteSet(Accounts) /\ Accounts = 1..Cardinality(Accounts)
  /\ Batch \in Nat \ {0} /\ Interval \in Nat \ {0}

VARIABLES
  status,   \* of each account: not there, active, limited, disabled
  poor,     \* accounts whose cached balance is below the floor
  checked,  \* sweeps since each account was last looked at
  todo      \* accounts of the batch still to look at

vars == <<status, poor, checked, todo>>

\* What has never been looked at is the oldest.
Never == Interval + Cardinality(Accounts) + 1

BalanceSweepTypeOK ==
  /\ status \in [Accounts -> {"none", "active", "quota", "disabled"}]
  /\ poor \subseteq Accounts
  /\ checked \in [Accounts -> 0..Never]
  /\ todo \subseteq Accounts /\ Cardinality(todo) <= Batch

Init ==
  /\ status \in [Accounts -> {"none", "active", "quota"}]
  /\ poor \in SUBSET Accounts
  /\ checked = [a \in Accounts |-> 0]
  /\ todo = {}

\* Which accounts the sweep cares for.
selectGrok(a) == status[a] \in {"active", "quota"}
selectOreate(a) == status[a] = "quota" \/ (status[a] = "active" /\ a \in poor)
Watched(a) == IF Pool = "grok" THEN selectGrok(a) ELSE selectOreate(a)

Due == {a \in Accounts : Watched(a) /\ checked[a] >= Interval}

\* Oldest look first, then the order of creation.
Before(a, b) == checked[a] > checked[b] \/ (checked[a] = checked[b] /\ a < b)

Candidates == {a \in Due : Cardinality({b \in Due : b # a /\ Before(b, a)}) < Batch}

-----------------------------------------------------------------------------
\* The next sweep comes and takes a batch; the one before has ended, the grok
\* one because it runs within the sweep, the oreate one by its guard.
Sweep ==
  /\ todo = {}
  /\ checked' = [a \in Accounts |-> IF status[a] # "none" /\ checked[a] < Never THEN checked[a] + 1 ELSE checked[a]]
  /\ todo' = Candidates
  /\ UNCHANGED <<status, poor>>

\* Mutant of Stamp: only an answer is stamped.
StampAnswered(a, answered) == IF answered THEN [checked EXCEPT ![a] = 0] ELSE checked

\* The time is written whatever came of the probe.
Stamp(a, answered) == [checked EXCEPT ![a] = 0]

\* A grok account is left as it is, even when the session is refused.
RefreshGrokLiveness(a, answered) ==
  /\ Pool = "grok"
  /\ IF answered THEN poor' \in {poor \cup {a}, poor \ {a}} ELSE UNCHANGED poor
  /\ UNCHANGED status

\* An oreate account is limited below the floor and active above it.
RefreshLowCreditOreateAccounts(a, answered) ==
  /\ Pool = "oreate"
  /\ \/ ~answered /\ UNCHANGED <<poor, status>>
     \/ /\ answered /\ poor' = poor \cup {a}
        /\ status' = IF status[a] = "active" THEN [status EXCEPT ![a] = "quota"] ELSE status
     \/ /\ answered /\ poor' = poor \ {a}
        /\ status' = IF status[a] = "quota" THEN [status EXCEPT ![a] = "active"] ELSE status

Check(a) ==
  /\ a \in todo
  /\ todo' = todo \ {a}
  /\ IF status[a] = "none" THEN UNCHANGED <<status, poor, checked>>
     ELSE \E answered \in BOOLEAN :
       /\ checked' = Stamp(a, answered)
       /\ RefreshGrokLiveness(a, answered) \/ RefreshLowCreditOreateAccounts(a, answered)

\* Generations and the administrator: accounts come, go, run out and recover.
Change(a) ==
  /\ todo = {}
  /\ \/ /\ status[a] = "none"
        /\ status' = [status EXCEPT ![a] = "active"]
        /\ checked' = [checked EXCEPT ![a] = Never]
     \/ /\ status[a] # "none"
        /\ \E s \in {"none", "active", "quota", "disabled"} \ {status[a]} : status' = [status EXCEPT ![a] = s]
        /\ UNCHANGED checked
  /\ UNCHANGED <<poor, todo>>

Next == Sweep \/ \E a \in Accounts : Check(a) \/ Change(a)

Spec == Init /\ [][Next]_vars

\* The sweep starts every minute; a probe has a timeout.
FairSpec == Spec /\ WF_vars(Sweep) /\ \A a \in Accounts : WF_vars(Check(a))

\* From some time on the accounts do not change.
Calm == <>[][~\E a \in Accounts : Change(a)]_vars

-----------------------------------------------------------------------------
\* selectGrokLivenessCandidates, selectOreateQuotaRefreshCandidates: no account
\* crowds the others out, whatever becomes of its own probe: one the sweep cares
\* for is looked at again and again, or stops to be cared for.
EveryoneIsChecked ==
  Calm => \A a \in Accounts : []<>(a \in todo \/ ~Watched(a))
=============================================================================

------------------------------- MODULE Escrow -------------------------------
(***************************************************************************)
(* What the billing of image2api promises, and nothing about how: credits  *)
(* are deducted before a generation starts and given back at most once     *)
(* ("pre-deduct + refund on failure", README.en.md:112), and the inviter   *)
(* of a user is rewarded at most once.  Every write the code makes to      *)
(* users.credits on behalf of a generation is one of the three actions     *)
(* below; GenBilling is shown to implement this specification.             *)
(***************************************************************************)
EXTENDS Integers, FiniteSetsExt

CONSTANTS
  Users,        \* accounts with a credit balance
  Gens,         \* generation requests, each used once
  NoUser,       \* "not invited by anyone"
  Inviter,      \* [Users -> Users \cup {NoUser}], users.invited_by
  Costs,        \* what a generation may cost
  Reward,       \* credits.invite_reward
  InitCredits   \* every user's balance before the first request

\* What an instance must give the constants.
EscrowAssumption ==
  /\ NoUser \notin Users
  /\ Inviter \in [Users -> Users \cup {NoUser}]
  /\ Costs \subseteq Nat
  /\ Reward \in Nat
  /\ InitCredits \in Nat

VARIABLES
  balance,      \* users.credits
  stake,        \* what became of the generation's deduction
  rewarded,     \* users with invite_reward_done
  owner,        \* the user a generation is charged to
  cost          \* what it costs that user

escrowVars == <<balance, stake, rewarded, owner, cost>>

Init ==
  /\ balance = [u \in Users |-> InitCredits]
  /\ stake = [g \in Gens |-> "none"]
  /\ rewarded = {}
  /\ owner \in [Gens -> Users]
  /\ cost \in [Gens -> Costs]

\* Credits leave the balance only for a generation that holds none yet, and
\* never below zero.
Charge(g) ==
  /\ stake[g] = "none"
  /\ cost[g] > 0
  /\ balance[owner[g]] >= cost[g]
  /\ balance' = [balance EXCEPT ![owner[g]] = @ - cost[g]]
  /\ stake' = [stake EXCEPT ![g] = "held"]
  /\ UNCHANGED <<rewarded, owner, cost>>

\* They come back once, to the same user, in the same amount.
Return(g) ==
  /\ stake[g] = "held"
  /\ balance' = [balance EXCEPT ![owner[g]] = @ + cost[g]]
  /\ stake' = [stake EXCEPT ![g] = "returned"]
  /\ UNCHANGED <<rewarded, owner, cost>>

Grant(u) ==
  /\ u \notin rewarded
  /\ Inviter[u] # NoUser
  /\ balance' = [balance EXCEPT ![Inviter[u]] = @ + Reward]
  /\ rewarded' = rewarded \cup {u}
  /\ UNCHANGED <<stake, owner, cost>>

Next ==
  \/ \E g \in Gens : Charge(g) \/ Return(g)
  \/ \E u \in Users : Grant(u)

Spec == Init /\ [][Next]_escrowVars

-----------------------------------------------------------------------------
HeldBy(u) == {g \in Gens : owner[g] = u /\ stake[g] = "held"}
InvitedBy(u) == {v \in rewarded : Inviter[v] = u}

\* Credits are neither minted nor lost: a balance is what the user started
\* with, less what is deducted and not given back, plus the invite rewards.
Conserved ==
  \A u \in Users :
    balance[u] = InitCredits - MapThenSumSet(LAMBDA g : cost[g], HeldBy(u))
                   + MapThenSumSet(LAMBDA v : Reward, InvitedBy(u))
=============================================================================

----------------------------- MODULE GenBilling -----------------------------
(***************************************************************************)
(* The life of a generation request and of the credits it costs: the       *)
(* request goroutine of service/v1.go (images, videos, asynchronous video  *)
(* jobs, chat completions, admin model tests), the event_log row it        *)
(* writes, the user's balance, the per-user concurrency slots, the         *)
(* in-flight registry, and the maintenance sweep of service/maintenance.go *)
(* that abandons and refunds what was left behind.  Requests and sweeps of *)
(* several backend processes share the database and Redis; a process may   *)
(* crash between any two steps and a database statement may fail.          *)
(*                                                                         *)
(* One step is one database statement or transaction, or one update of     *)
(* process memory.  Left out: what a parameter check looks at (it may      *)
(* reject any request before the charge), what the upstream account does   *)
(* (the work of a request just succeeds or fails) and the wording of       *)
(* errors.  Redis being down (Acquire fails open) is not an event here.    *)
(***************************************************************************)
EXTENDS Integers, FiniteSets

CONSTANTS
  Users, Gens, Procs,     \* accounts, requests (each submitted once), backend processes
  Workloads,              \* the requests explored: a set of [Gens -> Request]
  Price,                  \* [Kinds -> Nat], what a request of a kind costs
  InitCredits,            \* balance of a user before the first request
  Limit,                  \* max_concurrency of the users' group, 0 = unlimited
  NoUser, Inviter, Reward,\* invited_by, and the reward of an invitation
  NoGen,                  \* no event claimed
  Prompt,                 \* TRUE: the statements around the work take minutes at most
  MaxFaults,              \* bound on crashes and failed statements
  MaxClears               \* bound on an admin's deletions of log rows

\* The five ways a generation is started: prepareImageExecution and
\* prepareVideoExecution (source user or v1), StartVideoJob,
\* prepareChatCompletion, and the admin model test (charge = false).
Kinds == {"image", "video", "job", "chat", "test"}
Request == [user : Users, kind : Kinds, proc : Procs]

ASSUME BillingAssumption ==
  /\ Workloads \subseteq [Gens -> Request]
  /\ Price \in [Kinds -> Nat]
  /\ Price["test"] = 0
  /\ InitCredits \in Nat
  /\ Limit \in Nat
  /\ NoUser \notin Users
  /\ NoGen \notin Gens
  /\ Inviter \in [Users -> Users \cup {NoUser}]
  /\ Reward \in Nat
  /\ Prompt \in BOOLEAN
  /\ MaxFaults \in Nat
  /\ MaxClears \in Nat

VARIABLES
  req,        \* the attributes of each request (chosen once)
  pc,         \* where its goroutine is
  age,        \* how long ago it started, see Ages
  row,        \* event_log.status of its row
  refunded,   \* event_log.refunded of its row
  inflight,   \* requests registered in their process's InflightRegistry
  cancelled,  \* requests whose work context was cancelled by the sweep
  slots,      \* members of the Redis sets conc:u:<user>
  balance,    \* users.credits
  rewarded,   \* users with invite_reward_done
  counters,   \* the stat_counters total, success and failed
  sweepPc,    \* where the maintenance goroutine of a process is
  todo,       \* the stale events it still has to handle
  claim,      \* the event whose refund it has claimed and not yet credited
  stake,      \* history: was the request's cost deducted, and given back
  offBook,    \* history: requests whose deduction no log row accounts for
  faults, clears  \* faults and deletions so far

reqVars == <<pc, age, cancelled>>
logVars == <<row, refunded, counters>>
sweepVars == <<sweepPc, todo, claim>>
boundVars == <<faults, clears>>
vars == <<req, pc, age, row, refunded, inflight, cancelled, slots, balance, rewarded,
          counters, sweepPc, todo, claim, stake, offBook, faults, clears>>

User(g) == req[g].user
Kind(g) == req[g].kind
Proc(g) == req[g].proc
Cost(g) == Price[Kind(g)]

(***************************************************************************)
(* Time is the age of a request in three classes: 0, below stalePending    *)
(* (10 minutes, the cutoff of PurgeStale); 1, up to three times that (the  *)
(* window in which an event still in the in-flight registry is spared);    *)
(* 2, beyond.                                                              *)
(***************************************************************************)
Ages == 0..2

\* The class by whose end the work context has expired: 8 minutes for an
\* image, 12 for a video.  A chat completion has no work context.
WorkLimit(g) ==
  CASE Kind(g) = "image" -> 0
    [] Kind(g) \in {"video", "job", "test"} -> 1
    [] Kind(g) = "chat" -> 2

PCs == {"idle", "admitted", "charged", "unlogged", "logged", "work", "rendered", "reward",
        "claim", "credit", "status", "finish", "done", "rejected", "dead"}
\* Program points before the row of a request is written.
BeforeLog == {"idle", "admitted", "rejected", "charged", "unlogged"}

Running(g) == pc[g] \notin {"idle", "done", "rejected", "dead"}
Generating(g) == pc[g] \in {"admitted", "charged", "logged", "work", "rendered"}

TypeOK ==
  /\ req \in [Gens -> Request]
  /\ pc \in [Gens -> PCs]
  /\ age \in [Gens -> Ages]
  /\ row \in [Gens -> {"none", "pending", "success", "failed", "rejected"}]
  /\ refunded \in [Gens -> BOOLEAN]
  /\ inflight \subseteq Gens
  /\ cancelled \subseteq Gens
  /\ slots \subseteq Gens
  /\ balance \in [Users -> Nat]
  /\ rewarded \subseteq Users
  /\ counters \in [{"total", "success", "failed"} -> Nat]
  /\ sweepPc \in [Procs -> {"idle", "selected", "skipped", "purging"}]
  /\ todo \in [Procs -> SUBSET Gens]
  /\ claim \in [Procs -> Gens \cup {NoGen}]
  /\ stake \in [Gens -> {"none", "held", "returned"}]
  /\ offBook \subseteq Gens
  /\ faults \in Nat
  /\ clears \in Nat

Init ==
  /\ req \in Workloads
  /\ pc = [g \in Gens |-> "idle"]
  /\ age = [g \in Gens |-> 0]
  /\ row = [g \in Gens |-> "none"]
  /\ refunded = [g \in Gens |-> FALSE]
  /\ inflight = {}
  /\ cancelled = {}
  /\ slots = {}
  /\ balance = [u \in Users |-> InitCredits]
  /\ rewarded = {}
  /\ counters = [c \in {"total", "success", "failed"} |-> 0]
  /\ sweepPc = [p \in Procs |-> "idle"]
  /\ todo = [p \in Procs |-> {}]
  /\ claim = [p \in Procs |-> NoGen]
  /\ stake = [g \in Gens |-> "none"]
  /\ offBook = {}
  /\ faults = 0
  /\ clears = 0

-----------------------------------------------------------------------------
(* Helpers: the repository calls the handlers are made of.                 *)

Goto(g, to) == pc' = [pc EXCEPT ![g] = to]

Fault == faults < MaxFaults /\ faults' = faults + 1
NoFault == UNCHANGED faults

Bump(c) == counters' = [counters EXCEPT ![c] = @ + 1]

\* Members of the Redis set conc:u:<user of g>.
Members(g) == {h \in slots : User(h) = User(g)}

\* Mutant of SlotFree: the cap is compared with <=.
SlotFreeOffByOne(g) == Limit = 0 \/ Cardinality(Members(g)) <= Limit

\* userAcquire: the user's live members against the group's cap.
SlotFree(g) == Limit = 0 \/ Cardinality(Members(g)) < Limit

\* The deferred InflightRegistry.Done and userRelease of a returning handler.
Leave(g) == inflight' = inflight \ {g} /\ slots' = slots \ {g}

\* TryDebitCredits under its row lock.
Solvent(g) == balance[User(g)] >= Cost(g)

\* logRejectedEvent: a failed row without cost.
LogRejected(g) == row' = [row EXCEPT ![g] = "rejected"] /\ Bump("total")

\* AdjustCredits of a refund.
Refund(g) ==
  /\ balance' = [balance EXCEPT ![User(g)] = @ + Cost(g)]
  /\ stake' = [stake EXCEPT ![g] = "returned"]

\* Mutant of Claimable: an UPDATE without refunded = false.
ClaimableAlways(g) == row[g] # "none"

\* MarkRefunded: at most one caller sees TRUE.
Claimable(g) == row[g] # "none" /\ ~refunded[g]

\* Where a failing request begins, and goes on, with its bookkeeping: media
\* refund before they write the status, chat after.
FirstFailStep(g) == IF Kind(g) = "chat" THEN "status" ELSE "claim"
AfterCredit(g) == IF Kind(g) = "chat" THEN "finish" ELSE "status"

\* Mutant of AfterStatus: chat ends with the status, its refund forgotten.
AfterStatusForgetful(g) == "finish"
AfterStatus(g) == IF Kind(g) = "chat" THEN "claim" ELSE "finish"

-----------------------------------------------------------------------------
(* The request goroutine.                                                  *)

\* userAcquire, which StartVideoJob does not call and admin tests are exempt of.
Gated(g) == Kind(g) \in {"image", "video", "chat"}

Admit(g) ==
  /\ pc[g] = "idle"
  /\ Gated(g) => SlotFree(g)
  /\ slots' = IF Gated(g) THEN slots \cup {g} ELSE slots
  /\ Goto(g, "admitted")
  /\ UNCHANGED <<req, age, cancelled, logVars, inflight, balance, rewarded, sweepVars,
                 stake, offBook, boundVars>>

TurnAway(g) ==
  /\ pc[g] = "idle"
  /\ Gated(g) /\ ~SlotFree(g)
  /\ LogRejected(g)
  /\ Goto(g, "rejected")
  /\ UNCHANGED <<req, age, cancelled, refunded, inflight, slots, balance, rewarded, sweepVars,
                 stake, offBook, boundVars>>

\* chargeForModel / TryDebitCredits: one transaction with the row locked.
Charge(g) ==
  /\ pc[g] = "admitted"
  /\ Solvent(g)
  /\ balance' = [balance EXCEPT ![User(g)] = @ - Cost(g)]
  /\ stake' = [stake EXCEPT ![g] = IF Cost(g) > 0 THEN "held" ELSE @]
  /\ Goto(g, "charged")
  /\ UNCHANGED <<req, age, cancelled, logVars, inflight, slots, rewarded, sweepVars,
                 offBook, boundVars>>

\* prepareImage, prepareVideo or chargeForModel refuse: the parameters, a missing
\* account or price, too few credits, a failed transaction.  Nothing is deducted.
PrepareFails(g) ==
  /\ pc[g] = "admitted"
  /\ LogRejected(g)
  /\ slots' = slots \ {g}
  /\ Goto(g, "rejected")
  /\ UNCHANGED <<req, age, cancelled, refunded, inflight, balance, rewarded, sweepVars,
                 stake, offBook, boundVars>>

\* logPendingEvent / EventRepository.Create.
LogPending(g) ==
  /\ pc[g] = "charged"
  /\ row' = [row EXCEPT ![g] = "pending"]
  /\ Bump("total")
  /\ Goto(g, "logged")
  /\ UNCHANGED <<req, age, cancelled, refunded, inflight, slots, balance, rewarded, sweepVars,
                 stake, offBook, boundVars>>

\* Mutant of ReturnsUnlogged: chat forgets, like the video paths.
ReturnsUnloggedImage(g) == Kind(g) \in {"image", "test"}

\* The handlers that adjust the credits back when there is no row to claim.
ReturnsUnlogged(g) == Kind(g) \in {"image", "chat", "test"}

\* The row cannot be written.  Images and chat (which frees the slot first) give
\* the credits back directly; the two video paths return the error and nothing
\* else.
LogPendingFails(g) ==
  /\ pc[g] = "charged"
  /\ Fault
  /\ \/ /\ ReturnsUnlogged(g)
        /\ Goto(g, IF Cost(g) > 0 THEN "unlogged" ELSE "finish")
        /\ slots' = IF Kind(g) = "chat" THEN slots \ {g} ELSE slots
        /\ UNCHANGED offBook
     \/ /\ ~ReturnsUnlogged(g)
        /\ Goto(g, "done")
        /\ slots' = slots \ {g}
        /\ offBook' = offBook \cup {g}
  /\ UNCHANGED <<req, age, cancelled, logVars, inflight, balance, rewarded, sweepVars,
                 stake, clears>>

RefundUnlogged(g) ==
  /\ pc[g] = "unlogged"
  /\ \/ NoFault /\ Refund(g) /\ UNCHANGED offBook
     \/ Fault /\ offBook' = offBook \cup {g} /\ UNCHANGED <<balance, stake>>
  /\ Goto(g, "finish")
  /\ UNCHANGED <<req, age, cancelled, logVars, inflight, slots, rewarded, sweepVars, clears>>

\* InflightRegistry.Add; chat completions are not registered.
StartWork(g) ==
  /\ pc[g] = "logged"
  /\ inflight' = IF Kind(g) = "chat" THEN inflight ELSE inflight \cup {g}
  /\ Goto(g, "work")
  /\ UNCHANGED <<req, age, cancelled, logVars, slots, balance, rewarded, sweepVars,
                 stake, offBook, boundVars>>

\* The provider delivers and the result is stored: past here the work context
\* is not looked at again.
Render(g) ==
  /\ pc[g] = "work"
  /\ g \notin cancelled
  /\ Goto(g, "rendered")
  /\ UNCHANGED <<req, age, cancelled, logVars, inflight, slots, balance, rewarded, sweepVars,
                 stake, offBook, boundVars>>

\* The provider, the context or the upload fails.  A chat call refused by the
\* upstream frees the user's slot at once (failChatCompletion), a stream that
\* breaks only when everything else is done (chatAccountingBody.finish).
FailWork(g) ==
  /\ pc[g] = "work"
  /\ \/ UNCHANGED slots
     \/ Kind(g) = "chat" /\ slots' = slots \ {g}
  /\ Goto(g, FirstFailStep(g))
  /\ UNCHANGED <<req, age, cancelled, logVars, inflight, balance, rewarded, sweepVars,
                 stake, offBook, boundVars>>

\* refundIfNeeded, first half: claim the refund on the row.
ClaimRefund(g) ==
  /\ pc[g] = "claim"
  /\ \/ /\ NoFault
        /\ Cost(g) > 0 /\ Claimable(g)
        /\ refunded' = [refunded EXCEPT ![g] = TRUE]
        /\ Goto(g, "credit")
     \/ /\ NoFault
        /\ ~(Cost(g) > 0 /\ Claimable(g))
        /\ Goto(g, AfterCredit(g))
        /\ UNCHANGED refunded
     \/ /\ Fault
        /\ Goto(g, AfterCredit(g))
        /\ UNCHANGED refunded
  /\ UNCHANGED <<req, age, cancelled, row, counters, inflight, slots, balance, rewarded,
                 sweepVars, stake, offBook, clears>>

\* Second half: credit the user.  An error is ignored by every caller.
CreditRefund(g) ==
  /\ pc[g] = "credit"
  /\ \/ NoFault /\ Refund(g) /\ UNCHANGED offBook
     \/ Fault /\ offBook' = offBook \cup {g} /\ UNCHANGED <<balance, stake>>
  /\ Goto(g, AfterCredit(g))
  /\ UNCHANGED <<req, age, cancelled, logVars, inflight, slots, rewarded, sweepVars, clears>>

\* UpdateStatus: one guarded UPDATE, counted when it changed the row.
SetStatus(g, st) ==
  IF row[g] \in {"none", st}
  THEN UNCHANGED <<row, counters>>
  ELSE row' = [row EXCEPT ![g] = st] /\ Bump(st)

MarkFailed(g) ==
  /\ pc[g] = "status"
  /\ \/ NoFault /\ SetStatus(g, "failed")
     \/ Fault /\ UNCHANGED <<row, counters>>
  /\ Goto(g, AfterStatus(g))
  /\ UNCHANGED <<req, age, cancelled, refunded, inflight, slots, balance, rewarded, sweepVars,
                 stake, offBook, clears>>

\* UpdateStatus / MarkVideoReady "success".  Media give up on an error, chat
\* ignores it; admin tests grant no reward.
MarkSuccess(g) ==
  /\ pc[g] = "rendered"
  /\ \/ /\ NoFault
        /\ SetStatus(g, "success")
        /\ Goto(g, IF Kind(g) = "test" THEN "finish" ELSE "reward")
     \/ /\ Fault
        /\ UNCHANGED <<row, counters>>
        /\ Goto(g, IF Kind(g) = "chat" THEN "reward" ELSE "finish")
  /\ UNCHANGED <<req, age, cancelled, refunded, inflight, slots, balance, rewarded, sweepVars,
                 stake, offBook, clears>>

\* Mutant of RewardDue: invite_reward_done is not checked.
RewardDueAgain(u) == Reward > 0 /\ Inviter[u] # NoUser

\* GrantInviteReward, with the invitee's and then the inviter's row locked.
RewardDue(u) == Reward > 0 /\ Inviter[u] # NoUser /\ u \notin rewarded

\* maybeGrantInviteReward, one transaction; its error is ignored.
GrantReward(g) ==
  /\ pc[g] = "reward"
  /\ LET u == User(g) IN
     \/ /\ NoFault /\ RewardDue(u)
        /\ rewarded' = rewarded \cup {u}
        /\ balance' = [balance EXCEPT ![Inviter[u]] = @ + Reward]
     \/ NoFault /\ ~RewardDue(u) /\ UNCHANGED <<balance, rewarded>>
     \/ Fault /\ UNCHANGED <<balance, rewarded>>
  /\ Goto(g, "finish")
  /\ UNCHANGED <<req, age, cancelled, logVars, inflight, slots, sweepVars, stake, offBook,
                 clears>>

\* The deferred calls: InflightRegistry.Done, userRelease.
Finish(g) ==
  /\ pc[g] = "finish"
  /\ Leave(g)
  /\ Goto(g, "done")
  /\ UNCHANGED <<req, age, cancelled, logVars, balance, rewarded, sweepVars,
                 stake, offBook, boundVars>>

-----------------------------------------------------------------------------
(* The maintenance sweep of process p (step 3 of tick).                    *)

\* Mutants of SkipLive: no event is spared; only orphans are.
SkipNone(p, g) == FALSE
SkipOrphans(p, g) == ~(g \in inflight /\ Proc(g) = p)

\* The skip predicate tick passes to PurgeStale: the generation is registered
\* in this process, and not for longer than a wedged goroutine would be.
SkipLive(p, g) == g \in inflight /\ Proc(g) = p /\ age[g] < 2

\* PurgeStale's SELECT, older than stalePending.
Stale == {g \in Gens : row[g] = "pending" /\ age[g] >= 1}

\* Mutant of Abandoned: the UPDATE trusts the ids of the SELECT.
AbandonedBlindly(p) == todo[p]

\* The rows PurgeStale's UPDATE changes.
Abandoned(p) == {g \in todo[p] : row[g] = "pending"}

SweepSelect(p) ==
  /\ sweepPc[p] = "idle"
  /\ Stale # {}
  /\ todo' = [todo EXCEPT ![p] = Stale]
  /\ sweepPc' = [sweepPc EXCEPT ![p] = "selected"]
  /\ UNCHANGED <<req, reqVars, logVars, inflight, slots, balance, rewarded, claim,
                 stake, offBook, boundVars>>

\* The skip callback on what the SELECT returned: the registry is read after the
\* database, so a generation may have finished in between.
SweepSkip(p) ==
  /\ sweepPc[p] = "selected"
  /\ LET orphans == {g \in todo[p] : ~SkipLive(p, g)} IN
     /\ todo' = [todo EXCEPT ![p] = orphans]
     /\ sweepPc' = [sweepPc EXCEPT ![p] = IF orphans = {} THEN "idle" ELSE "skipped"]
  /\ UNCHANGED <<req, reqVars, logVars, inflight, slots, balance, rewarded, claim,
                 stake, offBook, boundVars>>

\* PurgeStale's UPDATE, and commit.  What the SELECT saw is what is returned,
\* also a row that meanwhile left "pending".
SweepAbandon(p) ==
  /\ sweepPc[p] = "skipped"
  /\ \/ /\ NoFault
        /\ row' = [g \in Gens |-> IF g \in Abandoned(p) THEN "failed" ELSE row[g]]
        /\ sweepPc' = [sweepPc EXCEPT ![p] = "purging"]
        /\ UNCHANGED todo
     \/ /\ Fault
        /\ sweepPc' = [sweepPc EXCEPT ![p] = "idle"]
        /\ todo' = [todo EXCEPT ![p] = {}]
        /\ UNCHANGED row
  /\ UNCHANGED <<req, reqVars, refunded, counters, inflight, slots, balance, rewarded, claim,
                 stake, offBook, clears>>

\* One turn of the loop up to the claim: InflightRegistry.Cancel, MarkRefunded.
SweepClaim(p, g) ==
  /\ sweepPc[p] = "purging"
  /\ claim[p] = NoGen
  /\ g \in todo[p]
  /\ todo' = [todo EXCEPT ![p] = @ \ {g}]
  /\ IF g \in inflight /\ Proc(g) = p
     THEN inflight' = inflight \ {g} /\ cancelled' = cancelled \cup {g}
     ELSE UNCHANGED <<inflight, cancelled>>
  /\ \/ /\ NoFault
        /\ Cost(g) > 0 /\ Claimable(g)
        /\ refunded' = [refunded EXCEPT ![g] = TRUE]
        /\ claim' = [claim EXCEPT ![p] = g]
     \/ /\ NoFault
        /\ ~(Cost(g) > 0 /\ Claimable(g))
        /\ UNCHANGED <<refunded, claim>>
     \/ Fault /\ UNCHANGED <<refunded, claim>>
  /\ UNCHANGED <<req, pc, age, row, counters, slots, balance, rewarded, sweepPc,
                 stake, offBook, clears>>

\* AdjustCredits of a claimed refund; an error is logged and the loop goes on.
SweepCredit(p) ==
  /\ claim[p] # NoGen
  /\ \/ NoFault /\ Refund(claim[p]) /\ UNCHANGED offBook
     \/ Fault /\ offBook' = offBook \cup {claim[p]} /\ UNCHANGED <<balance, stake>>
  /\ claim' = [claim EXCEPT ![p] = NoGen]
  /\ UNCHANGED <<req, reqVars, logVars, inflight, slots, rewarded, sweepPc, todo, clears>>

SweepEnd(p) ==
  /\ sweepPc[p] = "purging"
  /\ claim[p] = NoGen
  /\ todo[p] = {}
  /\ sweepPc' = [sweepPc EXCEPT ![p] = "idle"]
  /\ UNCHANGED <<req, reqVars, logVars, inflight, slots, balance, rewarded, todo, claim,
                 stake, offBook, boundVars>>

-----------------------------------------------------------------------------
(* The environment: time, crashes, and the log page's clear buttons.       *)

\* A work context expires with WorkLimit.  Under Prompt the statements around
\* it take minutes at most: a row is registered in flight before it is stale,
\* and what follows the work does not last into class 2.
Grow(g) ==
  /\ age[g] < 2
  /\ row[g] = "pending" \/ g \in slots
  /\ pc[g] = "work" => age[g] < WorkLimit(g)
  /\ Prompt => \/ pc[g] \in {"work", "done", "dead"}
               \/ age[g] = 0 /\ pc[g] \notin BeforeLog \cup {"logged"}
  /\ age' = [age EXCEPT ![g] = @ + 1]
  /\ UNCHANGED <<req, pc, cancelled, logVars, inflight, slots, balance, rewarded, sweepVars,
                 stake, offBook, boundVars>>

\* The slot's TTL (15 minutes) ends within class 1; the next Acquire prunes it.
ExpireSlot(g) ==
  /\ g \in slots
  /\ age[g] >= 1
  /\ slots' = slots \ {g}
  /\ UNCHANGED <<req, reqVars, logVars, inflight, balance, rewarded, sweepVars,
                 stake, offBook, boundVars>>

\* Process p dies and restarts: its goroutines, its registry and its sweep are
\* gone; the database and Redis stay.
Crash(p) ==
  LET lost == {g \in Gens : Proc(g) = p /\ Running(g)}
      unpaid == {g \in lost : pc[g] \in {"charged", "unlogged", "credit"} /\ stake[g] = "held"}
  IN
  /\ lost # {} \/ sweepPc[p] # "idle"
  /\ Fault
  /\ pc' = [g \in Gens |-> IF g \in lost THEN "dead" ELSE pc[g]]
  /\ inflight' = {g \in inflight : Proc(g) # p}
  /\ sweepPc' = [sweepPc EXCEPT ![p] = "idle"]
  /\ todo' = [todo EXCEPT ![p] = {}]
  /\ claim' = [claim EXCEPT ![p] = NoGen]
  /\ offBook' = offBook \cup unpaid \cup ({claim[p]} \cap Gens)
  /\ UNCHANGED <<req, age, cancelled, logVars, slots, balance, rewarded, stake, clears>>

\* DELETE of all rows (DeleteAll) or of the pending ones (DeletePending).
ClearLog ==
  /\ clears < MaxClears
  /\ clears' = clears + 1
  /\ \E S \in {{g \in Gens : row[g] # "none"}, {g \in Gens : row[g] = "pending"}} :
       /\ S # {}
       /\ row' = [g \in Gens |-> IF g \in S THEN "none" ELSE row[g]]
       /\ refunded' = [g \in Gens |-> IF g \in S THEN FALSE ELSE refunded[g]]
       /\ offBook' = offBook \cup {g \in S : stake[g] = "held" /\ ~refunded[g]}
  /\ UNCHANGED <<req, reqVars, counters, inflight, slots, balance, rewarded, sweepVars,
                 stake, faults>>

-----------------------------------------------------------------------------
Advance(g) ==
  \/ Charge(g) \/ PrepareFails(g) \/ LogPending(g) \/ LogPendingFails(g) \/ RefundUnlogged(g)
  \/ StartWork(g) \/ ClaimRefund(g) \/ CreditRefund(g) \/ MarkFailed(g) \/ MarkSuccess(g)
  \/ GrantReward(g) \/ Finish(g)

Sweep(p) ==
  \/ SweepSelect(p) \/ SweepSkip(p) \/ SweepAbandon(p) \/ SweepCredit(p) \/ SweepEnd(p)
  \/ \E g \in Gens : SweepClaim(p, g)

Next ==
  \/ \E g \in Gens : \/ Admit(g) \/ TurnAway(g) \/ Advance(g) \/ Render(g) \/ FailWork(g)
                     \/ Grow(g) \/ ExpireSlot(g)
  \/ \E p \in Procs : Sweep(p) \/ Crash(p)
  \/ ClearLog

Spec == Init /\ [][Next]_vars

(***************************************************************************)
(* Fairness.  Goroutines that only wait for a database statement advance;  *)
(* a work context with a deadline ends (an upstream that never answers a   *)
(* chat completion may hang it for good, so chat gets none); time passes;  *)
(* the ticker of MaintenanceService.Run keeps sweeping.                    *)
(***************************************************************************)
Fairness ==
  /\ \A g \in Gens : /\ WF_vars(Advance(g))
                     /\ WF_vars(Kind(g) # "chat" /\ (Render(g) \/ FailWork(g)))
                     /\ WF_vars(Grow(g))
                     /\ WF_vars(ExpireSlot(g))
  /\ \A p \in Procs : WF_vars(Sweep(p))

FairSpec == Spec /\ Fairness

-----------------------------------------------------------------------------
(* Properties.                                                             *)

\* A refund of g was claimed and is about to be credited.
Claimed(g) == pc[g] = "credit" \/ \E p \in Procs : claim[p] = g

\* The deduction of g is still due to someone: the handler that has not logged
\* it yet, a row that may still be claimed, a claim under way, or nobody.
Outstanding(g) ==
  /\ Cost(g) > 0
  /\ \/ pc[g] \in {"charged", "unlogged"}
     \/ row[g] \in {"pending", "success", "failed"} /\ ~refunded[g]
     \/ Claimed(g)
     \/ g \in offBook

\* The credits a request holds are exactly those its row, or a handler under
\* way, still answers for: no refund is given twice, whichever of the failing
\* request and the sweeps claims it first, and none is lost to an interleaving
\* (MarkRefunded, event_repo.go:630-633: "a generation can never be refunded
\* twice").
LedgerMatchesRows == \A g \in Gens : (stake[g] = "held") <=> Outstanding(g)

\* Without faults and deletions a request that ended failed costs nothing
\* ("auto-refunded on failure", README.en.md:100), for every path and order in
\* which request and sweep meet.
FailedIsRefunded ==
  \A g \in Gens :
    (faults = 0 /\ clears = 0 /\ pc[g] = "done" /\ row[g] = "failed" /\ ~Claimed(g))
      => stake[g] # "held"

\* A request that ends without a row, because the row could not be written,
\* costs nothing ("A persistence failure after charging refunds the unlogged
\* debit", DESIGN.md:509), when that failure is the only one.
UnloggedIsRefunded ==
  \A g \in Gens :
    (faults <= 1 /\ clears = 0 /\ pc[g] = "done" /\ row[g] = "none") => stake[g] # "held"

\* What is delivered is paid for: the sweep refunds only what it marked failed
\* ("PurgeStale marks long-pending entries as failed/abandoned and RETURNS them so
\* the caller can refund", event_repo.go:444), not what succeeded meanwhile.
SuccessIsPaid ==
  \A g \in Gens : (row[g] = "success" /\ Cost(g) > 0) => stake[g] = "held"

\* A request that returned holds neither a slot nor a registry entry, whatever
\* exit it took.
NothingLeftBehind ==
  \A g \in Gens : pc[g] \in {"done", "rejected"} => g \notin inflight \cup slots

\* At most Limit gated requests of a user run at once, until a slot's TTL may
\* have ended.
GateBound ==
  \A u \in Users :
    Limit > 0 =>
      Cardinality({g \in Gens : User(g) = u /\ Gated(g) /\ Generating(g) /\ age[g] = 0}) <= Limit

\* The same of all of a user's requests: "cap a user's simultaneous generations
\* (playground + API key combined", README.en.md:116.
GateCoversAll ==
  \A u \in Users :
    Limit > 0 =>
      Cardinality({g \in Gens : User(g) = u /\ Kind(g) # "test" /\ Generating(g) /\ age[g] = 0})
        <= Limit

\* The persistent failed counter counts each failed generation once ("the
\* success/failed counters increment exactly once per event", event_repo.go:613).
FailuresCounted ==
  (clears = 0 /\ \A g \in Gens : ~Running(g)) =>
    counters["failed"] = Cardinality({g \in Gens : row[g] = "failed"})

\* A success is never overwritten: PurgeStale decides on a SELECT that may be
\* stale by the time of its UPDATE.
SuccessIsFinal ==
  [][\A g \in Gens : row[g] = "success" => row'[g] \in {"success", "none"}]_vars

\* An abandoned event does not turn into a late success: the sweep cancels its
\* goroutine first (maintenance.go:204-206).
NoLateSuccess ==
  [][\A g \in Gens : row[g] = "failed" => row'[g] # "success"]_vars

\* An event the sweep abandoned becomes a late success for chats only, which are
\* never registered in flight: the sweep cancels the goroutine of the others first
\* (maintenance.go:204-206).
OnlyChatsAreLate ==
  [][\A g \in Gens : row[g] = "failed" /\ row'[g] = "success" => Kind(g) = "chat"]_vars

\* Every write to users.credits on behalf of a generation is a deduction, its
\* one return or an invite reward.
E == INSTANCE Escrow WITH Costs <- {Price[k] : k \in Kinds},
                          owner <- [g \in Gens |-> User(g)], cost <- [g \in Gens |-> Cost(g)]
ImplementsEscrow == E!Spec

\* No row stays pending for good ("a stuck pending row ... silently eats the
\* user's credits", event_repo.go:445-447), also after a crash or a chat
\* upstream that never answers.
PendingResolved ==
  \A g \in Gens : (row[g] = "pending") ~> (row[g] # "pending")

\* Without faults and deletions a deduction ends in a success or a refund.
ChargeResolved ==
  \A g \in Gens :
    (stake[g] = "held") ~> (stake[g] = "returned" \/ row[g] = "success" \/ faults + clears > 0)

\* The row a crashed process leaves pending is refunded by a later sweep, when
\* nothing fails any more.
OrphanRefunded ==
  \A g \in Gens :
    (/\ pc[g] = "dead" /\ row[g] = "pending" /\ stake[g] = "held" /\ ~refunded[g]
     /\ faults = MaxFaults /\ clears = MaxClears)
      ~> (stake[g] = "returned")
-----------------------------------------------------------------------------
(* The inductive invariant behind the safety theorems.                     *)

\* Nobody else knows of a request whose row is not written yet.
UnknownBeforeLog ==
  \A g \in Gens :
    pc[g] \in BeforeLog =>
      /\ row[g] = "none" \/ row[g] = "rejected"
      /\ ~refunded[g]
      /\ g \notin offBook
      /\ \A p \in Procs : g \notin todo[p] /\ claim[p] # g

\* Before the charge nothing is held, and only a paid request has an unlogged
\* deduction to give back.
StakeBeforeCharge ==
  \A g \in Gens : /\ pc[g] \in {"idle", "admitted", "rejected"} => stake[g] = "none"
                  /\ pc[g] = "unlogged" => Cost(g) > 0

RowsFit ==
  \A g \in Gens : /\ row[g] = "none" => ~refunded[g]
                  /\ row[g] = "rejected" => pc[g] = "rejected"
                  /\ row[g] = "success" => pc[g] \in {"reward", "finish", "done", "dead"}

\* A claimed refund has one owner, no later claim of the same row can win, and
\* nobody has written it off.
ClaimsExclusive ==
  /\ \A g \in Gens : Claimed(g) => /\ Cost(g) > 0
                                   /\ g \notin offBook
                                   /\ row[g] = "none" \/ refunded[g]
  /\ \A p \in Procs, g \in Gens : claim[p] = g => pc[g] # "credit"
  /\ \A p, q \in Procs : claim[p] = claim[q] /\ claim[p] # NoGen => p = q

OffBookUnclaimable == \A g \in offBook : row[g] = "none" \/ refunded[g]

\* A slot is taken at admission, a registry entry at the start of the work.
NothingHeldEarly ==
  \A g \in Gens : /\ pc[g] = "idle" => g \notin slots
                  /\ pc[g] \in BeforeLog \cup {"logged"} => g \notin inflight

Lifecycle ==
  /\ UnknownBeforeLog
  /\ StakeBeforeCharge
  /\ RowsFit
  /\ NothingHeldEarly
  /\ NothingLeftBehind

Accounts ==
  /\ ClaimsExclusive
  /\ OffBookUnclaimable
  /\ LedgerMatchesRows

\* Each of the three is inductive relative to those before it.
BillingInv == TypeOK /\ Lifecycle /\ Accounts
=============================================================================

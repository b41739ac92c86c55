----------------------------- MODULE QuotaHold ------------------------------
(***************************************************************************)
(* The cached balance of a leonardo or oreate account: generations take a  *)
(* hold on it before they go upstream (ReserveQuota), give it back when    *)
(* they fail (RefundQuota) and replace it by the real balance when they    *)
(* succeed; probes replace it too, and the maintenance sweep reactivates   *)
(* accounts whose reset time has passed.  Only the hold and its return run *)
(* under the row lock.  Retries and cooldowns are PoolFailover's.          *)
(***************************************************************************)
EXTENDS Integers, FiniteSets, FiniteSetsExt

CONSTANTS
  Pool,          \* "leonardo" or "oreate"
  Requests, Accounts, Probers,
  Cost,          \* [Requests -> credits held, and charged by the upstream]
  MinCredits,    \* below it an account is out of use
  Daily,         \* leonardoDailyTokens
  Paid,          \* leonardo accounts with bought credits
  Start,         \* [Accounts -> credits at first]
  Cached,        \* [Accounts -> is the balance known at first]
  Jobs,          \* jobs one account runs at a time
  Blips,         \* balance reads may fail
  MaxCancels,    \* bound on the cancelled generations
  Resets         \* accounts whose credits are renewed

Unknown == -100   \* no balance cached: no number a row can hold

\* What an instance must give the constants.
QuotaHoldAssumption ==
  /\ Pool \in {"leonardo", "oreate"}
  /\ Cost \in [Requests -> Nat \ {0}]
  /\ MinCredits \in Nat \ {0} /\ Daily \in Nat
  /\ 0 \notin Accounts   \* acct 0: none
  /\ Paid \subseteq Accounts
  /\ Start \in [Accounts -> Nat]
  /\ Cached \in [Accounts -> BOOLEAN]
  /\ Jobs \in 1..20
  /\ Blips \in BOOLEAN
  /\ MaxCancels \in Nat /\ Resets \subseteq Accounts

VARIABLES
  status, rem, marker,  \* columns of the account rows
  real,      \* the balance upstream
  spam,      \* accounts in video quarantine (oreate)
  gen,       \* where each generation is
  probe,     \* where each quota probe is
  sweep,     \* where the maintenance sweep is
  cancels

row == <<status, rem, marker>>
vars == <<status, rem, marker, real, spam, gen, probe, sweep, cancels>>

Statuses == {"active", "quota", "disabled"}
Nobody == [pc |-> "start", list |-> {}, preferred |-> {}, acct |-> 0, held |-> FALSE,
           seen |-> Unknown, view |-> "active", end |-> ""]
Idle == [pc |-> "idle", acct |-> 0, seen |-> Unknown, view |-> "active"]

QuotaHoldTypeOK ==
  /\ status \in [Accounts -> Statuses]
  /\ rem \in [Accounts -> Int] /\ real \in [Accounts -> Nat]
  /\ marker \in [Accounts -> {"none", "past", "future"}]
  /\ spam \subseteq Accounts
  /\ cancels \in 0..MaxCancels
  /\ \A r \in Requests :
       /\ gen[r].pc \in {"start", "listed", "picked", "held", "served", "refused",
                         "fetched", "viewed", "ended"}
       /\ gen[r].list \subseteq Accounts /\ gen[r].preferred \subseteq Accounts
       /\ gen[r].acct \in Accounts \cup {0}
       /\ gen[r].end \in {"", "ok", "no_account", "quota", "temp", "auth"}
  /\ \A p \in Probers :
       /\ probe[p].pc \in {"idle", "fetch", "view", "write"}
       /\ probe[p].acct \in Accounts \cup {0}
  /\ sweep.pc \in {"idle", "recover", "roll"} /\ sweep.todo \subseteq Accounts

Init ==
  /\ status = [a \in Accounts |-> "active"]
  /\ real = Start
  /\ rem = [a \in Accounts |-> IF Cached[a] THEN Start[a] ELSE Unknown]
  /\ marker = [a \in Accounts |-> IF Cached[a] THEN "future" ELSE "none"]
  /\ spam = {}
  /\ gen = [r \in Requests |-> Nobody]
  /\ probe = [p \in Probers |-> Idle]
  /\ sweep = [pc |-> "idle", todo |-> {}]
  /\ cancels = 0

-----------------------------------------------------------------------------
(* What the rows say of an account.                                        *)

metaInt(a) == rem[a]
Known(a) == metaInt(a) # Unknown

Least(r) == IF Pool = "oreate" THEN Max({Cost[r], MinCredits}) ELSE Cost[r]

Usable == {a \in Accounts : status[a] = "active"}

\* The accounts whose known balance does not cover the generation.
TooLow(r, S) == {a \in S : Known(a) /\ rem[a] < Least(r)}

oreateSpamQuarantined(S) == S \cap spam

\* Quarantined accounts are hidden unless that hides all of them; those below
\* the operating floor are left out before.
dropOreateSpamQuarantined(S) ==
  IF S \subseteq oreateSpamQuarantined(S) THEN S ELSE S \ oreateSpamQuarantined(S)

Candidates(r) ==
  IF Pool = "oreate"
  THEN dropOreateSpamQuarantined({a \in Usable : ~(Known(a) /\ rem[a] < MinCredits)})
  ELSE Usable

filterOreateAccountsByCredits(r) == Candidates(r) \ TooLow(r, Candidates(r))

\* The accounts whose balance fits a cheap generation best are tried first.
prioritizeOreate80CreditAccounts(r, S) ==
  IF Pool = "oreate" /\ Cost[r] <= MinCredits + 1
  THEN {a \in S : rem[a] = MinCredits + 1} ELSE {}

knownInsufficient(r) == Pool = "oreate" /\ TooLow(r, Candidates(r)) # {}

List(r) ==
  LET S == filterOreateAccountsByCredits(r) IN
  /\ gen[r].pc = "start"
  /\ gen' = [gen EXCEPT
       ![r].pc = IF S = {} THEN "ended" ELSE "listed",
       ![r].list = S,
       ![r].preferred = prioritizeOreate80CreditAccounts(r, S),
       ![r].end = CASE S # {} -> "" [] knownInsufficient(r) -> "quota" [] OTHER -> "no_account"]
  /\ UNCHANGED <<row, real, spam, probe, sweep, cancels>>

At(a) == {r \in Requests : gen[r].acct = a /\ gen[r].pc \notin {"listed", "ended"}}

\* An account with a free job slot; preferred accounts come first.
Pick(r, a) ==
  /\ gen[r].pc = "listed" /\ a \in gen[r].list
  /\ (gen[r].preferred \cap gen[r].list # {}) => a \in gen[r].preferred
  /\ Cardinality(At(a)) < Jobs
  /\ gen' = [gen EXCEPT ![r].pc = "picked", ![r].acct = a, ![r].list = @ \ {a}]
  /\ UNCHANGED <<row, real, spam, probe, sweep, cancels>>

GiveUp(r) ==
  /\ gen[r].pc = "listed" /\ gen[r].list = {}
  /\ gen' = [gen EXCEPT ![r].pc = "ended"]
  /\ UNCHANGED <<row, real, spam, probe, sweep, cancels>>

-----------------------------------------------------------------------------
(* A hold, the upstream, and the hold's return.                            *)

Leave(r, e) == [gen EXCEPT ![r].pc = "listed", ![r].held = FALSE, ![r].end = e,
                           ![r].acct = 0, ![r].seen = Unknown, ![r].view = "active"]

\* markTokenFailure of these pools.
Failed(a, e) ==
  CASE e = "quota" -> [status EXCEPT ![a] = "quota"]
    [] e = "auth" /\ Pool = "leonardo" -> [status EXCEPT ![a] = "disabled"]
    [] OTHER -> status

\* quota_recover_at stands in for a marker the row does not have.
FailedMarker(a, e) ==
  IF e = "quota" /\ marker[a] = "none" THEN [marker EXCEPT ![a] = "future"] ELSE marker

Enough(r, a) == rem[a] >= Cost[r]

ReserveQuota(r) ==
  LET a == gen[r].acct IN
  /\ gen[r].pc = "picked"
  /\ ~Known(a) \/ Enough(r, a)
  /\ rem' = IF Known(a) THEN [rem EXCEPT ![a] = @ - Cost[r]] ELSE rem
  /\ gen' = [gen EXCEPT ![r].pc = "held", ![r].held = Known(a)]
  /\ UNCHANGED <<status, marker, real, spam, probe, sweep, cancels>>

\* Mutant of NotAllowed: the account is marked, whatever the pool.
NotAllowedMarks(r) ==
  LET a == gen[r].acct IN
  /\ gen[r].pc = "picked" /\ Known(a) /\ ~Enough(r, a)
  /\ gen' = Leave(r, "quota")
  /\ status' = Failed(a, "quota") /\ marker' = FailedMarker(a, "quota")
  /\ UNCHANGED <<rem, real, spam, probe, sweep, cancels>>

\* No hold: the next account.  Leonardo marks this one as exhausted, oreate
\* takes it as a shortage of this generation only (errAccountTaskQuota).
NotAllowed(r) ==
  LET a == gen[r].acct IN
  /\ gen[r].pc = "picked" /\ Known(a) /\ ~Enough(r, a)
  /\ gen' = Leave(r, "quota")
  /\ IF Pool = "leonardo"
     THEN status' = Failed(a, "quota") /\ marker' = FailedMarker(a, "quota")
     ELSE UNCHANGED <<status, marker>>
  /\ UNCHANGED <<rem, real, spam, probe, sweep, cancels>>

\* Mutant of RefundQuota: the hold is forgotten.
RefundNothing(r) == rem

\* The hold goes back onto whatever the balance is now.
RefundQuota(r) ==
  IF gen[r].held /\ Known(gen[r].acct)
  THEN [rem EXCEPT ![gen[r].acct] = @ + Cost[r]] ELSE rem

Served(r) ==
  LET a == gen[r].acct IN
  /\ gen[r].pc = "held" /\ real[a] >= Cost[r]
  /\ real' = [real EXCEPT ![a] = @ - Cost[r]]
  /\ gen' = [gen EXCEPT ![r].pc = "served", ![r].end = "ok"]
  /\ spam' = spam \ {a}
  /\ UNCHANGED <<row, probe, sweep, cancels>>

\* The upstream refuses.  After a quota refusal oreate reads the balance
\* before it decides whether the account is exhausted.
Refused(r, e) ==
  LET a == gen[r].acct IN
  /\ gen[r].pc = "held"
  /\ (e = "quota") <=> (real[a] < Cost[r])
  /\ rem' = RefundQuota(r)
  /\ IF e = "quota" /\ Pool = "oreate"
     THEN /\ gen' = [gen EXCEPT ![r].pc = "refused", ![r].end = e, ![r].held = FALSE]
          /\ UNCHANGED <<status, marker>>
     ELSE /\ gen' = Leave(r, e)
          /\ status' = Failed(a, e) /\ marker' = FailedMarker(a, e)
  /\ UNCHANGED <<real, spam, probe, sweep, cancels>>

\* The upstream flags the account: the next one, and no video on this one.
quarantineOreateSpamAccount(r) ==
  /\ gen[r].pc = "held" /\ Pool = "oreate"
  /\ rem' = RefundQuota(r)
  /\ spam' = spam \cup {gen[r].acct}
  /\ gen' = Leave(r, "temp")
  /\ UNCHANGED <<status, marker, real, probe, sweep, cancels>>

\* The generation is cancelled: its context is also the refund's, which fails.
Cancel(r) ==
  /\ gen[r].pc = "held" /\ cancels < MaxCancels
  /\ cancels' = cancels + 1
  /\ gen' = [gen EXCEPT ![r].pc = "ended", ![r].end = "temp"]
  /\ UNCHANGED <<row, real, spam, probe, sweep>>

-----------------------------------------------------------------------------
(* The real balance is written back.                                       *)

\* A row after a balance is read: its status follows the floor; only oreate
\* goes back to active.  view is the status of the row read before the write.
oreateStatusForBalance(a, seen, view) ==
  CASE view = "active" /\ seen < MinCredits -> "quota"
    [] view = "quota" /\ seen >= MinCredits -> "active"
    [] OTHER -> status[a]

StatusFor(a, seen, view) ==
  IF Pool = "oreate" THEN oreateStatusForBalance(a, seen, view)
  ELSE IF seen < MinCredits /\ view = "active" THEN "quota" ELSE status[a]

\* leonardoResetAfter: the next reset.
Synced(a, seen, view) ==
  /\ rem' = [rem EXCEPT ![a] = seen]
  /\ status' = [status EXCEPT ![a] = StatusFor(a, seen, view)]
  /\ marker' = [marker EXCEPT ![a] = "future"]

\* A generation that was served, or refused for want of credits, reads the
\* balance upstream; a failed read leaves the row alone.
FetchCreditsBalance(r) ==
  LET a == gen[r].acct IN
  /\ gen[r].pc \in {"served", "refused"}
  /\ gen' = [gen EXCEPT ![r].pc = "fetched", ![r].seen = real[a]]
  /\ UNCHANGED <<row, real, spam, probe, sweep, cancels>>

FetchFails(r) ==
  LET a == gen[r].acct
      refused == gen[r].pc = "refused" IN
  /\ Blips /\ gen[r].pc \in {"served", "refused"}
  /\ gen' = IF refused THEN Leave(r, "quota") ELSE [gen EXCEPT ![r].pc = "ended"]
  /\ status' = IF refused THEN Failed(a, "quota") ELSE status
  /\ marker' = IF refused THEN FailedMarker(a, "quota") ELSE marker
  /\ UNCHANGED <<rem, real, spam, probe, sweep, cancels>>

ViewRow(r) ==
  /\ gen[r].pc = "fetched"
  /\ gen' = [gen EXCEPT ![r].pc = "viewed", ![r].view = status[gen[r].acct]]
  /\ UNCHANGED <<row, real, spam, probe, sweep, cancels>>

\* reconcileLeonardoCredits, reconcileOreateCredits.  An oreate account short
\* for one generation but above the floor is not marked.
Reconcile(r) ==
  LET a == gen[r].acct
      sunk == gen[r].end = "quota" /\ gen[r].seen < MinCredits IN
  /\ gen[r].pc = "viewed"
  /\ rem' = [rem EXCEPT ![a] = gen[r].seen]
  /\ status' = [status EXCEPT ![a] =
                  IF sunk THEN "quota" ELSE StatusFor(a, gen[r].seen, gen[r].view)]
  /\ marker' = [marker EXCEPT ![a] = "future"]
  /\ gen' = IF gen[r].end = "ok" THEN [gen EXCEPT ![r].pc = "ended"] ELSE Leave(r, "quota")
  /\ UNCHANGED <<real, spam, probe, sweep, cancels>>

-----------------------------------------------------------------------------
(* Probes by an administrator, by the sweep for recovered accounts, and    *)
(* for low oreate accounts.  Leonardo reads the row before the balance,    *)
(* oreate after it.                                                        *)

QuotaStart(p, a) ==
  /\ probe[p].pc = "idle"
  /\ probe' = [probe EXCEPT ![p] = [pc |-> "fetch", acct |-> a, seen |-> Unknown,
                                    view |-> status[a]]]
  /\ UNCHANGED <<row, real, spam, gen, sweep, cancels>>

QuotaFetch(p) ==
  /\ probe[p].pc = "fetch"
  /\ probe' = [probe EXCEPT ![p].pc = IF Pool = "oreate" THEN "view" ELSE "write",
                            ![p].seen = real[probe[p].acct]]
  /\ UNCHANGED <<row, real, spam, gen, sweep, cancels>>

QuotaFails(p) ==
  /\ Blips /\ probe[p].pc = "fetch"
  /\ probe' = [probe EXCEPT ![p] = Idle]
  /\ UNCHANGED <<row, real, spam, gen, sweep, cancels>>

QuotaView(p) ==
  /\ probe[p].pc = "view"
  /\ probe' = [probe EXCEPT ![p].pc = "write", ![p].view = status[probe[p].acct]]
  /\ UNCHANGED <<row, real, spam, gen, sweep, cancels>>

QuotaWrite(p) ==
  /\ probe[p].pc = "write"
  /\ Synced(probe[p].acct, probe[p].seen, probe[p].view)
  /\ probe' = [probe EXCEPT ![p] = Idle]
  /\ UNCHANGED <<real, spam, gen, sweep, cancels>>

-----------------------------------------------------------------------------
(* The sweep: RecoverQuota, then RollResetMarkers.                         *)

RecoverList == {a \in Accounts : Pool # "oreate" /\ status[a] = "quota" /\ marker[a] = "past"}

RecoverStart ==
  /\ sweep.pc = "idle"
  /\ sweep' = [pc |-> "recover", todo |-> RecoverList]
  /\ UNCHANGED <<row, real, spam, gen, probe, cancels>>

\* A free account gets its daily grant; a paid one is to be read again.
Restored(a) == IF a \in Paid THEN Unknown ELSE Daily

\* The write does not look at the row again.
RecoverOne(a) ==
  /\ sweep.pc = "recover" /\ a \in sweep.todo
  /\ status' = [status EXCEPT ![a] = "active"]
  /\ rem' = [rem EXCEPT ![a] = Restored(a)]
  /\ marker' = [marker EXCEPT ![a] = "future"]
  /\ sweep' = [sweep EXCEPT !.todo = @ \ {a}]
  /\ UNCHANGED <<real, spam, gen, probe, cancels>>

RollList == {a \in Accounts : Pool # "oreate" /\ status[a] = "active" /\ marker[a] = "past"}

RollStart ==
  /\ sweep.pc = "recover" /\ sweep.todo = {}
  /\ sweep' = [pc |-> "roll", todo |-> RollList]
  /\ UNCHANGED <<row, real, spam, gen, probe, cancels>>

RollResetMarkers(a) ==
  /\ sweep.pc = "roll" /\ a \in sweep.todo
  /\ marker' = [marker EXCEPT ![a] = "future"]
  /\ sweep' = [sweep EXCEPT !.todo = @ \ {a}]
  /\ UNCHANGED <<status, rem, real, spam, gen, probe, cancels>>

RollEnd ==
  /\ sweep.pc = "roll" /\ sweep.todo = {}
  /\ sweep' = [sweep EXCEPT !.pc = "idle"]
  /\ UNCHANGED <<row, real, spam, gen, probe, cancels>>

-----------------------------------------------------------------------------
\* The upstream grants new credits, and the stored reset time is past.
Reset(a) ==
  /\ a \in Resets
  /\ real' = [real EXCEPT ![a] = Max({@, Daily})]
  /\ marker' = [marker EXCEPT ![a] = IF @ = "future" THEN "past" ELSE @]
  /\ UNCHANGED <<status, rem, spam, gen, probe, sweep, cancels>>

\* Thirty minutes pass.
SpamExpires(a) ==
  /\ a \in spam
  /\ spam' = spam \ {a}
  /\ UNCHANGED <<row, real, gen, probe, sweep, cancels>>

GenStep(r) ==
  \/ List(r) \/ GiveUp(r) \/ ReserveQuota(r) \/ NotAllowed(r) \/ Served(r)
  \/ quarantineOreateSpamAccount(r)
  \/ FetchCreditsBalance(r) \/ FetchFails(r) \/ ViewRow(r) \/ Reconcile(r)
  \/ \E a \in Accounts : Pick(r, a)
  \/ \E e \in {"quota", "temp", "auth"} : Refused(r, e)

ProbeStep(p) == QuotaFetch(p) \/ QuotaFails(p) \/ QuotaView(p) \/ QuotaWrite(p)

SweepStep ==
  \/ RecoverStart \/ RollStart \/ RollEnd
  \/ \E a \in Accounts : RecoverOne(a) \/ RollResetMarkers(a)

Next ==
  \/ \E r \in Requests : GenStep(r) \/ Cancel(r)
  \/ \E p \in Probers : ProbeStep(p) \/ \E a \in Accounts : QuotaStart(p, a)
  \/ SweepStep
  \/ \E a \in Accounts : Reset(a) \/ SpamExpires(a)

Spec == Init /\ [][Next]_vars

\* The sweep runs every minute, requests and probes do not hang, and the day
\* of every account comes.
FairSpec ==
  /\ Spec
  /\ WF_vars(SweepStep)
  /\ \A p \in Probers : WF_vars(ProbeStep(p))
  /\ \A a \in Accounts : WF_vars(\E p \in Probers : status[a] = "quota" /\ QuotaStart(p, a))
  /\ \A a \in Accounts : WF_vars(Reset(a))

-----------------------------------------------------------------------------
\* A row lock around the test and the write: no interleaving of holds, returns
\* and overwrites makes a known balance negative.
NeverNegative == \A a \in Accounts : Known(a) => rem[a] >= 0

HeldOn(a) == {r \in At(a) : gen[r].held}

\* With one job per account and nobody else writing, the cached balance of an
\* account at rest is the real one, whatever its generations met.
RestIsReal ==
  \A a \in Accounts : At(a) = {} /\ Known(a) => rem[a] = real[a]

\* An account is taken out of use as exhausted only when the upstream has less
\* than the floor left (oreate; a dearer generation is refused without that).
SinksTheShort ==
  \A a \in Accounts : status[a] # "quota" /\ status'[a] = "quota" => real[a] < MinCredits

\* An account that waits for its reset comes back.
WaitingComesBack == \A a \in Accounts : status[a] = "quota" ~> status[a] # "quota"

InFlight(a) == {r \in HeldOn(a) : gen[r].pc = "held"}

\* README: the atomic deduction before a generation rules out that concurrent
\* generations overdraw an account.
HoldsCovered ==
  \A a \in Accounts : SumFunction([r \in InFlight(a) |-> Cost[r]]) <= real[a]

\* README: a failed generation gives its deduction back.
HoldsComeBack ==
  \A a \in Accounts : At(a) = {} /\ Known(a) => rem[a] >= real[a]

\* tokens.go: an account is sunk to the waiting status below the floor.
WaitingIsShort ==
  \A a \in Accounts : At(a) = {} /\ status[a] = "quota" => real[a] < MinCredits
=============================================================================

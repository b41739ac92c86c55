---------------------------- MODULE SlotLimiter ----------------------------
(***************************************************************************)
(* The slots of service/concurrency.go: a Redis sorted set per subject (a  *)
(* user or an upstream account), whose members are the tokens of the jobs  *)
(* under way and whose scores say when a member that was never released    *)
(* is dropped.  Redis may fail at any time: Acquire then admits, Release   *)
(* is lost.  A job may outlive its slot, and its process may die.          *)
(***************************************************************************)
EXTENDS Integers, FiniteSets

CONSTANTS
  Subjects,    \* users and accounts
  Tokens,      \* one per attempt of a job to take a slot
  SubjectOf,   \* [Tokens -> Subjects]
  Caps,        \* caps a subject may have over time; 0 means unlimited
  TTL,         \* lifetime of a slot, in ticks (900 s)
  Pollers,     \* tokens of jobs that try again when refused (account slots)
  MaxOutages   \* bound on the times Redis goes down

ASSUME LimiterAssumption ==
  /\ SubjectOf \in [Tokens -> Subjects]
  /\ Caps \subseteq Nat
  /\ TTL \in Nat \ {0}
  /\ Pollers \subseteq Tokens
  /\ MaxOutages \in Nat
  /\ IsFiniteSet(Tokens)

VARIABLES
  members,     \* members of the sorted sets
  left,        \* ticks until a member's score is reached
  up,          \* Redis answers
  outages,     \* outages so far
  job,         \* what the job of a token is doing
  under        \* the cap its job has looked up

slotVars == <<members, left, up, outages, job, under>>

\* "open": admitted without a slot, Redis being down.
JobStates == {"new", "asking", "running", "open", "refused", "ended", "died"}

LimiterTypeOK ==
  /\ members \subseteq Tokens
  /\ left \in [Tokens -> 0..TTL]
  /\ up \in BOOLEAN
  /\ outages \in Nat
  /\ job \in [Tokens -> JobStates]
  /\ under \in [Tokens -> Nat]

LimiterInit ==
  /\ members = {}
  /\ left = [t \in Tokens |-> 0]
  /\ up = TRUE
  /\ outages = 0
  /\ job = [t \in Tokens |-> "new"]
  /\ under = [t \in Tokens |-> 0]

SetOf(t) == {r \in members : SubjectOf[r] = SubjectOf[t]}

\* Mutant of Stale: ZREMRANGEBYSCORE is forgotten.
StaleForgotten(t) == {}

\* ZREMRANGEBYSCORE -inf now on the set of t.
Stale(t) == {r \in SetOf(t) : left[r] = 0}

\* Mutant of HasRoom: one more than the cap.
HasRoomOffByOne(t) == under[t] = 0 \/ Cardinality(SetOf(t) \ Stale(t)) <= under[t]

HasRoom(t) == under[t] = 0 \/ Cardinality(SetOf(t) \ Stale(t)) < under[t]

-----------------------------------------------------------------------------
\* userConcurrencyLimit, or max_concurrency of the account.
LookUp(t, m) ==
  /\ job[t] = "new"
  /\ under' = [under EXCEPT ![t] = m]
  /\ job' = [job EXCEPT ![t] = "asking"]
  /\ UNCHANGED <<members, left, up, outages>>

\* acquireScript, one atomic step of Redis.
Acquire(t) ==
  /\ job[t] = "asking" /\ up
  /\ HasRoom(t)
  /\ members' = (members \ Stale(t)) \cup {t}
  /\ left' = [left EXCEPT ![t] = TTL]
  /\ job' = [job EXCEPT ![t] = "running"]
  /\ UNCHANGED <<up, outages, under>>

\* The script prunes also when it refuses.  A request over its user's limit
\* gives up, a job waiting for an account asks again.
Refuse(t) ==
  /\ job[t] = "asking" /\ up
  /\ ~HasRoom(t)
  /\ members' = members \ Stale(t)
  /\ job' = [job EXCEPT ![t] = IF t \in Pollers THEN "asking" ELSE "refused"]
  /\ UNCHANGED <<left, up, outages, under>>

\* Fail open.
AcquireOpen(t) ==
  /\ job[t] = "asking" /\ ~up
  /\ job' = [job EXCEPT ![t] = "open"]
  /\ UNCHANGED <<members, left, up, outages, under>>

\* ZREM; lost when Redis is down.
Release(t) ==
  /\ job[t] \in {"running", "open"}
  /\ job' = [job EXCEPT ![t] = "ended"]
  /\ members' = IF up THEN members \ {t} ELSE members
  /\ UNCHANGED <<left, up, outages, under>>

\* The process of a job dies; nobody releases.
Die(t) ==
  /\ job[t] \in {"asking", "running", "open"}
  /\ job' = [job EXCEPT ![t] = "died"]
  /\ UNCHANGED <<members, left, up, outages, under>>

\* Time passes for all scores alike.
Tick ==
  /\ \E t \in members : left[t] > 0
  /\ left' = [t \in Tokens |-> IF left[t] > 0 THEN left[t] - 1 ELSE 0]
  /\ UNCHANGED <<members, up, outages, job, under>>

RedisDown ==
  /\ up /\ outages < MaxOutages
  /\ up' = FALSE
  /\ outages' = outages + 1
  /\ UNCHANGED <<members, left, job, under>>

RedisUp ==
  /\ ~up
  /\ up' = TRUE
  /\ UNCHANGED <<members, left, outages, job, under>>

SlotStep(t) == Acquire(t) \/ Refuse(t) \/ AcquireOpen(t) \/ Release(t) \/ Die(t)

LimiterNext ==
  \/ \E t \in Tokens : SlotStep(t) \/ \E m \in Caps : LookUp(t, m)
  \/ Tick \/ RedisDown \/ RedisUp

LimiterSpec == LimiterInit /\ [][LimiterNext]_slotVars

\* Redis answers a job that asks and comes back after an outage; jobs end (their
\* work context does); time passes.
LimiterFairness ==
  /\ \A t \in Tokens : WF_slotVars(Acquire(t)) /\ WF_slotVars(AcquireOpen(t)) /\ WF_slotVars(Release(t))
  /\ WF_slotVars(Tick) /\ WF_slotVars(RedisUp)

FairLimiterSpec == LimiterSpec /\ LimiterFairness

-----------------------------------------------------------------------------
\* Any jobs that hold slots of one subject at the same time fit the cap one of
\* them was admitted under: with a constant cap there are never more than it,
\* and a lowered cap evicts nobody but admits nobody over it either.
LiveFitsCap ==
  \A S \in SUBSET members :
    (S # {} /\ (\A r, t \in S : SubjectOf[r] = SubjectOf[t]) /\ (\A t \in S : left[t] > 0))
      => \E t \in S : under[t] = 0 \/ Cardinality(S) <= under[t]

\* A job that ended, was refused or never asked holds no slot, unless Redis went
\* down meanwhile ("Release was lost").
NoSlotWithoutJob ==
  outages = 0 => \A t \in members : job[t] \in {"running", "died"}

\* A slot whose release was lost frees itself ("the count can never leak
\* forever", concurrency.go:17): a job that keeps asking is admitted in the end,
\* whoever died and however long Redis was away.
PollerAdmitted ==
  \A t \in Pollers : (job[t] = "asking") ~> (job[t] # "asking")
=============================================================================

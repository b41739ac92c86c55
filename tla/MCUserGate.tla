----------------------------- MODULE MCUserGate -----------------------------
(***************************************************************************)
(* The per-user gate: the slots of SlotLimiter, whose subjects are users   *)
(* and whose cap is that of the user's concurrency group at the time a     *)
(* request looks it up (userAcquire, userConcurrencyLimit of               *)
(* service/v1.go).  Administrators change groups while requests run, and   *)
(* the queries of a look-up may fail: their errors are dropped.            *)
(* For TLC an instance is about the groups alone (three of them, two       *)
(* users), about the slots alone (any cap at any look-up, Redis going      *)
(* down), or about both together.                                          *)
(***************************************************************************)
EXTENDS ConcurrencyGroups, SlotLimiter

CONSTANT MaxUnread   \* bound on the look-ups that fail

ASSUME GateAssumption == Subjects = Users /\ MaxUnread \in Nat

VARIABLE unread      \* history: the requests whose look-up failed

gateVars == <<groupVars, slotVars, unread>>

GateInit == GroupsInit /\ LimiterInit /\ unread = {}

\* A request of a registered user.
LookUpCap(t) ==
  /\ member[SubjectOf[t]] # Absent
  /\ \E m \in CapsOf(SubjectOf[t]) : LookUp(t, m)
  /\ UNCHANGED <<groupVars, unread>>

LookUpFails(t) ==
  /\ member[SubjectOf[t]] # Absent /\ Cardinality(unread) < MaxUnread
  /\ \E m \in CapsUnread(SubjectOf[t]) : LookUp(t, m)
  /\ unread' = unread \cup {t}
  /\ UNCHANGED groupVars

GateNext ==
  \/ GroupsNext /\ UNCHANGED <<slotVars, unread>>
  \/ \E t \in Tokens : LookUpCap(t) \/ LookUpFails(t)
  \/ /\ (\E t \in Tokens : SlotStep(t)) \/ Tick \/ RedisDown \/ RedisUp
     /\ UNCHANGED <<groupVars, unread>>

GateSpec == GateInit /\ [][GateNext]_gateVars

-----------------------------------------------------------------------------
\* The live slots of user u.
LiveOf(u) == {t \in members : SubjectOf[t] = u /\ left[t] > 0}

\* The requests that a failing query left without a limit.
Unlimited == {t \in unread : under[t] = 0}

\* When every group has a limit and administrators work one at a time, no user
\* ever has more live slots than the largest of these limits, but for requests
\* that a failing query left without one: it lets nobody else in.
UserBounded ==
  0 \notin Limits => \A u \in Users : \E m \in Limits : Cardinality(LiveOf(u) \ Unlimited) <= m

\* The same without exception: "cap a user's simultaneous generations"
\* (README.en.md:116).
UserCapped ==
  0 \notin Limits => \A u \in Users : \E m \in Limits : Cardinality(LiveOf(u)) <= m

\* What the composition keeps: the types, no slot without a job while Redis
\* answers, and no user over the limits.
NeverOverLimit == GroupsTypeOK /\ LimiterTypeOK /\ NoSlotWithoutJob /\ UserBounded

-----------------------------------------------------------------------------
(* The instances.                                                          *)

CONSTANTS
  Parts,        \* "groups", "slots", "gate"
  u1, t3        \* a user, and a request that the slots alone are without

VARIABLE part

vars == <<part, gateVars>>

\* The requests that matter compete for the slots of one user.
MCSubjectOf == [t \in Tokens |-> u1]

Init == part \in Parts /\ GateInit

GroupsMove == part = "groups" /\ GroupsNext /\ UNCHANGED <<part, slotVars, unread>>
SlotsMove ==
  /\ part = "slots" /\ LimiterNext
  /\ job'[t3] = "new"
  /\ UNCHANGED <<part, groupVars, unread>>

\* Two groups of the larger limit, and three requests of u1 that are turned away when
\* there are too many.
GateMove ==
  /\ part = "gate"
  /\ GateNext
  /\ Cardinality(used') <= 2
  /\ \A u \in Users \ {u1} : member'[u] = Absent /\ joining'[u] = NoGroup
  /\ (\A t \in Pollers : job'[t] = "new") /\ up'
  /\ \A g \in Groups : cap[g] = 2 /\ cap'[g] = 2
  /\ UNCHANGED part

Next == GroupsMove \/ SlotsMove \/ GateMove

\* As in LimiterFairness.
Fairness ==
  LET Slot(A) == part = "slots" /\ A /\ UNCHANGED <<part, groupVars, unread>> IN
  /\ \A t \in Tokens : /\ WF_vars(Slot(Acquire(t)))
                       /\ WF_vars(Slot(AcquireOpen(t)))
                       /\ WF_vars(Slot(Release(t)))
  /\ WF_vars(Slot(Tick)) /\ WF_vars(Slot(RedisUp))

Spec == Init /\ [][Next]_vars /\ Fairness

=============================================================================

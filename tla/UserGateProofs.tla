--------------------------- MODULE UserGateProofs ---------------------------
(***************************************************************************)
(* Proofs about the user gate: the groups when administrators' requests do *)
(* not overlap, the slots for any jobs, subjects, caps and outages, and    *)
(* the two composed.                                                       *)
(***************************************************************************)
EXTENDS MCUserGate, FiniteSetTheorems, TLAPS

-----------------------------------------------------------------------------
(* The groups.                                                             *)

\* One admin request at a time.
Serial == \A a, b \in Admins : a = b

\* Every variable keeps its type, with any number of administrators: a default
\* group is one that exists.
THEOREM GroupsTypes == GroupsSpec => []GroupsTypeOK
<1> USE GroupsAssumption
<1>1. GroupsInit => GroupsTypeOK
  BY DEF GroupsInit, GroupsTypeOK, Op, Idle
<1>2. GroupsTypeOK /\ [GroupsNext]_groupVars => GroupsTypeOK'
  <2> SUFFICES ASSUME GroupsTypeOK, [GroupsNext]_groupVars PROVE GroupsTypeOK'
    OBVIOUS
  <2> USE DEF GroupsTypeOK, Op, Idle, Begin, End
  <2>1. ASSUME NEW a \in Admins, NEW g \in Groups,
               CreateGroup(a, g) \/ CheckDefault(a, g) \/ ReadDefault(a, g)
               \/ \E m \in Limits : UpdateCap(a, g, m)
        PROVE  GroupsTypeOK'
    BY <2>1 DEF CreateGroup, CheckDefault, ReadDefault, UpdateCap
  <2>2. ASSUME NEW a \in Admins, BeginClear(a) \/ ClearDefaults(a) \/ CommitDefault(a)
        PROVE  GroupsTypeOK'
    BY <2>2 DEF BeginClear, ClearDefaults, CommitDefault
  <2>3. ASSUME NEW a \in Admins, DeleteGroup(a) PROVE GroupsTypeOK'
    BY <2>3 DEF DeleteGroup
  <2>4. ASSUME NEW a \in Admins, NEW u \in Users, NEW g \in Groups \cup {NoGroup}, Bind(a, u, g)
        PROVE  GroupsTypeOK'
    BY <2>4 DEF Bind
  <2>5. ASSUME NEW u \in Users, ReadJoin(u) \/ Join(u) PROVE GroupsTypeOK'
    BY <2>5 DEF ReadJoin, Join
  <2>6. CASE EnsureDefault
    BY <2>6 DEF EnsureDefault
  <2>7. CASE UNCHANGED groupVars
    BY <2>7 DEF groupVars
  <2> QED
    BY <2>1, <2>2, <2>3, <2>4, <2>5, <2>6, <2>7 DEF GroupsNext, AdminStep
<1> QED
  BY <1>1, <1>2, PTL DEF GroupsSpec

\* With one admin request at a time there is exactly one default group.
THEOREM DefaultStays == ASSUME Serial PROVE GroupsSpec => []OneDefault
<1> USE GroupsAssumption
<1>1. GroupsInit => OneDefault
  BY DEF GroupsInit, OneDefault, Idle
<1>2. ASSUME GroupsTypeOK, OneDefault, [GroupsNext]_groupVars PROVE OneDefault'
  <2> USE <1>2 DEF GroupsTypeOK, OneDefault, Op, Idle, Begin, End
  <2>1. ASSUME NEW a \in Admins, NEW g \in Groups,
               CreateGroup(a, g) \/ (\E m \in Limits : UpdateCap(a, g, m))
        PROVE  OneDefault'
    BY <2>1 DEF CreateGroup, UpdateCap
  <2>2. ASSUME NEW a \in Admins, NEW g \in Groups, CheckDefault(a, g) \/ ReadDefault(a, g)
        PROVE  OneDefault'
    <3>1. CASE CheckDefault(a, g)
      BY <3>1 DEF CheckDefault
    <3>2. CASE ReadDefault(a, g)
      <4>1. PICK d \in defaults \ {g} :
                   op' = [op EXCEPT ![a] = [step |-> "deleting", group |-> g, rows |-> {d}]]
        BY <3>2 DEF ReadDefault
      <4>2. defaults = {d} /\ g \notin defaults
        BY <4>1
      <4> QED
        BY <3>2, <4>1, <4>2 DEF ReadDefault
    <3> QED
      BY <2>2, <3>1, <3>2
  <2>3. ASSUME NEW a \in Admins, BeginClear(a) \/ ClearDefaults(a)
        PROVE  OneDefault'
    <3>1. op[a].group \in exists /\ defaults' = defaults /\ exists' = exists
      BY <2>3 DEF BeginClear, ClearDefaults
    <3>2. op'[a].step \in {"clearing", "cleared"} /\ op'[a].rows = defaults
          /\ op'[a].group = op[a].group
      BY <2>3 DEF BeginClear, ClearDefaults
    <3>3. \A b \in Admins : b = a
      BY Serial DEF Serial
    <3> QED
      BY <3>1, <3>2, <3>3
  <2>4. ASSUME NEW a \in Admins, CommitDefault(a) PROVE OneDefault'
    <3>1. defaults' = {op[a].group} /\ op[a].group \in exists'
      BY <2>4 DEF CommitDefault
    <3>2. \A b \in Admins : op'[b].step = "idle"
      BY <2>4, Serial DEF CommitDefault, Serial
    <3> QED
      BY <3>1, <3>2
  <2>5. ASSUME NEW a \in Admins, DeleteGroup(a) PROVE OneDefault'
    <3>1. \A b \in Admins : op'[b].step = "idle"
      BY <2>5, Serial DEF DeleteGroup, Serial
    <3>2. defaults' = defaults /\ defaults \subseteq exists'
      BY <2>5 DEF DeleteGroup
    <3> QED
      BY <3>1, <3>2
  <2>6. ASSUME NEW a \in Admins, NEW u \in Users, NEW g \in Groups \cup {NoGroup}, Bind(a, u, g)
        PROVE  OneDefault'
    BY <2>6 DEF Bind
  <2>7. ASSUME NEW u \in Users, ReadJoin(u) \/ Join(u) PROVE OneDefault'
    BY <2>7 DEF ReadJoin, Join
  <2>8. CASE EnsureDefault
    <3>1. exists # {} /\ \E d \in defaults : defaults = {d}
      OBVIOUS
    <3>2. defaults' = defaults /\ exists' = exists /\ op' = op
      BY <2>8, <3>1 DEF EnsureDefault
    <3> QED
      BY <3>2
  <2>9. CASE UNCHANGED groupVars
    BY <2>9 DEF groupVars
  <2> QED
    BY <2>1, <2>2, <2>3, <2>4, <2>5, <2>6, <2>7, <2>8, <2>9 DEF GroupsNext, AdminStep
<1> QED
  BY <1>1, <1>2, GroupsTypes, PTL DEF GroupsSpec

\* Then every user has the limit of some group, also one whose group is gone.
THEOREM UsersLimited == ASSUME Serial PROVE GroupsSpec => []EveryUserLimited
<1>1. GroupsTypeOK /\ OneDefault => EveryUserLimited
  BY GroupsAssumption DEF GroupsTypeOK, OneDefault, EveryUserLimited, CapsOf
<1> QED
  BY <1>1, GroupsTypes, DefaultStays, PTL

-----------------------------------------------------------------------------
(* The slots.                                                              *)

\* A step of the limiter where a look-up may answer any cap: those of a subject may
\* be constants, or come from the groups.
AnyCapNext ==
  \/ \E t \in Tokens : SlotStep(t) \/ \E m \in Nat : LookUp(t, m)
  \/ Tick \/ RedisDown \/ RedisUp

LEMMA LimiterMoves == [LimiterNext]_slotVars => [AnyCapNext]_slotVars
BY LimiterAssumption DEF LimiterNext, AnyCapNext

LEMMA LimiterTypesStep == LimiterTypeOK /\ [AnyCapNext]_slotVars => LimiterTypeOK'
<1> SUFFICES ASSUME LimiterTypeOK, [AnyCapNext]_slotVars PROVE LimiterTypeOK'
  OBVIOUS
<1> USE LimiterAssumption DEF LimiterTypeOK, JobStates
<1>1. CASE UNCHANGED slotVars
  BY <1>1 DEF slotVars
<1>2. ASSUME NEW t \in Tokens, SlotStep(t) PROVE LimiterTypeOK'
  BY <1>2 DEF SlotStep, Acquire, Refuse, AcquireOpen, Release, Die
<1>3. ASSUME NEW t \in Tokens, NEW m \in Nat, LookUp(t, m) PROVE LimiterTypeOK'
  BY <1>3 DEF LookUp
<1>4. CASE Tick
  BY <1>4 DEF Tick
<1>5. CASE RedisDown \/ RedisUp
  <2>1. up' \in BOOLEAN /\ <<members, left, job, under>>' = <<members, left, job, under>>
    BY <1>5, Zenon DEF RedisDown, RedisUp
  <2>2. outages' \in Nat
    BY <1>5 DEF RedisDown, RedisUp
  <2> QED
    BY <2>1, <2>2
<1> QED
  BY <1>1, <1>2, <1>3, <1>4, <1>5 DEF AnyCapNext

\* A slot is held under the cap its job looked up: nobody looks up again.
HoldersAsked == \A t \in members : job[t] # "new"

LEMMA CapStep ==
  ASSUME LimiterTypeOK, LimiterTypeOK', HoldersAsked, LiveFitsCap, [AnyCapNext]_slotVars
  PROVE  HoldersAsked' /\ LiveFitsCap'
<1>1. ASSUME members' \subseteq members,
             \A t \in Tokens : left'[t] > 0 => left[t] > 0,
             \A t \in members : under'[t] = under[t] /\ job'[t] # "new"
      PROVE  HoldersAsked' /\ LiveFitsCap'
  BY <1>1 DEF HoldersAsked, LiveFitsCap, LimiterTypeOK
<1>2. ASSUME NEW t \in Tokens, Acquire(t) PROVE HoldersAsked' /\ LiveFitsCap'
  <2>1. HoldersAsked'
    BY <1>2 DEF Acquire, HoldersAsked, LimiterTypeOK
  <2>2. SUFFICES ASSUME NEW S \in SUBSET members', S # {},
                        \A r, q \in S : SubjectOf[r] = SubjectOf[q],
                        \A r \in S : left'[r] > 0
                 PROVE  \E r \in S : under'[r] = 0 \/ Cardinality(S) <= under'[r]
    BY <2>1 DEF LiveFitsCap
  <2>3. under' = under
    BY <1>2 DEF Acquire
  <2>4. CASE t \notin S
    <3>1. S \subseteq members
      BY <2>4, <1>2 DEF Acquire
    <3>2. \A r \in S : left[r] > 0
      BY <2>2, <2>4, <1>2, <3>1 DEF Acquire, LimiterTypeOK
    <3> QED
      BY <2>2, <2>3, <3>1, <3>2 DEF LiveFitsCap
  <2>5. CASE t \in S
    <3> DEFINE Others == SetOf(t) \ Stale(t)
    <3>1. S \subseteq Others \cup {t}
      <4>1. SUFFICES ASSUME NEW r \in S, r # t PROVE r \in Others
        OBVIOUS
      <4>2. r \in members /\ r \notin Stale(t)
        BY <1>2, <4>1, <2>2 DEF Acquire
      <4>3. SubjectOf[r] = SubjectOf[t]
        BY <2>2, <2>5, <4>1
      <4> QED
        BY <4>2, <4>3 DEF SetOf
    <3>2. IsFiniteSet(Others)
      <4>1. Others \subseteq Tokens
        BY DEF SetOf, LimiterTypeOK
      <4> QED
        BY <4>1, FS_Subset, LimiterAssumption
    <3>3. /\ IsFiniteSet(Others \cup {t})
          /\ Cardinality(Others \cup {t}) <= Cardinality(Others) + 1
          /\ Cardinality(Others) \in Nat
          /\ Cardinality(Others \cup {t}) \in Nat
      <4> HIDE DEF Others
      <4>1. Cardinality(Others \cup {t}) = Cardinality(Others)
              \/ Cardinality(Others \cup {t}) = Cardinality(Others) + 1
        BY <3>2, FS_AddElement
      <4>2. IsFiniteSet(Others \cup {t}) /\ Cardinality(Others) \in Nat
        BY <3>2, FS_AddElement, FS_CardinalityType
      <4> QED
        BY <4>1, <4>2
    <3>4. Cardinality(S) <= Cardinality(Others \cup {t}) /\ Cardinality(S) \in Nat
      BY <3>1, <3>3, FS_Subset, FS_CardinalityType
    <3>5. under[t] = 0 \/ Cardinality(Others) < under[t]
      BY <1>2 DEF Acquire, HasRoom
    <3>6. under[t] \in Nat
      BY DEF LimiterTypeOK
    <3>7. under'[t] = 0 \/ Cardinality(S) <= under'[t]
      <4> HIDE DEF Others
      <4> QED BY <3>3, <3>4, <3>5, <3>6, <2>3
    <3> QED
      BY <3>7, <2>5
  <2> QED
    BY <2>4, <2>5
<1>3. ASSUME NEW t \in Tokens, NEW m \in Nat, LookUp(t, m)
      PROVE  HoldersAsked' /\ LiveFitsCap'
  <2>1. t \notin members
    BY <1>3 DEF LookUp, HoldersAsked
  <2>2. /\ members' = members /\ left' = left
        /\ \A r \in members : under'[r] = under[r] /\ job'[r] = job[r]
    BY <1>3, <2>1 DEF LookUp, LimiterTypeOK
  <2> QED
    BY <2>2, <1>1 DEF HoldersAsked
<1>4. ASSUME NEW t \in Tokens, Refuse(t) \/ AcquireOpen(t) \/ Release(t) \/ Die(t)
      PROVE  HoldersAsked' /\ LiveFitsCap'
  <2>1. /\ members' \subseteq members /\ left' = left /\ under' = under
        /\ \A r \in members : job'[r] # "new"
    BY <1>4 DEF Refuse, AcquireOpen, Release, Die, HoldersAsked, LimiterTypeOK
  <2> QED
    BY <2>1, <1>1
<1>5. CASE Tick
  <2>1. \A t \in Tokens : left'[t] > 0 => left[t] > 0
    BY <1>5 DEF Tick, LimiterTypeOK
  <2> QED
    BY <1>5, <2>1, <1>1 DEF Tick, HoldersAsked
<1>6. CASE RedisDown \/ RedisUp \/ UNCHANGED slotVars
  BY <1>6, <1>1 DEF RedisDown, RedisUp, slotVars, HoldersAsked
<1> QED
  BY <1>2, <1>3, <1>4, <1>5, <1>6 DEF AnyCapNext, SlotStep

\* While Redis answers nobody is admitted without a slot.
OpenInOutages == outages = 0 => up /\ \A t \in Tokens : job[t] # "open"

LEMMA JobsStep ==
  ASSUME LimiterTypeOK, LimiterTypeOK', NoSlotWithoutJob, OpenInOutages, [AnyCapNext]_slotVars
  PROVE  NoSlotWithoutJob' /\ OpenInOutages'
<1> USE DEF LimiterTypeOK, NoSlotWithoutJob, OpenInOutages
<1>1. ASSUME NEW t \in Tokens, SlotStep(t) PROVE NoSlotWithoutJob' /\ OpenInOutages'
  BY <1>1 DEF SlotStep, Acquire, Refuse, AcquireOpen, Release, Die
<1>2. ASSUME NEW t \in Tokens, NEW m \in Nat, LookUp(t, m) PROVE NoSlotWithoutJob' /\ OpenInOutages'
  BY <1>2 DEF LookUp
<1>3. CASE Tick \/ RedisUp \/ UNCHANGED slotVars
  BY <1>3 DEF Tick, RedisUp, slotVars
<1>4. CASE RedisDown
  BY <1>4 DEF RedisDown
<1> QED
  BY <1>1, <1>2, <1>3, <1>4 DEF AnyCapNext

\* All that the slots keep.
SlotInv == LimiterTypeOK /\ HoldersAsked /\ LiveFitsCap /\ NoSlotWithoutJob /\ OpenInOutages

LEMMA SlotInvInitially == LimiterInit => SlotInv
BY LimiterAssumption
   DEF LimiterInit, SlotInv, LimiterTypeOK, JobStates, HoldersAsked, LiveFitsCap, NoSlotWithoutJob, OpenInOutages

LEMMA SlotInvStep == SlotInv /\ [AnyCapNext]_slotVars => SlotInv'
BY LimiterTypesStep, CapStep, JobsStep DEF SlotInv

LEMMA SlotInvHolds == LimiterSpec => []SlotInv
BY SlotInvInitially, LimiterMoves, SlotInvStep, PTL DEF LimiterSpec

\* Every variable keeps its type.
THEOREM LimiterTypes == LimiterSpec => []LimiterTypeOK
<1>1. SlotInv => LimiterTypeOK
  BY DEF SlotInv
<1> QED
  BY <1>1, SlotInvHolds, PTL

\* The slots of one subject that are alive fit the cap of one of their holders,
\* in any interleaving of requests, expiry, crashes and outages.
THEOREM CapHolds == LimiterSpec => []LiveFitsCap
<1>1. SlotInv => LiveFitsCap
  BY DEF SlotInv
<1> QED
  BY <1>1, SlotInvHolds, PTL

\* Who holds a slot is running, or died without releasing it.
THEOREM SlotsHaveJobs == LimiterSpec => []NoSlotWithoutJob
<1>1. SlotInv => NoSlotWithoutJob
  BY DEF SlotInv
<1> QED
  BY <1>1, SlotInvHolds, PTL

-----------------------------------------------------------------------------
(* The two together.                                                       *)

\* The groups and the slots each take their own steps.
LEMMA GateSteps == [GateNext]_gateVars => [GroupsNext]_groupVars
BY DEF GateNext, gateVars, LookUpCap, LookUpFails

LEMMA GateGroups == GateSpec => GroupsSpec
BY GateSteps, PTL DEF GateSpec, GroupsSpec, GateInit

\* What a request looks up is the limit of some group, or nothing, by a failing query.
LimitsAsked == \A t \in Tokens : job[t] # "new" => under[t] \in Limits \/ t \in Unlimited

LEMMA CapsAreLimits ==
  ASSUME GroupsTypeOK, OneDefault, NEW u \in Users PROVE CapsOf(u) \subseteq Limits
BY DEF GroupsTypeOK, OneDefault, CapsOf

\* A failing query finds the limit of the default group, or none.
LEMMA UnreadCaps ==
  ASSUME GroupsTypeOK, NEW u \in Users PROVE CapsUnread(u) \subseteq Limits \cup {0}
BY DEF GroupsTypeOK, CapsUnread

LEMMA GateSlotStep ==
  ASSUME GroupsTypeOK, OneDefault, SlotInv, LimitsAsked, [GateNext]_gateVars
  PROVE  SlotInv' /\ LimitsAsked'
<1> USE GroupsAssumption, LimiterAssumption, GateAssumption
<1>1. ASSUME NEW t \in Tokens, LookUpCap(t) PROVE SlotInv' /\ LimitsAsked'
  <2>1. PICK m \in Limits : LookUp(t, m)
    BY <1>1, CapsAreLimits DEF LookUpCap
  <2>2. [AnyCapNext]_slotVars
    BY <2>1 DEF AnyCapNext
  <2>3. LimitsAsked'
    BY <1>1, <2>1 DEF LookUp, LookUpCap, LimitsAsked, Unlimited, SlotInv, LimiterTypeOK
  <2> QED
    BY <2>2, <2>3, SlotInvStep
<1>5. ASSUME NEW t \in Tokens, LookUpFails(t) PROVE SlotInv' /\ LimitsAsked'
  <2>1. PICK m \in Limits \cup {0} : LookUp(t, m)
    BY <1>5, UnreadCaps DEF LookUpFails
  <2>2. [AnyCapNext]_slotVars
    BY <2>1 DEF AnyCapNext
  <2>3. LimitsAsked'
    BY <1>5, <2>1 DEF LookUp, LookUpFails, LimitsAsked, Unlimited, SlotInv, LimiterTypeOK
  <2> QED
    BY <2>2, <2>3, SlotInvStep
<1>2. ASSUME NEW t \in Tokens, SlotStep(t), unread' = unread PROVE SlotInv' /\ LimitsAsked'
  <2>1. [AnyCapNext]_slotVars
    BY <1>2 DEF AnyCapNext
  <2>2. LimitsAsked'
    BY <1>2 DEF SlotStep, Acquire, Refuse, AcquireOpen, Release, Die, LimitsAsked, Unlimited, SlotInv, LimiterTypeOK
  <2> QED
    BY <2>1, <2>2, SlotInvStep
<1>3. CASE (Tick \/ RedisDown \/ RedisUp) /\ unread' = unread
  <2>1. [AnyCapNext]_slotVars
    BY <1>3 DEF AnyCapNext
  <2>2. LimitsAsked'
    BY <1>3 DEF Tick, RedisDown, RedisUp, LimitsAsked, Unlimited
  <2> QED
    BY <2>1, <2>2, SlotInvStep
<1>4. CASE UNCHANGED <<slotVars, unread>>
  <2>1. LimitsAsked'
    BY <1>4 DEF slotVars, LimitsAsked, Unlimited
  <2> QED
    BY <1>4, <2>1, SlotInvStep
<1> QED
  BY <1>1, <1>2, <1>3, <1>4, <1>5 DEF GateNext, gateVars

\* Live slots of a user were taken under limits of groups.
LEMMA Bounded ==
  ASSUME SlotInv, LimitsAsked PROVE UserBounded
<1> SUFFICES ASSUME 0 \notin Limits, NEW u \in Users
             PROVE  \E m \in Limits : Cardinality(LiveOf(u) \ Unlimited) <= m
  BY DEF UserBounded
<1> DEFINE S == {t \in members : SubjectOf[t] = u /\ left[t] > 0 /\ t \notin Unlimited}
<1>0. S = LiveOf(u) \ Unlimited
  BY DEF LiveOf
<1>1. CASE S = {}
  <2>1. Cardinality(S) = 0
    BY <1>1, FS_EmptySet
  <2>2. PICK m \in Limits : m \in Nat
    BY GroupsAssumption
  <2>3. Cardinality(S) <= m
    BY <2>1, <2>2
  <2> QED
    BY <1>0, <2>3
<1>2. CASE S # {}
  <2>1. PICK t \in S : under[t] = 0 \/ Cardinality(S) <= under[t]
    BY <1>2 DEF SlotInv, LiveFitsCap
  <2>2. under[t] \in Limits
    BY DEF SlotInv, HoldersAsked, LimitsAsked, LimiterTypeOK
  <2>3. Cardinality(S) <= under[t]
    BY <2>1, <2>2
  <2> QED
    BY <1>0, <2>2, <2>3
<1> QED
  BY <1>1, <1>2

\* With one administrator at a time no user has more live slots than the largest
\* limit there is, whatever happens to the groups while requests run, jobs die,
\* and Redis and the database fail, but for those requests that a failing query
\* of the database left without a limit.
THEOREM UsersBounded == ASSUME Serial PROVE GateSpec => []NeverOverLimit
<1>1. GateInit => SlotInv /\ LimitsAsked
  BY SlotInvInitially DEF GateInit, LimiterInit, LimitsAsked
<1>2. GroupsTypeOK /\ OneDefault /\ SlotInv /\ LimitsAsked /\ [GateNext]_gateVars => SlotInv' /\ LimitsAsked'
  BY GateSlotStep
<1>3. GateSpec => []GroupsTypeOK
  BY GateGroups, GroupsTypes, PTL
<1>4. GateSpec => []OneDefault
  BY GateGroups, DefaultStays, PTL
<1>5. GroupsTypeOK /\ SlotInv /\ LimitsAsked => NeverOverLimit
  BY Bounded DEF NeverOverLimit, SlotInv
<1> QED
  BY <1>1, <1>2, <1>3, <1>4, <1>5, PTL DEF GateSpec
=============================================================================

------------------------- MODULE ConcurrencyGroups -------------------------
(***************************************************************************)
(* Concurrency groups: the rows of concurrency_groups, the group each user *)
(* is bound to, and the requests of administrators that work on them       *)
(* (service/concurrency_group.go, repo/concurrency_group_repo.go,          *)
(* service/admin_write.go).  A transaction runs at PostgreSQL's READ       *)
(* COMMITTED: a statement sees the rows as they were when it began, waits  *)
(* for rows another transaction has changed, and then looks at them again. *)
(* An id is random and never used twice.  That PostgreSQL aborts one of    *)
(* three transactions that wait in a circle is left out: it changes no row.*)
(***************************************************************************)
EXTENDS Naturals, FiniteSets

CONSTANTS
  Groups,      \* ids a group may have
  Users,       \* accounts
  Admins,      \* admin requests that may be under way at the same time
  Limits,      \* values of max_concurrency; 0 means unlimited
  NoGroup,     \* concurrency_group_id = ''
  Absent,      \* in place of a group: the account is not registered yet
  Seed         \* cg-default, which EnsureDefault creates on an empty table

ASSUME GroupsAssumption ==
  /\ Limits \subseteq Nat /\ Limits # {}
  /\ NoGroup \notin Groups /\ Absent \notin Groups /\ Absent # NoGroup
  /\ Seed \in Groups

VARIABLES
  used,        \* ids of the groups ever created
  exists,      \* ids of the rows of the table
  defaults,    \* those with is_default
  cap,         \* max_concurrency
  member,      \* users.concurrency_group_id, committed
  joining,     \* the default group a registration has read
  op           \* what each admin request is doing

groupVars == <<used, exists, defaults, cap, member, joining, op>>

Idle == [step |-> "idle", group |-> NoGroup, rows |-> {}]
Op == [step : {"idle", "checked", "clearing", "cleared", "deleting"},
       group : Groups \cup {NoGroup}, rows : SUBSET Groups]

GroupsTypeOK ==
  /\ used \subseteq Groups
  /\ exists \subseteq used
  /\ defaults \subseteq exists
  /\ cap \in [Groups -> Limits]
  /\ member \in [Users -> Groups \cup {NoGroup, Absent}]
  /\ joining \in [Users -> Groups \cup {NoGroup}]
  /\ op \in [Admins -> Op]

\* After the first start: EnsureDefault has seeded the table.
GroupsInit ==
  /\ used = {Seed}
  /\ exists = {Seed}
  /\ defaults = {Seed}
  /\ cap \in [Groups -> Limits]
  /\ member = [u \in Users |-> Absent]
  /\ joining = [u \in Users |-> NoGroup]
  /\ op = [a \in Admins |-> Idle]

Begin(a, step, g, rows) == op' = [op EXCEPT ![a] = [step |-> step, group |-> g, rows |-> rows]]
End(a) == op' = [op EXCEPT ![a] = Idle]

\* Rows whose flag an open SetDefault has cleared and not yet committed.
Locked(a) == UNION {op[b].rows : b \in {b \in Admins \ {a} : op[b].step = "cleared"}}

-----------------------------------------------------------------------------
\* Create: never a default.
CreateGroup(a, g) ==
  /\ op[a].step = "idle"
  /\ g \notin used
  /\ used' = used \cup {g}
  /\ exists' = exists \cup {g}
  /\ UNCHANGED <<defaults, cap, member, joining, op>>

\* Update of max_concurrency; a row that is gone is not an error of the UPDATE.
UpdateCap(a, g, m) ==
  /\ op[a].step = "idle"
  /\ g \in exists \ Locked(a)
  /\ cap[g] # m
  /\ cap' = [cap EXCEPT ![g] = m]
  /\ UNCHANGED <<used, exists, defaults, member, joining, op>>

\* SetDefault, the service's Get.
CheckDefault(a, g) ==
  /\ op[a].step = "idle"
  /\ g \in exists
  /\ Begin(a, "checked", g, {})
  /\ UNCHANGED <<used, exists, defaults, cap, member, joining>>

\* First UPDATE of the transaction: the rows WHERE is_default it begins with.
BeginClear(a) ==
  /\ op[a].step = "checked"
  /\ Begin(a, "clearing", op[a].group, defaults)
  /\ UNCHANGED <<used, exists, defaults, cap, member, joining>>

\* It gets their locks, and clears those that are still there and still default.
ClearDefaults(a) ==
  /\ op[a].step = "clearing"
  /\ op[a].rows \cap Locked(a) = {}
  /\ Begin(a, "cleared", op[a].group, op[a].rows \cap defaults)
  /\ UNCHANGED <<used, exists, defaults, cap, member, joining>>

\* Second UPDATE and COMMIT; no row changes when the group is gone.
CommitDefault(a) ==
  /\ op[a].step = "cleared"
  /\ op[a].group \notin Locked(a)
  /\ defaults' = (defaults \ op[a].rows) \cup ({op[a].group} \cap exists)
  /\ End(a)
  /\ UNCHANGED <<used, exists, cap, member, joining>>

\* Delete, the service's look at the default group, which it must not delete.
ReadDefault(a, g) ==
  /\ op[a].step = "idle"
  /\ g \in Groups
  /\ \E d \in defaults \ {g} : Begin(a, "deleting", g, {d})
  /\ UNCHANGED <<used, exists, defaults, cap, member, joining>>

\* The transaction: members move to the group read before, the row goes.
DeleteGroup(a) ==
  /\ op[a].step = "deleting"
  /\ op[a].group \notin Locked(a)
  /\ \E d \in op[a].rows :
       member' = [u \in Users |-> IF member[u] = op[a].group THEN d ELSE member[u]]
  /\ exists' = exists \ {op[a].group}
  /\ defaults' = defaults \ {op[a].group}
  /\ End(a)
  /\ UNCHANGED <<used, cap, joining>>

\* A registration reads the default group, and inserts the user later; without
\* a default the user stays ungrouped.
ReadJoin(u) ==
  /\ member[u] = Absent /\ joining[u] = NoGroup
  /\ \E d \in defaults : joining' = [joining EXCEPT ![u] = d]
  /\ UNCHANGED <<used, exists, defaults, cap, member, op>>

Join(u) ==
  /\ member[u] = Absent
  /\ joining[u] = NoGroup => defaults = {}
  /\ member' = [member EXCEPT ![u] = joining[u]]
  /\ joining' = [joining EXCEPT ![u] = NoGroup]
  /\ UNCHANGED <<used, exists, defaults, cap, op>>

\* An admin creates a user in a group, binds one to it, or to none; that the
\* group exists is not checked.
Bind(a, u, g) ==
  /\ op[a].step = "idle"
  /\ joining[u] = NoGroup
  /\ g \in used \cup {NoGroup}
  /\ member[u] # g
  /\ member' = [member EXCEPT ![u] = g]
  /\ UNCHANGED <<used, exists, defaults, cap, joining, op>>

\* EnsureDefault of a starting process: seeds an empty table, else only binds
\* the ungrouped users, and fails when no group is default.
EnsureDefault ==
  /\ exists # {} => defaults # {}
  /\ \E d \in (IF exists = {} THEN {Seed} ELSE defaults) :
       /\ exists' = exists \cup {d}
       /\ defaults' = defaults \cup {d}
       /\ member' = [u \in Users |-> IF member[u] = NoGroup THEN d ELSE member[u]]
       /\ used' = used \cup {d}
  /\ UNCHANGED <<cap, joining, op>>

AdminStep(a) ==
  \/ \E g \in Groups : \/ CreateGroup(a, g) \/ CheckDefault(a, g) \/ ReadDefault(a, g)
                       \/ \E m \in Limits : UpdateCap(a, g, m)
  \/ BeginClear(a) \/ ClearDefaults(a) \/ CommitDefault(a) \/ DeleteGroup(a)
  \/ \E u \in Users, g \in Groups \cup {NoGroup} : Bind(a, u, g)

GroupsNext ==
  \/ \E a \in Admins : AdminStep(a)
  \/ \E u \in Users : ReadJoin(u) \/ Join(u)
  \/ EnsureDefault

GroupsSpec == GroupsInit /\ [][GroupsNext]_groupVars

-----------------------------------------------------------------------------
\* Mutant of CapsOf: a user whose group is gone is not looked up further.
CapsOfStrict(u) ==
  IF member[u] \in exists THEN {cap[member[u]]}
  ELSE IF member[u] = NoGroup /\ defaults # {} THEN {cap[d] : d \in defaults}
  ELSE {0}

\* userConcurrencyLimit: the group of the user or, when it is unset or gone, a
\* default group; with neither the user is unlimited.  (An id that is gone stays
\* gone, so the two queries may be taken as one.)
CapsOf(u) ==
  IF member[u] \in exists THEN {cap[member[u]]}
  ELSE IF defaults # {} THEN {cap[d] : d \in defaults}
  ELSE {0}

\* What it finds when the query of the user's group fails, which it takes for a
\* group that is gone, or that of the default group, which leaves no limit.
CapsUnread(u) == {cap[d] : d \in defaults} \cup {0}

\* "SetDefault makes id the sole default" (concurrency_group_repo.go:57).
SoleDefault == Cardinality(defaults) <= 1

\* "so no user is left without a concurrency limit" (concurrency_group_repo.go:67):
\* when every group has a limit, every user has one, whatever is created,
\* deleted, made default and assigned.
EveryUserLimited ==
  0 \notin Limits => \A u \in Users : member[u] # Absent => 0 \notin CapsOf(u)

\* With one admin request at a time there is exactly one default group and no
\* request under way can take it away: what ClearDefaults takes is what
\* CommitDefault puts back.
OneDefault ==
  /\ \E d \in exists : defaults = {d}
  /\ \A a \in Admins : op[a].step \in {"checked", "clearing", "cleared"} => op[a].group \in exists
  /\ \A a \in Admins : op[a].step \in {"clearing", "cleared"} => op[a].rows = defaults
  /\ \A a \in Admins : op[a].step = "deleting" => op[a].rows = defaults /\ op[a].group \notin defaults
=============================================================================

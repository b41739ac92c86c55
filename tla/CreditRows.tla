----------------------------- MODULE CreditRows -----------------------------
(***************************************************************************)
(* The transactions on the credits of a user: adjust, set, debit, the      *)
(* daily check-in and the reward of an invitation.  Each locks the row,    *)
(* reads it, and writes what it has computed; the reward locks the invited *)
(* user and then the one who invited.  The date of a check-in is taken     *)
(* before the lock.                                                        *)
(***************************************************************************)
EXTENDS Integers, FiniteSets

CONSTANTS
  Procs,
  Users, Inviter,   \* the user who invited each user, or Nobody
  Nobody,
  Amounts,          \* what is added, set or debited
  Reward,
  MaxOps,           \* bound on the transactions
  MaxDay,           \* bound on the days
  Late              \* whether a check-in may wait for its lock past midnight

ASSUME CreditRowsAssumption ==
  /\ Nobody \notin Users \cup Procs /\ Inviter \in [Users -> Users \cup {Nobody}]
  /\ Amounts \subseteq Int /\ Reward \in Nat \ {0}
  /\ MaxOps \in Nat /\ MaxDay \in Nat /\ Late \in BOOLEAN

VARIABLES
  row,     \* credits, day of the last check-in, its streak, whether the reward is done
  lock,    \* who holds the row
  proc,    \* where each transaction is, what it does, and the row it has read
  day,
  due,     \* history: the credits every commit is meant to leave
  awards,  \* history: the check-ins of a user rewarded on each date
  rewards, \* history: how often the invitation of each user was rewarded
  ops

vars == <<row, lock, proc, day, due, awards, rewards, ops>>

Idle == [pc |-> "idle"]
Days == 0..MaxDay
Kinds == {"adjust", "set", "debit", "checkin", "invite"}

CreditRowsTypeOK ==
  /\ row \in [Users -> [credits : Nat, last : -1..MaxDay, streak : Nat, done : BOOLEAN]]
  /\ lock \in [Users -> Procs \cup {Nobody}]
  /\ \A p \in Procs : proc[p].pc \in {"idle", "lock", "second", "write"}
  /\ due \in [Users -> Nat] /\ day \in Days /\ ops \in 0..MaxOps

Init ==
  /\ row = [u \in Users |-> [credits |-> 0, last |-> -1, streak |-> 0, done |-> FALSE]]
  /\ lock = [u \in Users |-> Nobody]
  /\ proc = [p \in Procs |-> Idle]
  /\ day = 0 /\ due = [u \in Users |-> 0] /\ ops = 0
  /\ awards = [u \in Users |-> [d \in Days |-> 0]]
  /\ rewards = [u \in Users |-> 0]

NotNegative(n) == IF n < 0 THEN 0 ELSE n

-----------------------------------------------------------------------------
\* A call, with the date of its clock.
Call(p, kind, u, amount) ==
  /\ proc[p].pc = "idle" /\ ops < MaxOps
  /\ ops' = ops + 1
  /\ proc' = [proc EXCEPT ![p] = [pc |-> "lock", kind |-> kind, user |-> u, amount |-> amount, today |-> day]]
  /\ UNCHANGED <<row, lock, day, due, awards, rewards>>

\* Mutant of Free: the row is read without its lock.
FreeAlways(u) == TRUE

\* SELECT ... FOR UPDATE waits for the row.
Free(u) == lock[u] = Nobody

\* Every row is let go.
Commit(p) ==
  /\ lock' = [u \in Users |-> IF lock[u] = p THEN Nobody ELSE lock[u]]
  /\ proc' = [proc EXCEPT ![p] = Idle]

\* Mutant of Refused: a rewarded invitation is rewarded again.
RefusedUninvited(q, r) ==
  \/ q.kind = "debit" /\ r.credits < q.amount
  \/ q.kind = "checkin" /\ r.last = q.today
  \/ q.kind = "invite" /\ Inviter[q.user] = Nobody

\* Mutant of Refused: the date is not looked at.
RefusedAnyDay(q, r) ==
  \/ q.kind = "debit" /\ r.credits < q.amount
  \/ q.kind = "invite" /\ (Inviter[q.user] = Nobody \/ r.done)

\* What ends a transaction with nothing written: too few credits, a check-in
\* of that date, no inviter or a reward given.
Refused(q, r) ==
  \/ q.kind = "debit" /\ r.credits < q.amount
  \/ q.kind = "checkin" /\ r.last = q.today
  \/ q.kind = "invite" /\ (Inviter[q.user] = Nobody \/ r.done)

LockRow(p) ==
  LET q == proc[p] IN
  /\ q.pc = "lock" /\ Free(q.user)
  /\ IF Refused(q, row[q.user]) THEN Commit(p)
     ELSE /\ lock' = [lock EXCEPT ![q.user] = p]
          /\ proc' = [proc EXCEPT ![p] =
               [pc |-> IF q.kind = "invite" THEN "second" ELSE "write", kind |-> q.kind, user |-> q.user,
                amount |-> q.amount, today |-> q.today, read |-> row[q.user]]]
  /\ UNCHANGED <<row, day, due, awards, rewards, ops>>

\* The row of the inviter is locked after that of the invited.
LockInviter(p) ==
  LET q == proc[p] IN
  /\ q.pc = "second" /\ Free(Inviter[q.user])
  /\ lock' = [lock EXCEPT ![Inviter[q.user]] = p]
  /\ proc' = [proc EXCEPT ![p] = [pc |-> "write", kind |-> "invite", user |-> q.user,
                                  amount |-> q.amount, today |-> q.today, read |-> row[Inviter[q.user]]]]
  /\ UNCHANGED <<row, day, due, awards, rewards, ops>>

Streak(r, today) == IF r.last = today - 1 THEN r.streak + 1 ELSE 1

\* The credits a transaction leaves.
Left(q, n) ==
  CASE q.kind = "adjust" -> NotNegative(n + q.amount)
    [] q.kind = "set" -> NotNegative(q.amount)
    [] q.kind = "debit" -> n - q.amount
    [] OTHER -> n + Reward

\* The columns a transaction writes are computed from the row it has read.
Written(q, r) ==
  IF q.kind = "checkin"
    THEN [r EXCEPT !.credits = Left(q, q.read.credits), !.last = q.today, !.streak = Streak(q.read, q.today)]
    ELSE [r EXCEPT !.credits = Left(q, q.read.credits)]

Write(p) ==
  LET q == proc[p]
      u == IF q.kind = "invite" THEN Inviter[q.user] ELSE q.user
  IN /\ q.pc = "write"
     /\ row' = [v \in Users |->
          CASE v = u -> Written(q, row[v])
            [] v = q.user /\ v # u -> [row[v] EXCEPT !.done = TRUE]
            [] OTHER -> row[v]]
     /\ due' = [due EXCEPT ![u] = Left(q, @)]
     /\ awards' = IF q.kind = "checkin" THEN [awards EXCEPT ![u][q.today] = @ + 1] ELSE awards
     /\ rewards' = IF q.kind = "invite" THEN [rewards EXCEPT ![q.user] = @ + 1] ELSE rewards
     /\ Commit(p)
     /\ UNCHANGED <<day, ops>>

\* Midnight.
NewDay ==
  /\ day < MaxDay
  /\ Late \/ \A p \in Procs : proc[p].pc # "idle" => proc[p].kind # "checkin"
  /\ day' = day + 1
  /\ UNCHANGED <<row, lock, proc, due, awards, rewards, ops>>

Next ==
  \/ \E p \in Procs, u \in Users :
       \/ \E kind \in {"adjust", "set"}, a \in Amounts : Call(p, kind, u, a)
       \/ \E a \in Amounts : a > 0 /\ Call(p, "debit", u, a)
       \/ Call(p, "checkin", u, 0) \/ Call(p, "invite", u, 0)
  \/ \E p \in Procs : LockRow(p) \/ LockInviter(p) \/ Write(p)
  \/ NewDay

Spec == Init /\ [][Next]_vars

-----------------------------------------------------------------------------
\* SetCredits: "stays consistent with concurrent AdjustCredits/TryDebitCredits
\* operations".  The credits are those of the commits, one after the other.
NoLostUpdate == \A u \in Users : row[u].credits = due[u]

\* GrantInviteReward: an invitation is rewarded once.
RewardedOnce == \A u \in Users : rewards[u] <= 1

\* DailyCheckin: "already checked in today".  A date is rewarded once.
OneAwardPerDay == \A u \in Users, d \in Days : awards[u][d] <= 1

\* The streak counts dates in a row, each of them rewarded.
StreakIsReal ==
  \A u \in Users : \A k \in 1..row[u].streak : row[u].last - k + 1 >= 0 /\ awards[u][row[u].last - k + 1] > 0

\* GrantInviteReward locks two rows: transactions never wait for each other
\* in a ring, one of those under way has its row.
SomeoneHasARow ==
  (\E p \in Procs : proc[p].pc # "idle") =>
    \E p \in Procs :
      \/ proc[p].pc = "write"
      \/ proc[p].pc = "lock" /\ lock[proc[p].user] = Nobody
      \/ proc[p].pc = "second" /\ lock[Inviter[proc[p].user]] = Nobody
=============================================================================

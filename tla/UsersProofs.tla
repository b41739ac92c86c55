---------------------------- MODULE UsersProofs ----------------------------
(***************************************************************************)
(* Proofs about MCUsers, for any users, invitations, requests, logins and  *)
(* bounds: the rows of credits (no commit is lost, an invitation and a     *)
(* date are rewarded once, streaks are real, no ring of waiting            *)
(* transactions), the session of a login, the accounts with their keys     *)
(* (unique e-mails and names, one administrator, new keys put old ones     *)
(* off), the e-mail codes and the counters of failed logins.               *)
(***************************************************************************)
EXTENDS MCUsers, WellFoundedInduction, TLAPS

-----------------------------------------------------------------------------
(* Rows of credits.                                                        *)

\* The row a transaction writes.
Target(q) == IF q.kind = "invite" THEN Inviter[q.user] ELSE q.user

Types ==
  /\ row \in [Users -> [credits : Nat, last : -1..MaxDay, streak : Nat, done : BOOLEAN]]
  /\ lock \in [Users -> Procs \cup {Nobody}]
  /\ DOMAIN proc = Procs
  /\ day \in Days /\ ops \in 0..MaxOps
  /\ awards \in [Users -> [Days -> Nat]] /\ rewards \in [Users -> Nat]

\* Who has read a row still holds it as it was, for an invitation the row of
\* the invited user as well.
ProcInv(p) ==
  LET q == proc[p] IN
  /\ q.pc \in {"idle", "lock", "second", "write"}
  /\ q.pc # "idle" => /\ q.user \in Users /\ q.kind \in Kinds /\ q.amount \in Int /\ q.today \in Days
                      /\ q.kind = "checkin" /\ ~Late => q.today = day
  /\ q.pc = "second" => q.kind = "invite"
  /\ q.pc \in {"second", "write"} /\ q.kind = "invite" =>
       Inviter[q.user] \in Users /\ lock[q.user] = p /\ ~row[q.user].done
  /\ q.pc = "write" =>
       /\ lock[Target(q)] = p /\ q.read = row[Target(q)]
       /\ q.kind = "invite" => Inviter[q.user] # q.user
       /\ q.kind = "debit" => q.amount <= q.read.credits
       /\ q.kind = "checkin" => q.read.last # q.today

\* The histories say what the row says.
UserInv(u) ==
  /\ row[u].credits = due[u]
  /\ rewards[u] = IF row[u].done THEN 1 ELSE 0
  /\ ~Late => /\ row[u].last <= day
              /\ \A d \in Days : awards[u][d] <= IF d <= row[u].last THEN 1 ELSE 0

RowsInv ==
  /\ Types
  /\ due \in [Users -> Nat]
  /\ \A p \in Procs : ProcInv(p)
  /\ \A u \in Users : UserInv(u)

\* What a transaction leaves is never negative.
LEMMA LeftIsNat ==
  ASSUME NEW q, NEW n \in Nat, q.kind \in Kinds, q.amount \in Int, q.kind = "debit" => q.amount <= n
  PROVE  Left(q, n) \in Nat
BY CreditRowsAssumption DEF Left, NotNegative, Kinds

LEMMA RowsInitially == Init => RowsInv
BY CreditRowsAssumption DEF Init, RowsInv, Types, ProcInv, UserInv, Idle, Days

\* Each step preserves the invariant.
LEMMA RowsStep == RowsInv /\ [Next]_vars => RowsInv'
<1> SUFFICES ASSUME RowsInv, [Next]_vars PROVE RowsInv'
  OBVIOUS
<1> USE CreditRowsAssumption
<1>1. ASSUME NEW p \in Procs, NEW kind \in Kinds, NEW u \in Users, NEW a \in Int, Call(p, kind, u, a)
      PROVE  RowsInv'
  <2>1. Types' /\ (due \in [Users -> Nat])'
    BY <1>1 DEF RowsInv, Types, Call
  <2>2. \A r \in Procs : ProcInv(r)'
    BY <1>1 DEF RowsInv, Types, ProcInv, Call, Target
  <2>3. \A v \in Users : UserInv(v)'
    BY <1>1 DEF RowsInv, UserInv, Call
  <2> QED
    BY <2>1, <2>2, <2>3 DEF RowsInv
<1>2. ASSUME NEW p \in Procs, LockRow(p) PROVE RowsInv'
  <2> DEFINE q == proc[p]
  <2>0. /\ q.pc = "lock" /\ q.user \in Users /\ q.kind \in Kinds /\ lock[q.user] = Nobody
        /\ UNCHANGED <<row, day, due, awards, rewards, ops>>
    BY <1>2 DEF LockRow, Free, RowsInv, ProcInv
  <2>1. CASE Refused(q, row[q.user])
    <3>1. Commit(p)
      BY <1>2, <2>1 DEF LockRow
    <3>2. \A r \in Procs : r # p => proc'[r] = proc[r] /\ \A v \in Users : lock[v] = r => lock'[v] = r
      BY <3>1 DEF Commit, RowsInv, Types
    <3>3. Types' /\ (due \in [Users -> Nat])'
      BY <2>0, <3>1 DEF RowsInv, Types, Commit
    <3>4. \A r \in Procs : ProcInv(r)'
      <4>1. ASSUME NEW r \in Procs, r # p PROVE ProcInv(r)'
        BY <2>0, <3>2, <4>1 DEF RowsInv, ProcInv, Target
      <4>2. ProcInv(p)'
        BY <3>1 DEF RowsInv, Types, ProcInv, Commit, Idle
      <4> QED
        BY <4>1, <4>2
    <3>5. \A v \in Users : UserInv(v)'
      BY <2>0 DEF RowsInv, UserInv
    <3> QED
      BY <3>3, <3>4, <3>5 DEF RowsInv
  <2>2. CASE ~Refused(q, row[q.user])
    <3>1. /\ lock' = [lock EXCEPT ![q.user] = p]
          /\ proc' = [proc EXCEPT ![p] =
               [pc |-> IF q.kind = "invite" THEN "second" ELSE "write", kind |-> q.kind, user |-> q.user,
                amount |-> q.amount, today |-> q.today, read |-> row[q.user]]]
      BY <1>2, <2>2 DEF LockRow
    <3>2. \A r \in Procs : r # p => proc'[r] = proc[r] /\ \A v \in Users : lock[v] = r => lock'[v] = r
      BY <2>0, <3>1 DEF RowsInv, Types
    <3>3. Types' /\ (due \in [Users -> Nat])'
      BY <2>0, <3>1 DEF RowsInv, Types
    <3>4. \A r \in Procs : ProcInv(r)'
      <4>1. ASSUME NEW r \in Procs, r # p PROVE ProcInv(r)'
        BY <2>0, <3>2, <4>1 DEF RowsInv, ProcInv, Target
      <4>2. ProcInv(p)'
        BY <2>0, <2>2, <3>1 DEF RowsInv, Types, ProcInv, Target, Refused, Kinds
      <4> QED
        BY <4>1, <4>2
    <3>5. \A v \in Users : UserInv(v)'
      BY <2>0 DEF RowsInv, UserInv
    <3> QED
      BY <3>3, <3>4, <3>5 DEF RowsInv
  <2> QED
    BY <2>1, <2>2
<1>3. ASSUME NEW p \in Procs, LockInviter(p) PROVE RowsInv'
  <2> DEFINE q == proc[p]
  <2>0. /\ q.pc = "second" /\ q.user \in Users /\ q.kind = "invite"
        /\ Inviter[q.user] \in Users /\ lock[Inviter[q.user]] = Nobody /\ lock[q.user] = p
        /\ UNCHANGED <<row, day, due, awards, rewards, ops>>
    BY <1>3 DEF LockInviter, Free, RowsInv, ProcInv
  <2>1. /\ lock' = [lock EXCEPT ![Inviter[q.user]] = p]
        /\ proc' = [proc EXCEPT ![p] = [pc |-> "write", kind |-> "invite", user |-> q.user,
                                        amount |-> q.amount, today |-> q.today, read |-> row[Inviter[q.user]]]]
    BY <1>3 DEF LockInviter
  <2>2. \A r \in Procs : r # p => proc'[r] = proc[r] /\ \A v \in Users : lock[v] = r => lock'[v] = r
    BY <2>0, <2>1 DEF RowsInv, Types
  <2>3. Types' /\ (due \in [Users -> Nat])'
    BY <2>0, <2>1 DEF RowsInv, Types
  <2>4. \A r \in Procs : ProcInv(r)'
    <3>1. ASSUME NEW r \in Procs, r # p PROVE ProcInv(r)'
      BY <2>0, <2>2, <3>1 DEF RowsInv, ProcInv, Target
    <3>2. ProcInv(p)'
      BY <2>0, <2>1 DEF RowsInv, Types, ProcInv, Target, Kinds
    <3> QED
      BY <3>1, <3>2
  <2>5. \A v \in Users : UserInv(v)'
    BY <2>0 DEF RowsInv, UserInv
  <2> QED
    BY <2>3, <2>4, <2>5 DEF RowsInv
<1>4. ASSUME NEW p \in Procs, Write(p) PROVE RowsInv'
  <2> DEFINE q == proc[p]  u == Target(q)
  <2>0. /\ q.pc = "write" /\ q.user \in Users /\ q.kind \in Kinds /\ q.amount \in Int /\ q.today \in Days
        /\ u \in Users /\ lock[u] = p /\ q.read = row[u]
        /\ q.kind = "debit" => q.amount <= row[u].credits
        /\ q.kind = "checkin" => u = q.user /\ row[u].last # q.today /\ (~Late => q.today = day)
        /\ q.kind = "invite" => u # q.user /\ lock[q.user] = p /\ ~row[q.user].done
        /\ q.kind # "invite" => u = q.user
        /\ UNCHANGED <<day, ops>>
    BY <1>4 DEF Write, RowsInv, ProcInv, Target
  <2>1. q.read.credits \in Nat /\ Left(q, q.read.credits) \in Nat
    <3>1. q.read.credits \in Nat
      BY <2>0 DEF RowsInv, Types
    <3> QED
      BY <2>0, <3>1, LeftIsNat
  <2>2. row' = [v \in Users |->
          CASE v = u -> Written(q, row[v])
            [] v = q.user /\ v # u -> [row[v] EXCEPT !.done = TRUE]
            [] OTHER -> row[v]]
    BY <1>4 DEF Write, Target
  <2>3. /\ due' = [due EXCEPT ![u] = Left(q, @)]
        /\ awards' = IF q.kind = "checkin" THEN [awards EXCEPT ![u][q.today] = @ + 1] ELSE awards
        /\ rewards' = IF q.kind = "invite" THEN [rewards EXCEPT ![q.user] = @ + 1] ELSE rewards
    BY <1>4 DEF Write, Target
  <2>4. /\ lock' = [v \in Users |-> IF lock[v] = p THEN Nobody ELSE lock[v]]
        /\ proc' = [proc EXCEPT ![p] = Idle]
    BY <1>4 DEF Write, Commit
  <2>5. Streak(q.read, q.today) \in Nat
    BY <2>0 DEF Streak, RowsInv, Types
  <2>6. \A v \in Users : lock[v] # p => row'[v] = row[v]
    BY <2>0, <2>2
  <2>7. row' \in [Users -> [credits : Nat, last : -1..MaxDay, streak : Nat, done : BOOLEAN]]
    <3> HIDE DEF u, q
    <3> SUFFICES ASSUME NEW v \in Users
                 PROVE  row'[v] \in [credits : Nat, last : -1..MaxDay, streak : Nat, done : BOOLEAN]
      BY <2>2
    <3>1. row[v] \in [credits : Nat, last : -1..MaxDay, streak : Nat, done : BOOLEAN]
      BY DEF RowsInv, Types
    <3>2. CASE v = u /\ q.kind = "checkin"
      <4>1. row'[v] = [row[v] EXCEPT !.credits = Left(q, q.read.credits), !.last = q.today, !.streak = Streak(q.read, q.today)]
        BY <2>2, <3>2 DEF Written
      <4>2. q.today \in -1..MaxDay
        BY <2>0 DEF Days
      <4> QED
        BY <2>1, <2>5, <3>1, <4>1, <4>2
    <3>3. CASE v = u /\ q.kind # "checkin"
      <4>1. row'[v] = [row[v] EXCEPT !.credits = Left(q, q.read.credits)]
        BY <2>2, <3>3 DEF Written
      <4> QED
        BY <2>1, <3>1, <4>1
    <3>4. CASE v # u
      BY <2>0, <2>2, <3>1, <3>4
    <3> QED
      BY <3>2, <3>3, <3>4
  <2>8. Types' /\ (due \in [Users -> Nat])'
    <3> HIDE DEF u, q
    <3>1. awards' \in [Users -> [Days -> Nat]]
      BY <2>0, <2>3 DEF RowsInv, Types
    <3>2. rewards' \in [Users -> Nat]
      BY <2>0, <2>3 DEF RowsInv, Types
    <3>3. lock' \in [Users -> Procs \cup {Nobody}] /\ DOMAIN proc' = Procs
      BY <2>4 DEF RowsInv, Types
    <3>4. due' \in [Users -> Nat]
      <4>1. due[u] \in Nat /\ Left(q, due[u]) \in Nat
        BY <2>0, <2>1 DEF RowsInv, UserInv
      <4> QED
        BY <2>3, <4>1 DEF RowsInv
    <3> QED
      BY <2>0, <2>7, <3>1, <3>2, <3>3, <3>4 DEF RowsInv, Types
  <2>9. \A r \in Procs : ProcInv(r)'
    <3>1. ASSUME NEW r \in Procs, r # p PROVE ProcInv(r)'
      <4>1. proc'[r] = proc[r] /\ \A v \in Users : lock[v] = r => lock'[v] = r /\ row'[v] = row[v]
        BY <2>4, <2>6, <3>1 DEF RowsInv, Types
      <4> QED
        BY <2>0, <4>1 DEF RowsInv, ProcInv, Target
    <3>2. ProcInv(p)'
      BY <2>4 DEF RowsInv, Types, ProcInv, Idle
    <3> QED
      BY <3>1, <3>2
  <2>10. \A v \in Users : UserInv(v)'
    <3> HIDE DEF u, q
    <3> SUFFICES ASSUME NEW v \in Users PROVE UserInv(v)'
      OBVIOUS
    <3>1. UserInv(v) /\ row[v] \in [credits : Nat, last : -1..MaxDay, streak : Nat, done : BOOLEAN]
      BY DEF RowsInv, Types
    <3>2. CASE v = u /\ q.kind = "checkin"
      <4>0. row'[v] = [row[v] EXCEPT !.credits = Left(q, q.read.credits), !.last = q.today, !.streak = Streak(q.read, q.today)]
        BY <2>2, <3>2 DEF Written
      <4>1. /\ row'[v].credits = Left(q, row[v].credits) /\ row'[v].last = q.today /\ row'[v].done = row[v].done
        BY <2>0, <3>1, <3>2, <4>0
      <4>4. due'[v] = Left(q, due[v]) /\ rewards'[v] = rewards[v]
        BY <2>0, <2>3, <3>2 DEF RowsInv
      <4>2. \A d \in Days : awards'[v][d] = IF d = q.today THEN awards[v][d] + 1 ELSE awards[v][d]
        BY <2>0, <2>3, <3>2 DEF RowsInv, Types
      <4>3. awards[v] \in [Days -> Nat]
        BY DEF RowsInv, Types
      <4>5. q.today \in Int /\ row[v].last \in Int /\ day \in Int /\ day' = day
        <5>1. day \in Days /\ q.today \in Days /\ day' = day /\ row[v].last \in -1..MaxDay
          BY <2>0, <3>1 DEF RowsInv, Types
        <5> QED
          BY <5>1 DEF Days
      <4>6. ~Late => row'[v].last <= day'
        BY <2>0, <3>2, <4>1, <4>5
      <4>7. ASSUME ~Late, NEW d \in Days PROVE awards'[v][d] <= IF d <= row'[v].last THEN 1 ELSE 0
        <5>1. q.today = day /\ row[v].last < q.today
          BY <2>0, <3>1, <3>2, <4>5, <4>7 DEF UserInv
        <5>2. awards[v][d] \in Nat /\ awards[v][d] <= (IF d <= row[v].last THEN 1 ELSE 0) /\ d \in Int
          BY <3>1, <4>3, <4>7 DEF UserInv, Days
        <5> QED
          BY <4>1, <4>2, <4>5, <5>1, <5>2
      <4> QED
        BY <3>1, <4>1, <4>4, <4>6, <4>7 DEF UserInv
    <3>3. CASE v = u /\ q.kind # "checkin"
      <4>1. row'[v] = [row[v] EXCEPT !.credits = Left(q, q.read.credits)]
        BY <2>2, <3>3 DEF Written
      <4>2. /\ row'[v].credits = Left(q, row[v].credits) /\ row'[v].last = row[v].last /\ row'[v].done = row[v].done
        BY <2>0, <3>1, <3>3, <4>1
      <4>3. due'[v] = Left(q, due[v]) /\ awards' = awards /\ day' = day
        BY <2>0, <2>3, <3>3 DEF RowsInv
      <4>4. rewards'[v] = rewards[v]
        BY <2>0, <2>3, <3>3 DEF RowsInv, Types
      <4> QED
        BY <3>1, <4>2, <4>3, <4>4 DEF UserInv
    <3>4. CASE v # u
      <4>1. due'[v] = due[v] /\ awards'[v] = awards[v] /\ day' = day
        BY <2>0, <2>3, <3>4 DEF RowsInv, Types
      <4>2. CASE v = q.user
        <5>1. row'[v] = [row[v] EXCEPT !.done = TRUE] /\ q.kind = "invite" /\ ~row[v].done
          BY <2>0, <2>2, <3>4, <4>2
        <5>2. rewards'[v] = rewards[v] + 1
          BY <2>3, <4>2, <5>1 DEF RowsInv, Types
        <5>3. /\ row'[v].credits = row[v].credits /\ row'[v].last = row[v].last /\ row'[v].done
          BY <3>1, <5>1
        <5> QED
          BY <3>1, <4>1, <5>1, <5>2, <5>3 DEF UserInv
      <4>3. CASE v # q.user
        <5>1. row'[v] = row[v] /\ rewards'[v] = rewards[v]
          BY <2>2, <2>3, <3>4, <4>3 DEF RowsInv, Types
        <5> QED
          BY <3>1, <4>1, <5>1 DEF UserInv
      <4> QED
        BY <4>2, <4>3
    <3> QED
      BY <3>2, <3>3, <3>4
  <2> QED
    BY <2>8, <2>9, <2>10 DEF RowsInv
<1>5. ASSUME NewDay PROVE RowsInv'
  <2>1. Types' /\ (due \in [Users -> Nat])'
    BY <1>5 DEF RowsInv, Types, NewDay, Days
  <2>2. \A r \in Procs : ProcInv(r)'
    BY <1>5 DEF RowsInv, ProcInv, NewDay, Target
  <2>3. \A v \in Users : UserInv(v)'
    <3> SUFFICES ASSUME NEW v \in Users PROVE UserInv(v)'
      OBVIOUS
    <3>1. UserInv(v) /\ row[v].last \in Int /\ day \in Int
      BY DEF RowsInv, Types, Days
    <3>2. day' = day + 1 /\ UNCHANGED <<row, due, awards, rewards>>
      BY <1>5 DEF NewDay
    <3> QED
      BY <3>1, <3>2 DEF UserInv
  <2> QED
    BY <2>1, <2>2, <2>3 DEF RowsInv
<1>6. CASE UNCHANGED vars
  BY <1>6 DEF RowsInv, Types, ProcInv, UserInv, Target, vars
<1> QED
  <2>1. 0 \in Int /\ \A a \in Amounts : a \in Int
    OBVIOUS
  <2> QED
    BY <1>1, <1>2, <1>3, <1>4, <1>5, <1>6, <2>1 DEF Next, Kinds

-----------------------------------------------------------------------------
(* Streaks, and who holds a row.                                           *)

LEMMA StreaksStep == RowsInv /\ StreakIsReal /\ [Next]_vars => StreakIsReal'
<1> SUFFICES ASSUME RowsInv, StreakIsReal, [Next]_vars PROVE StreakIsReal'
  OBVIOUS
<1> USE CreditRowsAssumption
<1>0. /\ row \in [Users -> [credits : Nat, last : -1..MaxDay, streak : Nat, done : BOOLEAN]]
      /\ awards \in [Users -> [Days -> Nat]]
  BY DEF RowsInv, Types
<1>1. CASE UNCHANGED <<row, awards>>
  BY <1>1 DEF StreakIsReal
<1>2. ASSUME NEW p \in Procs, Write(p) PROVE StreakIsReal'
  <2> DEFINE q == proc[p]  u == Target(q)
  <2>1. /\ q.pc = "write" /\ q.user \in Users /\ q.kind \in Kinds /\ q.today \in Days /\ u \in Users
        /\ q.read = row[u] /\ (q.kind # "invite" => u = q.user)
    BY <1>2 DEF Write, RowsInv, ProcInv, Target
  <2>2. row' = [v \in Users |->
          CASE v = u -> Written(q, row[v])
            [] v = q.user /\ v # u -> [row[v] EXCEPT !.done = TRUE]
            [] OTHER -> row[v]]
    BY <1>2 DEF Write, Target
  <2>3. awards' = IF q.kind = "checkin" THEN [awards EXCEPT ![u][q.today] = @ + 1] ELSE awards
    BY <1>2 DEF Write, Target
  <2> SUFFICES ASSUME NEW v \in Users, NEW k \in 1..row'[v].streak
               PROVE  row'[v].last - k + 1 >= 0 /\ awards'[v][row'[v].last - k + 1] > 0
    BY DEF StreakIsReal
  <2> HIDE DEF u, q
  <2>4. row[v] \in [credits : Nat, last : -1..MaxDay, streak : Nat, done : BOOLEAN] /\ awards[v] \in [Days -> Nat]
    BY <1>0
  <2>5. CASE v = u /\ q.kind = "checkin"
    <3>1. row'[v] = [row[v] EXCEPT !.credits = Left(q, q.read.credits), !.last = q.today, !.streak = Streak(q.read, q.today)]
      BY <2>2, <2>5 DEF Written
    <3>2. row'[v].last = q.today /\ row'[v].streak = Streak(row[v], q.today)
      BY <2>1, <2>4, <2>5, <3>1
    <3>3. \A d \in Days : awards'[v][d] = IF d = q.today THEN awards[v][d] + 1 ELSE awards[v][d]
      BY <1>0, <2>1, <2>3, <2>5
    <3>4. q.today \in Nat /\ q.today <= MaxDay /\ row[v].last \in Int /\ row[v].streak \in Nat
      BY <2>1, <2>4 DEF Days
    <3>5. CASE k = 1
      <4>1. awards[v][q.today] \in Nat
        BY <2>1, <2>4
      <4> QED
        BY <2>1, <3>2, <3>3, <3>4, <3>5, <4>1
    <3>6. CASE k # 1
      <4>1. row[v].last = q.today - 1 /\ k - 1 \in 1..row[v].streak
        BY <3>2, <3>4, <3>6 DEF Streak
      <4>2. row[v].last - (k - 1) + 1 >= 0 /\ awards[v][row[v].last - (k - 1) + 1] > 0
        BY <4>1 DEF StreakIsReal
      <4>3. row'[v].last - k + 1 = row[v].last - (k - 1) + 1 /\ row'[v].last - k + 1 # q.today
        BY <3>2, <3>4, <3>6, <4>1
      <4>4. row'[v].last - k + 1 \in Days
        BY <3>2, <3>4, <3>6, <4>2, <4>3 DEF Days
      <4> QED
        BY <3>3, <4>2, <4>3, <4>4
    <3> QED
      BY <3>5, <3>6
  <2>6. CASE ~(v = u /\ q.kind = "checkin")
    <3>1. row'[v].last = row[v].last /\ row'[v].streak = row[v].streak
      BY <2>1, <2>2, <2>4, <2>6 DEF Written
    <3>2. awards'[v] = awards[v]
      BY <1>0, <2>1, <2>3, <2>6
    <3> QED
      BY <3>1, <3>2 DEF StreakIsReal
  <2> QED
    BY <2>5, <2>6
<1> QED
  BY <1>1, <1>2 DEF Next, Call, LockRow, LockInviter, NewDay, vars

\* A transaction holds the row of its user, and one that writes an invitation
\* that of the inviter as well.
RowHolder(u) ==
  LET q == proc[lock[u]] IN
  lock[u] # Nobody => /\ q.pc \in {"second", "write"}
                      /\ u = q.user \/ (q.pc = "write" /\ u = Target(q))

HoldersInv == \A u \in Users : RowHolder(u)

LEMMA HoldersStep == RowsInv /\ HoldersInv /\ [Next]_vars => HoldersInv'
<1> SUFFICES ASSUME RowsInv, HoldersInv, [Next]_vars PROVE HoldersInv'
  OBVIOUS
<1> USE CreditRowsAssumption
<1>0. lock \in [Users -> Procs \cup {Nobody}] /\ DOMAIN proc = Procs
  BY DEF RowsInv, Types
<1>1. ASSUME NEW p \in Procs, NEW kind, NEW u, NEW a, Call(p, kind, u, a) PROVE HoldersInv'
  BY <1>0, <1>1 DEF Call, HoldersInv, RowHolder, Target
<1>2. ASSUME NEW p \in Procs, Commit(p) PROVE HoldersInv'
  BY <1>0, <1>2 DEF Commit, HoldersInv, RowHolder, Target
<1>3. ASSUME NEW p \in Procs, LockRow(p) PROVE HoldersInv'
  <2>1. CASE Commit(p)
    BY <1>2, <2>1
  <2>2. CASE ~Commit(p)
    <3> DEFINE u == proc[p].user
    <3>1. u \in Users /\ lock[u] = Nobody /\ proc[p].pc = "lock" /\ lock' = [lock EXCEPT ![u] = p]
      BY <1>3, <2>2 DEF LockRow, Free, RowsInv, ProcInv
    <3>2. /\ proc'[p].pc \in {"second", "write"} /\ proc'[p].user = u
          /\ \A r \in Procs \ {p} : proc'[r] = proc[r]
      BY <1>0, <1>3, <2>2 DEF LockRow
    <3> QED
      BY <1>0, <3>1, <3>2 DEF HoldersInv, RowHolder, Target
  <2> QED
    BY <2>1, <2>2
<1>4. ASSUME NEW p \in Procs, LockInviter(p) PROVE HoldersInv'
  <2> DEFINE i == Inviter[proc[p].user]
  <2>1. /\ i \in Users /\ lock[i] = Nobody /\ proc[p].pc = "second" /\ proc[p].kind = "invite"
        /\ lock' = [lock EXCEPT ![i] = p]
    BY <1>4 DEF LockInviter, Free, RowsInv, ProcInv
  <2>2. /\ proc'[p].pc = "write" /\ proc'[p].user = proc[p].user /\ proc'[p].kind = "invite"
        /\ \A r \in Procs \ {p} : proc'[r] = proc[r]
    BY <1>0, <1>4 DEF LockInviter
  <2> QED
    BY <1>0, <2>1, <2>2 DEF HoldersInv, RowHolder, Target
<1>5. ASSUME NEW p \in Procs, Write(p) PROVE HoldersInv'
  <2>1. Commit(p)
    BY <1>5 DEF Write
  <2> QED
    BY <1>2, <2>1
<1>6. CASE UNCHANGED <<lock, proc>>
  BY <1>6 DEF HoldersInv, RowHolder, Target
<1> QED
  BY <1>1, <1>3, <1>4, <1>5, <1>6 DEF Next, NewDay, vars

\* If nobody is invited by a user who registered later, some transaction can go
\* on: the row that was registered first of those waited for is held by one
\* that would wait for a row registered before it.
LEMMA NoRing ==
  ASSUME NEW Before, IsWellFoundedOn(Before, Users),
         \A u \in Users : Inviter[u] \in Users => <<Inviter[u], u>> \in Before,
         RowsInv, HoldersInv
  PROVE  SomeoneHasARow
<1> USE CreditRowsAssumption
<1> DEFINE Awaits(p, v) == \/ proc[p].pc = "lock" /\ v = proc[p].user
                           \/ proc[p].pc = "second" /\ v = Inviter[proc[p].user]
           Awaited == {v \in Users : \E p \in Procs : Awaits(p, v)}
<1>1. SUFFICES ASSUME NEW p \in Procs, proc[p].pc # "idle",
                      \A r \in Procs : /\ proc[r].pc # "write"
                                       /\ proc[r].pc = "lock" => lock[proc[r].user] # Nobody
                                       /\ proc[r].pc = "second" => lock[Inviter[proc[r].user]] # Nobody
               PROVE  FALSE
  BY DEF SomeoneHasARow
<1>2. \A r \in Procs : proc[r].pc # "idle" => \E v \in Users : Awaits(r, v)
  BY <1>1 DEF RowsInv, ProcInv
<1>3. Awaited # {} /\ Awaited \subseteq Users
  BY <1>1, <1>2
<1>4. PICK v \in Awaited : \A w \in Awaited : <<w, v>> \notin Before
  <2> HIDE DEF Awaited
  <2> QED
    BY <1>3, WFMin
<1>5. v \in Users /\ lock[v] # Nobody
  BY <1>1, <1>4
<1>6. PICK r \in Procs : r = lock[v]
  BY <1>5 DEF RowsInv, Types
<1>7. proc[r].pc = "second" /\ v = proc[r].user
  BY <1>1, <1>5, <1>6 DEF HoldersInv, RowHolder
<1>8. Inviter[v] \in Users /\ Inviter[v] \in Awaited
  BY <1>6, <1>7 DEF RowsInv, ProcInv
<1> QED
  BY <1>4, <1>5, <1>8

-----------------------------------------------------------------------------
(* Sessions: no hour passes while a request is under way, so that a key that *)
(* is there ends after now, and what a request holds is what is stored.      *)

VisitInv(r) ==
  visit[r].pc # "out" =>
    /\ clock < visit[r].exp /\ visit[r].since = clock
    /\ ~loggedOut.out => key.there /\ visit[r].exp <= key.ends
    /\ visit[r].pc = "answer" /\ ~loggedOut.out /\ sessionFaults = 0 => clock + slideAfter <= key.ends
    /\ loggedOut.out => loggedOut.met

\* The cookie is behind a key that has slid until a request answers, or that has
\* outlived a logout.
KeyInv ==
  /\ key.there => key.exp = key.ends /\ clock < key.ends /\ key.ends <= clock + ttl
  /\ key.there => \/ key.ends <= cookie \/ \E r \in Pages : visit[r].pc = "answer"
                  \/ loggedOut.out /\ key.ends <= loggedOut.at + ttl
  /\ loggedOut.out /\ ~loggedOut.met =>
       /\ sessionFaults = 0 => ~key.there
       /\ cookie = 0
       /\ key.there => key.ends <= loggedOut.at + ttl

SessionInv == Session!SessionTypeOK /\ KeyInv /\ \A r \in Pages : VisitInv(r)

SessionKeys == [there : BOOLEAN, exp : 0..(MaxHours + ttl), ends : 0..(MaxHours + ttl)]
Visits == [pc : {"out", "ttl", "slide", "answer"}, exp : 0..(MaxHours + ttl), since : 0..MaxHours]

Leavings == [out : BOOLEAN, met : BOOLEAN, at : 0..MaxHours]

LEMMA SessionTypes ==
  Session!SessionTypeOK
    <=> /\ clock \in 0..MaxHours /\ cookie \in 0..(MaxHours + ttl) /\ loggedOut \in Leavings
        /\ sessionFaults \in 0..MaxSlideFaults /\ key \in SessionKeys /\ visit \in [Pages -> Visits]
        /\ ~key.there => key = Session!Gone
BY DEF Session!SessionTypeOK, Session!Horizon, SessionKeys, Visits, Leavings

LEMMA SessionInitially == Session!Init => SessionInv
<1> SUFFICES ASSUME Session!Init PROVE SessionInv
  OBVIOUS
<1>1. /\ clock = 0 /\ sessionFaults = 0 /\ loggedOut = [out |-> FALSE, met |-> FALSE, at |-> 0] /\ cookie = ttl
      /\ key = [there |-> TRUE, exp |-> ttl, ends |-> ttl]
      /\ visit = [r \in Pages |-> [pc |-> "out", exp |-> 0, since |-> 0]]
  BY DEF Session!Init, Session!Out, Session!Here
<1>2. /\ MaxHours \in Nat /\ ttl \in Nat \ {0} /\ slideAfter \in 1..ttl /\ MaxSlideFaults \in Nat
  BY UsersAssumption DEF Session!SessionAssumption
<1>3. Session!SessionTypeOK
  <2>1. 0 \in 0..(MaxHours + ttl) /\ ttl \in 0..(MaxHours + ttl) /\ 0 \in 0..MaxHours /\ 0 \in 0..MaxSlideFaults
    BY <1>2
  <2>2. key \in SessionKeys /\ key.there
    BY <1>1, <2>1 DEF SessionKeys
  <2>3. visit \in [Pages -> Visits]
    BY <1>1, <2>1 DEF Visits
  <2> QED
    BY <1>1, <2>1, <2>2, <2>3, SessionTypes DEF Leavings
<1> QED
  BY <1>1, <1>2, <1>3 DEF SessionInv, KeyInv, VisitInv

\* Each step of a session preserves the invariant.
LEMMA SessionStep == SessionInv /\ [Session!Next]_sessionVars => SessionInv'
<1> SUFFICES ASSUME SessionInv, [Session!Next]_sessionVars PROVE SessionInv'
  OBVIOUS
<1>0. /\ MaxHours \in Nat /\ ttl \in Nat \ {0} /\ slideAfter \in 1..ttl /\ MaxSlideFaults \in Nat
      /\ clock \in 0..MaxHours /\ cookie \in 0..(MaxHours + ttl) /\ loggedOut \in Leavings
      /\ sessionFaults \in 0..MaxSlideFaults /\ key \in SessionKeys /\ visit \in [Pages -> Visits]
      /\ ~key.there => key = Session!Gone
  BY UsersAssumption, SessionTypes DEF Session!SessionAssumption, SessionInv
<1>a. Session!SessionTypeOK'
        <=> /\ clock' \in 0..MaxHours /\ cookie' \in 0..(MaxHours + ttl) /\ loggedOut' \in Leavings
            /\ sessionFaults' \in 0..MaxSlideFaults /\ key' \in SessionKeys /\ visit' \in [Pages -> Visits]
            /\ ~key'.there => key' = Session!Gone
  BY DEF Session!SessionTypeOK, Session!Horizon, SessionKeys, Visits, Leavings, Session!Gone
<1>1. ASSUME NEW r \in Pages, Session!Validate(r) PROVE SessionInv'
  <2>1. /\ visit[r].pc = "out" /\ key.there /\ cookie > clock
        /\ visit'[r] = [pc |-> "ttl", exp |-> key.exp, since |-> clock]
        /\ \A q \in Pages \ {r} : visit'[q] = visit[q]
        /\ UNCHANGED <<clock, key, cookie, loggedOut, sessionFaults>>
    BY <1>0, <1>1 DEF Session!Validate, Visits, SessionKeys
  <2>2. Session!SessionTypeOK'
    BY <1>0, <1>a, <1>1, <2>1 DEF Visits, SessionKeys, Session!Validate, Visits, SessionKeys
  <2>3. KeyInv'
    BY <1>0, <2>1 DEF SessionInv, KeyInv, VisitInv, Visits, SessionKeys, Leavings
  <2>4. ASSUME NEW q \in Pages PROVE VisitInv(q)'
    BY <1>0, <2>1, <2>4 DEF SessionInv, KeyInv, VisitInv, Visits, SessionKeys, Leavings
  <2> QED
    BY <2>2, <2>3, <2>4 DEF SessionInv
<1>2. ASSUME NEW r \in Pages, Session!TTL(r) PROVE SessionInv'
  <2>1. /\ visit[r].pc = "ttl" /\ visit'[r].exp = visit[r].exp /\ visit'[r].since = visit[r].since
        /\ \/ visit'[r].pc = "slide"
           \/ visit'[r].pc = "answer" /\ ~(key.there /\ key.ends - clock < slideAfter)
        /\ \A q \in Pages \ {r} : visit'[q] = visit[q]
        /\ UNCHANGED <<clock, key, cookie, loggedOut, sessionFaults>>
    BY <1>0, <1>2 DEF Session!TTL, Session!Slides, Visits
  <2>2. Session!SessionTypeOK'
    BY <1>0, <1>a, <1>2, <2>1 DEF Visits, SessionKeys, Session!TTL, Session!Slides, Visits
  <2>3. KeyInv'
    BY <1>0, <2>1 DEF SessionInv, KeyInv, VisitInv, Visits, SessionKeys, Leavings
  <2>4. ASSUME NEW q \in Pages PROVE VisitInv(q)'
    BY <1>0, <2>1, <2>4 DEF SessionInv, KeyInv, VisitInv, Visits, SessionKeys, Leavings
  <2> QED
    BY <2>2, <2>3, <2>4 DEF SessionInv
<1>3. ASSUME NEW r \in Pages, Session!Slide(r) PROVE SessionInv'
  <2>1. /\ visit[r].pc = "slide" /\ clock + ttl \in 0..(MaxHours + ttl)
        /\ key' = [there |-> TRUE, exp |-> clock + ttl, ends |-> clock + ttl]
        /\ visit'[r] = [pc |-> "answer", exp |-> clock + ttl, since |-> visit[r].since]
        /\ \A q \in Pages \ {r} : visit'[q] = visit[q]
        /\ UNCHANGED <<clock, cookie, loggedOut, sessionFaults>>
    <3>1. clock + ttl \in 0..(MaxHours + ttl)
      BY <1>0
    <3>2. visit[r] \in Visits
      BY <1>0
    <3> QED
      BY <1>0, <1>3, <3>1, <3>2 DEF Session!Slide, Visits
  <2>2. Session!SessionTypeOK'
    <3>1. visit'[r] \in Visits /\ key' \in SessionKeys
      BY <1>0, <2>1 DEF Visits, SessionKeys
    <3>2. visit' \in [Pages -> Visits]
      BY <1>0, <1>3, <2>1, <3>1 DEF Session!Slide
    <3> QED
      BY <1>0, <1>a, <2>1, <3>1, <3>2
  <2>3. KeyInv'
    BY <1>0, <2>1 DEF SessionInv, KeyInv, VisitInv, Visits, SessionKeys, Leavings
  <2>4. ASSUME NEW q \in Pages PROVE VisitInv(q)'
    BY <1>0, <2>1, <2>4 DEF SessionInv, KeyInv, VisitInv, Visits, SessionKeys, Leavings
  <2> QED
    BY <2>2, <2>3, <2>4 DEF SessionInv
<1>4. ASSUME NEW r \in Pages, Session!SlideFails(r) PROVE SessionInv'
  <2>1. /\ visit[r].pc = "slide" /\ sessionFaults' = sessionFaults + 1 /\ sessionFaults' \in 1..MaxSlideFaults
        /\ visit'[r].pc = "answer" /\ visit'[r].exp = visit[r].exp /\ visit'[r].since = visit[r].since /\ visit'[r] \in Visits
        /\ \A q \in Pages \ {r} : visit'[q] = visit[q]
        /\ UNCHANGED <<clock, key, cookie, loggedOut>>
    <3>1. visit[r] \in Visits /\ visit' = [visit EXCEPT ![r] = [visit[r] EXCEPT !.pc = "answer", !.exp = visit[r].exp]]
      BY <1>0, <1>4 DEF Session!SlideFails, Session!Held
    <3>2. visit[r].pc = "slide" /\ sessionFaults' = sessionFaults + 1 /\ sessionFaults' \in 1..MaxSlideFaults
      BY <1>0, <1>4 DEF Session!SlideFails
    <3>3. visit'[r].pc = "answer" /\ visit'[r].exp = visit[r].exp /\ visit'[r].since = visit[r].since /\ visit'[r] \in Visits
      BY <1>0, <3>1 DEF Visits
    <3> QED
      BY <1>0, <1>4, <3>1, <3>2, <3>3 DEF Session!SlideFails
  <2>2. Session!SessionTypeOK'
    BY <1>0, <1>a, <1>4, <2>1 DEF Visits, SessionKeys, Session!SlideFails, Session!Held, Visits
  <2>3. KeyInv'
    BY <1>0, <2>1 DEF SessionInv, KeyInv, VisitInv, Visits, SessionKeys, Leavings
  <2>4. ASSUME NEW q \in Pages PROVE VisitInv(q)'
    BY <1>0, <2>1, <2>4 DEF SessionInv, KeyInv, VisitInv, Visits, SessionKeys, Leavings
  <2> QED
    BY <2>2, <2>3, <2>4 DEF SessionInv
<1>5. ASSUME NEW r \in Pages, Session!Answer(r) PROVE SessionInv'
  <2>1. /\ visit[r].pc = "answer" /\ visit'[r] = [pc |-> "out", exp |-> 0, since |-> 0]
        /\ \/ visit[r].exp <= clock /\ key' = Session!Gone /\ UNCHANGED cookie
           \/ visit[r].exp > clock /\ UNCHANGED key /\ cookie' = clock + ttl
        /\ \A q \in Pages \ {r} : visit'[q] = visit[q]
        /\ UNCHANGED <<clock, loggedOut, sessionFaults>>
    BY <1>0, <1>5 DEF Session!Answer, Session!Rolled, Session!Out, Visits
  <2>2. Session!SessionTypeOK'
    <3>0. Session!Gone \in SessionKeys
      BY <1>0 DEF SessionKeys, Session!Gone
    <3>1. visit'[r] \in Visits /\ key' \in SessionKeys /\ (~key'.there => key' = Session!Gone)
      BY <1>0, <2>1, <3>0 DEF Visits
    <3>2. visit' \in [Pages -> Visits]
      BY <1>0, <1>5, <2>1, <3>1 DEF Session!Answer
    <3>3. cookie' \in 0..(MaxHours + ttl)
      BY <1>0, <2>1
    <3> QED
      BY <1>0, <1>a, <2>1, <3>1, <3>2, <3>3
  <2>3. KeyInv'
    BY <1>0, <2>1 DEF SessionInv, KeyInv, VisitInv, Visits, SessionKeys, Leavings
  <2>4. ASSUME NEW q \in Pages PROVE VisitInv(q)'
    BY <1>0, <2>1, <2>4 DEF SessionInv, KeyInv, VisitInv, Visits, SessionKeys, Leavings
  <2> QED
    BY <2>2, <2>3, <2>4 DEF SessionInv
<1>6. ASSUME Session!Logout \/ Session!LogoutFails PROVE SessionInv'
  <2>1. /\ ~loggedOut.out /\ cookie' = 0 /\ UNCHANGED <<clock, visit>>
        /\ loggedOut' = [out |-> TRUE, met |-> \E r \in Pages : visit[r].pc # "out", at |-> clock]
        /\ \/ key' = [there |-> FALSE, exp |-> 0, ends |-> 0] /\ UNCHANGED sessionFaults
           \/ UNCHANGED key /\ sessionFaults' = sessionFaults + 1 /\ sessionFaults' \in 1..MaxSlideFaults
    BY <1>0, <1>6 DEF Session!Logout, Session!LogoutFails, Session!Leaves, Session!Destroyed, Session!Gone
  <2>2. Session!SessionTypeOK'
    <3>0. Session!Gone \in SessionKeys /\ Session!Gone = [there |-> FALSE, exp |-> 0, ends |-> 0]
      BY <1>0 DEF SessionKeys, Session!Gone
    <3>1. key' \in SessionKeys /\ (~key'.there => key' = Session!Gone) /\ loggedOut' \in Leavings
      BY <1>0, <2>1, <3>0 DEF Leavings
    <3> QED
      BY <1>0, <1>a, <2>1, <3>1
  <2>3. KeyInv'
    BY <1>0, <2>1 DEF SessionInv, KeyInv, VisitInv, Visits, SessionKeys, Leavings
  <2>4. ASSUME NEW q \in Pages PROVE VisitInv(q)'
    BY <1>0, <2>1, <2>4 DEF SessionInv, KeyInv, VisitInv, Visits, SessionKeys, Leavings
  <2> QED
    BY <2>2, <2>3, <2>4 DEF SessionInv
<1>7. ASSUME Session!Tick PROVE SessionInv'
  <2>1. /\ clock' = clock + 1 /\ clock' \in 0..MaxHours /\ \A r \in Pages : visit[r].pc = "out"
        /\ \/ key.there /\ key.ends = clock + 1 /\ key' = [there |-> FALSE, exp |-> 0, ends |-> 0]
           \/ ~(key.there /\ key.ends = clock + 1) /\ UNCHANGED key
        /\ UNCHANGED <<cookie, visit, loggedOut, sessionFaults>>
    BY <1>0, <1>7 DEF Session!Tick, Session!Gone
  <2>2. Session!SessionTypeOK'
    <3>0. Session!Gone \in SessionKeys /\ Session!Gone = [there |-> FALSE, exp |-> 0, ends |-> 0]
      BY <1>0 DEF SessionKeys, Session!Gone
    <3>1. key' \in SessionKeys /\ (~key'.there => key' = Session!Gone)
      BY <1>0, <2>1, <3>0
    <3> QED
      BY <1>0, <1>a, <2>1, <3>1
  <2>3. KeyInv'
    BY <1>0, <2>1 DEF SessionInv, KeyInv, VisitInv, Visits, SessionKeys, Leavings
  <2>4. ASSUME NEW q \in Pages PROVE VisitInv(q)'
    BY <1>0, <2>1, <2>4 DEF SessionInv, KeyInv, VisitInv, Visits, SessionKeys, Leavings
  <2> QED
    BY <2>2, <2>3, <2>4 DEF SessionInv
<1>8. CASE UNCHANGED sessionVars
  BY <1>8 DEF sessionVars, SessionInv, Session!SessionTypeOK, Session!Gone, KeyInv, VisitInv
<1> QED
  BY <1>1, <1>2, <1>3, <1>4, <1>5, <1>6, <1>7, <1>8 DEF Session!Next

-----------------------------------------------------------------------------
(* Accounts and keys.                                                      *)

Forms == [pc : {"admin", "email", "name", "role", "write"}, id : 0..MaxUsers, email : Emails,
          name : Names \cup {NoName}, role : Account!Roles, first : BOOLEAN]
Deleting == [pc : {"delete"}, user : Account!Ids, met : SUBSET (1..MaxKeys)]
Creating == [pc : {"create"}, user : Account!Ids, met : SUBSET (1..MaxKeys), gone : SUBSET (1..MaxKeys)]

AccountTypes ==
  /\ created \in 0..MaxUsers /\ minted \in 0..MaxKeys /\ accountBlips \in 0..MaxBlips
  /\ users \in [DOMAIN users -> Account!Rows] /\ DOMAIN users \subseteq 1..created
  /\ keys \in [DOMAIN keys -> Account!Ids] /\ DOMAIN keys \subseteq 1..minted
  /\ edit \in [Account!Requests -> {Account!Out} \cup Forms]
  /\ minter \in [Minters -> {Account!Out} \cup Deleting \cup Creating]

\* An edit is of a row that was written before.
EditInv(r) ==
  edit[r].pc # "out" =>
    /\ edit[r].id <= created
    /\ r \in Registers => edit[r].role = "user" /\ edit[r].id = 0
    /\ r \in Creates => edit[r].role # "admin"
    /\ r \notin Registers => ~edit[r].first /\ edit[r].pc # "admin"
    /\ edit[r].pc = "admin" => ~edit[r].first
    /\ edit[r].pc = "role" => r \in Updates

\* Of the keys a mint has met, those that are still there are its user's, and go.
MintInv(m) ==
  /\ minter[m].pc # "out" => minter[m].met \subseteq 1..minted
  /\ minter[m].pc = "delete" => minter[m].met \cap DOMAIN keys \subseteq Account!KeysOf(minter[m].user)
  /\ minter[m].pc = "create" => minter[m].met \cap DOMAIN keys \subseteq minter[m].gone

AccountInv ==
  /\ AccountTypes
  /\ Account!UniqueEmail /\ Account!KeysHaveUsers
  /\ \A r \in Account!Requests : EditInv(r)
  /\ \A m \in Minters : MintInv(m)

LEMMA AccountInitially == Account!Init => AccountInv
<1> SUFFICES ASSUME Account!Init PROVE AccountInv
  OBVIOUS
<1>1. /\ DOMAIN users = {} /\ DOMAIN keys = {} /\ created = 0 /\ minted = 0 /\ accountBlips = 0
      /\ users \in [DOMAIN users -> Account!Rows] /\ keys \in [DOMAIN keys -> Account!Ids]
  BY DEF Account!Init
<1>2. MaxUsers \in Nat /\ MaxKeys \in Nat /\ MaxBlips \in Nat
  BY UsersAssumption DEF Account!AccountsAssumption
<1>3. edit = [r \in Account!Requests |-> [pc |-> "out"]] /\ minter = [m \in Minters |-> [pc |-> "out"]]
  BY DEF Account!Init, Account!Out
<1> QED
  BY <1>1, <1>2, <1>3 DEF AccountInv, AccountTypes, Account!Out, Account!UniqueEmail, Account!There,
       Account!KeysHaveUsers, EditInv, MintInv

LEMMA AccountStep == AccountInv /\ [Account!Next]_accountVars => AccountInv'
<1> SUFFICES ASSUME AccountInv, [Account!Next]_accountVars PROVE AccountInv'
  OBVIOUS
<1>0. /\ MaxUsers \in Nat /\ MaxKeys \in Nat /\ MaxBlips \in Nat /\ NoName \notin Names
      /\ Registers \cap Creates = {} /\ Updates \cap (Registers \cup Creates) = {}
  BY UsersAssumption DEF Account!AccountsAssumption
<1> USE DEF Account!Requests, Account!There
\* What a step of a request leaves alone.
<1>a. ASSUME NEW r \in Account!Requests, NEW form \in {Account!Out} \cup Forms, edit' = [edit EXCEPT ![r] = form],
             accountBlips' \in 0..MaxBlips, UNCHANGED <<users, keys, minter, created, minted>>, EditInv(r)'
      PROVE  AccountInv'
  <2>1. AccountTypes'
    BY <1>a DEF AccountInv, AccountTypes
  <2>2. (Account!UniqueEmail /\ Account!KeysHaveUsers)'
    BY <1>a DEF AccountInv, Account!UniqueEmail, Account!KeysHaveUsers
  <2>3. ASSUME NEW q \in Account!Requests PROVE EditInv(q)'
    BY <1>a, <2>3 DEF AccountInv, AccountTypes, EditInv
  <2>4. ASSUME NEW m \in Minters PROVE MintInv(m)'
    BY <1>a, <2>4 DEF AccountInv, MintInv, Account!KeysOf
  <2> QED
    BY <2>1, <2>2, <2>3, <2>4 DEF AccountInv
<1>1. ASSUME NEW r \in Registers, NEW e \in Emails, NEW n \in Names, Account!Register(r, e, n) PROVE AccountInv'
  <2> DEFINE form == [pc |-> "admin", id |-> 0, email |-> e, name |-> n, role |-> "user", first |-> FALSE]
  <2>1. form \in Forms
    BY <1>0, <1>1 DEF Forms, Account!Roles
  <2>2. EditInv(r)'
    BY <1>0, <1>1 DEF AccountInv, AccountTypes, Account!Register, EditInv
  <2>3. AccountTypes
    BY DEF AccountInv
  <2> QED
    BY <1>1, <1>a, <2>1, <2>2, <2>3 DEF Account!Register, AccountTypes
<1>2. ASSUME NEW r \in Creates, NEW e \in Emails, NEW n \in Names \cup {NoName}, NEW role \in Account!Roles,
             Account!CreateUser(r, e, n, role)
      PROVE  AccountInv'
  <2> DEFINE form == [pc |-> "email", id |-> 0, email |-> e, name |-> n, role |-> Account!NewRole(role), first |-> FALSE]
  <2>1. form \in Forms /\ Account!NewRole(role) # "admin"
    BY <1>0, <1>2 DEF Forms, Account!Roles, Account!NewRole
  <2>2. EditInv(r)'
    BY <1>0, <1>2, <2>1 DEF AccountInv, AccountTypes, Account!CreateUser, EditInv
  <2>3. AccountTypes
    BY DEF AccountInv
  <2> QED
    BY <1>2, <1>a, <2>1, <2>2, <2>3 DEF Account!CreateUser, AccountTypes
<1>3. ASSUME NEW r \in Updates, NEW u \in DOMAIN users, NEW e \in Emails, NEW n \in Names \cup {NoName},
             NEW role \in Account!Roles, Account!UpdateUser(r, u, e, n, role)
      PROVE  AccountInv'
  <2> DEFINE form == [pc |-> "email", id |-> u, email |-> e, name |-> n, role |-> role, first |-> FALSE]
  <2>3. AccountTypes
    BY DEF AccountInv
  <2>1. form \in Forms /\ u <= created
    BY <1>0, <1>3, <2>3 DEF Forms, Account!Roles, AccountTypes
  <2>2. EditInv(r)'
    BY <1>0, <1>3, <2>1, <2>3 DEF AccountTypes, Account!UpdateUser, EditInv
  <2> QED
    BY <1>3, <1>a, <2>1, <2>2, <2>3 DEF Account!UpdateUser, AccountTypes
<1>b. ASSUME NEW r \in Account!Requests, edit[r].pc # "out" PROVE edit[r] \in Forms /\ EditInv(r)
  BY <1>b DEF AccountInv, AccountTypes, Account!Out
<1>c. ASSUME NEW r \in Account!Requests, Account!Ends(r), accountBlips' \in 0..MaxBlips,
             UNCHANGED <<users, keys, minter, created, minted>>
      PROVE  AccountInv'
  <2>1. EditInv(r)'
    BY <1>c DEF Account!Ends, Account!Out, EditInv, AccountInv, AccountTypes
  <2> QED
    BY <1>a, <1>c, <2>1 DEF Account!Ends
<1>d. ASSUME NEW r \in Account!Requests, edit[r].pc # "out", NEW pc \in {"email", "name", "role", "write"}, Account!Goto(r, pc),
             pc = "role" => r \in Updates,
             accountBlips' \in 0..MaxBlips, UNCHANGED <<users, keys, minter, created, minted>>
      PROVE  AccountInv'
  <2> DEFINE form == [edit[r] EXCEPT !.pc = pc]
  <2>1. form \in Forms
    BY <1>b, <1>d DEF Forms
  <2>2. edit' = [edit EXCEPT ![r] = form]
    BY <1>d DEF Account!Goto
  <2>3. EditInv(r)'
    BY <1>b, <1>d, <2>2 DEF AccountInv, AccountTypes, EditInv, Forms
  <2> QED
    BY <1>a, <1>d, <2>1, <2>2, <2>3
<1>4. ASSUME NEW r \in Account!Requests, Account!BootstrapsOrIsOpen(r) PROVE AccountInv'
  <2> DEFINE form == [edit[r] EXCEPT !.pc = "email", !.first = ~Account!HasAdmin]
  <2>0. Account!HasAdmin \in BOOLEAN /\ accountBlips' \in 0..MaxBlips
    BY <1>4 DEF Account!HasAdmin, Account!BootstrapsOrIsOpen, AccountInv, AccountTypes
  <2>1. edit[r] \in Forms /\ EditInv(r) /\ edit[r].pc = "admin"
    BY <1>4, <1>b DEF Account!BootstrapsOrIsOpen
  <2>2. form \in Forms
    BY <2>0, <2>1 DEF Forms
  <2>3. edit' = [edit EXCEPT ![r] = form]
    BY <1>4 DEF Account!BootstrapsOrIsOpen
  <2>4. EditInv(r)'
    BY <1>4, <2>1, <2>3 DEF AccountInv, AccountTypes, EditInv, Forms, Account!BootstrapsOrIsOpen
  <2> QED
    BY <1>a, <1>4, <2>0, <2>2, <2>3, <2>4 DEF Account!BootstrapsOrIsOpen
<1>5. ASSUME NEW r \in Account!Requests, Account!TurnedAway(r) PROVE AccountInv'
  BY <1>5, <1>c DEF Account!TurnedAway, AccountInv, AccountTypes
<1>6. ASSUME NEW r \in Account!Requests, Account!CheckEmail(r) PROVE AccountInv'
  BY <1>6, <1>c, <1>d DEF Account!CheckEmail, AccountInv, AccountTypes
<1>7. ASSUME NEW r \in Account!Requests, Account!CheckName(r) PROVE AccountInv'
  BY <1>7, <1>c, <1>d DEF Account!CheckName, AccountInv, AccountTypes
<1>8. ASSUME NEW r \in Account!Requests, Account!ReadRole(r) PROVE AccountInv'
  <2> DEFINE role == IF Account!MayChangeRole(r) THEN edit[r].role ELSE "admin"
             form == [edit[r] EXCEPT !.pc = "write", !.role = role]
  <2>1. edit[r] \in Forms /\ EditInv(r) /\ edit[r].pc = "role"
    BY <1>8, <1>b DEF Account!ReadRole
  <2>2. role \in Account!Roles
    BY <2>1 DEF Forms, Account!Roles
  <2>3. form \in Forms
    BY <2>1, <2>2 DEF Forms
  <2>4. edit' = [edit EXCEPT ![r] = form]
    BY <1>8 DEF Account!ReadRole
  <2>5. EditInv(r)'
    <3>1. r \in Updates /\ created' = created
      BY <1>8, <2>1 DEF EditInv, Account!ReadRole
    <3>2. edit'[r].id = edit[r].id /\ edit'[r].first = edit[r].first /\ edit'[r].pc = "write"
      BY <2>1, <2>4 DEF Forms, AccountInv, AccountTypes
    <3> QED
      BY <1>0, <2>1, <3>1, <3>2 DEF EditInv
  <2> QED
    BY <1>a, <1>8, <2>3, <2>4, <2>5 DEF Account!ReadRole, AccountInv, AccountTypes
<1>9. ASSUME NEW r \in Account!Requests, Account!ReadRoleFails(r) PROVE AccountInv'
  <2>1. accountBlips' \in 0..MaxBlips /\ edit[r].pc # "out" /\ Account!Goto(r, "write")
    BY <1>0, <1>9 DEF Account!ReadRoleFails, AccountInv, AccountTypes
  <2> QED
    BY <1>9, <1>d, <2>1 DEF Account!ReadRoleFails
<1>e. ASSUME UNCHANGED <<keys, minted, minter>>, DOMAIN users \subseteq DOMAIN users' PROVE /\ Account!KeysHaveUsers'
                                                                                   /\ \A m \in Minters : MintInv(m)'
  BY <1>e DEF AccountInv, Account!KeysHaveUsers, MintInv, Account!KeysOf
<1>10. ASSUME NEW r \in Account!Requests, Account!Insert(r) PROVE AccountInv'
  <2>1. edit[r] \in Forms /\ EditInv(r) /\ r \notin Updates
    BY <1>10, <1>b DEF Account!Insert
  <2>2. CASE UNCHANGED <<users, created>>
    BY <1>10, <1>c, <2>2 DEF Account!Insert, AccountInv, AccountTypes
  <2>3. CASE ~UNCHANGED <<users, created>>
    <3> DEFINE new == [email |-> edit[r].email, name |-> edit[r].name,
                       role |-> IF edit[r].first THEN "admin" ELSE edit[r].role]
    <3>1. /\ created' = created + 1 /\ created < MaxUsers /\ Account!UniqueIndex(edit[r].email, 0)
          /\ users' = [u \in DOMAIN users \cup {created + 1} |-> IF u # created + 1 THEN users[u] ELSE new]
          /\ edit' = [edit EXCEPT ![r] = Account!Out]
          /\ UNCHANGED <<keys, minter, minted, accountBlips>>
      BY <1>10, <2>3 DEF Account!Insert, Account!Ends
    <3>2. new \in Account!Rows
      BY <2>1 DEF Forms, Account!Rows, Account!Roles
    <3>3. AccountTypes'
      BY <1>0, <3>1, <3>2 DEF AccountInv, AccountTypes
    <3>4. Account!UniqueEmail'
      <4>1. \A u \in DOMAIN users : u # created + 1 /\ u # 0 /\ users[u].email # edit[r].email
        BY <1>0, <3>1 DEF Account!UniqueIndex, Account!ExistsEmail, AccountInv, AccountTypes
      <4> QED
        BY <3>1, <4>1 DEF AccountInv, Account!UniqueEmail
    <3>5. ASSUME NEW q \in Account!Requests PROVE EditInv(q)'
      BY <1>0, <1>b, <3>1, <3>5 DEF AccountInv, AccountTypes, EditInv, Forms, Account!Out
    <3> QED
      BY <1>e, <3>1, <3>3, <3>4, <3>5 DEF AccountInv
  <2> QED
    BY <2>2, <2>3
<1>11. ASSUME NEW r \in Account!Requests, Account!Patch(r) PROVE AccountInv'
  <2> DEFINE q == edit[r]
  <2>1. q \in Forms /\ EditInv(r)
    BY <1>11, <1>b DEF Account!Patch
  <2>2. CASE UNCHANGED users
    BY <1>11, <1>c, <2>2 DEF Account!Patch, AccountInv, AccountTypes
  <2>3. CASE ~UNCHANGED users
    <3> DEFINE new == [email |-> q.email, name |-> q.name, role |-> IF q.role = "admin" THEN users[q.id].role ELSE q.role]
    <3>1. /\ q.id \in DOMAIN users /\ Account!UniqueIndex(q.email, q.id)
          /\ users' = [users EXCEPT ![q.id] = new]
          /\ edit' = [edit EXCEPT ![r] = Account!Out]
          /\ UNCHANGED <<keys, minter, created, minted, accountBlips>>
      BY <1>11, <2>3 DEF Account!Patch, Account!Ends
    <3>2. new \in Account!Rows
      BY <2>1, <3>1 DEF Forms, Account!Rows, Account!Roles, AccountInv, AccountTypes
    <3>3. AccountTypes'
      BY <1>0, <3>1, <3>2 DEF AccountInv, AccountTypes
    <3>4. Account!UniqueEmail'
      BY <3>1 DEF AccountInv, AccountTypes, Account!UniqueEmail, Account!UniqueIndex, Account!ExistsEmail
    <3>5. ASSUME NEW p \in Account!Requests PROVE EditInv(p)'
      BY <1>0, <1>b, <3>1, <3>5 DEF AccountInv, AccountTypes, EditInv, Forms, Account!Out
    <3> QED
      BY <1>e, <3>1, <3>3, <3>4, <3>5 DEF AccountInv, AccountTypes
  <2> QED
    BY <2>2, <2>3
<1>12. ASSUME NEW D \in SUBSET DOMAIN users, Account!DeleteUsers(D) PROVE AccountInv'
  <2>1. /\ users' = [u \in DOMAIN users \ D |-> users[u]] /\ \A u \in D : Account!KeysOf(u) = {}
        /\ UNCHANGED <<keys, edit, minter, created, minted, accountBlips>>
    BY <1>12 DEF Account!DeleteUsers, Account!MayDelete
  <2>2. AccountTypes'
    BY <2>1 DEF AccountInv, AccountTypes
  <2>3. (Account!UniqueEmail /\ Account!KeysHaveUsers)'
    BY <2>1 DEF AccountInv, Account!UniqueEmail, Account!KeysHaveUsers, Account!KeysOf
  <2>4. (\A r \in Account!Requests : EditInv(r))' /\ (\A m \in Minters : MintInv(m))'
    BY <2>1 DEF AccountInv, EditInv, MintInv, Account!KeysOf
  <2> QED
    BY <2>2, <2>3, <2>4 DEF AccountInv
\* What a step of a mint, or of the keys, leaves alone.
<1>f. ASSUME UNCHANGED <<users, edit, created, accountBlips>>
      PROVE  Account!UniqueEmail' /\ \A r \in Account!Requests : EditInv(r)'
  BY <1>f DEF AccountInv, Account!UniqueEmail, EditInv
<1>13. ASSUME NEW m \in Minters, NEW u \in DOMAIN users, Account!Mint(m, u) PROVE AccountInv'
  <2> DEFINE new == [pc |-> "delete", user |-> u, met |-> Account!KeysOf(u)]
  <2>1. minter' = [minter EXCEPT ![m] = new] /\ UNCHANGED <<users, keys, edit, created, minted, accountBlips>>
    BY <1>13 DEF Account!Mint
  <2>2. Account!KeysOf(u) \subseteq DOMAIN keys /\ Account!KeysOf(u) \subseteq 1..minted /\ 1..minted \subseteq 1..MaxKeys
    BY <1>0 DEF Account!KeysOf, AccountInv, AccountTypes
  <2>3. new \in Deleting
    BY <1>0, <1>13, <2>2 DEF Deleting, Account!Ids, AccountInv, AccountTypes
  <2>4. AccountTypes'
    BY <2>1, <2>3 DEF AccountInv, AccountTypes
  <2>5. Account!KeysHaveUsers'
    BY <2>1 DEF AccountInv, Account!KeysHaveUsers
  <2>6. ASSUME NEW k \in Minters PROVE MintInv(k)'
    BY <2>1, <2>2, <2>6 DEF AccountInv, AccountTypes, MintInv, Account!KeysOf
  <2> QED
    BY <1>f, <2>1, <2>4, <2>5, <2>6 DEF AccountInv
<1>14. ASSUME NEW m \in Minters, Account!MintDeletes(m) PROVE AccountInv'
  <2> DEFINE new == [pc |-> "create", user |-> minter[m].user, met |-> minter[m].met, gone |-> Account!KeysOf(minter[m].user)]
  <2>1. /\ minter' = [minter EXCEPT ![m] = new] /\ UNCHANGED <<users, keys, edit, created, minted, accountBlips>>
        /\ minter[m].pc = "delete"
    BY <1>14 DEF Account!MintDeletes, Account!Replaced
  <2>2. minter[m] \in Deleting
    BY <2>1 DEF AccountInv, AccountTypes, Account!Out, Creating
  <2>3. Account!KeysOf(minter[m].user) \subseteq 1..MaxKeys
    BY <1>0 DEF Account!KeysOf, AccountInv, AccountTypes
  <2>4. new \in Creating
    BY <2>2, <2>3 DEF Deleting, Creating
  <2>5. AccountTypes'
    BY <2>1, <2>4 DEF AccountInv, AccountTypes
  <2>6. Account!KeysHaveUsers'
    BY <2>1 DEF AccountInv, Account!KeysHaveUsers
  <2>7. ASSUME NEW k \in Minters PROVE MintInv(k)'
    BY <2>1, <2>7 DEF AccountInv, AccountTypes, MintInv, Account!KeysOf
  <2> QED
    BY <1>f, <2>1, <2>5, <2>6, <2>7 DEF AccountInv
<1>15. ASSUME NEW m \in Minters, Account!MintCommits(m) PROVE AccountInv'
  <2>1. /\ minter' = [minter EXCEPT ![m] = Account!Out] /\ UNCHANGED <<users, edit, created, accountBlips>>
        /\ minter[m].pc = "create"
    BY <1>15 DEF Account!MintCommits
  <2>2. CASE UNCHANGED <<keys, minted>>
    <3>1. AccountTypes' /\ Account!KeysHaveUsers'
      BY <2>1, <2>2 DEF AccountInv, AccountTypes, Account!KeysHaveUsers
    <3>2. ASSUME NEW k \in Minters PROVE MintInv(k)'
      BY <2>1, <2>2, <3>2 DEF AccountInv, AccountTypes, MintInv, Account!KeysOf, Account!Out
    <3> QED
      BY <1>f, <2>1, <3>1, <3>2 DEF AccountInv
  <2>3. CASE ~UNCHANGED <<keys, minted>>
    <3>1. /\ minter[m].user \in DOMAIN users /\ minted < MaxKeys /\ minted' = minted + 1
          /\ keys' = [k \in (DOMAIN keys \ minter[m].gone) \cup {minted + 1} |->
                        IF k = minted + 1 THEN minter[m].user ELSE keys[k]]
      BY <1>15, <2>3 DEF Account!MintCommits
    <3>2. minted + 1 \notin DOMAIN keys /\ minted + 1 \notin 1..minted
      BY <1>0 DEF AccountInv, AccountTypes
    <3>3. AccountTypes' /\ Account!KeysHaveUsers'
      BY <1>0, <2>1, <3>1, <3>2 DEF AccountInv, AccountTypes, Account!KeysHaveUsers, Account!Ids
    <3>4. ASSUME NEW k \in Minters PROVE MintInv(k)'
      BY <1>0, <2>1, <3>1, <3>2, <3>4 DEF AccountInv, AccountTypes, MintInv, Account!KeysOf, Account!Out
    <3> QED
      BY <1>f, <2>1, <3>3, <3>4 DEF AccountInv
  <2> QED
    BY <2>2, <2>3
<1>16. ASSUME NEW u \in DOMAIN users, Account!CreateUserAPIKey(u) PROVE AccountInv'
  <2>1. /\ minted < MaxKeys /\ minted' = minted + 1
        /\ keys' = [k \in DOMAIN keys \cup {minted + 1} |-> IF k = minted + 1 THEN u ELSE keys[k]]
        /\ UNCHANGED <<users, edit, minter, created, accountBlips>>
    BY <1>16 DEF Account!CreateUserAPIKey
  <2>2. minted + 1 \notin DOMAIN keys /\ minted + 1 \notin 1..minted
    BY <1>0 DEF AccountInv, AccountTypes
  <2>3. AccountTypes' /\ Account!KeysHaveUsers'
    BY <1>0, <1>16, <2>1, <2>2 DEF AccountInv, AccountTypes, Account!KeysHaveUsers, Account!Ids
  <2>4. ASSUME NEW m \in Minters PROVE MintInv(m)'
    BY <1>0, <2>1, <2>2, <2>4 DEF AccountInv, AccountTypes, MintInv, Account!KeysOf
  <2> QED
    BY <1>f, <2>1, <2>3, <2>4 DEF AccountInv
<1>17. ASSUME NEW D \in SUBSET DOMAIN keys, Account!DeleteKeys(D) PROVE AccountInv'
  <2>1. keys' = [k \in DOMAIN keys \ D |-> keys[k]] /\ UNCHANGED <<users, edit, minter, created, minted, accountBlips>>
    BY <1>17 DEF Account!DeleteKeys
  <2>2. AccountTypes' /\ Account!KeysHaveUsers'
    BY <2>1 DEF AccountInv, AccountTypes, Account!KeysHaveUsers
  <2>3. ASSUME NEW m \in Minters PROVE MintInv(m)'
    BY <2>1, <2>3 DEF AccountInv, MintInv, Account!KeysOf
  <2> QED
    BY <1>f, <2>1, <2>2, <2>3 DEF AccountInv
<1>18. CASE UNCHANGED accountVars
  BY <1>18 DEF accountVars, AccountInv, AccountTypes, EditInv, MintInv, Account!KeysOf, Account!UniqueEmail, Account!KeysHaveUsers
<1> QED
  <2>1. \A u : Account!KeysOf(u) \in SUBSET DOMAIN keys
    BY DEF Account!KeysOf
  <2>2. Registers \subseteq Account!Requests /\ Creates \subseteq Account!Requests
    OBVIOUS
  <2> QED
    BY <1>1, <1>2, <1>3, <1>4, <1>5, <1>6, <1>7, <1>8, <1>9, <1>10, <1>11, <1>12, <1>13, <1>14, <1>15, <1>16, <1>17, <1>18,
       <2>1 DEF Account!Next

\* What a step does to the rows: nothing, a new row of a request that is no
\* update, a patch of an update, or a deletion.
Inserts(r) ==
  /\ r \in Account!Requests \ Updates /\ edit[r].pc = "write"
  /\ created' = created + 1 /\ Account!UniqueIndex(edit[r].email, 0)
  /\ users' = [u \in DOMAIN users \cup {created + 1} |->
        IF u # created + 1 THEN users[u]
        ELSE [email |-> edit[r].email, name |-> edit[r].name,
              role |-> IF edit[r].first THEN "admin" ELSE edit[r].role]]
Patches(r) ==
  /\ r \in Updates /\ edit[r].pc = "write" /\ edit[r].id \in DOMAIN users /\ created' = created
  /\ users' = [users EXCEPT ![edit[r].id] =
        [email |-> edit[r].email, name |-> edit[r].name,
         role |-> IF edit[r].role = "admin" THEN users[edit[r].id].role ELSE edit[r].role]]
Deletes1(D) ==
  D \in SUBSET DOMAIN users /\ users' = [u \in DOMAIN users \ D |-> users[u]] /\ created' = created

LEMMA RowSteps ==
  ASSUME AccountInv, [Account!Next]_accountVars
  PROVE  \/ UNCHANGED <<users, created>>
         \/ \E r \in Account!Requests : /\ Inserts(r) \/ Patches(r)
                                        /\ edit' = [edit EXCEPT ![r] = Account!Out]
                                        /\ UNCHANGED accountBlips
         \/ \E D : Deletes1(D) /\ UNCHANGED <<edit, accountBlips>>
<1>1. ASSUME NEW r \in Account!Requests, Account!Insert(r)
      PROVE  UNCHANGED <<users, created>>
             \/ (Inserts(r) /\ edit' = [edit EXCEPT ![r] = Account!Out] /\ UNCHANGED accountBlips)
  BY <1>1 DEF Account!Insert, Account!Ends, Inserts, Account!There
<1>2. ASSUME NEW r \in Account!Requests, Account!Patch(r)
      PROVE  UNCHANGED <<users, created>>
             \/ (Patches(r) /\ edit' = [edit EXCEPT ![r] = Account!Out] /\ UNCHANGED accountBlips)
  BY <1>2 DEF Account!Patch, Account!Ends, Patches, Account!There
<1>3. ASSUME NEW D \in SUBSET DOMAIN users, Account!DeleteUsers(D)
      PROVE  Deletes1(D) /\ UNCHANGED <<edit, accountBlips>>
  BY <1>3 DEF Account!DeleteUsers, Deletes1, Account!There
<1>4. CASE UNCHANGED <<users, created>>
  BY <1>4
<1> QED
  BY <1>1, <1>2, <1>3, <1>4 DEF Account!Next, Account!There, Account!Register, Account!CreateUser, Account!UpdateUser,
     Account!BootstrapsOrIsOpen, Account!TurnedAway, Account!CheckEmail, Account!CheckName, Account!ReadRole,
     Account!ReadRoleFails, Account!Mint, Account!MintDeletes, Account!MintCommits, Account!CreateUserAPIKey,
     Account!DeleteKeys, accountVars

\* What a step does to a request: it ends, it moves on, or it comes to know
\* that there is no administrator, that its name is free, or its user's role.
Moves(q) ==
  \/ edit'[q] = edit[q]
  \/ edit'[q].pc = "out"
  \/ edit[q].pc = "out" /\ ~edit'[q].first /\ edit'[q].pc # "write"
  \/ /\ edit[q].pc # "out" /\ UNCHANGED <<users, created>>
     /\ edit'[q].first => edit[q].first \/ ~Account!HasAdmin
     /\ edit'[q].id = edit[q].id /\ edit'[q].name = edit[q].name
     /\ edit'[q].pc = "write" => \/ q \notin Updates /\ ~Account!NameTaken(q)
                                 \/ q \in Updates /\ accountBlips' > accountBlips
                                 \/ q \in Updates /\ (edit'[q].role = "admin" \/ Account!MayChangeRole(q))

LEMMA EditSteps ==
  ASSUME AccountInv, [Account!Next]_accountVars, NEW q \in Account!Requests
  PROVE  Moves(q)
<1> USE DEF Account!Requests
<1>0. edit \in [Account!Requests -> {Account!Out} \cup Forms] /\ accountBlips \in Nat
  BY UsersAssumption DEF Account!AccountsAssumption, AccountInv, AccountTypes
<1>1. ASSUME NEW r \in Account!Requests, Account!Ends(r) PROVE Moves(q)
  BY <1>0, <1>1 DEF Account!Ends, Account!Out, Moves
<1>2. ASSUME NEW r \in Account!Requests, edit[r].pc # "out" PROVE edit[r] \in Forms
  BY <1>0, <1>2 DEF Account!Out
<1>3. ASSUME NEW r \in Account!Requests, edit[r].pc # "out", NEW pc \in {"email", "name", "role", "write"}, Account!Goto(r, pc),
             UNCHANGED <<users, created>>,
             pc = "write" => (r \notin Updates /\ ~Account!NameTaken(r)) \/ (r \in Updates /\ accountBlips' > accountBlips)
      PROVE  Moves(q)
  <2>1. CASE q = r
    <3>1. edit[r] \in Forms /\ edit' = [edit EXCEPT ![r] = [edit[r] EXCEPT !.pc = pc]]
      BY <1>2, <1>3 DEF Account!Goto
    <3>2. edit'[r].pc = pc /\ edit'[r].first = edit[r].first /\ edit'[r].id = edit[r].id /\ edit'[r].name = edit[r].name
      BY <1>0, <3>1 DEF Forms
    <3> QED
      BY <1>3, <2>1, <3>2 DEF Moves
  <2>2. CASE q # r
    BY <1>0, <1>3, <2>2 DEF Account!Goto, Moves
  <2> QED
    BY <2>1, <2>2
<1>4. ASSUME NEW r \in Registers, NEW e, NEW n, Account!Register(r, e, n) PROVE Moves(q)
  <2>1. /\ edit[r].pc = "out" /\ edit'[r].pc = "admin" /\ ~edit'[r].first
        /\ \A p \in Account!Requests \ {r} : edit'[p] = edit[p]
    BY <1>0, <1>4 DEF Account!Register
  <2> QED
    BY <2>1 DEF Moves
<1>5. ASSUME NEW r \in Creates, NEW e, NEW n, NEW role, Account!CreateUser(r, e, n, role) PROVE Moves(q)
  <2>1. /\ edit[r].pc = "out" /\ edit'[r].pc = "email" /\ ~edit'[r].first
        /\ \A p \in Account!Requests \ {r} : edit'[p] = edit[p]
    BY <1>0, <1>5 DEF Account!CreateUser
  <2> QED
    BY <2>1 DEF Moves
<1>6. ASSUME NEW r \in Updates, NEW u, NEW e, NEW n, NEW role, Account!UpdateUser(r, u, e, n, role) PROVE Moves(q)
  <2>1. /\ edit[r].pc = "out" /\ edit'[r].pc = "email" /\ ~edit'[r].first
        /\ \A p \in Account!Requests \ {r} : edit'[p] = edit[p]
    BY <1>0, <1>6 DEF Account!UpdateUser
  <2> QED
    BY <2>1 DEF Moves
<1>7. ASSUME NEW r \in Account!Requests, Account!BootstrapsOrIsOpen(r) PROVE Moves(q)
  <2>1. /\ edit[r] \in Forms /\ edit[r].pc # "out" /\ UNCHANGED <<users, created>>
        /\ edit' = [edit EXCEPT ![r] = [edit[r] EXCEPT !.pc = "email", !.first = ~Account!HasAdmin]]
    BY <1>2, <1>7 DEF Account!BootstrapsOrIsOpen
  <2>2. CASE q = r
    <3>1. /\ edit'[r].pc = "email" /\ edit'[r].id = edit[r].id /\ edit'[r].name = edit[r].name
          /\ edit'[r].first = ~Account!HasAdmin
      BY <1>0, <2>1 DEF Forms
    <3> QED
      BY <2>1, <2>2, <3>1 DEF Moves
  <2>3. CASE q # r
    BY <1>0, <2>1, <2>3 DEF Moves
  <2> QED
    BY <2>2, <2>3
<1>8. ASSUME NEW r \in Account!Requests, Account!CheckEmail(r) PROVE Moves(q)
  BY <1>1, <1>3, <1>8 DEF Account!CheckEmail
<1>9. ASSUME NEW r \in Account!Requests, Account!CheckName(r) PROVE Moves(q)
  BY <1>1, <1>3, <1>9 DEF Account!CheckName
<1>10. ASSUME NEW r \in Account!Requests, Account!ReadRole(r) PROVE Moves(q)
  <2> DEFINE role == IF Account!MayChangeRole(r) THEN edit[r].role ELSE "admin"
  <2>1. /\ edit[r] \in Forms /\ edit[r].pc = "role" /\ UNCHANGED <<users, created>>
        /\ edit' = [edit EXCEPT ![r] = [edit[r] EXCEPT !.pc = "write", !.role = role]]
    BY <1>2, <1>10 DEF Account!ReadRole
  <2>2. CASE q = r
    <3>1. /\ edit'[r].pc = "write" /\ edit'[r].id = edit[r].id /\ edit'[r].name = edit[r].name
          /\ edit'[r].first = edit[r].first /\ edit'[r].role = role
      <4> HIDE DEF role
      <4> QED
        BY <1>0, <2>1 DEF Forms
    <3>2. r \in Updates
      BY <2>1 DEF AccountInv, EditInv
    <3> QED
      BY <2>1, <2>2, <3>1, <3>2 DEF Moves
  <2>3. CASE q # r
    <3> HIDE DEF role
    <3> QED
      BY <1>0, <2>1, <2>3 DEF Moves
  <2> QED
    BY <2>2, <2>3
<1>11. ASSUME NEW r \in Account!Requests, Account!ReadRoleFails(r) PROVE Moves(q)
  <2>1. r \in Updates
    BY <1>11 DEF AccountInv, EditInv, Account!ReadRoleFails
  <2> QED
    BY <1>0, <1>3, <1>11, <2>1 DEF Account!ReadRoleFails
<1>12. CASE UNCHANGED edit
  BY <1>12 DEF Moves
<1> QED
  BY <1>1, <1>4, <1>5, <1>6, <1>7, <1>8, <1>9, <1>10, <1>11, <1>12 DEF Account!Next, Account!TurnedAway, Account!Insert,
     Account!Patch, Account!DeleteUsers, Account!Mint, Account!MintDeletes, Account!MintCommits, Account!CreateUserAPIKey,
     Account!DeleteKeys, accountVars

\* While one person registers at a time: the administrator is one, and a
\* registration that is to be the first finds none.
AdminInv ==
  /\ Account!OneAdmin
  /\ \A r \in Registers : edit[r].pc # "out" /\ edit[r].first => ~Account!HasAdmin

LEMMA AdminStep ==
  ASSUME \A r, s \in Registers : r = s, AccountInv, AdminInv, [Account!Next]_accountVars
  PROVE  AdminInv'
<1> USE DEF Account!Requests
<1>0. \A r \in Account!Requests : EditInv(r) /\ Moves(r)
  BY EditSteps DEF AccountInv
<1>1. CASE UNCHANGED <<users, created>>
  <2>1. Account!HasAdmin' = Account!HasAdmin /\ Account!OneAdmin' = Account!OneAdmin
    BY <1>1 DEF Account!HasAdmin, Account!OneAdmin, Account!There
  <2>2. ASSUME NEW r \in Registers, edit'[r].pc # "out", edit'[r].first PROVE ~Account!HasAdmin
    BY <1>0, <2>2 DEF AdminInv, Moves
  <2> QED
    BY <1>1, <2>1, <2>2 DEF AdminInv
<1>2. ASSUME NEW r \in Account!Requests, Inserts(r), edit' = [edit EXCEPT ![r] = Account!Out] PROVE AdminInv'
  <2>1. /\ r \in Registers \cup Creates /\ edit[r].pc = "write"
        /\ DOMAIN users' = DOMAIN users \cup {created + 1}
        /\ \A u \in DOMAIN users : u # created + 1 => users'[u] = users[u]
        /\ users'[created + 1].role = (IF edit[r].first THEN "admin" ELSE edit[r].role)
    BY <1>2 DEF Inserts
  <2>2. edit'[r].pc = "out" /\ \A q \in Account!Requests \ {r} : edit'[q] = edit[q]
    BY <1>2 DEF AccountInv, AccountTypes, Account!Out
  <2>3. CASE edit[r].first
    <3>1. r \in Registers /\ ~Account!HasAdmin
      BY <1>0, <2>1, <2>3 DEF EditInv, AdminInv
    <3> QED
      BY <2>1, <2>2, <3>1 DEF AdminInv, Account!OneAdmin, Account!HasAdmin, Account!There
  <2>4. CASE ~edit[r].first
    <3>1. users'[created + 1].role # "admin"
      BY <1>0, <2>1, <2>4 DEF EditInv
    <3> QED
      BY <2>1, <2>2, <3>1 DEF AdminInv, Account!OneAdmin, Account!HasAdmin, Account!There
  <2> QED
    BY <2>3, <2>4
<1>3. ASSUME NEW r \in Account!Requests, Patches(r), edit' = [edit EXCEPT ![r] = Account!Out] PROVE AdminInv'
  <2>1. /\ DOMAIN users' = DOMAIN users
        /\ \A u \in DOMAIN users : users'[u].role = "admin" => users[u].role = "admin"
    BY <1>3 DEF Patches, AccountInv, AccountTypes
  <2>2. edit'[r].pc = "out" /\ \A q \in Account!Requests \ {r} : edit'[q] = edit[q]
    BY <1>3 DEF AccountInv, AccountTypes, Account!Out
  <2> QED
    BY <2>1, <2>2 DEF AdminInv, Account!OneAdmin, Account!HasAdmin, Account!There
<1>4. ASSUME NEW D, Deletes1(D), UNCHANGED edit PROVE AdminInv'
  BY <1>4 DEF Deletes1, AdminInv, Account!OneAdmin, Account!HasAdmin, Account!There
<1> QED
  BY <1>1, <1>2, <1>3, <1>4, RowSteps

\* While no query fails: an edit that sets a role is not of the administrator.
RoleInv ==
  accountBlips = 0 =>
    \A r \in Updates : /\ edit[r].pc = "write" /\ edit[r].role # "admin" /\ edit[r].id \in DOMAIN users
                       => users[edit[r].id].role # "admin"

LEMMA BlipsGrow == ASSUME AccountInv, [Account!Next]_accountVars, accountBlips' = 0 PROVE accountBlips = 0
<1>1. accountBlips \in Nat
  BY UsersAssumption DEF Account!AccountsAssumption, AccountInv, AccountTypes
<1>2. UNCHANGED accountBlips \/ accountBlips' = accountBlips + 1
  BY DEF Account!Next, Account!Register, Account!CreateUser, Account!UpdateUser,
     Account!BootstrapsOrIsOpen, Account!TurnedAway, Account!CheckEmail, Account!CheckName, Account!ReadRole,
     Account!ReadRoleFails, Account!Insert, Account!Patch, Account!DeleteUsers, Account!Mint, Account!MintDeletes,
     Account!MintCommits, Account!CreateUserAPIKey, Account!DeleteKeys, accountVars
<1> QED
  BY <1>1, <1>2

LEMMA RoleStep ==
  ASSUME AccountInv, RoleInv, [Account!Next]_accountVars
  PROVE  RoleInv' /\ (accountBlips' = 0 => Account!KeepsAdmin)
<1> USE DEF Account!Requests
<1> SUFFICES ASSUME accountBlips' = 0 PROVE RoleInv' /\ Account!KeepsAdmin
  BY DEF RoleInv
<1>0. /\ accountBlips = 0 /\ \A r \in Account!Requests : EditInv(r) /\ Moves(r)
      /\ DOMAIN users \subseteq 1..created /\ created \in Nat
  BY BlipsGrow, EditSteps, UsersAssumption DEF Account!AccountsAssumption, AccountInv, AccountTypes
<1>1. CASE UNCHANGED <<users, created>>
  <2>1. ASSUME NEW r \in Updates, edit'[r].pc = "write", edit'[r].role # "admin", edit'[r].id \in DOMAIN users
        PROVE  users[edit'[r].id].role # "admin"
    <3>1. CASE edit'[r] = edit[r]
      BY <1>0, <2>1, <3>1 DEF RoleInv
    <3>2. CASE edit'[r] # edit[r]
      <4>1. Account!MayChangeRole(r) /\ edit'[r].id = edit[r].id
        BY <1>0, <2>1, <3>2 DEF Moves
      <4> QED
        BY <2>1, <4>1 DEF Account!MayChangeRole, Account!There
    <3> QED
      BY <3>1, <3>2
  <2> QED
    BY <1>1, <2>1 DEF RoleInv, Account!KeepsAdmin, Account!There
<1>2. ASSUME NEW r \in Account!Requests, Inserts(r), edit' = [edit EXCEPT ![r] = Account!Out]
      PROVE  RoleInv' /\ Account!KeepsAdmin
  <2>1. /\ DOMAIN users' = DOMAIN users \cup {created + 1} /\ created + 1 \notin DOMAIN users
        /\ \A u \in DOMAIN users : users'[u] = users[u]
        /\ \A q \in Updates : edit'[q] = edit[q]
    BY <1>0, <1>2 DEF Inserts, AccountInv, AccountTypes
  <2>2. \A q \in Updates : edit[q].pc = "write" => edit[q].id # created + 1
    <3>1. \A q \in Updates : edit[q].pc = "write" => edit[q] \in Forms
      BY DEF AccountInv, AccountTypes, Account!Out
    <3>2. \A q \in Updates : edit[q].pc = "write" => edit[q].id \in Nat /\ edit[q].id <= created
      BY <1>0, <3>1, UsersAssumption DEF Forms, EditInv, Account!AccountsAssumption
    <3> QED
      BY <1>0, <3>2
  <2> QED
    BY <1>0, <2>1, <2>2 DEF RoleInv, Account!KeepsAdmin, Account!There
<1>3. ASSUME NEW r \in Account!Requests, Patches(r), edit' = [edit EXCEPT ![r] = Account!Out]
      PROVE  RoleInv' /\ Account!KeepsAdmin
  <2>1. /\ DOMAIN users' = DOMAIN users /\ r \in Updates /\ edit[r].pc = "write" /\ edit[r].id \in DOMAIN users
        /\ \A u \in DOMAIN users : u # edit[r].id => users'[u] = users[u]
        /\ users'[edit[r].id].role = (IF edit[r].role = "admin" THEN users[edit[r].id].role ELSE edit[r].role)
    BY <1>3 DEF Patches, AccountInv, AccountTypes
  <2>2. edit'[r].pc = "out" /\ \A q \in Account!Requests \ {r} : edit'[q] = edit[q]
    BY <1>3 DEF AccountInv, AccountTypes, Account!Out
  <2>3. \A u \in DOMAIN users : users'[u].role = "admin" <=> users[u].role = "admin"
    BY <1>0, <2>1 DEF RoleInv
  <2> QED
    BY <1>0, <2>1, <2>2, <2>3 DEF RoleInv, Account!KeepsAdmin, Account!There
<1>4. ASSUME NEW D, Deletes1(D), UNCHANGED edit PROVE RoleInv' /\ Account!KeepsAdmin
  BY <1>0, <1>4 DEF Deletes1, RoleInv, Account!KeepsAdmin, Account!There
<1> QED
  BY <1>1, <1>2, <1>3, <1>4, RowSteps

\* While one person registers at a time and nobody else writes names.
NameInv ==
  /\ Account!UniqueName
  /\ \A r \in Creates \cup Updates : edit[r].pc = "out"
  /\ \A r \in Registers : edit[r].pc = "write" => ~Account!NameTaken(r)

LEMMA NameStep ==
  ASSUME \A r, s \in Registers : r = s, AccountInv, NameInv, [Account!Next]_accountVars,
         \A r \in Creates \cup Updates : edit'[r] = edit[r]
  PROVE  NameInv'
<1> USE DEF Account!Requests
<1>0. /\ \A r \in Account!Requests : EditInv(r) /\ Moves(r)
      /\ \A r \in Creates \cup Updates : edit'[r].pc = "out"
      /\ Registers \cap Updates = {}
  BY EditSteps, UsersAssumption DEF Account!AccountsAssumption, AccountInv, NameInv
<1>1. CASE UNCHANGED <<users, created>>
  <2>1. ASSUME NEW r \in Registers, edit'[r].pc = "write" PROVE ~Account!NameTaken(r)'
    <3>1. CASE edit'[r] = edit[r]
      BY <1>1, <2>1, <3>1 DEF NameInv, Account!NameTaken, Account!ExistsName, Account!There
    <3>2. CASE edit'[r] # edit[r]
      <4>1. ~Account!NameTaken(r) /\ edit'[r].id = edit[r].id /\ edit'[r].name = edit[r].name
        BY <1>0, <2>1, <3>2 DEF Moves
      <4> QED
        BY <1>1, <4>1 DEF Account!NameTaken, Account!ExistsName, Account!There
    <3> QED
      BY <3>1, <3>2
  <2> QED
    BY <1>0, <1>1, <2>1 DEF NameInv, Account!UniqueName, Account!There
<1>2. ASSUME NEW r \in Account!Requests, Inserts(r), edit' = [edit EXCEPT ![r] = Account!Out] PROVE NameInv'
  <2>1. /\ r \in Registers /\ edit[r].pc = "write" /\ edit[r].id = 0
        /\ DOMAIN users' = DOMAIN users \cup {created + 1} /\ created + 1 \notin DOMAIN users /\ 0 \notin DOMAIN users
        /\ \A u \in DOMAIN users : users'[u] = users[u]
        /\ users'[created + 1].name = edit[r].name
    BY <1>0, <1>2, UsersAssumption DEF Inserts, AccountInv, AccountTypes, NameInv, EditInv, Account!AccountsAssumption
  <2>2. edit'[r].pc = "out"
    BY <1>2 DEF AccountInv, AccountTypes, Account!Out
  <2>3. edit[r].name # NoName => \A u \in DOMAIN users : users[u].name # edit[r].name
    BY <2>1 DEF NameInv, Account!NameTaken, Account!ExistsName, Account!There
  <2>4. Account!UniqueName'
    BY <2>1, <2>3 DEF NameInv, Account!UniqueName, Account!There
  <2> QED
    BY <1>0, <2>1, <2>2, <2>4 DEF NameInv
<1>3. ASSUME NEW r \in Account!Requests, Patches(r) PROVE NameInv'
  BY <1>3 DEF Patches, NameInv
<1>4. ASSUME NEW D, Deletes1(D), UNCHANGED edit PROVE NameInv'
  BY <1>0, <1>4 DEF Deletes1, NameInv, Account!UniqueName, Account!There, Account!NameTaken, Account!ExistsName
<1> QED
  BY <1>1, <1>2, <1>3, <1>4, RowSteps

-----------------------------------------------------------------------------
(* Codes: the code that is there was not accepted before, nor, with one      *)
(* verification at a time, the code that was read.                           *)

VerifierInv(v) ==
  LET q == verifier[v] IN
  /\ DOMAIN q = {"pc", "guess", "stored"} /\ q.pc \in {"idle", "read", "count", "burn", "accept"}
  /\ q.pc # "idle" => q.guess \in mailed \cup {0}
  /\ q.pc \in {"count", "burn", "accept"} => q.stored \in 1..issued
  /\ q.pc = "accept" => q.guess = q.stored

CodeInv ==
  /\ issued \in 0..MaxCodes /\ code \in 0..issued
  /\ DOMAIN verifier = Verifiers /\ used \in [1..MaxCodes -> Nat]
  /\ \A c \in 1..MaxCodes : used[c] > 0 => c \in mailed /\ c <= issued /\ c # code
  /\ \A v \in Verifiers : VerifierInv(v)

\* One verification at a time, and what it has read was not accepted before.
Alone == \A v, w \in Verifiers : verifier[v].pc # "idle" /\ verifier[w].pc # "idle" => v = w
AloneInv ==
  /\ \A c \in 1..MaxCodes : used[c] <= 1
  /\ \A v \in Verifiers : verifier[v].pc \in {"count", "accept"} => used[verifier[v].stored] = 0

LEMMA CodeInitially == Codes!Init => CodeInv
BY UsersAssumption DEF Codes!Init, Codes!EmailCodeAssumption, Codes!Waiting, Codes!Codes, CodeInv, VerifierInv

LEMMA CodeStep ==
  ASSUME CodeInv, [Codes!Next]_codeVars
  PROVE  CodeInv'
<1>0. MaxCodes \in Nat /\ issued \in Nat
  BY UsersAssumption DEF Codes!EmailCodeAssumption, CodeInv
<1>1. ASSUME NEW i \in Issuers, Codes!SetCode(i) PROVE CodeInv'
  <2>1. /\ issued' = issued + 1 /\ issued < MaxCodes /\ code' = issued' /\ UNCHANGED <<mailed, verifier, used>>
    BY <1>1 DEF Codes!SetCode
  <2>2. ASSUME NEW v \in Verifiers PROVE VerifierInv(v)'
    BY <1>0, <2>1, <2>2 DEF CodeInv, VerifierInv
  <2>3. \A c \in 1..MaxCodes : used[c] > 0 => c # issued + 1
    BY <1>0 DEF CodeInv
  <2> QED
    BY <1>0, <2>1, <2>2, <2>3 DEF CodeInv
<1>2. ASSUME NEW i \in Issuers, Codes!Mail(i) PROVE CodeInv'
  <2>1. mailed \subseteq mailed' /\ UNCHANGED <<issued, code, verifier, used>>
    BY <1>2 DEF Codes!Mail
  <2> QED
    BY <2>1 DEF CodeInv, VerifierInv
<1>3. ASSUME NEW v \in Verifiers, NEW g \in mailed \cup {0}, Codes!Guess(v, g) PROVE CodeInv'
  <2>1. /\ UNCHANGED <<issued, code, mailed, used>>
        /\ verifier' = [verifier EXCEPT ![v] = [pc |-> "read", guess |-> g, stored |-> 0]]
    BY <1>3 DEF Codes!Guess
  <2> QED
    BY <2>1 DEF CodeInv, VerifierInv
<1>4. ASSUME NEW v \in Verifiers, Codes!ReadCode(v) PROVE CodeInv'
  <2>1. /\ verifier[v].pc = "read" /\ UNCHANGED <<issued, code, mailed, used>> /\ DOMAIN verifier' = Verifiers
        /\ \A w \in Verifiers \ {v} : verifier'[w] = verifier[w]
        /\ \/ verifier'[v] = [pc |-> "idle", guess |-> 0, stored |-> 0]
           \/ code # 0 /\ verifier'[v] = [verifier[v] EXCEPT !.pc = "count", !.stored = code]
    BY <1>4 DEF Codes!ReadCode, Codes!Waiting, CodeInv
  <2>2. CASE verifier'[v] = [pc |-> "idle", guess |-> 0, stored |-> 0]
    BY <2>1, <2>2 DEF CodeInv, VerifierInv
  <2>3. CASE code # 0 /\ verifier'[v] = [verifier[v] EXCEPT !.pc = "count", !.stored = code]
    <3>1. code \in 1..issued /\ code \in 1..MaxCodes
      BY <1>0, <2>3 DEF CodeInv
    <3>2. VerifierInv(v)'
      BY <2>1, <2>3, <3>1 DEF CodeInv, VerifierInv
    <3> QED
      BY <2>1, <3>2 DEF CodeInv, VerifierInv
  <2> QED
    BY <2>1, <2>2, <2>3
<1>5. ASSUME NEW v \in Verifiers, Codes!CountAndCompare(v) PROVE CodeInv'
  <2>1. /\ verifier[v].pc = "count" /\ UNCHANGED <<issued, code, mailed, used>> /\ DOMAIN verifier' = Verifiers
        /\ \A w \in Verifiers \ {v} : verifier'[w] = verifier[w]
        /\ \/ verifier'[v] = [pc |-> "idle", guess |-> 0, stored |-> 0]
           \/ verifier'[v] = [verifier[v] EXCEPT !.pc = "burn"]
           \/ verifier'[v] = [verifier[v] EXCEPT !.pc = "accept"] /\ verifier[v].stored = verifier[v].guess
    BY <1>5 DEF Codes!CountAndCompare, Codes!Verdict, Codes!Waiting, CodeInv
  <2>2. VerifierInv(v)'
    <3>1. CASE verifier'[v] = [pc |-> "idle", guess |-> 0, stored |-> 0]
      BY <3>1 DEF VerifierInv
    <3>2. CASE verifier'[v] = [verifier[v] EXCEPT !.pc = "burn"]
      BY <2>1, <3>2 DEF CodeInv, VerifierInv
    <3>3. CASE verifier'[v] = [verifier[v] EXCEPT !.pc = "accept"] /\ verifier[v].stored = verifier[v].guess
      BY <2>1, <3>3 DEF CodeInv, VerifierInv
    <3> QED
      BY <2>1, <3>1, <3>2, <3>3
  <2> QED
    BY <2>1, <2>2 DEF CodeInv, VerifierInv
<1>6. ASSUME NEW v \in Verifiers, Codes!Delete(v) PROVE CodeInv'
  <2> DEFINE c == verifier[v].stored
  <2>1. /\ code' = 0 /\ UNCHANGED <<issued, mailed>>
        /\ verifier' = [verifier EXCEPT ![v] = [pc |-> "idle", guess |-> 0, stored |-> 0]]
        /\ \/ UNCHANGED used
           \/ verifier[v].pc = "accept" /\ used' = [used EXCEPT ![c] = @ + 1]
    BY <1>6 DEF Codes!Delete, Codes!Gone, Codes!Waiting
  <2>2. \A w \in Verifiers : VerifierInv(w)'
    BY <2>1 DEF CodeInv, VerifierInv
  <2>3. verifier[v].pc = "accept" => c \in 1..issued /\ c \in 1..MaxCodes /\ c \in mailed
    BY <1>0 DEF CodeInv, VerifierInv
  <2>4. used' \in [1..MaxCodes -> Nat] /\ \A d \in 1..MaxCodes : used'[d] > 0 => d \in mailed /\ d <= issued
    <3>1. /\ issued \in Nat /\ used \in [1..MaxCodes -> Nat]
          /\ \A d \in 1..MaxCodes : used[d] > 0 => d \in mailed /\ d <= issued
      BY <1>0 DEF CodeInv
    <3>2. CASE UNCHANGED used
      BY <2>1, <3>1, <3>2
    <3>3. CASE verifier[v].pc = "accept" /\ used' = [used EXCEPT ![c] = @ + 1]
      <4>1. c \in 1..MaxCodes /\ c \in mailed /\ c <= issued
        BY <2>3, <3>1, <3>3
      <4> HIDE DEF c
      <4>2. used' \in [1..MaxCodes -> Nat] /\ \A d \in 1..MaxCodes \ {c} : used'[d] = used[d]
        BY <3>1, <3>3, <4>1
      <4> QED
        BY <2>1, <3>1, <4>1, <4>2
    <3> QED
      BY <2>1, <3>2, <3>3
  <2> QED
    BY <1>0, <2>1, <2>2, <2>4 DEF CodeInv
<1>7. ASSUME NEW v \in Verifiers, Codes!VerifyFails(v) PROVE CodeInv'
  <2>1. /\ UNCHANGED <<issued, code, mailed, used>>
        /\ verifier' = [verifier EXCEPT ![v] = [pc |-> "idle", guess |-> 0, stored |-> 0]]
    BY <1>7 DEF Codes!VerifyFails, Codes!Waiting
  <2> QED
    BY <2>1 DEF CodeInv, VerifierInv
<1>8. CASE Codes!CodeExpires
  <2>1. code' = 0 /\ UNCHANGED <<issued, mailed, used, verifier>>
    BY <1>8 DEF Codes!CodeExpires
  <2> QED
    BY <1>0, <2>1 DEF CodeInv, VerifierInv
<1>9. CASE UNCHANGED <<issued, code, mailed, used, verifier>>
  BY <1>9 DEF CodeInv, VerifierInv
<1> QED
  BY <1>1, <1>2, <1>3, <1>4, <1>5, <1>6, <1>7, <1>8, <1>9 DEF Codes!Next, Codes!Issue, Codes!SetAttempts, Codes!IssueFails,
     Codes!CooldownEnds, Codes!AttemptsExpire, codeVars

\* While verifications are alone, no code is accepted twice.
LEMMA AloneStep ==
  ASSUME CodeInv, AloneInv, Alone, Alone', [Codes!Next]_codeVars
  PROVE  AloneInv'
<1>0. /\ MaxCodes \in Nat /\ issued \in 0..MaxCodes /\ used \in [1..MaxCodes -> Nat] /\ DOMAIN verifier = Verifiers
      /\ \A v \in Verifiers : VerifierInv(v)
  BY UsersAssumption DEF Codes!EmailCodeAssumption, CodeInv
<1>1. ASSUME NEW v \in Verifiers, Codes!ReadCode(v) PROVE AloneInv'
  <2>1. /\ UNCHANGED used /\ \A w \in Verifiers \ {v} : verifier'[w] = verifier[w]
        /\ verifier'[v].pc = "count" => code # 0 /\ verifier'[v].stored = code
        /\ verifier'[v].pc \in {"idle", "count"}
    BY <1>0, <1>1 DEF Codes!ReadCode, Codes!Waiting, VerifierInv
  <2>2. code # 0 => code \in 1..MaxCodes /\ used[code] = 0
    BY <1>0 DEF CodeInv
  <2> QED
    BY <2>1, <2>2 DEF AloneInv
<1>2. ASSUME NEW v \in Verifiers, Codes!CountAndCompare(v) PROVE AloneInv'
  <2>1. /\ verifier[v].pc = "count" /\ UNCHANGED used /\ \A w \in Verifiers \ {v} : verifier'[w] = verifier[w]
        /\ verifier'[v].pc = "accept" => verifier'[v].stored = verifier[v].stored
        /\ verifier'[v].pc \in {"idle", "burn", "accept"}
    BY <1>0, <1>2 DEF Codes!CountAndCompare, Codes!Verdict, Codes!Waiting, VerifierInv
  <2> QED
    BY <2>1 DEF AloneInv
<1>3. ASSUME NEW v \in Verifiers, Codes!Delete(v) PROVE AloneInv'
  <2> DEFINE c == verifier[v].stored
  <2>1. /\ verifier' = [verifier EXCEPT ![v] = [pc |-> "idle", guess |-> 0, stored |-> 0]]
        /\ \/ UNCHANGED used
           \/ verifier[v].pc = "accept" /\ used' = [used EXCEPT ![c] = @ + 1]
        /\ verifier[v].pc # "idle"
    BY <1>3 DEF Codes!Delete, Codes!Waiting
  <2>2. \A w \in Verifiers : verifier'[w].pc = "idle"
    BY <1>0, <2>1 DEF Alone, VerifierInv
  <2>3. \A d \in 1..MaxCodes : used'[d] <= 1
    <3>1. verifier[v].pc = "accept" => c \in 1..MaxCodes /\ used[c] = 0
      BY <1>0 DEF AloneInv, VerifierInv
    <3> QED
      BY <1>0, <2>1, <3>1 DEF AloneInv
  <2> QED
    BY <2>2, <2>3 DEF AloneInv
<1>4. ASSUME NEW v \in Verifiers, Codes!VerifyFails(v) \/ \E g \in mailed \cup {0} : Codes!Guess(v, g) PROVE AloneInv'
  <2>1. /\ UNCHANGED used /\ \A w \in Verifiers \ {v} : verifier'[w] = verifier[w]
        /\ verifier'[v].pc \in {"idle", "read"}
    BY <1>0, <1>4 DEF Codes!VerifyFails, Codes!Guess, Codes!Waiting
  <2> QED
    BY <2>1 DEF AloneInv
<1>5. CASE UNCHANGED <<used, verifier>>
  BY <1>5 DEF AloneInv
<1> QED
  BY <1>1, <1>2, <1>3, <1>4, <1>5 DEF Codes!Next, Codes!Issue, Codes!SetCode, Codes!Mail, Codes!SetAttempts, Codes!IssueFails,
     Codes!CooldownEnds, Codes!CodeExpires, Codes!AttemptsExpire, codeVars

-----------------------------------------------------------------------------
(* What a step may never do.                                               *)

LEMMA AliveStep == SessionInv /\ [Session!Next]_sessionVars => Session!KeepsAlive
<1> SUFFICES ASSUME SessionInv, [Session!Next]_sessionVars, NEW r \in Pages,
                    visit[r].pc = "answer", visit'[r].pc = "out", ~loggedOut.out, sessionFaults = 0
             PROVE  key'.there /\ key'.ends >= visit[r].since + slideAfter
  BY DEF Session!KeepsAlive
<1>1. /\ visit \in [Pages -> Visits] /\ key \in SessionKeys /\ clock \in Nat /\ slideAfter \in Nat
  BY SessionTypes, UsersAssumption DEF SessionInv, Session!SessionAssumption
<1>2. clock < visit[r].exp /\ visit[r].since = clock /\ key.there /\ clock + slideAfter <= key.ends
  BY DEF SessionInv, VisitInv
<1>3. Session!Answer(r)
  BY <1>1 DEF Session!Next, Session!Validate, Session!TTL, Session!Slides, Session!Slide, Session!SlideFails,
     Session!Answer, Session!Out, Session!Logout, Session!LogoutFails, Session!Tick, sessionVars, Visits
<1>4. visit[r].exp \in Int /\ key.ends \in Int /\ UNCHANGED key
  BY <1>1, <1>2, <1>3 DEF Session!Answer, Visits, SessionKeys
<1> QED
  BY <1>1, <1>2, <1>4

\* The fields of the counters, and where the logins are.
GuardInv ==
  /\ now \in Nat /\ crashes \in Nat /\ DOMAIN counter = {"ip", "id"} /\ DOMAIN login = Logins
  /\ \A k \in {"ip", "id"} : /\ DOMAIN counter[k] = {"count", "until", "expires"}
                             /\ counter[k].count \in Nat /\ counter[k].expires \in Nat
  /\ \A l \in Logins : DOMAIN login[l] = {"pc", "at", "clock", "count"} /\ login[l].at \in {"ip", "id"}
  /\ crashes = 0 => \A k \in {"ip", "id"} :
       counter[k].expires > now + decay => \E l \in Logins : login[l].at = k /\ login[l].pc \in {"lock", "ttl"}

LEMMA GuardInitially == Guard!Init => GuardInv
BY UsersAssumption DEF Guard!Init, Guard!LoginGuardAssumption, GuardInv, Guard!Absent, Guard!Out, Guard!Counters

LEMMA GuardStep == GuardInv /\ [Guard!Next]_guardVars => GuardInv' /\ Guard!KeepsCount
<1> SUFFICES ASSUME GuardInv, [Guard!Next]_guardVars PROVE GuardInv' /\ Guard!KeepsCount
  OBVIOUS
<1>0. /\ MaxTime \in Nat /\ decay \in Nat /\ Guard!Never \in Nat
      /\ Guard!Absent = [count |-> 0, until |-> 0, expires |-> 0]
      /\ Guard!Out = [pc |-> "out", at |-> "ip", clock |-> 0, count |-> 0]
  BY UsersAssumption DEF Guard!LoginGuardAssumption, Guard!Never, Guard!Absent, Guard!Out
\* A step of a login that leaves the counters alone.
<1>a. ASSUME NEW l \in Logins, UNCHANGED <<now, counter>>, crashes' \in Nat,
             DOMAIN login' = Logins, \A j \in Logins \ {l} : login'[j] = login[j],
             DOMAIN login'[l] = {"pc", "at", "clock", "count"}, login'[l].at \in {"ip", "id"},
             crashes' = 0 => crashes = 0 /\ login[l].pc \notin {"lock", "ttl"}
      PROVE  GuardInv' /\ Guard!KeepsCount
  BY <1>0, <1>a DEF GuardInv, Guard!KeepsCount
<1>1. ASSUME NEW l \in Logins, Guard!Attempt(l) PROVE GuardInv' /\ Guard!KeepsCount
  <2>1. /\ login[l].pc = "out" /\ UNCHANGED <<now, counter, crashes>> /\ DOMAIN login' = Logins
        /\ \A j \in Logins \ {l} : login'[j] = login[j]
        /\ DOMAIN login'[l] = {"pc", "at", "clock", "count"} /\ login'[l].at \in {"ip", "id"}
    BY <1>0, <1>1 DEF Guard!Attempt, GuardInv
  <2> QED
    BY <1>a, <2>1 DEF GuardInv
<1>2. ASSUME NEW l \in Logins, Guard!Check(l) PROVE GuardInv' /\ Guard!KeepsCount
  <2>1. /\ login[l].pc = "check" /\ UNCHANGED <<now, counter, crashes>> /\ DOMAIN login' = Logins
        /\ \A j \in Logins \ {l} : login'[j] = login[j]
        /\ DOMAIN login'[l] = {"pc", "at", "clock", "count"} /\ login'[l].at \in {"ip", "id"}
    BY <1>0, <1>2 DEF Guard!Check, GuardInv
  <2> QED
    BY <1>a, <2>1 DEF GuardInv
<1>3. ASSUME NEW l \in Logins, Guard!Password(l) PROVE GuardInv' /\ Guard!KeepsCount
  <2>1. /\ login[l].pc = "password" /\ UNCHANGED <<now, counter, crashes>> /\ DOMAIN login' = Logins
        /\ \A j \in Logins \ {l} : login'[j] = login[j]
        /\ DOMAIN login'[l] = {"pc", "at", "clock", "count"} /\ login'[l].at \in {"ip", "id"}
    BY <1>0, <1>3 DEF Guard!Password, GuardInv
  <2> QED
    BY <1>a, <2>1 DEF GuardInv
<1>4. ASSUME NEW l \in Logins, Guard!Count(l) PROVE GuardInv' /\ Guard!KeepsCount
  <2> DEFINE k == login[l].at
  <2>1. /\ UNCHANGED <<now, crashes>> /\ k \in {"ip", "id"} /\ DOMAIN counter' = {"ip", "id"}
        /\ \A j \in {"ip", "id"} \ {k} : counter'[j] = counter[j]
        /\ DOMAIN counter'[k] = {"count", "until", "expires"}
        /\ counter'[k].count = counter[k].count + 1 /\ counter'[k].expires \in Nat
    BY <1>0, <1>4 DEF Guard!Count, Guard!There, GuardInv
  <2>2. /\ DOMAIN login' = Logins /\ \A j \in Logins \ {l} : login'[j] = login[j]
        /\ login[l].pc = "count" /\ login'[l].at = k /\ login'[l].pc \in {"lock", "ttl"}
        /\ DOMAIN login'[l] = {"pc", "at", "clock", "count"}
    BY <1>4 DEF Guard!Count, GuardInv
  <2> HIDE DEF k
  <2>3. counter'["ip"].count >= counter["ip"].count /\ \A j \in {"ip", "id"} : counter'[j].count \in Nat
    BY <2>1 DEF GuardInv
  <2> QED
    BY <1>0, <2>1, <2>2, <2>3 DEF GuardInv, Guard!KeepsCount
<1>5. ASSUME NEW l \in Logins, Guard!Lock(l) PROVE GuardInv' /\ Guard!KeepsCount
  <2> DEFINE k == login[l].at  end == login[l].clock + Guard!LockFor(login[l].count - FreeTries[k])
  <2>1. /\ UNCHANGED <<now, crashes>> /\ k \in {"ip", "id"} /\ login[l].pc = "lock"
        /\ counter' = [counter EXCEPT ![k].until = end, ![k].expires = IF Guard!There(k) THEN @ ELSE Guard!Never]
        /\ login' = [login EXCEPT ![l].pc = "ttl"]
    BY <1>5 DEF Guard!Lock, GuardInv
  <2> HIDE DEF end
  <2>2. /\ DOMAIN counter' = {"ip", "id"} /\ \A j \in {"ip", "id"} \ {k} : counter'[j] = counter[j]
        /\ DOMAIN counter'[k] = {"count", "until", "expires"}
        /\ counter'[k].count = counter[k].count /\ counter'[k].expires \in Nat
    BY <1>0, <2>1 DEF Guard!There, GuardInv
  <2>3. /\ DOMAIN login' = Logins /\ \A j \in Logins \ {l} : login'[j] = login[j]
        /\ login'[l].at = k /\ login'[l].pc = "ttl" /\ DOMAIN login'[l] = {"pc", "at", "clock", "count"}
    BY <2>1 DEF GuardInv
  <2> HIDE DEF k
  <2> QED
    BY <1>0, <2>1, <2>2, <2>3 DEF GuardInv, Guard!KeepsCount
<1>6. ASSUME NEW l \in Logins, Guard!Expire(l) PROVE GuardInv' /\ Guard!KeepsCount
  <2> DEFINE k == login[l].at
  <2>1. /\ UNCHANGED <<now, crashes>> /\ k \in {"ip", "id"} /\ DOMAIN counter' = {"ip", "id"}
        /\ \A j \in {"ip", "id"} \ {k} : counter'[j] = counter[j]
        /\ DOMAIN counter'[k] = {"count", "until", "expires"} /\ counter'[k].count = counter[k].count
        /\ counter'[k].expires \in Nat /\ counter'[k].expires <= now + decay
    BY <1>0, <1>6 DEF Guard!Expire, Guard!There, Guard!Refreshed, GuardInv
  <2>2. /\ DOMAIN login' = Logins /\ \A j \in Logins \ {l} : login'[j] = login[j]
        /\ login'[l].at \in {"ip", "id"} /\ DOMAIN login'[l] = {"pc", "at", "clock", "count"}
    BY <1>0, <1>6 DEF Guard!Expire, GuardInv
  <2>3. \A j \in {"ip", "id"} \ {k} : login[l].at # j
    OBVIOUS
  <2> HIDE DEF k
  <2> QED
    BY <1>0, <2>1, <2>2, <2>3 DEF GuardInv, Guard!KeepsCount
<1>7. ASSUME NEW l \in Logins, Guard!RecordSuccess(l) PROVE GuardInv' /\ Guard!KeepsCount
  <2>1. /\ UNCHANGED <<now, crashes>> /\ login[l].pc = "success" /\ DOMAIN counter' = {"ip", "id"}
        /\ counter'["ip"] = counter["ip"] /\ counter'["id"] = [count |-> 0, until |-> 0, expires |-> 0]
    BY <1>0, <1>7 DEF Guard!RecordSuccess, Guard!Cleared, GuardInv
  <2>2. /\ DOMAIN login' = Logins /\ \A j \in Logins \ {l} : login'[j] = login[j]
        /\ login'[l].at = "ip" /\ DOMAIN login'[l] = {"pc", "at", "clock", "count"}
    BY <1>0, <1>7 DEF Guard!RecordSuccess, GuardInv
  <2> QED
    BY <1>0, <2>1, <2>2 DEF GuardInv, Guard!KeepsCount
<1>8. ASSUME NEW l \in Logins, Guard!Crash(l) PROVE GuardInv' /\ Guard!KeepsCount
  <2>1. /\ UNCHANGED <<now, counter>> /\ crashes' = crashes + 1 /\ crashes' \in Nat /\ crashes' # 0
        /\ DOMAIN login' = Logins /\ \A j \in Logins \ {l} : login'[j] = login[j]
        /\ login'[l].at = "ip" /\ DOMAIN login'[l] = {"pc", "at", "clock", "count"}
    BY <1>0, <1>8 DEF Guard!Crash, GuardInv
  <2> QED
    BY <1>a, <2>1
<1>9. ASSUME Guard!Tick PROVE GuardInv' /\ Guard!KeepsCount
  <2>1. /\ now' = now + 1 /\ UNCHANGED <<login, crashes>> /\ DOMAIN counter' = {"ip", "id"}
        /\ \A k \in {"ip", "id"} : \/ counter'[k] = counter[k]
                                   \/ /\ counter[k].expires = now'
                                      /\ counter'[k] = [count |-> 0, until |-> 0, expires |-> 0]
    BY <1>0, <1>9 DEF Guard!Tick, Guard!Counters
  <2>2. GuardInv'
    <3>1. ASSUME NEW k \in {"ip", "id"}
          PROVE  /\ DOMAIN counter'[k] = {"count", "until", "expires"} /\ counter'[k].count \in Nat /\ counter'[k].expires \in Nat
                 /\ counter'[k].expires > now' + decay => counter'[k] = counter[k] /\ counter[k].expires > now + decay
      BY <1>0, <2>1, <3>1 DEF GuardInv
    <3> QED
      BY <2>1, <3>1 DEF GuardInv
  <2>3. Guard!KeepsCount
    BY <2>1 DEF GuardInv, Guard!KeepsCount
  <2> QED
    BY <2>2, <2>3
<1>10. CASE UNCHANGED guardVars
  BY <1>10 DEF guardVars, GuardInv, Guard!KeepsCount
<1> QED
  BY <1>1, <1>2, <1>3, <1>4, <1>5, <1>6, <1>7, <1>8, <1>9, <1>10 DEF Guard!Next, Guard!Step

LEMMA MintStep == AccountInv /\ [Account!Next]_accountVars => Account!TurnsOldKeysOff
<1> SUFFICES ASSUME AccountInv, [Account!Next]_accountVars, NEW m \in Minters,
                    minter[m].pc = "create", minter'[m].pc = "out", minted' # minted
             PROVE  minter[m].met \cap DOMAIN keys' = {}
  BY DEF Account!TurnsOldKeysOff
<1>1. minter \in [Minters -> {Account!Out} \cup Deleting \cup Creating] /\ minted \in Nat /\ MintInv(m)
  BY UsersAssumption DEF Account!AccountsAssumption, AccountInv, AccountTypes
<1>2. \A k \in Minters : Account!MintCommits(k) => k = m
  BY <1>1 DEF Account!MintCommits, Account!Out
<1>3. Account!MintCommits(m)
  BY <1>1, <1>2 DEF Account!Next, Account!Register, Account!CreateUser, Account!UpdateUser,
     Account!BootstrapsOrIsOpen, Account!TurnedAway, Account!CheckEmail, Account!CheckName, Account!ReadRole,
     Account!ReadRoleFails, Account!Insert, Account!Patch, Account!DeleteUsers, Account!Mint, Account!MintDeletes,
     Account!CreateUserAPIKey, Account!DeleteKeys, accountVars
<1>4. DOMAIN keys' = (DOMAIN keys \ minter[m].gone) \cup {minted + 1}
  BY <1>3 DEF Account!MintCommits
<1>5. minted + 1 \notin minter[m].met /\ minter[m].met \cap DOMAIN keys \subseteq minter[m].gone
  BY <1>1 DEF MintInv
<1> QED
  BY <1>4, <1>5

-----------------------------------------------------------------------------
(* The theorems.                                                           *)

LEMMA MovesOfUsers ==
  ASSUME [UsersNext]_allVars
  PROVE  /\ part' = part
         /\ [Next]_vars /\ [Codes!Next]_codeVars /\ [Guard!Next]_guardVars
         /\ [Session!Next]_sessionVars /\ [Account!Next]_accountVars
         /\ part = "keys" => \A r \in Creates \cup Updates : edit'[r] = edit[r]
BY DEF UsersNext, RowsMove, CodesMove, GuardMove, RateMove, SessionsMove, AccountsMove, allVars,
   rowVars, vars, codeVars, guardVars, rateVars, sessionVars, accountVars

\* Who holds a row has read it as it is, and the histories say what it says.
THEOREM RowsCorrect == UsersSpec => [](RowsInv /\ HoldersInv /\ StreakIsReal)
<1>1. UsersInit => RowsInv
  BY RowsInitially DEF UsersInit
<1>2. UsersInit => HoldersInv /\ StreakIsReal
  BY CreditRowsAssumption DEF UsersInit, Init, HoldersInv, RowHolder, StreakIsReal
<1>3. (RowsInv /\ HoldersInv /\ StreakIsReal) /\ [UsersNext]_allVars => (RowsInv /\ HoldersInv /\ StreakIsReal)'
  BY MovesOfUsers, RowsStep, HoldersStep, StreaksStep
<1> QED
  BY <1>1, <1>2, <1>3, PTL DEF UsersSpec

\* A commit is never lost: the row lock spans the read and the write.
THEOREM CommitsAddUp == UsersSpec => []NoLostUpdate
<1>1. RowsInv => NoLostUpdate
  BY DEF RowsInv, UserInv, NoLostUpdate
<1> QED
  BY <1>1, RowsCorrect, PTL

\* An invitation is rewarded once, however many events end at the same time.
THEOREM InvitationsRewardedOnce == UsersSpec => []RewardedOnce
<1>1. RowsInv => RewardedOnce
  BY DEF RowsInv, UserInv, RewardedOnce
<1> QED
  BY <1>1, RowsCorrect, PTL

\* A date is rewarded once while no check-in waits for its lock past midnight.
THEOREM DatesRewardedOnce == ASSUME ~Late PROVE UsersSpec => []OneAwardPerDay
<1>1. RowsInv => OneAwardPerDay
  <2> SUFFICES ASSUME RowsInv, NEW u \in Users, NEW d \in Days PROVE awards[u][d] <= 1
    BY DEF OneAwardPerDay
  <2>1. awards[u][d] \in Nat /\ awards[u][d] <= IF d <= row[u].last THEN 1 ELSE 0
    BY DEF RowsInv, Types, UserInv
  <2> QED
    BY <2>1
<1> QED
  BY <1>1, RowsCorrect, PTL

\* The session a request is told of is there, and the cookie outlives it, but for
\* what a logout leaves; a logout that meets no request ends the session, at once
\* or, if its DEL fails, with the life the session had then.
THEOREM SessionsHold == UsersSpec => []SessionsAgree
<1>1. UsersInit => SessionInv
  BY SessionInitially DEF UsersInit
<1>2. SessionInv /\ [UsersNext]_allVars => SessionInv'
  BY MovesOfUsers, SessionStep
<1>3. SessionInv => SessionsAgree
  <2>1. SessionInv => Session!AnswerIsStored /\ Session!LoggedOutStays
    BY DEF SessionInv, KeyInv, VisitInv, Session!AnswerIsStored, Session!LoggedOutStays
  <2>2. SessionInv => Session!CookieOutlives
    <3>1. SessionInv => key \in SessionKeys /\ cookie \in Int
      BY SessionTypes, UsersAssumption DEF SessionInv, Session!SessionAssumption
    <3> QED
      BY <3>1 DEF SessionInv, KeyInv, Session!CookieOutlives, SessionKeys
  <2> QED
    BY <2>1, <2>2 DEF SessionInv, SessionsAgree
<1> QED
  BY <1>1, <1>2, <1>3, PTL DEF UsersSpec

\* Accounts, keys and the requests under way agree.
THEOREM AccountsCorrect == UsersSpec => [](AccountInv /\ RoleInv)
<1>1. UsersInit => AccountInv /\ RoleInv
  <2>1. Account!Init => RoleInv
    BY DEF Account!Init, Account!Out, Account!Requests, RoleInv
  <2> QED
    BY <2>1, AccountInitially DEF UsersInit
<1>2. (AccountInv /\ RoleInv) /\ [UsersNext]_allVars => (AccountInv /\ RoleInv)'
  BY MovesOfUsers, AccountStep, RoleStep
<1> QED
  BY <1>1, <1>2, PTL DEF UsersSpec

\* No two accounts share an e-mail, or a name while nobody edits one; there is
\* one administrator, and keys have users; the transactions on rows never wait
\* for each other in a ring; and the days of a streak were days of check-ins.
\* One person registers at a time, and users are invited by users there before.
THEOREM AccountsHold ==
  ASSUME NEW Before, IsWellFoundedOn(Before, Users),
         \A u \in Users : Inviter[u] \in Users => <<Inviter[u], u>> \in Before,
         \A r, s \in Registers : r = s
  PROVE  UsersSpec => []AccountsAgree
<1> DEFINE Names1 == part = "keys" => NameInv
<1>1. UsersInit => AdminInv /\ Names1
  <2>1. Account!Init => DOMAIN users = {} /\ edit = [r \in Account!Requests |-> [pc |-> "out"]]
    BY DEF Account!Init, Account!Out
  <2> QED
    BY <2>1 DEF UsersInit, Account!Requests, Account!There, Account!OneAdmin, Account!UniqueName, AdminInv, NameInv
<1>2. (AccountInv /\ AdminInv /\ Names1) /\ [UsersNext]_allVars => (AdminInv /\ Names1)'
  BY MovesOfUsers, AdminStep, NameStep
<1>3. (RowsInv /\ HoldersInv /\ StreakIsReal) => CreditRowsTypeOK /\ StreakIsReal /\ SomeoneHasARow
  <2>1. RowsInv => CreditRowsTypeOK
    BY DEF RowsInv, Types, ProcInv, CreditRowsTypeOK
  <2> QED
    BY <2>1, NoRing
<1>4. AccountInv => Account!AccountsTypeOK
  <2> SUFFICES ASSUME AccountInv PROVE Account!AccountsTypeOK
    OBVIOUS
  <2>1. DOMAIN users \in SUBSET Account!Ids /\ DOMAIN keys \in SUBSET (1..MaxKeys)
    BY UsersAssumption DEF Account!AccountsAssumption, AccountInv, AccountTypes, Account!Ids
  <2>2. \A r \in Account!Requests : edit[r].pc \in {"out", "admin", "email", "name", "role", "write"}
    BY DEF AccountInv, AccountTypes, Account!Out, Forms
  <2>3. \A m \in Minters : minter[m].pc \in {"out", "delete", "create"}
    BY DEF AccountInv, AccountTypes, Account!Out, Deleting, Creating
  <2> QED
    BY <2>1, <2>2, <2>3 DEF AccountInv, AccountTypes, Account!AccountsTypeOK
<1>5. /\ RowsInv /\ HoldersInv /\ StreakIsReal
      /\ AccountInv /\ RoleInv
      /\ AdminInv /\ Names1
      => AccountsAgree
  BY <1>3, <1>4 DEF AccountsAgree, AccountInv, AdminInv, NameInv
<1> QED
  BY <1>1, <1>2, <1>5, RowsCorrect, AccountsCorrect, PTL DEF UsersSpec

\* A success of an account leaves what its address has failed, a request leaves
\* the session slideAfter to live, a key that is minted puts off those the user
\* had, and no edit demotes the administrator while every query succeeds.
THEOREM StepsHold == UsersSpec => StepsKeepTheirWord
<1> DEFINE Word == /\ part \in {"burst", "guard"} => Guard!KeepsCount
                   /\ part = "sessions" => Session!KeepsAlive
                   /\ part = "keys" => Account!TurnsOldKeysOff
                   /\ part = "edits" /\ accountBlips' = 0 => Account!KeepsAdmin
<1>1. UsersInit => SessionInv /\ GuardInv
  BY SessionInitially, GuardInitially DEF UsersInit
<1>2. (SessionInv /\ GuardInv) /\ [UsersNext]_allVars => (SessionInv /\ GuardInv)'
  BY MovesOfUsers, SessionStep, GuardStep
<1>3. (SessionInv /\ GuardInv) /\ (AccountInv /\ RoleInv) /\ [UsersNext]_allVars => [Word]_allVars
  BY MovesOfUsers, AliveStep, GuardStep, MintStep, RoleStep
<1>4. UsersSpec => [][Word]_allVars
  BY <1>1, <1>2, <1>3, AccountsCorrect, PTL DEF UsersSpec
<1> QED
  BY <1>4 DEF StepsKeepTheirWord

\* Only a code that was mailed is accepted, and none twice while verifications
\* are alone.
THEOREM CodesHold ==
  ASSUME \A v, w \in FewVerifiers : v = w
  PROVE  UsersSpec => [](/\ Codes!AcceptedWasMailed
                         /\ part = "codes" => Codes!UsedOnce)
<1> DEFINE Inv == CodeInv /\ (part = "codes" => Alone /\ AloneInv)
<1>1. UsersInit => Inv
  <2>1. Codes!Init => Alone /\ AloneInv
    BY DEF Codes!Init, Codes!Waiting, Codes!Codes, Alone, AloneInv
  <2> QED
    BY <2>1, CodeInitially DEF UsersInit
<1>2. Inv /\ [UsersNext]_allVars => Inv'
  <2> SUFFICES ASSUME Inv, [UsersNext]_allVars PROVE Inv'
    OBVIOUS
  <2>1. CodeInv' /\ part' = part
    BY MovesOfUsers, CodeStep
  <2>2. ASSUME part = "codes" PROVE Alone'
    <3>1. CASE CodesMove
      BY <2>2, <3>1 DEF CodesMove, Alone
    <3>2. CASE UNCHANGED codeVars
      BY <2>2, <3>2 DEF codeVars, Alone
    <3> QED
      BY <3>1, <3>2 DEF UsersNext, RowsMove, GuardMove, RateMove, SessionsMove, AccountsMove, allVars
  <2> QED
    BY <2>1, <2>2, MovesOfUsers, AloneStep
<1>3. Inv => Codes!AcceptedWasMailed /\ (part = "codes" => Codes!UsedOnce)
  BY DEF CodeInv, AloneInv, Codes!UsedOnce, Codes!AcceptedWasMailed, Codes!Codes
<1> QED
  BY <1>1, <1>2, <1>3, PTL DEF UsersSpec

\* While no process ends between two commands, a counter of failures that no
\* login is about to write ends after a quiet period.
THEOREM CountersEnd == UsersSpec => [](crashes = 0 => Guard!Forgotten)
<1>1. UsersInit => GuardInv
  BY GuardInitially DEF UsersInit
<1>2. GuardInv /\ [UsersNext]_allVars => GuardInv'
  BY MovesOfUsers, GuardStep
<1>3. GuardInv => (crashes = 0 => Guard!Forgotten)
  BY UsersAssumption DEF GuardInv, Guard!Forgotten, Guard!Counters, Guard!LoginGuardAssumption
<1> QED
  BY <1>1, <1>2, <1>3, PTL DEF UsersSpec
=============================================================================

----------------------------- MODULE LoginGuard -----------------------------
(***************************************************************************)
(* The throttle of logins and resets: a hash per address and one per       *)
(* address and account, each with a count of failures and the end of a     *)
(* lock, forgotten after a quiet period.  A login checks both, tries the   *)
(* password, and records a failure (count, lock and TTL by commands of     *)
(* their own, address first) or a success (the account's hash goes).       *)
(***************************************************************************)
EXTENDS Integers, FiniteSetsExt

CONSTANTS
  Logins,    \* attempts, all of one address and account
  MaxTries,  \* bound on the attempts
  MaxTime,   \* bound on the clock
  FreeTries, \* failures before the lock, per counter
  baseLock, maxLock, decay,
  MaxCrashes \* bound on the ends of the process between two commands

\* What an instance must give the constants.
LoginGuardAssumption ==
  /\ MaxTries \in Nat /\ MaxTime \in Nat /\ MaxCrashes \in Nat
  /\ FreeTries \in [{"ip", "id"} -> Nat \ {0}]
  /\ baseLock \in Nat \ {0} /\ maxLock \in Nat /\ decay \in Nat
  /\ baseLock <= maxLock /\ maxLock < decay

VARIABLES
  now,
  counter,  \* the two hashes: count, locked_until, and when the key expires
  login,    \* where each login is, the counter it is at, its clock, its count
  tries, crashes

vars == <<now, counter, login, tries, crashes>>

Counters == {"ip", "id"}
Never == MaxTime + decay + 1
Absent == [count |-> 0, until |-> 0, expires |-> 0]
Out == [pc |-> "out", at |-> "ip", clock |-> 0, count |-> 0]

LoginGuardTypeOK ==
  /\ now \in 0..MaxTime /\ tries \in 0..MaxTries /\ crashes \in 0..MaxCrashes
  /\ counter \in [Counters -> [count : 0..MaxTries, until : 0..(MaxTime + maxLock), expires : 0..Never]]
  /\ login \in [Logins -> [pc : {"out", "check", "password", "count", "lock", "ttl", "success"},
                           at : Counters, clock : 0..MaxTime, count : 0..MaxTries]]
  /\ \A k \in Counters : counter[k].expires = 0 => counter[k] = Absent

Init ==
  /\ now = 0 /\ tries = 0 /\ crashes = 0
  /\ counter = [k \in Counters |-> Absent]
  /\ login = [l \in Logins |-> Out]

There(k) == counter[k].expires # 0

-----------------------------------------------------------------------------
Attempt(l) ==
  /\ login[l].pc = "out" /\ tries < MaxTries
  /\ tries' = tries + 1
  /\ login' = [login EXCEPT ![l] = [Out EXCEPT !.pc = "check", !.clock = now]]
  /\ UNCHANGED <<now, counter, crashes>>

\* remaining: of the clock the call has read.
remaining(l, k) == IF counter[k].until <= login[l].clock THEN 0 ELSE counter[k].until - login[l].clock

\* The address is looked at, then the account; a lock on either turns the login away.
Check(l) ==
  /\ login[l].pc = "check"
  /\ login' = [login EXCEPT ![l] =
       IF remaining(l, @.at) > 0 THEN Out
       ELSE IF @.at = "ip" THEN [@ EXCEPT !.at = "id"]
       ELSE [@ EXCEPT !.pc = "password", !.at = "ip", !.clock = 0]]
  /\ UNCHANGED <<now, counter, tries, crashes>>

\* The password is right or wrong.
Password(l) ==
  /\ login[l].pc = "password"
  /\ login' \in {[login EXCEPT ![l].pc = "success"],
                 [login EXCEPT ![l].pc = "count", ![l].clock = now]}
  /\ UNCHANGED <<now, counter, tries, crashes>>

\* HINCRBY: a new hash has no TTL.
Count(l) ==
  /\ login[l].pc = "count"
  /\ LET k == login[l].at IN
     /\ counter' = [counter EXCEPT ![k].count = @ + 1, ![k].expires = IF There(k) THEN @ ELSE Never]
     /\ login' = [login EXCEPT ![l].count = counter[k].count + 1,
                               ![l].pc = IF counter[k].count + 1 >= FreeTries[k] THEN "lock" ELSE "ttl"]
  /\ UNCHANGED <<now, tries, crashes>>

\* The lock doubles with every failure over the free ones, up to the cap.
LockFor(over) ==
  LET lock[n \in Nat] == IF n = 0 THEN baseLock
                         ELSE IF 2 * lock[n - 1] >= maxLock THEN maxLock ELSE 2 * lock[n - 1]
  IN lock[over]

\* HSET of the end of the lock, by the clock and the count of this failure.
Lock(l) ==
  /\ login[l].pc = "lock"
  /\ LET k == login[l].at IN
       counter' = [counter EXCEPT ![k].until = login[l].clock + LockFor(login[l].count - FreeTries[k]),
                                  ![k].expires = IF There(k) THEN @ ELSE Never]
  /\ login' = [login EXCEPT ![l].pc = "ttl"]
  /\ UNCHANGED <<now, tries, crashes>>


Refreshed(k) == now + decay

\* EXPIRE, on a hash that is still there; the account follows the address.
Expire(l) ==
  /\ login[l].pc = "ttl"
  /\ LET k == login[l].at IN
     /\ counter' = IF There(k) THEN [counter EXCEPT ![k].expires = Refreshed(k)] ELSE counter
     /\ login' = [login EXCEPT ![l] = IF k = "ip" THEN [@ EXCEPT !.at = "id", !.pc = "count"] ELSE Out]
  /\ UNCHANGED <<now, tries, crashes>>

\* Mutant of Cleared: a success clears both hashes.
ClearedBoth == [k \in Counters |-> Absent]

\* Only the account's hash; the address is left to decay.
Cleared == [counter EXCEPT !["id"] = Absent]

RecordSuccess(l) ==
  /\ login[l].pc = "success"
  /\ counter' = Cleared
  /\ login' = [login EXCEPT ![l] = Out]
  /\ UNCHANGED <<now, tries, crashes>>

\* The process ends, a command fails, or the caller is gone: the call stops there.
Crash(l) ==
  /\ login[l].pc # "out" /\ crashes < MaxCrashes
  /\ crashes' = crashes + 1
  /\ login' = [login EXCEPT ![l] = Out]
  /\ UNCHANGED <<now, counter, tries>>

\* Time passes, and takes what has expired.
Tick ==
  /\ now < MaxTime
  /\ now' = now + 1
  /\ counter' = [k \in Counters |-> IF counter[k].expires = now + 1 THEN Absent ELSE counter[k]]
  /\ UNCHANGED <<login, tries, crashes>>

Step(l) == Check(l) \/ Password(l) \/ Count(l) \/ Lock(l) \/ Expire(l) \/ RecordSuccess(l)

Next == (\E l \in Logins : Attempt(l) \/ Step(l) \/ Crash(l)) \/ Tick

Spec == Init /\ [][Next]_vars

-----------------------------------------------------------------------------
\* RecordFailure: "arms an exponentially growing lockout window".  While a lock
\* is on and not forgotten, no failure shortens it.
LockNeverShrinks ==
  [][\A k \in Counters :
       counter[k].until > now /\ counter'[k].expires # 0 => counter'[k].until >= counter[k].until]_vars

\* RecordFailure: the locks grow.  With n logins at once, a lock holds up at
\* least every n-th failure over the free ones: those of 1, 2, 4, ... times
\* baseLock, no more than maxLock each, have passed.
GrowingLocks(n) ==
  \A k \in Counters : counter[k].count > FreeTries[k] =>
    now >= FoldSet(LAMBDA i, t : t + (IF baseLock * 2^i < maxLock THEN baseLock * 2^i ELSE maxLock),
                   0, 0..(((counter[k].count - FreeTries[k]) \div n) - 1))

\* A counter that runs ends: its hash has a TTL when no failure is being recorded.
Forgotten ==
  (\A l \in Logins : login[l].pc = "out") => \A k \in Counters : counter[k].expires <= now + decay

\* A success of an account does not reset what its address has failed.
KeepsCount == counter["ip"].count > counter'["ip"].count => counter["ip"].expires = now'
=============================================================================

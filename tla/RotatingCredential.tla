------------------------- MODULE RotatingCredential -------------------------
(***************************************************************************)
(* A krea or imagine account: its cookie carries an access token and a     *)
(* refresh token that works once and is replaced by its use.  Generations, *)
(* the maintenance sweep and quota probes all refresh a cookie that is     *)
(* about to expire and save the new one.  The client keeps the newest      *)
(* cookie per account, and a lock, in the memory of its process.           *)
(* Sessions are numbered in the order in which the upstream issues them.   *)
(***************************************************************************)
EXTENDS Integers, FiniteSets, FiniteSetsExt

CONSTANTS
  Procs,        \* processes of the program
  Callers,      \* generations and probes
  Sweeper,      \* [Procs -> the caller that is its maintenance sweep]
  ProcOf,       \* [Callers -> Procs]
  MaxSessions,  \* bound on the sessions
  MaxUnsaved,   \* bound on the failed writes of a new cookie
  MaxCrashes    \* bound on the restarts

\* What an instance must give the constants.
RotatingAssumption ==
  /\ 0 \notin Callers   \* lock 0: nobody
  /\ ProcOf \in [Callers -> Procs]
  /\ Sweeper \in [Procs -> Callers]
  /\ \A p \in Procs : ProcOf[Sweeper[p]] = p
  /\ MaxSessions \in Nat \ {0} /\ MaxUnsaved \in Nat /\ MaxCrashes \in Nat

VARIABLES
  value, status,  \* of the account row: the session of its cookie, its status
  latest,         \* the newest session of the upstream
  expiring,       \* sessions up to this one have less than refreshLeadSeconds left
  cookies,        \* per process, the newest session its client knows, or 0
  lock,           \* per process, the caller that holds the account's lock, or 0
  caller,         \* where each caller is
  presented,      \* history: how often each session's refresh token has reached the upstream
  lost,           \* history: the answer with the newest session was lost, for good
  unreadable,     \* history: a refresh was answered with something else than a session
  unsaved, crashes

vars == <<value, status, latest, expiring, cookies, lock, caller, presented, lost, unreadable, unsaved, crashes>>

Idle == [pc |-> "idle", have |-> 0, fresh |-> 0]
Sessions == 1..MaxSessions

RotatingTypeOK ==
  /\ value \in Sessions /\ status \in {"active", "disabled"}
  /\ latest \in Sessions /\ expiring \in 0..latest
  /\ cookies \in [Procs -> 0..MaxSessions]
  /\ lock \in [Procs -> Callers \cup {0}]
  /\ caller \in [Callers -> [pc : {"idle", "wait", "locked", "posted", "save", "use", "kill"},
                             have : 0..MaxSessions, fresh : 0..MaxSessions]]
  /\ presented \in [Sessions -> Nat]
  /\ lost \in BOOLEAN /\ unreadable \in BOOLEAN
  /\ unsaved \in 0..MaxUnsaved /\ crashes \in 0..MaxCrashes

Init ==
  /\ value = 1 /\ status = "active" /\ latest = 1 /\ expiring = 0
  /\ cookies = [p \in Procs |-> 0]
  /\ lock = [p \in Procs |-> 0]
  /\ caller = [c \in Callers |-> Idle]
  /\ presented = [s \in Sessions |-> 0]
  /\ lost = FALSE /\ unreadable = FALSE
  /\ unsaved = 0 /\ crashes = 0

-----------------------------------------------------------------------------
Valid(s) == s > expiring

\* The newest session that anyone has.
Received == IF lost THEN latest - 1 ELSE latest

\* The caller reads the account row, a generation from its snapshot of the pool.
Snapshot(c) ==
  /\ caller[c].pc = "idle" /\ status = "active"
  /\ caller' = [caller EXCEPT ![c] = [pc |-> "wait", have |-> value, fresh |-> 0]]
  /\ UNCHANGED <<value, status, latest, expiring, cookies, lock, presented, lost, unreadable,
                 unsaved, crashes>>

\* Mutant of userLock: everybody enters.
userLockNone(c) == TRUE

userLock(c) == lock[ProcOf[c]] = 0

Enter(c) ==
  /\ caller[c].pc = "wait" /\ userLock(c)
  /\ lock' = [lock EXCEPT ![ProcOf[c]] = c]
  /\ caller' = [caller EXCEPT ![c].pc = "locked"]
  /\ UNCHANGED <<value, status, latest, expiring, cookies, presented, lost, unreadable, unsaved, crashes>>

Unlocked(c) == [lock EXCEPT ![ProcOf[c]] = IF @ = c THEN 0 ELSE @]

\* Mutant of Changed: only a refresh of one's own is saved.
ChangedOwn(c, s) == FALSE

\* The cookie of the cache is saved too if the row had another one.
Changed(c, s) == s # caller[c].have

CacheServes(c) == cookies[ProcOf[c]] # 0 /\ Valid(cookies[ProcOf[c]])

\* RefreshIfNeeded finds a session that is good for a while, in the cache or
\* in the cookie it was given.
StillValid(c) ==
  /\ caller[c].pc = "locked"
  /\ CacheServes(c) \/ Valid(caller[c].have)
  /\ LET s == IF CacheServes(c) THEN cookies[ProcOf[c]] ELSE caller[c].have IN
     caller' = [caller EXCEPT ![c].pc = IF Changed(c, s) THEN "save" ELSE "use", ![c].fresh = s]
  /\ lock' = Unlocked(c)
  /\ UNCHANGED <<value, status, latest, expiring, cookies, presented, lost, unreadable, unsaved, crashes>>

\* refreshPost: the refresh token of the cookie the caller came with.
Present(c) ==
  /\ caller[c].pc = "locked" /\ ~CacheServes(c) /\ ~Valid(caller[c].have)
  /\ presented' = [presented EXCEPT ![caller[c].have] = @ + 1]
  /\ caller' = [caller EXCEPT ![c].pc = "posted"]
  /\ UNCHANGED <<value, status, latest, expiring, cookies, lock, lost, unreadable, unsaved, crashes>>

\* The upstream answers with a new session.
Refresh(c) ==
  /\ caller[c].pc = "posted" /\ caller[c].have = latest /\ latest < MaxSessions
  /\ latest' = latest + 1
  /\ cookies' = [cookies EXCEPT ![ProcOf[c]] = latest + 1]
  /\ caller' = [caller EXCEPT ![c].pc = "save", ![c].fresh = latest + 1]
  /\ lock' = Unlocked(c)
  /\ UNCHANGED <<value, status, expiring, presented, lost, unreadable, unsaved, crashes>>

\* It was used before: 400, ErrAuth.
RefreshRefused(c) ==
  /\ caller[c].pc = "posted" /\ caller[c].have # latest
  /\ caller' = [caller EXCEPT ![c].pc = "kill"]
  /\ lock' = Unlocked(c)
  /\ UNCHANGED <<value, status, latest, expiring, cookies, presented, lost, unreadable, unsaved, crashes>>

\* The request does not get through, or a refusal does not come back: a temporary
\* error, nothing is used up.
RefreshFails(c) ==
  /\ caller[c].pc = "posted"
  /\ presented' = [presented EXCEPT ![caller[c].have] = @ - 1]
  /\ caller' = [caller EXCEPT ![c] = Idle]
  /\ lock' = Unlocked(c)
  /\ UNCHANGED <<value, status, latest, expiring, cookies, lost, unreadable, unsaved, crashes>>

\* The upstream issues a session, and nobody reads the token of the next one.
IssuedInVain(c) ==
  /\ caller[c].have = latest /\ latest < MaxSessions
  /\ latest' = latest + 1 /\ lost' = TRUE
  /\ UNCHANGED presented

\* It is used up, but the answer times out or breaks off: a temporary error too.
AnswerLost(c) ==
  /\ caller[c].pc = "posted" /\ IssuedInVain(c)
  /\ caller' = [caller EXCEPT ![c] = Idle]
  /\ lock' = Unlocked(c)
  /\ UNCHANGED <<value, status, expiring, cookies, unreadable, unsaved, crashes>>

\* A 200 without a session, of the upstream or of something before it: ErrAuth.
RefreshUnreadable(c) ==
  /\ caller[c].pc = "posted"
  /\ \/ IssuedInVain(c)
     \/ /\ presented' = [presented EXCEPT ![caller[c].have] = @ - 1]
        /\ UNCHANGED <<latest, lost>>
  /\ unreadable' = TRUE
  /\ caller' = [caller EXCEPT ![c].pc = "kill"]
  /\ lock' = Unlocked(c)
  /\ UNCHANGED <<value, status, expiring, cookies, unsaved, crashes>>

\* kreaRefreshAndPersist: the new cookie goes into the row, whatever is there.
Persist(c) ==
  /\ caller[c].pc = "save"
  /\ value' = caller[c].fresh
  /\ caller' = [caller EXCEPT ![c].pc = "use"]
  /\ UNCHANGED <<status, latest, expiring, cookies, lock, presented, lost, unreadable, unsaved, crashes>>

\* The write fails, or its context is cancelled; the error is dropped.
PersistFails(c) ==
  /\ caller[c].pc = "save" /\ unsaved < MaxUnsaved
  /\ unsaved' = unsaved + 1
  /\ caller' = [caller EXCEPT ![c].pc = "use"]
  /\ UNCHANGED <<value, status, latest, expiring, cookies, lock, presented, lost, unreadable, crashes>>

\* The balance is read or the image made with the cookie.
Use(c) ==
  /\ caller[c].pc = "use"
  /\ caller' = [caller EXCEPT ![c] = Idle]
  /\ UNCHANGED <<value, status, latest, expiring, cookies, lock, presented, lost, unreadable,
                 unsaved, crashes>>

\* RefreshExpiringTokens, Quota, markTokenFailure: the account is dead.
Kill(c) ==
  /\ caller[c].pc = "kill"
  /\ status' = "disabled"
  /\ caller' = [caller EXCEPT ![c] = Idle]
  /\ UNCHANGED <<value, latest, expiring, cookies, lock, presented, lost, unreadable, unsaved, crashes>>

-----------------------------------------------------------------------------
\* An hour passes.  It outlasts every generation and probe, and the sweep runs
\* every minute: no caller still has an older cookie, and a failed write was
\* followed by a sweep.
Expire ==
  /\ expiring < latest
  /\ \A c \in Callers : caller[c].pc \in {"idle", "wait"} /\ caller[c].have \in {0, Received}
  /\ value # Received => \A p \in Procs : cookies[p] # Received
  /\ expiring' = latest
  /\ UNCHANGED <<value, status, latest, cookies, lock, caller, presented, lost, unreadable,
                 unsaved, crashes>>

Crash(p) ==
  /\ crashes < MaxCrashes /\ crashes' = crashes + 1
  /\ cookies' = [cookies EXCEPT ![p] = 0]
  /\ lock' = [lock EXCEPT ![p] = 0]
  /\ caller' = [c \in Callers |-> IF ProcOf[c] = p THEN Idle ELSE caller[c]]
  /\ UNCHANGED <<value, status, latest, expiring, presented, lost, unreadable, unsaved>>

Step(c) ==
  \/ Enter(c) \/ StillValid(c) \/ Present(c) \/ Refresh(c) \/ RefreshRefused(c) \/ RefreshFails(c)
  \/ AnswerLost(c) \/ RefreshUnreadable(c)
  \/ Persist(c) \/ PersistFails(c) \/ Use(c) \/ Kill(c)

Next ==
  \/ \E c \in Callers : Snapshot(c) \/ Step(c)
  \/ Expire
  \/ \E p \in Procs : Crash(p)

Spec == Init /\ [][Next]_vars

\* The sweep starts every minute, and no call hangs (each has a timeout); a
\* lock is handed to its waiters in turn, so the sweep's caller is not starved.
FairSpec ==
  /\ Spec
  /\ \A c \in Callers : WF_vars(Step(c))
  /\ \A p \in Procs : WF_vars(Snapshot(Sweeper[p])) /\ SF_vars(Enter(Sweeper[p]))

-----------------------------------------------------------------------------
\* krea client: concurrent callers do not each spend the refresh token; it is only
\* presented again if nobody got the answer to its use.
SpentOnce == \A s \in Sessions : presented[s] <= 1 \/ (lost /\ s = Received)

\* The upstream never closes the session here: what disables the account is an
\* answer that was lost or could not be read, and no race of the program.
LiveAccountLives == status = "disabled" => lost \/ unreadable

\* client.go: "ErrAuth means the refresh_token is dead".
DisabledIsDead == status = "disabled" => lost

\* A new cookie that was received and not written is written later, unless the
\* account has been taken for dead meanwhile.
NewestIsSaved == (value # Received /\ ~unreadable) ~> (value = Received \/ unreadable)
=============================================================================

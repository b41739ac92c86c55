---------------------------- MODULE PoolFailover ----------------------------
(***************************************************************************)
(* runPoolWithFailover (service/v1.go): a generation is tried on the       *)
(* accounts of a provider's pool, one after the other, until one of them   *)
(* serves it.  Several generations share the accounts, whose job slots are *)
(* a Redis set each.  The list of accounts is a snapshot: it is never read *)
(* again, and neither are the limits an account had when it was taken.     *)
(* Timers are abstracted to the fact that they have run out.               *)
(***************************************************************************)
EXTENDS Integers, FiniteSets, Sequences, Functions

CONSTANTS
  Requests,
  Accounts,     \* ids, ordered as strings are in the code
  KindOf,       \* [Requests -> Kinds]
  PinOf,        \* the account an administrator tests with a request, or 0
  Serving,      \* the kinds an account's plan can serve (adobeAccountSupportsModel)
  Weight, Cap,  \* per account: scheduling weight, simultaneous jobs
  PerKind,      \* quotas per kind (adobe)
  AuthKills,    \* a failed login disables the account (chatgpt, leonardo, krea, imagine)
  HasRefresh,   \* the token can be minted again from a cookie (adobe)
  TaskQuota,    \* a quota error may be about this task only (oreate)
  MaxTemp,      \* maxTempFailoverAccounts
  Cycle,        \* the cursor is counted modulo this multiple of 1..|Accounts|
  Watched,      \* generations whose history is kept
  MaxCancels    \* bound on the generations that are cancelled

Kinds == {"image", "video"}

\* What an instance must give the constants.
FailoverAssumption ==
  /\ Accounts \subseteq Nat \ {0} /\ IsFiniteSet(Accounts)
  /\ KindOf \in [Requests -> Kinds]
  /\ PinOf \in [Requests -> Accounts \cup {0}]
  /\ Serving \in [Accounts -> SUBSET Kinds]
  /\ Weight \in [Accounts -> Nat]
  /\ Cap \in [Accounts -> 1..20]
  /\ {PerKind, AuthKills, HasRefresh, TaskQuota} \subseteq BOOLEAN
  /\ MaxTemp \in Nat \ {0}
  /\ Cycle \in Nat \ {0}
  /\ Watched \subseteq Requests
  /\ MaxCancels \in Nat

VARIABLES
  row,       \* the account rows: status, dead, limited kinds
  cooling,   \* accounts in their post-failure cooldown
  cursor,    \* the pool's round-robin counter
  holders,   \* per account, the members of its slot set
  req,       \* where each generation is
  gone,      \* generations whose context is cancelled
  over,      \* deadlines of a generation that have passed

  burnt,     \* history: accounts a generation has cooled since it last waited
  spent      \* history: accounts a generation found exhausted or dead

vars == <<row, cooling, cursor, holders, req, gone, over, burnt, spent>>

Outcomes == {"ok", "no_account", "full", "auth", "quota", "temp", "param"}
Deadlines == {"queue", "window"}

Fresh == [pc |-> "start", list |-> << >>, i |-> 1, err |-> "", temps |-> 0,
          refreshed |-> FALSE, limits |-> << >>]

FailoverTypeOK ==
  /\ row \in [Accounts -> [status : {"active", "quota", "disabled"},
                           dead : BOOLEAN, limited : SUBSET Kinds]]
  /\ cooling \subseteq Accounts
  /\ cursor \in 0..Cycle-1
  /\ holders \in [Accounts -> SUBSET Requests]
  /\ gone \subseteq Requests
  /\ over \in [Requests -> SUBSET Deadlines]
  /\ \A r \in Requests :
       /\ req[r].pc \in {"start", "round", "trying", "backoff", "queued", "ended"}
       /\ req[r].err \in Outcomes \cup {""}
       /\ req[r].temps \in 0..MaxTemp
       /\ req[r].i \in 1..Cardinality(Accounts) + 1
       /\ burnt[r] \subseteq Accounts /\ spent[r] \subseteq Accounts

Init ==
  /\ row = [a \in Accounts |-> [status |-> "active", dead |-> FALSE, limited |-> {}]]
  /\ cooling = {}
  /\ cursor = 0
  /\ holders = [a \in Accounts |-> {}]
  /\ req = [r \in Requests |-> Fresh]
  /\ gone = {}
  /\ over = [r \in Requests |-> {}]
  /\ burnt = [r \in Requests |-> {}]
  /\ spent = [r \in Requests |-> {}]

-----------------------------------------------------------------------------
(* Choosing the accounts.                                                  *)

Usable(a, kind) ==
  /\ row[a].status = "active" /\ ~row[a].dead
  /\ kind \notin row[a].limited
  /\ kind \in Serving[a]

Peers(S, a) == {b \in S : Weight[b] = Weight[a] /\ (b \in cooling <=> a \in cooling)}

\* The place of a in its group once the group is rotated by the cursor c.
Turn(S, a, c) ==
  (Cardinality({b \in Peers(S, a) : b < a}) - c) % Cardinality(Peers(S, a))

\* Accounts in cooldown last, then by weight, then round robin.
Before(S, a, b, c) ==
  \/ a \notin cooling /\ b \in cooling
  \/ /\ a \in cooling <=> b \in cooling
     /\ \/ Weight[a] > Weight[b]
        \/ Weight[a] = Weight[b] /\ Turn(S, a, c) < Turn(S, b, c)

rotateRoundRobin(S, c) ==
  CHOOSE s \in Bijection(1..Cardinality(S), S) :
    \A j \in 1..Cardinality(S) : \A i \in 1..j-1 : Before(S, s[i], s[j], c)

Candidates(r) ==
  IF PinOf[r] = 0 THEN {a \in Accounts : Usable(a, KindOf[r])} ELSE {PinOf[r]}

Finished(r, e) == [req EXCEPT ![r] = [Fresh EXCEPT !.pc = "ended", !.err = e]]

Limits == IF PerKind THEN [a \in Accounts |-> row[a].limited] ELSE << >>

\* generate*: list the pool, keep what is usable, or the pinned account.
Select(r) ==
  LET S == Candidates(r) IN
  /\ req[r].pc = "start"
  /\ IF S = {}
     THEN req' = Finished(r, "no_account") /\ UNCHANGED cursor
     ELSE /\ req' = [req EXCEPT ![r].pc = "round", ![r].list = rotateRoundRobin(S, cursor),
                                ![r].limits = Limits]
          /\ cursor' = IF Cardinality(S) > 1 THEN (cursor + 1) % Cycle ELSE cursor
  /\ UNCHANGED <<row, cooling, holders, gone, over, burnt, spent>>

-----------------------------------------------------------------------------
(* One account.                                                            *)

Current(r) == req[r].list[req[r].i]

HasSlot(a) == Cardinality(holders[a]) < Cap[a]

\* acctAcquire admits; with a cancelled context the call to Redis fails and
\* admits without a slot.
Acquire(r) ==
  /\ req[r].pc = "round" /\ req[r].i <= Len(req[r].list)
  /\ r \in gone \/ HasSlot(Current(r))
  /\ holders' = IF r \in gone THEN holders
                ELSE [holders EXCEPT ![Current(r)] = @ \cup {r}]
  /\ req' = [req EXCEPT ![r].pc = "trying", ![r].refreshed = FALSE]
  /\ UNCHANGED <<row, cooling, cursor, gone, over, burnt, spent>>

\* The account is at its cap: the next one.
Busy(r) ==
  /\ req[r].pc = "round" /\ req[r].i <= Len(req[r].list)
  /\ r \notin gone /\ ~HasSlot(Current(r))
  /\ req' = [req EXCEPT ![r].i = @ + 1]
  /\ UNCHANGED <<row, cooling, cursor, holders, gone, over, burnt, spent>>

\* Mutant of Released: the slot is kept.
ReleasedKept(r) == holders

\* The deferred acctRelease; with a cancelled context it does not reach Redis.
Released(r) ==
  IF r \in gone THEN holders ELSE [holders EXCEPT ![Current(r)] = @ \ {r}]

Next1(r, e) == [req EXCEPT ![r].pc = "round", ![r].err = e, ![r].i = @ + 1]

Noted(history, r) ==
  IF r \in Watched THEN [history EXCEPT ![r] = @ \cup {Current(r)}] ELSE history

Success(r) ==
  /\ req[r].pc = "trying"
  /\ req' = Finished(r, "ok")
  /\ holders' = Released(r)
  /\ UNCHANGED <<row, cooling, cursor, gone, over, burnt, spent>>

\* markTokenFailure(isQuota): the other kind's flag is the one of the snapshot.
QuotaMarked(r, a) ==
  IF ~PerKind THEN [row[a] EXCEPT !.status = "quota"]
  ELSE [row[a] EXCEPT
          !.limited = @ \cup {KindOf[r]},
          !.status = IF req[r].limits[a] \cup {KindOf[r]} = Kinds THEN "quota" ELSE @]

\* Quota: mark the account unless only this task is too expensive for it.
OutOfQuota(r, task) ==
  LET a == Current(r) IN
  /\ req[r].pc = "trying"
  /\ task => TaskQuota
  /\ row' = IF task THEN row ELSE [row EXCEPT ![a] = QuotaMarked(r, a)]
  /\ spent' = IF task THEN spent ELSE Noted(spent, r)
  /\ req' = Next1(r, "quota")
  /\ holders' = Released(r)
  /\ UNCHANGED <<cooling, cursor, gone, over, burnt>>

MayRefresh(r) == HasRefresh /\ ~req[r].refreshed

\* Auth: a token minted from the cookie is tried once on the same account,
\* whose row, with its limits, is read again.
Refresh(r) ==
  /\ req[r].pc = "trying" /\ MayRefresh(r)
  /\ req' = [req EXCEPT ![r].refreshed = TRUE,
                        ![r].limits = IF PerKind THEN [@ EXCEPT ![Current(r)] = row[Current(r)].limited]
                                      ELSE @]
  /\ UNCHANGED <<row, cooling, cursor, holders, gone, over, burnt, spent>>

\* Auth: nothing to refresh, the refresh fails, or it did not help.
AuthFails(r) ==
  LET a == Current(r) IN
  /\ req[r].pc = "trying"
  /\ row' = IF AuthKills THEN [row EXCEPT ![a].status = "disabled", ![a].dead = TRUE]
            ELSE row
  /\ cooling' = cooling \cup {a}
  /\ spent' = Noted(spent, r)
  /\ req' = Next1(r, "auth")
  /\ holders' = Released(r)
  /\ UNCHANGED <<cursor, gone, over, burnt>>

\* Mutant of NoMoreWaiting: the retry window is not looked at.
NoMoreWaitingUnlessGone(r) == r \in gone

\* waitTempRetry refuses.
NoMoreWaiting(r) == r \in gone \/ "window" \in over[r]

BurstLimit == MaxTemp

\* A temporary upstream error: the account cools down; the third of a burst
\* makes the request wait, or fail when the retry window is spent.
Temporary(r) ==
  LET a == Current(r)
      n == req[r].temps + 1 IN
  /\ req[r].pc = "trying"
  /\ cooling' = cooling \cup {a}
  /\ burnt' = Noted(burnt, r)
  /\ holders' = Released(r)
  /\ req' = IF n < BurstLimit
            THEN [Next1(r, "temp") EXCEPT ![r].temps = n]
            ELSE IF NoMoreWaiting(r)
            THEN Finished(r, "temp")
            ELSE [req EXCEPT ![r].pc = "backoff", ![r].err = "temp", ![r].temps = n]
  /\ UNCHANGED <<row, cursor, gone, over, spent>>

\* The request itself is at fault: no other account, no mark.
BadRequest(r) ==
  /\ req[r].pc = "trying"
  /\ req' = Finished(r, "param")
  /\ holders' = Released(r)
  /\ UNCHANGED <<row, cooling, cursor, gone, over, burnt, spent>>

-----------------------------------------------------------------------------
(* The end of a round, and the waits.                                      *)

\* The last failure was temporary and the retry window is open.
WaitsForRetry(r) == req[r].err = "temp" /\ ~NoMoreWaiting(r)

EndRound(r) ==
  /\ req[r].pc = "round" /\ req[r].i > Len(req[r].list)
  /\ req' = IF req[r].err # ""
            THEN IF WaitsForRetry(r) THEN [req EXCEPT ![r].pc = "backoff"]
                 ELSE Finished(r, req[r].err)
            ELSE IF "queue" \in over[r] THEN Finished(r, "full")
            ELSE [req EXCEPT ![r].pc = "queued"]
  /\ UNCHANGED <<row, cooling, cursor, holders, gone, over, burnt, spent>>

NewRound(r, temps) ==
  [req EXCEPT ![r].pc = "round", ![r].i = 1, ![r].err = "", ![r].temps = temps]

\* The backoff timer, or the cancelled context.
Backoff(r) ==
  /\ req[r].pc = "backoff"
  /\ IF r \in gone
     THEN req' = Finished(r, req[r].err) /\ UNCHANGED burnt
     ELSE req' = NewRound(r, 0) /\ burnt' = [burnt EXCEPT ![r] = {}]
  /\ UNCHANGED <<row, cooling, cursor, holders, gone, over, spent>>

\* Every account was busy: look again after 300 ms.
Poll(r) ==
  /\ req[r].pc = "queued"
  /\ req' = IF r \in gone THEN Finished(r, "full") ELSE NewRound(r, req[r].temps)
  /\ UNCHANGED <<row, cooling, cursor, holders, gone, over, burnt, spent>>

-----------------------------------------------------------------------------
(* Time and the caller.                                                    *)

\* providerAccountQueueWait, tempRetryWindow: they can pass while the driver
\* waits for something.
Passes(r, d) ==
  /\ req[r].pc \in IF d = "window" THEN {"trying", "backoff"} ELSE {"backoff", "queued"}
  /\ d \notin over[r]
  /\ over' = [over EXCEPT ![r] = @ \cup {d}]
  /\ UNCHANGED <<row, cooling, cursor, holders, req, gone, burnt, spent>>

\* The work deadline passes or the sweep cancels the generation.
Cancel(r) ==
  /\ req[r].pc \in {"trying", "backoff", "queued"} /\ r \notin gone
  /\ Cardinality(gone) < MaxCancels
  /\ gone' = gone \cup {r}
  /\ UNCHANGED <<row, cooling, cursor, holders, req, over, burnt, spent>>

CoolOff(a) ==
  /\ a \in cooling
  /\ cooling' = cooling \ {a}
  /\ UNCHANGED <<row, cursor, holders, req, gone, over, burnt, spent>>

\* The 15 minutes of a slot outlast the work deadline: only a slot whose
\* release never arrived expires.
ExpireSlot(r, a) ==
  /\ r \in holders[a]
  /\ ~(req[r].pc = "trying" /\ Current(r) = a)
  /\ holders' = [holders EXCEPT ![a] = @ \ {r}]
  /\ UNCHANGED <<row, cooling, cursor, req, gone, over, burnt, spent>>

Attempt(r) ==
  \/ Success(r) \/ Refresh(r) \/ AuthFails(r) \/ Temporary(r) \/ BadRequest(r)
  \/ \E task \in BOOLEAN : OutOfQuota(r, task)

Step(r) ==
  Select(r) \/ Acquire(r) \/ Busy(r) \/ Attempt(r) \/ EndRound(r) \/ Backoff(r) \/ Poll(r)

Next ==
  \/ \E r \in Requests : Step(r) \/ Cancel(r) \/ \E d \in Deadlines : Passes(r, d)
  \/ \E a \in Accounts : CoolOff(a) \/ \E r \in Requests : ExpireSlot(r, a)

Spec == Init /\ [][Next]_vars

\* The driver runs, an upstream call returns (every client has a timeout),
\* and time passes: Passes is strongly fair because it is only enabled where
\* the driver waits, which a polling request leaves again and again.
FairSpec ==
  /\ Spec
  /\ \A r \in Requests : WF_vars(Step(r)) /\ \A d \in Deadlines : SF_vars(Passes(r, d))

-----------------------------------------------------------------------------
(* What it promises.                                                       *)

\* A generation that is not cancelled holds the slot of the account it is
\* trying and no other: nobody waits in the queue or backs off with a slot.
NoHoldAndWait ==
  \A r \in Requests \ gone : \A a \in Accounts :
    r \in holders[a] <=> req[r].pc = "trying" /\ Current(r) = a

\* The job slots of an account are never more than its cap, even though a
\* cancelled generation leaves its slot behind.
CapKept == \A a \in Accounts : Cardinality(holders[a]) <= Cap[a]

\* Between two waits one generation cools at most MaxTemp accounts: an outage
\* of the shared egress does not fan out over the pool.
FanOutBounded == \A r \in Requests : Cardinality(burnt[r]) <= MaxTemp

\* A temporary error reaches the caller only when the retry window is spent or
\* the generation was cancelled.
TempSurfacedLate ==
  \A r \in Requests : req[r].pc = "ended" /\ req[r].err = "temp" => NoMoreWaiting(r)

\* Two choices in a row among the same accounts start at different ones, if
\* the first has an equal.
PicksSpread ==
  \A kind \in Kinds :
    LET S == {a \in Accounts : Usable(a, kind)}
        head(c) == rotateRoundRobin(S, c)[1] IN
    \A c \in 0..Cycle-2 :
      S # {} /\ Cardinality(Peers(S, head(c))) > 1 => head(c) # head(c + 1)

\* An account is sunk into the waiting status only if both kinds are limited.
QuotaMeansBoth ==
  PerKind => \A a \in Accounts : row[a].status = "quota" => row[a].limited = Kinds

\* Every generation ends: neither the queue, nor the retries, nor the
\* refreshes go on for good.
EveryRequestEnds == \A r \in Requests : <>(req[r].pc = "ended")

\* v1.go: "sink the account into the shared quota waiting status once BOTH
\* kinds are limited".
BothLimitedIsQuota ==
  PerKind => \A a \in Accounts : row[a].limited = Kinds => row[a].status = "quota"

\* v1.go: a quota error fails over "until one succeeds or the pool is exhausted".
PoolExhausted ==
  [][\A r \in Requests : req[r].pc # "ended" /\ req'[r].err = "quota" /\ req'[r].pc = "ended"
        => \A i \in 1..Len(req[r].list) : req[r].list[i] \in spent[r]]_vars

\* v1.go: "same-account retry can't help": an account a generation found
\* exhausted or dead is not tried by it again.
SpentNotRetried ==
  [][\A r \in Requests : req'[r].pc = "trying" /\ req[r].pc = "round"
                           => Current(r) \notin spent[r]]_vars
=============================================================================

--------------------------- MODULE KreaActivation ---------------------------
(***************************************************************************)
(* Krea grants the free credits of the day when its app page is loaded.    *)
(* Activate (provider/krea/client.go) loads it once per account and day,   *)
(* under a lock, before generations and from the daily sweep               *)
(* (ActivateKreaDue, service/tokens.go).  One account, one process.        *)
(***************************************************************************)
EXTENDS Integers, FiniteSets

CONSTANTS
  Callers,   \* generations
  MaxDay,    \* bound on the days
  MayFail,   \* the page may fail to load
  Midnight   \* the day may change while the page loads

\* What an instance must give the constants.
ActivationAssumption ==
  /\ "free" \notin Callers   \* lock "free": nobody
  /\ MaxDay \in Nat \ {0} /\ MayFail \in BOOLEAN /\ Midnight \in BOOLEAN

sweep == "sweep"
Everyone == Callers \cup {sweep}

VARIABLES
  day,
  granted,     \* the last day whose credits were granted
  actAt,       \* the day of the last activation the client remembers, or 0
  lock,        \* who is loading the page
  syncedAt,    \* the day of cached_quota_at
  at,          \* where everyone is, and the reset they computed
  loads        \* history: page loads per day

vars == <<day, granted, actAt, lock, syncedAt, at, loads>>
Days == 0..MaxDay

ActivationTypeOK ==
  /\ {day, granted, actAt, syncedAt} \subseteq Days
  /\ lock \in Everyone \cup {"free"}
  /\ at \in [Everyone -> [pc : {"idle", "wait", "load", "loaded", "go"}, lastReset : Days]]
  /\ loads \in [Days -> Nat]

Init ==
  /\ day = 1 /\ granted = 0 /\ actAt = 0 /\ lock = "free" /\ syncedAt = 0
  /\ at = [c \in Everyone |-> [pc |-> "idle", lastReset |-> 0]]
  /\ loads = [d \in Days |-> 0]

-----------------------------------------------------------------------------
doneToday(c, reset) == actAt >= reset

\* A generation, or the sweep if the account was not synced since the reset;
\* kreaActivating keeps a second sweep out.
Activate(c) ==
  /\ at[c].pc = "idle"
  /\ c = sweep => syncedAt < day
  /\ at' = [at EXCEPT ![c] = [pc |-> IF doneToday(c, day) THEN "go" ELSE "wait", lastReset |-> day]]
  /\ UNCHANGED <<day, granted, actAt, lock, syncedAt, loads>>

\* Inside the lock: another caller may have been here.
Recheck(c) ==
  /\ at[c].pc = "wait" /\ lock = "free"
  /\ IF doneToday(c, at[c].lastReset)
     THEN lock' = lock /\ at' = [at EXCEPT ![c].pc = "go"]
     ELSE lock' = c /\ at' = [at EXCEPT ![c].pc = "load"]
  /\ UNCHANGED <<day, granted, actAt, syncedAt, loads>>

Load(c) ==
  /\ at[c].pc = "load"
  /\ loads' = [loads EXCEPT ![day] = @ + 1]
  /\ granted' \in {day} \cup (IF MayFail THEN {granted} ELSE {})
  /\ at' = [at EXCEPT ![c].pc = "loaded"]
  /\ UNCHANGED <<day, actAt, lock, syncedAt>>

\* Whatever the page answered.
Stamp(c) ==
  /\ at[c].pc = "loaded"
  /\ actAt' = day
  /\ lock' = "free"
  /\ at' = [at EXCEPT ![c].pc = "go"]
  /\ UNCHANGED <<day, granted, syncedAt, loads>>

\* The generation is submitted, the sweep reads the balance.
Go(c) ==
  /\ at[c].pc = "go"
  /\ at' = [at EXCEPT ![c] = [pc |-> "idle", lastReset |-> 0]]
  /\ syncedAt' = IF c = sweep THEN day ELSE syncedAt
  /\ UNCHANGED <<day, granted, actAt, lock, loads>>

NewDay ==
  /\ day < MaxDay
  /\ Midnight \/ \A c \in Everyone : at[c].pc = "idle"
  /\ day' = day + 1
  /\ UNCHANGED <<granted, actAt, lock, syncedAt, at, loads>>

Proceed(c) == Recheck(c) \/ Load(c) \/ Stamp(c) \/ Go(c)

Next == NewDay \/ \E c \in Everyone : Activate(c) \/ Proceed(c)

Spec == Init /\ [][Next]_vars

\* The page load has a timeout of a minute; Go's mutex serves waiters in order.
FairSpec == Spec /\ \A c \in Everyone : WF_vars(Load(c)) /\ WF_vars(Stamp(c)) /\ WF_vars(Go(c)) /\ SF_vars(Recheck(c))

-----------------------------------------------------------------------------
\* client.go: "at most ONCE per account per daily reset".
LoadedOncePerDay == \A d \in Days : loads[d] <= 1

\* GenerateImage: "Ensure the daily free balance is granted (load /app) before
\* generating": whoever goes on, of today, finds today's credits.
GrantedBeforeUse ==
  \A c \in Everyone : at[c].pc = "go" /\ at[c].lastReset = day => granted = day

\* Concurrent callers wait for the first, and then go on.
EveryoneProceeds == \A c \in Everyone : at[c].pc = "wait" ~> at[c].pc = "go"
=============================================================================

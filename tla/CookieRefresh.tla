---------------------------- MODULE CookieRefresh ----------------------------
(***************************************************************************)
(* An adobe account: the row with its access token, and the refresh        *)
(* profile with the cookie that mints a new one.  The maintenance sweeps   *)
(* refresh a profile that is due, an administrator refreshes on demand;    *)
(* three failures in a row kill the account.  The administrator also       *)
(* imports another cookie under the same id and deletes the account.       *)
(***************************************************************************)
EXTENDS Integers, FiniteSets

CONSTANTS
  Sweeps,      \* callers of RefreshDue
  Admins,      \* callers of RefreshNow
  MaxBlips,    \* bound on the exchanges that fail on a working cookie
  MaxCookies,  \* bound on the imported cookies
  MaxRevokes,  \* bound on the cookies the upstream revokes
  Edits        \* whether the administrator edits and deletes

\* What an instance must give the constants.
CookieAssumption ==
  /\ Sweeps \cap Admins = {}
  /\ MaxBlips \in Nat /\ MaxCookies \in Nat \ {0} /\ MaxRevokes \in Nat /\ Edits \in BOOLEAN

VARIABLES
  row,      \* the account: there, status, dead
  profile,  \* the refresh profile: there, cookie, failures, enabled, due
  cookies,  \* cookies imported so far; the newest has this number
  live,     \* the cookies the upstream accepts
  caller,   \* where each RefreshNow is, and what it read
  streak,   \* history: exchanges that failed since the last one that worked
  killed,   \* history: the streak when the account was last killed, or -1
  blips

vars == <<row, profile, cookies, live, caller, streak, killed, blips>>

Callers == Sweeps \cup Admins
Idle == [pc |-> "idle", cookie |-> 0, failures |-> 0]

\* Failures from here on are alike: the backoff is at its hour and the account dead.
Cap == 4

CookieTypeOK ==
  /\ row \in [there : BOOLEAN, status : {"active", "pending", "disabled"}, dead : BOOLEAN]
  /\ profile \in [there : BOOLEAN, cookie : 1..MaxCookies, failures : 0..Cap,
                  enabled : BOOLEAN, due : BOOLEAN]
  /\ cookies \in 1..MaxCookies /\ live \subseteq 1..cookies
  /\ caller \in [Callers -> [pc : {"idle", "due", "read", "failed", "kill", "minted", "stamp"},
                             cookie : 0..MaxCookies, failures : 0..Cap]]
  /\ streak \in 0..Cap /\ killed \in -1..Cap /\ blips \in 0..MaxBlips

Init ==
  /\ row = [there |-> TRUE, status |-> "active", dead |-> FALSE]
  /\ profile = [there |-> TRUE, cookie |-> 1, failures |-> 0, enabled |-> TRUE, due |-> FALSE]
  /\ cookies = 1 /\ live = {1}
  /\ caller = [c \in Callers |-> Idle]
  /\ streak = 0 /\ killed = -1 /\ blips = 0

Plus(n) == IF n < Cap THEN n + 1 ELSE Cap

-----------------------------------------------------------------------------
ListDue == profile.there /\ profile.enabled /\ profile.due

RefreshDue(c) ==
  /\ c \in Sweeps /\ caller[c].pc = "idle" /\ ListDue
  /\ caller' = [caller EXCEPT ![c].pc = "due"]
  /\ UNCHANGED <<row, profile, cookies, live, streak, killed, blips>>

\* The button of the administrator; it asks for no more than the profile.
RefreshButton(c) ==
  /\ c \in Admins /\ caller[c].pc = "idle" /\ profile.there
  /\ caller' = [caller EXCEPT ![c].pc = "due"]
  /\ UNCHANGED <<row, profile, cookies, live, streak, killed, blips>>

\* RefreshNow reads the profile.
Read(c) ==
  /\ caller[c].pc = "due"
  /\ caller' = [caller EXCEPT ![c] =
       IF profile.there THEN [pc |-> "read", cookie |-> profile.cookie, failures |-> profile.failures]
       ELSE Idle]
  /\ UNCHANGED <<row, profile, cookies, live, streak, killed, blips>>

Exchanged(c) ==
  /\ caller[c].pc = "read" /\ caller[c].cookie \in live
  /\ streak' = 0
  /\ caller' = [caller EXCEPT ![c].pc = "minted"]
  /\ UNCHANGED <<row, profile, cookies, live, killed, blips>>

\* The exchange fails, because the cookie is revoked or on the way there.
ExchangeFails(c) ==
  /\ caller[c].pc = "read"
  /\ IF caller[c].cookie \in live THEN blips < MaxBlips /\ blips' = blips + 1 ELSE UNCHANGED blips
  /\ streak' = Plus(streak)
  /\ caller' = [caller EXCEPT ![c].pc = "failed", ![c].failures = Plus(@)]
  /\ UNCHANGED <<row, profile, cookies, live, killed>>

\* A single failure may be a blip.
Enough(n) == n >= 3

\* The count that was read before the exchange, and one.
Counted(c) == caller[c].failures

\* The profile is put off by the backoff.
PutOff(c) ==
  /\ caller[c].pc = "failed"
  /\ profile' = IF profile.there THEN [profile EXCEPT !.failures = Counted(c), !.due = FALSE] ELSE profile
  /\ caller' = [caller EXCEPT ![c] = IF Enough(@.failures) THEN [@ EXCEPT !.pc = "kill"] ELSE Idle]
  /\ UNCHANGED <<row, cookies, live, streak, killed, blips>>

Kill(c) ==
  /\ caller[c].pc = "kill"
  /\ row' = IF row.there THEN [row EXCEPT !.status = "disabled", !.dead = TRUE] ELSE row
  /\ killed' = IF row.there THEN streak ELSE killed
  /\ caller' = [caller EXCEPT ![c] = Idle]
  /\ UNCHANGED <<profile, cookies, live, streak, blips>>

Revive == [row EXCEPT !.status = "active", !.dead = FALSE]

\* The token is written and the account active, whatever it was meanwhile; a
\* row that is gone ends the refresh.
Minted(c) ==
  /\ caller[c].pc = "minted"
  /\ row' = IF row.there THEN Revive ELSE row
  /\ caller' = [caller EXCEPT ![c] = IF row.there THEN [@ EXCEPT !.pc = "stamp"] ELSE Idle]
  /\ UNCHANGED <<profile, cookies, live, streak, killed, blips>>

Stamp(c) ==
  /\ caller[c].pc = "stamp"
  /\ profile' = IF profile.there THEN [profile EXCEPT !.failures = 0, !.due = FALSE] ELSE profile
  /\ caller' = [caller EXCEPT ![c] = Idle]
  /\ UNCHANGED <<row, cookies, live, streak, killed, blips>>

-----------------------------------------------------------------------------
\* next_retry_at passes: the interval after a refresh, the backoff after a failure.
Due ==
  /\ profile.there /\ ~profile.due
  /\ profile' = [profile EXCEPT !.due = TRUE]
  /\ UNCHANGED <<row, cookies, live, caller, streak, killed, blips>>

\* Another login of the account ends the session of a cookie.
Revoke ==
  /\ Cardinality((1..cookies) \ live) < MaxRevokes
  /\ \E k \in live : live' = live \ {k}
  /\ UNCHANGED <<row, profile, cookies, caller, streak, killed, blips>>

\* A profile of that id is there already: the duplicate is ignored.
Registered(k) ==
  IF profile.there THEN profile
  ELSE [there |-> TRUE, cookie |-> k, failures |-> 0, enabled |-> TRUE, due |-> FALSE]

\* ImportAdobeCookie under the id of the account.
Import ==
  /\ Edits /\ cookies < MaxCookies
  /\ cookies' = cookies + 1
  /\ live' = live \cup {cookies + 1}
  /\ profile' = Registered(cookies + 1)
  /\ row' = [there |-> TRUE, status |-> "pending", dead |-> row.there /\ row.dead]
  /\ UNCHANGED <<caller, streak, killed, blips>>

\* The worker of the newest import writes its verdict (AccountImport).
checkPendingAdobe ==
  /\ row.there /\ row.status = "pending"
  /\ row' = IF cookies \in live THEN Revive ELSE [row EXCEPT !.status = "disabled", !.dead = TRUE]
  /\ UNCHANGED <<profile, cookies, live, caller, streak, killed, blips>>

\* Update of the profile: the automatic refresh is switched.
Switch ==
  /\ Edits /\ profile.there
  /\ profile' = [profile EXCEPT !.enabled = ~@]
  /\ UNCHANGED <<row, cookies, live, caller, streak, killed, blips>>

\* Update of the account.
SetStatus ==
  /\ Edits /\ row.there
  /\ row' \in {Revive, [row EXCEPT !.status = "disabled"]}
  /\ UNCHANGED <<profile, cookies, live, caller, streak, killed, blips>>

\* Delete: the row and its profile.
Delete ==
  /\ Edits /\ row.there
  /\ row' = [row EXCEPT !.there = FALSE]
  /\ profile' = [profile EXCEPT !.there = FALSE]
  /\ UNCHANGED <<cookies, live, caller, streak, killed, blips>>

Step(c) ==
  \/ Read(c) \/ Exchanged(c) \/ ExchangeFails(c) \/ PutOff(c) \/ Kill(c) \/ Minted(c) \/ Stamp(c)

Next ==
  \/ \E c \in Callers : RefreshDue(c) \/ RefreshButton(c) \/ Step(c)
  \/ Due \/ Revoke \/ Import \/ checkPendingAdobe \/ Switch \/ SetStatus \/ Delete

Spec == Init /\ [][Next]_vars

\* Time passes, the sweep runs every minute, an exchange has a timeout.
FairSpec ==
  /\ Spec
  /\ WF_vars(Due) /\ WF_vars(checkPendingAdobe)
  /\ \A c \in Sweeps : WF_vars(RefreshDue(c))
  /\ \A c \in Callers : WF_vars(Step(c))

-----------------------------------------------------------------------------
\* RefreshNow: an account is killed after a few failures in a row, never for
\* one that a later refresh has made good.
KilledInARow == killed # -1 => killed >= 3

\* A profile the administrator has switched off is not swept: a sweep that is
\* not under way does not start.
SweepsTheEnabled ==
  \A c \in Sweeps : caller[c].pc = "idle" /\ caller'[c].pc # "idle" => profile.enabled

\* RefreshNow: a cookie that is killed is genuinely dead.  With fewer than
\* three blips no account of a working newest cookie is killed.
KillsTheDead ==
  \A c \in Callers :
    caller[c].pc = "kill" /\ caller'[c].pc = "idle" /\ row.there => cookies \notin live

\* A revoked cookie is found out, a working account comes back.
FoundOut == (row.there /\ live = {}) ~> (~row.there \/ row.dead \/ live # {})
ComesBack == (row.there /\ row.status # "active") ~> (~row.there \/ row.status = "active" \/ live = {})
=============================================================================

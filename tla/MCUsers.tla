------------------------------ MODULE MCUsers ------------------------------
(***************************************************************************)
(* The rows of users' credits, e-mail codes, the login guard, the rate     *)
(* limit, sessions, and accounts with their API keys, for TLC.  They share *)
(* no key of Redis and no column, so that an instance is about one of them *)
(* and the others rest.                                                    *)
(***************************************************************************)
EXTENDS CreditRows, TLC

CONSTANTS
  FewProcs, FewUsers,
  Issuers, Verifiers, maxCodeAttempts, MaxCodes, MaxGuesses, MaxBlips,
  Logins, MaxTries, FewTries, MaxTime, FreeTries, baseLock, maxLock, decay, MaxCrashes,
  Callers, limit, window, MaxFaults,
  Pages, ttl, slideAfter, MaxHours, MaxSlideFaults,
  Registers, Creates, Updates, Minters, Emails, Names, NoName, MaxUsers, MaxKeys, Deletes,
  FewNames, FewIssuers, FewVerifiers, FewCalls, FewLogins

VARIABLES
  part,
  cooldown, code, attempts, lasting, issued, mailed, issuer, verifier, guesses, early, used, calls, blips,
  now, counter, login, tries, crashes,
  count, left, caller, recent, faults,
  clock, key, cookie, visit, loggedOut, sessionFaults,
  users, keys, edit, minter, created, minted, accountBlips

\* b was invited by a, and c by b.
MCInviter == "a" :> Nobody @@ "b" :> "a" @@ "c" :> "b"
MCAmounts == {-1, 2}
\* Locks after one failure of an account, after three of an address.
MCFreeTries == [ip |-> 3, id |-> 1]

-----------------------------------------------------------------------------
(* The components.                                                         *)

Codes == INSTANCE EmailCode

Guard == INSTANCE LoginGuard

Rate == INSTANCE RateLimit

Session == INSTANCE Sessions WITH Requests <- Pages, MaxTime <- MaxHours, MaxFaults <- MaxSlideFaults,
  now <- clock, request <- visit, left <- loggedOut, faults <- sessionFaults

Account == INSTANCE Accounts WITH request <- edit, blips <- accountBlips

ASSUME UsersAssumption ==
  /\ Codes!EmailCodeAssumption /\ Guard!LoginGuardAssumption /\ Rate!RateLimitAssumption
  /\ Session!SessionAssumption /\ Account!AccountsAssumption

-----------------------------------------------------------------------------
rowVars == <<row, lock, proc, day, due, awards, rewards, ops>>
codeVars == <<cooldown, code, attempts, lasting, issued, mailed, issuer, verifier, guesses, early, used, calls, blips>>
guardVars == <<now, counter, login, tries, crashes>>
rateVars == <<count, left, caller, recent, faults>>
sessionVars == <<clock, key, cookie, visit, loggedOut, sessionFaults>>
accountVars == <<users, keys, edit, minter, created, minted, accountBlips>>
allVars == <<part, rowVars, codeVars, guardVars, rateVars, sessionVars, accountVars>>

UsersInit ==
  /\ part \in {"rows", "chain", "codes", "guesses", "locks", "burst", "guard", "rate", "sessions", "edits", "keys"}
  /\ Init /\ Codes!Init /\ Guard!Init /\ Rate!Init /\ Session!Init /\ Account!Init

\* Two processes write two users' rows on several days; all reward all users on one.
RowsMove ==
  /\ part \in {"rows", "chain"} /\ Next
  /\ part = "rows" => \A p \in Procs : proc'[p].pc # "idle" => p \in FewProcs /\ proc'[p].user \in FewUsers
  /\ part = "chain" => day' = day /\ \A p \in Procs : proc'[p].pc # "idle" => proc'[p].amount >= 0
  /\ UNCHANGED <<part, codeVars, guardVars, rateVars, sessionVars, accountVars>>
\* Two mails of codes beside one verification; one beside two.
CodesMove ==
  /\ part \in {"codes", "guesses"} /\ Codes!Next
  /\ part = "codes" => \A v \in Verifiers : verifier'[v].pc # "idle" => v \in FewVerifiers
  /\ part = "guesses" => calls' <= FewCalls /\ \A i \in Issuers : issuer'[i].pc # "idle" => i \in FewIssuers
  /\ UNCHANGED <<part, rowVars, guardVars, rateVars, sessionVars, accountVars>>
\* Many tries one by one; two at a time, each recorded within a second; and few
\* of which some end half way.
GuardMove ==
  /\ part \in {"locks", "burst", "guard"} /\ Guard!Next
  /\ part \in {"locks", "burst"} => crashes' = crashes
  /\ part \in {"locks", "guard"} => \A l \in Logins : login'[l].pc # "out" => l \in FewLogins
  /\ part = "burst" /\ now' # now => \A l \in Logins : login[l].pc \notin {"count", "lock", "ttl"}
  /\ part = "guard" => tries' <= FewTries
  /\ UNCHANGED <<part, rowVars, codeVars, rateVars, sessionVars, accountVars>>
RateMove ==
  /\ part = "rate" /\ Rate!Next
  /\ UNCHANGED <<part, rowVars, codeVars, guardVars, sessionVars, accountVars>>
SessionsMove ==
  /\ part = "sessions" /\ Session!Next
  /\ UNCHANGED <<part, rowVars, codeVars, guardVars, rateVars, accountVars>>
\* One request of each kind at a time; and registrations, keys, and users that go.
AccountsMove ==
  /\ part \in {"edits", "keys"} /\ Account!Next
  /\ part = "edits" =>
       /\ UNCHANGED <<keys, minter, minted>> /\ DOMAIN users \subseteq DOMAIN users'
       /\ \A r \in Account!Requests : edit'[r].pc # "out" => edit'[r].name \in FewNames
  /\ part = "keys" => UNCHANGED accountBlips /\ \A r \in Creates \cup Updates : edit'[r] = edit[r]
  /\ UNCHANGED <<part, rowVars, codeVars, guardVars, rateVars, sessionVars>>

UsersNext == RowsMove \/ CodesMove \/ GuardMove \/ RateMove \/ SessionsMove \/ AccountsMove

UsersSpec == UsersInit /\ [][UsersNext]_allVars

-----------------------------------------------------------------------------

\* A session is what its browser was told, and over once its user has left.
SessionsAgree ==
  part = "sessions" =>
    Session!SessionTypeOK /\ Session!AnswerIsStored /\ Session!CookieOutlives /\ Session!LoggedOutStays

\* No two accounts share an e-mail, one is the administrator, and keys have users;
\* transactions that lock two accounts' rows do not wait for each other in a ring;
\* and the days of a streak were days of check-ins.
AccountsAgree ==
  /\ part \in {"rows", "chain"} => CreditRowsTypeOK /\ StreakIsReal /\ SomeoneHasARow
  /\ part \in {"edits", "keys"} => Account!AccountsTypeOK /\ Account!UniqueEmail /\ Account!OneAdmin
  /\ part = "keys" => Account!UniqueName /\ Account!KeysHaveUsers

\* A success does not forgive an address, a request keeps its session alive, a new
\* key puts the old ones off, and no edit demotes the administrator while every
\* query succeeds.
StepsKeepTheirWord ==
  [][/\ part \in {"burst", "guard"} => Guard!KeepsCount
     /\ part = "sessions" => Session!KeepsAlive
     /\ part = "keys" => Account!TurnsOldKeysOff
     /\ part = "edits" /\ accountBlips' = 0 => Account!KeepsAdmin]_allVars
=============================================================================

------------------------------ MODULE MCPools ------------------------------
(***************************************************************************)
(* The account pools, for TLC: how a generation finds an account, how its  *)
(* credits are held, and how accounts are imported, refreshed and checked. *)
(* The components meet in no row that two of them change, so that an       *)
(* instance is about one of them and the others rest.  The constants of   *)
(* each part come in a record.                                             *)
(***************************************************************************)
EXTENDS Integers

CONSTANTS
  Parts, r1, r2, m1, m2, p1, c1, c2, c3, s1, a1,
  Case   \* for each part, the constants of its component

VARIABLES
  part,
  row, cooling, cursor, holders, req, gone, over, burnt, spent,
  passStatus, passCached, credit, passHolders, passReq, passGone, known, unheard,
  holdStatus, rem, marker, real, spam, gen, probe, holdSweep, cancels,
  value, credStatus, latest, expiring, clientCookies, credLock, credCaller, presented,
  lost, unreadable, unsaved, restarts,
  day, granted, actAt, pageLock, syncedAt, at, loads,
  pool, rows, importProfile, import, worker, paid, importCrashes,
  adobeRow, profile, cookies, live, caller, streak, killed, blips,
  sweptStatus, poor, checked, todo

Images(R) == [r \in R |-> "image"]
Unpinned(R) == [r \in R |-> 0]
Each(A, x) == [a \in A |-> x]
Both == {"image", "video"}
Blipped == {"chatgpt", "runway", "leonardo", "krea", "imagine", "grok", "oreate"}

-----------------------------------------------------------------------------
(* The cases.                                                              *)

\* Two generations, one pinned, of a pool whose failed logins kill.
MCBusy ==
  [requests |-> {r1, r2}, accounts |-> {1, 2}, kindOf |-> Images({r1, r2}),
   pinOf |-> [r \in {r1, r2} |-> IF r = r2 THEN 1 ELSE 0], serving |-> Each({1, 2}, Both),
   weight |-> Each({1, 2}, 1), cap |-> Each({1, 2}, 1), perKind |-> FALSE, authKills |-> TRUE,
   hasRefresh |-> FALSE, taskQuota |-> FALSE, maxTemp |-> 1, cycle |-> 2, watched |-> {},
   maxCancels |-> 1]

\* One generation and three accounts, one of double weight, one for images only.
MCOutage ==
  [requests |-> {r1}, accounts |-> {1, 2, 3}, kindOf |-> Images({r1}), pinOf |-> Unpinned({r1}),
   serving |-> <<Both, {"image"}, Both>>, weight |-> <<2, 1, 1>>, cap |-> Each({1, 2, 3}, 1),
   perKind |-> FALSE, authKills |-> FALSE, hasRefresh |-> TRUE, taskQuota |-> TRUE,
   maxTemp |-> 2, cycle |-> 6, watched |-> {r1}, maxCancels |-> 0]

\* An image and a video of an account whose kinds have quotas of their own.
MCKinds ==
  [requests |-> {r1, r2}, accounts |-> {1},
   kindOf |-> [r \in {r1, r2} |-> IF r = r1 THEN "image" ELSE "video"],
   pinOf |-> Unpinned({r1, r2}), serving |-> Each({1}, Both), weight |-> Each({1}, 1),
   cap |-> Each({1}, 1), perKind |-> TRUE, authKills |-> FALSE, hasRefresh |-> FALSE,
   taskQuota |-> FALSE, maxTemp |-> 1, cycle |-> 1, watched |-> {}, maxCancels |-> 0]

\* Two generations that queue for one account, its token renewable.
MCQueue ==
  [requests |-> {r1, r2}, accounts |-> {1}, kindOf |-> Images({r1, r2}),
   pinOf |-> Unpinned({r1, r2}), serving |-> Each({1}, Both), weight |-> Each({1}, 1),
   cap |-> Each({1}, 1), perKind |-> FALSE, authKills |-> FALSE, hasRefresh |-> TRUE,
   taskQuota |-> FALSE, maxTemp |-> 1, cycle |-> 1, watched |-> {}, maxCancels |-> 0]

\* Runway, Grok and custom accounts; one runway account is out of credits.
MCMixed ==
  [requests |-> {r1, r2}, accounts |-> 1..4, models |-> {m1, m2},
   poolOf |-> <<"runway", "grok", "custom", "runway">>,
   modelOf |-> [r \in {r1, r2} |-> IF r = r2 THEN m2 ELSE m1],
   nativeOf |-> [m \in {m1, m2} |-> IF m = m1 THEN "runway" ELSE "grok"],
   serves |-> <<{}, {}, {m2}, {}>>, pinOf |-> Unpinned({r1, r2}), concurrency |-> Each(1..4, 2),
   credits |-> <<0, 1, 1, 1>>]

\* Two generations and two runway accounts, one of them out of credits; one generation
\* is pinned to it.
MCPasses ==
  [requests |-> {r1, r2}, accounts |-> {1, 2}, models |-> {m1, m2},
   poolOf |-> <<"runway", "runway">>, modelOf |-> [r \in {r1, r2} |-> m1],
   nativeOf |-> [m \in {m1, m2} |-> IF m = m1 THEN "runway" ELSE "grok"], serves |-> <<{}, {}>>,
   pinOf |-> [r \in {r1, r2} |-> IF r = r2 THEN 1 ELSE 0], concurrency |-> <<0, 0>>,
   credits |-> <<0, 1>>]

CheapAndDear == [r \in {r1, r2} |-> IF r = r1 THEN 3 ELSE 4]

\* A leonardo account: two generations, a probe, a reset, reads that fail.
MCHeld ==
  [pool |-> "leonardo", requests |-> {r1, r2}, accounts |-> {1}, probers |-> {p1},
   cost |-> [r \in {r1, r2} |-> 4], minCredits |-> 3, daily |-> 4, paid |-> {}, start |-> <<7>>,
   cached |-> <<TRUE>>, jobs |-> 2, blips |-> TRUE, maxCancels |-> 1, resets |-> {1}]

\* An oreate account whose balance is not known: two generations and a probe.
MCSunk ==
  [pool |-> "oreate", requests |-> {r1, r2}, accounts |-> {1}, probers |-> {p1},
   cost |-> CheapAndDear, minCredits |-> 3, daily |-> 7, paid |-> {}, start |-> <<6>>,
   cached |-> <<FALSE>>, jobs |-> 2, blips |-> FALSE, maxCancels |-> 1, resets |-> {}]

\* Two oreate accounts, one of an unknown balance, and nobody else who writes.
MCAlone ==
  [pool |-> "oreate", requests |-> {r1, r2}, accounts |-> {1, 2}, probers |-> {},
   cost |-> CheapAndDear, minCredits |-> 3, daily |-> 7, paid |-> {}, start |-> <<7, 7>>,
   cached |-> <<TRUE, FALSE>>, jobs |-> 1, blips |-> FALSE, maxCancels |-> 0, resets |-> {}]

\* A leonardo account without and one with bought credits, and an oreate account, renewed.
MCDaily ==
  [pool |-> "leonardo", requests |-> {r1, r2}, accounts |-> {1}, probers |-> {},
   cost |-> [r \in {r1, r2} |-> 3], minCredits |-> 3, daily |-> 3, paid |-> {}, start |-> <<3>>,
   cached |-> <<TRUE>>, jobs |-> 1, blips |-> FALSE, maxCancels |-> 0, resets |-> {1}]
MCBought == [MCDaily EXCEPT !.paid = {1}]
MCRecheck ==
  [pool |-> "oreate", requests |-> {r1}, accounts |-> {1}, probers |-> {p1},
   cost |-> [r \in {r1} |-> 3], minCredits |-> 3, daily |-> 7, paid |-> {}, start |-> <<5>>,
   cached |-> <<TRUE>>, jobs |-> 2, blips |-> FALSE, maxCancels |-> 1, resets |-> {1}]

\* Three callers of one process, and two.
MCRotated ==
  [procs |-> {p1}, callers |-> {c1, c2, c3}, sweeper |-> [p \in {p1} |-> c1],
   procOf |-> [c \in {c1, c2, c3} |-> p1], maxSessions |-> 4, maxUnsaved |-> 2,
   maxCrashes |-> 0]
MCSaved ==
  [MCRotated EXCEPT !.callers = {c1, c2}, !.procOf = [c \in {c1, c2} |-> p1]]

\* The page may fail to load and the day may change meanwhile; and neither.
MCOnce ==
  [callers |-> {c1, c2, c3}, maxDay |-> 2, mayFail |-> TRUE, midnight |-> TRUE]
MCGranted ==
  [callers |-> {c1, c2, c3}, maxDay |-> 2, mayFail |-> FALSE, midnight |-> FALSE]

\* Imports one after the other, the second of a bad credential; and two that overlap.
MCSerial ==
  [pools |-> Blipped, imports |-> 1..3, good |-> {1, 3}, reprobes |-> {s1}, slots |-> 1,
   overlap |-> FALSE, blips |-> TRUE, maxCrashes |-> 1]
MCLanded ==
  [pools |-> {"chatgpt", "adobe"}, imports |-> 1..2, good |-> {1, 2}, reprobes |-> {s1},
   slots |-> 1, overlap |-> TRUE, blips |-> FALSE, maxCrashes |-> 1]

\* The sweep alone under edits; the sweep and an administrator with few failures of the
\* network, and with more of them.
MCSwept ==
  [sweeps |-> {s1}, admins |-> {}, maxBlips |-> 4, maxCookies |-> 2, maxRevokes |-> 1,
   edits |-> TRUE]
MCDead ==
  [sweeps |-> {s1}, admins |-> {a1}, maxBlips |-> 2, maxCookies |-> 1, maxRevokes |-> 1,
   edits |-> FALSE]
MCFound == [MCDead EXCEPT !.maxBlips = 3]

\* Three accounts that are left alone, in any states; two that change.
MCGrok == [pool |-> "grok", accounts |-> 1..3, batch |-> 1, interval |-> 1]
MCOreate == [pool |-> "oreate", accounts |-> 1..2, batch |-> 1, interval |-> 1]

MCCases ==
  [busy |-> MCBusy, outage |-> MCOutage, kinds |-> MCKinds, queue |-> MCQueue,
   mixed |-> MCMixed, passes |-> MCPasses, held |-> MCHeld, sunk |-> MCSunk,
   alone |-> MCAlone, daily |-> MCDaily, bought |-> MCBought, recheck |-> MCRecheck,
   rotated |-> MCRotated, saved |-> MCSaved, once |-> MCOnce, granted |-> MCGranted,
   serial |-> MCSerial, landed |-> MCLanded, swept |-> MCSwept, dead |-> MCDead,
   found |-> MCFound, grok |-> MCGrok, oreate |-> MCOreate]

-----------------------------------------------------------------------------
(* The components, for the constants of a case.                            *)

Failover(c) == INSTANCE PoolFailover WITH
  Requests <- c.requests, Accounts <- c.accounts, KindOf <- c.kindOf,
  PinOf <- c.pinOf, Serving <- c.serving, Weight <- c.weight,
  Cap <- c.cap, PerKind <- c.perKind, AuthKills <- c.authKills,
  HasRefresh <- c.hasRefresh, TaskQuota <- c.taskQuota, MaxTemp <- c.maxTemp,
  Cycle <- c.cycle, Watched <- c.watched, MaxCancels <- c.maxCancels

Pass(c) == INSTANCE SinglePass WITH
  Requests <- c.requests, Accounts <- c.accounts, Models <- c.models,
  PoolOf <- c.poolOf, ModelOf <- c.modelOf, NativeOf <- c.nativeOf,
  Serves <- c.serves, PinOf <- c.pinOf, Concurrency <- c.concurrency,
  Credits <- c.credits,
  status <- passStatus, cached <- passCached, holders <- passHolders, req <- passReq,
  gone <- passGone

Hold(c) == INSTANCE QuotaHold WITH
  Pool <- c.pool, Requests <- c.requests, Accounts <- c.accounts,
  Probers <- c.probers, Cost <- c.cost, MinCredits <- c.minCredits,
  Daily <- c.daily, Paid <- c.paid, Start <- c.start,
  Cached <- c.cached, Jobs <- c.jobs, Blips <- c.blips,
  MaxCancels <- c.maxCancels, Resets <- c.resets,
  status <- holdStatus, sweep <- holdSweep

Credential(c) == INSTANCE RotatingCredential WITH
  Procs <- c.procs, Callers <- c.callers, Sweeper <- c.sweeper,
  ProcOf <- c.procOf, MaxSessions <- c.maxSessions, MaxUnsaved <- c.maxUnsaved,
  MaxCrashes <- c.maxCrashes,
  status <- credStatus, cookies <- clientCookies, lock <- credLock, caller <- credCaller,
  crashes <- restarts

Activation(c) == INSTANCE KreaActivation WITH
  Callers <- c.callers, MaxDay <- c.maxDay, MayFail <- c.mayFail, Midnight <- c.midnight,
  lock <- pageLock

Import(c) == INSTANCE AccountImport WITH
  Pools <- c.pools, Imports <- c.imports, Good <- c.good, Reprobes <- c.reprobes,
  Slots <- c.slots, Overlap <- c.overlap, Blips <- c.blips, MaxCrashes <- c.maxCrashes,
  profile <- importProfile, crashes <- importCrashes

Cookie(c) == INSTANCE CookieRefresh WITH
  Sweeps <- c.sweeps, Admins <- c.admins, MaxBlips <- c.maxBlips,
  MaxCookies <- c.maxCookies, MaxRevokes <- c.maxRevokes, Edits <- c.edits,
  row <- adobeRow

Balance(c) == INSTANCE BalanceSweep WITH
  Pool <- c.pool, Accounts <- c.accounts, Batch <- c.batch, Interval <- c.interval,
  status <- sweptStatus

ASSUME PoolsAssumption ==
  /\ \A p \in {"busy", "outage", "kinds", "queue"} : Failover(Case[p])!FailoverAssumption
  /\ \A p \in {"mixed", "passes"} : Pass(Case[p])!SinglePassAssumption
  /\ \A p \in {"held", "sunk", "alone", "daily", "bought", "recheck"} : Hold(Case[p])!QuotaHoldAssumption
  /\ \A p \in {"rotated", "saved"} : Credential(Case[p])!RotatingAssumption
  /\ \A p \in {"once", "granted"} : Activation(Case[p])!ActivationAssumption
  /\ \A p \in {"serial", "landed"} : Import(Case[p])!ImportAssumption
  /\ \A p \in {"swept", "dead", "found"} : Cookie(Case[p])!CookieAssumption
  /\ \A p \in {"grok", "oreate"} : Balance(Case[p])!SweepAssumption

-----------------------------------------------------------------------------
failoverVars == <<row, cooling, cursor, holders, req, gone, over, burnt, spent>>
passVars == <<passStatus, passCached, credit, passHolders, passReq, passGone, known, unheard>>
holdVars == <<holdStatus, rem, marker, real, spam, gen, probe, holdSweep, cancels>>
credentialVars == <<value, credStatus, latest, expiring, clientCookies, credLock, credCaller,
                    presented, lost, unreadable, unsaved, restarts>>
activationVars == <<day, granted, actAt, pageLock, syncedAt, at, loads>>
importVars == <<pool, rows, importProfile, import, worker, paid, importCrashes>>
cookieVars == <<adobeRow, profile, cookies, live, caller, streak, killed, blips>>
sweepVars == <<sweptStatus, poor, checked, todo>>
generationVars == <<failoverVars, passVars, holdVars>>
accountVars == <<credentialVars, activationVars, importVars, cookieVars, sweepVars>>
vars == <<part, generationVars, accountVars>>

\* The case of part p, if that is about the component of q; of q, in which the others rest.
Its(p, q, parts) == Case[IF p \in parts THEN p ELSE q]

PoolsInit ==
  \E p \in Parts :
    /\ part = p
    /\ Failover(Its(p, "busy", {"outage", "kinds", "queue"}))!Init
    /\ Pass(Its(p, "mixed", {"passes"}))!Init
    /\ Hold(Its(p, "held", {"sunk", "alone", "daily", "bought", "recheck"}))!Init
    /\ Credential(Its(p, "rotated", {"saved"}))!Init
    /\ Activation(Its(p, "once", {"granted"}))!Init
    /\ Import(Its(p, "serial", {"landed"}))!Init
    /\ p \notin {"serial", "landed"} => pool = "krea"
    /\ Cookie(Its(p, "swept", {"dead", "found"}))!Init
    /\ Balance(Its(p, "oreate", {"grok"}))!Init
    /\ p # "oreate" => poor = {}
    /\ p \notin {"grok", "oreate"} => sweptStatus = <<"active", "active">>

\* The step A of the named part, in which the others rest.
OfFailover(p, A) == part = p /\ A /\ UNCHANGED <<part, passVars, holdVars, accountVars>>
OfPass(p, A) == part = p /\ A /\ UNCHANGED <<part, failoverVars, holdVars, accountVars>>
OfHold(p, A) == part = p /\ A /\ UNCHANGED <<part, failoverVars, passVars, accountVars>>
OfCredential(p, A) ==
  part = p /\ A /\ UNCHANGED <<part, generationVars, activationVars, importVars, cookieVars, sweepVars>>
OfActivation(p, A) ==
  part = p /\ A /\ UNCHANGED <<part, generationVars, credentialVars, importVars, cookieVars, sweepVars>>
OfImport(p, A) ==
  part = p /\ A /\ UNCHANGED <<part, generationVars, credentialVars, activationVars, cookieVars, sweepVars>>
OfCookie(p, A) ==
  part = p /\ A /\ UNCHANGED <<part, generationVars, credentialVars, activationVars, importVars, sweepVars>>
OfSweep(p, A) ==
  part = p /\ A /\ UNCHANGED <<part, generationVars, credentialVars, activationVars, importVars, cookieVars>>

PoolsNext ==
  \/ OfFailover("busy", Failover(Case.busy)!Next)
  \/ OfFailover("outage", Failover(Case.outage)!Next)
  \/ OfFailover("kinds", Failover(Case.kinds)!Next)
  \/ OfFailover("queue", Failover(Case.queue)!Next)
  \/ OfPass("mixed", Pass(Case.mixed)!Next)
  \/ OfPass("passes", Pass(Case.passes)!Next)
  \/ OfHold("held", Hold(Case.held)!Next)
  \/ OfHold("sunk", Hold(Case.sunk)!Next)
  \/ OfHold("alone", Hold(Case.alone)!Next)
  \/ OfHold("daily", Hold(Case.daily)!Next)
  \/ OfHold("bought", Hold(Case.bought)!Next)
  \/ OfHold("recheck", Hold(Case.recheck)!Next)
  \/ OfCredential("rotated", Credential(Case.rotated)!Next)
  \/ OfCredential("saved", Credential(Case.saved)!Next)
  \/ OfActivation("once", Activation(Case.once)!Next)
  \/ OfActivation("granted", Activation(Case.granted)!Next)
  \/ OfImport("serial", Import(Case.serial)!Next)
  \/ OfImport("landed", Import(Case.landed)!Next)
  \/ OfCookie("swept", Cookie(Case.swept)!Next)
  \/ OfCookie("dead", Cookie(Case.dead)!Next)
  \/ OfCookie("found", Cookie(Case.found)!Next)
  \/ OfSweep("oreate", Balance(Case.oreate)!Next)
  \/ OfSweep("grok", /\ Balance(Case.grok)!Next /\ poor' = {}
                     /\ ~\E a \in Case.grok.accounts : Balance(Case.grok)!Change(a))

PoolsSpec == PoolsInit /\ [][PoolsNext]_vars

-----------------------------------------------------------------------------
(* Fairness, as in the components.  A behaviour is of one part, so that    *)
(* conditions on steps of different parts may be joined.                   *)

\* The caller that is the k-th of each part.
Generation(k) == IF k = 1 THEN r1 ELSE r2
Caller(k) == CASE k = 1 -> c1 [] k = 2 -> c2 [] k = 3 -> c3 [] OTHER -> "sweep"
Worker(k) == IF k = 3 THEN s1 ELSE k
Refresher(k) == IF k = 1 THEN s1 ELSE a1

\* Whoever works goes on.
GoesOn(k) ==
  \/ k \in 1..2 /\ OfFailover("queue", Failover(Case.queue)!Step(Generation(k)))
  \/ k \in 1..2 /\ OfPass("passes", Pass(Case.passes)!Step(Generation(k)))
  \/ k = 1 /\ OfHold("recheck", Hold(Case.recheck)!ProbeStep(p1))
  \/ k \in 1..2 /\ OfCredential("saved", Credential(Case.saved)!Step(Caller(k)))
  \/ OfActivation("granted", Activation(Case.granted)!Load(Caller(k)))
  \/ k \in 1..3 /\ LET w == Worker(k) IN
       OfImport("landed", \/ Import(Case.landed)!Probe(w)
                          \/ Import(Case.landed)!Finish(w)
                          \/ Import(Case.landed)!Claim(w))
  \/ k \in 1..2 /\ OfCookie("found", Cookie(Case.found)!Step(Refresher(k)))
  \/ k \in 1..3 /\ OfSweep("grok", Balance(Case.grok)!Check(k) /\ poor' = {})
  \/ k \in 1..2 /\ OfSweep("oreate", Balance(Case.oreate)!Check(k))
\* The sweeps run.
Sweeps(k) ==
  \/ k = 1 /\ (\/ OfHold("daily", Hold(Case.daily)!SweepStep)
               \/ OfHold("bought", Hold(Case.bought)!SweepStep)
               \/ OfHold("recheck", Hold(Case.recheck)!SweepStep))
  \/ k = 1 /\ OfCredential("saved", Credential(Case.saved)!Snapshot(c1))
  \/ k \in 1..3 /\ OfImport("landed", Import(Case.landed)!Reprobe(Worker(k)))
  \/ k = 1 /\ OfCookie("found", Cookie(Case.found)!RefreshDue(s1))
  \/ k = 2 /\ OfCookie("found", Cookie(Case.found)!checkPendingAdobe)
  \/ k = 1 /\ (\/ OfSweep("grok", Balance(Case.grok)!Sweep)
               \/ OfSweep("oreate", Balance(Case.oreate)!Sweep))
  \/ OfActivation("granted", Activation(Case.granted)!Stamp(Caller(k)))
\* Days and delays pass, answers arrive.
Passing(k) ==
  \/ k = 1 /\ (\/ OfHold("daily", Hold(Case.daily)!Reset(1))
               \/ OfHold("bought", Hold(Case.bought)!Reset(1))
               \/ OfHold("recheck", Hold(Case.recheck)!Reset(1)))
  \/ k = 2 /\ OfHold("recheck", holdStatus[1] = "quota" /\ Hold(Case.recheck)!QuotaStart(p1, 1))
  \/ k = 1 /\ OfCookie("found", Cookie(Case.found)!Due)
  \/ k \in 1..2 /\ OfImport("landed", Import(Case.landed)!Land(k))
  \/ OfActivation("granted", Activation(Case.granted)!Go(Caller(k)))
\* What is handed on in turn.
Turn(k) ==
  \/ OfFailover("queue", LET what == IF k > 2 THEN "queue" ELSE "window" IN
                         Failover(Case.queue)!Passes(Generation(k % 2), what))
  \/ k = 1 /\ OfCredential("saved", Credential(Case.saved)!Enter(c1))
  \/ OfActivation("granted", Activation(Case.granted)!Recheck(Caller(k)))
  \/ k \in 1..3 /\ OfImport("landed", Import(Case.landed)!Acquire(Worker(k)))

Fairness ==
  \A k \in 1..4 :
    WF_vars(GoesOn(k)) /\ WF_vars(Sweeps(k)) /\ WF_vars(Passing(k)) /\ SF_vars(Turn(k))

FairPoolsSpec == PoolsSpec /\ Fairness

-----------------------------------------------------------------------------
(* What the pools promise, part by part.                                   *)

\* The slots of an account are never more than it may have, and those of the
\* generations at work there as far as their commands reach Redis; accounts are
\* spread over, spared in an outage, and reported as full or failing only when that
\* is the case.
FailsOverRightly ==
  /\ part = "busy" => /\ Failover(Case.busy)!FailoverTypeOK
                      /\ Failover(Case.busy)!CapKept /\ Failover(Case.busy)!NoHoldAndWait
  /\ part = "outage" => /\ Failover(Case.outage)!TempSurfacedLate
                        /\ Failover(Case.outage)!FanOutBounded /\ Failover(Case.outage)!PicksSpread
  /\ part = "kinds" => Failover(Case.kinds)!QuotaMeansBoth
  /\ part = "mixed" => Pass(Case.mixed)!SinglePassTypeOK
  /\ part = "passes" => Pass(Case.passes)!SlotsMatchJobs /\ Pass(Case.passes)!FullMeansUntried

\* No interleaving of holds and refunds makes a balance negative, and alone they
\* leave the real one.
BalancesAreRight ==
  /\ part = "held" => Hold(Case.held)!QuotaHoldTypeOK /\ Hold(Case.held)!NeverNegative
  /\ part = "alone" => Hold(Case.alone)!RestIsReal

\* What can be used once is used once (a refresh token, the page of the day, the
\* first image of an account), and an account whose credential is good is neither
\* listed twice nor taken out of use.
GoodStay ==
  /\ part = "rotated" => /\ Credential(Case.rotated)!RotatingTypeOK
                         /\ Credential(Case.rotated)!SpentOnce
                         /\ Credential(Case.rotated)!LiveAccountLives
  /\ part = "once" => /\ Activation(Case.once)!ActivationTypeOK
                      /\ Activation(Case.once)!LoadedOncePerDay
  /\ part = "granted" => Activation(Case.granted)!GrantedBeforeUse
  /\ part = "serial" => /\ Import(Case.serial)!ImportTypeOK /\ Import(Case.serial)!FirstImageOnce
                        /\ Import(Case.serial)!OneRowPerEmail
                        /\ Import(Case.serial)!GoodNotSidelined
  /\ part = "swept" => Cookie(Case.swept)!CookieTypeOK /\ Cookie(Case.swept)!KilledInARow
  /\ part = "grok" => Balance(Case.grok)!BalanceSweepTypeOK

\* An account is left out, sunk, swept or killed for a reason that holds.
ForAReason ==
  [][/\ part = "passes" => Pass(Case.passes)!LeavesSpentOut
     /\ part = "sunk" => Hold(Case.sunk)!SinksTheShort
     /\ part = "swept" => Cookie(Case.swept)!SweepsTheEnabled
     /\ part = "dead" => Cookie(Case.dead)!KillsTheDead]_vars

\* Every generation ends.
EveryRequestEnds ==
  <>\A r \in {r1, r2} : /\ part = "queue" => req[r].pc = "ended"
                        /\ part = "passes" => passReq[r].pc = "ended"

\* What is waited for: the reset of an account, the new cookie to be saved, the page
\* of the day, the verdict on a row, the cookie to be found out or to work again.
Waiting ==
  \/ part \in {"daily", "bought", "recheck"} /\ holdStatus[1] = "quota"
  \/ part = "saved" /\ value # Credential(Case.saved)!Received /\ ~unreadable
  \/ part = "granted" /\ \E c \in {c1, c2, c3} : at[c].pc = "wait"
  \/ part = "landed" /\ \E i \in 1..2 : rows[i].status = "pending"
  \/ part = "found" /\ adobeRow.there /\ IF live = {} THEN ~adobeRow.dead ELSE adobeRow.status # "active"

\* An account that waits comes back, a dead one is found out, a pending row is
\* settled, a new cookie is saved: nothing and nobody waits for good.
AccountsComeBack == Waiting ~> ~Waiting

\* No account crowds another out of the balance sweep, once they are left alone.
EveryoneIsChecked ==
  <>[][part = "oreate" => ~\E a \in 1..2 : Balance(Case.oreate)!Change(a)]_vars
    => \A a \in 1..3 :
         []<>(/\ part = "grok" => a \in todo \/ ~Balance(Case.grok)!Watched(a)
              /\ part = "oreate" /\ a < 3 => a \in todo \/ ~Balance(Case.oreate)!Watched(a))
=============================================================================

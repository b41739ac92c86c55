----------------------------- MODULE GrokSigner -----------------------------
(***************************************************************************)
(* The anti-bot signature of grok requests (provider/grok: client.go,      *)
(* statsig_engine.go).  A signature needs the challenge of grok's homepage *)
(* and the signer found in its scripts; both change when grok ships a new  *)
(* build.  The process keeps one snapshot of the challenge and one signer, *)
(* refreshes them through a single flight when the snapshot is missing or  *)
(* old, and throws the snapshot away when a request is turned back as a    *)
(* bot.  Builds are numbered; the bytes of a signature are abstracted to   *)
(* the builds it was made from.                                            *)
(***************************************************************************)
EXTENDS Integers, FiniteSets

CONSTANTS
  Requests,
  MaxBuild,     \* bound on the builds grok ships
  MaxFailures,  \* bound on homepages that cannot be fetched
  MaxBots,      \* bound on signed requests turned back for their address
  StaticIsGood  \* grok still accepts the signature made from the defaults

\* What an instance must give the constants.
SignerAssumption ==
  /\ IsFiniteSet(Requests)
  /\ {MaxBuild, MaxFailures, MaxBots} \subseteq Nat /\ MaxBuild > 0
  /\ StaticIsGood \in BOOLEAN

VARIABLES
  build,     \* the build grok serves
  cache,     \* the stored challenge: its build, and whether its TTL is over
  engine,    \* the build whose signer is loaded, 0 before the first
  flight,    \* the refresh under way
  req,       \* where each request is, and what it signed with
  failures, bots,
  owed       \* history: requests that began after a challenge was thrown away, and no fetch has begun since

vars == <<build, cache, engine, flight, req, failures, bots, owed>>

NoCache == [build |-> 0, old |-> FALSE]
Idle == [pc |-> "idle", page |-> 0]

SignerTypeOK ==
  /\ build \in 1..MaxBuild /\ engine \in 0..MaxBuild
  /\ cache \in [build : 0..MaxBuild, old : BOOLEAN]
  /\ flight \in [pc : {"idle", "asked", "page", "engine"}, page : 0..MaxBuild]
  /\ req \in [Requests -> [pc : {"idle", "waiting", "ready", "sent"}, by : -1..MaxBuild]]
  /\ failures \in 0..MaxFailures /\ bots \in 0..MaxBots
  /\ owed \in BOOLEAN

Init ==
  /\ build = 1 /\ cache = NoCache /\ engine = 0 /\ flight = Idle
  /\ req = [r \in Requests |-> [pc |-> "idle", by |-> 0]]
  /\ failures = 0 /\ bots = 0 /\ owed = FALSE

loaded == cache.build # 0
Fresh == loaded /\ ~cache.old

\* A cold start waits for the first snapshot.
Waits == ~loaded

-----------------------------------------------------------------------------
\* beginStatsigChallengeRefresh: whoever asks while a refresh is under way
\* gets its result.
Joined == IF flight.pc = "idle" THEN [pc |-> "asked", page |-> 0] ELSE flight

\* ensureChallenge: a fresh snapshot is used; an old one too, while a
\* refresh runs; without one the request waits for the refresh.
ensureChallenge(r) ==
  /\ req[r].pc = "idle"
  /\ flight' = IF Fresh THEN flight ELSE Joined
  /\ req' = [req EXCEPT ![r] = [pc |-> IF Waits THEN "waiting" ELSE "ready", by |-> 0]]
  /\ UNCHANGED <<build, cache, engine, failures, bots, owed>>

\* fetchStatsigHomepage answers with the page of the build of that moment.
FetchPage ==
  /\ flight.pc = "asked"
  /\ flight' = [pc |-> "page", page |-> build]
  /\ owed' = FALSE
  /\ UNCHANGED <<build, cache, engine, req, failures, bots>>

\* ensureEngine: the signer of the page's build is located and loaded unless
\* it is the one loaded; when that fails the old signer stays.
ensureEngine ==
  /\ flight.pc = "page"
  /\ \E ok \in {TRUE} \cup (IF failures < MaxFailures THEN {FALSE} ELSE {}) :
       /\ engine' = IF ok THEN flight.page ELSE engine
       /\ failures' = IF ok \/ engine = flight.page THEN failures ELSE failures + 1
  /\ flight' = [flight EXCEPT !.pc = "engine"]
  /\ UNCHANGED <<build, cache, req, bots, owed>>

\* The flight has landed: those who waited go on.
Released == [r \in Requests |-> IF req[r].pc = "waiting" THEN [req[r] EXCEPT !.pc = "ready"] ELSE req[r]]

storeStatsigChallenge ==
  /\ flight.pc = "engine"
  /\ cache' = [build |-> flight.page, old |-> FALSE]
  /\ flight' = Idle /\ req' = Released
  /\ UNCHANGED <<build, engine, failures, bots, owed>>

RefreshFails ==
  /\ flight.pc = "asked" /\ failures < MaxFailures
  /\ failures' = failures + 1 /\ flight' = Idle /\ req' = Released
  /\ UNCHANGED <<build, cache, engine, bots, owed>>

\* statsigID: the signer runs on the stored challenge; without a challenge or
\* a signer the defaults of the program are signed with.
statsigID(r) ==
  /\ req[r].pc = "ready"
  /\ req' = [req EXCEPT ![r] = [pc |-> "sent", by |->
       IF loaded /\ engine # 0 THEN (IF engine = cache.build THEN engine ELSE -1) ELSE 0]]
  /\ UNCHANGED <<build, cache, engine, flight, failures, bots, owed>>

\* Grok accepts a signature made from its present build, by that build's signer.
Accepted(by) == by = build \/ (by = 0 /\ StaticIsGood)

\* Mutant of invalidateStatsigChallenge: a fresh snapshot is kept.
invalidateOldOnly == cache' = IF cache.old THEN NoCache ELSE cache

\* mapStatus: what is turned back as a bot throws the snapshot away.
invalidateStatsigChallenge == cache' = NoCache

Pass(r) ==
  /\ req[r].pc = "sent" /\ Accepted(req[r].by)
  /\ req' = [req EXCEPT ![r] = [pc |-> "idle", by |-> 0]]
  /\ UNCHANGED <<build, cache, engine, flight, failures, bots, owed>>

TurnedBack(r) ==
  /\ req[r].pc = "sent"
  /\ IF Accepted(req[r].by) THEN bots < MaxBots /\ bots' = bots + 1 ELSE bots' = bots
  /\ invalidateStatsigChallenge
  /\ owed' = (loaded \/ owed)
  /\ req' = [req EXCEPT ![r] = [pc |-> "idle", by |-> 0]]
  /\ UNCHANGED <<build, engine, flight, failures>>

-----------------------------------------------------------------------------
Reship == /\ build < MaxBuild /\ build' = build + 1
          /\ UNCHANGED <<cache, engine, flight, req, failures, bots, owed>>

TTLEnds == /\ Fresh /\ cache' = [cache EXCEPT !.old = TRUE]
           /\ UNCHANGED <<build, engine, flight, req, failures, bots, owed>>

Refresh == FetchPage \/ ensureEngine \/ storeStatsigChallenge \/ RefreshFails
Request(r) == ensureChallenge(r) \/ statsigID(r) \/ Pass(r) \/ TurnedBack(r)

Next == Refresh \/ Reship \/ TTLEnds \/ \E r \in Requests : Request(r)

Spec == Init /\ [][Next]_vars
FairSpec ==
  /\ Spec /\ WF_vars(FetchPage) /\ WF_vars(ensureEngine) /\ WF_vars(storeStatsigChallenge)
  /\ \A r \in Requests : WF_vars(Request(r)) /\ SF_vars(Pass(r))

-----------------------------------------------------------------------------
\* While the homepage answers, its build stays and nobody is turned back, no
\* request is signed with the defaults: a cold start waits for the snapshot.
ColdStartWaits ==
  \A r \in Requests :
    req[r].pc = "sent" /\ req[r].by = 0 => failures > 0 \/ bots > 0 \/ build > 1

\* Once a challenge has been thrown away, the next one stored is one that was
\* fetched after that.
NextIsFetchedAnew == owed => ~loaded

\* Refusals alone heal the process: when builds and troubles end, the
\* requests are in the end signed as grok wants it, whatever the TTL does.
Heals == <>[](\A r \in Requests : req[r].pc = "sent" => Accepted(req[r].by))
=============================================================================

----------------------------- MODULE MCClients -----------------------------
(***************************************************************************)
(* The clients of the providers, for TLC: what a generation makes of the   *)
(* answers of grok, krea, runway, imagine, leonardo, Oreate, Adobe and     *)
(* ChatGPT.  They share nothing, so that an instance is about one of them  *)
(* and the others rest.  The constants of each part come in a record.      *)
(***************************************************************************)
EXTENDS Integers

CONSTANTS
  r1, r2, a1, a2, a3,
  Case   \* for each part, the constants of its component

VARIABLES
  part,
  grokAcct, step, frame, tries, psErr, render, marked, barred, expired, grokHiccups,
  build, cache, engine, flight, req, failures, bots, owed,
  acct, at, outcome, refs, left, cred, job, paid, dead, quota, refused, ruined, hiccups, fails,
  pc, oreateAcct, cand, todo, err, oreateRounds, oreateRender, oreatePaid, oreateRefused,
  flagged, verdict, parked, sunk, oreateTroubles, flips,
  adobeAt, tried, temps, rounds, token, lapsed, told, adobeJob, adobePaid, adobeRefused,
  charged, cooled, limited, over, troubles,
  chatAt, chatTried, chatTemps, chatRounds, conv, pictures, gone, killed, chatLimited,
  final, text, chatOver, chatTroubles

-----------------------------------------------------------------------------
(* The cases.                                                              *)

GrokParts == {"video", "slow", "picture", "chat"}
SignerParts == {"cold", "builds"}
PolledParts == {"krea", "runway", "imagine", "leonardo"}
OreateParts == {"two", "poor", "lost"}
AdobeParts == {"drawn", "filmed", "transfers"}
ChatParts == {"image", "polled", "text"}
ClientParts == GrokParts \cup SignerParts \cup PolledParts \cup OreateParts \cup AdobeParts \cup ChatParts

\* Grok.  Everywhere the first account of a pool is of no use, the second has no credits.
MCVideo ==
  [last |-> 4, kind |-> "video", frames |-> 1, dead |-> {1}, spent |-> {2}, knowsUser |-> TRUE,
   slow |-> FALSE, maxHiccups |-> 3, mayExpire |-> FALSE]
MCSlow == [MCVideo EXCEPT !.last = 3, !.slow = TRUE, !.maxHiccups = 5, !.mayExpire = TRUE]
MCPicture ==
  [MCVideo EXCEPT !.kind = "image", !.frames = 0, !.knowsUser = FALSE, !.maxHiccups = 4, !.mayExpire = TRUE]
MCChat == [MCPicture EXCEPT !.kind = "chat"]

\* Two requests of a process that starts; and builds that follow one another.
MCCold == [requests |-> {"r1", "r2"}, maxBuild |-> 2, maxFailures |-> 1, maxBots |-> 1, staticIsGood |-> TRUE]
MCBuilds == [requests |-> {"r1"}, maxBuild |-> 3, maxFailures |-> 1, maxBots |-> 1, staticIsGood |-> FALSE]

\* The clients that poll a job.
AnyTrouble == {"net", "5xx", "busy", "junk", "empty"}
Repeatable == {"renew", "setup", "refs", "poll"}
AllPhases == {"renew", "setup", "refs", "submit", "poll", "download"}

MCKrea ==
  [client |-> "krea", last |-> 3, refs |-> 1, dead |-> {1}, spent |-> {}, budget |-> 5, headroom |-> 1,
   lead |-> 5, retryWindow |-> 3, troubles |-> AnyTrouble, troubled |-> Repeatable, maxHiccups |-> 3,
   maxFails |-> 1, slow |-> FALSE]
MCRunway ==
  [MCKrea EXCEPT !.client = "runway", !.last = 4, !.spent = {2}, !.refs = 2, !.troubles = {"net", "5xx", "junk"},
                 !.maxHiccups = 4]
MCImagine ==
  [MCKrea EXCEPT !.client = "imagine", !.refs = 0, !.spent = {2}, !.troubled = AllPhases, !.maxHiccups = 2,
                 !.maxFails = 2, !.slow = TRUE]
MCLeonardo ==
  [MCImagine EXCEPT !.client = "leonardo", !.refs = 1, !.budget = 4, !.lead = 1, !.retryWindow = 2,
                    !.maxHiccups = 1, !.maxFails = 1]

\* Oreate: two requests and two accounts, about which Oreate changes its mind.
MCTwo ==
  [reqs |-> {r1, r2}, accounts |-> {a1, a2}, conc |-> 1, browsers |-> 1, dead |-> {}, poor |-> {},
   spent |-> {}, references |-> FALSE, signTroubles |-> {"risk"}, readsFail |-> FALSE, lossy |-> FALSE,
   maxTroubles |-> 1, maxFlips |-> 2, maxRounds |-> 1]
\* One request and a pool with a poor and a spent account.
MCPoor ==
  [MCTwo EXCEPT !.reqs = {r1}, !.accounts = {a1, a2, a3}, !.poor = {a2}, !.spent = {a3},
                !.references = TRUE, !.maxTroubles = 2]
\* Two requests, streams that break and a browser that hangs.
MCLost ==
  [MCTwo EXCEPT !.dead = {a1}, !.signTroubles = {"risk", "timeout"}, !.lossy = TRUE, !.maxFlips = 0]

\* Adobe: pictures, some unsafe; clips; and clips whose references and results are slow to transfer.
MCDrawn ==
  [kind |-> "image", last |-> 3, refs |-> 2, expired |-> {1}, noCookie |-> {2}, spent |-> {}, samples |-> 3,
   uploadTries |-> 2, downloads |-> 3, maxTemp |-> 3, answers |-> {"net", "5xx", "load", "prompt", "other"},
   troubled |-> {"submit", "poll"}, unsafe |-> TRUE, maxTroubles |-> 4, maxLapses |-> 0, maxRounds |-> 2,
   slow |-> FALSE]
MCFilmed ==
  [MCDrawn EXCEPT !.kind = "video", !.expired = {1, 2}, !.spent = {3},
                  !.troubled = {"upload", "submit", "poll", "download"}, !.unsafe = FALSE, !.maxRounds = 0]
MCTransfers ==
  [MCDrawn EXCEPT !.kind = "video", !.expired = {1, 2}, !.noCookie = {}, !.answers = {"net", "5xx"},
                  !.troubled = {"upload", "download"}, !.maxTroubles = 2, !.maxRounds = 1, !.slow = TRUE]

\* ChatGPT: pictures, pictures that are waited for, texts.
ChatPhases == {"quota", "bootstrap", "require", "create", "raw", "process", "prepare", "start",
               "stream", "poll", "fetch", "resolve", "download", "settle"}
MCImage ==
  [kind |-> "image", last |-> 3, refs |-> 1, gone |-> {2}, left |-> <<1, 2, 0>>, polls |-> 2, maxTemp |-> 2,
   answers |-> {"net", "5xx", "junk", "edge", "odd"}, troubled |-> ChatPhases, audit |-> TRUE,
   maxTroubles |-> 2, maxRounds |-> 1, slow |-> TRUE]
MCPolled ==
  [MCImage EXCEPT !.last = 2, !.gone = {}, !.left = <<1, 2>>, !.polls = 3, !.maxTemp = 3,
                  !.answers = {"net", "5xx", "junk", "edge"}, !.troubled = {"stream", "poll", "fetch"},
                  !.maxRounds = 0]
MCText ==
  [MCImage EXCEPT !.kind = "text", !.refs = 0, !.gone = {1}, !.polls = 3, !.maxTemp = 3, !.audit = FALSE,
                  !.maxTroubles = 4, !.maxRounds = 0]

MCCases ==
  [video |-> MCVideo, slow |-> MCSlow, picture |-> MCPicture, chat |-> MCChat, cold |-> MCCold,
   builds |-> MCBuilds, krea |-> MCKrea, runway |-> MCRunway, imagine |-> MCImagine,
   leonardo |-> MCLeonardo, two |-> MCTwo, poor |-> MCPoor, lost |-> MCLost, drawn |-> MCDrawn,
   filmed |-> MCFilmed, transfers |-> MCTransfers, image |-> MCImage, polled |-> MCPolled, text |-> MCText]

-----------------------------------------------------------------------------
(* The components, for the constants of a case.                            *)

Grok(c) == INSTANCE GrokJobs WITH
  Last <- c.last, Kind <- c.kind, Frames <- c.frames, Dead <- c.dead, Spent <- c.spent,
  KnowsUser <- c.knowsUser, Slow <- c.slow, MaxHiccups <- c.maxHiccups, MayExpire <- c.mayExpire,
  acct <- grokAcct, hiccups <- grokHiccups

Signer(c) == INSTANCE GrokSigner WITH
  Requests <- c.requests, MaxBuild <- c.maxBuild, MaxFailures <- c.maxFailures, MaxBots <- c.maxBots,
  StaticIsGood <- c.staticIsGood

Polled(c) == INSTANCE PolledJobs WITH
  Client <- c.client, Last <- c.last, Refs <- c.refs, Dead <- c.dead, Spent <- c.spent,
  Budget <- c.budget, Headroom <- c.headroom, Lead <- c.lead, RetryWindow <- c.retryWindow,
  Troubles <- c.troubles, Troubled <- c.troubled, MaxHiccups <- c.maxHiccups, MaxFails <- c.maxFails,
  Slow <- c.slow

Oreate(c) == INSTANCE OreateJobs WITH
  Reqs <- c.reqs, Accounts <- c.accounts, Conc <- c.conc, Browsers <- c.browsers, Dead <- c.dead,
  Poor <- c.poor, Spent <- c.spent, References <- c.references, SignTroubles <- c.signTroubles,
  ReadsFail <- c.readsFail, Lossy <- c.lossy, MaxTroubles <- c.maxTroubles, MaxFlips <- c.maxFlips,
  MaxRounds <- c.maxRounds,
  acct <- oreateAcct, rounds <- oreateRounds, render <- oreateRender, paid <- oreatePaid,
  refused <- oreateRefused, troubles <- oreateTroubles

Adobe(c) == INSTANCE AdobeJobs WITH
  Kind <- c.kind, Last <- c.last, Refs <- c.refs, Expired <- c.expired, NoCookie <- c.noCookie,
  Spent <- c.spent, Samples <- c.samples, UploadTries <- c.uploadTries, Downloads <- c.downloads,
  MaxTemp <- c.maxTemp, Answers <- c.answers, Troubled <- c.troubled, Unsafe <- c.unsafe,
  MaxTroubles <- c.maxTroubles, MaxLapses <- c.maxLapses, MaxRounds <- c.maxRounds, Slow <- c.slow,
  at <- adobeAt, job <- adobeJob, paid <- adobePaid, refused <- adobeRefused

ChatGPT(c) == INSTANCE ChatGPTJobs WITH
  Kind <- c.kind, Last <- c.last, Refs <- c.refs, Gone <- c.gone, Left <- c.left, Polls <- c.polls,
  MaxTemp <- c.maxTemp, Answers <- c.answers, Troubled <- c.troubled, Audit <- c.audit,
  MaxTroubles <- c.maxTroubles, MaxRounds <- c.maxRounds, Slow <- c.slow,
  at <- chatAt, tried <- chatTried, temps <- chatTemps, rounds <- chatRounds, left <- pictures,
  limited <- chatLimited, over <- chatOver, troubles <- chatTroubles

ASSUME ClientsAssumption ==
  /\ \A p \in GrokParts : Grok(Case[p])!GrokAssumption
  /\ \A p \in SignerParts : Signer(Case[p])!SignerAssumption
  /\ \A p \in PolledParts : Polled(Case[p])!PolledAssumption
  /\ \A p \in OreateParts : Oreate(Case[p])!OreateAssumption
  /\ \A p \in AdobeParts : Adobe(Case[p])!AdobeAssumption
  /\ \A p \in ChatParts : ChatGPT(Case[p])!ChatGPTAssumption

\* What the properties of a part rest on.  Grok tells an account from the next, its render is
\* never late, and a download fails fewer times than it is tried.
Patient(c) == c.kind = "video" /\ c.knowsUser /\ ~c.slow /\ ~c.mayExpire /\ c.maxHiccups <= 3

\* A credential that has been looked at outlasts the context, and Runway limits no rate.
Lasting(c) == c.lead = c.budget /\ (c.client = "runway" => "busy" \notin c.troubles)

\* The work fits in its time, and no trouble strikes the submission or the download.
Prompt(c) ==
  /\ Lasting(c) /\ c.client \in {"krea", "imagine", "runway"}
  /\ ~c.slow /\ c.headroom < c.budget /\ c.troubled \cap {"submit", "download"} = {}

\* No render of Oreate's is lost under way, no balance unreadable, no browser late.
Steady(c) == ~c.lossy /\ ~c.readsFail /\ "timeout" \notin c.signTroubles

\* Tokens last, and only the submission and the poll break; or there is one pass over the pool
\* and no hurry; or only what is transferred breaks, and less often than it is tried.
Drawn(c) == c.maxLapses = 0 /\ {"upload", "download"} \cap c.troubled = {}
Filmed(c) == c.maxLapses = 0 /\ c.maxRounds = 0 /\ ~c.slow
Transferred(c) == c.maxLapses = 0 /\ {"submit", "poll"} \cap c.troubled = {} /\ c.maxTroubles < c.downloads

ASSUME PartsAssumption ==
  /\ Patient(Case.video) /\ \A p \in GrokParts \ {"chat"} : Case[p].kind \in {"video", "image"}
  /\ \A p \in PolledParts \ {"leonardo"} : Lasting(Case[p])
  /\ Prompt(Case.krea) /\ Prompt(Case.runway)
  /\ \A p \in {"runway", "leonardo"} : Case[p].client \in {"runway", "leonardo"}
  /\ Case.two.conc = 1 /\ Steady(Case.poor)
  /\ Drawn(Case.drawn) /\ Filmed(Case.filmed) /\ Transferred(Case.transfers)
  /\ "429" \notin Case.image.answers

-----------------------------------------------------------------------------
grokVars == <<grokAcct, step, frame, tries, psErr, render, marked, barred, expired, grokHiccups>>
signerVars == <<build, cache, engine, flight, req, failures, bots, owed>>
polledVars == <<acct, at, outcome, refs, left, cred, job, paid, dead, quota, refused, ruined,
                hiccups, fails>>
oreateVars == <<pc, oreateAcct, cand, todo, err, oreateRounds, oreateRender, oreatePaid, oreateRefused,
                flagged, verdict, parked, sunk, oreateTroubles, flips>>
adobeVars == <<adobeAt, tried, temps, rounds, token, lapsed, told, adobeJob, adobePaid, adobeRefused,
               charged, cooled, limited, over, troubles>>
chatVars == <<chatAt, chatTried, chatTemps, chatRounds, conv, pictures, gone, killed, chatLimited,
              final, text, chatOver, chatTroubles>>
vars == <<part, grokVars, signerVars, polledVars, oreateVars, adobeVars, chatVars>>

\* The case of part p, if that is about the component of parts; of q, in which the others rest.
Its(p, q, parts) == Case[IF p \in parts THEN p ELSE q]

ClientsInit ==
  \E p \in ClientParts :
    /\ part = p
    /\ Grok(Its(p, "video", GrokParts))!Init
    /\ Signer(Its(p, "cold", SignerParts))!Init
    /\ Polled(Its(p, "krea", PolledParts))!Init
    /\ p \notin PolledParts => cred = Case.krea.lead
    /\ Oreate(Its(p, "two", OreateParts))!Init
    /\ Adobe(Its(p, "filmed", AdobeParts))!Init
    /\ ChatGPT(Its(p, "image", ChatParts))!Init

\* The step A of the named part, in which the others rest.
OfGrok(p, A) == part = p /\ A /\ UNCHANGED <<part, signerVars, polledVars, oreateVars, adobeVars, chatVars>>
OfSigner(p, A) == part = p /\ A /\ UNCHANGED <<part, grokVars, polledVars, oreateVars, adobeVars, chatVars>>
OfPolled(p, A) == part = p /\ A /\ UNCHANGED <<part, grokVars, signerVars, oreateVars, adobeVars, chatVars>>
OfOreate(p, A) == part = p /\ A /\ UNCHANGED <<part, grokVars, signerVars, polledVars, adobeVars, chatVars>>
OfAdobe(p, A) == part = p /\ A /\ UNCHANGED <<part, grokVars, signerVars, polledVars, oreateVars, chatVars>>
OfChat(p, A) == part = p /\ A /\ UNCHANGED <<part, grokVars, signerVars, polledVars, oreateVars, adobeVars>>

ClientsNext ==
  \/ \E p \in GrokParts : OfGrok(p, Grok(Case[p])!Next)
  \/ \E p \in SignerParts : OfSigner(p, Signer(Case[p])!Next)
  \/ \E p \in PolledParts : OfPolled(p, Polled(Case[p])!Next)
  \/ \E p \in OreateParts : OfOreate(p, Oreate(Case[p])!Next)
  \/ \E p \in AdobeParts : OfAdobe(p, Adobe(Case[p])!Next)
  \/ \E p \in ChatParts : OfChat(p, ChatGPT(Case[p])!Next)

\* Fairness, as in the components.  A behaviour is of one part, so that conditions on
\* steps of different parts may be joined: here the k-th of each.
GoesOn(k) ==
  \/ k = 1 /\ (\/ OfGrok("slow", Grok(Case.slow)!Work)
               \/ OfSigner("builds", Signer(Case.builds)!FetchPage)
               \/ OfPolled("imagine", Polled(Case.imagine)!Work)
               \/ OfAdobe("transfers", Adobe(Case.transfers)!Work)
               \/ OfChat("polled", ChatGPT(Case.polled)!Work)
               \/ OfOreate("lost", Oreate(Case.lost)!Work(r1)))
  \/ k = 2 /\ (\/ OfGrok("slow", Grok(Case.slow)!Finish)
               \/ OfSigner("builds", Signer(Case.builds)!ensureEngine)
               \/ OfPolled("imagine", Polled(Case.imagine)!Minute)
               \/ OfAdobe("transfers", Adobe(Case.transfers)!Rendered)
               \/ OfOreate("lost", Oreate(Case.lost)!Work(r2)))
  \/ k = 3 /\ (\/ OfSigner("builds", Signer(Case.builds)!storeStatsigChallenge)
               \/ OfOreate("lost", Oreate(Case.lost)!Rendered(r1)))
  \/ k = 4 /\ (\/ OfSigner("builds", Signer(Case.builds)!Request("r1"))
               \/ OfOreate("lost", Oreate(Case.lost)!Rendered(r2)))

ClientsSpec == ClientsInit /\ [][ClientsNext]_vars

FairClientsSpec ==
  /\ ClientsSpec
  /\ \A k \in 1..4 : WF_vars(GoesOn(k))
  /\ SF_vars(OfSigner("builds", Signer(Case.builds)!Pass("r1")))

-----------------------------------------------------------------------------
\* Only an account whose session, token or credits are gone, or whose renewal was
\* lost or could not be read, is taken out of use,
\* and one that Oreate takes for a spam user is parked.
BlamedRightly ==
  /\ \A p \in GrokParts : part = p => Grok(Case[p])!GrokTypeOK /\ Grok(Case[p])!MarkedIsTrue
  /\ \A p \in PolledParts : part = p => Polled(Case[p])!PolledTypeOK
  /\ \A p \in PolledParts \ {"leonardo"} : part = p => Polled(Case[p])!MarkedIsTrue
  /\ part = "two" => Oreate(Case.two)!OreateTypeOK /\ Oreate(Case.two)!FlaggedIsParked
  /\ part = "poor" => Oreate(Case.poor)!SunkIsSpent
  /\ part = "filmed" => Adobe(Case.filmed)!ChargedIsHopeless
  /\ part = "drawn" => Adobe(Case.drawn)!AdobeTypeOK
  /\ part = "image" => ChatGPT(Case.image)!ChatGPTTypeOK /\ ChatGPT(Case.image)!MarkedIsTrue

\* A request is rendered once unless grok bars the account, a refused one is sent to no other account, and one
\* fails only when the pool has been tried or its time is over.
RenderedOnce ==
  /\ part = "video" => Grok(Case.video)!PaidOnce
  /\ \A p \in GrokParts \ {"chat"} : part = p => Grok(Case[p])!RefusedIsFinal
  /\ \A p \in {"krea", "runway"} : part = p => Polled(Case[p])!PaidOnce
  /\ \A p \in {"runway", "leonardo"} : part = p => Polled(Case[p])!RefusedIsFinal
  /\ part = "two" => Oreate(Case.two)!BrowsersBounded /\ Oreate(Case.two)!ParkedPoolIsTried
  /\ part = "poor" => /\ Oreate(Case.poor)!PaidOnce /\ Oreate(Case.poor)!RefusedIsFinal
                      /\ Oreate(Case.poor)!FailsAfterAll
  /\ part = "drawn" => /\ Adobe(Case.drawn)!RefusedIsFinal /\ Adobe(Case.drawn)!AllSamplesTaken
                       /\ Adobe(Case.drawn)!FailsAfterAll
  /\ part = "filmed" => Adobe(Case.filmed)!NoReplay
  /\ part = "transfers" => Adobe(Case.transfers)!PaidOnce
  /\ part = "image" => ChatGPT(Case.image)!PolicyIsFinal /\ ChatGPT(Case.image)!RefIsNotResult
  /\ part = "text" => ChatGPT(Case.text)!TextGiven /\ ChatGPT(Case.text)!FailsAfterAll
  /\ part = "cold" => Signer(Case.cold)!SignerTypeOK /\ Signer(Case.cold)!ColdStartWaits

\* Every generation is answered, a named conversation does not wait for its stream,
\* and is given up only after every poll, and refusals alone bring the process to
\* the build that grok serves.
EveryoneIsServed ==
  /\ [][part = "polled" => ChatGPT(Case.polled)!GivesUpLate]_vars
  /\ <>[](/\ part = "slow" => step \in {"done", "failed"}
          /\ part = "imagine" => outcome # "open"
          /\ part = "lost" => \A r \in {r1, r2} : pc[r] \in {"done", "failed"}
          /\ part = "transfers" => adobeAt.pc \in {"done", "failed"}
          /\ part = "polled" => ~(chatAt.pc = "stream" /\ chatAt.named)
          /\ part = "builds" => \A r \in {"r1"} : req[r].pc = "sent" => Signer(Case.builds)!Accepted(req[r].by))
=============================================================================

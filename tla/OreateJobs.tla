----------------------------- MODULE OreateJobs -----------------------------
(***************************************************************************)
(* OreateAI video requests (generateOreateVideo in service/v1.go and       *)
(* provider/oreate).  A request picks its candidates, and tries them one   *)
(* after the other: uploads, chat, a token signed by a browser of which    *)
(* two may run at a time, and the stream of the render.  A stream that     *)
(* breaks is followed by a look for the file it announced.  An account     *)
(* told to be a spam user is parked for a while.  An answer is the class   *)
(* of its code and text; holds on credits are QuotaHold's matter.          *)
(***************************************************************************)
EXTENDS Integers, FiniteSets

CONSTANTS
  Reqs, Accounts,
  Conc,         \* jobs an account may run at a time
  Browsers,     \* browsers the signer may run at a time
  Dead,         \* accounts whose cookie is gone
  Poor, Spent,  \* accounts short of this request's credits, of the floor
  References,   \* the request carries reference media
  SignTroubles, \* what can go wrong in the browser
  ReadsFail,    \* the balance read after a refusal may fail
  Lossy,        \* a stream may break before its start event, a render outlast
                \* the recovery window, a download fail
  MaxTroubles,  \* bounds on the passing troubles, on Oreate's changes of mind
  MaxFlips,     \* about an account, and on the rounds of a request
  MaxRounds

\* What an instance must give the constants.
OreateAssumption ==
  /\ IsFiniteSet(Reqs)
  /\ {Conc, Browsers} \subseteq Nat \ {0} /\ {MaxTroubles, MaxFlips, MaxRounds} \subseteq Nat
  /\ {Dead, Poor, Spent} \subseteq SUBSET Accounts
  /\ SignTroubles \subseteq {"risk", "timeout"}
  /\ {References, ReadsFail, Lossy} \subseteq BOOLEAN

VARIABLES
  pc,       \* where each request is
  acct,     \* the account each request holds a slot of
  cand,     \* the candidates it chose, and those left in this round
  todo,
  err,      \* the last error of the round
  rounds,
  render,   \* what Oreate has of the stream under way
  paid,     \* renders accepted for each request
  refused,  \* the content was refused
  flagged,  \* accounts Oreate takes for spam users
  verdict,  \* what Oreate last said of each account
  parked,   \* s.oreateSpam, while the window runs
  sunk,     \* accounts set to quota
  troubles, flips

vars == <<pc, acct, cand, todo, err, rounds, render, paid, refused, flagged, verdict, parked, sunk, troubles, flips>>
work == <<cand, rounds, flagged, flips>>

None == "none"
Phases == {"upload", "chat", "sign", "browser", "stream", "await", "download"}

OreateTypeOK ==
  /\ pc \in [Reqs -> {"new", "pick", "done", "failed"} \cup Phases]
  /\ acct \in [Reqs -> Accounts \cup {None}]
  /\ cand \in [Reqs -> SUBSET Accounts] /\ \A r \in Reqs : todo[r] \subseteq cand[r]
  /\ err \in [Reqs -> {"none", "temp", "auth", "quota", "plain"}]
  /\ rounds \in [Reqs -> 0..MaxRounds]
  /\ render \in [Reqs -> {"none", "hidden", "running", "made"}]
  /\ paid \in [Reqs -> Nat] /\ refused \in [Reqs -> BOOLEAN]
  /\ flagged \subseteq Accounts /\ parked \subseteq Accounts /\ sunk \subseteq Accounts
  /\ verdict \in [Accounts -> {"none", "ok", "spam"}]
  /\ troubles \in 0..MaxTroubles /\ flips \in 0..MaxFlips

Init ==
  /\ pc = [r \in Reqs |-> "new"] /\ acct = [r \in Reqs |-> None]
  /\ cand = [r \in Reqs |-> {}] /\ todo = cand
  /\ err = [r \in Reqs |-> "none"] /\ rounds = [r \in Reqs |-> 0]
  /\ render = [r \in Reqs |-> "none"] /\ paid = [r \in Reqs |-> 0]
  /\ refused = [r \in Reqs |-> FALSE] /\ flagged = {}
  /\ verdict = [a \in Accounts |-> "none"] /\ parked = {} /\ sunk = {}
  /\ troubles = 0 /\ flips = 0

-----------------------------------------------------------------------------
\* classifyUpstreamError and oreateErrClass: a spam user and a risk verdict
\* pass on to the next account, refused content does not.
classifyUpstreamError(ans) ==
  CASE ans \in {"spam", "risk", "busy", "net"} -> "temp"
    [] ans = "points" -> "quota"
    [] ans = "denied" -> "auth"
    [] OTHER -> "plain"

\* What a call of account a that is not the stream may be answered.
Calls(a) ==
  (IF a \in Dead THEN {"denied"} ELSE {"ok"}) \cup (IF troubles < MaxTroubles THEN {"net", "busy"} ELSE {})

\* What the stream may be answered.  A stream that breaks may have said
\* that the render has started, or not; the render runs in both cases.
Streams(a) ==
  (CASE a \in Dead -> {"denied"} [] a \notin Dead /\ a \in flagged -> {"spam"}
     [] a \notin Dead \cup flagged /\ a \in Poor \cup Spent -> {"points"} [] OTHER -> {"url", "content"})
  \cup (IF troubles < MaxTroubles THEN {"net", "busy", "risk"} ELSE {})
  \cup (IF troubles < MaxTroubles /\ a \notin Dead \cup flagged \cup Poor \cup Spent THEN {"cut"} \cup (IF Lossy THEN {"cutEarly"} ELSE {}) ELSE {})

Trouble(ans) == troubles' = IF ans \in {"net", "busy", "risk", "timeout", "cut", "cutEarly"} THEN troubles + 1 ELSE troubles

Goto(r, p) == pc' = [pc EXCEPT ![r] = p] /\ UNCHANGED <<acct, todo, err>>

\* tryAccount and the loop around it: the slot is given back, and the request
\* goes on with the next account or ends.
Leave(r, e) ==
  /\ acct' = [acct EXCEPT ![r] = None] /\ err' = [err EXCEPT ![r] = e]
  /\ pc' = [pc EXCEPT ![r] = IF e = "plain" THEN "failed" ELSE "pick"]
  /\ UNCHANGED todo

Step(r, ans, next) == IF ans = "ok" THEN Goto(r, next) ELSE Leave(r, classifyUpstreamError(ans))

-----------------------------------------------------------------------------
Selected(usable) == IF usable \subseteq parked THEN usable ELSE usable \ parked

\* ListByPool and dropOreateSpamQuarantined: parked accounts are left out,
\* unless all are.
Select(r) ==
  /\ pc[r] = "new"
  /\ LET chosen == Selected(Accounts \ sunk)
     IN  /\ cand' = [cand EXCEPT ![r] = chosen] /\ todo' = [todo EXCEPT ![r] = chosen]
         /\ pc' = [pc EXCEPT ![r] = IF chosen = {} THEN "failed" ELSE "pick"]
  /\ UNCHANGED <<acct, err, rounds, render, paid, refused, flagged, verdict, parked, sunk, troubles, flips>>

Busy(a) == Cardinality({q \in Reqs : acct[q] = a}) >= Conc

Pick(r) ==
  /\ pc[r] = "pick"
  /\ \E a \in todo[r] :
       /\ todo' = [todo EXCEPT ![r] = @ \ {a}]
       /\ IF Busy(a) THEN UNCHANGED <<pc, acct>>
            ELSE /\ acct' = [acct EXCEPT ![r] = a]
                 /\ pc' = [pc EXCEPT ![r] = IF References THEN "upload" ELSE "chat"]
  /\ UNCHANGED <<cand, err, rounds, render, paid, refused, flagged, verdict, parked, sunk, troubles, flips>>

\* The candidates are through: a temporary failure and a full pool start
\* another round, within the retry window and the queue wait.
RoundEnds(r) ==
  /\ pc[r] = "pick" /\ todo[r] = {}
  /\ \/ /\ err[r] \in {"temp", "none"} /\ (err[r] = "temp" => rounds[r] < MaxRounds)
        /\ rounds' = [rounds EXCEPT ![r] = IF err[r] = "temp" THEN @ + 1 ELSE @]
        /\ todo' = [todo EXCEPT ![r] = cand[r]] /\ err' = [err EXCEPT ![r] = "none"] /\ pc' = pc
     \/ /\ pc' = [pc EXCEPT ![r] = "failed"] /\ UNCHANGED <<rounds, todo, err>>
  /\ UNCHANGED <<acct, cand, render, paid, refused, flagged, verdict, parked, sunk, troubles, flips>>

uploadReferences(r) ==
  /\ pc[r] = "upload"
  /\ \E ans \in Calls(acct[r]) : Trouble(ans) /\ Step(r, ans, "chat")
  /\ UNCHANGED <<cand, rounds, render, paid, refused, flagged, verdict, parked, sunk, flips>>

createChat(r) ==
  /\ pc[r] = "chat"
  /\ \E ans \in Calls(acct[r]) : Trouble(ans) /\ Step(r, ans, "sign")
  /\ UNCHANGED <<cand, rounds, render, paid, refused, flagged, verdict, parked, sunk, flips>>

signSlot(r) ==
  /\ pc[r] = "sign" /\ Cardinality({q \in Reqs : pc[q] = "browser"}) < Browsers
  /\ Goto(r, "browser")
  /\ UNCHANGED <<cand, rounds, render, paid, refused, flagged, verdict, parked, sunk, troubles, flips>>

\* A report that fails is a risk verdict; a page that does not come, or does
\* not answer, is an error of the signer.
signOnce(r) ==
  /\ pc[r] = "browser"
  /\ \E ans \in {"ok"} \cup (IF troubles < MaxTroubles THEN SignTroubles ELSE {}) :
       Trouble(ans) /\ Step(r, ans, "stream")
  /\ UNCHANGED <<cand, rounds, render, paid, refused, flagged, verdict, parked, sunk, flips>>

\* parseVideoSSE: a stream cut after its start event is looked for by its id.
AfterCut(r, ans) == IF ans = "cut" THEN Goto(r, "await") ELSE Leave(r, "temp")

\* Mutant of quarantine: the account is not parked.
quarantineNone(a, ans) ==
  parked' = parked /\ verdict' = IF ans = "spam" THEN [verdict EXCEPT ![a] = "spam"] ELSE verdict

\* quarantineOreateSpamAccount; what Oreate has said of the account last.
quarantine(a, ans) ==
  /\ parked' = IF ans = "spam" THEN parked \cup {a} ELSE parked
  /\ verdict' = CASE ans = "spam" -> [verdict EXCEPT ![a] = "spam"]
                  [] ans \in {"url", "cut", "cutEarly"} -> [verdict EXCEPT ![a] = "ok"]
                  [] OTHER -> verdict

\* reconcileOreateCredits after a refusal for points: an account above the
\* floor keeps its status, one whose balance cannot be read does not.
Sinks(a) == a \in Spent \/ ReadsFail

streamVideo(r) ==
  LET a == acct[r] IN
  /\ pc[r] = "stream"
  /\ \E ans \in Streams(a) :
       /\ Trouble(ans) /\ quarantine(a, ans)
       /\ refused' = [refused EXCEPT ![r] = @ \/ ans = "content"]
       /\ sunk' = IF ans = "points" /\ Sinks(a) THEN sunk \cup {a} ELSE sunk
       /\ CASE ans \in {"url", "cut", "cutEarly"} ->
                 /\ paid' = [paid EXCEPT ![r] = @ + 1]
                 /\ render' = [render EXCEPT ![r] = IF ans = "url" THEN "made" ELSE "running"]
            [] OTHER -> UNCHANGED <<paid, render>>
       /\ CASE ans = "url" -> Goto(r, "download")
            [] ans \in {"cut", "cutEarly"} -> AfterCut(r, ans)
            [] OTHER -> Leave(r, classifyUpstreamError(ans))
  /\ UNCHANGED work

\* awaitVideoByLogID: the file is there, or the window ends.
VideoReady(r) ==
  /\ pc[r] = "await" /\ render[r] = "made" /\ Goto(r, "download")
  /\ UNCHANGED <<cand, rounds, render, paid, refused, flagged, verdict, parked, sunk, troubles, flips>>

RecoveryEnds(r) ==
  /\ pc[r] = "await" /\ render[r] = "running" /\ Lossy /\ Leave(r, "temp")
  /\ UNCHANGED <<cand, rounds, render, paid, refused, flagged, verdict, parked, sunk, troubles, flips>>

Unpark(a) == parked' = parked \ {a}

\* A success clears the account's quarantine.
downloadVideo(r) ==
  /\ pc[r] = "download"
  /\ \E ans \in {"ok"} \cup (IF troubles < MaxTroubles /\ Lossy THEN {"net"} ELSE {}) :
       /\ Trouble(ans)
       /\ IF ans = "ok"
            THEN /\ Unpark(acct[r]) /\ pc' = [pc EXCEPT ![r] = "done"]
                 /\ acct' = [acct EXCEPT ![r] = None] /\ UNCHANGED <<todo, err>>
            ELSE Leave(r, "temp") /\ UNCHANGED parked
  /\ UNCHANGED <<cand, rounds, render, paid, refused, flagged, sunk, flips, verdict>>

-----------------------------------------------------------------------------
Rendered(r) ==
  /\ render[r] = "running" /\ render' = [render EXCEPT ![r] = "made"]
  /\ UNCHANGED <<pc, acct, cand, todo, err, rounds, paid, refused, flagged, verdict, parked, sunk, troubles, flips>>

\* Oreate changes its mind about an account.
Flip(a) ==
  /\ flips < MaxFlips /\ flips' = flips + 1
  /\ flagged' = IF a \in flagged THEN flagged \ {a} ELSE flagged \cup {a}
  /\ UNCHANGED <<pc, acct, cand, todo, err, rounds, render, paid, refused, verdict, parked, sunk, troubles>>

\* The quarantine's window ends; the verdict is then of no account any more.
WindowEnds(a) ==
  /\ a \in parked /\ parked' = parked \ {a} /\ verdict' = [verdict EXCEPT ![a] = "none"]
  /\ UNCHANGED <<pc, acct, cand, todo, err, rounds, render, paid, refused, flagged, sunk, troubles, flips>>

Work(r) ==
  \/ Select(r) \/ Pick(r) \/ RoundEnds(r) \/ uploadReferences(r) \/ createChat(r) \/ signSlot(r)
  \/ signOnce(r) \/ streamVideo(r) \/ VideoReady(r) \/ RecoveryEnds(r) \/ downloadVideo(r)

Ended == (\A r \in Reqs : pc[r] \in {"done", "failed"}) /\ UNCHANGED vars

Next ==
  \/ \E r \in Reqs : Work(r) \/ Rendered(r)
  \/ \E a \in Accounts : Flip(a) \/ WindowEnds(a)
  \/ Ended

Spec == Init /\ [][Next]_vars
FairSpec == Spec /\ \A r \in Reqs : WF_vars(Work(r)) /\ WF_vars(Rendered(r))

-----------------------------------------------------------------------------
\* An account whose last verdict is that of a spam user is parked until the
\* window ends, whatever older jobs of it do meanwhile.
FlaggedIsParked == \A a \in Accounts : verdict[a] = "spam" => a \in parked

\* While some account is not parked, sunk or spent of it, a request finds
\* candidates; a pool that is parked as a whole is tried all the same.
ParkedPoolIsTried == \A r \in Reqs : pc[r] = "failed" /\ cand[r] = {} => sunk = Accounts

\* A cut stream does not make another account render the request.
PaidOnce == \A r \in Reqs : paid[r] <= 1

\* An account is set to quota only when it is below the floor: one that is
\* short of this request's credits may still serve a cheaper one.
SunkIsSpent == sunk \subseteq Spent

\* Refused content is not sent to another account.
RefusedIsFinal == \A r \in Reqs : refused[r] => pc[r] = "failed"

\* A request fails when its content is refused or its candidates are through,
\* not because one token could not be signed.
FailsAfterAll == \A r \in Reqs : pc[r] = "failed" => refused[r] \/ todo[r] = {}

\* No more browsers run than the signer allows.
BrowsersBounded == Cardinality({r \in Reqs : pc[r] = "browser"}) <= Browsers

\* Every request is answered.
Answered == \A r \in Reqs : <>(pc[r] \in {"done", "failed"})
=============================================================================

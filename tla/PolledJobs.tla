----------------------------- MODULE PolledJobs -----------------------------
(***************************************************************************)
(* One generation on a provider that is polled: krea, imagine, leonardo    *)
(* and runway (provider/<name>).  An attempt renews the credential, makes  *)
(* a project or a session, uploads the references, submits the job, polls  *)
(* it and downloads the result; the pool loop of service/v1.go takes the   *)
(* accounts one after the other.  Time is the minutes that the             *)
(* generation's context has left; an answer is the class of its status and *)
(* body.                                                                   *)
(***************************************************************************)
EXTENDS Integers, Sequences

CONSTANTS
  Client,      \* "krea", "imagine", "leonardo" or "runway"
  Last,        \* the accounts of the pool, tried in the order 1..Last
  Refs,        \* reference images of the request
  Dead, Spent, \* accounts whose credential is gone, whose credits are gone
  Budget,      \* minutes of the generation's context
  Headroom,    \* minutes pollImage leaves for the download
  Lead,        \* minutes a credential lasts at least when it has been looked at
  RetryWindow, \* tempRetryWindow, in minutes
  Troubles,    \* the passing troubles, and the phases they strike in
  Troubled,
  MaxHiccups,  \* bounds on the troubles and on the jobs that fail
  MaxFails,
  Slow         \* work may take longer than the context lasts

Accounts == 1..Last
Phases == {"renew", "setup", "refs", "submit", "poll", "download"}

\* What an instance must give the constants.
PolledAssumption ==
  /\ Client \in {"krea", "imagine", "leonardo", "runway"}
  /\ Last \in Nat \ {0} /\ (Client # "runway" => Last <= 3)  \* maxTempFailoverAccounts
  /\ {Refs, MaxHiccups, MaxFails, RetryWindow} \subseteq Nat
  /\ Dead \subseteq Accounts /\ Spent \subseteq Accounts
  /\ Budget \in Nat /\ Headroom \in 1..Budget /\ Lead \in 1..Budget
  /\ Troubles \subseteq {"net", "5xx", "busy", "junk", "empty"} /\ Troubled \subseteq Phases
  /\ Slow \in BOOLEAN

VARIABLES
  acct,     \* the account being tried
  at,       \* where its attempt is in Route
  outcome,  \* "open", "done" or "failed"
  refs,     \* references uploaded
  left,     \* minutes the context has left
  cred,     \* minutes the credential in use has left
  job,      \* the job of this attempt
  paid,     \* jobs accepted and not failed, of all attempts
  dead,     \* accounts disabled as dead
  quota,    \* accounts set to quota
  refused,  \* the provider has refused the request as such
  ruined,   \* accounts whose renewed session was lost, whose job was ended for its credits
  hiccups, fails

vars == <<acct, at, outcome, refs, left, cred, job, paid, dead, quota, refused, ruined,
          hiccups, fails>>

KreaRoute     == <<"renew", "setup", "refs", "submit", "poll", "download">>
ImagineRoute  == <<"renew", "submit", "poll", "download">>
LeonardoRoute == <<"setup", "refs", "submit", "poll", "download">>
RunwayRoute   == <<"refs", "setup", "submit", "poll", "download">>

Route == CASE Client = "krea" -> KreaRoute [] Client = "imagine" -> ImagineRoute
           [] Client = "leonardo" -> LeonardoRoute [] Client = "runway" -> RunwayRoute

In(phase) == outcome = "open" /\ Route[at] = phase

PolledTypeOK ==
  /\ acct \in Accounts /\ at \in 1..Len(Route)
  /\ outcome \in {"open", "done", "failed"}
  /\ refs \in 0..Refs /\ left \in 0..Budget /\ cred \in 0..(Budget + 1)
  /\ job \in {"none", "running", "made", "failed"} /\ paid \in Nat
  /\ {dead, quota, ruined} \subseteq SUBSET Accounts /\ refused \in BOOLEAN
  /\ hiccups \in 0..MaxHiccups /\ fails \in 0..MaxFails

\* What a request of the account may be answered in a phase.
Truth(phase) ==
  CASE phase # "renew" /\ (acct \in Dead \/ cred = 0) /\ phase # "download" -> "denied"
    [] phase = "renew" /\ acct \in Dead \cup ruined -> "denied"
    [] phase = "submit" /\ acct \in Spent -> "credit"
    [] OTHER -> "ok"

MayAnswer(phase) ==
  IF left = 0 THEN {"net"}
  ELSE {Truth(phase)}
       \cup (IF phase = "submit" /\ Truth(phase) = "ok" THEN {"other"} ELSE {})
       \cup (IF phase \in Troubled /\ hiccups < MaxHiccups THEN Troubles ELSE {})

Noted(ans) == hiccups' = IF left > 0 /\ ans \in Troubles THEN hiccups + 1 ELSE hiccups

-----------------------------------------------------------------------------
\* The verdicts of the calls.  "again" goes on polling.

\* krea and imagine: what is not an answer about the account is temporary.
apiPostP(ans) ==
  CASE ans = "ok" -> "ok" [] ans = "denied" -> "auth" [] ans = "credit" -> "quota" [] OTHER -> "temp"

\* Their renewal: a session that cannot be read counts as none.
refreshSession(ans) == IF ans \in {"junk", "empty"} THEN "auth" ELSE apiPostP(ans)

\* Leonardo names the reason in the errors of a 200: what is about neither the
\* account nor its tokens is the request's own fault.
graphql(ans) == IF ans = "other" THEN "plain" ELSE apiPostP(ans)

\* Runway: a rate limit counts as spent; the credits are found in the text.
apiJSON(ans) ==
  CASE ans = "ok" -> "ok"
    [] ans = "denied" -> "auth"
    [] ans \in {"busy", "credit"} -> "quota"
    [] ans \in {"5xx", "net", "junk", "empty"} -> "temp"
    [] OTHER -> "plain"

\* Krea tries to do without a project; the others need their session.
ensureProject(ans) ==
  CASE ans = "net" -> "temp" [] ans = "denied" -> "auth" [] OTHER -> "ok"

Call(phase, ans) ==
  CASE Client = "runway" -> apiJSON(ans)
    [] phase = "renew" -> refreshSession(ans)
    [] Client = "krea" /\ phase = "setup" -> ensureProject(ans)
    [] Client = "leonardo" /\ phase # "setup" -> graphql(ans)
    [] OTHER -> apiPostP(ans)

\* Mutant of KreaPoll: a lost poll gives up the job.
PollAbandons(ans) == IF ans = "denied" THEN "auth" ELSE IF ans \in {"net", "empty"} THEN "temp" ELSE "again"

\* Krea and imagine go on polling whatever comes, until the account is refused.
KreaPoll(ans) == IF ans = "denied" THEN "auth" ELSE "again"

\* Leonardo gives up a poll without an answer, and a job without a url.
LeonardoPoll(ans) ==
  IF ans = "denied" THEN "auth" ELSE IF ans \in {"net", "empty"} THEN "temp" ELSE "again"

RunwayPoll(ans) ==
  CASE ans = "empty" -> "plain" [] apiJSON(ans) = "temp" -> "again" [] OTHER -> apiJSON(ans)

PollTrouble(ans) ==
  CASE Client \in {"krea", "imagine"} -> KreaPoll(ans)
    [] Client = "leonardo" -> LeonardoPoll(ans)
    [] Client = "runway" -> RunwayPoll(ans)

\* A download's lost connection ends the request, but for runway.
downloadImage(ans) == CASE ans = "ok" -> "ok" [] ans = "net" -> "plain" [] OTHER -> "temp"
downloadArtifact(ans) == CASE ans = "ok" -> "ok" [] ans = "empty" -> "plain" [] OTHER -> "temp"
download(ans) == IF Client = "runway" THEN downloadArtifact(ans) ELSE downloadImage(ans)

-----------------------------------------------------------------------------
Begin(a) == acct' = a /\ at' = 1 /\ outcome' = "open"
Fails == acct' = acct /\ at' = at /\ outcome' = "failed"

waitTempRetry(err) == err = "temp" /\ Budget - left <= RetryWindow /\ left > 0

\* tryAccount under runPoolWithFailover: krea, imagine, leonardo.
PoolReact(err) ==
  /\ dead' = IF err = "auth" THEN dead \cup {acct} ELSE dead
  /\ quota' = IF err = "quota" THEN quota \cup {acct} ELSE quota
  /\ CASE err = "plain" -> Fails
       [] err # "plain" /\ acct < Last -> Begin(acct + 1)
       [] OTHER -> IF waitTempRetry(err) THEN Begin(1) ELSE Fails

\* generateRunwayVideo and generateRunwayImage: one pass, and an account
\* without credits counts as dead.
RunwayReact(err) ==
  /\ dead' = IF err \in {"auth", "quota"} THEN dead \cup {acct} ELSE dead
  /\ quota' = quota
  /\ IF err # "plain" /\ acct < Last THEN Begin(acct + 1) ELSE Fails

React(err) ==
  /\ IF Client = "runway" THEN RunwayReact(err) ELSE PoolReact(err)
  /\ refs' = 0 /\ job' = "none"

Onward == /\ at' = at + 1
          /\ UNCHANGED <<acct, outcome, refs, job, dead, quota>>

Init ==
  /\ acct = 1 /\ at = 1 /\ outcome = "open" /\ refs = 0 /\ left = Budget
  /\ cred \in Lead..(Budget + 1) /\ job = "none" /\ paid = 0
  /\ dead = {} /\ quota = {} /\ refused = FALSE /\ ruined = {}
  /\ hiccups = 0 /\ fails = 0

Renewed(phase) ==
  IF Route[1] = phase /\ Client # "runway" THEN cred' \in Lead..(Budget + 1) ELSE UNCHANGED cred

\* Krea and imagine renew a credential that is about to expire.  What has been
\* issued is lost with an answer that does not come or cannot be read.
RefreshIfNeeded ==
  /\ In("renew") /\ Renewed("renew")
  /\ \E ans \in MayAnswer("renew") :
       /\ Noted(ans)
       /\ IF Call("renew", ans) = "ok" THEN Onward ELSE React(Call("renew", ans))
       /\ \/ ans \notin {"junk", "empty"} /\ ruined' = ruined
          \/ ans \in {"junk", "empty", "net"} /\ ruined' = ruined \cup {acct}
  /\ UNCHANGED <<left, paid, refused, fails>>

\* Leonardo takes a session, cached or new, directly or through the proxy;
\* krea and runway make the project or the session of the job.
Setup ==
  /\ In("setup") /\ Renewed("setup")
  /\ \E ans \in MayAnswer("setup") :
       /\ Noted(ans)
       /\ IF Call("setup", ans) = "ok" THEN Onward ELSE React(Call("setup", ans))
  /\ UNCHANGED <<left, paid, refused, ruined, fails>>

uploadImage ==
  /\ In("refs") /\ refs < Refs
  /\ \E ans \in MayAnswer("refs") :
       /\ Noted(ans)
       /\ IF Call("refs", ans) = "ok"
            THEN refs' = refs + 1 /\ UNCHANGED <<acct, at, outcome, job, dead, quota>>
            ELSE React(Call("refs", ans))
  /\ UNCHANGED <<left, cred, paid, refused, ruined, fails>>

RefsDone ==
  /\ In("refs") /\ refs = Refs /\ Onward
  /\ UNCHANGED <<left, cred, paid, refused, ruined, hiccups, fails>>

\* The submission.  One that gets no answer may have been accepted.
submitGeneration ==
  /\ In("submit")
  /\ \E ans \in MayAnswer("submit") :
       /\ Noted(ans) /\ refused' = (refused \/ ans = "other")
       /\ CASE ans = "ok" -> /\ job' = "running" /\ paid' = paid + 1 /\ at' = at + 1
                             /\ UNCHANGED <<acct, outcome, refs, dead, quota>>
            [] ans \in {"net", "junk"} /\ Truth("submit") = "ok" ->
                 paid' \in {paid, paid + 1} /\ React(Call("submit", ans))
            [] OTHER -> paid' = paid /\ React(Call("submit", ans))
  /\ UNCHANGED <<left, cred, ruined, fails>>

\* A job of Runway's may have been ended for want of credits.
PollSees ==
  /\ In("poll") /\ left > 0 /\ Truth("poll") = "ok"
  /\ \/ job = "made" /\ Onward /\ ruined' = ruined
     \/ job = "failed" /\ React(IF Client = "runway" THEN "plain" ELSE "temp") /\ ruined' = ruined
     \/ job = "failed" /\ Client = "runway" /\ React("quota") /\ ruined' = ruined \cup {acct}
  /\ UNCHANGED <<left, cred, paid, refused, hiccups, fails>>

PollFails ==
  /\ In("poll")
  /\ \E ans \in MayAnswer("poll") \ {"ok"} :
       /\ ans = "empty" => job = "made"
       /\ Noted(ans)
       /\ IF PollTrouble(ans) = "again"
            THEN left > 0 /\ UNCHANGED <<acct, at, outcome, refs, job, dead, quota>>
            ELSE React(PollTrouble(ans))
  /\ UNCHANGED <<left, cred, paid, refused, ruined, fails>>

\* The poll's own deadline comes before the context's end; runway has none.
PollTimesOut ==
  /\ In("poll")
  /\ IF Client = "runway" THEN left = 0 /\ React("plain") ELSE left <= Headroom /\ React("temp")
  /\ UNCHANGED <<left, cred, paid, refused, ruined, hiccups, fails>>

fetchResult ==
  /\ In("download")
  /\ \E ans \in MayAnswer("download") :
       /\ Noted(ans)
       /\ IF download(ans) = "ok"
            THEN outcome' = "done" /\ UNCHANGED <<acct, at, refs, job, dead, quota>>
            ELSE React(download(ans))
  /\ UNCHANGED <<left, cred, paid, refused, ruined, fails>>

-----------------------------------------------------------------------------
Rendered ==
  /\ job = "running"
  /\ \/ job' = "made" /\ UNCHANGED <<fails, paid>>
     \/ fails < MaxFails /\ fails' = fails + 1 /\ job' = "failed" /\ paid' = paid - 1
  /\ UNCHANGED <<acct, at, outcome, refs, left, cred, dead, quota, refused, ruined, hiccups>>

\* Work that is not slow leaves the download its minutes.
InTime == left > Headroom + 1 \/ (Route[at] = "download" /\ left > 1)

Minute ==
  /\ outcome = "open" /\ left > 0 /\ (Slow \/ InTime)
  /\ left' = left - 1 /\ cred' = IF cred > 0 THEN cred - 1 ELSE 0
  /\ UNCHANGED <<acct, at, outcome, refs, job, paid, dead, quota, refused, ruined, hiccups,
                 fails>>

Work == \/ RefreshIfNeeded \/ Setup \/ uploadImage \/ RefsDone \/ submitGeneration
        \/ PollSees \/ PollFails \/ PollTimesOut \/ fetchResult
Ended == outcome # "open" /\ UNCHANGED vars

Next == Work \/ Rendered \/ Minute \/ Ended

Spec == Init /\ [][Next]_vars
FairSpec == Spec /\ WF_vars(Work) /\ WF_vars(Minute)

-----------------------------------------------------------------------------
\* Only an account whose credential is gone, or whose renewed session was lost
\* or unreadable, is disabled as dead, and only one without credits is set to
\* quota: not one whose access token ran out while its job was polled.  Runway
\* counts those without credits as dead.
MarkedIsTrue ==
  /\ dead \subseteq Dead \cup ruined \cup (IF Client = "runway" THEN Spent ELSE {})
  /\ quota \subseteq Spent

\* A passing trouble before the submission or during the poll does not make
\* another account render the same request, nor the same account twice.
PaidOnce == paid <= 1

\* A request the provider has refused as such is not sent to another account.
RefusedIsFinal == refused => outcome = "failed"

\* No job is submitted that cannot be polled any more.
SubmitsInTime == [][job' = "running" /\ job # "running" => left > Headroom]_vars

\* Every generation is answered.
Answered == <>(outcome # "open")
=============================================================================

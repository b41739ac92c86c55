----------------------------- MODULE AdobeJobs -----------------------------
(***************************************************************************)
(* One generation on Adobe (generateAdobeImage and generateAdobeVideo in   *)
(* service/v1.go, provider/adobe/client.go) over the accounts 1..Last: the *)
(* references are uploaded, the job is submitted, polled and downloaded.   *)
(* An access token that is refused is minted anew from the account's       *)
(* cookie, once per account and pass; a picture that comes out unsafe is   *)
(* sampled again.  An answer is the class of its status and body.          *)
(***************************************************************************)
EXTENDS Integers, FiniteSets

CONSTANTS
  Kind,         \* "image" or "video"
  Last, Refs,
  Expired,      \* accounts whose token, as listed, has run out
  NoCookie,     \* accounts whose cookie mints no token
  Spent,
  Samples,      \* generatedImageSafetyMaxAttempts
  UploadTries,  \* uploadMaxRetries
  Downloads,    \* attempts of the download
  MaxTemp,      \* maxTempFailoverAccounts
  Answers,      \* what else a call may be answered, and in which phases
  Troubled,
  Unsafe,       \* pictures may come out unsafe, jobs may fail
  MaxTroubles,  \* bounds on the troubles, on the tokens that run out under
  MaxLapses,    \* way, on the passes over the pool
  MaxRounds,
  Slow          \* the generation's context may end

Accounts == 1..Last
Phases == {"upload", "submit", "poll", "download"}

\* What an instance must give the constants.
AdobeAssumption ==
  /\ Kind \in {"image", "video"} /\ {Last, Samples, Downloads, MaxTemp} \subseteq Nat \ {0}
  /\ {Refs, UploadTries, MaxTroubles, MaxLapses, MaxRounds} \subseteq Nat
  /\ {Expired, NoCookie, Spent} \subseteq SUBSET Accounts /\ Troubled \subseteq Phases
  /\ Answers \subseteq {"net", "5xx", "load", "prompt", "other"} /\ {Unsafe, Slow} \subseteq BOOLEAN

VARIABLES
  at,       \* the attempt: account, phase, references uploaded, retries of the
            \* call, samples, whether its token was minted, the token in hand
  tried,    \* accounts of this pass
  temps,    \* tempDeadCount
  rounds,
  token,    \* the number of each account's newest token; 0 is the listed one
  lapsed,   \* tokens that have run out, and those Adobe has refused
  told,
  job,
  paid,     \* jobs accepted that have not failed
  refused,  \* why the request itself was refused
  charged,  \* accounts whose own failures were counted
  cooled,   \* accounts that were put back in the rotation
  limited,  \* accounts whose quota of this kind was marked
  over,     \* the generation's context has ended
  troubles

vars == <<at, tried, temps, rounds, token, lapsed, told, job, paid, refused, charged, cooled, limited, over, troubles>>

Fresh(a, tok, minted) ==
  [acct |-> a, pc |-> IF Refs > 0 THEN "upload" ELSE "submit", refs |-> 0, tries |-> 0,
   sample |-> 1, minted |-> minted, hand |-> tok]

Hand == <<at.acct, at.hand>>

AdobeTypeOK ==
  /\ at.acct \in Accounts /\ at.pc \in Phases \cup {"done", "failed"} /\ at.refs \in 0..Refs
  /\ at.tries \in 0..(UploadTries + Downloads) /\ at.sample \in 1..Samples /\ at.hand \in 0..token[at.acct]
  /\ tried \subseteq Accounts /\ temps \in 0..MaxTemp /\ rounds \in 0..MaxRounds
  /\ token \in [Accounts -> Nat] /\ told \subseteq lapsed
  /\ job \in {"none", "running", "made", "unsafe", "failed"} /\ paid \in Nat
  /\ refused \in {"no", "prompt", "other", "job", "unsafe"}
  /\ {charged, cooled, limited} \subseteq SUBSET Accounts
  /\ (job # "none" => at.pc \in {"poll", "download", "done", "failed"})

Init ==
  /\ at = Fresh(1, 0, FALSE) /\ tried = {1} /\ temps = 0 /\ rounds = 0
  /\ token = [a \in Accounts |-> 0] /\ lapsed = Expired \X {0} /\ told = {}
  /\ job = "none" /\ paid = 0 /\ refused = "no"
  /\ charged = {} /\ cooled = {} /\ limited = {} /\ over = FALSE /\ troubles = 0

-----------------------------------------------------------------------------
\* What a call of a phase may be answered.  The download needs no token, and
\* runs on when the context has ended.
Truth(phase) ==
  CASE phase = "download" -> "ok"
    [] phase # "download" /\ Hand \in lapsed -> "denied"
    [] phase = "submit" /\ Hand \notin lapsed /\ at.acct \in Spent -> "credit"
    [] OTHER -> "ok"

MayAnswer(phase) ==
  IF over /\ phase # "download" THEN {"net"}
  ELSE {Truth(phase)}
       \cup (IF phase \in Troubled /\ troubles < MaxTroubles
              THEN IF phase \in {"submit", "poll"} THEN Answers ELSE Answers \ {"prompt"} ELSE {})

Noted(ans) ==
  /\ troubles' = IF ans \in Answers /\ ~over THEN troubles + 1 ELSE troubles
  /\ told' = IF ans = "denied" THEN told \cup {Hand} ELSE told
  /\ refused' = IF ans \in {"prompt", "other"} /\ at.pc \in {"submit", "poll"} THEN ans ELSE refused

\* The classes of adobeErrClass.  A refusal of the content is the request's.
Classify(ans) ==
  CASE ans = "ok" -> "ok" [] ans = "denied" -> "auth" [] ans = "credit" -> "quota"
    [] ans \in {"net", "5xx", "load"} -> "temp" [] OTHER -> "plain"

submitVideo(ans) == Classify(ans)

\* pollImage does not tell a refused token from any other answer.
pollImage(ans) == IF ans = "denied" THEN "plain" ELSE Classify(ans)
pollVideo(ans) == Classify(ans)
Polled(ans) == IF Kind = "image" THEN pollImage(ans) ELSE pollVideo(ans)

-----------------------------------------------------------------------------
Fails == at' = [at EXCEPT !.pc = "failed"] /\ UNCHANGED <<tried, temps, rounds>>

\* waitTempRetry: another pass over the accounts as they were listed.
Again ==
  /\ ~over /\ rounds < MaxRounds /\ rounds' = rounds + 1
  /\ at' = Fresh(1, 0, FALSE) /\ tried' = {1} /\ temps' = 0

NextAccount(err) ==
  IF err = "temp" /\ temps + 1 >= MaxTemp THEN Again \/ Fails
  ELSE IF at.acct < Last
    THEN /\ at' = Fresh(at.acct + 1, 0, FALSE) /\ tried' = tried \cup {at.acct + 1}
         /\ temps' = (IF err = "temp" THEN temps + 1 ELSE temps) /\ UNCHANGED rounds
    ELSE (err = "temp" /\ Again) \/ Fails

Mintable == ~at.minted /\ at.acct \notin NoCookie /\ ~over

\* refreshAdobeToken, and the attempt starts over.
Mint ==
  /\ token' = [token EXCEPT ![at.acct] = @ + 1]
  /\ at' = Fresh(at.acct, token[at.acct] + 1, TRUE)
  /\ UNCHANGED <<tried, temps, rounds, charged, cooled, limited>>

Limit(err) == IF err = "quota" THEN limited \cup {at.acct} ELSE limited

\* tryAccount: what an error does to the account and to the request.
React(err) ==
  /\ job' = "none"
  /\ IF err = "auth" /\ Mintable THEN Mint
     ELSE /\ charged' = IF err \in {"auth", "quota"} THEN charged \cup {at.acct} ELSE charged
          /\ cooled' = IF err \in {"auth", "temp"} THEN cooled \cup {at.acct} ELSE cooled
          /\ limited' = Limit(err) /\ UNCHANGED token
          /\ IF err = "plain" THEN Fails ELSE NextAccount(err)

Stay == UNCHANGED <<tried, temps, rounds, token, charged, cooled, limited>>
Onward(a) == at' = a /\ Stay

\* GenerateImage: an unsafe picture is sampled again, in place.
Resample ==
  /\ job' = "none"
  /\ IF at.sample < Samples
       THEN Onward([at EXCEPT !.pc = "submit", !.sample = @ + 1]) /\ UNCHANGED refused
       ELSE refused' = "unsafe" /\ Fails /\ UNCHANGED <<token, charged, cooled, limited>>

-----------------------------------------------------------------------------
\* A failure that stays after the retries in place is not the account's.
uploadMediaOnce(ans) ==
  CASE ans = "ok" -> "ok" [] ans = "denied" -> "auth" [] Classify(ans) = "temp" -> "again" [] OTHER -> "plain"

UploadMedia ==
  /\ at.pc = "upload"
  /\ \E ans \in MayAnswer("upload") :
       /\ Noted(ans)
       /\ CASE uploadMediaOnce(ans) = "ok" ->
                 /\ Onward([at EXCEPT !.refs = @ + 1, !.tries = 0, !.pc = IF at.refs + 1 = Refs THEN "submit" ELSE "upload"])
                 /\ UNCHANGED job
            [] uploadMediaOnce(ans) = "again" /\ at.tries < UploadTries /\ ~over ->
                 Onward([at EXCEPT !.tries = @ + 1]) /\ UNCHANGED job
            [] OTHER -> React(IF ans = "denied" THEN "auth" ELSE "plain")
  /\ UNCHANGED <<paid, lapsed, over>>

\* submitImage and submitVideo.  A submission without an answer may have been
\* accepted.
Submit ==
  /\ at.pc = "submit"
  /\ \E ans \in MayAnswer("submit") :
       /\ Noted(ans)
       /\ CASE ans = "ok" -> /\ job' = "running" /\ paid' = paid + 1 /\ Onward([at EXCEPT !.pc = "poll"])
            [] ans = "net" /\ Truth("submit") = "ok" /\ ~over -> paid' \in {paid, paid + 1} /\ React("temp")
            [] OTHER -> UNCHANGED paid /\ React(submitVideo(ans))
  /\ UNCHANGED <<lapsed, over>>

PollSees ==
  /\ at.pc = "poll" /\ ~over /\ Truth("poll") = "ok"
  /\ CASE job = "made" -> Onward([at EXCEPT !.pc = "download"]) /\ UNCHANGED <<job, refused>>
       [] job = "unsafe" /\ Kind = "image" -> Resample
       [] job = "unsafe" /\ Kind = "video" -> refused' = "unsafe" /\ React("plain")
       [] job = "failed" -> refused' = "job" /\ React("plain")
       [] OTHER -> FALSE
  /\ UNCHANGED <<lapsed, told, paid, over, troubles>>

PollFails ==
  /\ at.pc = "poll"
  /\ \E ans \in MayAnswer("poll") \ {"ok"} : Noted(ans) /\ React(Polled(ans))
  /\ UNCHANGED <<lapsed, paid, over>>

\* The loop sees that its context has ended.
PollTimesOut ==
  /\ at.pc = "poll" /\ over /\ React("plain")
  /\ UNCHANGED <<lapsed, told, paid, refused, over, troubles>>

MoreDownloads == at.tries + 1 < Downloads

\* download and downloadOnce.
Download ==
  /\ at.pc = "download"
  /\ \E ans \in MayAnswer("download") :
       /\ Noted(ans)
       /\ CASE ans = "ok" -> Onward([at EXCEPT !.pc = "done"]) /\ UNCHANGED job
            [] Classify(ans) = "temp" /\ MoreDownloads -> Onward([at EXCEPT !.tries = @ + 1]) /\ UNCHANGED job
            [] OTHER -> React(Classify(ans))
  /\ UNCHANGED <<paid, lapsed, over>>

-----------------------------------------------------------------------------
Rendered ==
  /\ job = "running"
  /\ \/ job' = "made" /\ UNCHANGED paid
     \/ Unsafe /\ job' \in {"unsafe", "failed"} /\ paid' = paid - 1
  /\ UNCHANGED <<at, tried, temps, rounds, token, lapsed, told, refused, charged, cooled, limited, over, troubles>>

\* The token in hand runs out.
Lapse ==
  /\ at.pc \in Phases /\ Hand \notin lapsed /\ lapsed' = lapsed \cup {Hand}
  /\ Cardinality(lapsed \ (Expired \X {0})) < MaxLapses
  /\ UNCHANGED <<at, tried, temps, rounds, token, told, job, paid, refused, charged, cooled, limited, over, troubles>>

ContextEnds ==
  /\ Slow /\ ~over /\ at.pc \in Phases /\ over' = TRUE
  /\ UNCHANGED <<at, tried, temps, rounds, token, lapsed, told, job, paid, refused, charged, cooled, limited, troubles>>

Work == UploadMedia \/ Submit \/ PollSees \/ PollFails \/ PollTimesOut \/ Download
Ended == at.pc \in {"done", "failed"} /\ UNCHANGED vars

Next == Work \/ Rendered \/ Lapse \/ ContextEnds \/ Ended

Spec == Init /\ [][Next]_vars
FairSpec == Spec /\ WF_vars(Work) /\ WF_vars(Rendered)

-----------------------------------------------------------------------------
\* A request whose content or parameters Adobe refuses, or whose job fails, is
\* sent to no other account.
RefusedIsFinal == refused # "no" => at.pc = "failed"

\* A picture that came out unsafe ends the request only after all its samples.
AllSamplesTaken == refused = "unsafe" /\ Kind = "image" => at.sample = Samples

\* Failures are counted against accounts that cannot serve: no cookie, no
\* credits.  A token that ran out is not such a failure.
ChargedIsHopeless == charged \subseteq NoCookie \cup Spent /\ limited \subseteq Spent

\* A request ends without a picture only when it was refused, its time is over,
\* every account of the pass was tried, or the cap on failovers is reached.
FailsAfterAll ==
  at.pc = "failed" => refused # "no" \/ over \/ tried = Accounts \/ Cardinality(cooled) >= MaxTemp

\* A transient trouble of the download does not render the request again.
PaidOnce == paid <= 1

\* No token is sent again that Adobe has refused.
NoReplay == at.pc \in {"upload", "submit"} => Hand \notin told

\* A request whose own time is over puts no account back in the rotation.
SparedWhenOver == [][over => cooled' = cooled]_vars

\* Every generation is answered.
Answered == <>(at.pc \in {"done", "failed"})
=============================================================================

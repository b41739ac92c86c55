------------------------------ MODULE GrokJobs ------------------------------
(***************************************************************************)
(* One grok generation (provider/grok: video.go, image.go, chat.go) as the *)
(* pool loop of service/v1.go drives it: account after account, each with  *)
(* its uploads, its submission, the wait for the rendered asset and the    *)
(* download.  Grok charges an account for a render it has accepted, and    *)
(* keeps rendering when the stream of the answer is cut.  An answer is     *)
(* the class of its status and body; timers are abstracted to the fact     *)
(* that they have run out.                                                 *)
(***************************************************************************)
EXTENDS Integers, FiniteSets

CONSTANTS
  Last,        \* the accounts of the pool, tried in the order 1..Last
  Kind,        \* "video", "image" or "chat"
  Frames,      \* reference frames of the request
  Dead, Spent, \* accounts whose session is gone, whose credits are gone
  KnowsUser,   \* the created post names the user, so the asset's place is known
  Slow,        \* a render may take longer than waitForAsset waits
  MaxHiccups,  \* bound on the passing troubles of grok and of the network
  MayExpire    \* the generation's context may end

Accounts == 1..Last

\* What an instance must give the constants.
GrokAssumption ==
  /\ Last \in Nat \ {0} /\ Frames \in Nat /\ MaxHiccups \in Nat
  /\ Kind \in {"video", "image", "chat"}
  /\ Dead \subseteq Accounts /\ Spent \subseteq Accounts
  /\ {KnowsUser, Slow, MayExpire} \subseteq BOOLEAN

VARIABLES
  acct,     \* the account being tried
  step,     \* where its attempt is
  frame,    \* frames uploaded
  tries,    \* attempts made at the upload or download under way
  psErr,    \* what postStream said of the submission
  render,   \* per account, the render grok has accepted
  marked,   \* accounts whose verdict markTokenFailure has counted
  barred,   \* accounts refused while their asset was waited for
  expired,  \* the context has ended
  hiccups

vars == <<acct, step, frame, tries, psErr, render, marked, barred, expired, hiccups>>

Steps == {"upload", "post", "submit", "wait", "download", "done", "failed"}
Passing == {"net", "5xx", "busy", "challenge", "nonjson"}
Answers == Passing \cup {"ok", "denied", "credit", "other"}

GrokTypeOK ==
  /\ acct \in Accounts /\ step \in Steps
  /\ frame \in 0..Frames /\ tries \in 0..3
  /\ psErr \in {"ok", "temp", "auth", "quota", "plain"}
  /\ render \in [Accounts -> {"none", "declined", "running", "made", "refused"}]
  /\ {marked, barred} \subseteq SUBSET Accounts
  /\ expired \in BOOLEAN /\ hiccups \in 0..MaxHiccups

\* What an account's requests may be answered: the truth about the account,
\* or a passing trouble, or nothing at all once the context has ended.
MayAnswer(a) ==
  IF expired THEN {"net"}
  ELSE (IF a \in Dead THEN {"denied"} ELSE {"ok"})
       \cup (IF hiccups < MaxHiccups THEN Passing ELSE {})

Noted(ans) == hiccups' = IF ans \in Passing /\ ~expired THEN hiccups + 1 ELSE hiccups

-----------------------------------------------------------------------------
isBotChallenge(ans) == ans = "challenge"
isCreditError(ans) == ans = "credit"

\* A 403 that is a challenge page is the network's trouble, a 429 that names
\* no credits is a rate limit: neither says anything of the account.
mapStatus(ans) ==
  CASE ans = "ok" -> "ok"
    [] isBotChallenge(ans) \/ ans \in {"5xx", "busy"} -> "temp"
    [] ans = "denied" -> "auth"
    [] isCreditError(ans) -> "quota"
    [] OTHER -> "plain"

\* doPost and its callers: what is not an answer is temporary.
postJSON(ans) == IF ans \in {"net", "nonjson"} THEN "temp" ELSE mapStatus(ans)

\* A download is never a verdict on the account.
downloadOnce(ans) == IF ans = "ok" THEN "ok" ELSE "temp"

\* generateGrokVideo, generateGrokImage: a verdict is counted against the account, a
\* temporary failure passes on to the next one, anything else ends the
\* generation.
React(err) ==
  /\ marked' = IF err \in {"auth", "quota"} THEN marked \cup {acct} ELSE marked
  /\ IF err # "plain" /\ acct < Last
       THEN acct' = acct + 1 /\ step' = "upload"
       ELSE acct' = acct /\ step' = "failed"
  /\ frame' = 0 /\ tries' = 0

Goes(to) == step' = to /\ tries' = 0 /\ UNCHANGED <<acct, marked>>

Init ==
  /\ acct = 1 /\ step = "upload" /\ frame = 0 /\ tries = 0 /\ psErr = "ok"
  /\ render = [a \in Accounts |-> "none"]
  /\ marked = {} /\ barred = {} /\ expired = FALSE /\ hiccups = 0

\* The context can end while an upload or a download waits to be tried again.
BackoffEnds ==
  /\ step \in {"upload", "download"} /\ tries > 0 /\ expired
  /\ React("plain") /\ UNCHANGED <<psErr, render, barred, expired, hiccups>>

uploadImage ==
  /\ step = "upload" /\ Kind = "video" /\ frame < Frames /\ (expired => tries = 0)
  /\ \E ans \in MayAnswer(acct) :
       LET err == postJSON(ans)
       IN  /\ Noted(ans)
           /\ CASE err = "ok" -> frame' = frame + 1 /\ Goes("upload")
                [] err = "temp" /\ tries < 3 ->
                     tries' = tries + 1 /\ UNCHANGED <<acct, step, frame, marked>>
                [] OTHER -> React(err)
  /\ UNCHANGED <<psErr, render, barred, expired>>

UploadsDone ==
  /\ step = "upload" /\ (Kind = "video" => frame = Frames)
  /\ Goes(IF Kind = "video" THEN "post" ELSE "submit")
  /\ UNCHANGED <<frame, psErr, render, barred, expired, hiccups>>

createPost ==
  /\ step = "post"
  /\ \E ans \in MayAnswer(acct) :
       /\ Noted(ans)
       /\ IF postJSON(ans) = "ok" THEN Goes("submit") /\ frame' = frame
                                  ELSE React(postJSON(ans))
  /\ UNCHANGED <<psErr, render, barred, expired>>

\* What the body of the submission's answer can hold.  A dead account is
\* refused, a spent one is told so in the stream, and the stream of a render
\* may be cut before or after the artifact.  A request that gets no answer
\* may have been accepted; a parameter grok does not know is declined.
Bodies(a) ==
  IF expired \/ a \in Dead THEN [ans : MayAnswer(a), body : {""}]
  ELSE [ans : {"other"}, body : {""}]
       \cup [ans : {"ok"}, body : IF a \in Spent THEN {"exhausted"} ELSE {"artifact", "started", "fatal"}]
       \cup (IF a \in Spent THEN [ans : {"credit"}, body : {""}] ELSE {})
       \cup (IF hiccups < MaxHiccups
               THEN [ans : Passing \ {"nonjson"}, body : {""}]
                    \cup (IF a \in Spent THEN {} ELSE [ans : {"net"}, body : {"artifact", "started"}])
               ELSE {})

\* GenerateVideo waits for the asset whenever no artifact has come.
VideoNext(err, body) ==
  CASE body = "exhausted" -> React("quota")
    [] body # "exhausted" /\ err \in {"auth", "quota"} -> React(err)
    [] body = "fatal" -> React("plain")
    [] body = "artifact" -> Goes("download") /\ frame' = frame
    [] OTHER -> IF KnowsUser THEN Goes("wait") /\ frame' = frame
                             ELSE React(IF err = "ok" THEN "temp" ELSE err)

\* GenerateImage: an answer without a finished image is temporary; a
\* moderated image counts as none.
ImageNext(err, body) ==
  CASE body = "exhausted" -> React("quota")
    [] body # "exhausted" /\ err \in {"auth", "quota"} -> React(err)
    [] body = "artifact" -> Goes("download") /\ frame' = frame
    [] body = "fatal" -> React("plain")
    [] OTHER -> React(IF err = "ok" THEN "temp" ELSE err)

\* GenerateText: the text that has come is the result.
ChatNext(err, body) ==
  CASE body = "exhausted" -> React("quota")
    [] body # "exhausted" /\ err \in {"auth", "quota"} -> React(err)
    [] body = "artifact" -> Goes("done") /\ frame' = frame
    [] OTHER -> React(IF err = "ok" THEN "temp" ELSE err)

submit ==
  /\ step = "submit"
  /\ \E b \in Bodies(acct) :
       LET err == IF b.ans \in {"net", "nonjson"} THEN "temp" ELSE mapStatus(b.ans)
       IN  /\ Noted(b.ans) /\ psErr' = err
           /\ render' = [render EXCEPT ![acct] =
                CASE b.body = "artifact" -> "made" [] b.body = "started" -> "running"
                  [] b.body = "fatal" -> "refused" [] b.ans # "net" -> "declined" [] OTHER -> @]
           /\ CASE Kind = "video" -> VideoNext(err, b.body)
                [] Kind = "image" -> ImageNext(err, b.body)
                [] Kind = "chat" -> ChatNext(err, b.body)
  /\ UNCHANGED <<barred, expired>>

\* waitForAsset: 404 and every trouble mean still rendering; a refusal of the
\* account ends the attempt, the end of the context the generation.
AssetReady ==
  /\ step = "wait" /\ ~expired /\ render[acct] = "made" /\ acct \notin Dead
  /\ Goes("download") /\ UNCHANGED <<frame, psErr, render, barred, expired, hiccups>>

\* A session may end, or be refused, after its submission was accepted.
AssetDenied ==
  /\ step = "wait" /\ ~expired /\ React("auth") /\ barred' = barred \cup {acct}
  /\ UNCHANGED <<psErr, render, expired, hiccups>>

AssetContextEnds ==
  /\ step = "wait" /\ expired
  /\ React("plain") /\ UNCHANGED <<psErr, render, barred, expired, hiccups>>

AssetTimesOut ==
  /\ step = "wait" /\ (render[acct] = "running" => Slow) /\ render[acct] # "made"
  /\ React(IF psErr = "ok" THEN "temp" ELSE psErr)
  /\ UNCHANGED <<psErr, render, barred, expired, hiccups>>

download ==
  /\ step = "download" /\ (expired => tries = 0)
  /\ \E ans \in MayAnswer(acct) :
       /\ Noted(ans)
       /\ CASE downloadOnce(ans) = "ok" -> Goes("done") /\ frame' = frame
            [] downloadOnce(ans) # "ok" /\ tries < 3 ->
                 tries' = tries + 1 /\ UNCHANGED <<acct, step, frame, marked>>
            [] OTHER -> React(downloadOnce(ans))
  /\ UNCHANGED <<psErr, render, barred, expired>>

-----------------------------------------------------------------------------
\* Grok renders on, whether anybody listens or not.
Finish ==
  /\ \E a \in Accounts : render[a] = "running" /\ render' = [render EXCEPT ![a] = "made"]
  /\ UNCHANGED <<acct, step, frame, tries, psErr, marked, barred, expired, hiccups>>

ContextEnds ==
  /\ MayExpire /\ ~expired /\ step \notin {"done", "failed"} /\ expired' = TRUE
  /\ UNCHANGED <<acct, step, frame, tries, psErr, render, marked, barred, hiccups>>

Work == \/ BackoffEnds \/ uploadImage \/ UploadsDone \/ createPost \/ submit
        \/ AssetReady \/ AssetDenied \/ AssetContextEnds \/ AssetTimesOut \/ download
Ended == step \in {"done", "failed"} /\ UNCHANGED vars

Next == Work \/ Finish \/ ContextEnds \/ Ended

Spec == Init /\ [][Next]_vars
FairSpec == Spec /\ WF_vars(Work) /\ WF_vars(Finish)

-----------------------------------------------------------------------------
Charged == {a \in Accounts : render[a] \in {"running", "made"}}

\* A failure is counted against an account for its session or its credits only,
\* never for a challenge page, a rate limit or a failed download.
MarkedIsTrue == marked \subseteq Dead \cup Spent \cup barred

\* A stream that is cut is not a reason to have another account render the clip
\* again: two renders take an account that was refused while it was waited for.
PaidOnce == Cardinality(Charged \ barred) <= 1

\* A request is rendered on one account at most.
RendersOnce == Cardinality(Charged) <= 1

\* What grok has refused as such is not sent to another account.
RefusedIsFinal == \A a \in Accounts : render[a] = "refused" => acct = a

\* The asset is waited for only when the stream of an accepted submission
\* has ended without it.
WaitsForAStream == step = "wait" => render[acct] # "declined"

\* Every generation is answered.
Answered == <>(step \in {"done", "failed"})
=============================================================================

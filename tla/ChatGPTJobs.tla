---------------------------- MODULE ChatGPTJobs ----------------------------
(***************************************************************************)
(* One generation on ChatGPT over the accounts 1..Last: a picture          *)
(* (generateChatGPTImage in service/v1.go) or a text (the loop of          *)
(* prepareChatCompletion), by the calls of provider/chatgpt/client.go.  A     *)
(* submission opens a conversation; the stream that answers it only has to *)
(* name it, the picture is then found by polling the conversation.  An     *)
(* answer of a call is the class of its status and body.                   *)
(***************************************************************************)
EXTENDS Integers, FiniteSets

CONSTANTS
  Kind,        \* "image" or "text"
  Last, Refs,
  Gone,        \* accounts whose token ChatGPT no longer takes
  Left,        \* the pictures each account may still make
  Polls,       \* polls that fit in pollBudget; fetches of a text
  MaxTemp,     \* maxTempFailoverAccounts
  Answers,     \* what else a call may be answered, and in which phases
  Troubled,
  Audit,       \* the prompt may be refused
  MaxTroubles, \* bounds on the troubles and on the passes over the pool
  MaxRounds,
  Slow         \* tokens and the generation's context may end

Accounts == 1..Last
Calls == {"quota", "bootstrap", "require", "create", "raw", "process", "prepare", "start",
          "poll", "fetch", "resolve", "download", "settle"}
Phases == Calls \cup {"stream"}

\* What an instance must give the constants.
ChatGPTAssumption ==
  /\ Kind \in {"image", "text"} /\ {Last, Polls, MaxTemp} \subseteq Nat \ {0}
  /\ {Refs, MaxTroubles, MaxRounds} \subseteq Nat /\ Gone \subseteq Accounts /\ Left \in [Accounts -> Nat]
  /\ Answers \subseteq {"net", "5xx", "junk", "edge", "429", "odd"} /\ Troubled \subseteq Phases
  /\ {Audit, Slow} \subseteq BOOLEAN

VARIABLES
  at,       \* the attempt: account, phase, references uploaded, polls or tries,
            \* whether the conversation is named, ids collected
  tried,    \* accounts of this pass
  temps,    \* tempDeadCount
  rounds,
  conv,     \* the attempt's conversation at ChatGPT
  left,     \* pictures each account may still make
  gone,
  killed,   \* accounts that were disabled, and those set to quota
  limited,
  final,    \* why the request itself was refused
  text,     \* the text that was returned
  over,     \* the generation's context has ended
  troubles

vars == <<at, tried, temps, rounds, conv, left, gone, killed, limited, final, text, over, troubles>>

Fresh(a) ==
  [acct |-> a, pc |-> IF Kind = "image" THEN "quota" ELSE "bootstrap",
   refs |-> 0, n |-> 0, named |-> FALSE, ids |-> {}]

Ids == ({"reference"} \X (1..Refs)) \cup {<<"picture", 1>>}

ChatGPTTypeOK ==
  /\ at.acct \in Accounts /\ at.pc \in Phases \cup {"done", "failed"} /\ at.refs \in 0..Refs
  /\ at.n \in 0..Polls /\ at.named \in BOOLEAN /\ at.ids \subseteq Ids
  /\ tried \subseteq Accounts /\ temps \in 0..MaxTemp /\ rounds \in 0..MaxRounds
  /\ conv \in {"none", "working", "partly", "made", "refused"}
  /\ left \in [Accounts -> Nat] /\ {gone, killed, limited} \subseteq SUBSET Accounts
  /\ final \in {"no", "policy", "odd", "unnamed"} /\ text \in {"none", "partly", "made"}
  /\ over \in BOOLEAN /\ troubles \in 0..MaxTroubles
  /\ (at.pc \in {"poll", "fetch", "resolve", "download"} => at.named)

Init ==
  /\ at = Fresh(1) /\ tried = {1} /\ temps = 0 /\ rounds = 0 /\ conv = "none" /\ left = Left
  /\ gone = Gone /\ killed = {} /\ limited = {} /\ final = "no" /\ text = "none"
  /\ over = FALSE /\ troubles = 0

-----------------------------------------------------------------------------
\* The front page and the blob host see no token.  A token that is not taken
\* is answered 401, or 403 with an explicit marker.
Truth(phase) == IF phase \notin {"bootstrap", "raw"} /\ at.acct \in gone THEN {"401", "invalid"} ELSE {"ok"}

MayAnswer(phase) ==
  IF over THEN {"net"}
  ELSE Truth(phase) \cup (IF phase \in Troubled /\ troubles < MaxTroubles THEN Answers ELSE {})

Noted(ans) == troubles' = IF ans \in Answers /\ ~over THEN troubles + 1 ELSE troubles

\* ensureOK, and a body that cannot be read.  A 403 is the edge's unless it
\* says that the token is invalid.
ensureOK(phase, ans) ==
  CASE ans = "ok" -> "ok"
    [] ans = "401" \/ (ans = "invalid" /\ phase # "bootstrap") -> "auth"
    [] ans = "429" -> "quota"
    [] ans \in {"net", "5xx", "junk", "edge"} \/ (ans = "invalid" /\ phase = "bootstrap") -> "temp"
    [] OTHER -> "plain"

-----------------------------------------------------------------------------
Fails == at' = [at EXCEPT !.pc = "failed"] /\ UNCHANGED <<tried, temps, rounds>>

Again ==
  /\ ~over /\ rounds < MaxRounds /\ rounds' = rounds + 1
  /\ at' = Fresh(1) /\ tried' = {1} /\ temps' = 0

\* Pictures go over the pool under the cap of failovers, in several passes;
\* texts go over it once.
NextAccount(err) ==
  IF Kind = "image" /\ err = "temp" /\ temps + 1 >= MaxTemp THEN Again \/ Fails
  ELSE IF at.acct < Last
    THEN /\ at' = Fresh(at.acct + 1) /\ tried' = tried \cup {at.acct + 1}
         /\ temps' = (IF Kind = "image" /\ err = "temp" THEN temps + 1 ELSE temps) /\ UNCHANGED rounds
    ELSE (Kind = "image" /\ err = "temp" /\ Again) \/ Fails

Failovers == {"auth", "quota", "temp"}

\* What an error does to the account and to the request.
React(err) ==
  /\ conv' = "none"
  /\ killed' = (IF err = "auth" THEN killed \cup {at.acct} ELSE killed)
  /\ limited' = (IF err = "quota" THEN limited \cup {at.acct} ELSE limited)
  /\ final' = (IF err \in {"policy", "unnamed"} THEN err ELSE IF err = "plain" THEN "odd" ELSE final)
  /\ IF err \in Failovers THEN NextAccount(err) ELSE Fails
  /\ UNCHANGED text

Stay == UNCHANGED <<tried, temps, rounds, conv, killed, limited, final, text>>
Onward(pc) == at' = [at EXCEPT !.pc = pc] /\ Stay

Rest == UNCHANGED <<left, gone, over>>

\* A call that goes on when it succeeds, and ends the attempt when it fails.
Step(phase, pc) ==
  /\ at.pc = phase
  /\ \E ans \in MayAnswer(phase) :
       Noted(ans) /\ IF ans = "ok" THEN Onward(pc) ELSE React(ensureOK(phase, ans))
  /\ Rest

-----------------------------------------------------------------------------
\* An account with no pictures left is not asked for one; an allowance that
\* cannot be read stops nothing.
fetchImageQuota ==
  /\ at.pc = "quota"
  /\ \E ans \in MayAnswer("quota") :
       Noted(ans) /\ IF ans = "ok" /\ left[at.acct] = 0 THEN React("quota") ELSE Onward("bootstrap")
  /\ Rest

bootstrap == Step("bootstrap", "require")
getChatRequirements == Step("require", IF Kind = "image" /\ Refs > 0 THEN "create" ELSE "prepare")
createFileEntry == Step("create", "raw")
uploadRawFile == Step("raw", "process")

processUploadStream ==
  /\ at.pc = "process"
  /\ \E ans \in MayAnswer("process") :
       /\ Noted(ans)
       /\ IF ans = "ok"
            THEN at' = [at EXCEPT !.refs = @ + 1, !.pc = IF at.refs + 1 = Refs THEN "prepare" ELSE "create"] /\ Stay
            ELSE React(ensureOK("process", ans))
  /\ Rest

prepareConversation == Step("prepare", "start")

startConversation ==
  /\ at.pc = "start"
  /\ \E ans \in MayAnswer("start") :
       /\ Noted(ans)
       /\ IF ans = "ok"
            THEN /\ at' = [at EXCEPT !.pc = "stream"] /\ conv' = "working"
                 /\ UNCHANGED <<tried, temps, rounds, killed, limited, final, text>>
            ELSE React(ensureOK("start", ans))
  /\ Rest

\* What a conversation shows: the references it was opened with, its picture.
Shown == ({"reference"} \X (1..at.refs)) \cup (IF conv = "made" THEN {<<"picture", 1>>} ELSE {})

\* uploadedRefIDSet and dropIDs.
dropIDs(ids) == ids \ ({"reference"} \X (1..at.refs))

StreamNames ==
  /\ at.pc = "stream" /\ ~at.named /\ ~over /\ conv # "none"
  /\ \E ids \in SUBSET Shown : at' = [at EXCEPT !.named = TRUE, !.ids = dropIDs(ids)]
  /\ Stay /\ Rest /\ UNCHANGED troubles

\* A picture's stream is left at the marker of the task, at its end, or by the
\* watchdog that closes it a grace after the conversation was named.
LeaveStream ==
  /\ Kind = "image" /\ at.pc = "stream" /\ at.named
  /\ Onward("poll") /\ Rest /\ UNCHANGED troubles

\* A read error counts only when no conversation was named.
imageStartStreamError == ~at.named

StreamBreaks ==
  /\ at.pc = "stream" /\ (over \/ ("stream" \in Troubled /\ "net" \in Answers /\ troubles < MaxTroubles))
  /\ Noted("net")
  /\ CASE Kind = "image" /\ imageStartStreamError -> React("temp")
       [] Kind = "image" /\ ~imageStartStreamError -> Onward("poll")
       [] Kind = "text" /\ at.named -> Onward("fetch")
       [] OTHER -> React("temp")
  /\ Rest

\* A stream that ends without a name: an error of the request for a picture,
\* of the account for a text.
StreamUnnamed ==
  /\ at.pc = "stream" /\ ~at.named /\ "stream" \in Troubled /\ troubles < MaxTroubles
  /\ troubles' = troubles + 1
  /\ React(IF Kind = "image" THEN "unnamed" ELSE "temp")
  /\ Rest

\* A text's stream is read to its end, which may come before the text's.
startText(got) == IF got = "none" THEN "fetch" ELSE "done"

StreamEnds ==
  /\ Kind = "text" /\ at.pc = "stream" /\ at.named
  /\ conv = "made" \/ ("stream" \in Troubled /\ troubles < MaxTroubles)
  /\ \E got \in {"none"} \cup (IF conv \in {"partly", "made"} THEN {conv} ELSE {}) :
       /\ at' = [at EXCEPT !.pc = startText(got)] /\ text' = got
       /\ troubles' = IF got = "made" \/ conv = "made" THEN troubles ELSE troubles + 1
  /\ UNCHANGED <<tried, temps, rounds, conv, killed, limited, final>> /\ Rest

-----------------------------------------------------------------------------
Sees(ids) ==
  CASE ids # {} -> at' = [at EXCEPT !.ids = ids, !.pc = "resolve"] /\ Stay
    [] ids = {} /\ conv = "refused" -> React("policy")
    [] OTHER -> at' = [at EXCEPT !.n = @ + 1] /\ Stay

PollFails(ans) ==
  IF ensureOK("poll", ans) = "temp" THEN at' = [at EXCEPT !.n = @ + 1] /\ Stay ELSE React(ensureOK("poll", ans))

\* pollBudget: the part of the context that may be spent on polls.
BudgetSpent == at.n = Polls

\* pollForImage: transient troubles only use up the budget.
pollForImage ==
  /\ at.pc = "poll"
  /\ \/ over /\ React("plain") /\ UNCHANGED troubles
     \/ ~over /\ BudgetSpent /\ React("temp") /\ UNCHANGED troubles
     \/ /\ ~over /\ ~BudgetSpent
        /\ \E ans \in MayAnswer("poll") :
             Noted(ans) /\ IF ans = "ok" THEN Sees(at.ids \cup dropIDs(Shown)) ELSE PollFails(ans)
  /\ Rest

\* A text's conversation is asked a few times for what the stream left out.
fetchText ==
  /\ at.pc = "fetch"
  /\ \/ over /\ React("plain") /\ UNCHANGED troubles
     \/ ~over /\ BudgetSpent /\ React("temp") /\ UNCHANGED troubles
     \/ /\ ~over /\ at.n < Polls
        /\ \E ans \in MayAnswer("fetch") :
             /\ Noted(ans)
             /\ IF ans = "ok" /\ conv \in {"partly", "made"}
                  THEN /\ at' = [at EXCEPT !.pc = "done"] /\ text' = conv
                       /\ UNCHANGED <<tried, temps, rounds, conv, killed, limited, final>>
                  ELSE at' = [at EXCEPT !.n = @ + 1] /\ Stay
  /\ Rest

\* The picture's address is asked for at two paths.
resolveImageURLs ==
  /\ at.pc = "resolve"
  /\ \E first, second \in MayAnswer("resolve") :
       IF first = "ok" THEN Noted(first) /\ Onward("download")
       ELSE Noted(second) /\ IF second = "ok" THEN Onward("download") ELSE React(ensureOK("resolve", second))
  /\ Rest

downloadBytes == Step("download", "settle")

\* reconcileChatGPTQuota: the allowance that is left after a picture.
reconcileChatGPTQuota ==
  /\ at.pc = "settle"
  /\ \E ans \in MayAnswer("settle") :
       Noted(ans) /\ limited' = IF ans = "ok" /\ left[at.acct] = 0 THEN limited \cup {at.acct} ELSE limited
  /\ at' = [at EXCEPT !.pc = "done"]
  /\ UNCHANGED <<tried, temps, rounds, conv, killed, final, text>> /\ Rest

-----------------------------------------------------------------------------
\* A conversation goes on.  One for a picture makes none on an account that has
\* none left.
Proceeds ==
  /\ IF Kind = "text"
       THEN /\ \/ conv = "working" /\ conv' = "partly"
               \/ conv = "partly" /\ conv' = "made"
            /\ UNCHANGED left
       ELSE /\ conv = "working"
            /\ \/ left[at.acct] > 0 /\ conv' = "made" /\ left' = [left EXCEPT ![at.acct] = @ - 1]
               \/ Audit /\ conv' = "refused" /\ UNCHANGED left
  /\ UNCHANGED <<at, tried, temps, rounds, gone, killed, limited, final, text, over, troubles>>

\* The account makes a picture for somebody else, or its token ends.
Elsewhere ==
  /\ Kind = "image" /\ at.pc \in Phases /\ conv = "none"
  /\ left[at.acct] > 0 /\ left' = [left EXCEPT ![at.acct] = @ - 1]
  /\ UNCHANGED <<at, tried, temps, rounds, conv, gone, killed, limited, final, text, over, troubles>>

TokenEnds ==
  /\ Slow /\ at.pc \in Phases /\ at.acct \notin gone /\ gone' = gone \cup {at.acct}
  /\ UNCHANGED <<at, tried, temps, rounds, conv, left, killed, limited, final, text, over, troubles>>

ContextEnds ==
  /\ Slow /\ ~over /\ at.pc \in Phases /\ over' = TRUE
  /\ UNCHANGED <<at, tried, temps, rounds, conv, left, gone, killed, limited, final, text, troubles>>

Upload == createFileEntry \/ uploadRawFile \/ processUploadStream
Begin == fetchImageQuota \/ bootstrap \/ getChatRequirements \/ Upload \/ prepareConversation \/ startConversation
Stream == StreamNames \/ StreamBreaks \/ StreamUnnamed \/ StreamEnds
Work == Begin \/ LeaveStream \/ pollForImage \/ fetchText \/ resolveImageURLs \/ downloadBytes \/ reconcileChatGPTQuota
Ended == at.pc \in {"done", "failed"} /\ UNCHANGED vars

Next == Work \/ Stream \/ Proceeds \/ Elsewhere \/ TokenEnds \/ ContextEnds \/ Ended

Spec == Init /\ [][Next]_vars

\* Nothing makes a stream say more, or a conversation go on.
FairSpec == Spec /\ WF_vars(Work)

-----------------------------------------------------------------------------
\* Only an account whose token is not taken is disabled, and only one without
\* pictures left is set to quota.
MarkedIsTrue == killed \subseteq gone /\ \A a \in limited : left[a] = 0

\* A refusal by the audit, which every account would repeat, ends the request.
PolicyIsFinal == final = "policy" => at.pc = "failed"

\* The ids taken for the picture are never those of a reference.
RefIsNotResult == at.ids \subseteq {<<"picture", 1>>}

\* A conversation that was named is given up only at the end of the budget, of
\* the context or of the token, or when it is refused.
GivesUpLate ==
  at.named /\ at.pc \in {"stream", "poll"} /\ at'.pc \notin {"stream", "poll", "resolve"} =>
    at.n = Polls \/ over \/ conv = "refused" \/ at.acct \in gone

\* A named conversation does not wait for its stream.
StreamIsLeft == (Kind = "image" /\ at.pc = "stream" /\ at.named) ~> at.pc # "stream"

\* A text is not returned empty.
TextGiven == Kind = "text" /\ at.pc = "done" => text # "none"

\* A request ends without a result only when it was refused, its time is over,
\* every account of the pass was tried, or the cap on failovers is reached.
FailsAfterAll ==
  at.pc = "failed" => final # "no" \/ over \/ tried = Accounts \/ temps + 1 >= MaxTemp

\* A text that is returned is the whole text.
TextIsWhole == at.pc = "done" => text # "partly"

\* A text never sets an account to quota that may still make pictures.
QuotaIsPictures == Kind = "text" => \A a \in limited : left[a] = 0
=============================================================================

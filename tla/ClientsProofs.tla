--------------------------- MODULE ClientsProofs ---------------------------
(***************************************************************************)
(* Proofs about the clients of the providers, for any pools, bounds and    *)
(* answers: who is taken out of use had it coming, a request is rendered   *)
(* once, a refused one goes to no other account, and one fails only when   *)
(* the pool was tried or its time is over.  Every component has its        *)
(* invariant, of a record c of its constants; the last section is about    *)
(* the parts of MCClients.                                                 *)
(***************************************************************************)
EXTENDS MCClients, Sequences, FiniteSetTheorems, TLAPS

-----------------------------------------------------------------------------
(* Grok.                                                                   *)

\* An account is counted as failing for its session or its credits; who waits for the
\* asset was not refused.
GrokInv(c) ==
  /\ Grok(c)!GrokTypeOK /\ Grok(c)!MarkedIsTrue
  /\ step = "wait" => psErr \notin {"auth", "quota"}

\* What any step may do to an attempt: nothing, end it, go on, or blame the account.
GrokReacts(c, e) == Grok(c)!React(e) /\ (e \in {"auth", "quota"} => grokAcct \in c.dead \cup c.spent \cup barred')

\* Answers of an account.
LEMMA GrokAnswers ==
  ASSUME NEW CONSTANT c, Grok(c)!GrokAssumption, GrokInv(c), NEW ans \in Grok(c)!MayAnswer(grokAcct)
  PROVE  /\ ans \in {"ok", "denied"} \cup Grok(c)!Passing
         /\ ans = "denied" => grokAcct \in c.dead
         /\ Grok(c)!Noted(ans) => grokHiccups' \in 0..c.maxHiccups
BY DEF Grok!MayAnswer, Grok!Passing, Grok!Noted, Grok!GrokAssumption, GrokInv, Grok!GrokTypeOK

\* A reaction keeps the types, and blames only whom it may.
LEMMA GrokReactStep ==
  ASSUME NEW CONSTANT c, Grok(c)!GrokAssumption, GrokInv(c), NEW e, GrokReacts(c, e), barred \subseteq barred'
  PROVE  /\ grokAcct' \in Grok(c)!Accounts /\ step' \in {"upload", "failed"}
         /\ frame' \in 0..c.frames /\ tries' \in 0..3
         /\ marked' \subseteq Grok(c)!Accounts /\ marked' \subseteq c.dead \cup c.spent \cup barred'
<1>1. /\ grokAcct \in 1..c.last /\ c.last \in Nat /\ c.frames \in Nat
      /\ marked \subseteq 1..c.last /\ marked \subseteq c.dead \cup c.spent \cup barred'
  BY DEF GrokInv, Grok!GrokTypeOK, Grok!Accounts, Grok!GrokAssumption, Grok!MarkedIsTrue
<1>2. frame' = 0 /\ tries' = 0 /\ step' \in {"upload", "failed"}
  BY DEF GrokReacts, Grok!React
<1>3. grokAcct' \in 1..c.last
  BY <1>1 DEF GrokReacts, Grok!React
<1>4. marked' = marked \/ (marked' = marked \cup {grokAcct} /\ grokAcct \in c.dead \cup c.spent \cup barred')
  BY DEF GrokReacts, Grok!React
<1>5. marked' \subseteq 1..c.last /\ marked' \subseteq c.dead \cup c.spent \cup barred'
  BY <1>1, <1>4
<1>6. frame' \in 0..c.frames /\ tries' \in 0..3
  BY <1>1, <1>2
<1> QED
  BY <1>2, <1>3, <1>5, <1>6 DEF Grok!Accounts

\* The uploads and the creation of the post.
LEMMA GrokUploadStep ==
  ASSUME NEW CONSTANT c, Grok(c)!GrokAssumption, GrokInv(c), Grok(c)!uploadImage \/ Grok(c)!createPost
  PROVE  GrokInv(c)'
<1>1. PICK ans \in Grok(c)!MayAnswer(grokAcct) :
        /\ Grok(c)!Noted(ans)
        /\ \/ \E to \in Grok(c)!Steps : Grok(c)!Goes(to) /\ to # "wait" /\ frame' \in {frame, frame + 1}
              /\ (frame' = frame \/ frame < c.frames)
           \/ tries < 3 /\ tries' = tries + 1 /\ UNCHANGED <<grokAcct, step, frame, marked>>
           \/ Grok(c)!React(Grok(c)!postJSON(ans))
  BY DEF Grok!uploadImage, Grok!createPost, Grok!Steps
<1>2. UNCHANGED <<psErr, render, barred, expired>>
  BY DEF Grok!uploadImage, Grok!createPost
<1>3. ASSUME Grok(c)!React(Grok(c)!postJSON(ans))
      PROVE  GrokReacts(c, Grok(c)!postJSON(ans))
  BY <1>3, GrokAnswers DEF GrokReacts, Grok!postJSON, Grok!mapStatus, Grok!isBotChallenge, Grok!isCreditError,
     Grok!Passing
<1>4. grokHiccups' \in 0..c.maxHiccups
  BY <1>1, GrokAnswers
<1> QED
  BY <1>1, <1>2, <1>3, <1>4, GrokReactStep DEF GrokInv, Grok!GrokTypeOK, Grok!MarkedIsTrue, Grok!Goes,
     Grok!Steps,
     Grok!GrokAssumption

\* The submission.
LEMMA GrokSubmitStep ==
  ASSUME NEW CONSTANT c, Grok(c)!GrokAssumption, GrokInv(c), Grok(c)!submit
  PROVE  GrokInv(c)'
<1> USE DEF Grok!Passing
<1>1. PICK b \in Grok(c)!Bodies(grokAcct) :
        /\ Grok(c)!Noted(b.ans)
        /\ psErr' = (IF b.ans \in {"net", "nonjson"} THEN "temp" ELSE Grok(c)!mapStatus(b.ans))
        /\ \E x \in {"made", "running", "refused", "declined", render[grokAcct]} :
             render' = [render EXCEPT ![grokAcct] = x]
        /\ \/ Grok(c)!VideoNext(psErr', b.body)
           \/ Grok(c)!ImageNext(psErr', b.body)
           \/ Grok(c)!ChatNext(psErr', b.body)
  BY DEF Grok!submit, GrokInv, Grok!GrokTypeOK, Grok!GrokAssumption
<1>2. /\ b.ans \in {"ok", "denied", "credit", "other", "net", "5xx", "busy", "challenge", "nonjson"}
      /\ b.ans = "denied" => grokAcct \in c.dead
      /\ b.ans = "credit" \/ b.body = "exhausted" => grokAcct \in c.spent
      /\ b.ans \in Grok(c)!Passing /\ ~expired => grokHiccups < c.maxHiccups
  BY DEF Grok!Bodies, Grok!MayAnswer
<1>3. /\ psErr' \in {"ok", "temp", "auth", "quota", "plain"}
      /\ psErr' = "auth" => grokAcct \in c.dead
      /\ psErr' = "quota" => grokAcct \in c.spent
  BY <1>1, <1>2 DEF Grok!mapStatus, Grok!isBotChallenge, Grok!isCreditError
<1>8. expired' = expired /\ barred' = barred
  BY DEF Grok!submit
<1>4. \/ \E e : GrokReacts(c, e)
      \/ \E to \in {"wait", "download", "done"} :
           /\ Grok(c)!Goes(to) /\ frame' = frame
           /\ to = "wait" => psErr' \notin {"auth", "quota"}
  BY <1>1, <1>2, <1>3 DEF Grok!VideoNext, Grok!ImageNext, Grok!ChatNext, GrokReacts
<1>5. /\ grokAcct' \in Grok(c)!Accounts /\ step' \in Grok(c)!Steps
      /\ frame' \in 0..c.frames /\ tries' \in 0..3
      /\ marked' \subseteq Grok(c)!Accounts /\ marked' \subseteq c.dead \cup c.spent \cup barred'
      /\ step' = "wait" => psErr' \notin {"auth", "quota"}
  BY <1>4, <1>8, GrokReactStep DEF Grok!Goes, Grok!Steps, GrokInv, Grok!GrokTypeOK, Grok!MarkedIsTrue
<1>6. grokHiccups' \in 0..c.maxHiccups
  BY <1>1, <1>2 DEF Grok!Noted, GrokInv, Grok!GrokTypeOK, Grok!GrokAssumption
<1>7. render' \in [Grok(c)!Accounts -> {"none", "declined", "running", "made", "refused"}]
  BY <1>1 DEF GrokInv, Grok!GrokTypeOK
<1> QED
  BY <1>3, <1>5, <1>6, <1>7, <1>8 DEF GrokInv, Grok!GrokTypeOK, Grok!MarkedIsTrue

\* The wait and the download.
LEMMA GrokAssetStep ==
  ASSUME NEW CONSTANT c, Grok(c)!GrokAssumption, GrokInv(c),
         \/ Grok(c)!AssetReady \/ Grok(c)!AssetDenied \/ Grok(c)!AssetContextEnds \/ Grok(c)!AssetTimesOut
         \/ Grok(c)!download \/ Grok(c)!BackoffEnds \/ Grok(c)!UploadsDone
  PROVE  GrokInv(c)'
<1>0. grokAcct \in Grok(c)!Accounts /\ barred \subseteq Grok(c)!Accounts
  BY DEF GrokInv, Grok!GrokTypeOK
<1>1. /\ UNCHANGED <<psErr, render, expired>> /\ barred \subseteq barred' /\ barred' \subseteq Grok(c)!Accounts
      /\ grokHiccups' = grokHiccups \/ \E ans \in Grok(c)!MayAnswer(grokAcct) : Grok(c)!Noted(ans)
      /\ \/ \E e : Grok(c)!React(e) /\ (e \in {"auth", "quota"} => grokAcct \in barred')
         \/ \E to \in Grok(c)!Steps : Grok(c)!Goes(to) /\ to # "wait" /\ frame' = frame
         \/ tries < 3 /\ tries' = tries + 1 /\ UNCHANGED <<grokAcct, step, frame, marked>>
  <2>1. Grok(c)!download => \E ans \in Grok(c)!MayAnswer(grokAcct) :
          /\ Grok(c)!Noted(ans)
          /\ \/ Grok(c)!Goes("done") /\ frame' = frame
             \/ tries < 3 /\ tries' = tries + 1 /\ UNCHANGED <<grokAcct, step, frame, marked>>
             \/ Grok(c)!React("temp")
    BY DEF Grok!download, Grok!downloadOnce
  <2> QED
    BY <1>0, <2>1 DEF Grok!AssetReady, Grok!AssetDenied, Grok!AssetContextEnds, Grok!AssetTimesOut,
       Grok!BackoffEnds, Grok!UploadsDone,
       Grok!download, Grok!Steps, GrokInv
<1>2. /\ grokAcct' \in Grok(c)!Accounts /\ step' \in Grok(c)!Steps
      /\ frame' \in 0..c.frames /\ tries' \in 0..3
      /\ marked' \subseteq Grok(c)!Accounts /\ marked' \subseteq c.dead \cup c.spent \cup barred'
      /\ step' = "wait" => step = "wait"
  BY <1>1, GrokReactStep DEF Grok!Goes, Grok!Steps, GrokReacts, GrokInv, Grok!GrokTypeOK, Grok!MarkedIsTrue
<1>3. grokHiccups' \in 0..c.maxHiccups
  BY <1>1, GrokAnswers DEF GrokInv, Grok!GrokTypeOK
<1> QED
  BY <1>1, <1>2, <1>3 DEF GrokInv, Grok!GrokTypeOK, Grok!MarkedIsTrue

\* Whatever grok answers, for any pool: the types, and whom a failure is counted against.
LEMMA GrokStep ==
  ASSUME NEW CONSTANT c, Grok(c)!GrokAssumption, GrokInv(c), Grok(c)!Next \/ UNCHANGED grokVars
  PROVE  GrokInv(c)'
<1>1. CASE Grok(c)!Finish
  BY <1>1 DEF Grok!Finish, GrokInv, Grok!GrokTypeOK, Grok!MarkedIsTrue
<1>2. CASE Grok(c)!ContextEnds
  BY <1>2 DEF Grok!ContextEnds, GrokInv, Grok!GrokTypeOK, Grok!MarkedIsTrue
<1>3. CASE Grok(c)!Ended \/ UNCHANGED grokVars
  BY <1>3 DEF Grok!Ended, Grok!vars, grokVars, GrokInv, Grok!GrokTypeOK, Grok!MarkedIsTrue
<1> QED
  BY <1>1, <1>2, <1>3, GrokUploadStep, GrokSubmitStep, GrokAssetStep DEF Grok!Next, Grok!Work

\* Nothing has been asked yet.
LEMMA GrokInitially ==
  ASSUME NEW CONSTANT c, Grok(c)!GrokAssumption, Grok(c)!Init
  PROVE  GrokInv(c)
<1>1. c.last \in Nat \ {0} /\ c.frames \in Nat /\ c.maxHiccups \in Nat
  BY DEF Grok!GrokAssumption
<1>2. /\ grokAcct \in Grok(c)!Accounts /\ frame \in 0..c.frames /\ tries \in 0..3
      /\ grokHiccups \in 0..c.maxHiccups
  BY <1>1 DEF Grok!Init, Grok!Accounts
<1>3. render \in [Grok(c)!Accounts -> {"none", "declined", "running", "made", "refused"}]
  BY DEF Grok!Init
<1> QED
  BY <1>2, <1>3 DEF Grok!Init, GrokInv, Grok!GrokTypeOK, Grok!MarkedIsTrue, Grok!Steps

\* Who has been rendered for is stayed with.
GrokOnce(c) ==
  /\ ~expired
  /\ \A a \in Grok(c)!Accounts \ barred : render[a] \in {"running", "made"} =>
       a = grokAcct /\ a \notin c.dead /\ step \in {"wait", "download", "done"}
  /\ step = "download" => grokAcct \notin c.dead /\ tries <= grokHiccups

\* A refusal is the end.
GrokFinal(c) == \A a \in Grok(c)!Accounts : render[a] = "refused" => a = grokAcct /\ step = "failed"

\* Before the submission.
LEMMA GrokOnceUpload ==
  ASSUME NEW CONSTANT c, Grok(c)!GrokAssumption, GrokInv(c), GrokOnce(c),
         \/ Grok(c)!uploadImage \/ Grok(c)!createPost \/ Grok(c)!BackoffEnds \/ Grok(c)!UploadsDone
  PROVE  GrokOnce(c)'
<1>1. /\ UNCHANGED <<render, barred, expired>>
      /\ step' \in {"upload", "post", "submit", "failed"}
  BY DEF Grok!uploadImage, Grok!createPost, Grok!BackoffEnds, Grok!UploadsDone, Grok!React, Grok!Goes,
     GrokOnce
<1>2. ~expired /\ step \in {"upload", "post"}
  BY DEF Grok!uploadImage, Grok!createPost, Grok!BackoffEnds, Grok!UploadsDone, GrokOnce
<1> QED
  BY <1>1, <1>2 DEF GrokOnce

\* The submission: one that may have been accepted is waited for.
LEMMA GrokOnceSubmit ==
  ASSUME NEW CONSTANT c, Grok(c)!GrokAssumption, Patient(c), GrokInv(c), GrokOnce(c), Grok(c)!submit
  PROVE  GrokOnce(c)'
<1>1. PICK b \in Grok(c)!Bodies(grokAcct) :
        /\ psErr' = (IF b.ans \in {"net", "nonjson"} THEN "temp" ELSE Grok(c)!mapStatus(b.ans))
        /\ render' = [render EXCEPT ![grokAcct] =
             CASE b.body = "artifact" -> "made" [] b.body = "started" -> "running"
               [] b.body = "fatal" -> "refused" [] b.ans # "net" -> "declined" [] OTHER -> @]
        /\ Grok(c)!VideoNext(psErr', b.body)
        /\ Grok(c)!Noted(b.ans)
  BY DEF Grok!submit, Patient
<1>2. /\ step = "submit" /\ ~expired /\ ~expired' /\ barred' = barred /\ grokAcct \in Grok(c)!Accounts
      /\ render \in [Grok(c)!Accounts -> {"none", "declined", "running", "made", "refused"}]
  BY DEF Grok!submit, GrokOnce, GrokInv, Grok!GrokTypeOK
<1>9. grokHiccups' \in Nat
  <2>1. grokHiccups' \in 0..c.maxHiccups
    BY GrokSubmitStep DEF GrokInv, Grok!GrokTypeOK
  <2> QED
    BY <2>1
<1>3. /\ b.body \in {"artifact", "started"} => grokAcct \notin c.dead /\ b.ans \in {"ok", "net"}
      /\ b.body \in {"artifact", "started", "fatal", "exhausted", ""}
  BY <1>2 DEF Grok!Bodies, Grok!Passing
<1>4. \A a \in Grok(c)!Accounts \ barred : render[a] \notin {"running", "made"}
  BY <1>2 DEF GrokOnce
<1>5. \A a \in Grok(c)!Accounts \ barred : render'[a] \in {"running", "made"} =>
        a = grokAcct /\ b.body \in {"artifact", "started"}
  BY <1>1, <1>2, <1>3, <1>4
<1>6. CASE b.body = "artifact"
  <2>1. psErr' \notin {"auth", "quota"}
    BY <1>1, <1>3, <1>6 DEF Grok!mapStatus, Grok!isBotChallenge, Grok!isCreditError
  <2>2. Grok(c)!Goes("download")
    BY <1>1, <1>6, <2>1 DEF Grok!VideoNext
  <2> QED
    BY <1>2, <1>3, <1>5, <1>6, <1>9, <2>2 DEF Grok!Goes, GrokOnce
<1>7. CASE b.body = "started"
  <2>1. psErr' \notin {"auth", "quota"}
    BY <1>1, <1>3, <1>7 DEF Grok!mapStatus, Grok!isBotChallenge, Grok!isCreditError
  <2>2. Grok(c)!Goes("wait")
    BY <1>1, <1>7, <2>1 DEF Grok!VideoNext, Patient
  <2> QED
    BY <1>2, <1>3, <1>5, <1>7, <2>2 DEF Grok!Goes, GrokOnce
<1>8. CASE b.body \notin {"artifact", "started"}
  <2>1. step' \in {"upload", "failed", "wait"}
    BY <1>1, <1>8 DEF Grok!VideoNext, Grok!React, Grok!Goes
  <2> QED
    BY <1>2, <1>5, <1>8, <2>1 DEF GrokOnce
<1> QED
  BY <1>6, <1>7, <1>8

\* The wait and the download do not leave an account that has been rendered for.
LEMMA GrokOnceAsset ==
  ASSUME NEW CONSTANT c, Grok(c)!GrokAssumption, Patient(c), GrokInv(c), GrokOnce(c),
         \/ Grok(c)!AssetReady \/ Grok(c)!AssetDenied \/ Grok(c)!AssetContextEnds \/ Grok(c)!AssetTimesOut
         \/ Grok(c)!download
  PROVE  GrokOnce(c)'
<1>1. /\ ~expired /\ UNCHANGED <<render, expired>> /\ grokAcct \in Grok(c)!Accounts /\ tries \in 0..3
      /\ grokHiccups \in Nat /\ c.maxHiccups \in Nat /\ c.maxHiccups <= 3
  BY DEF GrokOnce, Grok!AssetReady, Grok!AssetDenied, Grok!AssetContextEnds, Grok!AssetTimesOut, Grok!download, GrokInv,
     Grok!GrokTypeOK,
     Patient, Grok!GrokAssumption
<1>2. CASE Grok(c)!AssetReady
  BY <1>1, <1>2 DEF Grok!AssetReady, Grok!Goes, GrokOnce
<1>3. CASE Grok(c)!AssetTimesOut
  <2>1. render[grokAcct] \notin {"running", "made"}
    BY <1>3 DEF Grok!AssetTimesOut, Patient
  <2>2. \A a \in Grok(c)!Accounts \ barred : render'[a] \notin {"running", "made"}
    BY <1>1, <2>1 DEF GrokOnce
  <2>3. step' \in {"upload", "failed"} /\ barred' = barred
    BY <1>3 DEF Grok!AssetTimesOut, Grok!React
  <2> QED
    BY <1>1, <2>2, <2>3 DEF GrokOnce
<1>4. CASE Grok(c)!download
  <2>1. PICK ans \in Grok(c)!MayAnswer(grokAcct) :
          /\ Grok(c)!Noted(ans)
          /\ \/ Grok(c)!Goes("done")
             \/ ans # "ok" /\ tries < 3 /\ tries' = tries + 1 /\ UNCHANGED <<grokAcct, step, frame, marked>>
             \/ ans # "ok" /\ tries = 3
    BY <1>1, <1>4 DEF Grok!download, Grok!downloadOnce
  <2>2. step = "download" /\ grokAcct \notin c.dead /\ tries <= grokHiccups
    BY <1>4 DEF Grok!download, GrokOnce
  <2>3. ans # "ok" => grokHiccups' = grokHiccups + 1 /\ grokHiccups < c.maxHiccups
    BY <1>1, <2>1, <2>2 DEF Grok!MayAnswer, Grok!Passing, Grok!Noted
  <2>4. \/ Grok(c)!Goes("done")
        \/ tries' = tries + 1 /\ grokHiccups' = grokHiccups + 1 /\ UNCHANGED <<grokAcct, step>>
    BY <1>1, <2>1, <2>2, <2>3
  <2> QED
    BY <1>1, <1>4, <2>2, <2>4 DEF Grok!Goes, Grok!download, GrokOnce
<1>5. ~Grok(c)!AssetContextEnds
  BY <1>1 DEF Grok!AssetContextEnds
<1>6. CASE Grok(c)!AssetDenied
  <2>1. barred' = barred \cup {grokAcct} /\ step' \in {"upload", "failed"}
    BY <1>6 DEF Grok!AssetDenied, Grok!React
  <2> QED
    BY <1>1, <2>1 DEF GrokOnce
<1> QED
  BY <1>2, <1>3, <1>4, <1>5, <1>6

\* A video is rendered on one account.
LEMMA GrokOnceStep ==
  ASSUME NEW CONSTANT c, Grok(c)!GrokAssumption, Patient(c), GrokInv(c), GrokOnce(c),
         Grok(c)!Next \/ UNCHANGED grokVars
  PROVE  GrokOnce(c)'
<1>1. CASE Grok(c)!Finish
  <2>1. PICK a \in Grok(c)!Accounts : render[a] = "running" /\ render' = [render EXCEPT ![a] = "made"]
    BY <1>1 DEF Grok!Finish
  <2>2. \A b \in Grok(c)!Accounts : render'[b] \in {"running", "made"} => render[b] \in {"running", "made"}
    BY <2>1 DEF GrokInv, Grok!GrokTypeOK
  <2> QED
    BY <1>1, <2>2 DEF Grok!Finish, GrokOnce
<1>2. ~Grok(c)!ContextEnds
  BY DEF Grok!ContextEnds, Patient
<1>3. CASE Grok(c)!Ended \/ UNCHANGED grokVars
  BY <1>3 DEF Grok!Ended, Grok!vars, grokVars, GrokOnce
<1> QED
  BY <1>1, <1>2, <1>3, GrokOnceUpload, GrokOnceSubmit, GrokOnceAsset DEF Grok!Next, Grok!Work

\* What grok has refused ends the generation, of a clip or of a picture.
LEMMA GrokFinalStep ==
  ASSUME NEW CONSTANT c, Grok(c)!GrokAssumption, c.kind \in {"video", "image"}, GrokInv(c), GrokFinal(c),
         Grok(c)!Next \/ UNCHANGED grokVars
  PROVE  GrokFinal(c)'
<1>1. CASE Grok(c)!submit
  <2>1. PICK b \in Grok(c)!Bodies(grokAcct) :
          /\ psErr' = (IF b.ans \in {"net", "nonjson"} THEN "temp" ELSE Grok(c)!mapStatus(b.ans))
          /\ \E x \in {"made", "running", "refused", "declined", render[grokAcct]} :
               /\ render' = [render EXCEPT ![grokAcct] = x]
               /\ x = "refused" => b.body = "fatal" \/ render[grokAcct] = "refused"
          /\ Grok(c)!VideoNext(psErr', b.body) \/ Grok(c)!ImageNext(psErr', b.body)
    BY <1>1 DEF Grok!submit
  <2>2. /\ step = "submit" /\ grokAcct \in Grok(c)!Accounts
        /\ render \in [Grok(c)!Accounts -> {"none", "declined", "running", "made", "refused"}]
    BY <1>1 DEF Grok!submit, GrokInv, Grok!GrokTypeOK
  <2>3. \A a \in Grok(c)!Accounts : render'[a] = "refused" => a = grokAcct /\ b.body = "fatal"
    BY <2>1, <2>2 DEF GrokFinal
  <2>4. ASSUME b.body = "fatal" PROVE grokAcct' = grokAcct /\ step' = "failed"
    <3>1. b.ans = "ok"
      BY <2>4 DEF Grok!Bodies
    <3>2. psErr' = "ok"
      BY <2>1, <3>1 DEF Grok!mapStatus, Grok!isBotChallenge, Grok!isCreditError
    <3>3. Grok(c)!React("plain")
      BY <2>1, <2>4, <3>2 DEF Grok!VideoNext, Grok!ImageNext
    <3> QED
      BY <3>3 DEF Grok!React
  <2> QED
    BY <2>3, <2>4 DEF GrokFinal
<1>2. CASE Grok(c)!Finish
  <2>1. PICK a \in Grok(c)!Accounts : render[a] = "running" /\ render' = [render EXCEPT ![a] = "made"]
    BY <1>2 DEF Grok!Finish
  <2>2. \A b \in Grok(c)!Accounts : render'[b] = "refused" => render[b] = "refused"
    BY <2>1 DEF GrokInv, Grok!GrokTypeOK
  <2> QED
    BY <1>2, <2>2 DEF Grok!Finish, GrokFinal
<1>3. CASE Grok(c)!Ended \/ Grok(c)!ContextEnds \/ UNCHANGED grokVars
  BY <1>3 DEF Grok!Ended, Grok!ContextEnds, Grok!vars, grokVars, GrokFinal
<1>4. CASE \/ Grok(c)!BackoffEnds \/ Grok(c)!uploadImage \/ Grok(c)!UploadsDone \/ Grok(c)!createPost
           \/ Grok(c)!AssetReady \/ Grok(c)!AssetDenied \/ Grok(c)!AssetContextEnds \/ Grok(c)!AssetTimesOut
           \/ Grok(c)!download
  <2>1. step # "failed" /\ render' = render
    BY <1>4 DEF Grok!BackoffEnds, Grok!uploadImage, Grok!UploadsDone, Grok!createPost, Grok!AssetReady,
       Grok!AssetDenied, Grok!AssetContextEnds, Grok!AssetTimesOut, Grok!download
  <2> QED
    BY <2>1 DEF GrokFinal
<1> QED
  BY <1>1, <1>2, <1>3, <1>4 DEF Grok!Next, Grok!Work

\* Nothing has been rendered or refused yet.
LEMMA GrokOnceInitially ==
  ASSUME NEW CONSTANT c, Grok(c)!Init
  PROVE  GrokOnce(c) /\ GrokFinal(c)
BY DEF Grok!Init, GrokOnce, GrokFinal

\* The instance's own cardinality is that of the standard module.
LEMMA GrokCardinality ==
  ASSUME NEW CONSTANT c
  PROVE  \A S : Grok(c)!Cardinality(S) = Cardinality(S)
BY DEF Grok!Cardinality, Cardinality

\* No account but one, and those barred, can have a render.
LEMMA GrokOnceImplies ==
  ASSUME NEW CONSTANT c
  PROVE  /\ GrokOnce(c) => Grok(c)!PaidOnce
         /\ GrokFinal(c) => Grok(c)!RefusedIsFinal
<1>1. ASSUME GrokOnce(c) PROVE Grok(c)!PaidOnce
  <2>1. Grok(c)!Charged \ barred \subseteq {grokAcct}
    BY <1>1 DEF GrokOnce, Grok!Charged
  <2>2. IsFiniteSet({grokAcct}) /\ Cardinality({grokAcct}) = 1
    BY FS_Singleton
  <2>3. Cardinality(Grok(c)!Charged \ barred) <= 1
    BY <2>1, <2>2, FS_Subset
  <2> QED
    BY <2>3, GrokCardinality DEF Grok!PaidOnce
<1>2. ASSUME GrokFinal(c) PROVE Grok(c)!RefusedIsFinal
  BY <1>2 DEF GrokFinal, Grok!RefusedIsFinal
<1> QED
  BY <1>1, <1>2

-----------------------------------------------------------------------------
(* Grok's signer.                                                          *)

\* Nothing has failed, nobody was turned back, and the first build is served.
Calm == failures = 0 /\ bots = 0 /\ build = 1

\* While all is calm the challenge and the signer are those of the first build: a signer
\* is there when a challenge is, and a request goes on only with both.
SignerInv(c) ==
  /\ Signer(c)!SignerTypeOK
  /\ Calm =>
       /\ cache.build # 0 => cache.build = 1 /\ engine = 1
       /\ flight.pc \in {"page", "engine"} => flight.page = 1
       /\ flight.pc = "engine" => engine = 1
       /\ \A r \in c.requests : /\ req[r].pc = "ready" => cache.build = 1
                                /\ req[r].pc = "sent" => req[r].by = 1

\* The bounds of a case, and the state in the types that the steps need.
LEMMA SignerShape ==
  ASSUME NEW CONSTANT c, Signer(c)!SignerAssumption, SignerInv(c)
  PROVE  /\ c.maxBuild \in Nat /\ c.maxFailures \in Nat /\ c.maxBots \in Nat
         /\ build \in 1..c.maxBuild /\ engine \in 0..c.maxBuild
         /\ cache.build \in 0..c.maxBuild /\ cache.old \in BOOLEAN
         /\ flight.pc \in {"idle", "asked", "page", "engine"} /\ flight.page \in 0..c.maxBuild
         /\ failures \in 0..c.maxFailures /\ bots \in 0..c.maxBots
BY DEF SignerInv, Signer!SignerTypeOK, Signer!SignerAssumption

\* The refresh of the challenge and of the signer.
LEMMA SignerRefreshStep ==
  ASSUME NEW CONSTANT c, Signer(c)!SignerAssumption, SignerInv(c), Signer(c)!Refresh
  PROVE  SignerInv(c)'
<1> USE SignerShape
<1>1. CASE Signer(c)!FetchPage
  <2>1. /\ flight' = [pc |-> "page", page |-> build] /\ owed' = FALSE
        /\ UNCHANGED <<build, cache, engine, req, failures, bots>>
    BY <1>1 DEF Signer!FetchPage
  <2>2. flight' \in [pc : {"idle", "asked", "page", "engine"}, page : 0..c.maxBuild]
    BY <2>1
  <2>3. flight'.pc = "page" /\ flight'.page = build
    BY <2>1
  <2> QED
    BY <2>1, <2>2, <2>3 DEF SignerInv, Signer!SignerTypeOK, Calm
<1>2. CASE Signer(c)!ensureEngine
  <2>1. /\ flight.pc = "page" /\ flight' = [flight EXCEPT !.pc = "engine"]
        /\ UNCHANGED <<build, cache, req, bots, owed>>
        /\ \/ engine' = flight.page /\ failures' = failures
           \/ engine' = engine /\ engine = flight.page /\ failures' = failures
           \/ engine' = engine /\ failures < c.maxFailures /\ failures' = failures + 1
    BY <1>2 DEF Signer!ensureEngine
  <2>2. flight'.pc = "engine" /\ flight'.page = flight.page
    BY <2>1 DEF SignerInv, Signer!SignerTypeOK
  <2>3. Signer(c)!SignerTypeOK'
    BY <2>1 DEF SignerInv, Signer!SignerTypeOK
  <2>4. Calm' => Calm /\ engine' = 1
    BY <2>1 DEF Calm, SignerInv
  <2> QED
    BY <2>1, <2>2, <2>3, <2>4 DEF SignerInv
<1>3. CASE Signer(c)!storeStatsigChallenge
  <2>1. /\ flight.pc = "engine" /\ cache' = [build |-> flight.page, old |-> FALSE]
        /\ flight' = [pc |-> "idle", page |-> 0] /\ req' = Signer(c)!Released
        /\ UNCHANGED <<build, engine, failures, bots, owed>>
    BY <1>3 DEF Signer!storeStatsigChallenge, Signer!Idle
  <2>2. /\ req' \in [c.requests -> [pc : {"idle", "waiting", "ready", "sent"}, by : -1..c.maxBuild]]
        /\ \A r \in c.requests : /\ req'[r].pc = "sent" => req[r].pc = "sent" /\ req'[r].by = req[r].by
    BY <2>1 DEF Signer!Released, SignerInv, Signer!SignerTypeOK
  <2>3. cache' \in [build : 0..c.maxBuild, old : BOOLEAN] /\ cache'.build = flight.page
    BY <2>1
  <2>4. Signer(c)!SignerTypeOK'
    BY <2>1, <2>2, <2>3 DEF SignerInv, Signer!SignerTypeOK
  <2> QED
    BY <2>1, <2>2, <2>3, <2>4 DEF SignerInv, Calm
<1>4. CASE Signer(c)!RefreshFails
  <2>1. /\ failures' = failures + 1 /\ failures < c.maxFailures /\ flight' = [pc |-> "idle", page |-> 0]
        /\ req' = Signer(c)!Released /\ UNCHANGED <<build, cache, engine, bots, owed>>
    BY <1>4 DEF Signer!RefreshFails, Signer!Idle
  <2>2. req' \in [c.requests -> [pc : {"idle", "waiting", "ready", "sent"}, by : -1..c.maxBuild]]
    BY <2>1 DEF Signer!Released, SignerInv, Signer!SignerTypeOK
  <2>3. ~Calm'
    BY <2>1 DEF Calm
  <2> QED
    BY <2>1, <2>2, <2>3 DEF SignerInv, Signer!SignerTypeOK
<1> QED
  BY <1>1, <1>2, <1>3, <1>4 DEF Signer!Refresh

\* A request of the generation.
LEMMA SignerRequestStep ==
  ASSUME NEW CONSTANT c, Signer(c)!SignerAssumption, SignerInv(c), NEW r \in c.requests, Signer(c)!Request(r)
  PROVE  SignerInv(c)'
<1> USE SignerShape
<1>1. CASE Signer(c)!ensureChallenge(r)
  <2>1. /\ flight' = flight \/ flight' = [pc |-> "asked", page |-> 0]
        /\ \E p \in {"waiting", "ready"} :
             req' = [req EXCEPT ![r] = [pc |-> p, by |-> 0]] /\ (p = "ready" => cache.build # 0)
        /\ UNCHANGED <<build, cache, engine, failures, bots, owed>>
    BY <1>1 DEF Signer!ensureChallenge, Signer!Joined, Signer!Waits, Signer!loaded
  <2>2. /\ req' \in [c.requests -> [pc : {"idle", "waiting", "ready", "sent"}, by : -1..c.maxBuild]]
        /\ \A q \in c.requests : /\ req'[q].pc = "sent" => req[q].pc = "sent" /\ req'[q].by = req[q].by
                                 /\ req'[q].pc = "ready" => req[q].pc = "ready" \/ cache.build # 0
    BY <2>1 DEF SignerInv, Signer!SignerTypeOK
  <2>3. Signer(c)!SignerTypeOK'
    BY <2>1, <2>2 DEF SignerInv, Signer!SignerTypeOK
  <2> QED
    BY <2>1, <2>2, <2>3 DEF SignerInv, Calm
<1>2. CASE Signer(c)!statsigID(r)
  <2> DEFINE by == IF cache.build # 0 /\ engine # 0 THEN (IF engine = cache.build THEN engine ELSE -1) ELSE 0
  <2>1. /\ req[r].pc = "ready" /\ req' = [req EXCEPT ![r] = [pc |-> "sent", by |-> by]]
        /\ UNCHANGED <<build, cache, engine, flight, failures, bots, owed>>
    BY <1>2 DEF Signer!statsigID, Signer!loaded
  <2>4. by \in -1..c.maxBuild /\ (cache.build = 1 /\ engine = 1 => by = 1)
    OBVIOUS
  <2> HIDE DEF by
  <2>2. /\ req' \in [c.requests -> [pc : {"idle", "waiting", "ready", "sent"}, by : -1..c.maxBuild]]
        /\ \A q \in c.requests : /\ req'[q].pc = "sent" => req'[q] = req[q] \/ (q = r /\ req'[q].by = by)
                                 /\ req'[q].pc = "ready" => req[q].pc = "ready"
    BY <2>1, <2>4 DEF SignerInv, Signer!SignerTypeOK
  <2>3. Signer(c)!SignerTypeOK'
    BY <2>1, <2>2 DEF SignerInv, Signer!SignerTypeOK
  <2> QED
    BY <2>1, <2>2, <2>3, <2>4 DEF SignerInv, Calm
<1>3. CASE Signer(c)!Pass(r) \/ Signer(c)!TurnedBack(r)
  <2>1. /\ req[r].pc = "sent" /\ req' = [req EXCEPT ![r] = [pc |-> "idle", by |-> 0]]
        /\ cache' = cache \/ (cache' = [build |-> 0, old |-> FALSE] /\ (Calm => bots' = bots + 1))
        /\ UNCHANGED <<build, engine, flight, failures>>
        /\ bots' = bots \/ (bots < c.maxBots /\ bots' = bots + 1)
    <3>1. Calm => Signer(c)!Accepted(req[r].by) \/ req[r].pc # "sent"
      BY DEF Calm, SignerInv, Signer!Accepted
    <3> QED
      BY <1>3, <3>1 DEF Signer!Pass, Signer!TurnedBack, Signer!invalidateStatsigChallenge, Signer!NoCache
  <2>5. owed' \in BOOLEAN
    BY <1>3 DEF Signer!Pass, Signer!TurnedBack, SignerInv, Signer!SignerTypeOK
  <2>2. /\ req' \in [c.requests -> [pc : {"idle", "waiting", "ready", "sent"}, by : -1..c.maxBuild]]
        /\ \A q \in c.requests : req'[q].pc \in {"sent", "ready"} => req'[q] = req[q]
    BY <2>1 DEF SignerInv, Signer!SignerTypeOK
  <2>3. Signer(c)!SignerTypeOK'
    <3>2. 0 \in 0..c.maxBuild /\ cache \in [build : 0..c.maxBuild, old : BOOLEAN]
      BY DEF SignerInv, Signer!SignerTypeOK
    <3>3. cache' = cache \/ cache' = [build |-> 0, old |-> FALSE]
      BY <2>1
    <3>4. [build |-> 0, old |-> FALSE] \in [build : 0..c.maxBuild, old : BOOLEAN]
      BY <3>2
    <3>1. cache' \in [build : 0..c.maxBuild, old : BOOLEAN]
      BY <3>2, <3>3, <3>4
    <3> QED
      BY <2>1, <2>2, <2>5, <3>1 DEF SignerInv, Signer!SignerTypeOK
  <2>4. Calm' => Calm /\ cache' = cache
    BY <2>1 DEF Calm
  <2> QED
    BY <2>1, <2>2, <2>3, <2>4 DEF SignerInv
<1> QED
  BY <1>1, <1>2, <1>3 DEF Signer!Request

\* Whatever the builds, the failures and the requests: the types, and what a request of a
\* calm process is signed with.
LEMMA SignerStep ==
  ASSUME NEW CONSTANT c, Signer(c)!SignerAssumption, SignerInv(c), Signer(c)!Next \/ UNCHANGED signerVars
  PROVE  SignerInv(c)'
<1> USE SignerShape
<1>1. CASE Signer(c)!Reship
  BY <1>1 DEF Signer!Reship, SignerInv, Signer!SignerTypeOK, Calm
<1>2. CASE Signer(c)!TTLEnds
  <2>1. cache' = [cache EXCEPT !.old = TRUE] /\ UNCHANGED <<build, engine, flight, req, failures, bots, owed>>
    BY <1>2 DEF Signer!TTLEnds
  <2>2. cache'.build = cache.build /\ cache' \in [build : 0..c.maxBuild, old : BOOLEAN]
    BY <2>1 DEF SignerInv, Signer!SignerTypeOK
  <2> QED
    BY <2>1, <2>2 DEF SignerInv, Signer!SignerTypeOK, Calm
<1>3. CASE UNCHANGED signerVars
  BY <1>3 DEF signerVars, SignerInv, Signer!SignerTypeOK, Calm
<1> QED
  BY <1>1, <1>2, <1>3, SignerRefreshStep, SignerRequestStep DEF Signer!Next

\* A process that starts.
LEMMA SignerInitially ==
  ASSUME NEW CONSTANT c, Signer(c)!SignerAssumption, Signer(c)!Init
  PROVE  SignerInv(c)
<1>1. c.maxBuild \in Nat \ {0} /\ c.maxFailures \in Nat /\ c.maxBots \in Nat
  BY DEF Signer!SignerAssumption
<1>2. /\ build \in 1..c.maxBuild /\ engine \in 0..c.maxBuild /\ engine = 0
      /\ failures \in 0..c.maxFailures /\ bots \in 0..c.maxBots
  BY <1>1 DEF Signer!Init
<1>6. owed \in BOOLEAN
  BY DEF Signer!Init
<1>3. /\ cache = [build |-> 0, old |-> FALSE] /\ flight = [pc |-> "idle", page |-> 0]
      /\ req = [r \in c.requests |-> [pc |-> "idle", by |-> 0]]
  BY DEF Signer!Init, Signer!NoCache, Signer!Idle
<1>4. /\ cache \in [build : 0..c.maxBuild, old : BOOLEAN] /\ cache.build = 0
      /\ flight \in [pc : {"idle", "asked", "page", "engine"}, page : 0..c.maxBuild] /\ flight.pc = "idle"
  BY <1>1, <1>3
<1>5. /\ req \in [c.requests -> [pc : {"idle", "waiting", "ready", "sent"}, by : -1..c.maxBuild]]
      /\ \A r \in c.requests : req[r].pc = "idle"
  BY <1>1, <1>3
<1> QED
  BY <1>2, <1>4, <1>5, <1>6 DEF SignerInv, Signer!SignerTypeOK

\* Nobody signs with the defaults while all is calm.
LEMMA SignerImplies ==
  ASSUME NEW CONSTANT c, Signer(c)!SignerAssumption, SignerInv(c)
  PROVE  Signer(c)!SignerTypeOK /\ Signer(c)!ColdStartWaits
BY SignerShape DEF SignerInv, Calm, Signer!ColdStartWaits

-----------------------------------------------------------------------------
(* The clients that poll a job.                                            *)

\* Every route ends with the download.
LEMMA PolledRoute ==
  ASSUME NEW CONSTANT c, Polled(c)!PolledAssumption
  PROVE  /\ 1 \in 1..Len(Polled(c)!Route)
         /\ \A i \in 1..Len(Polled(c)!Route) : Polled(c)!Route[i] # "download" => i + 1 \in 1..Len(Polled(c)!Route)
<1>1. c.client \in {"krea", "imagine", "leonardo", "runway"}
  BY DEF Polled!PolledAssumption
<1>2. CASE c.client = "krea"
  BY <1>2 DEF Polled!Route, Polled!KreaRoute
<1>3. CASE c.client = "imagine"
  BY <1>3 DEF Polled!Route, Polled!ImagineRoute
<1>4. CASE c.client = "leonardo"
  BY <1>4 DEF Polled!Route, Polled!LeonardoRoute
<1>5. CASE c.client = "runway"
  BY <1>5 DEF Polled!Route, Polled!RunwayRoute
<1> QED
  BY <1>1, <1>2, <1>3, <1>4, <1>5

\* The types; a job under way has been accepted.
PolledInv(c) == Polled(c)!PolledTypeOK /\ (job = "running" => paid >= 1)

\* What an error may say of the account.
Blames(c, e) ==
  /\ e = "auth" => acct \in c.dead \cup ruined' \/ (cred = 0 /\ left > 0)
  /\ e = "quota" => \/ acct \in c.spent
                    \/ c.client = "runway" /\ ("busy" \in c.troubles \/ acct \in ruined')

\* A step that goes on with the account.
PolledGoesOn(c) ==
  /\ at' = at \/ (at' = at + 1 /\ Polled(c)!Route[at] # "download")
  /\ UNCHANGED <<acct, dead, quota>> /\ outcome' \in {"open", "done"}
  /\ refs' = refs \/ (refs' = refs + 1 /\ refs < c.refs)
  /\ (job' = job /\ paid' = paid) \/ (job' = "running" /\ paid' = paid + 1)

\* What a step of the attempt may do: react to an error, or go on.
PolledMoves(c) ==
  /\ \/ \E e : Polled(c)!React(e) /\ Blames(c, e) /\ paid' \in {paid, paid + 1}
     \/ PolledGoesOn(c)
  /\ ruined' \in {ruined, ruined \cup {acct}}

\* Answers of a call.
LEMMA PolledAnswers ==
  ASSUME NEW CONSTANT c, Polled(c)!PolledAssumption, PolledInv(c),
         NEW phase, NEW ans \in Polled(c)!MayAnswer(phase)
  PROVE  /\ ans \in {"ok", "denied", "credit", "other", "net", "5xx", "busy", "junk", "empty"}
         /\ ans = "denied" => left > 0 /\ (acct \in c.dead \cup ruined \/ cred = 0)
         /\ ans = "credit" => phase = "submit" /\ acct \in c.spent
         /\ ans = "other" => phase = "submit"
         /\ ans = "busy" => ans \in c.troubles
         /\ Polled(c)!Noted(ans) => hiccups' \in 0..c.maxHiccups
<1>1. /\ c.troubles \subseteq {"net", "5xx", "busy", "junk", "empty"} /\ c.maxHiccups \in Nat
      /\ hiccups \in 0..c.maxHiccups /\ left \in Nat
  BY DEF Polled!PolledAssumption, PolledInv, Polled!PolledTypeOK
<1>2. CASE left = 0
  BY <1>1, <1>2 DEF Polled!MayAnswer, Polled!Noted
<1>3. CASE left > 0
  <2>1. \/ ans = Polled(c)!Truth(phase)
        \/ phase = "submit" /\ ans = "other"
        \/ ans \in c.troubles /\ hiccups < c.maxHiccups
    BY <1>3 DEF Polled!MayAnswer
  <2>2. ans = Polled(c)!Truth(phase) =>
          /\ ans \in {"ok", "denied", "credit"}
          /\ ans = "denied" => acct \in c.dead \cup ruined \/ cred = 0
          /\ ans = "credit" => phase = "submit" /\ acct \in c.spent
    BY DEF Polled!Truth
  <2>3. Polled(c)!Noted(ans) => hiccups' \in 0..c.maxHiccups
    BY <1>1, <2>1, <2>2 DEF Polled!Noted
  <2> QED
    BY <1>1, <1>3, <2>1, <2>2, <2>3
<1> QED
  BY <1>1, <1>2, <1>3

\* Errors are about what has been answered.
LEMMA PolledCalls ==
  ASSUME NEW CONSTANT c, Polled(c)!PolledAssumption, PolledInv(c),
         NEW phase, NEW ans \in Polled(c)!MayAnswer(phase),
         ruined \subseteq ruined', phase = "renew" /\ ans \in {"junk", "empty"} => acct \in ruined'
  PROVE  /\ Blames(c, Polled(c)!Call(phase, ans))
         /\ Blames(c, Polled(c)!PollTrouble(ans))
         /\ Blames(c, Polled(c)!download(ans))
<1>1. c.client \in {"krea", "imagine", "leonardo", "runway"}
  BY DEF Polled!PolledAssumption
<1>2. Blames(c, Polled(c)!Call(phase, ans))
  BY <1>1, PolledAnswers DEF Blames, Polled!Call, Polled!apiJSON, Polled!ensureProject, Polled!graphql,
     Polled!refreshSession, Polled!apiPostP
<1>3. Blames(c, Polled(c)!PollTrouble(ans))
  BY <1>1, PolledAnswers DEF Blames, Polled!PollTrouble, Polled!KreaPoll, Polled!LeonardoPoll,
     Polled!RunwayPoll,
     Polled!apiJSON
<1>4. Blames(c, Polled(c)!download(ans))
  BY DEF Blames, Polled!download, Polled!downloadArtifact, Polled!downloadImage
<1> QED
  BY <1>2, <1>3, <1>4

\* Every step of the attempt is such a move.
LEMMA PolledWorkMoves ==
  ASSUME NEW CONSTANT c, Polled(c)!PolledAssumption, PolledInv(c), Polled(c)!Work
  PROVE  /\ PolledMoves(c) /\ left' = left /\ fails' = fails
         /\ hiccups' \in 0..c.maxHiccups /\ refused' \in BOOLEAN
         /\ cred' = cred \/ cred' \in c.lead..(c.budget + 1)
<1>0. /\ outcome \in {"open", "done", "failed"} /\ refused \in BOOLEAN /\ hiccups \in 0..c.maxHiccups
  BY DEF PolledInv, Polled!PolledTypeOK
<1>1. ASSUME NEW phase \in {"renew", "setup"}, Polled(c)!In(phase), Polled(c)!Renewed(phase),
             UNCHANGED <<left, paid, refused, fails>>,
             NEW ans \in Polled(c)!MayAnswer(phase), Polled(c)!Noted(ans),
             Polled(c)!Onward \/ Polled(c)!React(Polled(c)!Call(phase, ans)),
             ruined' \in {ruined, ruined \cup {acct}},
             phase = "renew" /\ ans \in {"junk", "empty"} => acct \in ruined'
      PROVE  /\ PolledMoves(c) /\ left' = left /\ fails' = fails
             /\ hiccups' \in 0..c.maxHiccups /\ refused' \in BOOLEAN
             /\ cred' = cred \/ cred' \in c.lead..(c.budget + 1)
  <2>1. hiccups' \in 0..c.maxHiccups /\ Blames(c, Polled(c)!Call(phase, ans))
    BY <1>1, PolledAnswers, PolledCalls
  <2>2. PolledMoves(c)
    BY <1>1, <2>1 DEF PolledMoves, PolledGoesOn, Polled!Onward, Polled!In
  <2>3. cred' = cred \/ cred' \in c.lead..(c.budget + 1)
    BY <1>1 DEF Polled!Renewed
  <2> QED
    BY <1>0, <1>1, <2>1, <2>2, <2>3
<1>8. CASE Polled(c)!RefreshIfNeeded
  <2>1. PICK ans \in Polled(c)!MayAnswer("renew") :
          /\ Polled(c)!Noted(ans)
          /\ Polled(c)!Onward \/ Polled(c)!React(Polled(c)!Call("renew", ans))
          /\ ruined' \in {ruined, ruined \cup {acct}}
          /\ ans \in {"junk", "empty"} => ruined' = ruined \cup {acct}
    BY <1>8 DEF Polled!RefreshIfNeeded
  <2> QED
    BY <1>1, <1>8, <2>1 DEF Polled!RefreshIfNeeded
<1>9. CASE Polled(c)!Setup
  <2>1. PICK ans \in Polled(c)!MayAnswer("setup") :
          /\ Polled(c)!Noted(ans)
          /\ Polled(c)!Onward \/ Polled(c)!React(Polled(c)!Call("setup", ans))
    BY <1>9 DEF Polled!Setup
  <2> QED
    BY <1>1, <1>9, <2>1 DEF Polled!Setup
<1>2. CASE Polled(c)!uploadImage
  <2>1. PICK ans \in Polled(c)!MayAnswer("refs") :
          /\ Polled(c)!Noted(ans)
          /\ \/ refs' = refs + 1 /\ UNCHANGED <<acct, at, outcome, job, dead, quota>>
             \/ Polled(c)!React(Polled(c)!Call("refs", ans))
    BY <1>2 DEF Polled!uploadImage
  <2>2. ruined' = ruined /\ hiccups' \in 0..c.maxHiccups /\ Blames(c, Polled(c)!Call("refs", ans))
    BY <1>2, <2>1, PolledAnswers, PolledCalls DEF Polled!uploadImage
  <2> QED
    BY <1>0, <1>2, <2>1, <2>2 DEF Polled!uploadImage, PolledMoves, PolledGoesOn, Polled!In
<1>3. CASE Polled(c)!RefsDone
  BY <1>0, <1>3 DEF Polled!RefsDone, Polled!Onward, Polled!In, PolledMoves, PolledGoesOn
<1>4. CASE Polled(c)!submitGeneration
  <2>1. PICK ans \in Polled(c)!MayAnswer("submit") :
          /\ Polled(c)!Noted(ans) /\ refused' = (refused \/ ans = "other")
          /\ \/ job' = "running" /\ paid' = paid + 1 /\ at' = at + 1 /\ UNCHANGED <<acct, outcome, refs, dead, quota>>
             \/ paid' \in {paid, paid + 1} /\ Polled(c)!React(Polled(c)!Call("submit", ans))
    BY <1>4 DEF Polled!submitGeneration
  <2>2. ruined' = ruined /\ hiccups' \in 0..c.maxHiccups /\ Blames(c, Polled(c)!Call("submit", ans))
    BY <1>4, <2>1, PolledAnswers, PolledCalls DEF Polled!submitGeneration
  <2>3. refused' \in BOOLEAN
    BY <1>0, <2>1
  <2>4. Polled(c)!Route[at] = "submit" /\ outcome = "open" /\ UNCHANGED <<left, cred, fails>>
    BY <1>4 DEF Polled!submitGeneration, Polled!In
  <2> QED
    BY <2>1, <2>2, <2>3, <2>4 DEF PolledMoves, PolledGoesOn
<1>5. CASE Polled(c)!PollSees \/ Polled(c)!PollTimesOut
  BY <1>0, <1>5 DEF Polled!PollSees, Polled!PollTimesOut, Polled!Onward, Polled!In, PolledMoves,
     PolledGoesOn, Blames
<1>6. CASE Polled(c)!PollFails
  <2>1. PICK ans \in Polled(c)!MayAnswer("poll") :
          /\ Polled(c)!Noted(ans)
          /\ \/ UNCHANGED <<acct, at, outcome, refs, job, dead, quota>>
             \/ Polled(c)!React(Polled(c)!PollTrouble(ans))
    BY <1>6 DEF Polled!PollFails
  <2>2. ruined' = ruined /\ hiccups' \in 0..c.maxHiccups /\ Blames(c, Polled(c)!PollTrouble(ans))
    BY <1>6, <2>1, PolledAnswers, PolledCalls DEF Polled!PollFails
  <2> QED
    BY <1>0, <1>6, <2>1, <2>2 DEF Polled!PollFails, PolledMoves, PolledGoesOn, Polled!In
<1>7. CASE Polled(c)!fetchResult
  <2>1. PICK ans \in Polled(c)!MayAnswer("download") :
          /\ Polled(c)!Noted(ans)
          /\ \/ outcome' = "done" /\ UNCHANGED <<acct, at, refs, job, dead, quota>>
             \/ Polled(c)!React(Polled(c)!download(ans))
    BY <1>7 DEF Polled!fetchResult
  <2>2. ruined' = ruined /\ hiccups' \in 0..c.maxHiccups /\ Blames(c, Polled(c)!download(ans))
    BY <1>7, <2>1, PolledAnswers, PolledCalls DEF Polled!fetchResult
  <2> QED
    BY <1>0, <1>7, <2>1, <2>2 DEF Polled!fetchResult, PolledMoves, PolledGoesOn, Polled!In
<1> QED
  BY <1>2, <1>3, <1>4, <1>5, <1>6, <1>7, <1>8, <1>9 DEF Polled!Work

\* A reaction keeps the types.
LEMMA PolledReactStep ==
  ASSUME NEW CONSTANT c, Polled(c)!PolledAssumption, PolledInv(c), NEW e, Polled(c)!React(e)
  PROVE  /\ acct' \in Polled(c)!Accounts /\ at' \in 1..Len(Polled(c)!Route)
         /\ outcome' \in {"open", "failed"} /\ refs' = 0 /\ job' = "none"
         /\ dead' = dead \/ (dead' = dead \cup {acct} /\ (e = "auth" \/ (e = "quota" /\ c.client = "runway")))
         /\ quota' = quota \/ (quota' = quota \cup {acct} /\ e = "quota" /\ c.client # "runway")
<1>1. acct \in 1..c.last /\ c.last \in Nat \ {0} /\ at \in 1..Len(Polled(c)!Route) /\ 1 \in 1..Len(Polled(c)!Route)
  BY PolledRoute DEF PolledInv, Polled!PolledTypeOK, Polled!PolledAssumption, Polled!Accounts
<1>2. \/ acct < c.last /\ Polled(c)!Begin(acct + 1)
      \/ Polled(c)!Begin(1) \/ Polled(c)!Fails
  BY DEF Polled!React, Polled!RunwayReact, Polled!PoolReact
<1>3. acct' \in 1..c.last /\ at' \in 1..Len(Polled(c)!Route) /\ outcome' \in {"open", "failed"}
  BY <1>1, <1>2 DEF Polled!Begin, Polled!Fails
<1> QED
  BY <1>3 DEF Polled!React, Polled!RunwayReact, Polled!PoolReact, Polled!Accounts

\* The types, for any client and any troubles.
LEMMA PolledStep ==
  ASSUME NEW CONSTANT c, Polled(c)!PolledAssumption, PolledInv(c), Polled(c)!Next \/ UNCHANGED polledVars
  PROVE  PolledInv(c)'
<1>0. /\ c.refs \in Nat /\ c.budget \in Nat /\ c.headroom \in 1..c.budget /\ c.lead \in 1..c.budget
      /\ c.maxFails \in Nat
  BY DEF Polled!PolledAssumption
<1>1. CASE Polled(c)!Work
  <2>1. /\ left' = left /\ fails' = fails /\ hiccups' \in 0..c.maxHiccups /\ refused' \in BOOLEAN
        /\ cred' \in 0..(c.budget + 1) /\ PolledMoves(c)
    <3>1. /\ left' = left /\ fails' = fails /\ hiccups' \in 0..c.maxHiccups /\ refused' \in BOOLEAN
          /\ cred' = cred \/ cred' \in c.lead..(c.budget + 1)
          /\ PolledMoves(c)
      BY <1>1, PolledWorkMoves
    <3>2. cred \in 0..(c.budget + 1)
      BY DEF PolledInv, Polled!PolledTypeOK
    <3> QED
      BY <1>0, <3>1, <3>2
  <2>4. ruined' \subseteq Polled(c)!Accounts
    BY <2>1 DEF PolledInv, Polled!PolledTypeOK, PolledMoves
  <2>2. CASE \E e : Polled(c)!React(e) /\ paid' \in {paid, paid + 1}
    <3>1. /\ acct' \in Polled(c)!Accounts /\ at' \in 1..Len(Polled(c)!Route)
          /\ outcome' \in {"open", "failed"} /\ refs' = 0 /\ job' = "none"
          /\ dead' \subseteq dead \cup {acct} /\ quota' \subseteq quota \cup {acct}
      BY <2>2, PolledReactStep
    <3>2. dead' \subseteq Polled(c)!Accounts /\ quota' \subseteq Polled(c)!Accounts
      BY <3>1 DEF PolledInv, Polled!PolledTypeOK
    <3>3. paid' \in Nat /\ left' \in 0..c.budget /\ fails' \in 0..c.maxFails /\ refs' \in 0..c.refs
      BY <1>0, <2>1, <2>2, <3>1 DEF PolledInv, Polled!PolledTypeOK
    <3>4. /\ outcome' \in {"open", "done", "failed"} /\ job' \in {"none", "running", "made", "failed"}
          /\ job' # "running"
      BY <3>1
    <3> QED
      BY <2>1, <2>4, <3>1, <3>2, <3>3, <3>4 DEF PolledInv, Polled!PolledTypeOK
  <2>3. CASE PolledGoesOn(c)
    <3>1. at' \in 1..Len(Polled(c)!Route)
      BY <2>3, PolledRoute DEF PolledGoesOn, PolledInv, Polled!PolledTypeOK
    <3>2. UNCHANGED <<acct, dead, quota>> /\ outcome' \in {"open", "done"}
      BY <2>3 DEF PolledGoesOn
    <3>3. refs' \in 0..c.refs
      BY <1>0, <2>3 DEF PolledGoesOn, PolledInv, Polled!PolledTypeOK
    <3>4. job' \in {"none", "running", "made", "failed"} /\ paid' \in Nat /\ (job' = "running" => paid' >= 1)
      BY <2>3 DEF PolledGoesOn, PolledInv, Polled!PolledTypeOK
    <3> QED
      BY <2>1, <2>4, <3>1, <3>2, <3>3, <3>4 DEF PolledInv, Polled!PolledTypeOK
  <2> QED
    BY <2>1, <2>2, <2>3 DEF PolledMoves
<1>2. CASE Polled(c)!Rendered
  <2>1. paid \in Nat /\ paid >= 1 /\ fails \in 0..c.maxFails
    BY <1>2 DEF Polled!Rendered, PolledInv, Polled!PolledTypeOK
  <2>2. /\ job' \in {"none", "running", "made", "failed"} /\ job' # "running"
        /\ UNCHANGED <<acct, at, outcome, refs, left, cred, dead, quota, refused, ruined, hiccups>>
        /\ (fails' = fails /\ paid' = paid) \/ (fails < c.maxFails /\ fails' = fails + 1 /\ paid' = paid - 1)
    BY <1>2 DEF Polled!Rendered
  <2>3. paid' \in Nat /\ fails' \in 0..c.maxFails
    BY <1>0, <2>1, <2>2
  <2> QED
    BY <2>2, <2>3 DEF PolledInv, Polled!PolledTypeOK
<1>3. CASE Polled(c)!Minute
  BY <1>0, <1>3 DEF Polled!Minute, PolledInv, Polled!PolledTypeOK
<1>4. CASE Polled(c)!Ended \/ UNCHANGED polledVars
  BY <1>4 DEF Polled!Ended, Polled!vars, polledVars, PolledInv, Polled!PolledTypeOK
<1> QED
  BY <1>1, <1>2, <1>3, <1>4 DEF Polled!Next

\* Nothing has been asked yet.
LEMMA PolledInitially ==
  ASSUME NEW CONSTANT c, Polled(c)!PolledAssumption, Polled(c)!Init
  PROVE  PolledInv(c)
<1>1. /\ c.refs \in Nat /\ c.budget \in Nat /\ c.lead \in 1..c.budget /\ c.last \in Nat \ {0}
      /\ c.maxHiccups \in Nat /\ c.maxFails \in Nat /\ 1 \in 1..Len(Polled(c)!Route)
  BY PolledRoute DEF Polled!PolledAssumption
<1>2. /\ acct \in Polled(c)!Accounts /\ at \in 1..Len(Polled(c)!Route) /\ refs \in 0..c.refs
      /\ left \in 0..c.budget /\ cred \in 0..(c.budget + 1) /\ hiccups \in 0..c.maxHiccups
      /\ fails \in 0..c.maxFails
  BY <1>1 DEF Polled!Init, Polled!Accounts
<1>3. /\ outcome = "open" /\ job = "none" /\ paid = 0 /\ dead = {} /\ quota = {} /\ ruined = {}
      /\ refused \in BOOLEAN
  BY DEF Polled!Init
<1> QED
  BY <1>2, <1>3 DEF PolledInv, Polled!PolledTypeOK

\* Who is blamed had it coming: no credential runs out before the context does.
PolledTrue(c) == left <= cred /\ Polled(c)!MarkedIsTrue

\* The minutes of the credential and of the context.
LEMMA PolledMinutes ==
  ASSUME NEW CONSTANT c, Polled(c)!PolledAssumption, c.lead = c.budget, PolledInv(c), left <= cred,
         Polled(c)!Next \/ UNCHANGED polledVars
  PROVE  (left <= cred)'
<1>0. left \in 0..c.budget /\ cred \in 0..(c.budget + 1) /\ c.budget \in Nat
  BY DEF PolledInv, Polled!PolledTypeOK, Polled!PolledAssumption
<1>1. CASE Polled(c)!Work
  <2>1. left' = left /\ (cred' = cred \/ cred' \in c.budget..(c.budget + 1))
    BY <1>1, PolledWorkMoves
  <2> QED
    BY <1>0, <2>1
<1>2. CASE Polled(c)!Minute
  BY <1>0, <1>2 DEF Polled!Minute
<1>3. CASE Polled(c)!Rendered \/ Polled(c)!Ended \/ UNCHANGED polledVars
  BY <1>3 DEF Polled!Rendered, Polled!Ended, Polled!vars, polledVars
<1> QED
  BY <1>1, <1>2, <1>3 DEF Polled!Next

\* Only a dead account is disabled, only a spent one set to quota.
LEMMA PolledTrueStep ==
  ASSUME NEW CONSTANT c, Polled(c)!PolledAssumption, Lasting(c), PolledInv(c), PolledTrue(c),
         Polled(c)!Next \/ UNCHANGED polledVars
  PROVE  PolledTrue(c)'
<1>1. (left <= cred)'
  BY PolledMinutes DEF Lasting, PolledTrue
<1>2. /\ (dead' = dead /\ quota' = quota) \/ \E e : Polled(c)!React(e) /\ Blames(c, e)
      /\ ruined \subseteq ruined'
  BY PolledWorkMoves DEF Polled!Next, PolledMoves, PolledGoesOn, Polled!Minute, Polled!Rendered, Polled!Ended,
     Polled!vars, polledVars
<1>3. ASSUME NEW e, Polled(c)!React(e), Blames(c, e)
      PROVE  Polled(c)!MarkedIsTrue'
  <2>1. left \in Nat /\ cred \in Nat
    BY DEF PolledInv, Polled!PolledTypeOK, Polled!PolledAssumption
  <2>2. /\ e = "auth" => acct \in c.dead \cup ruined'
        /\ e = "quota" => acct \in c.spent \/ (c.client = "runway" /\ acct \in ruined')
    BY <1>3, <2>1 DEF Blames, PolledTrue, Lasting
  <2>3. /\ dead' = dead \/ (dead' = dead \cup {acct} /\ (e = "auth" \/ (e = "quota" /\ c.client = "runway")))
        /\ quota' = quota \/ (quota' = quota \cup {acct} /\ e = "quota" /\ c.client # "runway")
    BY <1>3, PolledReactStep
  <2> QED
    BY <1>2, <2>2, <2>3 DEF PolledTrue, Polled!MarkedIsTrue
<1> QED
  BY <1>1, <1>2, <1>3 DEF PolledTrue, Polled!MarkedIsTrue

\* Nobody has been blamed yet.
LEMMA PolledTrueInitially ==
  ASSUME NEW CONSTANT c, Polled(c)!PolledAssumption, c.lead = c.budget, Polled(c)!Init
  PROVE  PolledTrue(c)
<1>1. left = c.budget /\ cred \in c.budget..(c.budget + 1) /\ c.budget \in Nat
  BY DEF Polled!Init, Polled!PolledAssumption
<1> QED
  BY <1>1 DEF Polled!Init, PolledTrue, Polled!MarkedIsTrue

-----------------------------------------------------------------------------
\* The job that was accepted is being polled or downloaded.
PolledOnce(c) ==
  /\ left <= cred /\ left >= 1
  /\ outcome = "open" /\ Polled(c)!Route[at] # "download" => left > c.headroom
  /\ paid <= 1
  /\ outcome = "open" /\ paid = 1 =>
       Polled(c)!Route[at] \in {"poll", "download"} /\ job \in {"running", "made"} /\ acct \notin c.dead

\* What follows what on the routes.
LEMMA PolledOrder ==
  ASSUME NEW CONSTANT c, Polled(c)!PolledAssumption, NEW i \in 1..Len(Polled(c)!Route)
  PROVE  /\ Polled(c)!Route[i] = "submit" => Polled(c)!Route[i + 1] = "poll"
         /\ Polled(c)!Route[i] = "poll" => Polled(c)!Route[i + 1] = "download"
<1>1. c.client \in {"krea", "imagine", "leonardo", "runway"}
  BY DEF Polled!PolledAssumption
<1>2. CASE c.client = "krea"
  BY <1>2 DEF Polled!Route, Polled!KreaRoute
<1>3. CASE c.client = "imagine"
  BY <1>3 DEF Polled!Route, Polled!ImagineRoute
<1>4. CASE c.client = "leonardo"
  BY <1>4 DEF Polled!Route, Polled!LeonardoRoute
<1>5. CASE c.client = "runway"
  BY <1>5 DEF Polled!Route, Polled!RunwayRoute
<1> QED
  BY <1>1, <1>2, <1>3, <1>4, <1>5

\* Who has paid for nothing may start over.
LEMMA PolledOnceReact ==
  ASSUME NEW CONSTANT c, Polled(c)!PolledAssumption, Prompt(c), PolledInv(c), PolledOnce(c),
         Polled(c)!Next, left' = left, left > c.headroom \/ outcome' = "failed", paid' = 0 \/ (paid' = 1 /\ outcome' = "failed")
  PROVE  PolledOnce(c)'
BY PolledMinutes DEF PolledOnce, Prompt, Lasting

\* The phases before the submission.
LEMMA PolledOnceBefore ==
  ASSUME NEW CONSTANT c, Polled(c)!PolledAssumption, Prompt(c), PolledInv(c), PolledOnce(c),
         Polled(c)!RefreshIfNeeded \/ Polled(c)!Setup \/ Polled(c)!uploadImage \/ Polled(c)!RefsDone
  PROVE  PolledOnce(c)'
<1>1. /\ outcome = "open" /\ Polled(c)!Route[at] \in {"renew", "setup", "refs"}
      /\ paid' = paid /\ left' = left /\ Polled(c)!Next
  BY DEF Polled!RefreshIfNeeded, Polled!Setup, Polled!uploadImage, Polled!RefsDone, Polled!In, Polled!Next,
     Polled!Work
<1>2. paid = 0 /\ left > c.headroom
  BY <1>1 DEF PolledOnce, PolledInv, Polled!PolledTypeOK
<1> QED
  BY <1>1, <1>2, PolledOnceReact

\* The submission: an account that takes it is polled.
LEMMA PolledOnceSubmit ==
  ASSUME NEW CONSTANT c, Polled(c)!PolledAssumption, Prompt(c), PolledInv(c), PolledOnce(c),
         Polled(c)!submitGeneration
  PROVE  PolledOnce(c)'
<1>1. /\ outcome = "open" /\ Polled(c)!Route[at] = "submit" /\ left' = left /\ cred' = cred /\ Polled(c)!Next
      /\ at \in 1..Len(Polled(c)!Route) /\ left \in Nat /\ c.headroom \in Nat
  BY DEF Polled!submitGeneration, Polled!In, Polled!Next, Polled!Work, PolledInv, Polled!PolledTypeOK,
     Polled!PolledAssumption
<1>2. paid = 0 /\ left > c.headroom
  BY <1>1 DEF PolledOnce, PolledInv, Polled!PolledTypeOK
<1>3. PICK ans \in Polled(c)!MayAnswer("submit") :
        \/ /\ ans = "ok" /\ job' = "running" /\ paid' = paid + 1 /\ at' = at + 1
           /\ UNCHANGED <<acct, outcome, refs, dead, quota>>
        \/ ans \in {"net", "junk"} /\ Polled(c)!Truth("submit") = "ok"
        \/ paid' = paid
  BY DEF Polled!submitGeneration
<1>4. ans \in {Polled(c)!Truth("submit"), "other"}
  BY <1>1, <1>2, <1>3 DEF Polled!MayAnswer, Prompt
<1>5. CASE paid' = paid
  BY <1>1, <1>2, <1>5, PolledOnceReact
<1>6. CASE paid' # paid
  <2>1. ans = "ok" /\ Polled(c)!Truth("submit") = "ok"
    BY <1>3, <1>4, <1>6
  <2>2. acct \notin c.dead
    BY <2>1 DEF Polled!Truth
  <2>3. Polled(c)!Route[at'] = "poll"
    BY <1>1, <1>3, <1>6, <2>1, PolledOrder
  <2> QED
    BY <1>1, <1>2, <1>3, <1>6, <2>1, <2>2, <2>3 DEF PolledOnce
<1> QED
  BY <1>5, <1>6

\* The polls do not give up what has been accepted.
LEMMA PolledOncePoll ==
  ASSUME NEW CONSTANT c, Polled(c)!PolledAssumption, Prompt(c), PolledInv(c), PolledOnce(c),
         Polled(c)!PollSees \/ Polled(c)!PollFails \/ Polled(c)!PollTimesOut
  PROVE  PolledOnce(c)'
<1>1. /\ outcome = "open" /\ Polled(c)!Route[at] = "poll" /\ left' = left /\ cred' = cred /\ Polled(c)!Next
      /\ paid' = paid /\ paid \in Nat
      /\ at \in 1..Len(Polled(c)!Route) /\ left \in Nat /\ cred \in Nat /\ c.headroom \in Nat
  BY DEF Polled!PollSees, Polled!PollFails, Polled!PollTimesOut, Polled!In, Polled!Next, Polled!Work,
     PolledInv,
     Polled!PolledTypeOK, Polled!PolledAssumption
<1>2. paid \in {0, 1} /\ left > c.headroom /\ left >= 1 /\ cred >= 1
  BY <1>1 DEF PolledOnce
<1>3. CASE paid = 0
  BY <1>1, <1>2, <1>3, PolledOnceReact
<1>4. CASE paid = 1
  <2>1. job \in {"running", "made"} /\ acct \notin c.dead
    BY <1>1, <1>4 DEF PolledOnce
  <2>2. ~Polled(c)!PollTimesOut
    BY <1>1, <1>2 DEF Polled!PollTimesOut
  <2>3. CASE Polled(c)!PollSees
    <3>1. Polled(c)!Onward
      BY <2>1, <2>3 DEF Polled!PollSees
    <3>2. Polled(c)!Route[at'] = "download"
      BY <1>1, <3>1, PolledOrder DEF Polled!Onward
    <3> QED
      BY <1>1, <1>2, <1>4, <2>1, <3>1, <3>2 DEF Polled!Onward, PolledOnce
  <2>4. CASE Polled(c)!PollFails
    <3>1. PICK ans \in Polled(c)!MayAnswer("poll") \ {"ok"} :
            IF Polled(c)!PollTrouble(ans) = "again"
              THEN UNCHANGED <<acct, at, outcome, refs, job, dead, quota>>
              ELSE Polled(c)!React(Polled(c)!PollTrouble(ans))
      BY <2>4 DEF Polled!PollFails
    <3>2. Polled(c)!Truth("poll") = "ok"
      BY <1>2, <2>1 DEF Polled!Truth
    <3>3. ans \in c.troubles /\ ans \in {"net", "5xx", "busy", "junk", "empty"}
      BY <1>2, <3>1, <3>2 DEF Polled!MayAnswer, Polled!PolledAssumption
    <3>4. Polled(c)!PollTrouble(ans) \in {"again", "plain"}
      BY <3>3 DEF Prompt, Lasting, Polled!PollTrouble, Polled!KreaPoll, Polled!RunwayPoll, Polled!apiJSON
    <3>5. CASE Polled(c)!PollTrouble(ans) = "again"
      BY <1>1, <1>2, <1>4, <2>1, <3>1, <3>5 DEF PolledOnce
    <3>6. CASE Polled(c)!PollTrouble(ans) = "plain"
      <4>1. Polled(c)!React("plain")
        BY <3>1, <3>6
      <4>2. outcome' = "failed"
        BY <4>1 DEF Polled!React, Polled!RunwayReact, Polled!PoolReact, Polled!Fails
      <4> QED
        BY <1>1, <1>4, <4>2, PolledOnceReact
    <3> QED
      BY <3>4, <3>5, <3>6
  <2> QED
    BY <2>2, <2>3, <2>4
<1> QED
  BY <1>2, <1>3, <1>4

\* No job is paid for twice.
LEMMA PolledOnceStep ==
  ASSUME NEW CONSTANT c, Polled(c)!PolledAssumption, Prompt(c), PolledInv(c), PolledOnce(c),
         Polled(c)!Next \/ UNCHANGED polledVars
  PROVE  PolledOnce(c)'
<1>0. /\ left \in Nat /\ paid \in Nat /\ c.headroom \in Nat /\ c.headroom >= 1
      /\ (left <= cred)'
  <2>1. left \in Nat /\ paid \in Nat
    BY DEF PolledInv, Polled!PolledTypeOK, Polled!PolledAssumption
  <2>2. c.headroom \in Nat /\ c.headroom >= 1
    BY DEF Polled!PolledAssumption
  <2>3. (left <= cred)'
    BY PolledMinutes DEF PolledOnce, Prompt, Lasting
  <2> QED
    BY <2>1, <2>2, <2>3
<1>1. CASE Polled(c)!fetchResult
  <2>1. Polled(c)!Truth("download") = "ok" /\ left >= 1
    BY DEF Polled!Truth, PolledOnce
  <2>2. Polled(c)!MayAnswer("download") = {"ok"}
    BY <1>0, <2>1 DEF Polled!MayAnswer, Prompt
  <2>3. outcome' = "done" /\ paid' = paid /\ left' = left
    BY <1>1, <2>2 DEF Polled!fetchResult, Polled!download, Polled!downloadArtifact, Polled!downloadImage
  <2> QED
    BY <1>0, <2>3 DEF PolledOnce
<1>2. CASE Polled(c)!Rendered
  <2>1. paid = 1 /\ UNCHANGED <<acct, at, outcome, left>>
    BY <1>0, <1>2 DEF Polled!Rendered, PolledInv, PolledOnce
  <2>2. (job' = "made" /\ paid' = paid) \/ paid' = 0
    BY <1>2, <2>1 DEF Polled!Rendered
  <2> QED
    BY <1>0, <2>1, <2>2 DEF PolledOnce
<1>3. CASE Polled(c)!Minute
  <2>1. /\ UNCHANGED <<acct, at, outcome, job, paid>> /\ left' = left - 1
        /\ left > c.headroom + 1 \/ (Polled(c)!Route[at] = "download" /\ left > 1)
    BY <1>3 DEF Polled!Minute, Polled!InTime, Prompt
  <2> QED
    BY <1>0, <2>1 DEF PolledOnce
<1>4. CASE Polled(c)!Ended \/ UNCHANGED polledVars
  BY <1>4 DEF Polled!Ended, Polled!vars, polledVars, PolledOnce
<1> QED
  BY <1>1, <1>2, <1>3, <1>4, PolledOnceBefore, PolledOnceSubmit, PolledOncePoll DEF Polled!Next, Polled!Work

\* Nothing has been paid for yet.
LEMMA PolledOnceInitially ==
  ASSUME NEW CONSTANT c, Polled(c)!PolledAssumption, Prompt(c), Polled(c)!Init
  PROVE  PolledOnce(c)
<1>1. /\ left = c.budget /\ cred \in c.budget..(c.budget + 1) /\ c.budget \in Nat /\ c.headroom \in Nat
      /\ c.headroom >= 1 /\ c.headroom < c.budget
  BY DEF Polled!Init, Polled!PolledAssumption, Prompt, Lasting
<1> QED
  BY <1>1 DEF Polled!Init, PolledOnce

\* Where a refusal of the request is told from the others, it is the end.
LEMMA PolledFinalStep ==
  ASSUME NEW CONSTANT c, Polled(c)!PolledAssumption, c.client \in {"runway", "leonardo"}, PolledInv(c),
         Polled(c)!RefusedIsFinal, Polled(c)!Next \/ UNCHANGED polledVars
  PROVE  Polled(c)!RefusedIsFinal'
<1>1. CASE Polled(c)!submitGeneration
  <2>1. PICK ans \in Polled(c)!MayAnswer("submit") :
          /\ refused' = (refused \/ ans = "other")
          /\ ans = "other" => Polled(c)!React(Polled(c)!Call("submit", ans))
    BY <1>1 DEF Polled!submitGeneration
  <2>2. ~refused
    BY <1>1 DEF Polled!submitGeneration, Polled!In, Polled!RefusedIsFinal
  <2>3. ASSUME ans = "other" PROVE outcome' = "failed"
    <3>1. Polled(c)!Call("submit", ans) = "plain"
      BY <2>3 DEF Polled!Call, Polled!apiJSON, Polled!graphql
    <3>2. Polled(c)!React("plain")
      BY <2>1, <2>3, <3>1
    <3> QED
      BY <3>2 DEF Polled!React, Polled!RunwayReact, Polled!PoolReact, Polled!Fails
  <2> QED
    BY <2>1, <2>2, <2>3 DEF Polled!RefusedIsFinal
<1>2. CASE \/ Polled(c)!RefreshIfNeeded \/ Polled(c)!Setup \/ Polled(c)!uploadImage \/ Polled(c)!RefsDone
           \/ Polled(c)!PollSees \/ Polled(c)!PollFails \/ Polled(c)!PollTimesOut \/ Polled(c)!fetchResult
           \/ Polled(c)!Minute
  <2>1. outcome = "open" /\ refused' = refused
    BY <1>2 DEF Polled!RefreshIfNeeded, Polled!Setup, Polled!uploadImage, Polled!RefsDone, Polled!PollSees,
       Polled!PollFails, Polled!PollTimesOut, Polled!fetchResult, Polled!Minute, Polled!In
  <2> QED
    BY <2>1 DEF Polled!RefusedIsFinal
<1>3. CASE Polled(c)!Rendered \/ Polled(c)!Ended \/ UNCHANGED polledVars
  BY <1>3 DEF Polled!Rendered, Polled!Ended, Polled!vars, polledVars, Polled!RefusedIsFinal
<1> QED
  BY <1>1, <1>2, <1>3 DEF Polled!Next, Polled!Work

\* What PolledInv, PolledTrue and PolledOnce say of the properties, and where they begin.
LEMMA PolledImplies ==
  ASSUME NEW CONSTANT c
  PROVE  /\ PolledInv(c) => Polled(c)!PolledTypeOK
         /\ PolledTrue(c) => Polled(c)!MarkedIsTrue
         /\ PolledOnce(c) => Polled(c)!PaidOnce
         /\ Polled(c)!Init => Polled(c)!RefusedIsFinal
BY DEF PolledInv, PolledTrue, PolledOnce, Polled!PaidOnce, Polled!Init, Polled!RefusedIsFinal

-----------------------------------------------------------------------------
(* ChatGPT.                                                                *)

\* The ids of a picture.
Picture == {<<"picture", 1>>}

ChatAttempts(c) ==
  [acct : 1..c.last, pc : ChatGPT(c)!Phases \cup {"done", "failed"}, refs : 0..c.refs, n : 0..c.polls,
   named : BOOLEAN, ids : SUBSET Picture]

\* An attempt: no reference is taken for the picture, and a conversation is polled by its
\* name; a text knows no allowance and no picture.
ChatAttempt(c) ==
  /\ chatAt \in ChatAttempts(c)
  /\ chatAt.pc \in {"quota", "bootstrap", "require"} => chatAt.refs = 0
  /\ chatAt.pc \in {"create", "raw", "process"} => chatAt.refs < c.refs
  /\ chatAt.pc \in {"poll", "fetch", "resolve", "download"} => chatAt.named
  /\ c.kind = "text" => chatAt.pc \notin {"quota", "poll", "resolve", "download", "settle"}

\* The accounts of the pass were tried one after the other.
ChatInv(c) ==
  /\ ChatGPT(c)!ChatGPTTypeOK /\ ChatAttempt(c) /\ chatTried = 1..chatAt.acct
  /\ ChatGPT(c)!PolicyIsFinal /\ ChatGPT(c)!TextGiven /\ ChatGPT(c)!FailsAfterAll

ChatErrors == {"auth", "quota", "temp", "plain", "policy", "unnamed"}

\* What an error may say of the account.
ChatBlames(c, e) ==
  /\ e = "auth" => chatAt.acct \in gone
  /\ e = "quota" => pictures[chatAt.acct] = 0 \/ "429" \in c.answers

ChatReacts(c) ==
  /\ \E e \in ChatErrors : ChatGPT(c)!React(e) /\ ChatBlames(c, e)
  /\ text' = text

ChatGoesOn(c) ==
  /\ ChatAttempt(c)' /\ chatAt'.acct = chatAt.acct /\ chatAt'.pc # "failed"
  /\ UNCHANGED <<chatTried, chatTemps, chatRounds, killed, final>>
  /\ chatLimited' = chatLimited \/ (pictures[chatAt.acct] = 0 /\ chatLimited' = chatLimited \cup {chatAt.acct})
  /\ conv' \in {conv, "working"} /\ text' \in {"none", "partly", "made"}
  /\ ChatGPT(c)!TextGiven'

\* What a step of the attempt may do.
ChatMoves(c) ==
  /\ ChatReacts(c) \/ ChatGoesOn(c)
  /\ chatTroubles' \in 0..c.maxTroubles /\ UNCHANGED <<pictures, gone, chatOver>>

\* The bounds of a case, and what the types say of the state.
LEMMA ChatShape ==
  ASSUME NEW CONSTANT c, ChatGPT(c)!ChatGPTAssumption, ChatInv(c)
  PROVE  /\ c.last \in Nat /\ c.last >= 1 /\ c.polls \in Nat /\ c.maxTemp \in Nat /\ c.maxTemp >= 1
         /\ c.refs \in Nat /\ c.maxTroubles \in Nat /\ c.maxRounds \in Nat /\ c.kind \in {"image", "text"}
         /\ chatAt.acct \in 1..c.last /\ chatAt.refs \in 0..c.refs /\ chatAt.n \in 0..c.polls
         /\ chatAt.named \in BOOLEAN /\ chatAt.ids \subseteq Picture
         /\ chatTroubles \in 0..c.maxTroubles /\ text \in {"none", "partly", "made"}
BY DEF ChatInv, ChatAttempt, ChatAttempts, ChatGPT!ChatGPTTypeOK, ChatGPT!ChatGPTAssumption

\* Answers of a call.
LEMMA ChatAnswers ==
  ASSUME NEW CONSTANT c, ChatGPT(c)!ChatGPTAssumption, ChatInv(c),
         NEW phase, NEW ans \in ChatGPT(c)!MayAnswer(phase)
  PROVE  /\ ChatGPT(c)!Noted(ans) => chatTroubles' \in 0..c.maxTroubles
         /\ ans # "ok" => /\ ChatGPT(c)!ensureOK(phase, ans) \in {"auth", "quota", "temp", "plain"}
                          /\ ChatBlames(c, ChatGPT(c)!ensureOK(phase, ans))
<1> USE ChatShape
<1>1. c.answers \subseteq {"net", "5xx", "junk", "edge", "429", "odd"}
  BY DEF ChatGPT!ChatGPTAssumption
<1>2. CASE chatOver
  <2>1. ans = "net"
    BY <1>2 DEF ChatGPT!MayAnswer
  <2>2. ChatGPT(c)!ensureOK(phase, ans) = "temp"
    BY <2>1 DEF ChatGPT!ensureOK
  <2> QED
    BY <1>2, <2>1, <2>2 DEF ChatGPT!Noted, ChatBlames
<1>3. CASE ~chatOver
  <2>1. \/ ans \in ChatGPT(c)!Truth(phase)
        \/ ans \in c.answers /\ chatTroubles < c.maxTroubles
    BY <1>3 DEF ChatGPT!MayAnswer
  <2>2. ans \in ChatGPT(c)!Truth(phase) =>
          ans = "ok" \/ (ans \in {"401", "invalid"} /\ phase # "bootstrap" /\ chatAt.acct \in gone)
    BY DEF ChatGPT!Truth
  <2>3. ChatGPT(c)!Noted(ans) => chatTroubles' \in 0..c.maxTroubles
    BY <1>1, <1>3, <2>1, <2>2 DEF ChatGPT!Noted
  <2>4. ChatGPT(c)!ensureOK(phase, ans) \in {"ok", "auth", "quota", "temp", "plain"}
    BY DEF ChatGPT!ensureOK
  <2>5. ans # "ok" => ChatGPT(c)!ensureOK(phase, ans) # "ok"
    BY DEF ChatGPT!ensureOK
  <2>6. ChatGPT(c)!ensureOK(phase, ans) = "auth" => chatAt.acct \in gone
    BY <1>1, <2>1, <2>2 DEF ChatGPT!ensureOK
  <2>7. ChatGPT(c)!ensureOK(phase, ans) = "quota" => "429" \in c.answers
    BY <1>1, <2>1, <2>2 DEF ChatGPT!ensureOK
  <2> QED
    BY <2>3, <2>4, <2>5, <2>6, <2>7 DEF ChatBlames
<1> QED
  BY <1>2, <1>3

\* An attempt that goes on in another phase.
LEMMA ChatOnward ==
  ASSUME NEW CONSTANT c, ChatGPT(c)!ChatGPTAssumption, ChatInv(c),
         NEW p \in ChatGPT(c)!Phases \cup {"done"}, chatAt' = [chatAt EXCEPT !.pc = p],
         p \in {"quota", "bootstrap", "require"} => chatAt.refs = 0,
         p \in {"create", "raw", "process"} => chatAt.refs < c.refs,
         p \in {"poll", "fetch", "resolve", "download"} => chatAt.named,
         c.kind = "text" => p \notin {"quota", "poll", "resolve", "download", "settle"}
  PROVE  ChatAttempt(c)' /\ chatAt'.acct = chatAt.acct /\ chatAt'.pc # "failed" /\ chatAt'.pc = p
<1>1. chatAt \in ChatAttempts(c)
  BY DEF ChatInv, ChatAttempt
<1>2. chatAt' \in ChatAttempts(c)
  BY <1>1 DEF ChatAttempts
<1>3. /\ chatAt'.pc = p /\ chatAt'.acct = chatAt.acct /\ chatAt'.refs = chatAt.refs
      /\ chatAt'.named = chatAt.named
  BY <1>1 DEF ChatAttempts
<1>4. p # "failed"
  BY DEF ChatGPT!Phases, ChatGPT!Calls
<1> QED
  BY <1>2, <1>3, <1>4 DEF ChatAttempt

\* A call that goes on when it succeeds.
LEMMA ChatStepMoves ==
  ASSUME NEW CONSTANT c, ChatGPT(c)!ChatGPTAssumption, ChatInv(c),
         NEW phase, NEW p \in ChatGPT(c)!Phases, ChatGPT(c)!Step(phase, p),
         p \in {"quota", "bootstrap", "require"} => chatAt.refs = 0,
         p \in {"create", "raw", "process"} => chatAt.refs < c.refs,
         p \in {"poll", "fetch", "resolve", "download"} => chatAt.named,
         c.kind = "text" => p \notin {"quota", "poll", "resolve", "download", "settle"}
  PROVE  ChatMoves(c)
<1>1. PICK ans \in ChatGPT(c)!MayAnswer(phase) :
        ChatGPT(c)!Noted(ans) /\ IF ans = "ok" THEN ChatGPT(c)!Onward(p) ELSE ChatGPT(c)!React(ChatGPT(c)!ensureOK(phase, ans))
  BY DEF ChatGPT!Step
<1>2. chatTroubles' \in 0..c.maxTroubles /\ UNCHANGED <<pictures, gone, chatOver>>
  BY <1>1, ChatAnswers DEF ChatGPT!Step, ChatGPT!Rest
<1>3. CASE ans = "ok"
  <2>1. /\ chatAt' = [chatAt EXCEPT !.pc = p]
        /\ UNCHANGED <<chatTried, chatTemps, chatRounds, conv, killed, chatLimited, final, text>>
    BY <1>1, <1>3 DEF ChatGPT!Onward, ChatGPT!Stay
  <2>2. ChatAttempt(c)' /\ chatAt'.acct = chatAt.acct /\ chatAt'.pc # "failed" /\ chatAt'.pc = p
    BY <2>1, ChatOnward
  <2>3. p # "done"
    BY DEF ChatGPT!Phases, ChatGPT!Calls
  <2> QED
    BY <1>2, <2>1, <2>2, <2>3, ChatShape DEF ChatMoves, ChatGoesOn, ChatGPT!TextGiven
<1>4. CASE ans # "ok"
  BY <1>1, <1>2, <1>4, ChatAnswers DEF ChatMoves, ChatReacts, ChatErrors, ChatGPT!React
<1> QED
  BY <1>3, <1>4

\* The calls before the conversation.
LEMMA ChatBeginMoves ==
  ASSUME NEW CONSTANT c, ChatGPT(c)!ChatGPTAssumption, ChatInv(c), ChatGPT(c)!Begin
  PROVE  ChatMoves(c)
<1> USE ChatShape
<1>0. /\ {"quota", "bootstrap", "require", "create", "raw", "process", "prepare", "start", "stream"} \subseteq ChatGPT(c)!Phases
      /\ chatAt \in ChatAttempts(c) /\ (chatAt.pc \in {"quota", "bootstrap", "require"} => chatAt.refs = 0)
      /\ chatAt.pc \in {"create", "raw", "process"} => chatAt.refs < c.refs
  BY DEF ChatGPT!Phases, ChatGPT!Calls, ChatInv, ChatAttempt
<1>1. CASE ChatGPT(c)!bootstrap
  BY <1>0, <1>1, ChatStepMoves DEF ChatGPT!bootstrap, ChatGPT!Step
<1>2. CASE ChatGPT(c)!getChatRequirements
  <2>1. chatAt.refs = 0
    BY <1>0, <1>2 DEF ChatGPT!getChatRequirements, ChatGPT!Step
  <2>2. c.refs = 0 \/ chatAt.refs < c.refs
    BY <2>1
  <2> QED
    BY <1>0, <1>2, <2>1, <2>2, ChatStepMoves DEF ChatGPT!getChatRequirements
<1>3. CASE ChatGPT(c)!createFileEntry
  BY <1>0, <1>3, ChatStepMoves DEF ChatGPT!createFileEntry, ChatGPT!Step
<1>4. CASE ChatGPT(c)!uploadRawFile
  BY <1>0, <1>4, ChatStepMoves DEF ChatGPT!uploadRawFile, ChatGPT!Step
<1>5. CASE ChatGPT(c)!prepareConversation
  BY <1>0, <1>5, ChatStepMoves DEF ChatGPT!prepareConversation
<1>6. CASE ChatGPT(c)!fetchImageQuota
  <2>1. PICK ans \in ChatGPT(c)!MayAnswer("quota") :
          /\ ChatGPT(c)!Noted(ans)
          /\ IF ans = "ok" /\ pictures[chatAt.acct] = 0
             THEN ChatGPT(c)!React("quota") ELSE ChatGPT(c)!Onward("bootstrap")
    BY <1>6 DEF ChatGPT!fetchImageQuota
  <2>2. chatTroubles' \in 0..c.maxTroubles /\ UNCHANGED <<pictures, gone, chatOver>>
    BY <1>6, <2>1, ChatAnswers DEF ChatGPT!fetchImageQuota, ChatGPT!Rest
  <2>3. CASE pictures[chatAt.acct] = 0 /\ ChatGPT(c)!React("quota")
    BY <2>2, <2>3 DEF ChatMoves, ChatReacts, ChatErrors, ChatBlames, ChatGPT!React
  <2>4. CASE ChatGPT(c)!Onward("bootstrap")
    <3>0. chatAt.refs = 0
      BY <1>0, <1>6 DEF ChatGPT!fetchImageQuota
    <3>1. ChatAttempt(c)' /\ chatAt'.acct = chatAt.acct /\ chatAt'.pc # "failed" /\ chatAt'.pc = "bootstrap"
      BY <1>0, <2>4, <3>0, ChatOnward DEF ChatGPT!Onward
    <3> QED
      BY <2>2, <2>4, <3>1 DEF ChatMoves, ChatGoesOn, ChatGPT!Onward, ChatGPT!Stay, ChatGPT!TextGiven
  <2> QED
    BY <2>1, <2>3, <2>4
<1>7. CASE ChatGPT(c)!processUploadStream
  <2>0. chatAt.refs < c.refs
    BY <1>0, <1>7 DEF ChatGPT!processUploadStream
  <2>1. PICK ans \in ChatGPT(c)!MayAnswer("process") :
          /\ ChatGPT(c)!Noted(ans)
          /\ IF ans = "ok"
               THEN /\ chatAt' = [chatAt EXCEPT !.refs = @ + 1, !.pc = IF chatAt.refs + 1 = c.refs THEN "prepare" ELSE "create"]
                    /\ ChatGPT(c)!Stay
               ELSE ChatGPT(c)!React(ChatGPT(c)!ensureOK("process", ans))
    BY <1>7 DEF ChatGPT!processUploadStream
  <2>2. chatTroubles' \in 0..c.maxTroubles /\ UNCHANGED <<pictures, gone, chatOver>>
    BY <1>7, <2>1, ChatAnswers DEF ChatGPT!processUploadStream, ChatGPT!Rest
  <2>3. CASE ans # "ok"
    BY <2>1, <2>2, <2>3, ChatAnswers DEF ChatMoves, ChatReacts, ChatErrors, ChatGPT!React
  <2>4. CASE ans = "ok"
    <3> DEFINE p == IF chatAt.refs + 1 = c.refs THEN "prepare" ELSE "create"
    <3>1. chatAt' = [chatAt EXCEPT !.refs = @ + 1, !.pc = p] /\ ChatGPT(c)!Stay
      BY <2>1, <2>4
    <3>2. /\ p \in ChatGPT(c)!Phases /\ p \in {"prepare", "create"} /\ (p = "create" => chatAt.refs + 1 < c.refs)
          /\ chatAt.refs + 1 \in 0..c.refs
      BY <1>0, <2>0
    <3> HIDE DEF p
    <3>3. chatAt' \in ChatAttempts(c)
      BY <1>0, <3>1, <3>2 DEF ChatAttempts
    <3>4. chatAt'.pc = p /\ chatAt'.acct = chatAt.acct /\ chatAt'.refs = chatAt.refs + 1
      BY <1>0, <3>1 DEF ChatAttempts
    <3>5. ChatAttempt(c)'
      BY <3>2, <3>3, <3>4 DEF ChatAttempt
    <3> QED
      BY <2>2, <3>1, <3>2, <3>4, <3>5 DEF ChatMoves, ChatGoesOn, ChatGPT!Stay, ChatGPT!TextGiven
  <2> QED
    BY <2>3, <2>4
<1>8. CASE ChatGPT(c)!startConversation
  <2>1. PICK ans \in ChatGPT(c)!MayAnswer("start") :
          /\ ChatGPT(c)!Noted(ans)
          /\ IF ans = "ok"
               THEN /\ chatAt' = [chatAt EXCEPT !.pc = "stream"] /\ conv' = "working"
                    /\ UNCHANGED <<chatTried, chatTemps, chatRounds, killed, chatLimited, final, text>>
               ELSE ChatGPT(c)!React(ChatGPT(c)!ensureOK("start", ans))
    BY <1>8 DEF ChatGPT!startConversation
  <2>2. chatTroubles' \in 0..c.maxTroubles /\ UNCHANGED <<pictures, gone, chatOver>>
    BY <1>8, <2>1, ChatAnswers DEF ChatGPT!startConversation, ChatGPT!Rest
  <2>3. CASE ans # "ok"
    BY <2>1, <2>2, <2>3, ChatAnswers DEF ChatMoves, ChatReacts, ChatErrors, ChatGPT!React
  <2>4. CASE ans = "ok"
    <3>1. ChatAttempt(c)' /\ chatAt'.acct = chatAt.acct /\ chatAt'.pc # "failed" /\ chatAt'.pc = "stream"
      BY <1>0, <2>1, <2>4, ChatOnward
    <3> QED
      BY <2>1, <2>2, <2>4, <3>1 DEF ChatMoves, ChatGoesOn, ChatGPT!TextGiven
  <2> QED
    BY <2>3, <2>4
<1> QED
  BY <1>1, <1>2, <1>3, <1>4, <1>5, <1>6, <1>7, <1>8 DEF ChatGPT!Begin, ChatGPT!Upload

\* What a conversation shows besides its references is the picture.
LEMMA ChatShown ==
  ASSUME NEW CONSTANT c, NEW ids, ids \subseteq ChatGPT(c)!Shown
  PROVE  ChatGPT(c)!dropIDs(ids) \subseteq Picture
BY DEF ChatGPT!Shown, ChatGPT!dropIDs, Picture

\* The stream of a conversation, and leaving it.
LEMMA ChatStreamMoves ==
  ASSUME NEW CONSTANT c, ChatGPT(c)!ChatGPTAssumption, ChatInv(c), ChatGPT(c)!Stream \/ ChatGPT(c)!LeaveStream
  PROVE  ChatMoves(c)
<1> USE ChatShape
<1>0. /\ {"stream", "poll", "fetch"} \subseteq ChatGPT(c)!Phases \cup {"done"}
      /\ {"stream", "poll", "fetch", "done"} \subseteq ChatGPT(c)!Phases \cup {"done"}
      /\ chatAt \in ChatAttempts(c)
  BY DEF ChatGPT!Phases, ChatGPT!Calls, ChatInv, ChatAttempt
<1>1. CASE ChatGPT(c)!StreamNames
  <2>1. PICK ids \in SUBSET ChatGPT(c)!Shown : chatAt' = [chatAt EXCEPT !.named = TRUE,
  !.ids = ChatGPT(c)!dropIDs(ids)]
    BY <1>1 DEF ChatGPT!StreamNames
  <2>2. ChatGPT(c)!dropIDs(ids) \subseteq Picture
    BY ChatShown
  <2>3. chatAt' \in ChatAttempts(c)
    BY <1>0, <2>1, <2>2 DEF ChatAttempts
  <2>4. /\ chatAt'.pc = "stream" /\ chatAt'.acct = chatAt.acct
    BY <1>0, <1>1, <2>1 DEF ChatAttempts, ChatGPT!StreamNames
  <2> QED
    BY <1>1, <2>3, <2>4 DEF ChatGPT!StreamNames, ChatGPT!Stay, ChatGPT!Rest, ChatMoves, ChatGoesOn,
       ChatAttempt,
       ChatGPT!TextGiven
<1>2. ASSUME NEW p \in {"poll", "fetch"}, ChatGPT(c)!Onward(p), chatAt.named, c.kind = "text" => p = "fetch",
             chatTroubles' \in 0..c.maxTroubles, UNCHANGED <<pictures, gone, chatOver>>
      PROVE  ChatMoves(c)
  <2>1. ChatAttempt(c)' /\ chatAt'.acct = chatAt.acct /\ chatAt'.pc # "failed" /\ chatAt'.pc = p
    BY <1>0, <1>2, ChatOnward DEF ChatGPT!Onward
  <2> QED
    BY <1>2, <2>1 DEF ChatMoves, ChatGoesOn, ChatGPT!Onward, ChatGPT!Stay, ChatGPT!TextGiven
<1>3. ASSUME NEW e \in {"temp", "unnamed"}, ChatGPT(c)!React(e),
             chatTroubles' \in 0..c.maxTroubles, UNCHANGED <<pictures, gone, chatOver>>
      PROVE  ChatMoves(c)
  BY <1>3 DEF ChatMoves, ChatReacts, ChatErrors, ChatBlames, ChatGPT!React
<1>4. CASE ChatGPT(c)!StreamBreaks
  <2>1. chatTroubles' \in 0..c.maxTroubles /\ UNCHANGED <<pictures, gone, chatOver>>
    BY <1>4 DEF ChatGPT!StreamBreaks, ChatGPT!Noted, ChatGPT!Rest
  <2>2. \/ ChatGPT(c)!React("temp")
        \/ c.kind = "image" /\ chatAt.named /\ ChatGPT(c)!Onward("poll")
        \/ chatAt.named /\ ChatGPT(c)!Onward("fetch")
    BY <1>4 DEF ChatGPT!StreamBreaks, ChatGPT!imageStartStreamError
  <2> QED
    BY <1>2, <1>3, <2>1, <2>2
<1>5. CASE ChatGPT(c)!StreamUnnamed
  <2>1. chatTroubles' \in 0..c.maxTroubles /\ UNCHANGED <<pictures, gone, chatOver>>
    BY <1>5 DEF ChatGPT!StreamUnnamed, ChatGPT!Rest
  <2> QED
    BY <1>3, <1>5, <2>1 DEF ChatGPT!StreamUnnamed
<1>6. CASE ChatGPT(c)!StreamEnds
  <2>1. PICK got \in {"none"} \cup (IF conv \in {"partly", "made"} THEN {conv} ELSE {}) :
          /\ chatAt' = [chatAt EXCEPT !.pc = ChatGPT(c)!startText(got)] /\ text' = got
          /\ chatTroubles' = IF got = "made" \/ conv = "made" THEN chatTroubles ELSE chatTroubles + 1
    BY <1>6 DEF ChatGPT!StreamEnds
  <2>2. /\ c.kind = "text" /\ chatAt.named /\ (conv = "made" \/ chatTroubles < c.maxTroubles)
        /\ UNCHANGED <<chatTried, chatTemps, chatRounds, conv, killed, chatLimited, final, pictures, gone, chatOver>>
    BY <1>6 DEF ChatGPT!StreamEnds, ChatGPT!Rest
  <2>3. chatTroubles' \in 0..c.maxTroubles
    BY <2>1, <2>2
  <2>4. got \in {"none", "partly", "made"} /\ (ChatGPT(c)!startText(got) = "done" => got # "none")
    BY <2>1 DEF ChatGPT!startText
  <2>5. ChatGPT(c)!startText(got) \in {"fetch", "done"}
    BY DEF ChatGPT!startText
  <2>6. ChatAttempt(c)' /\ chatAt'.acct = chatAt.acct /\ chatAt'.pc # "failed" /\ chatAt'.pc = ChatGPT(c)!startText(got)
    BY <1>0, <2>1, <2>2, <2>5, ChatOnward
  <2> QED
    BY <2>1, <2>2, <2>3, <2>4, <2>6 DEF ChatMoves, ChatGoesOn, ChatGPT!TextGiven
<1>7. CASE ChatGPT(c)!LeaveStream
  BY <1>2, <1>7 DEF ChatGPT!LeaveStream, ChatGPT!Rest
<1> QED
  BY <1>1, <1>4, <1>5, <1>6, <1>7 DEF ChatGPT!Stream

\* Another poll.
LEMMA ChatPolled ==
  ASSUME NEW CONSTANT c, ChatGPT(c)!ChatGPTAssumption, ChatInv(c), chatAt.n + 1 \in 0..c.polls,
         chatAt.pc \in {"poll", "fetch"},
         chatAt' = [chatAt EXCEPT !.n = @ + 1], ChatGPT(c)!Stay,
         chatTroubles' \in 0..c.maxTroubles, UNCHANGED <<pictures, gone, chatOver>>
  PROVE  ChatMoves(c)
<1>0. chatAt \in ChatAttempts(c) /\ ChatAttempt(c)
  BY DEF ChatInv, ChatAttempt
<1>1. chatAt' \in ChatAttempts(c)
  BY <1>0 DEF ChatAttempts
<1>2. /\ chatAt'.pc = chatAt.pc /\ chatAt'.acct = chatAt.acct /\ chatAt'.refs = chatAt.refs
      /\ chatAt'.named = chatAt.named
  BY <1>0 DEF ChatAttempts
<1>3. ChatAttempt(c)'
  BY <1>0, <1>1, <1>2 DEF ChatAttempt
<1> QED
  BY <1>2, <1>3, ChatShape DEF ChatMoves, ChatGoesOn, ChatGPT!Stay, ChatGPT!TextGiven

\* The polls of a conversation.
LEMMA ChatPollMoves ==
  ASSUME NEW CONSTANT c, ChatGPT(c)!ChatGPTAssumption, ChatInv(c), ChatGPT(c)!pollForImage
  PROVE  ChatMoves(c)
<1> USE ChatShape
<1>0. /\ chatAt.pc = "poll" /\ chatAt.named /\ c.kind = "image" /\ UNCHANGED <<pictures, gone, chatOver>>
      /\ chatAt \in ChatAttempts(c)
  BY DEF ChatGPT!pollForImage, ChatGPT!Rest, ChatInv, ChatAttempt
<1>1. ASSUME NEW e \in ChatErrors, ChatGPT(c)!React(e), ChatBlames(c, e), chatTroubles' \in 0..c.maxTroubles
      PROVE  ChatMoves(c)
  BY <1>0, <1>1 DEF ChatMoves, ChatReacts, ChatGPT!React
<1>2. CASE (ChatGPT(c)!React("plain") \/ ChatGPT(c)!React("temp")) /\ chatTroubles' = chatTroubles
  BY <1>1, <1>2 DEF ChatErrors, ChatBlames
<1>3. CASE /\ chatAt.n # c.polls
           /\ \E ans \in ChatGPT(c)!MayAnswer("poll") :
                /\ ChatGPT(c)!Noted(ans)
                /\ IF ans = "ok" THEN ChatGPT(c)!Sees(chatAt.ids \cup ChatGPT(c)!dropIDs(ChatGPT(c)!Shown))
                     ELSE ChatGPT(c)!PollFails(ans)
  <2>1. PICK ans \in ChatGPT(c)!MayAnswer("poll") :
          /\ ChatGPT(c)!Noted(ans)
          /\ IF ans = "ok" THEN ChatGPT(c)!Sees(chatAt.ids \cup ChatGPT(c)!dropIDs(ChatGPT(c)!Shown))
               ELSE ChatGPT(c)!PollFails(ans)
    BY <1>3
  <2>2. chatTroubles' \in 0..c.maxTroubles
    BY <2>1, ChatAnswers
  <2>3. chatAt.n + 1 \in 0..c.polls
    BY <1>3
  <2>4. CASE chatAt' = [chatAt EXCEPT !.n = @ + 1] /\ ChatGPT(c)!Stay
    BY <1>0, <2>2, <2>3, <2>4, ChatPolled
  <2>5. CASE ans # "ok" /\ ~(chatAt' = [chatAt EXCEPT !.n = @ + 1] /\ ChatGPT(c)!Stay)
    <3>1. ChatGPT(c)!React(ChatGPT(c)!ensureOK("poll", ans))
      BY <2>1, <2>5 DEF ChatGPT!PollFails
    <3> QED
      BY <1>1, <2>2, <2>5, <3>1, ChatAnswers DEF ChatErrors
  <2>6. CASE ans = "ok" /\ ~(chatAt' = [chatAt EXCEPT !.n = @ + 1] /\ ChatGPT(c)!Stay)
    <3> DEFINE ids == chatAt.ids \cup ChatGPT(c)!dropIDs(ChatGPT(c)!Shown)
    <3>1. ids \subseteq Picture
      BY ChatShown
    <3>2. ChatGPT(c)!Sees(ids)
      BY <2>1, <2>6
    <3> HIDE DEF ids
    <3>3. CASE ChatGPT(c)!React("policy")
      BY <1>1, <2>2, <3>3 DEF ChatErrors, ChatBlames
    <3>4. CASE chatAt' = [chatAt EXCEPT !.ids = ids, !.pc = "resolve"] /\ ChatGPT(c)!Stay
      <4>1. chatAt' \in ChatAttempts(c)
        BY <1>0, <3>1, <3>4 DEF ChatAttempts, ChatGPT!Phases, ChatGPT!Calls
      <4>2. /\ chatAt'.pc = "resolve" /\ chatAt'.acct = chatAt.acct /\ chatAt'.named = chatAt.named
        BY <1>0, <3>4 DEF ChatAttempts
      <4>3. ChatAttempt(c)'
        BY <1>0, <4>1, <4>2 DEF ChatAttempt
      <4> QED
        BY <1>0, <2>2, <3>4, <4>2, <4>3 DEF ChatMoves, ChatGoesOn, ChatGPT!Stay, ChatGPT!TextGiven
    <3> QED
      BY <2>6, <3>2, <3>3, <3>4 DEF ChatGPT!Sees
  <2> QED
    BY <2>4, <2>5, <2>6
<1> QED
  BY <1>2, <1>3 DEF ChatGPT!pollForImage, ChatGPT!BudgetSpent

\* The fetches of a text, the picture's address, its bytes, and the allowance that is left.
LEMMA ChatResultMoves ==
  ASSUME NEW CONSTANT c, ChatGPT(c)!ChatGPTAssumption, ChatInv(c),
         \/ ChatGPT(c)!fetchText \/ ChatGPT(c)!resolveImageURLs \/ ChatGPT(c)!downloadBytes
         \/ ChatGPT(c)!reconcileChatGPTQuota
  PROVE  ChatMoves(c)
<1> USE ChatShape
<1>0. /\ chatAt \in ChatAttempts(c) /\ ChatAttempt(c)
      /\ {"download", "settle", "done"} \subseteq ChatGPT(c)!Phases \cup {"done"}
  BY DEF ChatGPT!Phases, ChatGPT!Calls, ChatInv, ChatAttempt
<1>1. ASSUME NEW e \in ChatErrors, ChatGPT(c)!React(e), ChatBlames(c, e), chatTroubles' \in 0..c.maxTroubles,
             UNCHANGED <<pictures, gone, chatOver>>
      PROVE  ChatMoves(c)
  BY <1>1 DEF ChatMoves, ChatReacts, ChatGPT!React
<1>2. CASE ChatGPT(c)!fetchText
  <2>1. chatAt.pc = "fetch" /\ UNCHANGED <<pictures, gone, chatOver>>
    BY <1>2 DEF ChatGPT!fetchText, ChatGPT!Rest
  <2>2. CASE (ChatGPT(c)!React("plain") \/ ChatGPT(c)!React("temp")) /\ chatTroubles' = chatTroubles
    BY <1>1, <2>1, <2>2 DEF ChatErrors, ChatBlames
  <2>3. CASE /\ chatAt.n < c.polls
             /\ \E ans \in ChatGPT(c)!MayAnswer("fetch") :
                  /\ ChatGPT(c)!Noted(ans)
                  /\ IF ans = "ok" /\ conv \in {"partly", "made"}
                       THEN /\ chatAt' = [chatAt EXCEPT !.pc = "done"] /\ text' = conv
                            /\ UNCHANGED <<chatTried, chatTemps, chatRounds, conv, killed, chatLimited, final>>
                       ELSE chatAt' = [chatAt EXCEPT !.n = @ + 1] /\ ChatGPT(c)!Stay
    <3>1. chatTroubles' \in 0..c.maxTroubles
      BY <2>3, ChatAnswers
    <3>2. CASE chatAt' = [chatAt EXCEPT !.n = @ + 1] /\ ChatGPT(c)!Stay
      BY <2>1, <2>3, <3>1, <3>2, ChatPolled
    <3>3. CASE /\ chatAt' = [chatAt EXCEPT !.pc = "done"] /\ text' = conv /\ conv \in {"partly", "made"}
               /\ UNCHANGED <<chatTried, chatTemps, chatRounds, conv, killed, chatLimited, final>>
      <4>1. ChatAttempt(c)' /\ chatAt'.acct = chatAt.acct /\ chatAt'.pc # "failed" /\ chatAt'.pc = "done"
        BY <1>0, <3>3, ChatOnward
      <4> QED
        BY <2>1, <3>1, <3>3, <4>1 DEF ChatMoves, ChatGoesOn, ChatGPT!TextGiven
    <3> QED
      BY <2>3, <3>2, <3>3
  <2> QED
    BY <1>2, <2>2, <2>3 DEF ChatGPT!fetchText, ChatGPT!BudgetSpent
<1>3. CASE ChatGPT(c)!resolveImageURLs
  <2>1. chatAt.pc = "resolve" /\ chatAt.named /\ c.kind # "text" /\ UNCHANGED <<pictures, gone, chatOver>>
    BY <1>0, <1>3 DEF ChatGPT!resolveImageURLs, ChatGPT!Rest, ChatAttempt
  <2>2. PICK ans \in ChatGPT(c)!MayAnswer("resolve") :
          /\ ChatGPT(c)!Noted(ans)
          /\ IF ans = "ok" THEN ChatGPT(c)!Onward("download")
             ELSE ChatGPT(c)!React(ChatGPT(c)!ensureOK("resolve", ans))
    BY <1>3 DEF ChatGPT!resolveImageURLs
  <2>3. chatTroubles' \in 0..c.maxTroubles
    BY <2>2, ChatAnswers
  <2>4. CASE ans # "ok"
    BY <1>1, <2>1, <2>2, <2>3, <2>4, ChatAnswers DEF ChatErrors
  <2>5. CASE ans = "ok"
    <3>1. ChatAttempt(c)' /\ chatAt'.acct = chatAt.acct /\ chatAt'.pc # "failed" /\ chatAt'.pc = "download"
      BY <1>0, <2>1, <2>2, <2>5, ChatOnward DEF ChatGPT!Onward
    <3> QED
      BY <2>1, <2>2, <2>3, <2>5, <3>1 DEF ChatMoves, ChatGoesOn, ChatGPT!Onward, ChatGPT!Stay,
         ChatGPT!TextGiven
  <2> QED
    BY <2>4, <2>5
<1>4. CASE ChatGPT(c)!downloadBytes
  <2>1. chatAt.pc = "download" /\ c.kind # "text" /\ "settle" \in ChatGPT(c)!Phases
    BY <1>0, <1>4 DEF ChatGPT!downloadBytes, ChatGPT!Step, ChatAttempt, ChatGPT!Phases, ChatGPT!Calls
  <2> QED
    BY <1>4, <2>1, ChatStepMoves DEF ChatGPT!downloadBytes
<1>5. CASE ChatGPT(c)!reconcileChatGPTQuota
  <2>1. /\ chatAt.pc = "settle" /\ c.kind # "text" /\ chatAt' = [chatAt EXCEPT !.pc = "done"]
        /\ UNCHANGED <<chatTried, chatTemps, chatRounds, conv, killed, final, text, pictures, gone, chatOver>>
    BY <1>0, <1>5 DEF ChatGPT!reconcileChatGPTQuota, ChatGPT!Rest, ChatAttempt
  <2>2. PICK ans \in ChatGPT(c)!MayAnswer("settle") :
          /\ ChatGPT(c)!Noted(ans)
          /\ chatLimited' = IF ans = "ok" /\ pictures[chatAt.acct] = 0 THEN chatLimited \cup {chatAt.acct} ELSE chatLimited
    BY <1>5 DEF ChatGPT!reconcileChatGPTQuota
  <2>3. chatTroubles' \in 0..c.maxTroubles
    BY <2>2, ChatAnswers
  <2>4. ChatAttempt(c)' /\ chatAt'.acct = chatAt.acct /\ chatAt'.pc # "failed" /\ chatAt'.pc = "done"
    BY <1>0, <2>1, ChatOnward
  <2> QED
    BY <2>1, <2>2, <2>3, <2>4 DEF ChatMoves, ChatGoesOn, ChatGPT!TextGiven
<1> QED
  BY <1>2, <1>3, <1>4, <1>5

-----------------------------------------------------------------------------
\* An attempt that begins.
LEMMA ChatFresh ==
  ASSUME NEW CONSTANT c, ChatGPT(c)!ChatGPTAssumption, NEW a \in 1..c.last
  PROVE  /\ ChatGPT(c)!Fresh(a) \in ChatAttempts(c) /\ ChatGPT(c)!Fresh(a).acct = a
         /\ ChatGPT(c)!Fresh(a).pc \in {"quota", "bootstrap"} /\ ChatGPT(c)!Fresh(a).refs = 0
         /\ c.kind = "text" => ChatGPT(c)!Fresh(a).pc = "bootstrap"
<1>1. 0 \in 0..c.refs /\ 0 \in 0..c.polls /\ {} \in SUBSET Picture
  BY DEF ChatGPT!ChatGPTAssumption
<1>2. {"quota", "bootstrap"} \subseteq ChatGPT(c)!Phases
  BY DEF ChatGPT!Phases, ChatGPT!Calls
<1> QED
  BY <1>1, <1>2 DEF ChatGPT!Fresh, ChatAttempts

\* A step that tries the next account of the pass.
ChatNext(c) ==
  /\ chatAt.acct < c.last /\ chatAt' = ChatGPT(c)!Fresh(chatAt.acct + 1)
  /\ chatTried' = chatTried \cup {chatAt.acct + 1} /\ chatRounds' = chatRounds
  /\ chatTemps' = chatTemps \/ (chatTemps + 1 < c.maxTemp /\ chatTemps' = chatTemps + 1)

\* A request that ends has a reason: the error, the cap, or the end of the pool.
ChatEnds(c, e) ==
  /\ ChatGPT(c)!Fails
  /\ e \notin ChatGPT(c)!Failovers \/ chatTemps + 1 >= c.maxTemp \/ chatAt.acct = c.last

\* The accounts are tried in their order.
LEMMA ChatTries ==
  ASSUME NEW CONSTANT c, ChatGPT(c)!ChatGPTAssumption, ChatInv(c), NEW e,
         ChatGPT(c)!Again \/ ChatNext(c) \/ ChatEnds(c, e)
  PROVE  /\ ChatAttempt(c)' /\ chatTried' = 1..chatAt'.acct /\ chatTemps' \in 0..c.maxTemp
         /\ chatRounds' \in 0..c.maxRounds /\ chatAt'.pc # "done"
         /\ chatAt'.pc = "failed" => ChatEnds(c, e) /\ chatAt'.acct = chatAt.acct
<1> USE ChatShape
<1>0. /\ chatAt \in ChatAttempts(c) /\ chatTried = 1..chatAt.acct /\ chatTemps \in 0..c.maxTemp
      /\ chatRounds \in 0..c.maxRounds
  BY DEF ChatInv, ChatAttempt, ChatGPT!ChatGPTTypeOK
<1>1. CASE ChatGPT(c)!Again
  <2>1. chatAt' = ChatGPT(c)!Fresh(1) /\ chatTried' = {1} /\ chatTemps' = 0 /\ chatRounds' \in 0..c.maxRounds
    BY <1>0, <1>1 DEF ChatGPT!Again
  <2>2. chatAt'.acct = 1 /\ chatAt'.pc \in {"quota", "bootstrap"} /\ chatAt' \in ChatAttempts(c)
    BY <2>1, ChatFresh
  <2>3. ChatAttempt(c)'
    BY <2>1, ChatFresh DEF ChatAttempt
  <2>4. 1..1 = {1} /\ 0 \in 0..c.maxTemp
    OBVIOUS
  <2> QED
    BY <2>1, <2>2, <2>3, <2>4
<1>2. CASE ChatNext(c)
  <2>1. chatAt.acct + 1 \in 1..c.last /\ chatTemps' \in 0..c.maxTemp
    BY <1>0, <1>2 DEF ChatNext
  <2>2. chatAt'.acct = chatAt.acct + 1 /\ chatAt'.pc \in {"quota", "bootstrap"}
    BY <1>2, <2>1, ChatFresh DEF ChatNext
  <2>3. ChatAttempt(c)'
    BY <1>2, <2>1, ChatFresh DEF ChatAttempt, ChatNext
  <2>4. 1..(chatAt.acct + 1) = (1..chatAt.acct) \cup {chatAt.acct + 1}
    OBVIOUS
  <2>5. chatTried' = 1..chatAt'.acct /\ chatRounds' = chatRounds
    BY <1>0, <1>2, <2>2, <2>4 DEF ChatNext
  <2> QED
    BY <1>0, <2>1, <2>2, <2>3, <2>5
<1>3. CASE ChatEnds(c, e)
  <2>1. /\ chatAt' = [chatAt EXCEPT !.pc = "failed"] /\ UNCHANGED <<chatTried, chatTemps, chatRounds>>
    BY <1>3 DEF ChatEnds, ChatGPT!Fails
  <2>2. chatAt' \in ChatAttempts(c) /\ chatAt'.pc = "failed" /\ chatAt'.acct = chatAt.acct
    BY <1>0, <2>1 DEF ChatAttempts
  <2>3. ChatAttempt(c)'
    BY <2>2 DEF ChatAttempt
  <2> QED
    BY <1>0, <1>3, <2>1, <2>2, <2>3
<1> QED
  BY <1>1, <1>2, <1>3

\* A reaction: the account may be marked, and a request that ends has a reason.
LEMMA ChatReactStep ==
  ASSUME NEW CONSTANT c, ChatGPT(c)!ChatGPTAssumption, ChatInv(c), NEW e \in ChatErrors, ChatGPT(c)!React(e),
         chatAt.pc # "failed", chatOver' = chatOver
  PROVE  /\ ChatAttempt(c)' /\ chatTried' = 1..chatAt'.acct /\ chatTemps' \in 0..c.maxTemp
         /\ chatRounds' \in 0..c.maxRounds /\ chatAt'.pc # "done"
         /\ conv' = "none" /\ final' \in {"no", "policy", "odd", "unnamed"}
         /\ ChatGPT(c)!PolicyIsFinal' /\ ChatGPT(c)!FailsAfterAll'
         /\ killed' = killed \/ (e = "auth" /\ killed' = killed \cup {chatAt.acct})
         /\ chatLimited' = chatLimited \/ (e = "quota" /\ chatLimited' = chatLimited \cup {chatAt.acct})
<1> USE ChatShape
<1>0. /\ chatTried = 1..chatAt.acct /\ final \in {"no", "policy", "odd", "unnamed"} /\ final # "policy"
      /\ chatTemps \in 0..c.maxTemp
  BY DEF ChatInv, ChatGPT!ChatGPTTypeOK, ChatGPT!PolicyIsFinal
<1>1. \/ e \in ChatGPT(c)!Failovers /\ ChatGPT(c)!Again
      \/ e \in ChatGPT(c)!Failovers /\ ChatNext(c)
      \/ ChatEnds(c, e)
  BY <1>0 DEF ChatGPT!React, ChatGPT!NextAccount, ChatNext, ChatEnds
<1>2. /\ ChatAttempt(c)' /\ chatTried' = 1..chatAt'.acct /\ chatTemps' \in 0..c.maxTemp
      /\ chatRounds' \in 0..c.maxRounds /\ chatAt'.pc # "done"
      /\ chatAt'.pc = "failed" => ChatEnds(c, e) /\ chatAt'.acct = chatAt.acct
  BY <1>1, ChatTries
<1>3. /\ conv' = "none"
      /\ killed' = killed \/ (e = "auth" /\ killed' = killed \cup {chatAt.acct})
      /\ chatLimited' = chatLimited \/ (e = "quota" /\ chatLimited' = chatLimited \cup {chatAt.acct})
      /\ final' = (IF e \in {"policy", "unnamed"} THEN e ELSE IF e = "plain" THEN "odd" ELSE final)
  BY DEF ChatGPT!React
<1>4. final' \in {"no", "policy", "odd", "unnamed"}
  BY <1>0, <1>3
<1>5. ChatGPT(c)!PolicyIsFinal'
  <2>1. final' = "policy" => e = "policy"
    BY <1>0, <1>3
  <2>2. e = "policy" => ChatGPT(c)!Fails
    BY DEF ChatGPT!React, ChatGPT!Failovers
  <2>3. ChatGPT(c)!Fails => chatAt'.pc = "failed"
    BY DEF ChatGPT!Fails, ChatInv, ChatAttempt, ChatAttempts
  <2> QED
    BY <2>1, <2>2, <2>3 DEF ChatGPT!PolicyIsFinal
<1>6. ChatGPT(c)!FailsAfterAll'
  <2>1. SUFFICES ASSUME chatAt'.pc = "failed"
                 PROVE  final' # "no" \/ chatTried' = 1..c.last \/ chatTemps' + 1 >= c.maxTemp
    BY DEF ChatGPT!FailsAfterAll, ChatGPT!Accounts
  <2>2. ChatEnds(c, e) /\ chatTried' = chatTried /\ chatTemps' = chatTemps
    BY <1>2, <2>1 DEF ChatEnds, ChatGPT!Fails
  <2>3. e \notin ChatGPT(c)!Failovers => final' # "no"
    BY <1>3 DEF ChatGPT!Failovers, ChatErrors
  <2> QED
    BY <1>0, <2>2, <2>3 DEF ChatEnds
<1> QED
  BY <1>2, <1>3, <1>4, <1>5, <1>6

\* Every call and every stream is such a move.
LEMMA ChatWorkMoves ==
  ASSUME NEW CONSTANT c, ChatGPT(c)!ChatGPTAssumption, ChatInv(c), ChatGPT(c)!Work \/ ChatGPT(c)!Stream
  PROVE  ChatMoves(c) /\ chatAt.pc # "failed"
<1>1. chatAt.pc # "failed"
  BY DEF ChatGPT!Work, ChatGPT!Begin, ChatGPT!Upload, ChatGPT!Stream, ChatGPT!fetchImageQuota,
     ChatGPT!bootstrap,
     ChatGPT!getChatRequirements, ChatGPT!createFileEntry, ChatGPT!uploadRawFile, ChatGPT!processUploadStream,
     ChatGPT!prepareConversation, ChatGPT!startConversation, ChatGPT!LeaveStream, ChatGPT!pollForImage,
     ChatGPT!fetchText, ChatGPT!resolveImageURLs, ChatGPT!downloadBytes, ChatGPT!reconcileChatGPTQuota,
     ChatGPT!StreamNames, ChatGPT!StreamBreaks, ChatGPT!StreamUnnamed, ChatGPT!StreamEnds, ChatGPT!Step
<1>2. ChatMoves(c)
  BY ChatBeginMoves, ChatStreamMoves, ChatPollMoves, ChatResultMoves DEF ChatGPT!Work
<1> QED
  BY <1>1, <1>2

\* What the types say beyond the attempt.
ChatTypes(c) ==
  /\ chatTried = 1..chatAt.acct /\ chatTemps \in 0..c.maxTemp /\ chatRounds \in 0..c.maxRounds
  /\ conv \in {"none", "working", "partly", "made", "refused"} /\ pictures \in [1..c.last -> Nat]
  /\ gone \subseteq 1..c.last /\ killed \subseteq 1..c.last /\ chatLimited \subseteq 1..c.last
  /\ final \in {"no", "policy", "odd", "unnamed"} /\ text \in {"none", "partly", "made"}
  /\ chatOver \in BOOLEAN /\ chatTroubles \in 0..c.maxTroubles

ChatWhole(c) ==
  ChatAttempt(c) /\ ChatTypes(c) /\ ChatGPT(c)!PolicyIsFinal /\ ChatGPT(c)!TextGiven /\ ChatGPT(c)!FailsAfterAll

\* The parts of ChatInv.
LEMMA ChatInvIs ==
  ASSUME NEW CONSTANT c, ChatGPT(c)!ChatGPTAssumption
  PROVE  /\ ChatInv(c) => ChatTypes(c)
         /\ ChatWhole(c) => ChatInv(c)
         /\ ChatWhole(c)' => ChatInv(c)'
<1>1. ChatInv(c) => ChatTypes(c)
  BY DEF ChatInv, ChatTypes, ChatGPT!ChatGPTTypeOK, ChatGPT!Accounts
<1>2. ASSUME ChatAttempt(c), ChatTypes(c) PROVE ChatGPT(c)!ChatGPTTypeOK
  <2>1. /\ chatAt.acct \in 1..c.last /\ chatAt.pc \in ChatGPT(c)!Phases \cup {"done", "failed"}
        /\ chatAt.refs \in 0..c.refs /\ chatAt.n \in 0..c.polls /\ chatAt.named \in BOOLEAN /\ chatAt.ids \subseteq Picture
    BY <1>2 DEF ChatAttempt, ChatAttempts
  <2>2. chatAt.ids \subseteq ChatGPT(c)!Ids
    BY <2>1 DEF ChatGPT!Ids, Picture
  <2>3. c.last \in Nat /\ chatTried \subseteq 1..c.last
    BY <1>2, <2>1 DEF ChatTypes, ChatGPT!ChatGPTAssumption
  <2>4. chatAt.pc \in {"poll", "fetch", "resolve", "download"} => chatAt.named
    BY <1>2 DEF ChatAttempt
  <2> QED
    BY <1>2, <2>1, <2>2, <2>3, <2>4 DEF ChatTypes, ChatGPT!ChatGPTTypeOK, ChatGPT!Accounts
<1>3. ChatWhole(c) => ChatInv(c)
  BY <1>2 DEF ChatWhole, ChatInv, ChatTypes
<1>4. ChatWhole(c)' => ChatInv(c)'
  BY <1>3, PTL
<1> QED
  BY <1>1, <1>3, <1>4

\* The types, the accounts of the pass, and what a request's end is about.
LEMMA ChatStep ==
  ASSUME NEW CONSTANT c, ChatGPT(c)!ChatGPTAssumption, ChatInv(c), ChatGPT(c)!Next \/ UNCHANGED chatVars
  PROVE  ChatInv(c)'
<1> USE ChatShape
<1>0. ChatTypes(c) /\ ChatAttempt(c) /\ ChatGPT(c)!PolicyIsFinal /\ ChatGPT(c)!TextGiven /\ ChatGPT(c)!FailsAfterAll
  BY ChatInvIs DEF ChatInv
<1>1. CASE ChatGPT(c)!Work \/ ChatGPT(c)!Stream
  <2>1. ChatMoves(c) /\ chatAt.pc # "failed"
    BY <1>1, ChatWorkMoves
  <2>2. chatTroubles' \in 0..c.maxTroubles /\ UNCHANGED <<pictures, gone, chatOver>>
    BY <2>1 DEF ChatMoves
  <2>3. CASE ChatReacts(c)
    <3>1. PICK e \in ChatErrors : ChatGPT(c)!React(e) /\ text' = text
      BY <2>3 DEF ChatReacts
    <3>2. /\ ChatAttempt(c)' /\ chatTried' = 1..chatAt'.acct /\ chatTemps' \in 0..c.maxTemp
          /\ chatRounds' \in 0..c.maxRounds /\ chatAt'.pc # "done"
          /\ conv' = "none" /\ final' \in {"no", "policy", "odd", "unnamed"}
          /\ ChatGPT(c)!PolicyIsFinal' /\ ChatGPT(c)!FailsAfterAll'
          /\ killed' \subseteq killed \cup {chatAt.acct} /\ chatLimited' \subseteq chatLimited \cup {chatAt.acct}
      BY <2>1, <2>2, <3>1, ChatReactStep
    <3>3. ChatTypes(c)'
      BY <1>0, <2>2, <3>1, <3>2 DEF ChatTypes
    <3>4. ChatGPT(c)!TextGiven'
      BY <3>2 DEF ChatGPT!TextGiven
    <3> QED
      BY <3>2, <3>3, <3>4, ChatInvIs DEF ChatWhole
  <2>4. CASE ChatGoesOn(c)
    <3>1. /\ ChatAttempt(c)' /\ chatAt'.acct = chatAt.acct /\ chatAt'.pc # "failed"
          /\ UNCHANGED <<chatTried, chatTemps, chatRounds, killed, final>>
          /\ chatLimited' \subseteq chatLimited \cup {chatAt.acct}
          /\ conv' \in {conv, "working"} /\ text' \in {"none", "partly", "made"} /\ ChatGPT(c)!TextGiven'
      BY <2>4 DEF ChatGoesOn
    <3>2. ChatTypes(c)'
      BY <1>0, <2>2, <3>1 DEF ChatTypes
    <3>3. final # "policy"
      BY <1>0, <2>1 DEF ChatGPT!PolicyIsFinal
    <3>4. ChatGPT(c)!PolicyIsFinal' /\ ChatGPT(c)!FailsAfterAll'
      BY <3>1, <3>3 DEF ChatGPT!PolicyIsFinal, ChatGPT!FailsAfterAll
    <3> QED
      BY <3>1, <3>2, <3>4, ChatInvIs DEF ChatWhole
  <2> QED
    BY <2>1, <2>3, <2>4 DEF ChatMoves
<1>2. ASSUME chatAt' = chatAt, ChatTypes(c)', final' = final, text' = text, chatTemps' = chatTemps,
             chatOver => chatOver'
      PROVE  ChatInv(c)'
  <2>1. ChatAttempt(c)'
    BY <1>0, <1>2 DEF ChatAttempt, ChatAttempts
  <2>2. ChatGPT(c)!PolicyIsFinal' /\ ChatGPT(c)!TextGiven'
    BY <1>0, <1>2 DEF ChatGPT!PolicyIsFinal, ChatGPT!TextGiven
  <2>3. ChatGPT(c)!FailsAfterAll'
    BY <1>0, <1>2 DEF ChatGPT!FailsAfterAll, ChatTypes
  <2> QED
    BY <2>1, <2>2, <2>3, <1>2, ChatInvIs DEF ChatWhole
<1>3. CASE ChatGPT(c)!Proceeds
  <2>1. /\ UNCHANGED <<chatAt, chatTried, chatTemps, chatRounds, gone, killed, chatLimited, final, text, chatOver, chatTroubles>>
        /\ conv' \in {"partly", "made", "refused"}
        /\ pictures' = pictures
           \/ (pictures[chatAt.acct] > 0 /\ pictures' = [pictures EXCEPT ![chatAt.acct] = @ - 1])
    BY <1>3 DEF ChatGPT!Proceeds
  <2>2. pictures' \in [1..c.last -> Nat]
    BY <1>0, <2>1 DEF ChatTypes
  <2>3. ChatTypes(c)'
    BY <1>0, <2>1, <2>2 DEF ChatTypes
  <2> QED
    BY <1>2, <2>1, <2>3
<1>4. CASE ChatGPT(c)!Elsewhere
  <2>1. /\ UNCHANGED <<chatAt, chatTried, chatTemps, chatRounds, conv, gone, killed, chatLimited, final,
                       text, chatOver, chatTroubles>>
        /\ pictures[chatAt.acct] > 0 /\ pictures' = [pictures EXCEPT ![chatAt.acct] = @ - 1]
    BY <1>4 DEF ChatGPT!Elsewhere
  <2>2. pictures' \in [1..c.last -> Nat]
    BY <1>0, <2>1 DEF ChatTypes
  <2>3. ChatTypes(c)'
    BY <1>0, <2>1, <2>2 DEF ChatTypes
  <2> QED
    BY <1>2, <2>1, <2>3
<1>5. CASE ChatGPT(c)!TokenEnds \/ ChatGPT(c)!ContextEnds \/ ChatGPT(c)!Ended \/ UNCHANGED chatVars
  <2>1. /\ UNCHANGED <<chatAt, chatTried, chatTemps, chatRounds, conv, pictures, killed, chatLimited, final, text, chatTroubles>>
        /\ gone' \subseteq gone \cup {chatAt.acct} /\ (chatOver' = chatOver \/ chatOver' = TRUE)
    BY <1>5 DEF ChatGPT!TokenEnds, ChatGPT!ContextEnds, ChatGPT!Ended, ChatGPT!vars, chatVars
  <2>2. chatOver' \in BOOLEAN
    BY <1>0, <2>1 DEF ChatTypes
  <2>3. ChatTypes(c)'
    BY <1>0, <2>1, <2>2 DEF ChatTypes
  <2> QED
    BY <1>2, <2>1, <2>3
<1> QED
  BY <1>1, <1>3, <1>4, <1>5 DEF ChatGPT!Next

\* Nothing has been asked yet.
LEMMA ChatInitially ==
  ASSUME NEW CONSTANT c, ChatGPT(c)!ChatGPTAssumption, ChatGPT(c)!Init
  PROVE  ChatInv(c) /\ ChatGPT(c)!MarkedIsTrue
<1>1. /\ c.last \in Nat /\ c.last >= 1 /\ c.maxTemp \in Nat /\ c.maxRounds \in Nat /\ c.maxTroubles \in Nat
      /\ c.left \in [1..c.last -> Nat] /\ c.gone \subseteq 1..c.last
  BY DEF ChatGPT!ChatGPTAssumption, ChatGPT!Accounts
<1>2. 1 \in 1..c.last /\ 1..1 = {1} /\ 0 \in 0..c.maxTemp /\ 0 \in 0..c.maxRounds /\ 0 \in 0..c.maxTroubles
  BY <1>1
<1>3. chatAt = ChatGPT(c)!Fresh(1)
  BY DEF ChatGPT!Init
<1>4. ChatAttempt(c) /\ chatAt.acct = 1 /\ chatAt.pc \in {"quota", "bootstrap"}
  BY <1>2, <1>3, ChatFresh DEF ChatAttempt
<1>5. ChatTypes(c)
  BY <1>1, <1>2, <1>4 DEF ChatTypes, ChatGPT!Init
<1>6. ChatGPT(c)!PolicyIsFinal /\ ChatGPT(c)!TextGiven /\ ChatGPT(c)!FailsAfterAll /\ ChatGPT(c)!MarkedIsTrue
  BY <1>4 DEF ChatGPT!Init, ChatGPT!PolicyIsFinal, ChatGPT!TextGiven, ChatGPT!FailsAfterAll,
     ChatGPT!MarkedIsTrue
<1> QED
  BY <1>4, <1>5, <1>6, ChatInvIs DEF ChatWhole

\* Where no rate is limited, who is blamed had it coming.
LEMMA ChatTrueStep ==
  ASSUME NEW CONSTANT c, ChatGPT(c)!ChatGPTAssumption, "429" \notin c.answers, ChatInv(c),
  ChatGPT(c)!MarkedIsTrue,
         ChatGPT(c)!Next \/ UNCHANGED chatVars
  PROVE  ChatGPT(c)!MarkedIsTrue'
<1> USE ChatShape
<1>0. ChatTypes(c)
  BY ChatInvIs
<1>1. CASE ChatGPT(c)!Work \/ ChatGPT(c)!Stream
  <2>1. ChatMoves(c) /\ chatAt.pc # "failed"
    BY <1>1, ChatWorkMoves
  <2>2. UNCHANGED <<pictures, gone, chatOver>>
    BY <2>1 DEF ChatMoves
  <2>3. CASE ChatReacts(c)
    <3>1. PICK e \in ChatErrors : ChatGPT(c)!React(e) /\ ChatBlames(c, e)
      BY <2>3 DEF ChatReacts
    <3>2. /\ killed' = killed \/ (e = "auth" /\ killed' = killed \cup {chatAt.acct})
          /\ chatLimited' = chatLimited \/ (e = "quota" /\ chatLimited' = chatLimited \cup {chatAt.acct})
      BY <2>1, <2>2, <3>1, ChatReactStep
    <3> QED
      BY <2>2, <3>1, <3>2 DEF ChatBlames, ChatGPT!MarkedIsTrue
  <2>4. CASE ChatGoesOn(c)
    BY <2>2, <2>4 DEF ChatGoesOn, ChatGPT!MarkedIsTrue
  <2> QED
    BY <2>1, <2>3, <2>4 DEF ChatMoves
<1>2. CASE ChatGPT(c)!Proceeds \/ ChatGPT(c)!Elsewhere
  <2>1. /\ UNCHANGED <<gone, killed, chatLimited>>
        /\ pictures' = pictures
           \/ (pictures[chatAt.acct] > 0 /\ pictures' = [pictures EXCEPT ![chatAt.acct] = @ - 1])
    BY <1>2 DEF ChatGPT!Proceeds, ChatGPT!Elsewhere
  <2>2. \A a \in chatLimited : a \in 1..c.last /\ pictures[a] = 0
    BY <1>0 DEF ChatTypes, ChatGPT!MarkedIsTrue
  <2>3. \A a \in chatLimited : pictures'[a] = 0
    BY <1>0, <2>1, <2>2 DEF ChatTypes
  <2> QED
    BY <2>1, <2>3 DEF ChatGPT!MarkedIsTrue
<1>3. CASE ChatGPT(c)!TokenEnds \/ ChatGPT(c)!ContextEnds \/ ChatGPT(c)!Ended \/ UNCHANGED chatVars
  BY <1>3 DEF ChatGPT!TokenEnds, ChatGPT!ContextEnds, ChatGPT!Ended, ChatGPT!vars, chatVars,
     ChatGPT!MarkedIsTrue
<1> QED
  BY <1>1, <1>2, <1>3 DEF ChatGPT!Next

\* What ChatInv says of the properties.
LEMMA ChatImplies ==
  ASSUME NEW CONSTANT c, ChatInv(c)
  PROVE  /\ ChatGPT(c)!ChatGPTTypeOK /\ ChatGPT(c)!PolicyIsFinal /\ ChatGPT(c)!RefIsNotResult
         /\ ChatGPT(c)!TextGiven /\ ChatGPT(c)!FailsAfterAll
BY DEF ChatInv, ChatAttempt, ChatAttempts, Picture, ChatGPT!RefIsNotResult

-----------------------------------------------------------------------------
(* Adobe.                                                                  *)

AdobeAttempts(c) ==
  [acct : 1..c.last, pc : Adobe(c)!Phases \cup {"done", "failed"}, refs : 0..c.refs,
   tries : 0..(c.uploadTries + c.downloads), sample : 1..c.samples, minted : BOOLEAN, hand : Nat]

\* An attempt: every phase has its own retries, and a token that was minted is not the listed one.
AdobeAttempt(c) ==
  /\ adobeAt \in AdobeAttempts(c)
  /\ adobeAt.pc = "upload" => adobeAt.refs < c.refs /\ adobeAt.tries <= c.uploadTries
  /\ adobeAt.pc \in {"submit", "poll"} => adobeAt.tries = 0
  /\ adobeAt.pc = "download" => adobeAt.tries < c.downloads
  /\ adobeAt.minted => adobeAt.hand >= 1

\* The rest of the state: the accounts of the pass were tried one after the other.
AdobeRest(c) ==
  /\ tried = 1..adobeAt.acct /\ temps \in 0..c.maxTemp /\ rounds \in 0..c.maxRounds
  /\ token \in [1..c.last -> Nat] /\ adobeAt.hand <= token[adobeAt.acct] /\ told \subseteq lapsed
  /\ adobeJob \in {"none", "running", "made", "unsafe", "failed"} /\ adobePaid \in Nat
  /\ adobeRefused \in {"no", "prompt", "other", "job", "unsafe"}
  /\ charged \subseteq 1..c.last /\ cooled \subseteq 1..c.last /\ limited \subseteq 1..c.last
  /\ adobeJob # "none" => adobeAt.pc \in {"poll", "download", "done", "failed"}
  /\ adobeJob = "running" => adobePaid >= 1
  /\ troubles \in 0..c.maxTroubles

\* Where no token runs out under way, a job that was accepted is polled with a good one.
AdobeLapses(c) ==
  c.maxLapses = 0 =>
    /\ lapsed = c.expired \X {0}
    /\ adobeAt.pc \in {"poll", "download"} => Adobe(c)!Hand \notin lapsed

AdobeInv(c) ==
  AdobeAttempt(c) /\ AdobeRest(c) /\ AdobeLapses(c) /\ Adobe(c)!RefusedIsFinal /\ Adobe(c)!AllSamplesTaken

AdobeErrors == {"auth", "quota", "temp", "plain"}

\* What an answer says of the account, and why a request may be at its end.
AdobeSays(c, e) ==
  /\ e = "auth" => Adobe(c)!Hand \in lapsed
  /\ e = "quota" => adobeAt.acct \in c.spent
  /\ told' = told \/ (Adobe(c)!Hand \in lapsed /\ told' = told \cup {Adobe(c)!Hand})
  /\ adobeRefused' = adobeRefused \/ e = "plain"
  /\ adobeRefused' = "unsafe" /\ c.kind = "image" => adobeRefused = "unsafe" \/ adobeAt.sample = c.samples
  /\ adobeRefused' \in {"no", "prompt", "other", "job", "unsafe"}
  /\ adobePaid' = adobePaid \/ (adobePaid' = adobePaid + 1 /\ adobeAt.pc = "submit" /\ ~over /\ "submit" \in c.troubled)
  /\ e = "plain" => \/ adobeRefused' # "no" \/ over \/ {"upload", "download"} \cap c.troubled # {}
                    \/ adobeAt.pc = "poll" /\ Adobe(c)!Hand \in lapsed
  /\ adobeAt.pc = "poll" => e = "plain" \/ over \/ "poll" \in c.troubled \/ Adobe(c)!Hand \in lapsed
  /\ adobeAt.pc = "download" => e = "plain" \/ (troubles < c.maxTroubles /\ adobeAt.tries + 1 >= c.downloads)

AdobeReacts(c) == \E e \in AdobeErrors : Adobe(c)!React(e) /\ AdobeSays(c, e)

\* The ways an attempt goes on.
AdobeUploads == /\ adobeAt.pc = "upload" /\ adobeAt'.pc \in {"upload", "submit"}
                /\ adobeJob' = adobeJob /\ adobePaid' = adobePaid
AdobeSubmits(c) == /\ adobeAt.pc = "submit" /\ adobeAt'.pc = "poll" /\ Adobe(c)!Hand \notin lapsed /\ ~over
                   /\ adobeJob' = "running" /\ adobePaid' = adobePaid + 1
AdobeSees == /\ adobeAt.pc = "poll" /\ adobeAt'.pc = "download" /\ adobeAt'.tries = 0 /\ adobeJob = "made"
             /\ adobeJob' = adobeJob /\ adobePaid' = adobePaid
AdobeResamples == /\ adobeAt.pc = "poll" /\ adobeAt'.pc = "submit" /\ adobeJob = "unsafe"
                  /\ adobeJob' = "none" /\ adobePaid' = adobePaid
AdobeDownloads == /\ adobeAt.pc = "download" /\ adobeAt'.pc \in {"download", "done"}
                  /\ adobeAt'.pc = "download" /\ ~over =>
                       adobeAt'.tries = adobeAt.tries + 1 /\ troubles' = troubles + 1
                  /\ adobeJob' = adobeJob /\ adobePaid' = adobePaid

AdobeGoesOn(c) ==
  /\ AdobeAttempt(c)' /\ Adobe(c)!Stay /\ told' = told /\ adobeRefused' = adobeRefused
  /\ adobeAt'.acct = adobeAt.acct /\ adobeAt'.hand = adobeAt.hand
  /\ AdobeUploads \/ AdobeSubmits(c) \/ AdobeSees \/ AdobeResamples \/ AdobeDownloads

\* What a step of the attempt may do.
AdobeMoves(c) ==
  /\ AdobeReacts(c) \/ AdobeGoesOn(c)
  /\ adobeAt.pc \in Adobe(c)!Phases /\ lapsed' = lapsed /\ over' = over /\ troubles' \in 0..c.maxTroubles

\* The bounds of a case, and what the types say of the attempt.
LEMMA AdobeShape ==
  ASSUME NEW CONSTANT c, Adobe(c)!AdobeAssumption, AdobeInv(c)
  PROVE  /\ c.last \in Nat /\ c.last >= 1 /\ c.samples \in Nat /\ c.samples >= 1 /\ c.downloads \in Nat /\ c.downloads >= 1
         /\ c.maxTemp \in Nat /\ c.maxTemp >= 1 /\ c.refs \in Nat /\ c.uploadTries \in Nat /\ c.maxTroubles \in Nat
         /\ c.maxRounds \in Nat /\ c.kind \in {"image", "video"}
         /\ adobeAt \in AdobeAttempts(c) /\ adobeAt.acct \in 1..c.last /\ adobeAt.refs \in 0..c.refs
         /\ adobeAt.tries \in Nat /\ adobeAt.sample \in 1..c.samples /\ adobeAt.minted \in BOOLEAN /\ adobeAt.hand \in Nat
         /\ adobePaid \in Nat /\ troubles \in 0..c.maxTroubles
         /\ adobeRefused \in {"no", "prompt", "other", "job", "unsafe"}
<1>1. adobeAt \in AdobeAttempts(c)
  BY DEF AdobeInv, AdobeAttempt
<1>2. /\ adobeAt.acct \in 1..c.last /\ adobeAt.refs \in 0..c.refs /\ adobeAt.tries \in 0..(c.uploadTries + c.downloads)
      /\ adobeAt.sample \in 1..c.samples /\ adobeAt.minted \in BOOLEAN /\ adobeAt.hand \in Nat
  BY <1>1 DEF AdobeAttempts
<1>3. /\ adobePaid \in Nat /\ troubles \in 0..c.maxTroubles /\ adobeRefused \in {"no", "prompt", "other", "job", "unsafe"}
  BY DEF AdobeInv, AdobeRest
<1> QED
  BY <1>1, <1>2, <1>3 DEF Adobe!AdobeAssumption

\* Answers of a call.
LEMMA AdobeAnswers ==
  ASSUME NEW CONSTANT c, Adobe(c)!AdobeAssumption, AdobeInv(c), adobeAt.pc \in Adobe(c)!Phases,
         NEW phase, NEW ans \in Adobe(c)!MayAnswer(phase)
  PROVE  /\ ans \in {"ok", "denied", "credit", "net", "5xx", "load", "prompt", "other"}
         /\ ans = "denied" => Adobe(c)!Hand \in lapsed /\ phase # "download"
         /\ ans = "credit" => phase = "submit" /\ adobeAt.acct \in c.spent
         /\ ans = "ok" => (over => phase = "download") /\ Adobe(c)!Truth(phase) = "ok"
         /\ ans = "prompt" => phase \in {"submit", "poll"}
         /\ ans \in {"net", "5xx", "load", "prompt", "other"} =>
              \/ over /\ phase # "download" /\ ans = "net"
              \/ phase \in c.troubled /\ troubles < c.maxTroubles /\ ans \in c.answers /\ (over => phase = "download")
         /\ Adobe(c)!Noted(ans) =>
              /\ troubles' \in 0..c.maxTroubles
              /\ told' = (IF ans = "denied" THEN told \cup {Adobe(c)!Hand} ELSE told)
              /\ adobeRefused' = (IF ans \in {"prompt", "other"} /\ adobeAt.pc \in {"submit", "poll"} THEN ans ELSE adobeRefused)
<1> USE AdobeShape
<1>1. c.answers \subseteq {"net", "5xx", "load", "prompt", "other"}
  BY DEF Adobe!AdobeAssumption
<1>2. CASE over /\ phase # "download"
  <2>1. ans = "net"
    BY <1>2 DEF Adobe!MayAnswer
  <2> QED
    BY <1>2, <2>1 DEF Adobe!Noted
<1>3. CASE ~(over /\ phase # "download")
  <2>1. \/ ans = Adobe(c)!Truth(phase)
        \/ /\ ans \in c.answers /\ phase \in c.troubled /\ troubles < c.maxTroubles
           /\ ans = "prompt" => phase \in {"submit", "poll"}
    BY <1>3 DEF Adobe!MayAnswer
  <2>2. ans = Adobe(c)!Truth(phase) =>
          /\ ans \in {"ok", "denied", "credit"}
          /\ ans = "denied" => Adobe(c)!Hand \in lapsed /\ phase # "download"
          /\ ans = "credit" => phase = "submit" /\ adobeAt.acct \in c.spent
    BY DEF Adobe!Truth
  <2>3. ans \in c.answers => ans \in {"net", "5xx", "load", "prompt", "other"} /\ troubles < c.maxTroubles
    BY <1>1, <2>1, <2>2
  <2>4. Adobe(c)!Noted(ans) => troubles' \in 0..c.maxTroubles
    BY <1>1, <2>1, <2>2 DEF Adobe!Noted
  <2>5. Adobe(c)!Noted(ans) =>
          /\ told' = (IF ans = "denied" THEN told \cup {Adobe(c)!Hand} ELSE told)
          /\ adobeRefused' = (IF ans \in {"prompt", "other"} /\ adobeAt.pc \in {"submit", "poll"} THEN ans ELSE adobeRefused)
    BY DEF Adobe!Noted
  <2> QED
    BY <1>3, <2>1, <2>2, <2>3, <2>4, <2>5
<1> QED
  BY <1>2, <1>3

\* The uploads.
LEMMA AdobeUploadMoves ==
  ASSUME NEW CONSTANT c, Adobe(c)!AdobeAssumption, AdobeInv(c), Adobe(c)!UploadMedia
  PROVE  AdobeMoves(c)
<1> USE AdobeShape
<1>0. /\ adobeAt.pc = "upload" /\ adobeAt.refs < c.refs /\ adobeAt.tries <= c.uploadTries
      /\ adobePaid' = adobePaid /\ lapsed' = lapsed /\ over' = over
      /\ adobeAt.minted => adobeAt.hand >= 1
      /\ adobeAt.pc \in Adobe(c)!Phases /\ {"upload", "submit"} \subseteq Adobe(c)!Phases
  BY DEF Adobe!UploadMedia, Adobe!Phases, AdobeInv, AdobeAttempt
<1>1. PICK ans \in Adobe(c)!MayAnswer("upload") :
        /\ Adobe(c)!Noted(ans)
        /\ CASE Adobe(c)!uploadMediaOnce(ans) = "ok" ->
                  /\ Adobe(c)!Onward([adobeAt EXCEPT
                                        !.refs = @ + 1, !.tries = 0,
                                        !.pc = IF adobeAt.refs + 1 = c.refs THEN "submit" ELSE "upload"])
                  /\ UNCHANGED adobeJob
             [] Adobe(c)!uploadMediaOnce(ans) = "again" /\ adobeAt.tries < c.uploadTries /\ ~over ->
                  Adobe(c)!Onward([adobeAt EXCEPT !.tries = @ + 1]) /\ UNCHANGED adobeJob
             [] OTHER -> Adobe(c)!React(IF ans = "denied" THEN "auth" ELSE "plain")
  BY DEF Adobe!UploadMedia
<1>2. /\ ans \in {"ok", "denied", "credit", "net", "5xx", "load", "prompt", "other"}
      /\ troubles' \in 0..c.maxTroubles
      /\ told' = (IF ans = "denied" THEN told \cup {Adobe(c)!Hand} ELSE told)
      /\ ans = "denied" => Adobe(c)!Hand \in lapsed
      /\ ans \in {"ok", "denied"} \/ over \/ "upload" \in c.troubled
      /\ adobeRefused' = adobeRefused
  BY <1>0, <1>1, AdobeAnswers
<1>3. Adobe(c)!uploadMediaOnce(ans) = "ok" <=> ans = "ok"
  BY <1>2 DEF Adobe!uploadMediaOnce, Adobe!Classify
<1>4. CASE ans = "ok"
  <2> DEFINE p == IF adobeAt.refs + 1 = c.refs THEN "submit" ELSE "upload"
  <2>1. adobeAt' = [adobeAt EXCEPT !.refs = @ + 1, !.tries = 0, !.pc = p] /\ Adobe(c)!Stay /\ adobeJob' = adobeJob
    BY <1>1, <1>3, <1>4 DEF Adobe!Onward
  <2>2. /\ p \in {"upload", "submit"} /\ (p = "upload" => adobeAt.refs + 1 < c.refs) /\ adobeAt.refs + 1 \in 0..c.refs
        /\ 0 \in 0..(c.uploadTries + c.downloads)
    BY <1>0
  <2> HIDE DEF p
  <2>3. adobeAt' \in AdobeAttempts(c)
    BY <1>0, <2>1, <2>2 DEF AdobeAttempts
  <2>4. /\ adobeAt'.pc = p /\ adobeAt'.acct = adobeAt.acct /\ adobeAt'.refs = adobeAt.refs + 1 /\ adobeAt'.tries = 0
        /\ adobeAt'.hand = adobeAt.hand /\ adobeAt'.minted = adobeAt.minted
    BY <2>1 DEF AdobeAttempts
  <2>5. AdobeAttempt(c)'
    BY <1>0, <2>2, <2>3, <2>4 DEF AdobeAttempt
  <2> QED
    BY <1>0, <1>2, <1>4, <2>1, <2>2, <2>4, <2>5 DEF AdobeMoves, AdobeGoesOn, AdobeUploads
<1>5. CASE adobeAt' = [adobeAt EXCEPT !.tries = @ + 1] /\ Adobe(c)!Stay /\ adobeJob' = adobeJob /\ adobeAt.tries < c.uploadTries
           /\ ans # "denied"
  <2>1. adobeAt.tries + 1 \in 0..(c.uploadTries + c.downloads)
    BY <1>5
  <2>2. adobeAt' \in AdobeAttempts(c)
    BY <1>5, <2>1 DEF AdobeAttempts
  <2>3. /\ adobeAt'.pc = "upload" /\ adobeAt'.acct = adobeAt.acct /\ adobeAt'.refs = adobeAt.refs
        /\ adobeAt'.tries = adobeAt.tries + 1
        /\ adobeAt'.hand = adobeAt.hand /\ adobeAt'.minted = adobeAt.minted
    BY <1>0, <1>5 DEF AdobeAttempts
  <2>4. AdobeAttempt(c)'
    BY <1>0, <1>5, <2>2, <2>3 DEF AdobeAttempt
  <2> QED
    BY <1>0, <1>2, <1>5, <2>3, <2>4 DEF AdobeMoves, AdobeGoesOn, AdobeUploads
<1>6. CASE ans # "ok" /\ Adobe(c)!React(IF ans = "denied" THEN "auth" ELSE "plain")
  <2> DEFINE e == IF ans = "denied" THEN "auth" ELSE "plain"
  <2>1. /\ e \in AdobeErrors /\ e \in {"auth", "plain"} /\ (e = "auth" => ans = "denied") /\ (ans = "denied" => e = "auth")
        /\ Adobe(c)!React(e)
    BY <1>6 DEF AdobeErrors
  <2> HIDE DEF e
  <2>2. AdobeSays(c, e)
    BY <1>0, <1>2, <1>6, <2>1 DEF AdobeSays
  <2> QED
    BY <1>0, <1>2, <2>1, <2>2 DEF AdobeMoves, AdobeReacts
<1>7. Adobe(c)!uploadMediaOnce(ans) = "again" => ans # "denied"
  BY DEF Adobe!uploadMediaOnce, Adobe!Classify
<1> QED
  BY <1>1, <1>3, <1>4, <1>5, <1>6, <1>7 DEF Adobe!Onward

\* The submission.
LEMMA AdobeSubmitMoves ==
  ASSUME NEW CONSTANT c, Adobe(c)!AdobeAssumption, AdobeInv(c), Adobe(c)!Submit
  PROVE  AdobeMoves(c)
<1> USE AdobeShape
<1>0. /\ adobeAt.pc = "submit" /\ adobeAt.tries = 0 /\ lapsed' = lapsed /\ over' = over
      /\ adobeAt.minted => adobeAt.hand >= 1
      /\ adobeAt.pc \in Adobe(c)!Phases /\ "poll" \in Adobe(c)!Phases
  BY DEF Adobe!Submit, Adobe!Phases, AdobeInv, AdobeAttempt
<1>1. PICK ans \in Adobe(c)!MayAnswer("submit") :
        /\ Adobe(c)!Noted(ans)
        /\ CASE ans = "ok" -> /\ adobeJob' = "running" /\ adobePaid' = adobePaid + 1
                              /\ Adobe(c)!Onward([adobeAt EXCEPT !.pc = "poll"])
             [] ans = "net" /\ Adobe(c)!Truth("submit") = "ok" /\ ~over ->
                  adobePaid' \in {adobePaid, adobePaid + 1} /\ Adobe(c)!React("temp")
             [] OTHER -> UNCHANGED adobePaid /\ Adobe(c)!React(Adobe(c)!submitVideo(ans))
  BY DEF Adobe!Submit
<1>2. /\ ans \in {"ok", "denied", "credit", "net", "5xx", "load", "prompt", "other"}
      /\ troubles' \in 0..c.maxTroubles
      /\ told' = (IF ans = "denied" THEN told \cup {Adobe(c)!Hand} ELSE told)
      /\ ans = "denied" => Adobe(c)!Hand \in lapsed
      /\ ans = "credit" => adobeAt.acct \in c.spent
      /\ ans = "ok" => ~over /\ Adobe(c)!Truth("submit") = "ok"
      /\ ans = "net" => over \/ "submit" \in c.troubled
      /\ adobeRefused' = IF ans \in {"prompt", "other"} THEN ans ELSE adobeRefused
  BY <1>0, <1>1, AdobeAnswers
<1>3. CASE ans = "ok"
  <2>1. adobeAt' = [adobeAt EXCEPT !.pc = "poll"] /\ Adobe(c)!Stay /\ adobeJob' = "running" /\ adobePaid' = adobePaid + 1
    BY <1>1, <1>3 DEF Adobe!Onward
  <2>2. adobeAt' \in AdobeAttempts(c)
    BY <1>0, <2>1 DEF AdobeAttempts
  <2>3. /\ adobeAt'.pc = "poll" /\ adobeAt'.acct = adobeAt.acct /\ adobeAt'.tries = 0
        /\ adobeAt'.hand = adobeAt.hand /\ adobeAt'.minted = adobeAt.minted
    BY <1>0, <2>1 DEF AdobeAttempts
  <2>4. AdobeAttempt(c)'
    BY <1>0, <2>2, <2>3 DEF AdobeAttempt
  <2>5. Adobe(c)!Hand \notin lapsed
    BY <1>2, <1>3 DEF Adobe!Truth
  <2> QED
    BY <1>0, <1>2, <1>3, <2>1, <2>3, <2>4, <2>5 DEF AdobeMoves, AdobeGoesOn, AdobeSubmits
<1>4. CASE ans # "ok"
  <2>1. PICK e \in AdobeErrors :
          /\ Adobe(c)!React(e)
          /\ e = "auth" => ans = "denied"
          /\ e = "quota" => ans = "credit"
          /\ e = "plain" <=> ans \in {"prompt", "other"}
          /\ adobePaid' = adobePaid \/ (adobePaid' = adobePaid + 1 /\ ans = "net" /\ ~over)
    <3>1. CASE ans = "net" /\ Adobe(c)!Truth("submit") = "ok" /\ ~over
      BY <1>1, <3>1 DEF AdobeErrors
    <3>2. CASE ~(ans = "net" /\ Adobe(c)!Truth("submit") = "ok" /\ ~over)
      <4>1. adobePaid' = adobePaid /\ Adobe(c)!React(Adobe(c)!submitVideo(ans))
        BY <1>1, <1>4, <3>2
      <4>2. /\ Adobe(c)!submitVideo(ans) \in AdobeErrors
            /\ Adobe(c)!submitVideo(ans) = "auth" => ans = "denied"
            /\ Adobe(c)!submitVideo(ans) = "quota" => ans = "credit"
            /\ Adobe(c)!submitVideo(ans) = "plain" <=> ans \in {"prompt", "other"}
        BY <1>2, <1>4 DEF Adobe!submitVideo, Adobe!Classify, AdobeErrors
      <4> QED
        BY <4>1, <4>2
    <3> QED
      BY <3>1, <3>2
  <2>2. AdobeSays(c, e)
    BY <1>0, <1>2, <1>4, <2>1 DEF AdobeSays
  <2> QED
    BY <1>0, <1>2, <2>1, <2>2 DEF AdobeMoves, AdobeReacts
<1> QED
  BY <1>3, <1>4

\* The polls.
LEMMA AdobePollMoves ==
  ASSUME NEW CONSTANT c, Adobe(c)!AdobeAssumption, AdobeInv(c),
         Adobe(c)!PollSees \/ Adobe(c)!PollFails \/ Adobe(c)!PollTimesOut
  PROVE  AdobeMoves(c)
<1> USE AdobeShape
<1>0. /\ adobeAt.pc = "poll" /\ adobeAt.tries = 0 /\ lapsed' = lapsed /\ over' = over /\ adobePaid' = adobePaid
      /\ adobeAt.minted => adobeAt.hand >= 1
      /\ adobeAt.pc \in Adobe(c)!Phases /\ {"submit", "download"} \subseteq Adobe(c)!Phases
  BY DEF Adobe!PollSees, Adobe!PollFails, Adobe!PollTimesOut, Adobe!Phases, AdobeInv, AdobeAttempt
<1>1. CASE Adobe(c)!PollSees
  <2>0. told' = told /\ troubles' = troubles
    BY <1>1 DEF Adobe!PollSees
  <2>1. \/ adobeJob = "made" /\ Adobe(c)!Onward([adobeAt EXCEPT !.pc = "download"]) /\ UNCHANGED <<adobeJob, adobeRefused>>
        \/ adobeJob = "unsafe" /\ c.kind = "image" /\ Adobe(c)!Resample
        \/ adobeJob = "unsafe" /\ c.kind = "video" /\ adobeRefused' = "unsafe" /\ Adobe(c)!React("plain")
        \/ adobeRefused' = "job" /\ Adobe(c)!React("plain")
    BY <1>1 DEF Adobe!PollSees
  <2>2. CASE adobeJob = "made" /\ Adobe(c)!Onward([adobeAt EXCEPT !.pc = "download"]) /\ UNCHANGED <<adobeJob, adobeRefused>>
    <3>1. adobeAt' = [adobeAt EXCEPT !.pc = "download"] /\ Adobe(c)!Stay
      BY <2>2 DEF Adobe!Onward
    <3>2. adobeAt' \in AdobeAttempts(c)
      BY <1>0, <3>1 DEF AdobeAttempts
    <3>3. /\ adobeAt'.pc = "download" /\ adobeAt'.acct = adobeAt.acct /\ adobeAt'.tries = 0
          /\ adobeAt'.hand = adobeAt.hand /\ adobeAt'.minted = adobeAt.minted
      BY <1>0, <3>1 DEF AdobeAttempts
    <3>4. AdobeAttempt(c)'
      BY <1>0, <3>2, <3>3 DEF AdobeAttempt
    <3> QED
      BY <1>0, <2>0, <2>2, <3>1, <3>3, <3>4 DEF AdobeMoves, AdobeGoesOn, AdobeSees
  <2>3. CASE adobeJob = "unsafe" /\ Adobe(c)!Resample /\ adobeAt.sample < c.samples
    <3>1. /\ adobeAt' = [adobeAt EXCEPT !.pc = "submit", !.sample = @ + 1]
          /\ Adobe(c)!Stay /\ adobeJob' = "none" /\ adobeRefused' = adobeRefused
      BY <2>3 DEF Adobe!Resample, Adobe!Onward
    <3>2. adobeAt.sample + 1 \in 1..c.samples
      BY <2>3
    <3>3. adobeAt' \in AdobeAttempts(c)
      BY <1>0, <3>1, <3>2 DEF AdobeAttempts
    <3>4. /\ adobeAt'.pc = "submit" /\ adobeAt'.acct = adobeAt.acct /\ adobeAt'.tries = 0
          /\ adobeAt'.hand = adobeAt.hand /\ adobeAt'.minted = adobeAt.minted
      BY <1>0, <3>1 DEF AdobeAttempts
    <3>5. AdobeAttempt(c)'
      BY <1>0, <3>3, <3>4 DEF AdobeAttempt
    <3> QED
      BY <1>0, <2>0, <2>3, <3>1, <3>4, <3>5 DEF AdobeMoves, AdobeGoesOn, AdobeResamples
  <2>4. ASSUME Adobe(c)!React("plain"), adobeRefused' \in {"unsafe", "job"},
               adobeRefused' = "unsafe" /\ c.kind = "image" => adobeAt.sample = c.samples
        PROVE  AdobeMoves(c)
    <3>1. AdobeSays(c, "plain")
      BY <1>0, <2>0, <2>4 DEF AdobeSays
    <3> QED
      BY <1>0, <2>0, <2>4, <3>1 DEF AdobeMoves, AdobeReacts, AdobeErrors
  <2>5. CASE Adobe(c)!Resample /\ ~(adobeAt.sample < c.samples)
    <3>1. Adobe(c)!React("plain") /\ adobeRefused' = "unsafe"
      BY <2>5 DEF Adobe!Resample, Adobe!React, Adobe!Limit
    <3>2. adobeAt.sample = c.samples
      BY <2>5
    <3> QED
      BY <2>4, <3>1, <3>2
  <2> QED
    BY <2>1, <2>2, <2>3, <2>4, <2>5
<1>2. CASE Adobe(c)!PollFails
  <2>1. PICK ans \in Adobe(c)!MayAnswer("poll") \ {"ok"} : Adobe(c)!Noted(ans) /\ Adobe(c)!React(Adobe(c)!Polled(ans))
    BY <1>2 DEF Adobe!PollFails
  <2>2. /\ ans \in {"denied", "credit", "net", "5xx", "load", "prompt", "other"}
        /\ troubles' \in 0..c.maxTroubles
        /\ told' = (IF ans = "denied" THEN told \cup {Adobe(c)!Hand} ELSE told)
        /\ ans = "denied" => Adobe(c)!Hand \in lapsed
        /\ ans # "credit"
        /\ ans \in {"net", "5xx", "load", "prompt", "other"} => over \/ "poll" \in c.troubled
        /\ adobeRefused' = IF ans \in {"prompt", "other"} THEN ans ELSE adobeRefused
    BY <1>0, <2>1, AdobeAnswers
  <2>3. PICK e \in AdobeErrors : e = Adobe(c)!Polled(ans)
    BY <2>2 DEF Adobe!Polled, Adobe!pollImage, Adobe!pollVideo, Adobe!Classify, AdobeErrors
  <2>4. /\ e = "auth" => ans = "denied"
        /\ e # "quota"
        /\ e = "plain" => ans \in {"prompt", "other", "denied"}
        /\ ans \in {"prompt", "other"} => e = "plain"
    BY <2>2, <2>3 DEF Adobe!Polled, Adobe!pollImage, Adobe!pollVideo, Adobe!Classify
  <2>5. AdobeSays(c, e)
    BY <1>0, <2>2, <2>4 DEF AdobeSays
  <2> QED
    BY <1>0, <2>1, <2>2, <2>3, <2>5 DEF AdobeMoves, AdobeReacts
<1>3. CASE Adobe(c)!PollTimesOut
  <2>1. Adobe(c)!React("plain") /\ over /\ UNCHANGED <<told, adobeRefused, troubles>>
    BY <1>3 DEF Adobe!PollTimesOut
  <2>2. AdobeSays(c, "plain")
    BY <1>0, <2>1 DEF AdobeSays
  <2> QED
    BY <1>0, <2>1, <2>2 DEF AdobeMoves, AdobeReacts, AdobeErrors
<1> QED
  BY <1>1, <1>2, <1>3

\* The download.
LEMMA AdobeDownloadMoves ==
  ASSUME NEW CONSTANT c, Adobe(c)!AdobeAssumption, AdobeInv(c), Adobe(c)!Download
  PROVE  AdobeMoves(c)
<1> USE AdobeShape
<1>0. /\ adobeAt.pc = "download" /\ adobeAt.tries < c.downloads /\ lapsed' = lapsed /\ over' = over /\ adobePaid' = adobePaid
      /\ adobeAt.minted => adobeAt.hand >= 1
      /\ adobeAt.pc \in Adobe(c)!Phases
  BY DEF Adobe!Download, Adobe!Phases, AdobeInv, AdobeAttempt
<1>1. PICK ans \in Adobe(c)!MayAnswer("download") :
        /\ Adobe(c)!Noted(ans)
        /\ CASE ans = "ok" -> Adobe(c)!Onward([adobeAt EXCEPT !.pc = "done"]) /\ UNCHANGED adobeJob
             [] Adobe(c)!Classify(ans) = "temp" /\ Adobe(c)!MoreDownloads ->
                  Adobe(c)!Onward([adobeAt EXCEPT !.tries = @ + 1]) /\ UNCHANGED adobeJob
             [] OTHER -> Adobe(c)!React(Adobe(c)!Classify(ans))
  BY DEF Adobe!Download
<1>2. /\ ans \in {"ok", "net", "5xx", "load", "other"}
      /\ troubles' \in 0..c.maxTroubles /\ told' = told /\ adobeRefused' = adobeRefused
      /\ ans # "ok" => "download" \in c.troubled /\ troubles < c.maxTroubles /\ ans \in c.answers
  BY <1>0, <1>1, AdobeAnswers
<1>3. CASE ans = "ok"
  <2>1. adobeAt' = [adobeAt EXCEPT !.pc = "done"] /\ Adobe(c)!Stay /\ adobeJob' = adobeJob
    BY <1>1, <1>3 DEF Adobe!Onward, Adobe!Classify
  <2>2. adobeAt' \in AdobeAttempts(c)
    BY <1>0, <2>1 DEF AdobeAttempts
  <2>3. /\ adobeAt'.pc = "done" /\ adobeAt'.acct = adobeAt.acct
        /\ adobeAt'.hand = adobeAt.hand /\ adobeAt'.minted = adobeAt.minted
    BY <1>0, <2>1 DEF AdobeAttempts
  <2>4. AdobeAttempt(c)'
    BY <1>0, <2>2, <2>3 DEF AdobeAttempt
  <2> QED
    BY <1>0, <1>2, <1>3, <2>1, <2>3, <2>4 DEF AdobeMoves, AdobeGoesOn, AdobeDownloads
<1>4. CASE ans # "ok" /\ Adobe(c)!Classify(ans) = "temp" /\ Adobe(c)!MoreDownloads
  <2>1. adobeAt' = [adobeAt EXCEPT !.tries = @ + 1] /\ Adobe(c)!Stay /\ adobeJob' = adobeJob
    BY <1>1, <1>4 DEF Adobe!Onward
  <2>2. adobeAt.tries + 1 < c.downloads /\ adobeAt.tries + 1 \in 0..(c.uploadTries + c.downloads)
    BY <1>4 DEF Adobe!MoreDownloads
  <2>3. adobeAt' \in AdobeAttempts(c)
    BY <1>0, <2>1, <2>2 DEF AdobeAttempts
  <2>4. /\ adobeAt'.pc = "download" /\ adobeAt'.acct = adobeAt.acct /\ adobeAt'.tries = adobeAt.tries + 1
        /\ adobeAt'.hand = adobeAt.hand /\ adobeAt'.minted = adobeAt.minted
    BY <1>0, <2>1 DEF AdobeAttempts
  <2>5. AdobeAttempt(c)'
    BY <1>0, <2>2, <2>3, <2>4 DEF AdobeAttempt
  <2>6. ~over => troubles' = troubles + 1
    BY <1>1, <1>2, <1>4 DEF Adobe!Noted
  <2> QED
    BY <1>0, <1>2, <2>1, <2>4, <2>5, <2>6 DEF AdobeMoves, AdobeGoesOn, AdobeDownloads
<1>5. CASE ans # "ok" /\ ~(Adobe(c)!Classify(ans) = "temp" /\ Adobe(c)!MoreDownloads)
  <2>1. Adobe(c)!React(Adobe(c)!Classify(ans))
    BY <1>1, <1>5
  <2>2. /\ Adobe(c)!Classify(ans) \in {"temp", "plain"}
        /\ Adobe(c)!Classify(ans) = "temp" => adobeAt.tries + 1 >= c.downloads
    BY <1>2, <1>5 DEF Adobe!Classify, Adobe!MoreDownloads
  <2>3. AdobeSays(c, Adobe(c)!Classify(ans))
    BY <1>0, <1>2, <1>5, <2>2 DEF AdobeSays
  <2> QED
    BY <1>0, <1>2, <2>1, <2>2, <2>3 DEF AdobeMoves, AdobeReacts, AdobeErrors
<1> QED
  BY <1>3, <1>4, <1>5

\* Every step of the attempt is such a move.
LEMMA AdobeWorkMoves ==
  ASSUME NEW CONSTANT c, Adobe(c)!AdobeAssumption, AdobeInv(c), Adobe(c)!Work
  PROVE  AdobeMoves(c)
BY AdobeUploadMoves, AdobeSubmitMoves, AdobePollMoves, AdobeDownloadMoves DEF Adobe!Work

-----------------------------------------------------------------------------
\* What a reaction does to the attempt: a token is minted, the pass begins again, the next
\* account is tried, or the request ends.
AdobeMints(c, e) == e = "auth" /\ Adobe(c)!Mintable /\ Adobe(c)!Mint
AdobeAgain(c, e) == e = "temp" /\ Adobe(c)!Again
AdobeNext(c, e) ==
  /\ e # "plain" /\ adobeAt.acct < c.last /\ adobeAt' = Adobe(c)!Fresh(adobeAt.acct + 1, 0, FALSE)
  /\ tried' = tried \cup {adobeAt.acct + 1} /\ rounds' = rounds
  /\ \/ e # "temp" /\ temps' = temps
     \/ e = "temp" /\ temps + 1 < c.maxTemp /\ temps' = temps + 1
AdobeEnds(c, e) ==
  /\ Adobe(c)!Fails
  /\ \/ e = "plain" \/ adobeAt.acct = c.last
     \/ e = "temp" /\ temps + 1 >= c.maxTemp

\* The account is marked by it, unless a token is minted.
AdobeMarks(c, e) ==
  /\ ~(e = "auth" /\ Adobe(c)!Mintable)
  /\ charged' = (IF e \in {"auth", "quota"} THEN charged \cup {adobeAt.acct} ELSE charged)
  /\ cooled' = (IF e \in {"auth", "temp"} THEN cooled \cup {adobeAt.acct} ELSE cooled)
  /\ limited' = (IF e = "quota" THEN limited \cup {adobeAt.acct} ELSE limited) /\ token' = token
  /\ AdobeAgain(c, e) \/ AdobeNext(c, e) \/ AdobeEnds(c, e)

\* An attempt that begins.
LEMMA AdobeFresh ==
  ASSUME NEW CONSTANT c, Adobe(c)!AdobeAssumption, NEW a \in 1..c.last, NEW tok \in Nat,
  NEW minted \in BOOLEAN,
         minted => tok >= 1, adobeAt' = Adobe(c)!Fresh(a, tok, minted)
  PROVE  AdobeAttempt(c)' /\ adobeAt'.acct = a /\ adobeAt'.hand = tok /\ adobeAt'.pc \in {"upload", "submit"}
<1>1. /\ c.refs \in Nat /\ c.samples \in Nat /\ c.samples >= 1 /\ c.uploadTries \in Nat /\ c.downloads \in Nat
  BY DEF Adobe!AdobeAssumption
<1>2. 0 \in 0..c.refs /\ 0 \in 0..(c.uploadTries + c.downloads) /\ 1 \in 1..c.samples
  BY <1>1
<1>3. adobeAt' \in AdobeAttempts(c)
  BY <1>2 DEF Adobe!Fresh, AdobeAttempts, Adobe!Phases
<1>4. /\ adobeAt'.acct = a /\ adobeAt'.hand = tok /\ adobeAt'.minted = minted /\ adobeAt'.tries = 0 /\ adobeAt'.refs = 0
      /\ adobeAt'.pc = (IF c.refs > 0 THEN "upload" ELSE "submit")
  BY DEF Adobe!Fresh
<1> QED
  BY <1>1, <1>3, <1>4 DEF AdobeAttempt

\* What a reaction leaves.
AdobeLeaves(c, e) ==
  /\ AdobeAttempt(c)' /\ tried' = 1..adobeAt'.acct /\ temps' \in 0..c.maxTemp /\ rounds' \in 0..c.maxRounds
  /\ token' \in [1..c.last -> Nat] /\ adobeAt'.hand <= token'[adobeAt'.acct]
  /\ adobeAt'.pc \in {"upload", "submit", "failed"}
  /\ adobeAt'.pc = "failed" => AdobeEnds(c, e) /\ adobeAt'.sample = adobeAt.sample

\* A token is minted.
LEMMA AdobeMintLeaves ==
  ASSUME NEW CONSTANT c, Adobe(c)!AdobeAssumption, AdobeInv(c), NEW e, AdobeMints(c, e)
  PROVE  AdobeLeaves(c, e)
<1> USE AdobeShape
<1>0. /\ tried = 1..adobeAt.acct /\ temps \in 0..c.maxTemp /\ rounds \in 0..c.maxRounds /\ token \in [1..c.last -> Nat]
  BY DEF AdobeInv, AdobeRest
<1>1. /\ token' = [token EXCEPT ![adobeAt.acct] = @ + 1] /\ adobeAt' = Adobe(c)!Fresh(adobeAt.acct, token[adobeAt.acct] + 1, TRUE)
      /\ UNCHANGED <<tried, temps, rounds>>
  BY DEF AdobeMints, Adobe!Mint
<1>2. /\ token[adobeAt.acct] + 1 \in Nat /\ token[adobeAt.acct] + 1 >= 1
      /\ token' \in [1..c.last -> Nat] /\ token'[adobeAt.acct] = token[adobeAt.acct] + 1
  BY <1>0, <1>1
<1>3. /\ AdobeAttempt(c)' /\ adobeAt'.acct = adobeAt.acct /\ adobeAt'.hand = token[adobeAt.acct] + 1
      /\ adobeAt'.pc \in {"upload", "submit"}
  BY <1>1, <1>2, AdobeFresh
<1>4. adobeAt'.hand <= token'[adobeAt'.acct]
  BY <1>2, <1>3
<1>5. tried' = 1..adobeAt'.acct /\ temps' \in 0..c.maxTemp /\ rounds' \in 0..c.maxRounds /\ adobeAt'.pc # "failed"
  BY <1>0, <1>1, <1>3
<1> QED
  BY <1>2, <1>3, <1>4, <1>5 DEF AdobeLeaves

\* The accounts are tried in their order.
LEMMA AdobeMarkLeaves ==
  ASSUME NEW CONSTANT c, Adobe(c)!AdobeAssumption, AdobeInv(c), NEW e, AdobeMarks(c, e)
  PROVE  AdobeLeaves(c, e)
<1> USE AdobeShape
<1>0. /\ AdobeAttempt(c) /\ tried = 1..adobeAt.acct /\ temps \in 0..c.maxTemp /\ rounds \in 0..c.maxRounds
      /\ token \in [1..c.last -> Nat] /\ adobeAt.hand <= token[adobeAt.acct]
  BY DEF AdobeInv, AdobeRest
<1>1. token' = token
  BY DEF AdobeMarks
<1>2. CASE AdobeAgain(c, e)
  <2>1. adobeAt' = Adobe(c)!Fresh(1, 0, FALSE) /\ tried' = {1} /\ temps' = 0 /\ rounds' \in 0..c.maxRounds
    BY <1>0, <1>2 DEF AdobeAgain, Adobe!Again
  <2>2. 1 \in 1..c.last /\ 0 \in Nat /\ 1..1 = {1} /\ 0 \in 0..c.maxTemp
    OBVIOUS
  <2>3. AdobeAttempt(c)' /\ adobeAt'.acct = 1 /\ adobeAt'.hand = 0 /\ adobeAt'.pc \in {"upload", "submit"}
    BY <2>1, <2>2, AdobeFresh
  <2>4. token[1] \in Nat
    BY <1>0, <2>2
  <2>5. adobeAt'.hand <= token'[adobeAt'.acct]
    BY <1>1, <2>3, <2>4
  <2>6. tried' = 1..adobeAt'.acct /\ temps' \in 0..c.maxTemp /\ adobeAt'.pc # "failed"
    BY <2>1, <2>2, <2>3
  <2> QED
    BY <1>0, <1>1, <2>1, <2>3, <2>5, <2>6 DEF AdobeLeaves
<1>3. CASE AdobeNext(c, e)
  <2>1. /\ adobeAt' = Adobe(c)!Fresh(adobeAt.acct + 1, 0, FALSE) /\ tried' = tried \cup {adobeAt.acct + 1}
        /\ adobeAt.acct + 1 \in 1..c.last /\ temps' \in 0..c.maxTemp /\ rounds' = rounds
    BY <1>0, <1>3 DEF AdobeNext
  <2>2. AdobeAttempt(c)' /\ adobeAt'.acct = adobeAt.acct + 1 /\ adobeAt'.hand = 0 /\ adobeAt'.pc \in {"upload", "submit"}
    BY <2>1, AdobeFresh
  <2>3. 1..(adobeAt.acct + 1) = (1..adobeAt.acct) \cup {adobeAt.acct + 1}
    OBVIOUS
  <2>4. tried' = 1..adobeAt'.acct
    BY <1>0, <2>1, <2>2, <2>3
  <2>5. token[adobeAt.acct + 1] \in Nat
    BY <1>0, <2>1
  <2>6. adobeAt'.hand <= token'[adobeAt'.acct]
    BY <1>1, <2>2, <2>5
  <2> QED
    BY <1>0, <1>1, <2>1, <2>2, <2>4, <2>6 DEF AdobeLeaves
<1>4. CASE AdobeEnds(c, e)
  <2>1. adobeAt' = [adobeAt EXCEPT !.pc = "failed"] /\ UNCHANGED <<tried, temps, rounds>>
    BY <1>4 DEF AdobeEnds, Adobe!Fails
  <2>2. /\ adobeAt' \in AdobeAttempts(c) /\ adobeAt'.pc = "failed" /\ adobeAt'.sample = adobeAt.sample
        /\ adobeAt'.acct = adobeAt.acct /\ adobeAt'.hand = adobeAt.hand /\ adobeAt'.minted = adobeAt.minted
    BY <2>1 DEF AdobeAttempts
  <2>3. AdobeAttempt(c)'
    BY <1>0, <2>2 DEF AdobeAttempt
  <2> QED
    BY <1>0, <1>1, <1>4, <2>1, <2>2, <2>3 DEF AdobeLeaves
<1> QED
  BY <1>2, <1>3, <1>4 DEF AdobeMarks

\* A reaction mints a token or marks the account.
LEMMA AdobeReactStep ==
  ASSUME NEW CONSTANT c, Adobe(c)!AdobeAssumption, AdobeInv(c), NEW e \in AdobeErrors, Adobe(c)!React(e)
  PROVE  /\ adobeJob' = "none" /\ AdobeLeaves(c, e)
         /\ \/ AdobeMints(c, e) /\ UNCHANGED <<charged, cooled, limited>> /\ adobeAt'.pc # "failed"
            \/ AdobeMarks(c, e) /\ (e = "plain" => adobeAt'.pc = "failed" /\ adobeAt'.sample = adobeAt.sample)
<1> USE AdobeShape
<1>1. CASE e = "auth" /\ Adobe(c)!Mintable
  <2>1. AdobeMints(c, e) /\ adobeJob' = "none"
    BY <1>1 DEF Adobe!React, AdobeMints
  <2>2. UNCHANGED <<charged, cooled, limited>>
    BY <2>1 DEF AdobeMints, Adobe!Mint
  <2>3. adobeAt' = Adobe(c)!Fresh(adobeAt.acct, token[adobeAt.acct] + 1, TRUE)
    BY <2>1 DEF AdobeMints, Adobe!Mint
  <2>4. adobeAt'.pc # "failed"
    BY <2>3 DEF Adobe!Fresh
  <2> QED
    BY <2>1, <2>2, <2>4, AdobeMintLeaves
<1>2. CASE ~(e = "auth" /\ Adobe(c)!Mintable)
  <2>1. /\ adobeJob' = "none" /\ token' = token
        /\ charged' = (IF e \in {"auth", "quota"} THEN charged \cup {adobeAt.acct} ELSE charged)
        /\ cooled' = (IF e \in {"auth", "temp"} THEN cooled \cup {adobeAt.acct} ELSE cooled)
        /\ limited' = (IF e = "quota" THEN limited \cup {adobeAt.acct} ELSE limited)
        /\ IF e = "plain" THEN Adobe(c)!Fails ELSE Adobe(c)!NextAccount(e)
    BY <1>2 DEF Adobe!React, Adobe!Limit
  <2>2. temps \in 0..c.maxTemp
    BY DEF AdobeInv, AdobeRest
  <2>3. AdobeAgain(c, e) \/ AdobeNext(c, e) \/ AdobeEnds(c, e)
    <3>1. CASE e = "plain"
      BY <2>1, <3>1 DEF AdobeEnds
    <3>2. CASE e # "plain" /\ e = "temp" /\ temps + 1 >= c.maxTemp
      BY <2>1, <3>2 DEF Adobe!NextAccount, AdobeAgain, AdobeEnds
    <3>3. CASE e # "plain" /\ ~(e = "temp" /\ temps + 1 >= c.maxTemp) /\ adobeAt.acct < c.last
      <4>1. /\ adobeAt' = Adobe(c)!Fresh(adobeAt.acct + 1, 0, FALSE) /\ tried' = tried \cup {adobeAt.acct + 1}
            /\ temps' = (IF e = "temp" THEN temps + 1 ELSE temps) /\ rounds' = rounds
        BY <2>1, <3>3 DEF Adobe!NextAccount
      <4>2. e = "temp" => temps + 1 < c.maxTemp /\ temps' = temps + 1
        BY <2>2, <3>3, <4>1
      <4>3. e # "temp" => temps' = temps
        BY <4>1
      <4> QED
        BY <3>3, <4>1, <4>2, <4>3 DEF AdobeNext
    <3>4. CASE e # "plain" /\ ~(e = "temp" /\ temps + 1 >= c.maxTemp) /\ ~(adobeAt.acct < c.last)
      BY <2>1, <3>4 DEF Adobe!NextAccount, AdobeAgain, AdobeEnds
    <3> QED
      BY <3>1, <3>2, <3>3, <3>4
  <2>4. AdobeMarks(c, e)
    BY <1>2, <2>1, <2>3 DEF AdobeMarks
  <2>5. e = "plain" => adobeAt'.pc = "failed" /\ adobeAt'.sample = adobeAt.sample
    BY <2>1 DEF Adobe!Fails, AdobeAttempts
  <2> QED
    BY <2>1, <2>4, <2>5, AdobeMarkLeaves
<1> QED
  BY <1>1, <1>2

\* The types, the refusals and the samples.
LEMMA AdobeStep ==
  ASSUME NEW CONSTANT c, Adobe(c)!AdobeAssumption, AdobeInv(c), Adobe(c)!Next \/ UNCHANGED adobeVars
  PROVE  AdobeInv(c)'
<1> USE AdobeShape
<1>0. /\ AdobeAttempt(c) /\ AdobeRest(c) /\ AdobeLapses(c) /\ Adobe(c)!RefusedIsFinal /\ Adobe(c)!AllSamplesTaken
  BY DEF AdobeInv
<1>1. CASE Adobe(c)!Work
  <2>1. /\ AdobeMoves(c) /\ lapsed' = lapsed /\ troubles' \in 0..c.maxTroubles /\ adobeAt.pc \in Adobe(c)!Phases
    BY <1>1, AdobeWorkMoves DEF AdobeMoves
  <2>2. adobeRefused = "no"
    BY <1>0, <2>1 DEF Adobe!RefusedIsFinal, Adobe!Phases
  <2>3. CASE AdobeReacts(c)
    <3>1. PICK e \in AdobeErrors : Adobe(c)!React(e) /\ AdobeSays(c, e)
      BY <2>3 DEF AdobeReacts
    <3>2. /\ adobeJob' = "none" /\ AdobeLeaves(c, e)
          /\ \/ AdobeMints(c, e) /\ UNCHANGED <<charged, cooled, limited>> /\ adobeAt'.pc # "failed"
             \/ AdobeMarks(c, e) /\ (e = "plain" => adobeAt'.pc = "failed" /\ adobeAt'.sample = adobeAt.sample)
      BY <3>1, AdobeReactStep
    <3>3. e = "plain" => adobeAt'.pc = "failed" /\ adobeAt'.sample = adobeAt.sample
      BY <3>2 DEF AdobeMints
    <3>4. charged' \subseteq 1..c.last /\ cooled' \subseteq 1..c.last /\ limited' \subseteq 1..c.last
      BY <1>0, <3>2 DEF AdobeRest, AdobeMarks
    <3>5. /\ told' = told \/ (Adobe(c)!Hand \in lapsed /\ told' = told \cup {Adobe(c)!Hand})
          /\ adobeRefused' = adobeRefused \/ e = "plain"
          /\ adobeRefused' = "unsafe" /\ c.kind = "image" => adobeRefused = "unsafe" \/ adobeAt.sample = c.samples
          /\ adobeRefused' \in {"no", "prompt", "other", "job", "unsafe"}
          /\ adobePaid' = adobePaid \/ adobePaid' = adobePaid + 1
      BY <3>1 DEF AdobeSays
    <3>6. told' \subseteq lapsed' /\ adobePaid' \in Nat
      BY <1>0, <2>1, <3>5 DEF AdobeRest
    <3>7. AdobeRest(c)'
      BY <2>1, <3>2, <3>4, <3>5, <3>6 DEF AdobeRest, AdobeLeaves
    <3>8. Adobe(c)!RefusedIsFinal' /\ Adobe(c)!AllSamplesTaken'
      BY <2>2, <3>3, <3>5 DEF Adobe!RefusedIsFinal, Adobe!AllSamplesTaken
    <3>9. AdobeLapses(c)' /\ AdobeAttempt(c)'
      BY <1>0, <2>1, <3>2 DEF AdobeLapses, AdobeLeaves
    <3> QED
      BY <3>7, <3>8, <3>9 DEF AdobeInv
  <2>4. CASE AdobeGoesOn(c)
    <3>1. /\ AdobeAttempt(c)' /\ told' = told /\ adobeRefused' = adobeRefused
          /\ adobeAt'.acct = adobeAt.acct /\ adobeAt'.hand = adobeAt.hand
          /\ AdobeUploads \/ AdobeSubmits(c) \/ AdobeSees \/ AdobeResamples \/ AdobeDownloads
          /\ UNCHANGED <<tried, temps, rounds, token, charged, cooled, limited>>
      BY <2>4 DEF AdobeGoesOn, Adobe!Stay
    <3>2. /\ adobeJob' \in {"none", "running", "made", "unsafe", "failed"} /\ adobePaid' \in Nat
          /\ adobeJob' = "running" => adobePaid' >= 1
      BY <1>0, <3>1 DEF AdobeUploads, AdobeSubmits, AdobeSees, AdobeResamples, AdobeDownloads, AdobeRest
    <3>3. adobeJob' # "none" => adobeAt'.pc \in {"poll", "download", "done", "failed"}
      BY <1>0, <3>1 DEF AdobeUploads, AdobeSubmits, AdobeSees, AdobeResamples, AdobeDownloads, AdobeRest
    <3>4. AdobeRest(c)'
      BY <1>0, <2>1, <3>1, <3>2, <3>3 DEF AdobeRest
    <3>5. Adobe(c)!RefusedIsFinal' /\ Adobe(c)!AllSamplesTaken'
      BY <2>2, <3>1 DEF Adobe!RefusedIsFinal, Adobe!AllSamplesTaken
    <3>6. AdobeLapses(c)'
      BY <1>0, <2>1, <3>1 DEF AdobeLapses, AdobeUploads, AdobeSubmits, AdobeSees, AdobeResamples,
         AdobeDownloads, Adobe!Hand
    <3> QED
      BY <3>1, <3>4, <3>5, <3>6 DEF AdobeInv
  <2> QED
    BY <2>1, <2>3, <2>4 DEF AdobeMoves
<1>2. ASSUME UNCHANGED <<adobeAt, tried, temps, rounds, token, told, adobeRefused, charged, cooled, limited, troubles>>,
             told \subseteq lapsed', c.maxLapses = 0 => lapsed' = lapsed,
             \/ UNCHANGED <<adobeJob, adobePaid>>
             \/ /\ adobeJob = "running" /\ adobeJob' \in {"made", "unsafe", "failed"}
                /\ adobePaid' = adobePaid \/ adobePaid' = adobePaid - 1
      PROVE  AdobeInv(c)'
  <2>1. AdobeAttempt(c)'
    BY <1>0, <1>2 DEF AdobeAttempt, AdobeAttempts
  <2>2. /\ adobeJob' \in {"none", "running", "made", "unsafe", "failed"} /\ adobePaid' \in Nat
        /\ adobeJob' = "running" => adobePaid' >= 1
        /\ adobeJob' # "none" => adobeAt.pc \in {"poll", "download", "done", "failed"}
    BY <1>0, <1>2 DEF AdobeRest
  <2>3. AdobeRest(c)'
    BY <1>0, <1>2, <2>2 DEF AdobeRest
  <2>4. AdobeLapses(c)' /\ Adobe(c)!RefusedIsFinal' /\ Adobe(c)!AllSamplesTaken'
    BY <1>0, <1>2 DEF AdobeLapses, Adobe!RefusedIsFinal, Adobe!AllSamplesTaken, Adobe!Hand
  <2> QED
    BY <2>1, <2>3, <2>4 DEF AdobeInv
<1>3. told \subseteq lapsed
  BY <1>0 DEF AdobeRest
<1>4. CASE Adobe(c)!Rendered
  BY <1>2, <1>3, <1>4 DEF Adobe!Rendered
<1>5. CASE Adobe(c)!Lapse
  <2>1. /\ lapsed' = lapsed \cup {Adobe(c)!Hand}
        /\ UNCHANGED <<adobeAt, tried, temps, rounds, token, told, adobeJob, adobePaid, adobeRefused,
                       charged, cooled, limited, over, troubles>>
    BY <1>5 DEF Adobe!Lapse
  <2>2. c.maxLapses # 0
    <3>1. SUFFICES ASSUME c.maxLapses = 0 PROVE FALSE
      OBVIOUS
    <3>2. lapsed \ (c.expired \X {0}) = {}
      BY <1>0, <3>1 DEF AdobeLapses
    <3>3. Adobe(c)!Cardinality({}) = 0
      BY FS_EmptySet DEF Adobe!Cardinality, Cardinality
    <3>4. Adobe(c)!Cardinality(lapsed \ (c.expired \X {0})) < c.maxLapses
      BY <1>5 DEF Adobe!Lapse
    <3>5. Adobe(c)!Cardinality({}) < 0
      BY <3>1, <3>2, <3>4
    <3> QED
      BY <3>3, <3>5
  <2> QED
    BY <1>2, <1>3, <2>1, <2>2
<1>6. CASE Adobe(c)!ContextEnds \/ Adobe(c)!Ended \/ UNCHANGED adobeVars
  BY <1>2, <1>3, <1>6 DEF Adobe!ContextEnds, Adobe!Ended, Adobe!vars, adobeVars
<1> QED
  BY <1>1, <1>4, <1>5, <1>6 DEF Adobe!Next

\* What AdobeInv says of the properties.
LEMMA AdobeImplies ==
  ASSUME NEW CONSTANT c, Adobe(c)!AdobeAssumption, AdobeInv(c)
  PROVE  Adobe(c)!AdobeTypeOK /\ Adobe(c)!RefusedIsFinal /\ Adobe(c)!AllSamplesTaken
<1>1. /\ adobeAt.acct \in 1..c.last /\ adobeAt.pc \in Adobe(c)!Phases \cup {"done", "failed"} /\ adobeAt.refs \in 0..c.refs
      /\ adobeAt.tries \in 0..(c.uploadTries + c.downloads) /\ adobeAt.sample \in 1..c.samples /\ adobeAt.hand \in Nat
  BY DEF AdobeInv, AdobeAttempt, AdobeAttempts
<1>2. AdobeRest(c) /\ c.last \in Nat
  BY DEF AdobeInv, Adobe!AdobeAssumption
<1>3. adobeAt.hand \in 0..token[adobeAt.acct] /\ tried \subseteq 1..c.last
  BY <1>1, <1>2 DEF AdobeRest
<1>4. {charged, cooled, limited} \subseteq SUBSET (1..c.last)
  BY <1>2 DEF AdobeRest
<1>5. Adobe(c)!AdobeTypeOK
  BY <1>1, <1>2, <1>3, <1>4 DEF AdobeRest, Adobe!AdobeTypeOK, Adobe!Accounts
<1> QED
  BY <1>5 DEF AdobeInv

\* Nothing has been asked yet.
LEMMA AdobeInitially ==
  ASSUME NEW CONSTANT c, Adobe(c)!AdobeAssumption, Adobe(c)!Init
  PROVE  AdobeInv(c)
<1>1. /\ c.last \in Nat /\ c.last >= 1 /\ c.maxTemp \in Nat /\ c.maxRounds \in Nat /\ c.maxTroubles \in Nat
      /\ c.refs \in Nat /\ c.samples \in Nat /\ c.samples >= 1 /\ c.uploadTries \in Nat /\ c.downloads \in Nat
  BY DEF Adobe!AdobeAssumption
<1>2. /\ 1 \in 1..c.last /\ 1..1 = {1} /\ 0 \in 0..c.maxTemp /\ 0 \in 0..c.maxRounds /\ 0 \in 0..c.maxTroubles
      /\ 0 \in 0..c.refs /\ 0 \in 0..(c.uploadTries + c.downloads) /\ 1 \in 1..c.samples
  BY <1>1
<1>3. adobeAt = Adobe(c)!Fresh(1, 0, FALSE)
  BY DEF Adobe!Init
<1>4. /\ adobeAt \in AdobeAttempts(c) /\ adobeAt.acct = 1 /\ adobeAt.hand = 0 /\ adobeAt.minted = FALSE
      /\ adobeAt.tries = 0 /\ adobeAt.refs = 0 /\ adobeAt.pc = (IF c.refs > 0 THEN "upload" ELSE "submit")
  BY <1>2, <1>3 DEF Adobe!Fresh, AdobeAttempts, Adobe!Phases
<1>5. AdobeAttempt(c)
  BY <1>1, <1>4 DEF AdobeAttempt
<1>6. token \in [1..c.last -> Nat] /\ adobeAt.hand <= token[adobeAt.acct]
  <2>1. token = [a \in 1..c.last |-> 0]
    BY DEF Adobe!Init, Adobe!Accounts
  <2>2. token[1] = 0
    BY <1>2, <2>1
  <2> QED
    BY <1>4, <2>1, <2>2
<1>7. AdobeRest(c)
  BY <1>2, <1>4, <1>6 DEF AdobeRest, Adobe!Init
<1>8. AdobeLapses(c) /\ Adobe(c)!RefusedIsFinal /\ Adobe(c)!AllSamplesTaken
  BY <1>4 DEF AdobeLapses, Adobe!RefusedIsFinal, Adobe!AllSamplesTaken, Adobe!Init
<1> QED
  BY <1>5, <1>7, <1>8 DEF AdobeInv

\* Steps besides the attempt's.
LEMMA AdobeOthers ==
  ASSUME NEW CONSTANT c, Adobe(c)!AdobeAssumption, AdobeInv(c), Adobe(c)!Next \/ UNCHANGED adobeVars,
  ~Adobe(c)!Work
  PROVE  /\ UNCHANGED <<adobeAt, tried, temps, rounds, token, told, adobeRefused, charged, cooled, limited, troubles>>
         /\ over' = over \/ (c.slow /\ over' = TRUE)
         /\ \/ UNCHANGED <<adobeJob, adobePaid>>
            \/ adobeJob = "running" /\ adobeJob' = "made" /\ adobePaid' = adobePaid
            \/ adobeJob = "running" /\ adobeJob' \in {"unsafe", "failed"} /\ adobePaid' = adobePaid - 1
BY DEF Adobe!Next, Adobe!Rendered, Adobe!Lapse, Adobe!ContextEnds, Adobe!Ended, Adobe!vars, adobeVars

\* A token that ran out, as listed, may be minted anew once.
AdobeHonest(c) == ~over /\ Adobe(c)!ChargedIsHopeless

\* Only accounts without a cookie or without credits have failures counted against them.
LEMMA AdobeHonestStep ==
  ASSUME NEW CONSTANT c, Adobe(c)!AdobeAssumption, c.maxLapses = 0, ~c.slow, AdobeInv(c), AdobeHonest(c),
         Adobe(c)!Next \/ UNCHANGED adobeVars
  PROVE  AdobeHonest(c)'
<1> USE AdobeShape
<1>1. CASE Adobe(c)!Work
  <2>1. AdobeMoves(c) /\ over' = over
    BY <1>1, AdobeWorkMoves DEF AdobeMoves
  <2>2. CASE AdobeReacts(c)
    <3>1. PICK e \in AdobeErrors : Adobe(c)!React(e) /\ AdobeSays(c, e)
      BY <2>2 DEF AdobeReacts
    <3>2. \/ UNCHANGED <<charged, cooled, limited>>
          \/ AdobeMarks(c, e)
      BY <3>1, AdobeReactStep
    <3>3. CASE AdobeMarks(c, e)
      <4>1. e = "quota" => adobeAt.acct \in c.spent
        BY <3>1 DEF AdobeSays
      <4>2. ASSUME e = "auth" PROVE adobeAt.acct \in c.noCookie
        <5>1. Adobe(c)!Hand \in c.expired \X {0}
          BY <3>1, <4>2 DEF AdobeSays, AdobeInv, AdobeLapses
        <5>2. adobeAt.hand = 0
          BY <5>1 DEF Adobe!Hand
        <5>3. ~adobeAt.minted
          BY <5>2 DEF AdobeInv, AdobeAttempt
        <5> QED
          BY <3>3, <4>2, <5>3 DEF AdobeMarks, Adobe!Mintable, AdobeHonest
      <4> QED
        BY <2>1, <3>3, <4>1, <4>2 DEF AdobeMarks, AdobeHonest, Adobe!ChargedIsHopeless
    <3> QED
      BY <2>1, <3>2, <3>3 DEF AdobeHonest, Adobe!ChargedIsHopeless
  <2>3. CASE AdobeGoesOn(c)
    BY <2>1, <2>3 DEF AdobeGoesOn, Adobe!Stay, AdobeHonest, Adobe!ChargedIsHopeless
  <2> QED
    BY <2>1, <2>2, <2>3 DEF AdobeMoves
<1>2. CASE ~Adobe(c)!Work
  BY <1>2, AdobeOthers DEF AdobeHonest, Adobe!ChargedIsHopeless
<1> QED
  BY <1>1, <1>2

-----------------------------------------------------------------------------
\* In one pass over the pool Adobe has refused the listed tokens of accounts already tried.
AdobeNew(c) ==
  /\ told \subseteq (1..adobeAt.acct) \X {0}
  /\ adobeAt.pc \in {"upload", "submit", "poll"} => Adobe(c)!Hand \notin told

\* No refused token is sent again.
LEMMA AdobeNewStep ==
  ASSUME NEW CONSTANT c, Adobe(c)!AdobeAssumption, c.maxLapses = 0, c.maxRounds = 0, AdobeInv(c), AdobeNew(c),
         Adobe(c)!Next \/ UNCHANGED adobeVars
  PROVE  AdobeNew(c)'
<1> USE AdobeShape
<1>1. CASE Adobe(c)!Work
  <2>1. AdobeMoves(c)
    BY <1>1, AdobeWorkMoves
  <2>2. CASE AdobeReacts(c)
    <3>1. PICK e \in AdobeErrors : Adobe(c)!React(e) /\ AdobeSays(c, e)
      BY <2>2 DEF AdobeReacts
    <3>2. told' = told \/ (Adobe(c)!Hand \in c.expired \X {0} /\ told' = told \cup {Adobe(c)!Hand})
      BY <3>1 DEF AdobeSays, AdobeInv, AdobeLapses
    <3>3. \A t \in told' : t \in (1..adobeAt.acct) \X {0}
      <4>1. adobeAt.acct \in 1..adobeAt.acct
        OBVIOUS
      <4>2. Adobe(c)!Hand \in c.expired \X {0} => Adobe(c)!Hand \in (1..adobeAt.acct) \X {0}
        BY <4>1 DEF Adobe!Hand
      <4> QED
        BY <3>2, <4>2 DEF AdobeNew
    <3>4. AdobeMints(c, e) \/ AdobeMarks(c, e)
      BY <3>1, AdobeReactStep
    <3>5. CASE AdobeMints(c, e)
      <4>1. adobeAt' = Adobe(c)!Fresh(adobeAt.acct, token[adobeAt.acct] + 1, TRUE) /\ token[adobeAt.acct] + 1 \in Nat
            /\ token[adobeAt.acct] + 1 >= 1
        BY <3>5 DEF AdobeMints, Adobe!Mint, AdobeInv, AdobeRest
      <4>2. adobeAt'.acct = adobeAt.acct /\ adobeAt'.hand = token[adobeAt.acct] + 1
        BY <4>1 DEF Adobe!Fresh
      <4>3. adobeAt'.hand # 0
        <5>1. token[adobeAt.acct] \in Nat
          BY DEF AdobeInv, AdobeRest
        <5> QED
          BY <4>2, <5>1
      <4> QED
        BY <3>3, <4>2, <4>3 DEF AdobeNew, Adobe!Hand
    <3>6. CASE AdobeMarks(c, e)
      <4>1. rounds \in 0..c.maxRounds
        BY DEF AdobeInv, AdobeRest
      <4>2. AdobeNext(c, e) \/ AdobeEnds(c, e)
        BY <3>6, <4>1 DEF AdobeMarks, AdobeAgain, Adobe!Again
      <4>3. CASE AdobeNext(c, e)
        <5>1. adobeAt' = Adobe(c)!Fresh(adobeAt.acct + 1, 0, FALSE) /\ adobeAt.acct + 1 \in 1..c.last
          BY <4>3 DEF AdobeNext
        <5>2. adobeAt'.acct = adobeAt.acct + 1
          BY <5>1, AdobeFresh
        <5>3. \A t \in told' : t \in (1..adobeAt'.acct) \X {0}
          BY <3>3, <5>2
        <5>4. Adobe(c)!Hand' \notin told'
          BY <3>3, <5>2 DEF Adobe!Hand
        <5> QED
          BY <5>3, <5>4 DEF AdobeNew
      <4>4. CASE AdobeEnds(c, e)
        <5>1. adobeAt'.acct = adobeAt.acct /\ adobeAt'.pc = "failed"
          BY <4>4 DEF AdobeEnds, Adobe!Fails, AdobeAttempts
        <5> QED
          BY <3>3, <5>1 DEF AdobeNew
      <4> QED
        BY <4>2, <4>3, <4>4
    <3> QED
      BY <3>4, <3>5, <3>6
  <2>3. CASE AdobeGoesOn(c)
    <3>1. adobeAt'.pc \in {"upload", "submit", "poll"} => adobeAt.pc \in {"upload", "submit", "poll"}
      BY <2>3 DEF AdobeGoesOn, AdobeUploads, AdobeSubmits, AdobeSees, AdobeResamples, AdobeDownloads
    <3>2. told' = told /\ adobeAt'.acct = adobeAt.acct /\ adobeAt'.hand = adobeAt.hand
      BY <2>3 DEF AdobeGoesOn
    <3> QED
      BY <3>1, <3>2 DEF AdobeNew, Adobe!Hand
  <2> QED
    BY <2>1, <2>2, <2>3 DEF AdobeMoves
<1>2. CASE ~Adobe(c)!Work
  <2>1. adobeAt' = adobeAt /\ told' = told
    BY <1>2, AdobeOthers
  <2> QED
    BY <2>1 DEF AdobeNew, Adobe!Hand
<1> QED
  BY <1>1, <1>2

-----------------------------------------------------------------------------
\* What was accepted is polled or downloaded, unless the context has ended.
AdobeOnce(c) ==
  /\ adobePaid <= 1
  /\ adobePaid = 1 /\ adobeAt.pc \in {"upload", "submit"} => over
  /\ adobeAt.pc = "download" /\ ~over => adobeAt.tries <= troubles
  /\ adobeJob \in {"unsafe", "failed"} => adobePaid = 0

\* Nothing is rendered twice.
LEMMA AdobeOnceStep ==
  ASSUME NEW CONSTANT c, Adobe(c)!AdobeAssumption, Transferred(c), AdobeInv(c), AdobeOnce(c),
         Adobe(c)!Next \/ UNCHANGED adobeVars
  PROVE  AdobeOnce(c)'
<1> USE AdobeShape
<1>1. CASE Adobe(c)!Work
  <2>1. AdobeMoves(c) /\ over' = over /\ adobeAt.pc \in {"upload", "submit", "poll", "download"} /\ troubles' \in Nat
    BY <1>1, AdobeWorkMoves DEF AdobeMoves, Adobe!Phases
  <2>2. CASE AdobeReacts(c)
    <3>1. PICK e \in AdobeErrors : Adobe(c)!React(e) /\ AdobeSays(c, e)
      BY <2>2 DEF AdobeReacts
    <3>2. adobePaid' = adobePaid
      BY <3>1 DEF AdobeSays, Transferred
    <3>3. /\ adobeJob' = "none" /\ adobeAt'.pc \in {"upload", "submit", "failed"}
          /\ e = "plain" => adobeAt'.pc = "failed"
      BY <3>1, AdobeReactStep DEF AdobeLeaves, AdobeMints
    <3>4. adobeAt.pc = "poll" => e = "plain" \/ over
      BY <3>1 DEF AdobeSays, Transferred, AdobeInv, AdobeLapses
    <3>5. adobeAt.pc = "download" => e = "plain" \/ over
      <4>1. c.maxTroubles < c.downloads
        BY DEF Transferred
      <4>2. adobeAt.pc = "download" => e = "plain" \/ (troubles < c.maxTroubles /\ adobeAt.tries + 1 >= c.downloads)
        BY <3>1 DEF AdobeSays
      <4>3. adobeAt.pc = "download" /\ ~over => adobeAt.tries <= troubles
        BY DEF AdobeOnce
      <4> QED
        BY <4>1, <4>2, <4>3
    <3>6. adobePaid = 1 /\ adobeAt'.pc \in {"upload", "submit"} => over
      BY <2>1, <3>3, <3>4, <3>5 DEF AdobeOnce
    <3> QED
      BY <2>1, <3>2, <3>3, <3>6 DEF AdobeOnce
  <2>3. CASE AdobeGoesOn(c)
    <3>1. adobeAt' \in AdobeAttempts(c) /\ (adobeAt'.pc \in {"submit", "poll"} => adobeAt'.tries = 0)
      BY <2>3 DEF AdobeGoesOn, AdobeAttempt
    <3>2. CASE AdobeUploads
      BY <2>1, <3>2 DEF AdobeUploads, AdobeOnce, AdobeInv, AdobeRest
    <3>3. CASE AdobeSubmits(c)
      <4>1. adobePaid = 0
        BY <3>3 DEF AdobeSubmits, AdobeOnce
      <4> QED
        BY <2>1, <3>3, <4>1 DEF AdobeSubmits, AdobeOnce
    <3>4. CASE AdobeSees
      <4>1. adobeAt'.tries <= troubles'
        BY <2>1, <3>4 DEF AdobeSees
      <4> QED
        BY <2>1, <3>4, <4>1 DEF AdobeSees, AdobeOnce
    <3>5. CASE AdobeResamples
      BY <2>1, <3>5 DEF AdobeResamples, AdobeOnce
    <3>6. CASE AdobeDownloads
      <4>1. adobeAt'.pc = "download" /\ ~over => adobeAt'.tries <= troubles'
        BY <3>6 DEF AdobeDownloads, AdobeOnce
      <4> QED
        BY <2>1, <3>6, <4>1 DEF AdobeDownloads, AdobeOnce
    <3> QED
      BY <2>3, <3>2, <3>3, <3>4, <3>5, <3>6 DEF AdobeGoesOn
  <2> QED
    BY <2>1, <2>2, <2>3 DEF AdobeMoves
<1>2. CASE ~Adobe(c)!Work
  <2>1. /\ adobeAt' = adobeAt /\ troubles' = troubles /\ (over => over')
        /\ \/ UNCHANGED <<adobeJob, adobePaid>>
           \/ adobeJob = "running" /\ adobeJob' = "made" /\ adobePaid' = adobePaid
           \/ adobeJob = "running" /\ adobeJob' \in {"unsafe", "failed"} /\ adobePaid' = adobePaid - 1
    BY <1>2, AdobeOthers
  <2>2. adobeJob = "running" => adobePaid = 1
    BY DEF AdobeInv, AdobeRest, AdobeOnce
  <2> QED
    BY <2>1, <2>2 DEF AdobeOnce
<1> QED
  BY <1>1, <1>2

-----------------------------------------------------------------------------
\* Adobe's module counts as this one does.
LEMMA AdobeCardinality ==
  ASSUME NEW CONSTANT c
  PROVE  \A S : Adobe(c)!Cardinality(S) = Cardinality(S)
BY DEF Adobe!Cardinality, Cardinality

\* Every temporary failure of the pass put an account back in the rotation, so that the cap on
\* failovers is reached with as many.
AdobeAll(c) ==
  /\ temps <= Cardinality(cooled \cap (1..(adobeAt.acct - 1)))
  /\ adobeAt.pc = "failed" =>
       adobeRefused # "no" \/ over \/ adobeAt.acct = c.last \/ Cardinality(cooled) >= c.maxTemp

\* What is in a larger set of accounts is counted with it.
LEMMA AdobeCounts ==
  ASSUME NEW n \in Nat, NEW S \in SUBSET (1..n), NEW T \in SUBSET S
  PROVE  /\ IsFiniteSet(S) /\ Cardinality(S) \in Nat /\ Cardinality(T) \in Nat
         /\ Cardinality(T) <= Cardinality(S)
<1>1. IsFiniteSet(1..n)
  BY FS_Interval
<1>2. IsFiniteSet(S)
  BY <1>1, FS_Subset
<1>3. IsFiniteSet(T) /\ Cardinality(T) <= Cardinality(S)
  BY <1>2, FS_Subset
<1> QED
  BY <1>2, <1>3, FS_CardinalityType

\* A request ends after a refusal, its time, the last account or the cap on failovers.
LEMMA AdobeAllStep ==
  ASSUME NEW CONSTANT c, Adobe(c)!AdobeAssumption, Drawn(c), AdobeInv(c), AdobeAll(c),
         Adobe(c)!Next \/ UNCHANGED adobeVars
  PROVE  AdobeAll(c)'
<1> USE AdobeShape
<1>0. cooled \subseteq 1..c.last /\ temps \in 0..c.maxTemp
  BY DEF AdobeInv, AdobeRest
<1>1. CASE Adobe(c)!Work
  <2>1. AdobeMoves(c) /\ over' = over /\ adobeAt.pc # "failed"
    BY <1>1, AdobeWorkMoves DEF AdobeMoves, Adobe!Phases
  <2>2. CASE AdobeReacts(c)
    <3>1. PICK e \in AdobeErrors : Adobe(c)!React(e) /\ AdobeSays(c, e)
      BY <2>2 DEF AdobeReacts
    <3>2. \/ AdobeMints(c, e) /\ cooled' = cooled /\ adobeAt'.pc # "failed"
          \/ AdobeMarks(c, e)
      BY <3>1, AdobeReactStep
    <3>3. e = "plain" => adobeRefused' # "no" \/ over
      BY <3>1 DEF AdobeSays, Drawn, AdobeInv, AdobeLapses
    <3>4. CASE AdobeMints(c, e) /\ cooled' = cooled /\ adobeAt'.pc # "failed"
      <4>1. temps' = temps /\ adobeAt'.acct = adobeAt.acct
        BY <3>4 DEF AdobeMints, Adobe!Mint, Adobe!Fresh
      <4> QED
        BY <3>4, <4>1 DEF AdobeAll
    <3>5. CASE AdobeMarks(c, e)
      <4> DEFINE Before == cooled \cap (1..(adobeAt.acct - 1))
                 Upto == cooled' \cap (1..adobeAt.acct)
      <4>1. /\ cooled' \subseteq 1..c.last /\ cooled \subseteq cooled'
            /\ e = "temp" => cooled' = cooled \cup {adobeAt.acct}
        BY <1>0, <3>5 DEF AdobeMarks
      <4>2. Before \subseteq Upto /\ Upto \subseteq cooled'
        BY <4>1
      <4>3. IsFiniteSet(Before) /\ Cardinality(Before) \in Nat /\ Cardinality(Upto) \in Nat
            /\ Cardinality(Before) <= Cardinality(Upto) /\ Cardinality(Upto) <= Cardinality(cooled')
            /\ Cardinality(cooled') \in Nat
        BY <4>1, <4>2, AdobeCounts
      <4>4. ASSUME e = "temp" PROVE Cardinality(Upto) = Cardinality(Before) + 1
        <5>1. Upto = Before \cup {adobeAt.acct} /\ adobeAt.acct \notin Before
          BY <4>1, <4>4
        <5> QED
          BY <4>3, <5>1, FS_AddElement
      <4>5. temps <= Cardinality(Before)
        BY DEF AdobeAll
      <4>6. CASE AdobeAgain(c, e)
        <5>1. temps' = 0 /\ adobeAt' = Adobe(c)!Fresh(1, 0, FALSE)
          BY <4>6 DEF AdobeAgain, Adobe!Again
        <5>2. adobeAt'.acct = 1 /\ adobeAt'.pc # "failed"
          BY <5>1 DEF Adobe!Fresh
        <5>3. cooled' \cap (1..(adobeAt'.acct - 1)) = {}
          BY <5>2
        <5>4. Cardinality(cooled' \cap (1..(adobeAt'.acct - 1))) = 0
          BY <5>3, FS_EmptySet
        <5>5. temps' <= Cardinality(cooled' \cap (1..(adobeAt'.acct - 1)))
          BY <5>1, <5>4
        <5> QED
          BY <5>2, <5>5 DEF AdobeAll
      <4>7. CASE AdobeNext(c, e)
        <5>1. adobeAt'.acct = adobeAt.acct + 1 /\ adobeAt'.pc # "failed"
          BY <4>7 DEF AdobeNext, Adobe!Fresh
        <5>2. cooled' \cap (1..(adobeAt'.acct - 1)) = Upto
          BY <5>1
        <5>3. temps' = temps \/ (e = "temp" /\ temps' = temps + 1)
          BY <4>7 DEF AdobeNext
        <5>4. temps' <= Cardinality(Upto)
          BY <1>0, <4>3, <4>4, <4>5, <5>3
        <5> QED
          BY <5>1, <5>2, <5>4 DEF AdobeAll
      <4>8. CASE AdobeEnds(c, e)
        <5>1. adobeAt'.acct = adobeAt.acct /\ temps' = temps
          BY <4>8 DEF AdobeEnds, Adobe!Fails, AdobeAttempts
        <5>2. cooled \cap (1..(adobeAt.acct - 1)) \subseteq cooled' \cap (1..(adobeAt.acct - 1))
          BY <4>1
        <5>3. /\ Cardinality(Before) <= Cardinality(cooled' \cap (1..(adobeAt.acct - 1)))
              /\ Cardinality(cooled' \cap (1..(adobeAt.acct - 1))) \in Nat
          <6>1. cooled' \cap (1..(adobeAt.acct - 1)) \in SUBSET (1..c.last)
            BY <4>1
          <6> QED
            BY <5>2, <6>1, AdobeCounts
        <5>4. temps' <= Cardinality(cooled' \cap (1..(adobeAt'.acct - 1)))
          BY <1>0, <4>3, <4>5, <5>1, <5>3
        <5>5. e = "temp" /\ temps + 1 >= c.maxTemp => Cardinality(cooled') >= c.maxTemp
          BY <1>0, <4>3, <4>4, <4>5
        <5>6. adobeRefused' # "no" \/ over' \/ adobeAt'.acct = c.last \/ Cardinality(cooled') >= c.maxTemp
          BY <2>1, <3>3, <4>8, <5>1, <5>5 DEF AdobeEnds
        <5> QED
          BY <5>4, <5>6 DEF AdobeAll
      <4> QED
        BY <3>5, <4>6, <4>7, <4>8 DEF AdobeMarks
    <3> QED
      BY <3>2, <3>4, <3>5
  <2>3. CASE AdobeGoesOn(c)
    <3>1. /\ temps' = temps /\ cooled' = cooled /\ adobeAt'.acct = adobeAt.acct
          /\ AdobeUploads \/ AdobeSubmits(c) \/ AdobeSees \/ AdobeResamples \/ AdobeDownloads
      BY <2>3 DEF AdobeGoesOn, Adobe!Stay
    <3>2. adobeAt'.pc # "failed"
      BY <3>1 DEF AdobeUploads, AdobeSubmits, AdobeSees, AdobeResamples, AdobeDownloads
    <3> QED
      BY <3>1, <3>2 DEF AdobeAll
  <2> QED
    BY <2>1, <2>2, <2>3 DEF AdobeMoves
<1>2. CASE ~Adobe(c)!Work
  <2>1. /\ adobeAt' = adobeAt /\ temps' = temps /\ cooled' = cooled /\ adobeRefused' = adobeRefused /\ (over => over')
    BY <1>2, AdobeOthers
  <2> QED
    BY <2>1 DEF AdobeAll
<1> QED
  BY <1>1, <1>2

\* Nothing has happened yet.
LEMMA AdobeMoreInitially ==
  ASSUME NEW CONSTANT c, Adobe(c)!AdobeAssumption, Adobe(c)!Init
  PROVE  AdobeHonest(c) /\ AdobeNew(c) /\ AdobeOnce(c) /\ AdobeAll(c)
<1>1. /\ adobeAt = Adobe(c)!Fresh(1, 0, FALSE) /\ temps = 0 /\ told = {} /\ adobeJob = "none" /\ adobePaid = 0
      /\ charged = {} /\ cooled = {} /\ limited = {} /\ over = FALSE
  BY DEF Adobe!Init
<1>2. adobeAt.acct = 1 /\ adobeAt.pc \in {"upload", "submit"}
  BY <1>1 DEF Adobe!Fresh
<1>3. AdobeHonest(c) /\ AdobeNew(c)
  BY <1>1 DEF AdobeHonest, Adobe!ChargedIsHopeless, AdobeNew
<1>4. AdobeOnce(c)
  <2>1. adobePaid <= 1 /\ adobePaid # 1
    BY <1>1
  <2>2. adobeAt.pc # "download"
    BY <1>2
  <2> QED
    BY <1>1, <2>1, <2>2 DEF AdobeOnce
<1>5. cooled \cap (1..(adobeAt.acct - 1)) = {}
  BY <1>1
<1>6. AdobeAll(c)
  <2>1. Cardinality(cooled \cap (1..(adobeAt.acct - 1))) = 0
    BY <1>5, FS_EmptySet
  <2>2. temps <= Cardinality(cooled \cap (1..(adobeAt.acct - 1)))
    BY <1>1, <2>1
  <2> QED
    BY <1>2, <2>2 DEF AdobeAll
<1> QED
  BY <1>3, <1>4, <1>6

\* What they say of the properties.
LEMMA AdobeMoreImplies ==
  ASSUME NEW CONSTANT c, Adobe(c)!AdobeAssumption, AdobeInv(c)
  PROVE  /\ AdobeHonest(c) => Adobe(c)!ChargedIsHopeless
         /\ AdobeNew(c) => Adobe(c)!NoReplay
         /\ AdobeOnce(c) => Adobe(c)!PaidOnce
         /\ AdobeAll(c) => Adobe(c)!FailsAfterAll
<1>1. ASSUME AdobeAll(c) PROVE Adobe(c)!FailsAfterAll
  <2>1. tried = 1..adobeAt.acct
    BY DEF AdobeInv, AdobeRest
  <2> QED
    BY <1>1, <2>1, AdobeCardinality DEF AdobeAll, Adobe!FailsAfterAll, Adobe!Accounts
<1> QED
  BY <1>1 DEF AdobeHonest, AdobeNew, AdobeOnce, Adobe!NoReplay, Adobe!PaidOnce

-----------------------------------------------------------------------------
(* Oreate.                                                                 *)

\* Where the requests are: a request that is at work holds a slot of an account.
OreateHere(c) ==
  /\ pc \in [c.reqs -> {"new", "pick", "done", "failed"} \cup Oreate(c)!Phases]
  /\ oreateAcct \in [c.reqs -> c.accounts \cup {Oreate(c)!None}]
  /\ cand \in [c.reqs -> SUBSET c.accounts] /\ todo \in [c.reqs -> SUBSET c.accounts]
  /\ \A r \in c.reqs : todo[r] \subseteq cand[r]
  /\ err \in [c.reqs -> {"none", "temp", "auth", "quota", "plain"}]
  /\ \A r \in c.reqs : pc[r] \in Oreate(c)!Phases => oreateAcct[r] \in c.accounts

\* The rest of the state.
OreateElse(c) ==
  /\ oreateRounds \in [c.reqs -> 0..c.maxRounds]
  /\ oreateRender \in [c.reqs -> {"none", "hidden", "running", "made"}]
  /\ oreatePaid \in [c.reqs -> Nat] /\ oreateRefused \in [c.reqs -> BOOLEAN]
  /\ flagged \subseteq c.accounts /\ parked \subseteq c.accounts /\ sunk \subseteq c.accounts
  /\ verdict \in [c.accounts -> {"none", "ok", "spam"}]
  /\ oreateTroubles \in 0..c.maxTroubles /\ flips \in 0..c.maxFlips

OreateTypes(c) == OreateHere(c) /\ OreateElse(c)

\* What a step of request r leaves of the others.
OreateAlone(c, r) ==
  \A q \in c.reqs \ {r} :
    /\ pc'[q] = pc[q] /\ oreateAcct'[q] = oreateAcct[q] /\ cand'[q] = cand[q] /\ todo'[q] = todo[q]
    /\ oreatePaid'[q] = oreatePaid[q] /\ oreateRefused'[q] = oreateRefused[q]

\* The ways a request goes on.
OreateSame(r) == cand'[r] = cand[r] /\ oreatePaid'[r] = oreatePaid[r] /\ oreateRefused'[r] = oreateRefused[r]
OreateQuiet == parked' = parked /\ sunk' = sunk /\ verdict' = verdict

OreateSelects(c, r) ==
  /\ pc[r] = "new" /\ cand'[r] = Oreate(c)!Selected(c.accounts \ sunk) /\ todo'[r] = cand'[r]
  /\ pc'[r] = (IF cand'[r] = {} THEN "failed" ELSE "pick")
  /\ oreatePaid'[r] = oreatePaid[r] /\ oreateRefused'[r] = oreateRefused[r] /\ OreateQuiet
OreateTakes(c, r) ==
  /\ pc[r] = "pick" /\ pc'[r] \in {"upload", "chat"} /\ ~Oreate(c)!Busy(oreateAcct'[r])
  /\ OreateSame(r) /\ OreateQuiet
OreateWaits(r) == pc[r] = "pick" /\ pc'[r] = "pick" /\ OreateSame(r) /\ OreateQuiet
OreateGivesUp(r) == pc[r] = "pick" /\ pc'[r] = "failed" /\ todo'[r] = {} /\ OreateSame(r) /\ OreateQuiet
OreateGoes(r) ==
  /\ \/ pc[r] = "upload" /\ pc'[r] = "chat"
     \/ pc[r] = "chat" /\ pc'[r] = "sign"
     \/ pc[r] = "browser" /\ pc'[r] = "stream"
     \/ pc[r] = "await" /\ pc'[r] = "download"
  /\ oreateAcct'[r] = oreateAcct[r] /\ OreateSame(r) /\ OreateQuiet
OreateBrowses(c, r) ==
  /\ pc[r] = "sign" /\ pc'[r] = "browser" /\ Oreate(c)!Cardinality({q \in c.reqs : pc[q] = "browser"}) < c.browsers
  /\ oreateAcct'[r] = oreateAcct[r] /\ OreateSame(r) /\ OreateQuiet
OreateStreams(r) ==
  /\ pc[r] = "stream" /\ pc'[r] \in {"await", "download"} /\ oreateAcct'[r] = oreateAcct[r]
  /\ cand'[r] = cand[r] /\ oreateRefused'[r] = oreateRefused[r] /\ oreatePaid'[r] = oreatePaid[r] + 1
  /\ parked' = parked /\ sunk' = sunk /\ verdict' = [verdict EXCEPT ![oreateAcct[r]] = "ok"]
OreateLeaves(c, r) ==
  /\ pc[r] \in Oreate(c)!Phases /\ pc'[r] \in {"pick", "failed"} /\ cand'[r] = cand[r]
  /\ pc[r] \in {"await", "download"} => c.lossy
  /\ oreatePaid'[r] = oreatePaid[r] \/ c.lossy
  /\ oreateRefused'[r] => oreateRefused[r] \/ pc'[r] = "failed"
  /\ pc'[r] = "failed" => oreateRefused'[r] \/ "timeout" \in c.signTroubles
  /\ sunk' = sunk \/ (sunk' = sunk \cup {oreateAcct[r]} /\ (oreateAcct[r] \in c.spent \/ c.readsFail))
  /\ \/ parked' = parked /\ verdict' = verdict
     \/ parked' = parked /\ verdict' = [verdict EXCEPT ![oreateAcct[r]] = "ok"]
     \/ parked' = parked \cup {oreateAcct[r]} /\ verdict' = [verdict EXCEPT ![oreateAcct[r]] = "spam"]
OreateEnds(r) ==
  /\ pc[r] = "download" /\ pc'[r] = "done" /\ OreateSame(r) /\ sunk' = sunk
  /\ parked' = parked \ {oreateAcct[r]} /\ verdict' = verdict

OreateMoves(c, r) ==
  /\ OreateTypes(c)' /\ OreateAlone(c, r)
  /\ \/ OreateSelects(c, r) \/ OreateTakes(c, r) \/ OreateWaits(r) \/ OreateGivesUp(r) \/ OreateGoes(r)
     \/ OreateBrowses(c, r) \/ OreateStreams(r) \/ OreateLeaves(c, r) \/ OreateEnds(r)

\* The bounds of a case, and what the types say of a request.
LEMMA OreateShape ==
  ASSUME NEW CONSTANT c, Oreate(c)!OreateAssumption, OreateTypes(c), NEW r \in c.reqs
  PROVE  /\ OreateHere(c) /\ OreateElse(c)
         /\ c.maxTroubles \in Nat /\ c.maxFlips \in Nat /\ c.maxRounds \in Nat
         /\ c.spent \subseteq c.accounts /\ c.signTroubles \subseteq {"risk", "timeout"}
         /\ pc[r] \in {"new", "pick", "done", "failed"} \cup Oreate(c)!Phases
         /\ cand[r] \subseteq c.accounts /\ todo[r] \subseteq cand[r]
         /\ err[r] \in {"none", "temp", "auth", "quota", "plain"} /\ oreateRounds[r] \in 0..c.maxRounds
         /\ oreatePaid[r] \in Nat /\ oreateRefused[r] \in BOOLEAN /\ oreateTroubles \in 0..c.maxTroubles
         /\ pc[r] \in Oreate(c)!Phases => oreateAcct[r] \in c.accounts
BY DEF OreateTypes, OreateHere, OreateElse, Oreate!OreateAssumption

\* A request goes on with its account.
LEMMA OreateGoto ==
  ASSUME NEW CONSTANT c, OreateHere(c), NEW r \in c.reqs, NEW p \in Oreate(c)!Phases,
         pc[r] \in Oreate(c)!Phases, Oreate(c)!Goto(r, p), cand' = cand
  PROVE  /\ OreateHere(c)' /\ pc'[r] = p /\ oreateAcct' = oreateAcct /\ todo' = todo
         /\ \A q \in c.reqs \ {r} : pc'[q] = pc[q]
<1>1. pc' = [pc EXCEPT ![r] = p] /\ UNCHANGED <<oreateAcct, todo, err>>
  BY DEF Oreate!Goto
<1> QED
  BY <1>1 DEF OreateHere

\* A request gives its account up.
LEMMA OreateLeave ==
  ASSUME NEW CONSTANT c, OreateHere(c), NEW r \in c.reqs, NEW e \in {"temp", "auth", "quota", "plain"},
         Oreate(c)!Leave(r, e), cand' = cand
  PROVE  /\ OreateHere(c)' /\ pc'[r] = (IF e = "plain" THEN "failed" ELSE "pick") /\ todo' = todo
         /\ \A q \in c.reqs \ {r} : pc'[q] = pc[q] /\ oreateAcct'[q] = oreateAcct[q]
<1>1. /\ oreateAcct' = [oreateAcct EXCEPT ![r] = Oreate(c)!None] /\ err' = [err EXCEPT ![r] = e]
      /\ pc' = [pc EXCEPT ![r] = IF e = "plain" THEN "failed" ELSE "pick"] /\ todo' = todo
  BY DEF Oreate!Leave
<1>2. /\ "failed" \notin Oreate(c)!Phases /\ "pick" \notin Oreate(c)!Phases
      /\ Oreate(c)!None \in c.accounts \cup {Oreate(c)!None}
  BY DEF Oreate!Phases
<1>3. pc' \in [c.reqs -> {"new", "pick", "done", "failed"} \cup Oreate(c)!Phases]
  BY <1>1 DEF OreateHere
<1>4. oreateAcct' \in [c.reqs -> c.accounts \cup {Oreate(c)!None}]
  BY <1>1, <1>2 DEF OreateHere
<1>5. /\ pc'[r] = (IF e = "plain" THEN "failed" ELSE "pick")
      /\ \A q \in c.reqs \ {r} : pc'[q] = pc[q] /\ oreateAcct'[q] = oreateAcct[q]
  BY <1>1 DEF OreateHere
<1>6. \A q \in c.reqs : pc'[q] \in Oreate(c)!Phases => oreateAcct'[q] \in c.accounts
  BY <1>2, <1>5 DEF OreateHere
<1>7. err' \in [c.reqs -> {"none", "temp", "auth", "quota", "plain"}]
  BY <1>1 DEF OreateHere
<1> QED
  BY <1>1, <1>3, <1>4, <1>5, <1>6, <1>7 DEF OreateHere

\* The candidates are chosen and tried one after the other.
LEMMA OreateChooses ==
  ASSUME NEW CONSTANT c, Oreate(c)!OreateAssumption, OreateTypes(c), NEW r \in c.reqs,
         Oreate(c)!Select(r) \/ Oreate(c)!Pick(r) \/ Oreate(c)!RoundEnds(r)
  PROVE  OreateMoves(c, r)
<1> USE OreateShape
<1>0. UNCHANGED <<oreateRender, oreatePaid, oreateRefused, flagged, verdict, parked, sunk, oreateTroubles, flips>>
  BY DEF Oreate!Select, Oreate!Pick, Oreate!RoundEnds
<1>1. CASE Oreate(c)!Select(r)
  <2> DEFINE chosen == Oreate(c)!Selected(c.accounts \ sunk)
  <2>1. /\ pc[r] = "new" /\ cand' = [cand EXCEPT ![r] = chosen] /\ todo' = [todo EXCEPT ![r] = chosen]
        /\ pc' = [pc EXCEPT ![r] = IF chosen = {} THEN "failed" ELSE "pick"]
        /\ UNCHANGED <<oreateAcct, err, oreateRounds>>
    BY <1>1 DEF Oreate!Select
  <2>2. chosen \subseteq c.accounts
    BY DEF Oreate!Selected
  <2> HIDE DEF chosen
  <2>3. /\ cand'[r] = chosen /\ todo'[r] = chosen /\ pc'[r] = (IF chosen = {} THEN "failed" ELSE "pick")
        /\ \A q \in c.reqs \ {r} : pc'[q] = pc[q] /\ cand'[q] = cand[q] /\ todo'[q] = todo[q]
    BY <2>1 DEF OreateHere
  <2>4. /\ pc' \in [c.reqs -> {"new", "pick", "done", "failed"} \cup Oreate(c)!Phases]
        /\ cand' \in [c.reqs -> SUBSET c.accounts] /\ todo' \in [c.reqs -> SUBSET c.accounts]
    BY <2>1, <2>2 DEF OreateHere
  <2>5. "failed" \notin Oreate(c)!Phases /\ "pick" \notin Oreate(c)!Phases
    BY DEF Oreate!Phases
  <2>6. OreateHere(c)'
    BY <2>1, <2>3, <2>4, <2>5 DEF OreateHere
  <2>7. OreateElse(c)'
    BY <1>0, <2>1 DEF OreateElse
  <2>8. OreateSelects(c, r)
    BY <1>0, <2>1, <2>3 DEF OreateSelects, OreateQuiet, chosen
  <2> QED
    BY <1>0, <2>1, <2>3, <2>6, <2>7, <2>8 DEF OreateMoves, OreateTypes, OreateAlone
<1>2. CASE Oreate(c)!Pick(r)
  <2>1. PICK a \in todo[r] :
          /\ todo' = [todo EXCEPT ![r] = @ \ {a}]
          /\ IF Oreate(c)!Busy(a) THEN UNCHANGED <<pc, oreateAcct>>
               ELSE /\ oreateAcct' = [oreateAcct EXCEPT ![r] = a]
                    /\ pc' = [pc EXCEPT ![r] = IF c.references THEN "upload" ELSE "chat"]
    BY <1>2 DEF Oreate!Pick
  <2>2. pc[r] = "pick" /\ UNCHANGED <<cand, err, oreateRounds>> /\ a \in c.accounts
    BY <1>2, <2>1 DEF Oreate!Pick
  <2>3. /\ todo' \in [c.reqs -> SUBSET c.accounts] /\ (\A q \in c.reqs \ {r} : todo'[q] = todo[q])
        /\ todo'[r] \subseteq cand[r]
    BY <2>1 DEF OreateHere
  <2>4. OreateElse(c)'
    BY <1>0, <2>2 DEF OreateElse
  <2>5. CASE Oreate(c)!Busy(a)
    <3>1. UNCHANGED <<pc, oreateAcct>>
      BY <2>1, <2>5
    <3>2. OreateHere(c)'
      BY <2>2, <2>3, <3>1 DEF OreateHere
    <3>3. OreateWaits(r)
      BY <1>0, <2>2, <3>1 DEF OreateWaits, OreateSame, OreateQuiet
    <3> QED
      BY <1>0, <2>2, <2>3, <2>4, <3>1, <3>2, <3>3 DEF OreateMoves, OreateTypes, OreateAlone
  <2>6. CASE ~Oreate(c)!Busy(a)
    <3>1. /\ oreateAcct' = [oreateAcct EXCEPT ![r] = a]
          /\ pc' = [pc EXCEPT ![r] = IF c.references THEN "upload" ELSE "chat"]
      BY <2>1, <2>6
    <3>2. {"upload", "chat"} \subseteq Oreate(c)!Phases
      BY DEF Oreate!Phases
    <3>3. /\ pc'[r] \in {"upload", "chat"} /\ oreateAcct'[r] = a
          /\ \A q \in c.reqs \ {r} : pc'[q] = pc[q] /\ oreateAcct'[q] = oreateAcct[q]
      BY <3>1 DEF OreateHere
    <3>4. /\ pc' \in [c.reqs -> {"new", "pick", "done", "failed"} \cup Oreate(c)!Phases]
          /\ oreateAcct' \in [c.reqs -> c.accounts \cup {Oreate(c)!None}]
      BY <2>2, <3>1, <3>2 DEF OreateHere
    <3>5. OreateHere(c)'
      BY <2>2, <2>3, <3>3, <3>4 DEF OreateHere
    <3>6. OreateTakes(c, r)
      BY <1>0, <2>2, <2>6, <3>3 DEF OreateTakes, OreateSame, OreateQuiet
    <3> QED
      BY <1>0, <2>2, <2>3, <2>4, <3>3, <3>5, <3>6 DEF OreateMoves, OreateTypes, OreateAlone
  <2> QED
    BY <2>5, <2>6
<1>3. CASE Oreate(c)!RoundEnds(r)
  <2>1. /\ pc[r] = "pick" /\ todo[r] = {} /\ UNCHANGED <<oreateAcct, cand>>
        /\ \/ /\ err[r] \in {"temp", "none"} /\ (err[r] = "temp" => oreateRounds[r] < c.maxRounds)
              /\ oreateRounds' = [oreateRounds EXCEPT ![r] = IF err[r] = "temp" THEN @ + 1 ELSE @]
              /\ todo' = [todo EXCEPT ![r] = cand[r]] /\ err' = [err EXCEPT ![r] = "none"] /\ pc' = pc
           \/ /\ pc' = [pc EXCEPT ![r] = "failed"] /\ UNCHANGED <<oreateRounds, todo, err>>
    BY <1>3 DEF Oreate!RoundEnds
  <2>2. CASE /\ (err[r] = "temp" => oreateRounds[r] < c.maxRounds)
             /\ oreateRounds' = [oreateRounds EXCEPT ![r] = IF err[r] = "temp" THEN @ + 1 ELSE @]
             /\ todo' = [todo EXCEPT ![r] = cand[r]] /\ err' = [err EXCEPT ![r] = "none"] /\ pc' = pc
    <3>1. oreateRounds' \in [c.reqs -> 0..c.maxRounds]
      BY <2>2 DEF OreateElse
    <3>2. /\ todo' \in [c.reqs -> SUBSET c.accounts] /\ todo'[r] = cand[r]
          /\ \A q \in c.reqs \ {r} : todo'[q] = todo[q]
      BY <2>2 DEF OreateHere
    <3>3. OreateHere(c)'
      BY <2>1, <2>2, <3>2 DEF OreateHere
    <3>4. OreateElse(c)'
      BY <1>0, <3>1 DEF OreateElse
    <3>5. OreateWaits(r)
      BY <1>0, <2>1, <2>2 DEF OreateWaits, OreateSame, OreateQuiet
    <3> QED
      BY <1>0, <2>1, <2>2, <3>2, <3>3, <3>4, <3>5 DEF OreateMoves, OreateTypes, OreateAlone
  <2>3. CASE pc' = [pc EXCEPT ![r] = "failed"] /\ UNCHANGED <<oreateRounds, todo, err>>
    <3>1. /\ pc' \in [c.reqs -> {"new", "pick", "done", "failed"} \cup Oreate(c)!Phases]
          /\ pc'[r] = "failed" /\ "failed" \notin Oreate(c)!Phases
          /\ \A q \in c.reqs \ {r} : pc'[q] = pc[q]
      BY <2>3 DEF OreateHere, Oreate!Phases
    <3>2. OreateHere(c)'
      BY <2>1, <2>3, <3>1 DEF OreateHere
    <3>3. OreateElse(c)'
      BY <1>0, <2>3 DEF OreateElse
    <3>4. OreateGivesUp(r)
      BY <1>0, <2>1, <2>3, <3>1 DEF OreateGivesUp, OreateSame, OreateQuiet
    <3> QED
      BY <1>0, <2>1, <2>3, <3>1, <3>2, <3>3, <3>4 DEF OreateMoves, OreateTypes, OreateAlone
  <2> QED
    BY <2>1, <2>2, <2>3
<1> QED
  BY <1>1, <1>2, <1>3

\* The calls before the stream.
LEMMA OreatePrepares ==
  ASSUME NEW CONSTANT c, Oreate(c)!OreateAssumption, OreateTypes(c), NEW r \in c.reqs,
         \/ Oreate(c)!uploadReferences(r) \/ Oreate(c)!createChat(r)
         \/ Oreate(c)!signSlot(r) \/ Oreate(c)!signOnce(r)
  PROVE  OreateMoves(c, r)
<1> USE OreateShape
<1>0. /\ UNCHANGED <<cand, oreateRounds, oreateRender, oreatePaid, oreateRefused, flagged, verdict, parked, sunk, flips>>
      /\ {"upload", "chat", "sign", "browser", "stream"} \subseteq Oreate(c)!Phases
  BY DEF Oreate!uploadReferences, Oreate!createChat, Oreate!signSlot, Oreate!signOnce, Oreate!Phases
<1>1. ASSUME NEW ans, NEW next \in Oreate(c)!Phases, Oreate(c)!Trouble(ans), Oreate(c)!Step(r, ans, next),
             \/ pc[r] = "upload" /\ next = "chat" /\ ans # "timeout"
             \/ pc[r] = "chat" /\ next = "sign" /\ ans # "timeout"
             \/ pc[r] = "browser" /\ next = "stream" /\ (ans = "timeout" => "timeout" \in c.signTroubles),
             ans \in {"ok", "denied", "net", "busy", "risk", "timeout"},
             ans \in {"net", "busy", "risk", "timeout"} => oreateTroubles < c.maxTroubles
      PROVE  OreateMoves(c, r)
  <2>1. oreateTroubles' \in 0..c.maxTroubles
    BY <1>1 DEF Oreate!Trouble
  <2>2. OreateElse(c)'
    BY <1>0, <2>1 DEF OreateElse
  <2>3. CASE ans = "ok"
    <3>1. Oreate(c)!Goto(r, next)
      BY <1>1, <2>3 DEF Oreate!Step
    <3>2. /\ OreateHere(c)' /\ pc'[r] = next /\ oreateAcct' = oreateAcct /\ todo' = todo
          /\ \A q \in c.reqs \ {r} : pc'[q] = pc[q]
      BY <1>0, <1>1, <3>1, OreateGoto
    <3>3. OreateGoes(r)
      BY <1>0, <1>1, <3>2 DEF OreateGoes, OreateSame, OreateQuiet
    <3> QED
      BY <1>0, <2>2, <3>2, <3>3 DEF OreateMoves, OreateTypes, OreateAlone
  <2>4. CASE ans # "ok"
    <3> DEFINE e == Oreate(c)!classifyUpstreamError(ans)
    <3>1. Oreate(c)!Leave(r, e)
      BY <1>1, <2>4 DEF Oreate!Step
    <3>2. e \in {"temp", "auth", "quota", "plain"} /\ (e = "plain" <=> ans = "timeout")
      BY <1>1, <2>4 DEF Oreate!classifyUpstreamError
    <3> HIDE DEF e
    <3>3. /\ OreateHere(c)' /\ pc'[r] = (IF e = "plain" THEN "failed" ELSE "pick") /\ todo' = todo
          /\ \A q \in c.reqs \ {r} : pc'[q] = pc[q] /\ oreateAcct'[q] = oreateAcct[q]
      BY <1>0, <3>1, <3>2, OreateLeave
    <3>4. OreateLeaves(c, r)
      BY <1>0, <1>1, <3>2, <3>3 DEF OreateLeaves
    <3> QED
      BY <1>0, <2>2, <3>3, <3>4 DEF OreateMoves, OreateTypes, OreateAlone
  <2> QED
    BY <2>3, <2>4
<1>2. \A ans \in Oreate(c)!Calls(oreateAcct[r]) :
        /\ ans \in {"ok", "denied", "net", "busy"}
        /\ ans \in {"net", "busy"} => oreateTroubles < c.maxTroubles
  BY DEF Oreate!Calls
<1>3. CASE Oreate(c)!uploadReferences(r)
  <2>1. PICK ans \in Oreate(c)!Calls(oreateAcct[r]) : Oreate(c)!Trouble(ans) /\ Oreate(c)!Step(r, ans, "chat")
    BY <1>3 DEF Oreate!uploadReferences
  <2>2. pc[r] = "upload"
    BY <1>3 DEF Oreate!uploadReferences
  <2> QED
    BY <1>0, <1>1, <1>2, <2>1, <2>2
<1>4. CASE Oreate(c)!createChat(r)
  <2>1. PICK ans \in Oreate(c)!Calls(oreateAcct[r]) : Oreate(c)!Trouble(ans) /\ Oreate(c)!Step(r, ans, "sign")
    BY <1>4 DEF Oreate!createChat
  <2>2. pc[r] = "chat"
    BY <1>4 DEF Oreate!createChat
  <2> QED
    BY <1>0, <1>1, <1>2, <2>1, <2>2
<1>5. CASE Oreate(c)!signOnce(r)
  <2>1. PICK ans \in {"ok"} \cup (IF oreateTroubles < c.maxTroubles THEN c.signTroubles ELSE {}) :
          Oreate(c)!Trouble(ans) /\ Oreate(c)!Step(r, ans, "stream")
    BY <1>5 DEF Oreate!signOnce
  <2>2. pc[r] = "browser"
    BY <1>5 DEF Oreate!signOnce
  <2>3. /\ ans \in {"ok", "risk", "timeout"} /\ (ans = "timeout" => "timeout" \in c.signTroubles)
        /\ ans # "ok" => oreateTroubles < c.maxTroubles
    BY <2>1
  <2> QED
    BY <1>0, <1>1, <2>1, <2>2, <2>3
<1>6. CASE Oreate(c)!signSlot(r)
  <2>1. /\ pc[r] = "sign" /\ Oreate(c)!Cardinality({q \in c.reqs : pc[q] = "browser"}) < c.browsers
        /\ Oreate(c)!Goto(r, "browser") /\ oreateTroubles' = oreateTroubles
    BY <1>6 DEF Oreate!signSlot
  <2>2. /\ OreateHere(c)' /\ pc'[r] = "browser" /\ oreateAcct' = oreateAcct /\ todo' = todo
        /\ \A q \in c.reqs \ {r} : pc'[q] = pc[q]
    BY <1>0, <2>1, OreateGoto
  <2>3. OreateElse(c)'
    BY <1>0, <2>1 DEF OreateElse
  <2>4. OreateBrowses(c, r)
    BY <1>0, <2>1, <2>2 DEF OreateBrowses, OreateSame, OreateQuiet
  <2> QED
    BY <1>0, <2>2, <2>3, <2>4 DEF OreateMoves, OreateTypes, OreateAlone
<1> QED
  BY <1>3, <1>4, <1>5, <1>6

\* What the stream may be answered.
LEMMA OreateStreamAnswers ==
  ASSUME NEW CONSTANT c, NEW a, NEW ans \in Oreate(c)!Streams(a)
  PROVE  /\ ans \in {"denied", "spam", "points", "url", "content", "net", "busy", "risk", "cut", "cutEarly"}
         /\ ans \in {"net", "busy", "risk", "cut", "cutEarly"} => oreateTroubles < c.maxTroubles
         /\ ans = "cutEarly" => c.lossy
<1> DEFINE verdicts == CASE a \in c.dead -> {"denied"} [] a \notin c.dead /\ a \in flagged -> {"spam"}
                         [] a \notin c.dead \cup flagged /\ a \in c.poor \cup c.spent -> {"points"}
                         [] OTHER -> {"url", "content"}
           passing == IF oreateTroubles < c.maxTroubles THEN {"net", "busy", "risk"} ELSE {}
           cuts == IF oreateTroubles < c.maxTroubles /\ a \notin c.dead \cup flagged \cup c.poor \cup c.spent
                     THEN {"cut"} \cup (IF c.lossy THEN {"cutEarly"} ELSE {}) ELSE {}
<1>1. Oreate(c)!Streams(a) = (verdicts \cup passing) \cup cuts
  BY DEF Oreate!Streams
<1>2. verdicts \subseteq {"denied", "spam", "points", "url", "content"}
  OBVIOUS
<1>3. \A x \in passing : x \in {"net", "busy", "risk"} /\ oreateTroubles < c.maxTroubles
  OBVIOUS
<1>4. \A x \in cuts : x \in {"cut", "cutEarly"} /\ oreateTroubles < c.maxTroubles /\ (x = "cutEarly" => c.lossy)
  OBVIOUS
<1> HIDE DEF verdicts, passing, cuts
<1> QED
  BY <1>1, <1>2, <1>3, <1>4

\* The stream, and what Oreate says in it.
LEMMA OreateStreamMoves ==
  ASSUME NEW CONSTANT c, Oreate(c)!OreateAssumption, OreateTypes(c), NEW r \in c.reqs,
  Oreate(c)!streamVideo(r)
  PROVE  OreateMoves(c, r)
<1> USE OreateShape
<1> DEFINE a == oreateAcct[r]
<1>0. /\ pc[r] = "stream" /\ UNCHANGED <<cand, oreateRounds, flagged, flips>> /\ a \in c.accounts
      /\ {"stream", "await", "download"} \subseteq Oreate(c)!Phases
  BY DEF Oreate!streamVideo, Oreate!work, Oreate!Phases
<1>1. PICK ans \in Oreate(c)!Streams(a) :
        /\ Oreate(c)!Trouble(ans) /\ Oreate(c)!quarantine(a, ans)
        /\ oreateRefused' = [oreateRefused EXCEPT ![r] = @ \/ ans = "content"]
        /\ sunk' = IF ans = "points" /\ Oreate(c)!Sinks(a) THEN sunk \cup {a} ELSE sunk
        /\ CASE ans \in {"url", "cut", "cutEarly"} ->
                  /\ oreatePaid' = [oreatePaid EXCEPT ![r] = @ + 1]
                  /\ oreateRender' = [oreateRender EXCEPT ![r] = IF ans = "url" THEN "made" ELSE "running"]
             [] OTHER -> UNCHANGED <<oreatePaid, oreateRender>>
        /\ CASE ans = "url" -> Oreate(c)!Goto(r, "download")
             [] ans \in {"cut", "cutEarly"} -> Oreate(c)!AfterCut(r, ans)
             [] OTHER -> Oreate(c)!Leave(r, Oreate(c)!classifyUpstreamError(ans))
  BY DEF Oreate!streamVideo
<1>2. /\ ans \in {"denied", "spam", "points", "url", "content", "net", "busy", "risk", "cut", "cutEarly"}
      /\ ans \in {"net", "busy", "risk", "cut", "cutEarly"} => oreateTroubles < c.maxTroubles
      /\ ans = "cutEarly" => c.lossy
  BY <1>1, OreateStreamAnswers
<1>3. oreateTroubles' \in 0..c.maxTroubles
  BY <1>1, <1>2 DEF Oreate!Trouble
<1>4. /\ parked' = (IF ans = "spam" THEN parked \cup {a} ELSE parked)
      /\ ans = "spam" => verdict' = [verdict EXCEPT ![a] = "spam"]
      /\ ans \in {"url", "cut", "cutEarly"} => verdict' = [verdict EXCEPT ![a] = "ok"]
      /\ ans \notin {"spam", "url", "cut", "cutEarly"} => verdict' = verdict
  BY <1>1 DEF Oreate!quarantine
<1>5. /\ parked' \subseteq c.accounts /\ verdict' \in [c.accounts -> {"none", "ok", "spam"}]
  BY <1>0, <1>2, <1>4 DEF OreateElse
<1>6. /\ oreateRefused' \in [c.reqs -> BOOLEAN] /\ oreateRefused'[r] = (oreateRefused[r] \/ ans = "content")
      /\ \A q \in c.reqs \ {r} : oreateRefused'[q] = oreateRefused[q]
  <2>1. oreateRefused \in [c.reqs -> BOOLEAN] /\ oreateRefused' = [oreateRefused EXCEPT ![r] = @ \/ ans = "content"]
    BY <1>1 DEF OreateElse
  <2>2. (oreateRefused[r] \/ ans = "content") \in BOOLEAN
    OBVIOUS
  <2>3. oreateRefused' \in [c.reqs -> BOOLEAN]
    BY <2>1, <2>2
  <2>4. oreateRefused'[r] = (oreateRefused[r] \/ ans = "content")
    BY <2>1, Zenon
  <2>5. \A q \in c.reqs \ {r} : oreateRefused'[q] = oreateRefused[q]
    BY <2>1
  <2> QED
    BY <2>3, <2>4, <2>5
<1>7. /\ sunk' \subseteq c.accounts
      /\ sunk' = sunk \/ (ans = "points" /\ sunk' = sunk \cup {a} /\ (a \in c.spent \/ c.readsFail))
  BY <1>0, <1>1 DEF Oreate!Sinks, OreateElse
<1>8. /\ oreatePaid' \in [c.reqs -> Nat] /\ oreateRender' \in [c.reqs -> {"none", "hidden", "running", "made"}]
      /\ oreatePaid'[r] = (IF ans \in {"url", "cut", "cutEarly"} THEN oreatePaid[r] + 1 ELSE oreatePaid[r])
      /\ \A q \in c.reqs \ {r} : oreatePaid'[q] = oreatePaid[q]
  <2>1. CASE ans \in {"url", "cut", "cutEarly"}
    <3>1. /\ oreatePaid' = [oreatePaid EXCEPT ![r] = @ + 1]
          /\ oreateRender' = [oreateRender EXCEPT ![r] = IF ans = "url" THEN "made" ELSE "running"]
      BY <1>1, <2>1
    <3> QED
      BY <2>1, <3>1 DEF OreateElse
  <2>2. CASE ans \notin {"url", "cut", "cutEarly"}
    BY <1>1, <2>2 DEF OreateElse
  <2> QED
    BY <2>1, <2>2
<1>9. OreateElse(c)'
  BY <1>0, <1>3, <1>5, <1>6, <1>7, <1>8 DEF OreateElse
<1>10. ASSUME NEW p \in {"await", "download"}, Oreate(c)!Goto(r, p), ans \in {"url", "cut", "cutEarly"}
       PROVE  OreateMoves(c, r)
  <2>1. /\ OreateHere(c)' /\ pc'[r] = p /\ oreateAcct' = oreateAcct /\ todo' = todo
        /\ \A q \in c.reqs \ {r} : pc'[q] = pc[q]
    BY <1>0, <1>10, OreateGoto
  <2>2. OreateStreams(r)
    <3>1. cand'[r] = cand[r] /\ oreateRefused'[r] = oreateRefused[r] /\ parked' = parked /\ sunk' = sunk
          /\ oreatePaid'[r] = oreatePaid[r] + 1
      BY <1>0, <1>4, <1>6, <1>7, <1>8, <1>10
    <3> QED
      BY <1>0, <1>4, <1>10, <2>1, <3>1 DEF OreateStreams
  <2> QED
    BY <1>0, <1>6, <1>8, <1>9, <2>1, <2>2 DEF OreateMoves, OreateTypes, OreateAlone
<1>11. ASSUME NEW e \in {"temp", "auth", "quota", "plain"}, Oreate(c)!Leave(r, e),
e = "plain" <=> ans = "content",
              ans = "cutEarly" \/ ans \notin {"url", "cut", "cutEarly"}
       PROVE  OreateMoves(c, r)
  <2>1. /\ OreateHere(c)' /\ pc'[r] = (IF e = "plain" THEN "failed" ELSE "pick") /\ todo' = todo
        /\ \A q \in c.reqs \ {r} : pc'[q] = pc[q] /\ oreateAcct'[q] = oreateAcct[q]
    BY <1>0, <1>11, OreateLeave
  <2>2. /\ oreateRefused'[r] => oreateRefused[r] \/ pc'[r] = "failed"
        /\ pc'[r] = "failed" => oreateRefused'[r]
        /\ pc'[r] \in {"pick", "failed"} /\ (oreatePaid'[r] = oreatePaid[r] \/ c.lossy)
    BY <1>2, <1>6, <1>8, <1>11, <2>1
  <2>3. \/ parked' = parked /\ verdict' = verdict
        \/ parked' = parked /\ verdict' = [verdict EXCEPT ![a] = "ok"]
        \/ parked' = parked \cup {a} /\ verdict' = [verdict EXCEPT ![a] = "spam"]
    BY <1>4, <1>11
  <2>4. OreateLeaves(c, r)
    BY <1>0, <1>7, <2>2, <2>3 DEF OreateLeaves
  <2> QED
    BY <1>0, <1>6, <1>8, <1>9, <2>1, <2>4 DEF OreateMoves, OreateTypes, OreateAlone
<1>12. CASE ans = "url"
  BY <1>1, <1>10, <1>12
<1>13. CASE ans \in {"cut", "cutEarly"}
  <2>1. Oreate(c)!AfterCut(r, ans)
    BY <1>1, <1>13
  <2> QED
    BY <1>10, <1>11, <1>13, <2>1 DEF Oreate!AfterCut
<1>14. CASE ans \notin {"url", "cut", "cutEarly"}
  <2>1. Oreate(c)!Leave(r, Oreate(c)!classifyUpstreamError(ans))
    BY <1>1, <1>14
  <2>2. /\ Oreate(c)!classifyUpstreamError(ans) \in {"temp", "auth", "quota", "plain"}
        /\ Oreate(c)!classifyUpstreamError(ans) = "plain" <=> ans = "content"
    BY <1>2, <1>14 DEF Oreate!classifyUpstreamError
  <2> QED
    BY <1>11, <1>14, <2>1, <2>2
<1> QED
  BY <1>12, <1>13, <1>14

\* The file is found, given up or downloaded.
LEMMA OreateFileMoves ==
  ASSUME NEW CONSTANT c, Oreate(c)!OreateAssumption, OreateTypes(c), NEW r \in c.reqs,
         Oreate(c)!VideoReady(r) \/ Oreate(c)!RecoveryEnds(r) \/ Oreate(c)!downloadVideo(r)
  PROVE  OreateMoves(c, r)
<1> USE OreateShape
<1>0. /\ UNCHANGED <<cand, oreateRounds, oreateRender, oreatePaid, oreateRefused, flagged, sunk, flips, verdict>>
      /\ {"await", "download"} \subseteq Oreate(c)!Phases /\ "done" \notin Oreate(c)!Phases
  BY DEF Oreate!VideoReady, Oreate!RecoveryEnds, Oreate!downloadVideo, Oreate!Phases
<1>1. CASE Oreate(c)!VideoReady(r)
  <2>1. pc[r] = "await" /\ Oreate(c)!Goto(r, "download") /\ UNCHANGED <<parked, oreateTroubles>>
    BY <1>1 DEF Oreate!VideoReady
  <2>2. /\ OreateHere(c)' /\ pc'[r] = "download" /\ oreateAcct' = oreateAcct /\ todo' = todo
        /\ \A q \in c.reqs \ {r} : pc'[q] = pc[q]
    BY <1>0, <2>1, OreateGoto
  <2>3. OreateElse(c)'
    BY <1>0, <2>1 DEF OreateElse
  <2>4. OreateGoes(r)
    BY <1>0, <2>1, <2>2 DEF OreateGoes, OreateSame, OreateQuiet
  <2> QED
    BY <1>0, <2>2, <2>3, <2>4 DEF OreateMoves, OreateTypes, OreateAlone
<1>2. ASSUME pc[r] \in {"await", "download"}, c.lossy, Oreate(c)!Leave(r, "temp"), parked' = parked,
             oreateTroubles' \in 0..c.maxTroubles
      PROVE  OreateMoves(c, r)
  <2>1. /\ OreateHere(c)' /\ pc'[r] = "pick" /\ todo' = todo
        /\ \A q \in c.reqs \ {r} : pc'[q] = pc[q] /\ oreateAcct'[q] = oreateAcct[q]
    BY <1>0, <1>2, OreateLeave
  <2>2. OreateElse(c)'
    BY <1>0, <1>2 DEF OreateElse
  <2>3. OreateLeaves(c, r)
    BY <1>0, <1>2, <2>1 DEF OreateLeaves
  <2> QED
    BY <1>0, <2>1, <2>2, <2>3 DEF OreateMoves, OreateTypes, OreateAlone
<1>3. CASE Oreate(c)!RecoveryEnds(r)
  BY <1>2, <1>3 DEF Oreate!RecoveryEnds
<1>4. CASE Oreate(c)!downloadVideo(r)
  <2>0. pc[r] = "download"
    BY <1>4 DEF Oreate!downloadVideo
  <2>1. PICK ans \in {"ok"} \cup (IF oreateTroubles < c.maxTroubles /\ c.lossy THEN {"net"} ELSE {}) :
          /\ Oreate(c)!Trouble(ans)
          /\ IF ans = "ok"
               THEN /\ Oreate(c)!Unpark(oreateAcct[r]) /\ pc' = [pc EXCEPT ![r] = "done"]
                    /\ oreateAcct' = [oreateAcct EXCEPT ![r] = Oreate(c)!None] /\ UNCHANGED <<todo, err>>
               ELSE Oreate(c)!Leave(r, "temp") /\ UNCHANGED parked
    BY <1>4 DEF Oreate!downloadVideo
  <2>2. oreateTroubles' \in 0..c.maxTroubles
    BY <2>1 DEF Oreate!Trouble
  <2>3. CASE ans # "ok"
    BY <1>2, <2>0, <2>1, <2>2, <2>3
  <2>4. CASE ans = "ok"
    <3>1. /\ parked' = parked \ {oreateAcct[r]} /\ pc' = [pc EXCEPT ![r] = "done"]
          /\ oreateAcct' = [oreateAcct EXCEPT ![r] = Oreate(c)!None] /\ UNCHANGED <<todo, err>>
      BY <2>1, <2>4 DEF Oreate!Unpark
    <3>2. /\ pc' \in [c.reqs -> {"new", "pick", "done", "failed"} \cup Oreate(c)!Phases] /\ pc'[r] = "done"
          /\ oreateAcct' \in [c.reqs -> c.accounts \cup {Oreate(c)!None}]
          /\ \A q \in c.reqs \ {r} : pc'[q] = pc[q] /\ oreateAcct'[q] = oreateAcct[q]
      BY <3>1 DEF OreateHere
    <3>3. OreateHere(c)'
      BY <1>0, <3>1, <3>2 DEF OreateHere
    <3>4. OreateElse(c)'
      BY <1>0, <2>2, <3>1 DEF OreateElse
    <3>5. OreateEnds(r)
      BY <1>0, <2>0, <3>1, <3>2 DEF OreateEnds, OreateSame
    <3> QED
      BY <1>0, <3>1, <3>2, <3>3, <3>4, <3>5 DEF OreateMoves, OreateTypes, OreateAlone
  <2> QED
    BY <2>3, <2>4
<1> QED
  BY <1>1, <1>3, <1>4

\* Every step of a request.
LEMMA OreateWorkMoves ==
  ASSUME NEW CONSTANT c, Oreate(c)!OreateAssumption, OreateTypes(c), NEW r \in c.reqs, Oreate(c)!Work(r)
  PROVE  OreateMoves(c, r)
BY OreateChooses, OreatePrepares, OreateStreamMoves, OreateFileMoves DEF Oreate!Work

\* The steps that are no request's: a render comes about, Oreate changes its mind, a window ends.
OreateOthers(c) ==
  /\ OreateTypes(c)' /\ UNCHANGED <<pc, oreateAcct, cand, todo, oreatePaid, oreateRefused, sunk>>
  /\ \/ parked' = parked /\ verdict' = verdict
     \/ \E a \in c.accounts : parked' = parked \ {a} /\ verdict' = [verdict EXCEPT ![a] = "none"]

\* What may happen.
LEMMA OreateNextMoves ==
  ASSUME NEW CONSTANT c, Oreate(c)!OreateAssumption, OreateTypes(c), Oreate(c)!Next \/ UNCHANGED oreateVars
  PROVE  (\E r \in c.reqs : OreateMoves(c, r)) \/ OreateOthers(c)
<1>1. ASSUME NEW r \in c.reqs, Oreate(c)!Rendered(r) PROVE OreateOthers(c)
  <2>1. /\ oreateRender' = [oreateRender EXCEPT ![r] = "made"]
        /\ UNCHANGED <<pc, oreateAcct, cand, todo, err, oreateRounds, oreatePaid, oreateRefused, flagged, verdict, parked,
                       sunk, oreateTroubles, flips>>
    BY <1>1 DEF Oreate!Rendered
  <2>2. oreateRender' \in [c.reqs -> {"none", "hidden", "running", "made"}]
    BY <2>1 DEF OreateTypes, OreateElse
  <2> QED
    BY <2>1, <2>2 DEF OreateOthers, OreateTypes, OreateHere, OreateElse
<1>2. ASSUME NEW a \in c.accounts, Oreate(c)!Flip(a) PROVE OreateOthers(c)
  <2>1. /\ flips < c.maxFlips /\ flips' = flips + 1 /\ (flagged' = flagged \ {a} \/ flagged' = flagged \cup {a})
        /\ UNCHANGED <<pc, oreateAcct, cand, todo, err, oreateRounds, oreateRender, oreatePaid, oreateRefused, verdict, parked,
                       sunk, oreateTroubles>>
    BY <1>2 DEF Oreate!Flip
  <2>2. flips' \in 0..c.maxFlips /\ flagged' \subseteq c.accounts
    BY <1>2, <2>1 DEF OreateTypes, OreateElse, Oreate!OreateAssumption
  <2> QED
    BY <2>1, <2>2 DEF OreateOthers, OreateTypes, OreateHere, OreateElse
<1>3. ASSUME NEW a \in c.accounts, Oreate(c)!WindowEnds(a) PROVE OreateOthers(c)
  <2>1. /\ parked' = parked \ {a} /\ verdict' = [verdict EXCEPT ![a] = "none"]
        /\ UNCHANGED <<pc, oreateAcct, cand, todo, err, oreateRounds, oreateRender, oreatePaid, oreateRefused, flagged,
                       sunk, oreateTroubles, flips>>
    BY <1>3 DEF Oreate!WindowEnds
  <2>2. verdict' \in [c.accounts -> {"none", "ok", "spam"}] /\ parked' \subseteq c.accounts
    BY <2>1 DEF OreateTypes, OreateElse
  <2> QED
    BY <1>3, <2>1, <2>2 DEF OreateOthers, OreateTypes, OreateHere, OreateElse
<1>4. CASE UNCHANGED oreateVars
  BY <1>4 DEF OreateOthers, OreateTypes, OreateHere, OreateElse, oreateVars
<1>5. CASE Oreate(c)!Next
  <2>1. \/ \E r \in c.reqs : Oreate(c)!Work(r) \/ Oreate(c)!Rendered(r)
        \/ \E a \in c.accounts : Oreate(c)!Flip(a) \/ Oreate(c)!WindowEnds(a)
        \/ UNCHANGED oreateVars
    BY <1>5 DEF Oreate!Next, Oreate!Ended, Oreate!vars, oreateVars
  <2> QED
    BY <1>1, <1>2, <1>3, <1>4, <2>1, OreateWorkMoves
<1> QED
  BY <1>4, <1>5

-----------------------------------------------------------------------------
\* The types, the browsers, the candidates and the refusals.
OreateInv(c) ==
  /\ OreateTypes(c)
  /\ Oreate(c)!BrowsersBounded
  /\ \A r \in c.reqs : pc[r] \notin {"new", "failed"} => cand[r] # {}
  /\ Oreate(c)!ParkedPoolIsTried
  /\ Oreate(c)!RefusedIsFinal

\* Oreate's module counts as this one does.
LEMMA OreateCardinality ==
  ASSUME NEW CONSTANT c
  PROVE  /\ \A S : Oreate(c)!Cardinality(S) = Cardinality(S)
         /\ \A S : Oreate(c)!IsFiniteSet(S) = IsFiniteSet(S)
BY DEF Oreate!Cardinality, Cardinality, Oreate!IsFiniteSet, IsFiniteSet

\* A browser starts only where one is free.
LEMMA OreateBrowsersStep ==
  ASSUME NEW CONSTANT c, Oreate(c)!OreateAssumption, OreateTypes(c), Oreate(c)!BrowsersBounded,
         NEW r \in c.reqs, OreateMoves(c, r)
  PROVE  Oreate(c)!BrowsersBounded'
<1> DEFINE B == {q \in c.reqs : pc[q] = "browser"}
           D == {q \in c.reqs : pc'[q] = "browser"}
<1>1. IsFiniteSet(c.reqs) /\ c.browsers \in Nat
  BY OreateCardinality DEF Oreate!OreateAssumption
<1>2. /\ IsFiniteSet(B) /\ IsFiniteSet(D) /\ Cardinality(B) \in Nat /\ Cardinality(D) \in Nat
      /\ IsFiniteSet(B \cup {r}) /\ Cardinality(B \cup {r}) \in Nat /\ Cardinality(B \cup {r}) <= Cardinality(B) + 1
  <2>1. IsFiniteSet(B) /\ IsFiniteSet(D)
    BY <1>1, FS_Subset
  <2>2. Cardinality(B) \in Nat /\ Cardinality(D) \in Nat
    BY <2>1, FS_CardinalityType
  <2>3. /\ IsFiniteSet(B \cup {r})
        /\ Cardinality(B \cup {r}) = IF r \in B THEN Cardinality(B) ELSE Cardinality(B) + 1
    BY <2>1, FS_AddElement
  <2> HIDE DEF B, D
  <2> QED
    BY <2>1, <2>2, <2>3
<1>3. Cardinality(B) <= c.browsers
  BY OreateCardinality DEF Oreate!BrowsersBounded
<1>4. \A q \in c.reqs \ {r} : pc'[q] = pc[q]
  BY DEF OreateMoves, OreateAlone
<1>5. CASE pc'[r] = "browser"
  <2>1. Cardinality(B) < c.browsers
    <3>1. OreateBrowses(c, r)
      BY <1>5 DEF OreateMoves, OreateSelects, OreateTakes, OreateWaits, OreateGivesUp, OreateGoes,
         OreateStreams,
                  OreateLeaves, OreateEnds
    <3> QED
      BY <3>1, OreateCardinality DEF OreateBrowses
  <2>2. D \in SUBSET (B \cup {r})
    BY <1>4
  <2>3. Cardinality(D) <= Cardinality(B \cup {r})
    BY <1>2, <2>2, FS_Subset
  <2>4. Cardinality(D) <= c.browsers
    BY <1>1, <1>2, <2>1, <2>3
  <2> QED
    BY <2>4, OreateCardinality DEF Oreate!BrowsersBounded
<1>6. CASE pc'[r] # "browser"
  <2>1. D \in SUBSET B
    BY <1>4, <1>6
  <2>2. Cardinality(D) <= Cardinality(B)
    BY <1>2, <2>1, FS_Subset
  <2>3. Cardinality(D) <= c.browsers
    BY <1>1, <1>2, <1>3, <2>2
  <2> QED
    BY <2>3, OreateCardinality DEF Oreate!BrowsersBounded
<1> QED
  BY <1>5, <1>6

\* A step keeps them.
LEMMA OreateStep ==
  ASSUME NEW CONSTANT c, Oreate(c)!OreateAssumption, OreateInv(c), Oreate(c)!Next \/ UNCHANGED oreateVars
  PROVE  OreateInv(c)'
<1>0. /\ OreateTypes(c) /\ Oreate(c)!BrowsersBounded
      /\ \A r \in c.reqs : pc[r] \notin {"new", "failed"} => cand[r] # {}
      /\ Oreate(c)!ParkedPoolIsTried /\ Oreate(c)!RefusedIsFinal
      /\ sunk \subseteq c.accounts
  BY DEF OreateInv, OreateTypes, OreateElse
<1>1. (\E r \in c.reqs : OreateMoves(c, r)) \/ OreateOthers(c)
  BY <1>0, OreateNextMoves
<1>2. ASSUME NEW r \in c.reqs, OreateMoves(c, r) PROVE OreateInv(c)'
  <2>1. /\ OreateTypes(c)' /\ Oreate(c)!BrowsersBounded'
        /\ \A q \in c.reqs \ {r} : pc'[q] = pc[q] /\ cand'[q] = cand[q] /\ oreateRefused'[q] = oreateRefused[q]
    BY <1>0, <1>2, OreateBrowsersStep DEF OreateMoves, OreateAlone
  <2>2. sunk \subseteq sunk' /\ sunk' \subseteq c.accounts
    BY <1>0, <1>2, <2>1 DEF OreateMoves, OreateTypes, OreateElse, OreateSelects, OreateTakes, OreateWaits,
       OreateGivesUp, OreateGoes,
                            OreateBrowses, OreateStreams, OreateLeaves, OreateEnds, OreateQuiet
  <2>3. \/ pc[r] # "new" /\ pc[r] # "failed" /\ cand'[r] = cand[r]
        \/ pc'[r] = "pick" /\ cand'[r] # {}
        \/ pc'[r] = "failed" /\ (cand'[r] = {} => sunk = c.accounts)
    <3>1. CASE OreateSelects(c, r)
      <4>1. cand'[r] = {} => c.accounts \ sunk = {}
        BY <3>1 DEF OreateSelects, Oreate!Selected
      <4> QED
        BY <1>0, <3>1, <4>1 DEF OreateSelects
    <3>2. CASE ~OreateSelects(c, r)
      BY <1>2, <3>2 DEF OreateMoves, OreateTakes, OreateWaits, OreateGivesUp, OreateGoes, OreateBrowses,
         OreateStreams,
                        OreateLeaves, OreateEnds, OreateSame, Oreate!Phases
    <3> QED
      BY <3>1, <3>2
  <2>4. \A q \in c.reqs : pc'[q] \notin {"new", "failed"} => cand'[q] # {}
    BY <1>0, <2>1, <2>3
  <2>5. \A q \in c.reqs : pc'[q] = "failed" /\ cand'[q] = {} => sunk' = c.accounts
    BY <1>0, <2>1, <2>2, <2>3 DEF Oreate!ParkedPoolIsTried
  <2>6. oreateRefused'[r] => pc'[r] = "failed"
    <3>1. oreateRefused'[r] => oreateRefused[r] \/ pc'[r] = "failed"
      BY <1>2 DEF OreateMoves, OreateSelects, OreateTakes, OreateWaits, OreateGivesUp, OreateGoes,
         OreateBrowses,
                  OreateStreams, OreateLeaves, OreateEnds, OreateSame
    <3>2. pc[r] # "failed"
      BY <1>2 DEF OreateMoves, OreateSelects, OreateTakes, OreateWaits, OreateGivesUp, OreateGoes,
         OreateBrowses,
                  OreateStreams, OreateLeaves, OreateEnds, Oreate!Phases
    <3> QED
      BY <1>0, <3>1, <3>2 DEF Oreate!RefusedIsFinal
  <2>7. \A q \in c.reqs : oreateRefused'[q] => pc'[q] = "failed"
    BY <1>0, <2>1, <2>6 DEF Oreate!RefusedIsFinal
  <2> QED
    BY <2>1, <2>4, <2>5, <2>7 DEF OreateInv, Oreate!ParkedPoolIsTried, Oreate!RefusedIsFinal
<1>3. CASE OreateOthers(c)
  BY <1>0, <1>3 DEF OreateOthers, OreateInv, Oreate!BrowsersBounded, Oreate!ParkedPoolIsTried,
     Oreate!RefusedIsFinal
<1> QED
  BY <1>1, <1>2, <1>3

-----------------------------------------------------------------------------
\* An account runs one job at a time, so that a job whose render was accepted holds an account
\* of which Oreate has said nothing worse since.
OreateParks(c) ==
  /\ \A q, r \in c.reqs :
       /\ pc[q] \in Oreate(c)!Phases /\ pc[r] \in Oreate(c)!Phases /\ oreateAcct[q] = oreateAcct[r]
       => q = r
  /\ \A r \in c.reqs : pc[r] \in {"await", "download"} => verdict[oreateAcct[r]] # "spam"
  /\ Oreate(c)!FlaggedIsParked

\* An account that is not busy runs no job, where it may run one.
LEMMA OreateFree ==
  ASSUME NEW CONSTANT c, Oreate(c)!OreateAssumption, c.conc = 1, NEW a, ~Oreate(c)!Busy(a), NEW q \in c.reqs
  PROVE  oreateAcct[q] # a
<1> DEFINE H == {p \in c.reqs : oreateAcct[p] = a}
<1>1. IsFiniteSet(c.reqs)
  BY OreateCardinality DEF Oreate!OreateAssumption
<1>2. IsFiniteSet(H) /\ Cardinality(H) \in Nat
  BY <1>1, FS_Subset, FS_CardinalityType
<1>3. ~(Cardinality(H) >= 1)
  BY OreateCardinality DEF Oreate!Busy
<1>4. Cardinality(H) = 0
  BY <1>2, <1>3
<1>5. H = {}
  BY <1>2, <1>4, FS_EmptySet
<1> QED
  BY <1>5

\* An account that Oreate takes for a spam user stays parked, whatever its older jobs do.
LEMMA OreateParksStep ==
  ASSUME NEW CONSTANT c, Oreate(c)!OreateAssumption, c.conc = 1, OreateInv(c), OreateParks(c),
         Oreate(c)!Next \/ UNCHANGED oreateVars
  PROVE  OreateParks(c)'
<1>0. OreateTypes(c) /\ OreateHere(c) /\ verdict \in [c.accounts -> {"none", "ok", "spam"}]
  BY DEF OreateInv, OreateTypes, OreateElse
<1>1. (\E r \in c.reqs : OreateMoves(c, r)) \/ OreateOthers(c)
  BY <1>0, OreateNextMoves
<1>2. ASSUME NEW r \in c.reqs, OreateMoves(c, r) PROVE OreateParks(c)'
  <2>1. /\ \A q \in c.reqs \ {r} : pc'[q] = pc[q] /\ oreateAcct'[q] = oreateAcct[q]
        /\ OreateHere(c)'
    BY <1>2 DEF OreateMoves, OreateAlone, OreateTypes
  <2>2. \/ pc'[r] \notin Oreate(c)!Phases
        \/ pc[r] \in Oreate(c)!Phases /\ oreateAcct'[r] = oreateAcct[r]
        \/ pc'[r] \in {"upload", "chat"} /\ (\A q \in c.reqs : oreateAcct[q] # oreateAcct'[r])
    <3>1. CASE OreateTakes(c, r)
      BY <3>1, OreateFree DEF OreateTakes
    <3>2. CASE ~OreateTakes(c, r)
      BY <1>2, <3>2 DEF OreateMoves, OreateSelects, OreateWaits, OreateGivesUp, OreateGoes, OreateBrowses,
                        OreateStreams, OreateLeaves, OreateEnds, Oreate!Phases
    <3> QED
      BY <3>1, <3>2
  <2>3. \A p, q \in c.reqs :
          /\ pc'[p] \in Oreate(c)!Phases /\ pc'[q] \in Oreate(c)!Phases /\ oreateAcct'[p] = oreateAcct'[q]
          => p = q
    BY <2>1, <2>2 DEF OreateParks
  <2>4. \A q \in c.reqs : pc[q] \in Oreate(c)!Phases => oreateAcct[q] \in c.accounts
    BY <1>0 DEF OreateHere
  <2>5. "await" \in Oreate(c)!Phases /\ "download" \in Oreate(c)!Phases
    BY DEF Oreate!Phases
  <2>6. CASE OreateStreams(r)
    <3>1. /\ pc[r] \in Oreate(c)!Phases /\ pc'[r] \in {"await", "download"} /\ oreateAcct'[r] = oreateAcct[r]
          /\ parked' = parked /\ verdict' = [verdict EXCEPT ![oreateAcct[r]] = "ok"]
      BY <2>6 DEF OreateStreams, Oreate!Phases
    <3>2. \A a \in c.accounts : verdict'[a] = (IF a = oreateAcct[r] THEN "ok" ELSE verdict[a])
      BY <1>0, <3>1
    <3>3. \A q \in c.reqs : pc'[q] \in {"await", "download"} => verdict'[oreateAcct'[q]] # "spam"
      BY <2>1, <2>4, <2>5, <3>1, <3>2 DEF OreateParks
    <3>4. Oreate(c)!FlaggedIsParked'
      BY <3>1, <3>2 DEF OreateParks, Oreate!FlaggedIsParked
    <3> QED
      BY <2>3, <3>3, <3>4 DEF OreateParks
  <2>7. CASE OreateLeaves(c, r)
    <3>1. /\ pc[r] \in Oreate(c)!Phases /\ pc'[r] \notin {"await", "download"}
          /\ \/ parked' = parked /\ verdict' = verdict
             \/ parked' = parked /\ verdict' = [verdict EXCEPT ![oreateAcct[r]] = "ok"]
             \/ parked' = parked \cup {oreateAcct[r]} /\ verdict' = [verdict EXCEPT ![oreateAcct[r]] = "spam"]
      BY <2>7 DEF OreateLeaves
    <3>2. /\ \A a \in c.accounts : a # oreateAcct[r] => verdict'[a] = verdict[a] /\ (a \in parked => a \in parked')
          /\ verdict'[oreateAcct[r]] = "spam" => oreateAcct[r] \in parked' \/ verdict[oreateAcct[r]] = "spam"
          /\ parked \subseteq parked'
      BY <1>0, <3>1
    <3>3. \A q \in c.reqs : pc'[q] \in {"await", "download"} => verdict'[oreateAcct'[q]] # "spam"
      <4>1. SUFFICES ASSUME NEW q \in c.reqs, pc'[q] \in {"await",
      "download"} PROVE verdict'[oreateAcct'[q]] # "spam"
        OBVIOUS
      <4>2. q # r /\ pc[q] \in {"await", "download"} /\ oreateAcct'[q] = oreateAcct[q]
        BY <2>1, <3>1, <4>1
      <4>3. oreateAcct[q] # oreateAcct[r] /\ oreateAcct[q] \in c.accounts
        BY <2>4, <2>5, <3>1, <4>2 DEF OreateParks
      <4> QED
        BY <3>2, <4>2, <4>3 DEF OreateParks
    <3>4. Oreate(c)!FlaggedIsParked'
      BY <3>2 DEF OreateParks, Oreate!FlaggedIsParked
    <3> QED
      BY <2>3, <3>3, <3>4 DEF OreateParks
  <2>8. CASE OreateEnds(r)
    <3>1. /\ pc[r] = "download" /\ pc'[r] = "done" /\ parked' = parked \ {oreateAcct[r]} /\ verdict' = verdict
      BY <2>8 DEF OreateEnds
    <3>2. verdict[oreateAcct[r]] # "spam"
      BY <3>1 DEF OreateParks
    <3>3. Oreate(c)!FlaggedIsParked'
      BY <3>1, <3>2 DEF OreateParks, Oreate!FlaggedIsParked
    <3>4. \A q \in c.reqs : pc'[q] \in {"await", "download"} => verdict'[oreateAcct'[q]] # "spam"
      BY <2>1, <3>1 DEF OreateParks
    <3> QED
      BY <2>3, <3>3, <3>4 DEF OreateParks
  <2>9. CASE ~OreateStreams(r) /\ ~OreateLeaves(c, r) /\ ~OreateEnds(r)
    <3>1. /\ OreateQuiet
          /\ pc'[r] \in {"await", "download"} => pc[r] \in {"await", "download"} /\ oreateAcct'[r] = oreateAcct[r]
      BY <1>2, <2>9 DEF OreateMoves, OreateSelects, OreateTakes, OreateWaits, OreateGivesUp, OreateGoes,
         OreateBrowses
    <3>2. \A q \in c.reqs : pc'[q] \in {"await", "download"} => verdict'[oreateAcct'[q]] # "spam"
      BY <2>1, <3>1 DEF OreateParks, OreateQuiet
    <3>3. Oreate(c)!FlaggedIsParked'
      BY <3>1 DEF OreateParks, Oreate!FlaggedIsParked, OreateQuiet
    <3> QED
      BY <2>3, <3>2, <3>3 DEF OreateParks
  <2> QED
    BY <2>6, <2>7, <2>8, <2>9
<1>3. CASE OreateOthers(c)
  <2>1. UNCHANGED <<pc, oreateAcct>>
    BY <1>3 DEF OreateOthers
  <2>2. CASE parked' = parked /\ verdict' = verdict
    BY <2>1, <2>2 DEF OreateParks, Oreate!FlaggedIsParked
  <2>3. CASE \E a \in c.accounts : parked' = parked \ {a} /\ verdict' = [verdict EXCEPT ![a] = "none"]
    <3>1. PICK a \in c.accounts : parked' = parked \ {a} /\ verdict' = [verdict EXCEPT ![a] = "none"]
      BY <2>3
    <3>2. \A b \in c.accounts : verdict'[b] = (IF b = a THEN "none" ELSE verdict[b])
      BY <1>0, <3>1
    <3>3. \A q \in c.reqs : pc[q] \in {"await", "download"} => oreateAcct[q] \in c.accounts
      BY <1>0 DEF OreateHere, Oreate!Phases
    <3>4. \A q \in c.reqs : pc'[q] \in {"await", "download"} => verdict'[oreateAcct'[q]] # "spam"
      BY <2>1, <3>2, <3>3 DEF OreateParks
    <3>5. Oreate(c)!FlaggedIsParked'
      BY <3>1, <3>2 DEF OreateParks, Oreate!FlaggedIsParked
    <3> QED
      BY <2>1, <3>4, <3>5 DEF OreateParks
  <2> QED
    BY <1>3, <2>2, <2>3 DEF OreateOthers
<1> QED
  BY <1>1, <1>2, <1>3

-----------------------------------------------------------------------------
\* A request whose render was accepted waits for it, and one that failed was refused or through.
OreateOnce(c) ==
  /\ \A r \in c.reqs : oreatePaid[r] <= 1 /\ (oreatePaid[r] = 1 => pc[r] \in {"await", "download", "done"})
  /\ Oreate(c)!SunkIsSpent
  /\ Oreate(c)!FailsAfterAll

\* A cut stream does not make another account render the request.
LEMMA OreateOnceStep ==
  ASSUME NEW CONSTANT c, Oreate(c)!OreateAssumption, Steady(c), OreateInv(c), OreateOnce(c),
         Oreate(c)!Next \/ UNCHANGED oreateVars
  PROVE  OreateOnce(c)'
<1>0. OreateTypes(c)
  BY DEF OreateInv
<1>1. (\E r \in c.reqs : OreateMoves(c, r)) \/ OreateOthers(c)
  BY <1>0, OreateNextMoves
<1>2. ASSUME NEW r \in c.reqs, OreateMoves(c, r) PROVE OreateOnce(c)'
  <2>1. \A q \in c.reqs \ {r} : /\ pc'[q] = pc[q] /\ todo'[q] = todo[q] /\ oreatePaid'[q] = oreatePaid[q]
                                /\ oreateRefused'[q] = oreateRefused[q]
    BY <1>2 DEF OreateMoves, OreateAlone
  <2>2. oreatePaid[r] \in Nat /\ oreatePaid[r] <= 1 /\ (oreatePaid[r] = 1 => pc[r] \in {"await", "download", "done"})
    BY <1>0 DEF OreateOnce, OreateTypes, OreateElse
  <2>3. \/ oreatePaid'[r] = oreatePaid[r] /\ pc[r] \notin {"await", "download", "done"}
        \/ oreatePaid'[r] = oreatePaid[r] /\ pc'[r] \in {"await", "download", "done"}
        \/ oreatePaid'[r] = oreatePaid[r] + 1 /\ pc[r] = "stream" /\ pc'[r] \in {"await", "download", "done"}
    BY <1>2 DEF OreateMoves, OreateSelects, OreateTakes, OreateWaits, OreateGivesUp, OreateGoes,
       OreateBrowses,
                OreateStreams, OreateLeaves, OreateEnds, OreateSame, Oreate!Phases, Steady
  <2>4. oreatePaid'[r] <= 1 /\ (oreatePaid'[r] = 1 => pc'[r] \in {"await", "download", "done"})
    BY <2>2, <2>3
  <2>5. sunk' = sunk \/ (sunk' = sunk \cup {oreateAcct[r]} /\ oreateAcct[r] \in c.spent)
    BY <1>2 DEF OreateMoves, OreateSelects, OreateTakes, OreateWaits, OreateGivesUp, OreateGoes,
       OreateBrowses,
                OreateStreams, OreateLeaves, OreateEnds, OreateQuiet, Steady
  <2>6. pc'[r] = "failed" => oreateRefused'[r] \/ todo'[r] = {}
    BY <1>2 DEF OreateMoves, OreateSelects, OreateTakes, OreateWaits, OreateGivesUp, OreateGoes,
       OreateBrowses,
                OreateStreams, OreateLeaves, OreateEnds, Steady
  <2>7. \A q \in c.reqs : oreatePaid'[q] <= 1 /\ (oreatePaid'[q] = 1 => pc'[q] \in {"await", "download", "done"})
    BY <2>1, <2>4 DEF OreateOnce
  <2>8. sunk' \subseteq c.spent
    BY <2>5 DEF OreateOnce, Oreate!SunkIsSpent
  <2>9. \A q \in c.reqs : pc'[q] = "failed" => oreateRefused'[q] \/ todo'[q] = {}
    BY <2>1, <2>6 DEF OreateOnce, Oreate!FailsAfterAll
  <2> QED
    BY <2>7, <2>8, <2>9 DEF OreateOnce, Oreate!SunkIsSpent, Oreate!FailsAfterAll
<1>3. CASE OreateOthers(c)
  BY <1>3 DEF OreateOthers, OreateOnce, Oreate!SunkIsSpent, Oreate!FailsAfterAll
<1> QED
  BY <1>1, <1>2, <1>3

\* No request has begun.
LEMMA OreateInitially ==
  ASSUME NEW CONSTANT c, Oreate(c)!OreateAssumption, Oreate(c)!Init
  PROVE  OreateInv(c) /\ OreateParks(c) /\ OreateOnce(c)
<1>1. /\ pc = [r \in c.reqs |-> "new"] /\ oreateAcct = [r \in c.reqs |-> Oreate(c)!None]
      /\ cand = [r \in c.reqs |-> {}] /\ todo = cand
      /\ err = [r \in c.reqs |-> "none"] /\ oreateRounds = [r \in c.reqs |-> 0]
      /\ oreateRender = [r \in c.reqs |-> "none"] /\ oreatePaid = [r \in c.reqs |-> 0]
      /\ oreateRefused = [r \in c.reqs |-> FALSE] /\ flagged = {}
      /\ verdict = [a \in c.accounts |-> "none"] /\ parked = {} /\ sunk = {}
      /\ oreateTroubles = 0 /\ flips = 0
  BY DEF Oreate!Init
<1>2. "new" \notin Oreate(c)!Phases
  BY DEF Oreate!Phases
<1>3. /\ c.maxTroubles \in Nat /\ c.maxFlips \in Nat /\ c.maxRounds \in Nat /\ c.browsers \in Nat
  BY DEF Oreate!OreateAssumption
<1>4. OreateHere(c)
  BY <1>1, <1>2 DEF OreateHere
<1>5. OreateElse(c)
  BY <1>1, <1>3 DEF OreateElse
<1>6. Oreate(c)!BrowsersBounded
  <2>1. {r \in c.reqs : pc[r] = "browser"} = {}
    BY <1>1
  <2>2. Cardinality({r \in c.reqs : pc[r] = "browser"}) = 0
    BY <2>1, FS_EmptySet
  <2>3. Cardinality({r \in c.reqs : pc[r] = "browser"}) <= c.browsers
    BY <1>3, <2>2
  <2> QED
    BY <2>3, OreateCardinality DEF Oreate!BrowsersBounded
<1>7. /\ \A r \in c.reqs : pc[r] \notin {"new", "failed"} => cand[r] # {}
      /\ Oreate(c)!ParkedPoolIsTried /\ Oreate(c)!RefusedIsFinal
  BY <1>1 DEF Oreate!ParkedPoolIsTried, Oreate!RefusedIsFinal
<1>8. OreateParks(c)
  BY <1>1, <1>2 DEF OreateParks, Oreate!FlaggedIsParked
<1>9. OreateOnce(c)
  BY <1>1 DEF OreateOnce, Oreate!SunkIsSpent, Oreate!FailsAfterAll
<1> QED
  BY <1>4, <1>5, <1>6, <1>7, <1>8, <1>9 DEF OreateInv, OreateTypes

\* What they say of the properties.
LEMMA OreateImplies ==
  ASSUME NEW CONSTANT c, OreateInv(c)
  PROVE  /\ Oreate(c)!OreateTypeOK /\ Oreate(c)!BrowsersBounded /\ Oreate(c)!ParkedPoolIsTried /\ Oreate(c)!RefusedIsFinal
         /\ OreateParks(c) => Oreate(c)!FlaggedIsParked
         /\ OreateOnce(c) => Oreate(c)!PaidOnce /\ Oreate(c)!SunkIsSpent /\ Oreate(c)!FailsAfterAll
<1>1. Oreate(c)!OreateTypeOK
  BY DEF OreateInv, OreateTypes, OreateHere, OreateElse, Oreate!OreateTypeOK
<1> QED
  BY <1>1 DEF OreateInv, OreateParks, OreateOnce, Oreate!PaidOnce

-----------------------------------------------------------------------------
(* The clients together.                                                   *)

\* What holds of the component of a part, in that part.
GrokOf(p) ==
  /\ GrokInv(Case[p]) /\ (p = "video" => GrokOnce(Case[p])) /\ (p # "chat" => GrokFinal(Case[p]))
PolledOf(p) ==
  /\ PolledInv(Case[p]) /\ (p # "leonardo" => PolledTrue(Case[p]))
  /\ p \in {"krea", "runway"} => PolledOnce(Case[p])
  /\ p \in {"runway", "leonardo"} => Polled(Case[p])!RefusedIsFinal
OreateOf(p) ==
  /\ OreateInv(Case[p]) /\ (p = "two" => OreateParks(Case[p])) /\ (p = "poor" => OreateOnce(Case[p]))
AdobeOf(p) ==
  /\ AdobeInv(Case[p]) /\ (p = "filmed" => AdobeHonest(Case[p]) /\ AdobeNew(Case[p]))
  /\ (p = "transfers" => AdobeOnce(Case[p])) /\ (p = "drawn" => AdobeAll(Case[p]))
ChatOf(p) == ChatInv(Case[p]) /\ (p = "image" => ChatGPT(Case[p])!MarkedIsTrue)

\* A behaviour is of one part, whose component keeps to what holds of it.
ClientsInv ==
  /\ \A p \in GrokParts : part = p => GrokOf(p)
  /\ \A p \in SignerParts : part = p => SignerInv(Case[p])
  /\ \A p \in PolledParts : part = p => PolledOf(p)
  /\ \A p \in OreateParts : part = p => OreateOf(p)
  /\ \A p \in AdobeParts : part = p => AdobeOf(p)
  /\ \A p \in ChatParts : part = p => ChatOf(p)

\* A step is of the part's own component, or none of its.
LEMMA ClientsAlone ==
  ASSUME [ClientsNext]_vars
  PROVE  /\ part' = part
         /\ \A p \in GrokParts : part = p => Grok(Case[p])!Next \/ UNCHANGED grokVars
         /\ \A p \in SignerParts : part = p => Signer(Case[p])!Next \/ UNCHANGED signerVars
         /\ \A p \in PolledParts : part = p => Polled(Case[p])!Next \/ UNCHANGED polledVars
         /\ \A p \in OreateParts : part = p => Oreate(Case[p])!Next \/ UNCHANGED oreateVars
         /\ \A p \in AdobeParts : part = p => Adobe(Case[p])!Next \/ UNCHANGED adobeVars
         /\ \A p \in ChatParts : part = p => ChatGPT(Case[p])!Next \/ UNCHANGED chatVars
<1>1. CASE UNCHANGED vars
  BY <1>1 DEF vars
<1>2. CASE ClientsNext
  BY <1>2 DEF ClientsNext, OfGrok, OfSigner, OfPolled, OfOreate, OfAdobe, OfChat
<1> QED
  BY <1>1, <1>2

\* A part begins as its component does.
LEMMA ClientsBegin ==
  ASSUME ClientsInit
  PROVE  /\ \A p \in GrokParts : part = p => Grok(Case[p])!Init
         /\ \A p \in SignerParts : part = p => Signer(Case[p])!Init
         /\ \A p \in PolledParts : part = p => Polled(Case[p])!Init
         /\ \A p \in OreateParts : part = p => Oreate(Case[p])!Init
         /\ \A p \in AdobeParts : part = p => Adobe(Case[p])!Init
         /\ \A p \in ChatParts : part = p => ChatGPT(Case[p])!Init
BY DEF ClientsInit, Its

\* A step of Grok's.
LEMMA GrokOfStep ==
  ASSUME NEW CONSTANT p \in GrokParts, GrokOf(p), Grok(Case[p])!Next \/ UNCHANGED grokVars
  PROVE  GrokOf(p)'
<1>1. Grok(Case[p])!GrokAssumption
  BY ClientsAssumption
<1>2. GrokInv(Case[p])'
  BY <1>1, GrokStep DEF GrokOf
<1>3. p = "video" => GrokOnce(Case[p])'
  BY <1>1, PartsAssumption, GrokOnceStep DEF GrokOf
<1>4. p # "chat" => GrokFinal(Case[p])'
  BY <1>1, PartsAssumption, GrokFinalStep DEF GrokOf
<1> QED
  BY <1>2, <1>3, <1>4 DEF GrokOf

\* A step of a client that polls.
LEMMA PolledOfStep ==
  ASSUME NEW CONSTANT p \in PolledParts, PolledOf(p), Polled(Case[p])!Next \/ UNCHANGED polledVars
  PROVE  PolledOf(p)'
<1>1. Polled(Case[p])!PolledAssumption
  BY ClientsAssumption
<1>2. PolledInv(Case[p])'
  BY <1>1, PolledStep DEF PolledOf
<1>3. p # "leonardo" => PolledTrue(Case[p])'
  BY <1>1, PartsAssumption, PolledTrueStep DEF PolledOf
<1>4. p \in {"krea", "runway"} => PolledOnce(Case[p])'
  BY <1>1, PartsAssumption, PolledOnceStep DEF PolledOf
<1>5. p \in {"runway", "leonardo"} => Polled(Case[p])!RefusedIsFinal'
  BY <1>1, PartsAssumption, PolledFinalStep DEF PolledOf
<1> QED
  BY <1>2, <1>3, <1>4, <1>5 DEF PolledOf

\* A step of Oreate's.
LEMMA OreateOfStep ==
  ASSUME NEW CONSTANT p \in OreateParts, OreateOf(p), Oreate(Case[p])!Next \/ UNCHANGED oreateVars
  PROVE  OreateOf(p)'
<1>1. Oreate(Case[p])!OreateAssumption
  BY ClientsAssumption
<1>2. OreateInv(Case[p])'
  BY <1>1, OreateStep DEF OreateOf
<1>3. p = "two" => OreateParks(Case[p])'
  BY <1>1, PartsAssumption, OreateParksStep DEF OreateOf
<1>4. p = "poor" => OreateOnce(Case[p])'
  BY <1>1, PartsAssumption, OreateOnceStep DEF OreateOf
<1> QED
  BY <1>2, <1>3, <1>4 DEF OreateOf

\* A step of Adobe's.
LEMMA AdobeOfStep ==
  ASSUME NEW CONSTANT p \in AdobeParts, AdobeOf(p), Adobe(Case[p])!Next \/ UNCHANGED adobeVars
  PROVE  AdobeOf(p)'
<1>1. Adobe(Case[p])!AdobeAssumption
  BY ClientsAssumption
<1>2. AdobeInv(Case[p])'
  BY <1>1, AdobeStep DEF AdobeOf
<1>3. p = "filmed" => AdobeHonest(Case[p])' /\ AdobeNew(Case[p])'
  BY <1>1, PartsAssumption, AdobeHonestStep, AdobeNewStep DEF AdobeOf, Filmed
<1>4. p = "transfers" => AdobeOnce(Case[p])'
  BY <1>1, PartsAssumption, AdobeOnceStep DEF AdobeOf
<1>5. p = "drawn" => AdobeAll(Case[p])'
  BY <1>1, PartsAssumption, AdobeAllStep DEF AdobeOf
<1> QED
  BY <1>2, <1>3, <1>4, <1>5 DEF AdobeOf

\* A step of ChatGPT's.
LEMMA ChatOfStep ==
  ASSUME NEW CONSTANT p \in ChatParts, ChatOf(p), ChatGPT(Case[p])!Next \/ UNCHANGED chatVars
  PROVE  ChatOf(p)'
<1>1. ChatGPT(Case[p])!ChatGPTAssumption
  BY ClientsAssumption
<1>2. ChatInv(Case[p])'
  BY <1>1, ChatStep DEF ChatOf
<1>3. p = "image" => ChatGPT(Case[p])!MarkedIsTrue'
  BY <1>1, PartsAssumption, ChatTrueStep DEF ChatOf
<1> QED
  BY <1>2, <1>3 DEF ChatOf

\* Every part begins with it.
LEMMA ClientsInitially == ClientsInit => ClientsInv
<1> SUFFICES ASSUME ClientsInit PROVE ClientsInv
  OBVIOUS
<1>1. ASSUME NEW p \in GrokParts, part = p PROVE GrokOf(p)
  BY <1>1, ClientsAssumption, ClientsBegin, GrokInitially, GrokOnceInitially DEF GrokOf
<1>2. ASSUME NEW p \in SignerParts, part = p PROVE SignerInv(Case[p])
  BY <1>2, ClientsAssumption, ClientsBegin, SignerInitially
<1>3. ASSUME NEW p \in PolledParts, part = p PROVE PolledOf(p)
  <2>1. Polled(Case[p])!PolledAssumption /\ Polled(Case[p])!Init
    BY <1>3, ClientsAssumption, ClientsBegin
  <2>2. PolledInv(Case[p]) /\ Polled(Case[p])!RefusedIsFinal
    BY <2>1, PolledInitially, PolledImplies
  <2>3. p # "leonardo" => PolledTrue(Case[p])
    BY <2>1, PartsAssumption, PolledTrueInitially DEF Lasting
  <2>4. p \in {"krea", "runway"} => PolledOnce(Case[p])
    BY <2>1, PartsAssumption, PolledOnceInitially
  <2> QED
    BY <2>2, <2>3, <2>4 DEF PolledOf
<1>4. ASSUME NEW p \in OreateParts, part = p PROVE OreateOf(p)
  BY <1>4, ClientsAssumption, ClientsBegin, OreateInitially DEF OreateOf
<1>5. ASSUME NEW p \in AdobeParts, part = p PROVE AdobeOf(p)
  BY <1>5, ClientsAssumption, ClientsBegin, AdobeInitially, AdobeMoreInitially DEF AdobeOf
<1>6. ASSUME NEW p \in ChatParts, part = p PROVE ChatOf(p)
  BY <1>6, ClientsAssumption, ClientsBegin, ChatInitially DEF ChatOf
<1> QED
  BY <1>1, <1>2, <1>3, <1>4, <1>5, <1>6 DEF ClientsInv

\* And keeps it.
LEMMA ClientsStep == ClientsInv /\ [ClientsNext]_vars => ClientsInv'
<1> SUFFICES ASSUME ClientsInv, [ClientsNext]_vars PROVE ClientsInv'
  OBVIOUS
<1>0. part' = part
  BY ClientsAlone
<1>1. ASSUME NEW p \in GrokParts, part = p PROVE GrokOf(p)'
  BY <1>1, ClientsAlone, GrokOfStep DEF ClientsInv
<1>2. ASSUME NEW p \in SignerParts, part = p PROVE SignerInv(Case[p])'
  BY <1>2, ClientsAssumption, ClientsAlone, SignerStep DEF ClientsInv
<1>3. ASSUME NEW p \in PolledParts, part = p PROVE PolledOf(p)'
  BY <1>3, ClientsAlone, PolledOfStep DEF ClientsInv
<1>4. ASSUME NEW p \in OreateParts, part = p PROVE OreateOf(p)'
  BY <1>4, ClientsAlone, OreateOfStep DEF ClientsInv
<1>5. ASSUME NEW p \in AdobeParts, part = p PROVE AdobeOf(p)'
  BY <1>5, ClientsAlone, AdobeOfStep DEF ClientsInv
<1>6. ASSUME NEW p \in ChatParts, part = p PROVE ChatOf(p)'
  BY <1>6, ClientsAlone, ChatOfStep DEF ClientsInv
<1> QED
  BY <1>0, <1>1, <1>2, <1>3, <1>4, <1>5, <1>6 DEF ClientsInv

\* What it says of the accounts that are taken out of use.
LEMMA ClientsBlame == ClientsInv => BlamedRightly
<1> SUFFICES ASSUME ClientsInv PROVE BlamedRightly
  OBVIOUS
<1>1. \A p \in GrokParts : part = p => Grok(Case[p])!GrokTypeOK /\ Grok(Case[p])!MarkedIsTrue
  BY DEF ClientsInv, GrokOf, GrokInv
<1>2. /\ \A p \in PolledParts : part = p => Polled(Case[p])!PolledTypeOK
      /\ \A p \in PolledParts \ {"leonardo"} : part = p => Polled(Case[p])!MarkedIsTrue
  BY PolledImplies DEF ClientsInv, PolledOf
<1>3. /\ part = "two" => Oreate(Case.two)!OreateTypeOK /\ Oreate(Case.two)!FlaggedIsParked
      /\ part = "poor" => Oreate(Case.poor)!SunkIsSpent
  BY OreateImplies DEF ClientsInv, OreateOf, OreateParts
<1>4. /\ part = "filmed" => Adobe(Case.filmed)!ChargedIsHopeless
      /\ part = "drawn" => Adobe(Case.drawn)!AdobeTypeOK
  BY ClientsAssumption, AdobeImplies, AdobeMoreImplies DEF ClientsInv, AdobeOf, AdobeParts
<1>5. part = "image" => ChatGPT(Case.image)!ChatGPTTypeOK /\ ChatGPT(Case.image)!MarkedIsTrue
  BY ChatImplies DEF ClientsInv, ChatOf, ChatParts
<1> QED
  BY <1>1, <1>2, <1>3, <1>4, <1>5 DEF BlamedRightly

\* What it says of the renders, the refusals and the failures.
LEMMA ClientsRender == ClientsInv => RenderedOnce
<1> SUFFICES ASSUME ClientsInv PROVE RenderedOnce
  OBVIOUS
<1>1. /\ part = "video" => Grok(Case.video)!PaidOnce
      /\ \A p \in GrokParts \ {"chat"} : part = p => Grok(Case[p])!RefusedIsFinal
  BY GrokOnceImplies DEF ClientsInv, GrokOf, GrokParts
<1>2. /\ \A p \in {"krea", "runway"} : part = p => Polled(Case[p])!PaidOnce
      /\ \A p \in {"runway", "leonardo"} : part = p => Polled(Case[p])!RefusedIsFinal
  BY PolledImplies DEF ClientsInv, PolledOf, PolledParts
<1>3. /\ part = "two" => Oreate(Case.two)!BrowsersBounded /\ Oreate(Case.two)!ParkedPoolIsTried
      /\ part = "poor" => /\ Oreate(Case.poor)!PaidOnce /\ Oreate(Case.poor)!RefusedIsFinal
                          /\ Oreate(Case.poor)!FailsAfterAll
  BY OreateImplies DEF ClientsInv, OreateOf, OreateParts
<1>4. /\ part = "drawn" => /\ Adobe(Case.drawn)!RefusedIsFinal /\ Adobe(Case.drawn)!AllSamplesTaken
                           /\ Adobe(Case.drawn)!FailsAfterAll
      /\ part = "filmed" => Adobe(Case.filmed)!NoReplay
      /\ part = "transfers" => Adobe(Case.transfers)!PaidOnce
  BY ClientsAssumption, AdobeImplies, AdobeMoreImplies DEF ClientsInv, AdobeOf, AdobeParts
<1>5. /\ part = "image" => ChatGPT(Case.image)!PolicyIsFinal /\ ChatGPT(Case.image)!RefIsNotResult
      /\ part = "text" => ChatGPT(Case.text)!TextGiven /\ ChatGPT(Case.text)!FailsAfterAll
  BY ChatImplies DEF ClientsInv, ChatOf, ChatParts
<1>6. part = "cold" => Signer(Case.cold)!SignerTypeOK /\ Signer(Case.cold)!ColdStartWaits
  BY ClientsAssumption, SignerImplies DEF ClientsInv, SignerParts
<1> QED
  BY <1>1, <1>2, <1>3, <1>4, <1>5, <1>6 DEF RenderedOnce

-----------------------------------------------------------------------------
\* Whatever a provider's pool is, however often its calls fail and whatever they are answered,
\* only an account whose session, token or credits are gone is taken out of use, or one whose
\* renewed session did not come back, whose job was ended for its credits, or that was refused
\* while its render was waited for.
THEOREM Clients_BlamedRightly == ClientsSpec => []BlamedRightly
<1>1. ClientsInit => ClientsInv
  BY ClientsInitially
<1>2. ClientsInv /\ [ClientsNext]_vars => ClientsInv'
  BY ClientsStep
<1>3. ClientsInv => BlamedRightly
  BY ClientsBlame
<1> QED
  BY <1>1, <1>2, <1>3, PTL DEF ClientsSpec

\* And a request is rendered once, but for an account that was refused while its render was
\* waited for; a refused one goes to no other account, and one fails only
\* when the pool has been tried or its time is over.
THEOREM Clients_RenderedOnce == ClientsSpec => []RenderedOnce
<1>1. ClientsInit => ClientsInv
  BY ClientsInitially
<1>2. ClientsInv /\ [ClientsNext]_vars => ClientsInv'
  BY ClientsStep
<1>3. ClientsInv => RenderedOnce
  BY ClientsRender
<1> QED
  BY <1>1, <1>2, <1>3, PTL DEF ClientsSpec

=============================================================================

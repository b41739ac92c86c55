------------------------------ MODULE EmailCode ------------------------------
(***************************************************************************)
(* The e-mail code of one address and purpose: three Redis keys (the code, *)
(* the number of guesses, the cooldown of the next mail), each read and    *)
(* written by commands of its own.  Issue writes them and mails the code,  *)
(* Verify counts a guess, compares it and uses the code up.  A command may *)
(* fail, which ends its call there, and keys expire.  Codes are numbered   *)
(* in the order of issue: two equal codes are left out.                    *)
(***************************************************************************)
EXTENDS Integers, FiniteSets

CONSTANTS
  Issuers,           \* calls of SendCode
  Verifiers,         \* calls of Verify
  maxCodeAttempts,   \* guesses per code
  MaxCodes,          \* bound on the codes issued
  MaxGuesses,        \* bound on the calls of Verify
  MaxBlips           \* bound on the failing commands

\* What an instance must give the constants.
EmailCodeAssumption ==
  /\ Issuers \cap Verifiers = {}
  /\ maxCodeAttempts \in Nat \ {0} /\ MaxCodes \in Nat \ {0}
  /\ MaxGuesses \in Nat /\ MaxBlips \in Nat

VARIABLES
  cooldown,  \* whether the cooldown key is there
  code,      \* the code key: a code, 0 when it is not there
  attempts,  \* the counter key, -1 when it is not there
  lasting,   \* whether the counter key is there without a TTL
  issued,    \* the codes drawn so far
  mailed,    \* the codes whose mail went out
  issuer,    \* where each Issue is, and its code
  verifier,  \* where each Verify is, its guess, and the code it read
  guesses,   \* history: the guesses compared with each code
  early,     \* history: those of them when it got a counter of its own, -1 before
  used,      \* history: how often each code was accepted
  calls, blips

vars == <<cooldown, code, attempts, lasting, issued, mailed, issuer, verifier, guesses, early, used, calls, blips>>

Codes == 1..MaxCodes
At(pc) == [pc |-> pc, code |-> 0]
Waiting == [pc |-> "idle", guess |-> 0, stored |-> 0]

EmailCodeTypeOK ==
  /\ cooldown \in BOOLEAN /\ code \in 0..MaxCodes /\ attempts \in -1..MaxGuesses
  /\ lasting \in BOOLEAN /\ (lasting => attempts >= 0)
  /\ issued \in 0..MaxCodes /\ mailed \subseteq 1..issued /\ code <= issued
  /\ issuer \in [Issuers -> [pc : {"idle", "draw", "count", "mail"}, code : 0..MaxCodes]]
  /\ verifier \in [Verifiers -> [pc : {"idle", "read", "count", "burn", "accept"},
                                 guess : 0..MaxCodes, stored : 0..MaxCodes]]
  /\ guesses \in [Codes -> 0..MaxGuesses] /\ early \in [Codes -> -1..MaxGuesses] /\ used \in [Codes -> 0..MaxGuesses]
  /\ calls \in 0..MaxGuesses /\ blips \in 0..MaxBlips

Init ==
  /\ cooldown = FALSE /\ code = 0 /\ attempts = -1 /\ lasting = FALSE /\ issued = 0 /\ mailed = {}
  /\ issuer = [i \in Issuers |-> At("idle")]
  /\ verifier = [v \in Verifiers |-> Waiting]
  /\ guesses = [c \in Codes |-> 0] /\ early = [c \in Codes |-> -1] /\ used = [c \in Codes |-> 0]
  /\ calls = 0 /\ blips = 0

-----------------------------------------------------------------------------
\* SETNX of the cooldown: while it is there, the caller is asked to wait.
Issue(i) ==
  /\ issuer[i].pc = "idle" /\ ~cooldown
  /\ cooldown' = TRUE
  /\ issuer' = [issuer EXCEPT ![i] = At("draw")]
  /\ UNCHANGED <<code, attempts, lasting, issued, mailed, verifier, guesses, early, used, calls, blips>>

\* The code is drawn and written over the last one.
SetCode(i) ==
  /\ issuer[i].pc = "draw" /\ issued < MaxCodes
  /\ issued' = issued + 1
  /\ code' = issued + 1
  /\ issuer' = [issuer EXCEPT ![i] = [pc |-> "count", code |-> issued + 1]]
  /\ UNCHANGED <<cooldown, attempts, lasting, mailed, verifier, guesses, early, used, calls, blips>>

Fresh == 0

SetAttempts(i) ==
  /\ issuer[i].pc = "count"
  /\ attempts' = Fresh /\ lasting' = FALSE
  /\ early' = [early EXCEPT ![issuer[i].code] = guesses[issuer[i].code]]
  /\ issuer' = [issuer EXCEPT ![i].pc = "mail"]
  /\ UNCHANGED <<cooldown, code, issued, mailed, verifier, guesses, used, calls, blips>>

Mail(i) ==
  /\ issuer[i].pc = "mail"
  /\ mailed' = mailed \cup {issuer[i].code}
  /\ issuer' = [issuer EXCEPT ![i] = At("idle")]
  /\ UNCHANGED <<cooldown, code, attempts, lasting, issued, verifier, guesses, early, used, calls, blips>>

\* A command or the mail fails: the caller gets the error, what was written stays.
IssueFails(i) ==
  /\ issuer[i].pc # "idle" /\ blips < MaxBlips
  /\ blips' = blips + 1
  /\ issuer' = [issuer EXCEPT ![i] = At("idle")]
  /\ UNCHANGED <<cooldown, code, attempts, lasting, issued, mailed, verifier, guesses, early, used, calls>>

-----------------------------------------------------------------------------
\* A guess: a code that was mailed, or a wrong one (0).
Guess(v, g) ==
  /\ verifier[v].pc = "idle" /\ calls < MaxGuesses
  /\ calls' = calls + 1
  /\ verifier' = [verifier EXCEPT ![v] = [pc |-> "read", guess |-> g, stored |-> 0]]
  /\ UNCHANGED <<cooldown, code, attempts, lasting, issued, mailed, issuer, guesses, early, used, blips>>

\* GET of the code: without one the answer is no.
ReadCode(v) ==
  /\ verifier[v].pc = "read"
  /\ verifier' = [verifier EXCEPT ![v] =
       IF code = 0 THEN Waiting ELSE [@ EXCEPT !.pc = "count", !.stored = code]]
  /\ UNCHANGED <<cooldown, code, attempts, lasting, issued, mailed, issuer, guesses, early, used, calls, blips>>

\* INCR: a counter that is not there starts at one, and has no TTL.
Counted == IF attempts < 0 THEN 1 ELSE attempts + 1

Verdict(v, n) ==
  IF n > maxCodeAttempts THEN "burn"
  ELSE IF verifier[v].stored = verifier[v].guess THEN "accept" ELSE "idle"

\* The guess is counted first and then compared with the code that was read.
CountAndCompare(v) ==
  /\ verifier[v].pc = "count"
  /\ attempts' = Counted /\ lasting' = (lasting \/ attempts < 0)
  /\ LET next == Verdict(v, Counted) IN
     /\ guesses' = IF next = "burn" THEN guesses ELSE [guesses EXCEPT ![verifier[v].stored] = @ + 1]
     /\ verifier' = [verifier EXCEPT ![v] = IF next = "idle" THEN Waiting ELSE [@ EXCEPT !.pc = next]]
  /\ UNCHANGED <<cooldown, code, issued, mailed, issuer, early, used, calls, blips>>

\* DEL of both keys, whichever code is there by now.
Gone == 0

Delete(v) ==
  /\ verifier[v].pc \in {"burn", "accept"}
  /\ code' = Gone
  /\ attempts' = -1 /\ lasting' = FALSE
  /\ used' = IF verifier[v].pc = "accept" THEN [used EXCEPT ![verifier[v].stored] = @ + 1] ELSE used
  /\ verifier' = [verifier EXCEPT ![v] = Waiting]
  /\ UNCHANGED <<cooldown, issued, mailed, issuer, guesses, early, calls, blips>>

VerifyFails(v) ==
  /\ verifier[v].pc # "idle" /\ blips < MaxBlips
  /\ blips' = blips + 1
  /\ verifier' = [verifier EXCEPT ![v] = Waiting]
  /\ UNCHANGED <<cooldown, code, attempts, lasting, issued, mailed, issuer, guesses, early, used, calls>>

-----------------------------------------------------------------------------
\* 120 seconds pass; the commands of the call that set the key take seconds.
CooldownEnds ==
  /\ cooldown /\ \A i \in Issuers : issuer[i].pc \notin {"draw", "count"}
  /\ cooldown' = FALSE
  /\ UNCHANGED <<code, attempts, lasting, issued, mailed, issuer, verifier, guesses, early, used, calls, blips>>

\* Six minutes pass.
CodeExpires ==
  /\ code # 0 /\ code' = 0
  /\ UNCHANGED <<cooldown, attempts, lasting, issued, mailed, issuer, verifier, guesses, early, used, calls, blips>>

\* The counter was written after its code, for as long: it outlives it, unless
\* a new code is about to get its own counter.
AttemptsExpire ==
  /\ attempts >= 0 /\ ~lasting /\ (code = 0 \/ \E i \in Issuers : issuer[i].pc = "count")
  /\ attempts' = -1 /\ UNCHANGED lasting
  /\ UNCHANGED <<cooldown, code, issued, mailed, issuer, verifier, guesses, early, used, calls, blips>>

Next ==
  \/ \E i \in Issuers : Issue(i) \/ SetCode(i) \/ SetAttempts(i) \/ Mail(i) \/ IssueFails(i)
  \/ \E v \in Verifiers :
       \/ \E g \in mailed \cup {0} : Guess(v, g)
       \/ ReadCode(v) \/ CountAndCompare(v) \/ Delete(v) \/ VerifyFails(v)
  \/ CooldownEnds \/ CodeExpires \/ AttemptsExpire

Spec == Init /\ [][Next]_vars

-----------------------------------------------------------------------------
\* Verify: "Correct code: one-time use".  No code is accepted twice.
UsedOnce == \A c \in Codes : used[c] <= 1

\* Verify deletes the code it accepts before it answers: whoever reads the key
\* from then on does not find that code, so that only verifications that had
\* read it before can accept it once more, each of them once.
AcceptedIsGone == \A c \in Codes : used[c] > 0 => code # c /\ used[c] <= Cardinality(Verifiers)

\* What a code has stood before it got a counter of its own.
Before(c) == IF early[c] < 0 THEN guesses[c] ELSE early[c]

\* maxCodeAttempts: a code stands the guesses of its counter, and those of the n
\* verifications under way when that goes.  Before it was written the code stands
\* the guesses of the last code's counter and, when that has expired, of one that
\* a guess has started.
FewGuesses(n) ==
  \A c \in Codes : /\ Before(c) <= 2 * maxCodeAttempts + n - 1
                   /\ guesses[c] - Before(c) <= maxCodeAttempts + n

\* Only a code that was mailed is accepted.
AcceptedWasMailed == \A c \in Codes : used[c] > 0 => c \in mailed

\* maxCodeAttempts: "only this many tries per send".
FewTriesPerSend == \A c \in Codes : guesses[c] <= maxCodeAttempts

\* Verify burns the code it has checked: a newer code stays for its own guesses.
NewCodeStays ==
  [][\A v \in Verifiers :
       verifier[v].pc \in {"burn", "accept"} /\ verifier'[v].pc = "idle" /\ code' # code
         => code = verifier[v].stored]_vars
=============================================================================

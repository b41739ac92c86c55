---------------------------- MODULE AccountImport ----------------------------
(***************************************************************************)
(* The import of one upstream account into a pool.  The handler lands a    *)
(* pending row at once; a background worker, one of a few that run at a    *)
(* time, probes the credential and writes the verdict.  The maintenance    *)
(* sweep probes again what is pending for too long, in two of the pools.   *)
(* An administrator imports the account several times, each time with      *)
(* another credential, and deletes its rows.                               *)
(***************************************************************************)
EXTENDS Integers, FiniteSets, FiniteSetsExt

CONSTANTS
  Pools,      \* the pools to look at; the account belongs to one of them
  Imports,    \* 1..n: the imports in the order they come; import i carries credential i
  Good,       \* the credentials the upstream accepts
  Reprobes,   \* workers of the sweep
  Slots,      \* capacity of sem
  Overlap,    \* whether an import may come while another or its probe is under way
  Blips,      \* whether the network may fail
  MaxCrashes  \* bound on the restarts

AllPools == {"chatgpt", "runway", "leonardo", "krea", "imagine", "grok", "oreate", "adobe"}

\* What an instance must give the constants.
ImportAssumption ==
  /\ Pools \subseteq AllPools
  /\ IsFiniteSet(Imports) /\ Imports = 1..Cardinality(Imports) /\ Good \subseteq Imports
  /\ Imports \cap Reprobes = {}
  /\ Slots \in Nat \ {0} /\ Overlap \in BOOLEAN /\ Blips \in BOOLEAN /\ MaxCrashes \in Nat

VARIABLES
  pool,     \* the pool of the account
  rows,     \* the rows of the account, by id
  profile,  \* the cookie of the refresh profile of each id, or 0
  import,   \* where the handler of each import is
  worker,   \* where the background worker of each import or reprobe is
  paid,     \* history: first images paid for, per row that is there
  crashes

vars == <<pool, rows, profile, import, worker, paid, crashes>>

Ids == Imports  \* an import mints at most one id
Absent == [there |-> FALSE, value |-> 0, status |-> "none", dead |-> FALSE, claimed |-> FALSE]
Off == [pc |-> "off", id |-> 0, cred |-> 0, answer |-> "none", fresh |-> FALSE]
Answers == {"ok", "empty", "auth", "blip"}

ImportTypeOK ==
  /\ pool \in Pools
  /\ rows \in [Ids -> [there : BOOLEAN, value : {0} \cup Imports,
                       status : {"none", "pending", "active", "quota", "disabled"},
                       dead : BOOLEAN, claimed : BOOLEAN]]
  /\ \A id \in Ids : rows[id].there <=> rows[id].status # "none"
  /\ profile \in [Ids -> {0} \cup Imports]
  /\ import \in [Imports -> [pc : {"new", "found", "done"}, id : {0} \cup Ids]]
  /\ worker \in [Imports \cup Reprobes ->
                  [pc : {"off", "queued", "probing", "claim", "claiming"}, id : {0} \cup Ids,
                   cred : {0} \cup Imports, answer : Answers \cup {"none"}, fresh : BOOLEAN]]
  /\ paid \in [Ids -> Nat] /\ crashes \in 0..MaxCrashes

Init ==
  /\ pool \in Pools
  /\ rows = [id \in Ids |-> Absent]
  /\ profile = [id \in Ids |-> 0]
  /\ import = [i \in Imports |-> [pc |-> "new", id |-> 0]]
  /\ worker = [w \in Imports \cup Reprobes |-> Off]
  /\ paid = [id \in Ids |-> 0]
  /\ crashes = 0

There == {id \in Ids : rows[id].there}

-----------------------------------------------------------------------------
(***************************************************************************)
(* The imports.  What each does to a row that is there:                    *)
(***************************************************************************)
ImportChatGPTToken(r, k) == [r EXCEPT !.value = k, !.status = "pending", !.dead = FALSE]
ImportRunwayToken(r, k) == [r EXCEPT !.value = k, !.status = "pending"]
ImportLeonardoCookie(r, k) == [r EXCEPT !.value = k, !.status = "pending"]
ImportKreaCookie(r, k) == [r EXCEPT !.value = k, !.status = "pending"]
ImportImagineToken(r, k) == [r EXCEPT !.value = k, !.status = "pending"]
ImportGrokToken(r, k) == [r EXCEPT !.value = k, !.status = "pending"]

\* The metadata is replaced, the mark of the first image with it.
ImportOreateAccount(r, k) ==
  [r EXCEPT !.value = k, !.status = "pending", !.dead = FALSE, !.claimed = FALSE]

\* The value is left to the worker.
ImportAdobeCookie(r) == [r EXCEPT !.status = "pending"]

Reimport(r, k) ==
  CASE pool = "chatgpt" -> ImportChatGPTToken(r, k)
    [] pool = "runway" -> ImportRunwayToken(r, k)
    [] pool = "leonardo" -> ImportLeonardoCookie(r, k)
    [] pool = "krea" -> ImportKreaCookie(r, k)
    [] pool = "imagine" -> ImportImagineToken(r, k)
    [] pool = "grok" -> ImportGrokToken(r, k)
    [] pool = "oreate" -> ImportOreateAccount(r, k)
    [] pool = "adobe" -> ImportAdobeCookie(r)

createToken(k) ==
  [there |-> TRUE, value |-> IF pool = "adobe" THEN 0 ELSE k, status |-> "pending",
   dead |-> FALSE, claimed |-> FALSE]

\* The row the import will write: by email where the pool knows it, else the
\* one the administrator names, or none.
GetByPoolEmail(i) ==
  IF pool \in {"chatgpt", "runway", "krea", "imagine", "oreate"}
  THEN IF There = {} THEN {0} ELSE There
  ELSE {0} \cup There

Quiet == \A w \in Imports \cup Reprobes : worker[w].pc = "off"

Find(i) ==
  /\ import[i].pc = "new"
  /\ \A j \in Imports : j < i => import[j].pc # "new"
  /\ ~Overlap => Quiet /\ \A j \in Imports : j < i => import[j].pc = "done"
  /\ \E id \in GetByPoolEmail(i) :
       import' = [import EXCEPT ![i] = [pc |-> "found", id |-> IF id = 0 THEN i ELSE id]]
  /\ UNCHANGED <<pool, rows, profile, worker, paid, crashes>>

\* The row is created; with a duplicate key it is the update of a known one.
Fresh(id) == ~rows[id].there

\* The row lands, the worker starts.  Adobe's refresh profile is created before
\* the row; one that is there is left as it is.
Land(i) ==
  /\ import[i].pc = "found"
  /\ LET id == import[i].id IN
     /\ rows' = [rows EXCEPT ![id] = IF @.there THEN Reimport(@, i) ELSE createToken(i)]
     /\ profile' = IF pool = "adobe" /\ profile[id] = 0 THEN [profile EXCEPT ![id] = i] ELSE profile
     /\ worker' = [worker EXCEPT ![i] = [pc |-> "queued", id |-> id, cred |-> i,
                                         answer |-> "none", fresh |-> Fresh(id)]]
  /\ import' = [import EXCEPT ![i].pc = "done"]
  /\ UNCHANGED <<pool, paid, crashes>>

-----------------------------------------------------------------------------
(***************************************************************************)
(* The workers.  What each makes of the upstream's answer:                 *)
(***************************************************************************)
Active == [status |-> "active", dead |-> FALSE]
Limited == [status |-> "quota", dead |-> FALSE]
Dead == [status |-> "disabled", dead |-> TRUE]

\* Only a definite zero sinks the account; even a refusal leaves it active.
checkPendingChatGPT(a) == IF a = "empty" THEN Limited ELSE Active

checkPendingRunway(a) == IF a = "auth" THEN Dead ELSE Active
checkPendingLeonardo(a) == IF a = "auth" THEN Dead ELSE Active
checkPendingKrea(a) == IF a = "auth" THEN Dead ELSE Active
checkPendingImagine(a) == IF a = "auth" THEN Dead ELSE Active
checkPendingGrok(a) == IF a = "auth" THEN Dead ELSE Active

checkPendingOreate(a) ==
  CASE a = "auth" -> Dead [] a = "empty" -> Limited [] OTHER -> Active

\* Any failure of the exchange of the cookie.
checkPendingAdobe(a) == IF a \in {"auth", "blip"} THEN Dead ELSE Active

Verdict(a) ==
  CASE pool = "chatgpt" -> checkPendingChatGPT(a)
    [] pool = "runway" -> checkPendingRunway(a)
    [] pool = "leonardo" -> checkPendingLeonardo(a)
    [] pool = "krea" -> checkPendingKrea(a)
    [] pool = "imagine" -> checkPendingImagine(a)
    [] pool = "grok" -> checkPendingGrok(a)
    [] pool = "oreate" -> checkPendingOreate(a)
    [] pool = "adobe" -> checkPendingAdobe(a)

InSem == {w \in Imports \cup Reprobes : worker[w].pc \in {"probing", "claiming"}}

Acquire(w) ==
  /\ worker[w].pc \in {"queued", "claim"} /\ Cardinality(InSem) < Slots
  /\ worker' = [worker EXCEPT ![w].pc = IF @ = "queued" THEN "probing" ELSE "claiming"]
  /\ UNCHANGED <<pool, rows, profile, import, paid, crashes>>

\* The upstream answers; adobe's worker writes the token of the exchange.
Probe(w) ==
  /\ worker[w].pc = "probing" /\ worker[w].answer = "none"
  /\ \E a \in Answers :
       /\ a = "auth" => worker[w].cred \notin Good
       /\ a \in {"ok", "empty"} => worker[w].cred \in Good
       /\ a = "blip" => Blips
       /\ worker' = [worker EXCEPT ![w].answer = a]
       /\ rows' = IF pool = "adobe" /\ a \in {"ok", "empty"} /\ rows[worker[w].id].there
                  THEN [rows EXCEPT ![worker[w].id].value = worker[w].cred]
                  ELSE rows
  /\ UNCHANGED <<pool, profile, import, paid, crashes>>

finishPending(r, v) ==
  IF r.there THEN [r EXCEPT !.status = v.status, !.dead = v.dead] ELSE r

\* The verdict is written, whatever has become of the row; the worker of a new
\* oreate row goes on to claim its first image.
Finish(w) ==
  /\ worker[w].pc = "probing" /\ worker[w].answer # "none"
  /\ LET id == worker[w].id  a == worker[w].answer IN
     /\ rows' = [rows EXCEPT ![id] = finishPending(@, Verdict(a))]
     /\ worker' = [worker EXCEPT ![w] =
          IF pool = "oreate" /\ @.fresh /\ a # "auth" THEN [@ EXCEPT !.pc = "claim"] ELSE Off]
  /\ UNCHANGED <<pool, profile, import, paid, crashes>>

\* claimOreateFirstImage: the attempt is recorded before the image is paid for.
Claim(w) ==
  /\ worker[w].pc = "claiming"
  /\ LET id == worker[w].id
         go == rows[id].there /\ ~rows[id].dead /\ ~rows[id].claimed IN
     /\ rows' = IF go THEN [rows EXCEPT ![id].claimed = TRUE] ELSE rows
     /\ paid' = IF go THEN [paid EXCEPT ![id] = @ + 1] ELSE paid
  /\ worker' = [worker EXCEPT ![w] = Off]
  /\ UNCHANGED <<pool, profile, import, crashes>>

-----------------------------------------------------------------------------
ReprobeStalePendingChatGPT(id) ==
  pool = "chatgpt" /\ rows[id].status = "pending" /\ ~rows[id].dead /\ rows[id].value # 0

ReprobeStalePendingAdobe(id) ==
  pool = "adobe" /\ rows[id].status = "pending" /\ ~rows[id].dead /\ profile[id] # 0

\* Ten minutes later the sweep probes again, with the stored credential.  The
\* first worker may still be in the queue.
Reprobe(w) ==
  /\ w \in Reprobes /\ worker[w].pc = "off"
  /\ \E id \in Ids :
       /\ ReprobeStalePendingChatGPT(id) \/ ReprobeStalePendingAdobe(id)
       /\ worker' = [worker EXCEPT ![w] =
            [pc |-> "queued", id |-> id, cred |-> IF pool = "adobe" THEN profile[id] ELSE rows[id].value,
             answer |-> "none", fresh |-> FALSE]]
  /\ UNCHANGED <<pool, rows, profile, import, paid, crashes>>

\* Delete, DeleteBulk: the row and then its refresh profile.
Delete(id) ==
  /\ rows[id].there
  /\ rows' = [rows EXCEPT ![id] = Absent]
  /\ profile' = [profile EXCEPT ![id] = 0]
  /\ paid' = [paid EXCEPT ![id] = 0]
  /\ UNCHANGED <<pool, import, worker, crashes>>

\* The process ends and starts again; an import that has not landed has failed.
Crash ==
  /\ crashes < MaxCrashes /\ crashes' = crashes + 1
  /\ worker' = [w \in Imports \cup Reprobes |-> Off]
  /\ import' = [i \in Imports |-> IF import[i].pc = "found" THEN [import[i] EXCEPT !.pc = "done"] ELSE import[i]]
  /\ UNCHANGED <<pool, rows, profile, paid>>

Work(w) == Acquire(w) \/ Probe(w) \/ Finish(w) \/ Claim(w)

Next ==
  \/ \E i \in Imports : Find(i) \/ Land(i)
  \/ \E w \in Imports \cup Reprobes : Work(w) \/ Reprobe(w)
  \/ \E id \in Ids : Delete(id)
  \/ Crash

Spec == Init /\ [][Next]_vars

\* The goroutines run, each call has a timeout, the semaphore is handed on to
\* who waits for it, and the sweep comes every minute.
FairSpec ==
  /\ Spec
  /\ \A w \in Imports \cup Reprobes :
       SF_vars(Acquire(w)) /\ WF_vars(Probe(w) \/ Finish(w) \/ Claim(w)) /\ WF_vars(Reprobe(w))
  /\ \A i \in Imports : WF_vars(Land(i))

-----------------------------------------------------------------------------
Settled == Quiet /\ \A i \in Imports : import[i].pc # "found"

\* finishPending: a network failure, or the verdict on an earlier credential,
\* does not sideline an account whose credential is good.
GoodNotSidelined ==
  Settled => \A id \in There :
    rows[id].value \in Good /\ rows[id].status # "pending" => ~rows[id].dead /\ rows[id].status # "disabled"

\* An account of a pool that knows its email has one row.
OneRowPerEmail ==
  pool \in {"chatgpt", "runway", "krea", "imagine", "oreate"} => Cardinality(There) <= 1

\* ImportOreateAccount: the first image of a known account is not paid for
\* again, whatever is imported and wherever the process ends.
FirstImageOnce == \A id \in Ids : paid[id] <= 1

\* A row does not stay pending.
PendingEnds == \A id \in Ids : (rows[id].status = "pending") ~> (rows[id].status # "pending")
=============================================================================

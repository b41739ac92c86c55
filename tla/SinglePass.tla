----------------------------- MODULE SinglePass -----------------------------
(***************************************************************************)
(* The pools that do not use the retrying driver (service/v1.go): runway,  *)
(* grok and the custom upstreams go through a snapshot of their accounts   *)
(* once.  No credits are reserved: an account is skipped when its cached   *)
(* balance is known to be spent, and the upstream has the last word.  A    *)
(* custom account that serves a model takes it over from its own provider. *)
(* Slots and marks are written with the context of the generation: they    *)
(* may fail, and do once that is cancelled.                                *)
(***************************************************************************)
EXTENDS Integers, FiniteSets, Sequences, Functions

CONSTANTS
  Requests, Accounts, Models,
  PoolOf,       \* [Accounts -> {"runway", "grok", "custom"}]
  ModelOf,      \* [Requests -> Models]
  NativeOf,     \* [Models -> {"runway", "grok"}]
  Serves,       \* models a custom account lists; {} means all
  PinOf,        \* the account an administrator tests, or 0
  Concurrency,  \* configured jobs of a custom account; 0 means unset
  Credits       \* generations the upstream grants an account at first

Pools == {"runway", "grok", "custom"}
grokConcurrencyPerAccount == 10
Unknown == -1

\* What an instance must give the constants.
SinglePassAssumption ==
  /\ Accounts \subseteq Nat \ {0} /\ IsFiniteSet(Accounts)
  /\ PoolOf \in [Accounts -> Pools]
  /\ ModelOf \in [Requests -> Models]
  /\ NativeOf \in [Models -> {"runway", "grok"}]
  /\ Serves \in [Accounts -> SUBSET Models]
  /\ PinOf \in [Requests -> Accounts \cup {0}]
  /\ Concurrency \in [Accounts -> Nat]
  /\ Credits \in [Accounts -> Nat]

VARIABLES
  status,    \* of the account row: "active", "quota", "disabled" (then dead too)
  cached,    \* its cached balance, or Unknown
  credit,    \* what the upstream would still grant
  holders,   \* its slot set
  req,       \* where each generation is
  gone,      \* generations whose context is cancelled
  known,     \* history: accounts some generation has marked as spent, not topped up since
  unheard    \* history: generations of which a command did not get through to Redis

vars == <<status, cached, credit, holders, req, gone, known, unheard>>

Fresh == [pc |-> "start", list |-> << >>, i |-> 1, err |-> "", tried |-> {}]

SinglePassTypeOK ==
  /\ status \in [Accounts -> {"active", "quota", "disabled"}]
  /\ \A a \in Accounts : cached[a] \in {Unknown} \cup 0..Credits[a]
  /\ \A a \in Accounts : credit[a] \in 0..Credits[a]
  /\ holders \in [Accounts -> SUBSET Requests]
  /\ known \subseteq Accounts
  /\ gone \subseteq Requests /\ unheard \subseteq Requests
  /\ \A r \in Requests :
       /\ req[r].pc \in Pools \cup {"start", "round", "trying", "ended"}
       /\ req[r].err \in {"", "ok", "no_account", "full", "auth", "quota", "temp", "param"}
       /\ req[r].tried \subseteq Accounts
       /\ req[r].i \in 1..Len(req[r].list) + 1

Init ==
  /\ status = [a \in Accounts |-> "active"]
  /\ cached = [a \in Accounts |-> Unknown]
  /\ credit = Credits
  /\ holders = [a \in Accounts |-> {}]
  /\ req = [r \in Requests |-> Fresh]
  /\ gone = {} /\ known = {} /\ unheard = {}

-----------------------------------------------------------------------------
\* An empty list of models serves every id.
customAccountServes(a, m) ==
  PoolOf[a] = "custom" /\ status[a] = "active" /\ (Serves[a] = {} \/ m \in Serves[a])

customActive(m) == {a \in Accounts : customAccountServes(a, m)}

effectiveProvider(m) == IF customActive(m) # {} THEN "custom" ELSE NativeOf[m]

\* Accounts known to be out of credits are left out; unknown is let in.
nativeActive(pool) ==
  {a \in Accounts : PoolOf[a] = pool /\ status[a] = "active" /\ cached[a] # 0}

pinTestAccount(items, active, r) ==
  IF PinOf[r] = 0 THEN active ELSE {PinOf[r]} \cap items

InPool(pool) == {a \in Accounts : PoolOf[a] = pool}

\* The provider is chosen first, its accounts are listed afterwards; a custom
\* account can only be pinned while it is usable.
Route(r) ==
  LET pool == effectiveProvider(ModelOf[r]) IN
  /\ req[r].pc = "start"
  /\ req' = [req EXCEPT ![r].pc = pool]
  /\ UNCHANGED <<status, cached, credit, holders, gone, known, unheard>>

List(r, pool) ==
  LET active == IF pool = "custom" THEN customActive(ModelOf[r]) ELSE nativeActive(pool)
      S == pinTestAccount(IF pool = "custom" THEN active ELSE InPool(pool), active, r) IN
  /\ req[r].pc = pool
  /\ \E order \in Bijection(1..Cardinality(S), S) :
       req' = [req EXCEPT ![r].pc = IF S = {} THEN "ended" ELSE "round",
                          ![r].list = order,
                          ![r].err = IF S = {} THEN "no_account" ELSE ""]
  /\ UNCHANGED <<status, cached, credit, holders, gone, known, unheard>>

-----------------------------------------------------------------------------
Current(r) == req[r].list[req[r].i]

\* One job per runway account, ten per grok account, the configured number
\* per custom account (one by default).
Slots(a) ==
  CASE PoolOf[a] = "runway" -> 1
    [] PoolOf[a] = "grok" -> grokConcurrencyPerAccount
    [] OTHER -> IF Concurrency[a] > 0 THEN Concurrency[a] ELSE 1

Acquire(r) ==
  /\ req[r].pc = "round" /\ req[r].i <= Len(req[r].list)
  /\ r \notin gone /\ Cardinality(holders[Current(r)]) < Slots(Current(r))
  /\ holders' = [holders EXCEPT ![Current(r)] = @ \cup {r}]
  /\ req' = [req EXCEPT ![r].pc = "trying", ![r].tried = @ \cup {Current(r)}]
  /\ UNCHANGED <<status, cached, credit, gone, known, unheard>>

\* The command fails, because Redis does or the context is cancelled: the
\* account is tried without a slot.
AcquireOpen(r) ==
  /\ req[r].pc = "round" /\ req[r].i <= Len(req[r].list)
  /\ req' = [req EXCEPT ![r].pc = "trying", ![r].tried = @ \cup {Current(r)}]
  /\ unheard' = unheard \cup {r}
  /\ UNCHANGED <<status, cached, credit, holders, gone, known>>

After(i) == i + 1

Busy(r) ==
  /\ req[r].pc = "round" /\ req[r].i <= Len(req[r].list)
  /\ r \notin gone /\ Cardinality(holders[Current(r)]) >= Slots(Current(r))
  /\ req' = [req EXCEPT ![r].i = After(@)]
  /\ UNCHANGED <<status, cached, credit, holders, gone, known, unheard>>

\* The deferred acctRelease, or one that does not get through.
Released(r) ==
  \/ /\ r \notin gone
     /\ holders' = [holders EXCEPT ![Current(r)] = @ \ {r}]
     /\ UNCHANGED unheard
  \/ unheard' = unheard \cup {r} /\ UNCHANGED holders

NextAccount(r, e) == [req EXCEPT ![r].pc = "round", ![r].err = e, ![r].i = After(@)]

\* Auth, quota and temporary errors move on; the request's own fault ends it.
Failover(r, e) ==
  IF e = "param" THEN [req EXCEPT ![r].pc = "ended", ![r].err = e] ELSE NextAccount(r, e)

\* The upstream delivers, and charges its own account; the cached balance is
\* not touched.
Success(r) ==
  LET a == Current(r) IN
  /\ req[r].pc = "trying"
  /\ credit[a] > 0
  /\ credit' = [credit EXCEPT ![a] = @ - 1]
  /\ req' = [req EXCEPT ![r].pc = "ended", ![r].err = "ok"]
  /\ Released(r)
  /\ UNCHANGED <<status, cached, gone, known>>

\* markTokenFailure: runway turns quota into a dead login; a custom account
\* waits; grok is left as it is.
Marked(a, e) ==
  CASE PoolOf[a] = "runway" /\ e \in {"auth", "quota"} -> "disabled"
    [] PoolOf[a] = "custom" /\ e = "quota" -> "quota"
    [] OTHER -> status[a]

\* The upstream refuses.  The error of the mark is dropped.
Refused(r, e, written) ==
  LET a == Current(r) IN
  /\ req[r].pc = "trying"
  /\ e = "quota" => credit[a] = 0
  /\ e # "quota" => credit[a] > 0
  /\ written => r \notin gone
  /\ status' = IF written THEN [status EXCEPT ![a] = Marked(a, e)] ELSE status
  /\ known' = IF e = "quota" /\ written THEN known \cup {a} ELSE known
  /\ req' = Failover(r, e)
  /\ Released(r)
  /\ UNCHANGED <<cached, credit, gone>>

LastError(r) == IF req[r].err = "" THEN "full" ELSE req[r].err

\* The last error, or "full" when every account was busy.
LastWord(r) == LastError(r)

Exhausted(r) ==
  /\ req[r].pc = "round" /\ req[r].i > Len(req[r].list)
  /\ req' = [req EXCEPT ![r].pc = "ended", ![r].err = LastWord(r)]
  /\ UNCHANGED <<status, cached, credit, holders, gone, known, unheard>>

-----------------------------------------------------------------------------
\* The work deadline passes or the sweep cancels the generation.
Cancel(r) ==
  /\ req[r].pc = "trying" /\ r \notin gone
  /\ gone' = gone \cup {r}
  /\ UNCHANGED <<status, cached, credit, holders, req, known, unheard>>

\* A slot whose release did not get through expires; it outlasts any work.
ExpireSlot(r, a) ==
  /\ r \in holders[a] /\ ~(req[r].pc = "trying" /\ Current(r) = a)
  /\ holders' = [holders EXCEPT ![a] = @ \ {r}]
  /\ UNCHANGED <<status, cached, credit, req, gone, known, unheard>>

\* A quota probe writes the real balance.
Probe(a) ==
  /\ cached' = [cached EXCEPT ![a] = credit[a]]
  /\ UNCHANGED <<status, credit, holders, req, gone, known, unheard>>

\* RecoverQuota: the reset time of a custom account passes.
Recover(a) ==
  /\ PoolOf[a] = "custom" /\ status[a] = "quota"
  /\ status' = [status EXCEPT ![a] = "active"]
  /\ credit' = [credit EXCEPT ![a] = Credits[a]]
  /\ known' = known \ {a}
  /\ UNCHANGED <<cached, holders, req, gone, unheard>>

Step(r) ==
  \/ Route(r) \/ Acquire(r) \/ AcquireOpen(r) \/ Busy(r) \/ Success(r) \/ Exhausted(r)
  \/ \E pool \in Pools : List(r, pool)
  \/ \E e \in {"auth", "quota", "temp", "param"}, written \in BOOLEAN : Refused(r, e, written)

Next ==
  \/ \E r \in Requests : Step(r) \/ Cancel(r)
  \/ \E a \in Accounts : Probe(a) \/ Recover(a) \/ \E r \in Requests : ExpireSlot(r, a)

Spec == Init /\ [][Next]_vars
FairSpec == Spec /\ \A r \in Requests : WF_vars(Step(r))

-----------------------------------------------------------------------------
Ended(r, e) == req[r].pc = "ended" /\ req[r].err = e

\* A generation is told that the pool is full only if no account was tried.
FullMeansUntried == \A r \in Requests : Ended(r, "full") => req[r].tried = {}

\* acctAcquire, acctRelease: a generation whose commands reach Redis holds the slot
\* of the account it is trying and no other, and what the others leave or take
\* never makes more slots than an account has (a runway account has one).
SlotsMatchJobs ==
  \A a \in Accounts :
    /\ \A r \in Requests \ unheard : r \in holders[a] <=> req[r].pc = "trying" /\ Current(r) = a
    /\ Cardinality(holders[a]) <= Slots(a)

\* A runway account marked as out of credits is not chosen by a later listing
\* (administrators may pin it), and a custom one only after its reset.
LeavesSpentOut ==
  \A r \in Requests, a \in Accounts :
    /\ a \in known /\ PoolOf[a] # "grok" /\ PinOf[r] = 0
    /\ req[r].pc \in Pools /\ req'[r].pc = "round"
    => a \notin Range(req'[r].list)

\* v1.go, generateRunwayVideo: "1 concurrent job per account"; in general, no more
\* than it has slots.
JobsFitSlots ==
  \A a \in Accounts : Cardinality({r \in Requests : req[r].pc = "trying" /\ Current(r) = a}) <= Slots(a)

\* v1.go, generateGrokVideo: "treat an out-of-credits / auth failure as a dead
\* account".
SpentGrokLeftOut ==
  [][\A r \in Requests, a \in Accounts :
       /\ a \in known /\ PoolOf[a] = "grok" /\ PinOf[r] = 0
       /\ req[r].pc \in Pools /\ req'[r].pc = "round"
       => a \notin Range(req'[r].list)]_vars

\* README: a temporary error is retried on the same account.
SameAccountRetry ==
  [][\A r \in Requests :
       req[r].pc = "trying" /\ req'[r].err = "temp" => req'[r].i = req[r].i]_vars

\* Every generation ends: it goes through the accounts once.
EveryRequestEnds == \A r \in Requests : <>(req[r].pc = "ended")
=============================================================================

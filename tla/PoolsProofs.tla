---------------------------- MODULE PoolsProofs ----------------------------
(***************************************************************************)
(* Proofs about MCPools, for any accounts, generations, probers, costs,    *)
(* floors and starting balances: what the holds, returns and overwrites of *)
(* an account's credits leave on its row; what a generation holds, cools   *)
(* and is told while it looks for an account, in one pass or many.         *)
(***************************************************************************)
EXTENDS StayProofs, Sequences, FiniteSetTheorems, TLAPS

-----------------------------------------------------------------------------
(* An instance is about one part, whose component's variables change only  *)
(* by its own steps.                                                       *)

\* The part is never changed, and nobody else touches its variables.
LEMMA PartsAlone ==
  ASSUME [PoolsNext]_vars
  PROVE  /\ part' = part
         /\ part = "held" => [Hold(Case.held)!Next]_holdVars
         /\ part = "sunk" => [Hold(Case.sunk)!Next]_holdVars
         /\ part = "alone" => [Hold(Case.alone)!Next]_holdVars
<1>1. CASE UNCHANGED vars
  BY <1>1 DEF vars, generationVars
<1>2. CASE PoolsNext
  BY <1>2 DEF PoolsNext, OfFailover, OfPass, OfHold, OfCredential, OfActivation, OfImport, OfCookie,
      OfSweep,
    generationVars
<1> QED
  BY <1>1, <1>2

-----------------------------------------------------------------------------
(* Credits that are held.                                                  *)

Statuses == {"active", "quota", "disabled"}
Gens(c) ==
  [pc : {"start", "listed", "picked", "held", "served", "refused", "fetched", "viewed", "ended"},
   list : SUBSET c.accounts, preferred : SUBSET c.accounts, acct : c.accounts \cup {0},
   held : BOOLEAN, seen : Int, view : Statuses, end : {"", "ok", "no_account", "quota", "temp", "auth"}]
Probes(c) ==
  [pc : {"idle", "fetch", "view", "write"}, acct : c.accounts \cup {0}, seen : Int, view : Statuses]

\* A generation at work is on an account, and what it or a probe has read is a balance.
OnAccount(c, g) ==
  /\ g.pc \in {"picked", "held", "served", "refused", "fetched", "viewed"} => g.acct \in c.accounts
  /\ g.pc \in {"fetched", "viewed"} => g.seen \in Nat
  /\ g.pc = "start" => g.acct = 0
ProbesAccount(c, q) ==
  /\ q.pc # "idle" => q.acct \in c.accounts
  /\ q.pc \in {"view", "write"} => q.seen \in Nat

GenTypes(c) ==
  /\ gen \in [c.requests -> Gens(c)]
  /\ \A r \in c.requests : OnAccount(c, gen[r])
ProbeTypes(c) ==
  /\ probe \in [c.probers -> Probes(c)]
  /\ \A p \in c.probers : ProbesAccount(c, probe[p])
RowTypes(c) ==
  /\ holdStatus \in [c.accounts -> Statuses]
  /\ rem \in [c.accounts -> Int] /\ real \in [c.accounts -> Nat]
  /\ marker \in [c.accounts -> {"none", "past", "future"}]
  /\ spam \subseteq c.accounts /\ cancels \in 0..c.maxCancels
  /\ holdSweep \in [pc : {"idle", "recover", "roll"}, todo : SUBSET c.accounts]
HoldTypes(c) == RowTypes(c) /\ GenTypes(c) /\ ProbeTypes(c)

\* One generation moves.
LEMMA GenMoves ==
  ASSUME NEW CONSTANT c, GenTypes(c), NEW r \in c.requests, NEW g,
         gen' = [gen EXCEPT ![r] = g], g \in Gens(c), OnAccount(c, g)
  PROVE  GenTypes(c)'
BY DEF GenTypes

\* At first the types hold and nobody has read anything.
LEMMA HoldInitially ==
  ASSUME NEW CONSTANT c, Hold(c)!QuotaHoldAssumption, Hold(c)!Init
  PROVE  HoldTypes(c) /\ Hold(c)!NeverNegative
<1>1. gen = [r \in c.requests |-> Hold(c)!Nobody] /\ Hold(c)!Nobody \in Gens(c)
  <2>1. {} \in SUBSET c.accounts /\ -100 \in Int
    OBVIOUS
  <2>2. Hold(c)!Nobody \in Gens(c)
    BY <2>1 DEF Hold!Nobody, Gens, Hold!Unknown, Statuses
  <2> QED
    BY <2>2 DEF Hold!Init
<1>2. probe = [p \in c.probers |-> Hold(c)!Idle] /\ Hold(c)!Idle \in Probes(c)
  BY DEF Hold!Init, Hold!Idle, Probes, Hold!Unknown, Statuses
<1>3. GenTypes(c) /\ ProbeTypes(c)
  BY <1>1, <1>2 DEF GenTypes, ProbeTypes, OnAccount, ProbesAccount, Hold!Nobody, Hold!Idle
<1>4. real \in [c.accounts -> Nat] /\ rem \in [c.accounts -> Int]
  BY DEF Hold!QuotaHoldAssumption, Hold!Init, Hold!Unknown
<1>5. RowTypes(c)
  BY <1>4 DEF Hold!QuotaHoldAssumption, Hold!Init, RowTypes, Statuses
<1>6. Hold(c)!NeverNegative
  BY <1>4 DEF Hold!QuotaHoldAssumption, Hold!Init, Hold!NeverNegative, Hold!Known, Hold!metaInt
<1> QED
  BY <1>3, <1>5, <1>6 DEF HoldTypes

\* The value that stands for an unknown balance.
LEMMA UnknownIsInt == -100 \in Int
OBVIOUS

\* A generation that leaves an account, for the next one.
Left(g, e) ==
  [g EXCEPT !.pc = "listed", !.held = FALSE, !.end = e, !.acct = 0, !.seen = -100, !.view = "active"]

\* A generation that leaves its account is listed, or ends, and remembers nothing of it.
LEMMA LeftTypes ==
  ASSUME NEW CONSTANT c, NEW g \in Gens(c), NEW e \in {"", "ok", "no_account", "quota", "temp", "auth"}
  PROVE  Left(g, e) \in Gens(c) /\ OnAccount(c, Left(g, e)) /\ Left(g, e).pc = "listed"
<1> DEFINE g1 == [g EXCEPT !.pc = "listed", !.held = FALSE, !.end = e]
           g2 == [g1 EXCEPT !.acct = 0, !.seen = -100, !.view = "active"]
<1>1. g1 \in Gens(c) /\ g1.pc = "listed"
  BY DEF Gens
<1>2. ASSUME g1 \in Gens(c) PROVE g2 \in Gens(c)
  <2> HIDE DEF g1
  <2>1. QED
    BY UnknownIsInt, <1>2 DEF Gens, Statuses
<1>3. Left(g, e) = g2
  BY DEF Left
<1> HIDE DEF g1
<1>4. g2.pc = "listed"
  BY <1>1 DEF Gens
<1> HIDE DEF g2
<1> QED
  BY <1>1, <1>2, <1>3, <1>4 DEF OnAccount

\* What an account's row says stays a number, whatever a generation does.
LEMMA HoldGenStep ==
  ASSUME NEW CONSTANT c, Hold(c)!QuotaHoldAssumption, HoldTypes(c), NEW r \in c.requests,
         Hold(c)!GenStep(r) \/ Hold(c)!Cancel(r)
  PROVE  RowTypes(c)' /\ GenTypes(c)' /\ UNCHANGED probe
<1>0. /\ RowTypes(c) /\ GenTypes(c) /\ gen[r] \in Gens(c) /\ OnAccount(c, gen[r])
      /\ c.cost \in [c.requests -> Nat]
      /\ c.minCredits \in Nat /\ c.daily \in Nat /\ c.maxCancels \in Nat
  BY DEF HoldTypes, GenTypes, Hold!QuotaHoldAssumption
<1>1. CASE Hold(c)!List(r)
  <2> DEFINE S == Hold(c)!filterOreateAccountsByCredits(r)
             P == Hold(c)!prioritizeOreate80CreditAccounts(r, S)
             next == IF S = {} THEN "ended" ELSE "listed"
             e == CASE S # {} -> "" [] Hold(c)!knownInsufficient(r) -> "quota" [] OTHER -> "no_account"
             g == [gen[r] EXCEPT !.pc = next, !.list = S, !.preferred = P, !.end = e]
  <2>1. gen' = [gen EXCEPT ![r].pc = next, ![r].list = S, ![r].preferred = P, ![r].end = e]
    BY <1>1 DEF Hold!List
  <2>2. S \in SUBSET c.accounts
    BY DEF Hold!filterOreateAccountsByCredits, Hold!Candidates, Hold!Usable,
        Hold!dropOreateSpamQuarantined
  <2>3. P \in SUBSET c.accounts
    BY <2>2 DEF Hold!prioritizeOreate80CreditAccounts
  <2>4. next \in {"ended", "listed"} /\ e \in {"", "quota", "no_account"}
    OBVIOUS
  <2> HIDE DEF S, P, next, e
  <2>5. gen' = [gen EXCEPT ![r] = g]
    BY <2>1
  <2>6. g \in Gens(c) /\ g.pc = next
    BY <1>0, <2>2, <2>3, <2>4 DEF Gens
  <2> HIDE DEF g
  <2>7. GenTypes(c)'
    BY <1>0, <2>4, <2>5, <2>6, GenMoves DEF OnAccount
  <2>8. RowTypes(c)' /\ UNCHANGED probe
    BY <1>0, <1>1 DEF RowTypes, Hold!List, Hold!row
  <2> QED
    BY <2>7, <2>8
<1>2. CASE Hold(c)!GiveUp(r)
  <2> DEFINE g == [gen[r] EXCEPT !.pc = "ended"]
  <2>1. gen' = [gen EXCEPT ![r] = g]
    BY <1>2 DEF Hold!GiveUp
  <2>2. g \in Gens(c) /\ OnAccount(c, g)
    BY <1>0, <1>2 DEF Gens, OnAccount, Statuses
  <2>3. GenTypes(c)'
    BY <1>0, <2>1, <2>2, GenMoves
  <2>4. RowTypes(c)' /\ UNCHANGED probe
    BY <1>0, <1>2 DEF RowTypes, Statuses, Hold!GiveUp, Hold!row
  <2> QED
    BY <2>3, <2>4
<1>3. CASE Hold(c)!ReserveQuota(r)
  <2> DEFINE g == [gen[r] EXCEPT !.pc = "held", !.held = Hold(c)!Known(gen[r].acct)]
  <2>1. gen' = [gen EXCEPT ![r] = g]
    BY <1>3 DEF Hold!ReserveQuota
  <2>2. g \in Gens(c) /\ OnAccount(c, g)
    BY <1>0, <1>3 DEF Gens, OnAccount, Statuses, Hold!ReserveQuota, Hold!Known
  <2>3. GenTypes(c)'
    BY <1>0, <2>1, <2>2, GenMoves
  <2>4. RowTypes(c)' /\ UNCHANGED probe
    BY <1>0, <1>3 DEF RowTypes, Statuses, Hold!ReserveQuota, OnAccount
  <2> QED
    BY <2>3, <2>4
<1>4. CASE Hold(c)!NotAllowed(r)
  <2> DEFINE g == Left(gen[r], "quota")
  <2>1. gen' = [gen EXCEPT ![r] = g]
    BY <1>4 DEF Hold!NotAllowed, Hold!Leave, Left, Hold!Unknown
  <2>2. g \in Gens(c) /\ OnAccount(c, g)
    BY <1>0, <1>4, LeftTypes DEF Gens, OnAccount, Statuses
  <2>3. GenTypes(c)'
    BY <1>0, <2>1, <2>2, GenMoves
  <2>4. RowTypes(c)' /\ UNCHANGED probe
    BY <1>0, <1>4 DEF RowTypes, Statuses, Hold!NotAllowed, Hold!Failed, Hold!FailedMarker, OnAccount
  <2> QED
    BY <2>3, <2>4
<1>5. CASE Hold(c)!Served(r)
  <2> DEFINE g == [gen[r] EXCEPT !.pc = "served", !.end = "ok"]
  <2>1. gen' = [gen EXCEPT ![r] = g]
    BY <1>5 DEF Hold!Served
  <2>2. g \in Gens(c) /\ OnAccount(c, g)
    BY <1>0, <1>5 DEF Gens, OnAccount, Statuses, Hold!Served
  <2>3. GenTypes(c)'
    BY <1>0, <2>1, <2>2, GenMoves
  <2>4. RowTypes(c)' /\ UNCHANGED probe
    BY <1>0, <1>5 DEF RowTypes, Statuses, Hold!Served, Hold!row, OnAccount
  <2> QED
    BY <2>3, <2>4
<1>6. CASE Hold(c)!quarantineOreateSpamAccount(r)
  <2> DEFINE g == Left(gen[r], "temp")
  <2>1. gen' = [gen EXCEPT ![r] = g]
    BY <1>6 DEF Hold!quarantineOreateSpamAccount, Hold!Leave, Left, Hold!Unknown
  <2>2. g \in Gens(c) /\ OnAccount(c, g)
    BY <1>0, <1>6, LeftTypes DEF Gens, OnAccount, Statuses
  <2>3. GenTypes(c)'
    BY <1>0, <2>1, <2>2, GenMoves
  <2>4. RowTypes(c)' /\ UNCHANGED probe
    BY <1>0, <1>6 DEF RowTypes, Statuses, Hold!quarantineOreateSpamAccount, Hold!RefundQuota, OnAccount
  <2> QED
    BY <2>3, <2>4
<1>7. CASE Hold(c)!FetchCreditsBalance(r)
  <2> DEFINE g == [gen[r] EXCEPT !.pc = "fetched", !.seen = real[gen[r].acct]]
  <2>1. gen' = [gen EXCEPT ![r] = g]
    BY <1>7 DEF Hold!FetchCreditsBalance
  <2>2. g \in Gens(c) /\ OnAccount(c, g)
    <3>1. real[gen[r].acct] \in Nat /\ real[gen[r].acct] \in Int
      BY <1>0, <1>7 DEF RowTypes, OnAccount, Hold!FetchCreditsBalance
    <3> QED
      BY <1>0, <1>7, <3>1 DEF Gens, OnAccount, Hold!FetchCreditsBalance
  <2>3. GenTypes(c)'
    BY <1>0, <2>1, <2>2, GenMoves
  <2>4. RowTypes(c)' /\ UNCHANGED probe
    BY <1>0, <1>7 DEF RowTypes, Statuses, Hold!FetchCreditsBalance, Hold!row
  <2> QED
    BY <2>3, <2>4
<1>8. CASE Hold(c)!FetchFails(r)
  <2> DEFINE g == IF gen[r].pc = "refused" THEN Left(gen[r], "quota") ELSE [gen[r] EXCEPT !.pc = "ended"]
  <2>1. gen' = [gen EXCEPT ![r] = g]
    BY <1>8 DEF Hold!FetchFails, Hold!Leave, Left, Hold!Unknown
  <2>2. g \in Gens(c) /\ OnAccount(c, g)
    <3>1. CASE gen[r].pc = "refused"
      BY <1>0, <3>1, LeftTypes
    <3>2. CASE ~(gen[r].pc = "refused")
      <4>1. g = [gen[r] EXCEPT !.pc = "ended"]
        BY <3>2
      <4> QED
        BY <1>0, <1>8, <4>1 DEF Gens, OnAccount
    <3> QED
      BY <3>1, <3>2
  <2>3. GenTypes(c)'
    BY <1>0, <2>1, <2>2, GenMoves
  <2>4. RowTypes(c)' /\ UNCHANGED probe
    BY <1>0, <1>8 DEF RowTypes, Statuses, Hold!FetchFails, Hold!Failed, Hold!FailedMarker
  <2> QED
    BY <2>3, <2>4
<1>9. CASE Hold(c)!ViewRow(r)
  <2> DEFINE g == [gen[r] EXCEPT !.pc = "viewed", !.view = holdStatus[gen[r].acct]]
  <2>1. gen' = [gen EXCEPT ![r] = g]
    BY <1>9 DEF Hold!ViewRow
  <2>2. g \in Gens(c) /\ OnAccount(c, g)
    BY <1>0, <1>9 DEF Gens, OnAccount, Statuses, RowTypes, Hold!ViewRow
  <2>3. GenTypes(c)'
    BY <1>0, <2>1, <2>2, GenMoves
  <2>4. RowTypes(c)' /\ UNCHANGED probe
    BY <1>0, <1>9 DEF RowTypes, Statuses, Hold!ViewRow, Hold!row
  <2> QED
    BY <2>3, <2>4
<1>10. CASE Hold(c)!Reconcile(r)
  <2> DEFINE g == IF gen[r].end = "ok" THEN [gen[r] EXCEPT !.pc = "ended"] ELSE Left(gen[r], "quota")
  <2>1. gen' = [gen EXCEPT ![r] = g]
    BY <1>10 DEF Hold!Reconcile, Hold!Leave, Left, Hold!Unknown
  <2>2. g \in Gens(c) /\ OnAccount(c, g)
    <3>1. CASE gen[r].end # "ok"
      BY <1>0, <3>1, LeftTypes
    <3>2. CASE ~(gen[r].end # "ok")
      <4>1. g = [gen[r] EXCEPT !.pc = "ended"]
        BY <3>2
      <4> QED
        BY <1>0, <1>10, <4>1 DEF Gens, OnAccount
    <3> QED
      BY <3>1, <3>2
  <2>3. GenTypes(c)'
    BY <1>0, <2>1, <2>2, GenMoves
  <2>4. RowTypes(c)' /\ UNCHANGED probe
    BY <1>0, <1>10 DEF RowTypes, Statuses, OnAccount, Hold!Reconcile, Hold!StatusFor,
        Hold!oreateStatusForBalance
  <2> QED
    BY <2>3, <2>4
<1>11. ASSUME NEW a \in c.accounts, Hold(c)!Pick(r, a)
       PROVE  RowTypes(c)' /\ GenTypes(c)' /\ UNCHANGED probe
  <2> DEFINE g == [gen[r] EXCEPT !.pc = "picked", !.acct = a, !.list = gen[r].list \ {a}]
  <2>1. gen' = [gen EXCEPT ![r] = g]
    BY <1>11 DEF Hold!Pick
  <2>2. g \in Gens(c) /\ OnAccount(c, g)
    BY <1>0, <1>11 DEF Gens, OnAccount, Statuses
  <2>3. GenTypes(c)'
    BY <1>0, <2>1, <2>2, GenMoves
  <2>4. RowTypes(c)' /\ UNCHANGED probe
    BY <1>0, <1>11 DEF RowTypes, Statuses, Hold!Pick, Hold!row
  <2> QED
    BY <2>3, <2>4
<1>12. ASSUME NEW e \in {"quota", "temp", "auth"}, Hold(c)!Refused(r, e)
       PROVE  RowTypes(c)' /\ GenTypes(c)' /\ UNCHANGED probe
  <2> DEFINE g == IF e = "quota" /\ c.pool = "oreate" THEN [gen[r] EXCEPT !.pc = "refused", !.end = e,
      !.held = FALSE] ELSE Left(gen[r], e)
  <2>1. gen' = [gen EXCEPT ![r] = g]
    BY <1>12 DEF Hold!Refused, Hold!Leave, Left, Hold!Unknown
  <2>2. g \in Gens(c) /\ OnAccount(c, g)
    <3>1. CASE ~(e = "quota" /\ c.pool = "oreate")
      BY <1>0, <3>1, LeftTypes
    <3>2. CASE (e = "quota" /\ c.pool = "oreate")
      <4>1. g = [gen[r] EXCEPT !.pc = "refused", !.end = e, !.held = FALSE]
        BY <3>2
      <4> QED
        BY <1>0, <1>12, <4>1 DEF Gens, OnAccount, Hold!Refused
    <3> QED
      BY <3>1, <3>2
  <2>3. GenTypes(c)'
    BY <1>0, <2>1, <2>2, GenMoves
  <2>4. RowTypes(c)' /\ UNCHANGED probe
    BY <1>0, <1>12 DEF RowTypes, Statuses, OnAccount, Hold!Refused, Hold!RefundQuota, Hold!Failed,
        Hold!FailedMarker
  <2> QED
    BY <2>3, <2>4
<1>13. CASE Hold(c)!Cancel(r)
  <2> DEFINE g == [gen[r] EXCEPT !.pc = "ended", !.end = "temp"]
  <2>1. gen' = [gen EXCEPT ![r] = g]
    BY <1>13 DEF Hold!Cancel
  <2>2. g \in Gens(c) /\ OnAccount(c, g)
    BY <1>0, <1>13 DEF Gens, OnAccount, Statuses
  <2>3. GenTypes(c)'
    BY <1>0, <2>1, <2>2, GenMoves
  <2>4. RowTypes(c)' /\ UNCHANGED probe
    BY <1>0, <1>13 DEF RowTypes, Statuses, Hold!Cancel, Hold!row
  <2> QED
    BY <2>3, <2>4
<1> QED
  BY <1>1, <1>2, <1>3, <1>4, <1>5, <1>6, <1>7, <1>8, <1>9, <1>10, <1>11, <1>12, <1>13 DEF Hold!GenStep

\* Max of two numbers is one of them.
LEMMA GreaterOfTwo ==
  ASSUME NEW CONSTANT c, NEW x \in Nat, NEW y \in Nat
  PROVE  Hold(c)!Max({x, y}) = IF x >= y THEN x ELSE y
<1> DEFINE m == IF x >= y THEN x ELSE y
<1>1. m \in {x, y} /\ \A z \in {x, y} : m >= z
  OBVIOUS
<1>2. \A z \in {x, y} : (\A w \in {x, y} : z >= w) => z = m
  OBVIOUS
<1> QED
  BY <1>1, <1>2 DEF Hold!Max

\* The same of a probe, the sweeps, the markers and the upstream.
LEMMA HoldOthersStep ==
  ASSUME NEW CONSTANT c, Hold(c)!QuotaHoldAssumption, HoldTypes(c),
         \/ \E p \in c.probers : Hold(c)!ProbeStep(p) \/ \E a \in c.accounts : Hold(c)!QuotaStart(p, a)
         \/ Hold(c)!SweepStep
         \/ \E a \in c.accounts : Hold(c)!Reset(a) \/ Hold(c)!SpamExpires(a)
  PROVE  RowTypes(c)' /\ ProbeTypes(c)' /\ UNCHANGED gen
<1> USE DEF RowTypes, ProbeTypes, Statuses
<1>0. /\ RowTypes(c) /\ ProbeTypes(c)
      /\ c.minCredits \in Nat /\ c.daily \in Nat /\ c.resets \subseteq c.accounts
  BY DEF HoldTypes, Hold!QuotaHoldAssumption
<1>1. ASSUME NEW p \in c.probers,
    Hold(c)!QuotaFetch(p) PROVE RowTypes(c)' /\ ProbeTypes(c)' /\ UNCHANGED gen
  BY <1>0, <1>1 DEF Hold!QuotaFetch, Probes, ProbesAccount, Hold!row
<1>2. ASSUME NEW p \in c.probers,
    Hold(c)!QuotaFails(p) PROVE RowTypes(c)' /\ ProbeTypes(c)' /\ UNCHANGED gen
  BY <1>0, <1>2 DEF Hold!QuotaFails, Probes, ProbesAccount, Hold!row, Hold!Idle, Hold!Unknown
<1>3. ASSUME NEW p \in c.probers,
    Hold(c)!QuotaView(p) PROVE RowTypes(c)' /\ ProbeTypes(c)' /\ UNCHANGED gen
  BY <1>0, <1>3 DEF Hold!QuotaView, Probes, ProbesAccount, Hold!row
<1>4. ASSUME NEW p \in c.probers,
    Hold(c)!QuotaWrite(p) PROVE RowTypes(c)' /\ ProbeTypes(c)' /\ UNCHANGED gen
  <2>1. ProbeTypes(c)' /\ UNCHANGED gen
    BY <1>0, <1>4 DEF Hold!QuotaWrite, Probes, ProbesAccount, Hold!Idle, Hold!Unknown
  <2>2. Hold(c)!StatusFor(probe[p].acct, probe[p].seen, probe[p].view) \in Statuses
    BY <1>0, <1>4 DEF Hold!QuotaWrite, ProbesAccount, Hold!StatusFor, Hold!oreateStatusForBalance
  <2>3. RowTypes(c)'
    BY <1>0, <1>4, <2>2 DEF Hold!QuotaWrite, ProbesAccount, Hold!Synced
  <2> QED
    BY <2>1, <2>3
<1>5. ASSUME NEW p \in c.probers, NEW a \in c.accounts, Hold(c)!QuotaStart(p, a)
      PROVE  RowTypes(c)' /\ ProbeTypes(c)' /\ UNCHANGED gen
  BY <1>0, <1>5 DEF Hold!QuotaStart, Probes, ProbesAccount, Hold!row, Hold!Unknown
<1>6. ASSUME Hold(c)!RecoverStart \/ Hold(c)!RollStart \/ Hold(c)!RollEnd
      PROVE  RowTypes(c)' /\ ProbeTypes(c)' /\ UNCHANGED gen
  BY <1>0, <1>6 DEF Hold!RecoverStart, Hold!RollStart, Hold!RollEnd, Hold!row, Hold!RecoverList,
      Hold!RollList
<1>7. ASSUME NEW a \in c.accounts, Hold(c)!RecoverOne(a) \/ Hold(c)!RollResetMarkers(a)
      PROVE  RowTypes(c)' /\ ProbeTypes(c)' /\ UNCHANGED gen
  BY <1>0, <1>7 DEF Hold!RecoverOne, Hold!RollResetMarkers, Hold!Restored, Hold!Unknown
<1>8. ASSUME NEW a \in c.accounts, Hold(c)!Reset(a) PROVE RowTypes(c)' /\ ProbeTypes(c)' /\ UNCHANGED gen
  <2>1. \A x \in Nat : Hold(c)!Max({x, c.daily}) \in Nat
    BY <1>0, GreaterOfTwo
  <2> QED
    BY <1>0, <1>8, <2>1 DEF Hold!Reset
<1>9. ASSUME NEW a \in c.accounts,
    Hold(c)!SpamExpires(a) PROVE RowTypes(c)' /\ ProbeTypes(c)' /\ UNCHANGED gen
  BY <1>0, <1>9 DEF Hold!SpamExpires, Hold!row
<1> QED
  BY <1>1, <1>2, <1>3, <1>4, <1>5, <1>6, <1>7, <1>8, <1>9 DEF Hold!ProbeStep, Hold!SweepStep

\* The types hold after every step.
LEMMA HoldTypesStep ==
  ASSUME NEW CONSTANT c, Hold(c)!QuotaHoldAssumption, HoldTypes(c), [Hold(c)!Next]_holdVars
  PROVE  HoldTypes(c)'
<1>1. ASSUME NEW r \in c.requests, Hold(c)!GenStep(r) \/ Hold(c)!Cancel(r) PROVE HoldTypes(c)'
  BY <1>1, HoldGenStep DEF HoldTypes, ProbeTypes
<1>2. CASE UNCHANGED holdVars
  BY <1>2 DEF holdVars, HoldTypes, RowTypes, GenTypes, ProbeTypes
<1>3. CASE \/ \E p \in c.probers : Hold(c)!ProbeStep(p) \/ \E a \in c.accounts : Hold(c)!QuotaStart(p, a)
           \/ Hold(c)!SweepStep
           \/ \E a \in c.accounts : Hold(c)!Reset(a) \/ Hold(c)!SpamExpires(a)
  BY <1>3, HoldOthersStep DEF HoldTypes, GenTypes
<1> QED
  BY <1>1, <1>2, <1>3 DEF Hold!Next

\* How a step changes the balance on a row: a hold that is covered, a hold that comes
\* back, or a balance that was read or granted.
LEMMA RemSteps ==
  ASSUME NEW CONSTANT c, Hold(c)!QuotaHoldAssumption, HoldTypes(c), [Hold(c)!Next]_holdVars
  PROVE  \/ UNCHANGED rem
         \/ \E r \in c.requests : /\ gen[r].pc = "picked" /\ rem[gen[r].acct] >= c.cost[r]
                                  /\ rem' = [rem EXCEPT ![gen[r].acct] = @ - c.cost[r]]
         \/ \E r \in c.requests : /\ gen[r].pc = "held" /\ gen[r].held /\ Hold(c)!Known(gen[r].acct)
                                  /\ rem' = [rem EXCEPT ![gen[r].acct] = @ + c.cost[r]]
         \/ \E a \in c.accounts : \E n \in Nat \cup {-100} : rem' = [rem EXCEPT ![a] = n]
<1> DEFINE Goal ==
         \/ UNCHANGED rem
         \/ \E r \in c.requests : /\ gen[r].pc = "picked" /\ rem[gen[r].acct] >= c.cost[r]
                                  /\ rem' = [rem EXCEPT ![gen[r].acct] = @ - c.cost[r]]
         \/ \E r \in c.requests : /\ gen[r].pc = "held" /\ gen[r].held /\ Hold(c)!Known(gen[r].acct)
                                  /\ rem' = [rem EXCEPT ![gen[r].acct] = @ + c.cost[r]]
         \/ \E a \in c.accounts : \E n \in Nat \cup {-100} : rem' = [rem EXCEPT ![a] = n]
<1>0. GenTypes(c) /\ ProbeTypes(c) /\ c.daily \in Nat
  BY DEF HoldTypes, Hold!QuotaHoldAssumption
<1>1. ASSUME NEW r \in c.requests, Hold(c)!ReserveQuota(r) PROVE Goal
  BY <1>1 DEF Hold!ReserveQuota, Hold!Enough
<1>2. ASSUME NEW r \in c.requests,
             \/ \E e \in {"quota", "temp", "auth"} : Hold(c)!Refused(r, e)
             \/ Hold(c)!quarantineOreateSpamAccount(r)
      PROVE  Goal
  BY <1>2 DEF Hold!Refused, Hold!quarantineOreateSpamAccount, Hold!RefundQuota
<1>3. ASSUME NEW r \in c.requests, Hold(c)!Reconcile(r) PROVE Goal
  <2>1. gen[r].acct \in c.accounts /\ gen[r].seen \in Nat
    BY <1>0, <1>3 DEF GenTypes, OnAccount, Hold!Reconcile
  <2> QED
    BY <1>3, <2>1 DEF Hold!Reconcile
<1>4. ASSUME NEW p \in c.probers, Hold(c)!QuotaWrite(p) PROVE Goal
  <2>1. probe[p].acct \in c.accounts /\ probe[p].seen \in Nat
    BY <1>0, <1>4 DEF ProbeTypes, ProbesAccount, Hold!QuotaWrite
  <2> QED
    BY <1>4, <2>1 DEF Hold!QuotaWrite, Hold!Synced
<1>5. ASSUME NEW a \in c.accounts, Hold(c)!RecoverOne(a) PROVE Goal
  BY <1>0, <1>5 DEF Hold!RecoverOne, Hold!Restored, Hold!Unknown
<1>6. ASSUME NEW r \in c.requests,
             \/ Hold(c)!List(r) \/ Hold(c)!GiveUp(r) \/ Hold(c)!NotAllowed(r) \/ Hold(c)!Served(r)
             \/ Hold(c)!FetchCreditsBalance(r) \/ Hold(c)!FetchFails(r) \/ Hold(c)!ViewRow(r)
             \/ Hold(c)!Cancel(r) \/ \E a \in c.accounts : Hold(c)!Pick(r, a)
      PROVE  UNCHANGED rem
  BY <1>6 DEF Hold!List, Hold!GiveUp, Hold!NotAllowed, Hold!Served, Hold!FetchCreditsBalance,
      Hold!FetchFails,
    Hold!ViewRow, Hold!Cancel, Hold!Pick, Hold!row
<1>7. ASSUME NEW p \in c.probers,
             \/ Hold(c)!QuotaFetch(p) \/ Hold(c)!QuotaFails(p) \/ Hold(c)!QuotaView(p)
             \/ \E a \in c.accounts : Hold(c)!QuotaStart(p, a)
      PROVE  UNCHANGED rem
  BY <1>7 DEF Hold!QuotaFetch, Hold!QuotaFails, Hold!QuotaView, Hold!QuotaStart, Hold!row
<1>8. ASSUME \/ Hold(c)!RecoverStart \/ Hold(c)!RollStart \/ Hold(c)!RollEnd
             \/ \E a \in c.accounts : \/ Hold(c)!RollResetMarkers(a)
                                      \/ Hold(c)!Reset(a) \/ Hold(c)!SpamExpires(a)
      PROVE  UNCHANGED rem
  BY <1>8 DEF Hold!RecoverStart, Hold!RollStart, Hold!RollEnd, Hold!RollResetMarkers, Hold!Reset,
    Hold!SpamExpires, Hold!row
<1>9. CASE UNCHANGED holdVars
  BY <1>9 DEF holdVars
<1> QED
  BY <1>1, <1>2, <1>3, <1>4, <1>5, <1>6, <1>7, <1>8, <1>9
  DEF Hold!Next, Hold!GenStep, Hold!ProbeStep, Hold!SweepStep

\* A hold is taken only from a balance that covers it.
LEMMA NeverNegativeStep ==
  ASSUME NEW CONSTANT c, Hold(c)!QuotaHoldAssumption, HoldTypes(c), Hold(c)!NeverNegative,
         [Hold(c)!Next]_holdVars
  PROVE  Hold(c)!NeverNegative'
<1>1. /\ rem \in [c.accounts -> Int] /\ c.cost \in [c.requests -> Nat]
      /\ \A r \in c.requests : gen[r].pc \in {"picked", "held"} => gen[r].acct \in c.accounts
      /\ \A a \in c.accounts : rem[a] # -100 => rem[a] >= 0
  BY DEF HoldTypes, RowTypes, GenTypes, OnAccount, Hold!QuotaHoldAssumption, Hold!NeverNegative,
      Hold!Known,
    Hold!metaInt, Hold!Unknown
<1>2. SUFFICES ASSUME NEW a \in c.accounts, rem'[a] # -100 PROVE rem'[a] >= 0
  BY DEF Hold!NeverNegative, Hold!Known, Hold!metaInt, Hold!Unknown
<1>3. CASE UNCHANGED rem
  BY <1>1, <1>2, <1>3
<1>4. ASSUME NEW r \in c.requests, gen[r].pc = "picked", rem[gen[r].acct] >= c.cost[r],
             rem' = [rem EXCEPT ![gen[r].acct] = @ - c.cost[r]]
      PROVE  rem'[a] >= 0
  BY <1>1, <1>2, <1>4
<1>5. ASSUME NEW r \in c.requests, gen[r].pc = "held", rem[gen[r].acct] # -100,
             rem' = [rem EXCEPT ![gen[r].acct] = @ + c.cost[r]]
      PROVE  rem'[a] >= 0
  BY <1>1, <1>2, <1>5
<1>6. ASSUME NEW b \in c.accounts, NEW n \in Nat \cup {-100}, rem' = [rem EXCEPT ![b] = n]
      PROVE  rem'[a] >= 0
  BY <1>1, <1>2, <1>6
<1> QED
  BY <1>3, <1>4, <1>5, <1>6, RemSteps DEF Hold!Known, Hold!metaInt, Hold!Unknown

\* One job per account, and nobody else who writes: no probe, no reset, no cancellation.
Undisturbed(c) ==
  c.jobs = 1 /\ c.probers = {} /\ c.maxCancels = 0 /\ c.resets = {}

Works(g) == g.pc \in {"picked", "held", "served", "refused", "fetched", "viewed"}
Right(x, y) == x # -100 => x = y

\* What the row of its account says, x, while a generation is at work: the real balance y,
\* less its hold while that is out.
Covered(c, r, g, x, y) ==
  /\ g.pc \in {"picked", "served", "refused"} => Right(x, y)
  /\ g.pc = "held" => (g.held <=> x # -100) /\ (g.held => x + c.cost[r] = y)
  /\ g.pc \in {"fetched", "viewed"} => g.seen = y

NoneRecovered(c) ==
  /\ \A a \in c.accounts : marker[a] # "past"
  /\ holdSweep.todo = {}
OneAtATime(c) ==
  \A r, s \in c.requests : Works(gen[r]) /\ Works(gen[s]) /\ gen[r].acct = gen[s].acct => r = s
RestsRight(c) ==
  \A a \in c.accounts :
    (\A r \in c.requests : Works(gen[r]) => gen[r].acct # a) => Right(rem[a], real[a])
AllCovered(c) ==
  \A r \in c.requests : Covered(c, r, gen[r], rem[gen[r].acct], real[gen[r].acct])
RestInv(c) ==
  /\ HoldTypes(c) /\ Hold(c)!NeverNegative
  /\ NoneRecovered(c) /\ OneAtATime(c) /\ RestsRight(c) /\ AllCovered(c)

\* A generation that moves touches the row of its own account b and no other.
LEMMA OnlyItsRow ==
  ASSUME NEW CONSTANT c, RestInv(c), NEW r \in c.requests, NEW g, NEW b,
         gen' = [gen EXCEPT ![r] = g],
         \A a \in c.accounts : a # b => rem'[a] = rem[a] /\ real'[a] = real[a],
         \A s \in c.requests : s # r /\ Works(gen[s]) => gen[s].acct # b,
         Works(gen[r]) => gen[r].acct = b,
         Works(g) => g.acct = b /\ Covered(c, r, g, rem'[b], real'[b]),
         ~Works(g) /\ b \in c.accounts => Right(rem'[b], real'[b])
  PROVE  OneAtATime(c)' /\ RestsRight(c)' /\ AllCovered(c)'
<1>1. /\ gen \in [c.requests -> Gens(c)] /\ OneAtATime(c) /\ RestsRight(c) /\ AllCovered(c)
      /\ \A s \in c.requests : Works(gen[s]) => gen[s].acct \in c.accounts
  BY DEF RestInv, HoldTypes, GenTypes, OnAccount, Works
<1>2. gen'[r] = g /\ \A s \in c.requests : s # r => gen'[s] = gen[s]
  BY <1>1
<1>3. OneAtATime(c)'
  BY <1>1, <1>2 DEF OneAtATime
<1>4. RestsRight(c)'
  <2> SUFFICES ASSUME NEW a \in c.accounts, \A s \in c.requests : Works(gen'[s]) => gen'[s].acct # a
               PROVE  Right(rem'[a], real'[a])
    BY DEF RestsRight
  <2>1. CASE a = b
    BY <1>2, <2>1
  <2>2. CASE a # b
    <3>1. \A s \in c.requests : Works(gen[s]) => gen[s].acct # a
      BY <1>2, <2>2
    <3> QED
      BY <1>1, <2>2, <3>1 DEF RestsRight, Right
  <2> QED
    BY <2>1, <2>2
<1>5. AllCovered(c)'
  <2> SUFFICES ASSUME NEW s \in c.requests
               PROVE  Covered(c, s, gen'[s], rem'[gen'[s].acct], real'[gen'[s].acct])
    BY DEF AllCovered
  <2>1. CASE s = r
    BY <1>2, <2>1 DEF Covered, Works
  <2>2. CASE s # r
    <3>1. Works(gen[s]) => rem'[gen[s].acct] = rem[gen[s].acct] /\ real'[gen[s].acct] = real[gen[s].acct]
      BY <1>1, <2>2
    <3>2. Covered(c, s, gen[s], rem[gen[s].acct], real[gen[s].acct])
      BY <1>1 DEF AllCovered
    <3> QED
      BY <1>2, <2>2, <3>1, <3>2 DEF Covered, Works
  <2> QED
    BY <2>1, <2>2
<1> QED
  BY <1>3, <1>4, <1>5

\* The instance's own cardinality is that of the standard module.
LEMMA SameCount ==
  ASSUME NEW CONSTANT c
  PROVE  \A S : Hold(c)!Cardinality(S) = Cardinality(S)
BY DEF Hold!Cardinality, Cardinality

\* An account has a free slot for a generation only when nobody is at work on it.
LEMMA FreeMeansAlone ==
  ASSUME NEW CONSTANT c, Hold(c)!QuotaHoldAssumption, Undisturbed(c), RestInv(c),
         NEW r \in c.requests, NEW a \in c.accounts, Hold(c)!Pick(r, a)
  PROVE  \A s \in c.requests : Works(gen[s]) => gen[s].acct # a
<1> SUFFICES ASSUME NEW s \in c.requests, Works(gen[s]), gen[s].acct = a PROVE FALSE
  OBVIOUS
<1>1. /\ gen \in [c.requests -> Gens(c)] /\ OneAtATime(c) /\ 0 # a
      /\ \A t \in c.requests : gen[t].pc = "start" => gen[t].acct = 0
  BY DEF RestInv, HoldTypes, GenTypes, OnAccount, Hold!QuotaHoldAssumption
<1>2. \A t \in c.requests : gen[t].acct = a /\ gen[t].pc \notin {"listed", "ended"} => t = s
  BY <1>1 DEF Gens, Works, OneAtATime
<1>3. Hold(c)!At(a) = {s}
  BY <1>2 DEF Hold!At, Works
<1>4. Cardinality({s}) = 1
  BY FS_Singleton
<1> QED
  BY <1>3, <1>4, SameCount DEF Hold!Pick, Undisturbed

\* Nothing is recovered or rolled, for no reset time is ever past.
LEMMA NoneRecoveredStep ==
  ASSUME NEW CONSTANT c, Hold(c)!QuotaHoldAssumption, Undisturbed(c), HoldTypes(c), NoneRecovered(c),
         [Hold(c)!Next]_holdVars
  PROVE  NoneRecovered(c)'
<1>1. /\ marker \in [c.accounts -> {"none", "past", "future"}] /\ GenTypes(c)
      /\ holdSweep \in [pc : {"idle", "recover", "roll"}, todo : SUBSET c.accounts]
      /\ \A a \in c.accounts : marker[a] # "past"
      /\ holdSweep.todo = {}
  BY DEF HoldTypes, RowTypes, NoneRecovered
<1>2. ASSUME NEW r \in c.requests, Hold(c)!GenStep(r) \/ Hold(c)!Cancel(r) PROVE NoneRecovered(c)'
  <2>1. UNCHANGED holdSweep
    BY <1>2 DEF Hold!GenStep, Hold!List, Hold!GiveUp, Hold!ReserveQuota, Hold!NotAllowed, Hold!Served,
      Hold!quarantineOreateSpamAccount, Hold!FetchCreditsBalance, Hold!FetchFails, Hold!ViewRow,
          Hold!Reconcile,
      Hold!Pick, Hold!Refused, Hold!Cancel
  <2>2. marker' = marker \/ \E a : marker' = [marker EXCEPT ![a] = "future"]
    BY <1>2 DEF Hold!GenStep, Hold!List, Hold!GiveUp, Hold!ReserveQuota, Hold!NotAllowed, Hold!Served,
      Hold!quarantineOreateSpamAccount, Hold!FetchCreditsBalance, Hold!FetchFails, Hold!ViewRow,
          Hold!Reconcile,
      Hold!Pick, Hold!Refused, Hold!Cancel, Hold!row, Hold!FailedMarker
  <2> QED
    BY <1>1, <2>1, <2>2 DEF NoneRecovered
<1>3. CASE Hold(c)!SweepStep
  BY <1>1, <1>3 DEF Hold!SweepStep, Hold!RecoverStart, Hold!RollStart, Hold!RollEnd, Hold!RecoverOne,
    Hold!RollResetMarkers, Hold!RecoverList, Hold!RollList, Hold!row, NoneRecovered
<1>4. ASSUME NEW a \in c.accounts, Hold(c)!SpamExpires(a) PROVE NoneRecovered(c)'
  BY <1>1, <1>4 DEF Hold!SpamExpires, Hold!row, NoneRecovered
<1>5. CASE UNCHANGED holdVars
  BY <1>1, <1>5 DEF holdVars, NoneRecovered
<1> QED
  BY <1>2, <1>3, <1>4, <1>5 DEF Hold!Next, Hold!Reset, Undisturbed

\* Whatever a generation meets, it leaves the real balance on the row.
LEMMA RestGenStep ==
  ASSUME NEW CONSTANT c, Hold(c)!QuotaHoldAssumption, Undisturbed(c), RestInv(c), NEW r \in c.requests,
         Hold(c)!GenStep(r) \/ Hold(c)!Cancel(r)
  PROVE  OneAtATime(c)' /\ RestsRight(c)' /\ AllCovered(c)'
<1>0. PICK b : b = gen[r].acct
  OBVIOUS
<1>1. /\ gen[r] \in Gens(c) /\ OnAccount(c, gen[r]) /\ Hold(c)!NeverNegative
      /\ Covered(c, r, gen[r], rem[gen[r].acct], real[gen[r].acct])
      /\ rem \in [c.accounts -> Int] /\ real \in [c.accounts -> Nat] /\ 0 \notin c.accounts
      /\ c.cost \in [c.requests -> Nat]
  BY DEF RestInv, HoldTypes, RowTypes, GenTypes, AllCovered, Hold!QuotaHoldAssumption
<1>2. Works(gen[r]) =>
        b \in c.accounts /\ \A s \in c.requests : s # r /\ Works(gen[s]) => gen[s].acct # b
  BY <1>0, <1>1 DEF RestInv, OneAtATime, OnAccount, Works
<1>3. CASE Hold(c)!List(r) \/ Hold(c)!GiveUp(r)
  <2>1. PICK g : gen' = [gen EXCEPT ![r] = g] /\ ~Works(g)
    <3>1. CASE Hold(c)!List(r)
      <4> DEFINE S == Hold(c)!filterOreateAccountsByCredits(r)
                 next == IF S = {} THEN "ended" ELSE "listed"
                 P == Hold(c)!prioritizeOreate80CreditAccounts(r, S)
                 e == CASE S # {} -> ""
                        [] Hold(c)!knownInsufficient(r) -> "quota"
                        [] OTHER -> "no_account"
                 h == [gen[r] EXCEPT !.pc = next, !.list = S, !.preferred = P, !.end = e]
      <4>1. gen' = [gen EXCEPT ![r].pc = next, ![r].list = S, ![r].preferred = P, ![r].end = e]
        BY <3>1 DEF Hold!List
      <4>2. next \in {"ended", "listed"}
        OBVIOUS
      <4> HIDE DEF S, next, P, e
      <4>3. gen' = [gen EXCEPT ![r] = h] /\ h.pc = next
        BY <1>1, <4>1 DEF Gens
      <4> QED
        BY <4>2, <4>3 DEF Works
    <3>2. CASE Hold(c)!GiveUp(r)
      <4>1. gen' = [gen EXCEPT ![r] = gen'[r]] /\ gen'[r].pc = "ended"
        BY <1>1, <3>2 DEF Hold!GiveUp, Gens, RestInv, HoldTypes, GenTypes
      <4> QED
        BY <4>1 DEF Works
    <3> QED
      BY <1>3, <3>1, <3>2
  <2>2. ~Works(gen[r]) /\ UNCHANGED <<rem, real>>
    BY <1>3 DEF Hold!List, Hold!GiveUp, Hold!row, Works
  <2>3. \A s \in c.requests : Works(gen[s]) => gen[s].acct # 0
    BY <1>1 DEF RestInv, HoldTypes, GenTypes, OnAccount, Works
  <2> QED
    BY <1>1, <2>1, <2>2, <2>3, OnlyItsRow
<1>4. ASSUME NEW a \in c.accounts, Hold(c)!Pick(r, a)
      PROVE  OneAtATime(c)' /\ RestsRight(c)' /\ AllCovered(c)'
  <2>0. PICK g : g = [gen[r] EXCEPT !.pc = "picked", !.acct = a, !.list = gen[r].list \ {a}]
    OBVIOUS
  <2>1. gen' = [gen EXCEPT ![r] = g] /\ UNCHANGED <<rem, real>> /\ ~Works(gen[r])
    BY <1>4, <2>0 DEF Hold!Pick, Hold!row, Works
  <2>2. g.pc = "picked" /\ g.acct = a
    BY <1>1, <2>0 DEF Gens
  <2>3. \A s \in c.requests : Works(gen[s]) => gen[s].acct # a
    BY <1>4, FreeMeansAlone
  <2>4. Right(rem[a], real[a])
    BY <2>3 DEF RestInv, RestsRight
  <2>5. Works(g) /\ Covered(c, r, g, rem'[a], real'[a])
    BY <2>1, <2>2, <2>4 DEF Works, Covered, Right
  <2>6. /\ \A d \in c.accounts : d # a => rem'[d] = rem[d] /\ real'[d] = real[d]
        /\ \A s \in c.requests : s # r /\ Works(gen[s]) => gen[s].acct # a
        /\ gen' = [gen EXCEPT ![r] = g] /\ (Works(gen[r]) => gen[r].acct = a)
        /\ Works(g) => g.acct = a /\ Covered(c, r, g, rem'[a], real'[a])
        /\ ~Works(g) /\ a \in c.accounts => Right(rem'[a], real'[a])
    BY <2>1, <2>2, <2>3, <2>5
  <2> QED
    BY <2>6, OnlyItsRow
<1>5. CASE Hold(c)!ReserveQuota(r)
  <2>0. PICK g : g = [gen[r] EXCEPT !.pc = "held", !.held = Hold(c)!Known(gen[r].acct)]
    OBVIOUS
  <2>1. gen' = [gen EXCEPT ![r] = g]
    BY <1>5, <2>0 DEF Hold!ReserveQuota
  <2>2. Works(gen[r])
    BY <1>5 DEF Hold!ReserveQuota, Works
  <2>3. \A a \in c.accounts : a # b => rem'[a] = rem[a] /\ real'[a] = real[a]
    BY <1>0, <1>1, <1>5 DEF Hold!ReserveQuota
  <2>4. Works(g) /\ g.acct = b /\ Covered(c, r, g, rem'[b], real'[b])
    <3>1. g.pc = "held" /\ g.acct = b /\ g.held = Hold(c)!Known(b)
      BY <1>0, <1>1, <2>0 DEF Gens
    <3>2. (Hold(c)!Known(b) <=> rem'[b] # -100) /\ (Hold(c)!Known(b) => rem'[b] + c.cost[r] = real'[b])
      BY <1>0, <1>1, <1>2, <2>2, <1>5 DEF Covered, Right, Hold!ReserveQuota, Hold!Enough,
          Hold!NeverNegative, Hold!Known, Hold!metaInt, Hold!Unknown
    <3> QED
      BY <3>1, <3>2 DEF Works, Covered, Right
  <2>5. /\ \A s \in c.requests : s # r /\ Works(gen[s]) => gen[s].acct # b
        /\ Works(gen[r]) => gen[r].acct = b
        /\ Works(g) => g.acct = b /\ Covered(c, r, g, rem'[b], real'[b])
        /\ ~Works(g) /\ b \in c.accounts => Right(rem'[b], real'[b])
    BY <1>0, <1>2, <2>2, <2>4
  <2> QED
    BY <2>1, <2>3, <2>5, OnlyItsRow
<1>6. CASE Hold(c)!NotAllowed(r)
  <2>0. PICK g : g = Left(gen[r], "quota")
    OBVIOUS
  <2>1. gen' = [gen EXCEPT ![r] = g]
    BY <1>6, <2>0 DEF Hold!NotAllowed, Hold!Leave, Hold!Unknown, Left
  <2>2. Works(gen[r])
    BY <1>6 DEF Hold!NotAllowed, Works
  <2>3. \A a \in c.accounts : a # b => rem'[a] = rem[a] /\ real'[a] = real[a]
    BY <1>0, <1>1, <1>6 DEF Hold!NotAllowed
  <2>4. ~Works(g) /\ Right(rem'[b], real'[b])
    <3>1. g.pc \in {"listed", "ended"}
      BY <1>0, <1>1, <2>0 DEF Gens, Left
    <3>2. Right(rem'[b], real'[b])
      BY <1>0, <1>1, <1>2, <2>2, <1>6 DEF Covered, Right, Hold!NotAllowed
    <3> QED
      BY <3>1, <3>2 DEF Works
  <2>5. /\ \A s \in c.requests : s # r /\ Works(gen[s]) => gen[s].acct # b
        /\ Works(gen[r]) => gen[r].acct = b
        /\ Works(g) => g.acct = b /\ Covered(c, r, g, rem'[b], real'[b])
        /\ ~Works(g) /\ b \in c.accounts => Right(rem'[b], real'[b])
    BY <1>0, <1>2, <2>2, <2>4
  <2> QED
    BY <2>1, <2>3, <2>5, OnlyItsRow
<1>7. CASE Hold(c)!Served(r)
  <2>0. PICK g : g = [gen[r] EXCEPT !.pc = "served", !.end = "ok"]
    OBVIOUS
  <2>1. gen' = [gen EXCEPT ![r] = g]
    BY <1>7, <2>0 DEF Hold!Served
  <2>2. Works(gen[r])
    BY <1>7 DEF Hold!Served, Works
  <2>3. \A a \in c.accounts : a # b => rem'[a] = rem[a] /\ real'[a] = real[a]
    BY <1>0, <1>1, <1>7 DEF Hold!Served, Hold!row
  <2>4. Works(g) /\ g.acct = b /\ Covered(c, r, g, rem'[b], real'[b])
    <3>1. g.pc = "served" /\ g.acct = b
      BY <1>0, <1>1, <2>0 DEF Gens
    <3>2. rem'[b] # -100 => rem'[b] = real'[b]
      BY <1>0, <1>1, <1>2, <2>2, <1>7 DEF Covered, Right, Hold!Served, Hold!row
    <3> QED
      BY <3>1, <3>2 DEF Works, Covered, Right
  <2>5. /\ \A s \in c.requests : s # r /\ Works(gen[s]) => gen[s].acct # b
        /\ Works(gen[r]) => gen[r].acct = b
        /\ Works(g) => g.acct = b /\ Covered(c, r, g, rem'[b], real'[b])
        /\ ~Works(g) /\ b \in c.accounts => Right(rem'[b], real'[b])
    BY <1>0, <1>2, <2>2, <2>4
  <2> QED
    BY <2>1, <2>3, <2>5, OnlyItsRow
<1>8. CASE Hold(c)!quarantineOreateSpamAccount(r)
  <2>0. PICK g : g = Left(gen[r], "temp")
    OBVIOUS
  <2>1. gen' = [gen EXCEPT ![r] = g]
    BY <1>8, <2>0 DEF Hold!quarantineOreateSpamAccount, Hold!Leave, Hold!Unknown, Left
  <2>2. Works(gen[r])
    BY <1>8 DEF Hold!quarantineOreateSpamAccount, Works
  <2>3. \A a \in c.accounts : a # b => rem'[a] = rem[a] /\ real'[a] = real[a]
    BY <1>0, <1>1, <1>8 DEF Hold!quarantineOreateSpamAccount, Hold!RefundQuota
  <2>4. ~Works(g) /\ Right(rem'[b], real'[b])
    <3>1. g.pc \in {"listed", "ended"}
      BY <1>0, <1>1, <2>0 DEF Gens, Left
    <3>2. Right(rem'[b], real'[b])
      BY <1>0, <1>1, <1>2, <2>2, <1>8 DEF Covered, Right, Hold!quarantineOreateSpamAccount,
          Hold!RefundQuota, Hold!NeverNegative, Hold!Known, Hold!metaInt, Hold!Unknown
    <3> QED
      BY <3>1, <3>2 DEF Works
  <2>5. /\ \A s \in c.requests : s # r /\ Works(gen[s]) => gen[s].acct # b
        /\ Works(gen[r]) => gen[r].acct = b
        /\ Works(g) => g.acct = b /\ Covered(c, r, g, rem'[b], real'[b])
        /\ ~Works(g) /\ b \in c.accounts => Right(rem'[b], real'[b])
    BY <1>0, <1>2, <2>2, <2>4
  <2> QED
    BY <2>1, <2>3, <2>5, OnlyItsRow
<1>9. CASE Hold(c)!FetchCreditsBalance(r)
  <2>0. PICK g : g = [gen[r] EXCEPT !.pc = "fetched", !.seen = real[gen[r].acct]]
    OBVIOUS
  <2>1. gen' = [gen EXCEPT ![r] = g]
    BY <1>9, <2>0 DEF Hold!FetchCreditsBalance
  <2>2. Works(gen[r])
    BY <1>9 DEF Hold!FetchCreditsBalance, Works
  <2>3. \A a \in c.accounts : a # b => rem'[a] = rem[a] /\ real'[a] = real[a]
    BY <1>0, <1>1, <1>9 DEF Hold!FetchCreditsBalance, Hold!row
  <2>4. Works(g) /\ g.acct = b /\ Covered(c, r, g, rem'[b], real'[b])
    <3>1. g.pc = "fetched" /\ g.acct = b /\ g.seen = real[b]
      BY <1>0, <1>1, <2>0 DEF Gens
    <3>2. UNCHANGED <<rem, real>>
      BY <1>0, <1>1, <1>2, <2>2, <1>9 DEF Hold!FetchCreditsBalance, Hold!row
    <3> QED
      BY <3>1, <3>2 DEF Works, Covered, Right
  <2>5. /\ \A s \in c.requests : s # r /\ Works(gen[s]) => gen[s].acct # b
        /\ Works(gen[r]) => gen[r].acct = b
        /\ Works(g) => g.acct = b /\ Covered(c, r, g, rem'[b], real'[b])
        /\ ~Works(g) /\ b \in c.accounts => Right(rem'[b], real'[b])
    BY <1>0, <1>2, <2>2, <2>4
  <2> QED
    BY <2>1, <2>3, <2>5, OnlyItsRow
<1>10. CASE Hold(c)!FetchFails(r)
  <2>0. PICK g : g = IF gen[r].pc = "refused" THEN Left(gen[r],
      "quota") ELSE [gen[r] EXCEPT !.pc = "ended"]
    OBVIOUS
  <2>1. gen' = [gen EXCEPT ![r] = g]
    BY <1>10, <2>0 DEF Hold!FetchFails, Hold!Leave, Hold!Unknown, Left
  <2>2. Works(gen[r])
    BY <1>10 DEF Hold!FetchFails, Works
  <2>3. \A a \in c.accounts : a # b => rem'[a] = rem[a] /\ real'[a] = real[a]
    BY <1>0, <1>1, <1>10 DEF Hold!FetchFails
  <2>4. ~Works(g) /\ Right(rem'[b], real'[b])
    <3>1. g.pc \in {"listed", "ended"}
      BY <1>0, <1>1, <2>0 DEF Gens, Left
    <3>2. Right(rem'[b], real'[b])
      BY <1>0, <1>1, <1>2, <2>2, <1>10 DEF Covered, Right, Hold!FetchFails
    <3> QED
      BY <3>1, <3>2 DEF Works
  <2>5. /\ \A s \in c.requests : s # r /\ Works(gen[s]) => gen[s].acct # b
        /\ Works(gen[r]) => gen[r].acct = b
        /\ Works(g) => g.acct = b /\ Covered(c, r, g, rem'[b], real'[b])
        /\ ~Works(g) /\ b \in c.accounts => Right(rem'[b], real'[b])
    BY <1>0, <1>2, <2>2, <2>4
  <2> QED
    BY <2>1, <2>3, <2>5, OnlyItsRow
<1>11. CASE Hold(c)!ViewRow(r)
  <2>0. PICK g : g = [gen[r] EXCEPT !.pc = "viewed", !.view = holdStatus[gen[r].acct]]
    OBVIOUS
  <2>1. gen' = [gen EXCEPT ![r] = g]
    BY <1>11, <2>0 DEF Hold!ViewRow
  <2>2. Works(gen[r])
    BY <1>11 DEF Hold!ViewRow, Works
  <2>3. \A a \in c.accounts : a # b => rem'[a] = rem[a] /\ real'[a] = real[a]
    BY <1>0, <1>1, <1>11 DEF Hold!ViewRow, Hold!row
  <2>4. Works(g) /\ g.acct = b /\ Covered(c, r, g, rem'[b], real'[b])
    <3>1. g.pc = "viewed" /\ g.acct = b /\ g.seen = gen[r].seen
      BY <1>0, <1>1, <2>0 DEF Gens
    <3>2. UNCHANGED <<rem, real>> /\ gen[r].seen = real[b]
      BY <1>0, <1>1, <1>2, <2>2, <1>11 DEF Covered, Right, Hold!ViewRow, Hold!row
    <3> QED
      BY <3>1, <3>2 DEF Works, Covered, Right
  <2>5. /\ \A s \in c.requests : s # r /\ Works(gen[s]) => gen[s].acct # b
        /\ Works(gen[r]) => gen[r].acct = b
        /\ Works(g) => g.acct = b /\ Covered(c, r, g, rem'[b], real'[b])
        /\ ~Works(g) /\ b \in c.accounts => Right(rem'[b], real'[b])
    BY <1>0, <1>2, <2>2, <2>4
  <2> QED
    BY <2>1, <2>3, <2>5, OnlyItsRow
<1>12. CASE Hold(c)!Reconcile(r)
  <2>0. PICK g : g = IF gen[r].end = "ok" THEN [gen[r] EXCEPT !.pc = "ended"] ELSE Left(gen[r], "quota")
    OBVIOUS
  <2>1. gen' = [gen EXCEPT ![r] = g]
    BY <1>12, <2>0 DEF Hold!Reconcile, Hold!Leave, Hold!Unknown, Left
  <2>2. Works(gen[r])
    BY <1>12 DEF Hold!Reconcile, Works
  <2>3. \A a \in c.accounts : a # b => rem'[a] = rem[a] /\ real'[a] = real[a]
    BY <1>0, <1>1, <1>12 DEF Hold!Reconcile
  <2>4. ~Works(g) /\ Right(rem'[b], real'[b])
    <3>1. g.pc \in {"listed", "ended"}
      BY <1>0, <1>1, <2>0 DEF Gens, Left
    <3>2. Right(rem'[b], real'[b])
      BY <1>0, <1>1, <1>2, <2>2, <1>12 DEF Covered, Right, Hold!Reconcile
    <3> QED
      BY <3>1, <3>2 DEF Works
  <2>5. /\ \A s \in c.requests : s # r /\ Works(gen[s]) => gen[s].acct # b
        /\ Works(gen[r]) => gen[r].acct = b
        /\ Works(g) => g.acct = b /\ Covered(c, r, g, rem'[b], real'[b])
        /\ ~Works(g) /\ b \in c.accounts => Right(rem'[b], real'[b])
    BY <1>0, <1>2, <2>2, <2>4
  <2> QED
    BY <2>1, <2>3, <2>5, OnlyItsRow
<1>13. ASSUME NEW e \in {"quota", "temp", "auth"}, Hold(c)!Refused(r, e)
       PROVE  OneAtATime(c)' /\ RestsRight(c)' /\ AllCovered(c)'
  <2>0. PICK g : g = IF e = "quota" /\ c.pool = "oreate" THEN [gen[r] EXCEPT !.pc = "refused",
      !.end = e, !.held = FALSE] ELSE Left(gen[r], e)
    OBVIOUS
  <2>1. gen' = [gen EXCEPT ![r] = g]
    BY <1>13, <2>0 DEF Hold!Refused, Hold!Leave, Hold!Unknown, Left
  <2>2. Works(gen[r])
    BY <1>13 DEF Hold!Refused, Works
  <2>3. \A a \in c.accounts : a # b => rem'[a] = rem[a] /\ real'[a] = real[a]
    BY <1>0, <1>1, <1>13 DEF Hold!Refused, Hold!RefundQuota
  <2>4. /\ Works(g) => g.acct = b /\ Covered(c, r, g, rem'[b], real'[b])
        /\ Right(rem'[b], real'[b])
    <3>1. g.pc = "listed" \/ (g.pc = "refused" /\ g.acct = b)
      <4>1. gen[r].pc = "held"
        BY <1>13 DEF Hold!Refused
      <4>2. CASE e = "quota" /\ c.pool = "oreate"
        <5>1. g = [gen[r] EXCEPT !.pc = "refused", !.end = e, !.held = FALSE]
          BY <2>0, <4>2
        <5> QED
          BY <1>0, <1>1, <5>1 DEF Gens
      <4>3. CASE ~(e = "quota" /\ c.pool = "oreate")
        <5>1. g = Left(gen[r], e)
          BY <2>0, <4>3
        <5>2. e \in {"", "ok", "no_account", "quota", "temp", "auth"}
          OBVIOUS
        <5>3. Left(gen[r], e).pc = "listed"
          BY <1>1, <5>2, LeftTypes
        <5> QED
          BY <5>1, <5>3
      <4> QED
        BY <4>2, <4>3
    <3>2. Right(rem'[b], real'[b])
      BY <1>0, <1>1, <1>2, <2>2, <1>13 DEF Covered, Right, Hold!Refused, Hold!RefundQuota,
          Hold!NeverNegative, Hold!Known,
        Hold!metaInt, Hold!Unknown
    <3> QED
      BY <3>1, <3>2 DEF Works, Covered, Right
  <2>5. /\ \A s \in c.requests : s # r /\ Works(gen[s]) => gen[s].acct # b
        /\ Works(gen[r]) => gen[r].acct = b
        /\ Works(g) => g.acct = b /\ Covered(c, r, g, rem'[b], real'[b])
        /\ ~Works(g) /\ b \in c.accounts => Right(rem'[b], real'[b])
    BY <1>0, <1>2, <2>2, <2>4
  <2> QED
    BY <2>1, <2>3, <2>5, OnlyItsRow
<1>14. ~Hold(c)!Cancel(r)
  BY DEF Hold!Cancel, Undisturbed, RestInv, HoldTypes, RowTypes
<1> QED
  BY <1>3, <1>4, <1>5, <1>6, <1>7, <1>8, <1>9, <1>10, <1>11, <1>12, <1>13, <1>14 DEF Hold!GenStep

\* At first nobody is at work, and every row that is known is right.
LEMMA RestInitially ==
  ASSUME NEW CONSTANT c, Hold(c)!QuotaHoldAssumption, Hold(c)!Init
  PROVE  RestInv(c)
<1>1. \A r \in c.requests : gen[r].pc = "start"
  BY DEF Hold!Init, Hold!Nobody
<1>2. \A a \in c.accounts : Right(rem[a], real[a])
  BY DEF Hold!Init, Hold!Unknown, Right, Hold!QuotaHoldAssumption
<1>3. NoneRecovered(c)
  BY DEF Hold!Init, NoneRecovered
<1> QED
  BY <1>1, <1>2, <1>3, HoldInitially DEF RestInv, OneAtATime, RestsRight, AllCovered, Covered, Works

\* Alone at its account, whatever a generation does leaves the real balance there.
LEMMA RestStep ==
  ASSUME NEW CONSTANT c, Hold(c)!QuotaHoldAssumption, Undisturbed(c), RestInv(c), [Hold(c)!Next]_holdVars
  PROVE  RestInv(c)'
<1>1. HoldTypes(c) /\ Hold(c)!NeverNegative /\ NoneRecovered(c)
  BY DEF RestInv
<1>2. HoldTypes(c)' /\ Hold(c)!NeverNegative' /\ NoneRecovered(c)'
  BY <1>1, HoldTypesStep, NeverNegativeStep, NoneRecoveredStep
<1>3. ASSUME UNCHANGED <<gen, rem, real>> PROVE OneAtATime(c)' /\ RestsRight(c)' /\ AllCovered(c)'
  BY <1>3 DEF RestInv, OneAtATime, RestsRight, AllCovered
<1>4. ASSUME NEW r \in c.requests, Hold(c)!GenStep(r) \/ Hold(c)!Cancel(r)
      PROVE  OneAtATime(c)' /\ RestsRight(c)' /\ AllCovered(c)'
  BY <1>4, RestGenStep
<1>5. ASSUME Hold(c)!SweepStep PROVE OneAtATime(c)' /\ RestsRight(c)' /\ AllCovered(c)'
  <2>1. ~\E a \in c.accounts : Hold(c)!RecoverOne(a) \/ Hold(c)!RollResetMarkers(a)
    BY <1>1 DEF NoneRecovered, Hold!RecoverOne, Hold!RollResetMarkers
  <2> QED
    BY <1>3, <1>5, <2>1 DEF Hold!SweepStep, Hold!RecoverStart, Hold!RollStart, Hold!RollEnd, Hold!row
<1>6. ASSUME NEW a \in c.accounts, Hold(c)!SpamExpires(a)
      PROVE  OneAtATime(c)' /\ RestsRight(c)' /\ AllCovered(c)'
  BY <1>3, <1>6 DEF Hold!SpamExpires, Hold!row
<1>7. ASSUME UNCHANGED holdVars PROVE OneAtATime(c)' /\ RestsRight(c)' /\ AllCovered(c)'
  BY <1>3, <1>7 DEF holdVars
<1>8. OneAtATime(c)' /\ RestsRight(c)' /\ AllCovered(c)'
  BY <1>4, <1>5, <1>6, <1>7 DEF Hold!Next, Hold!Reset, Undisturbed
<1> QED
  BY <1>2, <1>8 DEF RestInv

\* So an account at rest has its real balance.
LEMMA RestImplies ==
  ASSUME NEW CONSTANT c, Hold(c)!QuotaHoldAssumption, RestInv(c)
  PROVE  Hold(c)!RestIsReal
<1> SUFFICES ASSUME NEW a \in c.accounts, Hold(c)!At(a) = {} PROVE Right(rem[a], real[a])
  BY DEF Hold!RestIsReal, Hold!Known, Hold!metaInt, Hold!Unknown, Right
<1>1. \A r \in c.requests : Works(gen[r]) => gen[r].acct # a
  BY DEF Hold!At, Works
<1> QED
  BY <1>1 DEF RestInv, RestsRight

-----------------------------------------------------------------------------
(* Oreate accounts that are sunk.                                          *)

\* Nobody's read of a balance fails, no credits are granted: whoever has read a balance
\* knows at least what is left, for balances only fall.
Falling(c) == c.pool = "oreate" /\ c.blips = FALSE /\ c.resets = {}
ReadsBound(c) ==
  /\ \A r \in c.requests : gen[r].pc \in {"fetched", "viewed"} => real[gen[r].acct] <= gen[r].seen
  /\ \A p \in c.probers : probe[p].pc \in {"view", "write"} => real[probe[p].acct] <= probe[p].seen
SunkInv(c) == HoldTypes(c) /\ ReadsBound(c)

\* At first nobody has read a balance.
LEMMA SunkInitially ==
  ASSUME NEW CONSTANT c, Hold(c)!QuotaHoldAssumption, Hold(c)!Init
  PROVE  SunkInv(c)
<1>1. \A r \in c.requests : gen[r].pc = "start"
  BY DEF Hold!Init, Hold!Nobody
<1>2. \A p \in c.probers : probe[p].pc = "idle"
  BY DEF Hold!Init, Hold!Idle
<1> QED
  BY <1>1, <1>2, HoldInitially DEF SunkInv, ReadsBound

\* Who reads a balance reads the real one; otherwise what was read stays.
LEMMA ReadsStay ==
  ASSUME NEW CONSTANT c, HoldTypes(c), [Hold(c)!Next]_holdVars
  PROVE  /\ \A r \in c.requests : gen'[r].pc \in {"fetched", "viewed"} =>
              \/ gen'[r].acct = gen[r].acct /\ gen'[r].seen = real[gen[r].acct] /\ UNCHANGED real
              \/ /\ gen[r].pc \in {"fetched", "viewed"}
                 /\ gen'[r].acct = gen[r].acct /\ gen'[r].seen = gen[r].seen
         /\ \A p \in c.probers : probe'[p].pc \in {"view", "write"} =>
              \/ probe'[p].acct = probe[p].acct /\ probe'[p].seen = real[probe[p].acct] /\ UNCHANGED real
              \/ /\ probe[p].pc \in {"view", "write"}
                 /\ probe'[p].acct = probe[p].acct /\ probe'[p].seen = probe[p].seen
<1>0. gen \in [c.requests -> Gens(c)] /\ probe \in [c.probers -> Probes(c)]
  BY DEF HoldTypes, GenTypes, ProbeTypes
<1>1. ASSUME NEW s \in c.requests, Hold(c)!GenStep(s) \/ Hold(c)!Cancel(s),
             gen'[s].pc \in {"fetched", "viewed"}
      PROVE  Hold(c)!FetchCreditsBalance(s) \/ Hold(c)!ViewRow(s)
  <2>1. ASSUME Hold(c)!List(s) PROVE gen'[s].pc \in {"listed", "ended"}
    BY <1>0, <2>1 DEF Hold!List, Gens
  <2>2. ASSUME Hold(c)!GiveUp(s) \/ Hold(c)!Cancel(s) PROVE gen'[s].pc = "ended"
    BY <1>0, <2>2 DEF Hold!GiveUp, Hold!Cancel, Gens
  <2>3. ASSUME Hold(c)!ReserveQuota(s) PROVE gen'[s].pc = "held"
    BY <1>0, <2>3 DEF Hold!ReserveQuota, Gens
  <2>4. ASSUME NEW e \in {"quota", "temp", "auth"}, gen' = Hold(c)!Leave(s,
      e) PROVE gen'[s].pc = "listed"
    <3>1. gen' = [gen EXCEPT ![s] = Left(gen[s], e)]
      BY <2>4 DEF Hold!Leave, Left, Hold!Unknown
    <3>2. gen'[s] = Left(gen[s], e)
      BY <1>0, <3>1
    <3>3. e \in {"", "ok", "no_account", "quota", "temp", "auth"} /\ gen[s] \in Gens(c)
      BY <1>0
    <3>4. Left(gen[s], e).pc = "listed"
      BY <3>3, LeftTypes
    <3> QED
      BY <3>2, <3>4
  <2>5. ASSUME Hold(c)!Served(s) PROVE gen'[s].pc = "served"
    BY <1>0, <2>5 DEF Hold!Served, Gens
  <2>6. ASSUME NEW a \in c.accounts, Hold(c)!Pick(s, a) PROVE gen'[s].pc = "picked"
    BY <1>0, <2>6 DEF Hold!Pick, Gens
  <2>7. ASSUME NEW e \in {"quota", "temp", "auth"}, Hold(c)!Refused(s,
      e) PROVE gen'[s].pc \in {"refused", "listed"}
    <3>1. CASE gen' = Hold(c)!Leave(s, e)
      BY <2>4, <3>1
    <3>2. CASE gen' = [gen EXCEPT ![s].pc = "refused", ![s].end = e, ![s].held = FALSE]
      BY <1>0, <3>2 DEF Gens
    <3> QED
      BY <2>7, <3>1, <3>2 DEF Hold!Refused
  <2>8. ASSUME gen' = [gen EXCEPT ![s].pc = "ended"] PROVE gen'[s].pc = "ended"
    BY <1>0, <2>8 DEF Gens
  <2>9. ASSUME Hold(c)!FetchFails(s) \/ Hold(c)!Reconcile(s) PROVE gen'[s].pc \in {"ended", "listed"}
    <3>1. gen' = [gen EXCEPT ![s].pc = "ended"] \/ gen' = Hold(c)!Leave(s, "quota")
      BY <2>9 DEF Hold!FetchFails, Hold!Reconcile
    <3> QED
      BY <2>4, <2>8, <3>1
  <2>10. ASSUME Hold(c)!NotAllowed(s) \/ Hold(c)!quarantineOreateSpamAccount(s)
         PROVE  gen'[s].pc = "listed"
    BY <2>4, <2>10 DEF Hold!NotAllowed, Hold!quarantineOreateSpamAccount
  <2> QED
    BY <1>1, <2>1, <2>2, <2>3, <2>5, <2>6, <2>7, <2>9, <2>10 DEF Hold!GenStep
<1>2. ASSUME NEW s \in c.requests, Hold(c)!GenStep(s) \/ Hold(c)!Cancel(s), NEW r \in c.requests, r # s
      PROVE  gen'[r] = gen[r]
  BY <1>0, <1>2 DEF Hold!GenStep, Hold!List, Hold!GiveUp, Hold!ReserveQuota, Hold!NotAllowed,
      Hold!Served,
    Hold!quarantineOreateSpamAccount, Hold!FetchCreditsBalance, Hold!FetchFails, Hold!ViewRow,
        Hold!Reconcile,
    Hold!Pick, Hold!Refused, Hold!Cancel, Hold!Leave
<1> DEFINE GensRead ==
      \A r \in c.requests : gen'[r].pc \in {"fetched", "viewed"} =>
         \/ gen'[r].acct = gen[r].acct /\ gen'[r].seen = real[gen[r].acct] /\ UNCHANGED real
         \/ /\ gen[r].pc \in {"fetched", "viewed"}
            /\ gen'[r].acct = gen[r].acct /\ gen'[r].seen = gen[r].seen
           ProbesRead ==
      \A p \in c.probers : probe'[p].pc \in {"view", "write"} =>
         \/ probe'[p].acct = probe[p].acct /\ probe'[p].seen = real[probe[p].acct] /\ UNCHANGED real
         \/ /\ probe[p].pc \in {"view", "write"}
            /\ probe'[p].acct = probe[p].acct /\ probe'[p].seen = probe[p].seen
<1>3. ASSUME NEW s \in c.requests,
    Hold(c)!GenStep(s) \/ Hold(c)!Cancel(s) PROVE GensRead /\ UNCHANGED probe
  <2>1. UNCHANGED probe
    BY <1>3 DEF Hold!GenStep, Hold!List, Hold!GiveUp, Hold!ReserveQuota, Hold!NotAllowed, Hold!Served,
      Hold!quarantineOreateSpamAccount, Hold!FetchCreditsBalance, Hold!FetchFails, Hold!ViewRow,
          Hold!Reconcile,
      Hold!Pick, Hold!Refused, Hold!Cancel
  <2>2. CASE Hold(c)!FetchCreditsBalance(s)
    BY <1>0, <2>1, <2>2 DEF Hold!FetchCreditsBalance, Gens
  <2>3. CASE Hold(c)!ViewRow(s)
    BY <1>0, <2>1, <2>3 DEF Hold!ViewRow, Gens
  <2> QED
    BY <1>1, <1>2, <1>3, <2>1, <2>2, <2>3
<1>4. ASSUME NEW p \in c.probers, Hold(c)!ProbeStep(p) \/ \E a \in c.accounts : Hold(c)!QuotaStart(p, a)
      PROVE  ProbesRead /\ UNCHANGED gen
  BY <1>0, <1>4 DEF Hold!ProbeStep, Hold!QuotaFetch, Hold!QuotaFails, Hold!QuotaView, Hold!QuotaWrite,
    Hold!QuotaStart, Hold!Idle, Probes
<1>5. ASSUME \/ Hold(c)!SweepStep \/ \E a \in c.accounts : Hold(c)!Reset(a) \/ Hold(c)!SpamExpires(a)
             \/ UNCHANGED holdVars
      PROVE  UNCHANGED <<gen, probe>>
  BY <1>5 DEF Hold!SweepStep, Hold!RecoverStart, Hold!RollStart, Hold!RollEnd, Hold!RecoverOne,
    Hold!RollResetMarkers, Hold!Reset, Hold!SpamExpires, holdVars
<1>6. UNCHANGED gen => GensRead
  OBVIOUS
<1>7. UNCHANGED probe => ProbesRead
  OBVIOUS
<1> HIDE DEF GensRead, ProbesRead
<1>8. GensRead /\ ProbesRead
  BY <1>3, <1>4, <1>5, <1>6, <1>7 DEF Hold!Next
<1> QED
  BY <1>8 DEF GensRead, ProbesRead

\* Only a generation that is served changes a balance, and an account is sunk by who has
\* read less than the floor.
LEMMA SunkStep ==
  ASSUME NEW CONSTANT c, Hold(c)!QuotaHoldAssumption, Falling(c), SunkInv(c), [Hold(c)!Next]_holdVars
  PROVE  SunkInv(c)' /\ Hold(c)!SinksTheShort
<1>1. /\ HoldTypes(c) /\ HoldTypes(c)'
      /\ gen \in [c.requests -> Gens(c)] /\ probe \in [c.probers -> Probes(c)]
      /\ real \in [c.accounts -> Nat] /\ real' \in [c.accounts -> Nat]
      /\ holdStatus \in [c.accounts -> Statuses] /\ c.minCredits \in Nat
      /\ \A r \in c.requests : OnAccount(c, gen[r])
      /\ \A p \in c.probers : ProbesAccount(c, probe[p])
      /\ \A r \in c.requests : gen[r].pc \in {"fetched", "viewed"} => real[gen[r].acct] <= gen[r].seen
      /\ \A p \in c.probers : probe[p].pc \in {"view", "write"} => real[probe[p].acct] <= probe[p].seen
      /\ \A r \in c.requests : OnAccount(c, gen'[r])
      /\ \A p \in c.probers : ProbesAccount(c, probe'[p])
  BY HoldTypesStep DEF SunkInv, ReadsBound, HoldTypes, RowTypes, GenTypes, ProbeTypes,
      Hold!QuotaHoldAssumption
<1>2. \A a \in c.accounts : real'[a] <= real[a]
  <2>1. UNCHANGED real \/ \E r \in c.requests : Hold(c)!Served(r)
    BY DEF Hold!Next, Hold!GenStep, Hold!ProbeStep, Hold!SweepStep, Hold!List, Hold!GiveUp,
        Hold!ReserveQuota,
      Hold!NotAllowed, Hold!quarantineOreateSpamAccount, Hold!FetchCreditsBalance, Hold!FetchFails,
          Hold!ViewRow,
      Hold!Reconcile, Hold!Pick, Hold!Refused, Hold!Cancel, Hold!QuotaFetch, Hold!QuotaFails,
          Hold!QuotaView,
      Hold!QuotaWrite, Hold!QuotaStart, Hold!RecoverStart, Hold!RollStart, Hold!RollEnd, Hold!RecoverOne,
      Hold!RollResetMarkers, Hold!Reset, Hold!SpamExpires, Falling, holdVars
  <2>2. ASSUME NEW r \in c.requests, Hold(c)!Served(r) PROVE \A a \in c.accounts : real'[a] <= real[a]
    <3>1. real' = [real EXCEPT ![gen[r].acct] = @ - c.cost[r]] /\ c.cost[r] \in Nat
      BY <2>2 DEF Hold!Served, Hold!QuotaHoldAssumption
    <3> QED
      BY <1>1, <3>1
  <2> QED
    BY <1>1, <2>1, <2>2
<1>3. ASSUME NEW r \in c.requests, gen'[r].pc \in {"fetched", "viewed"}
      PROVE  real'[gen'[r].acct] <= gen'[r].seen
  <2>1. gen'[r].acct \in c.accounts /\ gen'[r].seen \in Nat
    BY <1>1, <1>3 DEF OnAccount
  <2>2. \/ gen'[r].acct = gen[r].acct /\ gen'[r].seen = real[gen[r].acct] /\ UNCHANGED real
        \/ /\ gen[r].pc \in {"fetched", "viewed"}
           /\ gen'[r].acct = gen[r].acct /\ gen'[r].seen = gen[r].seen
    BY <1>1, <1>3, ReadsStay
  <2> QED
    BY <1>1, <1>2, <2>1, <2>2
<1>4. ASSUME NEW p \in c.probers, probe'[p].pc \in {"view", "write"}
      PROVE  real'[probe'[p].acct] <= probe'[p].seen
  <2>1. probe'[p].acct \in c.accounts /\ probe'[p].seen \in Nat
    BY <1>1, <1>4 DEF ProbesAccount
  <2>2. \/ probe'[p].acct = probe[p].acct /\ probe'[p].seen = real[probe[p].acct] /\ UNCHANGED real
        \/ /\ probe[p].pc \in {"view", "write"}
           /\ probe'[p].acct = probe[p].acct /\ probe'[p].seen = probe[p].seen
    BY <1>1, <1>4, ReadsStay
  <2> QED
    BY <1>1, <1>2, <2>1, <2>2
<1>5. SunkInv(c)'
  BY <1>1, <1>3, <1>4 DEF SunkInv, ReadsBound
<1>6. ASSUME NEW a \in c.accounts, holdStatus[a] # "quota", holdStatus'[a] = "quota"
      PROVE  real[a] < c.minCredits
  <2>1. ASSUME NEW r \in c.requests, Hold(c)!Reconcile(r) PROVE real[a] < c.minCredits
    <3>1. gen[r].pc = "viewed" /\ gen[r].acct \in c.accounts /\ gen[r].seen \in Nat
      BY <1>1, <2>1 DEF Hold!Reconcile, OnAccount
    <3>2. a = gen[r].acct /\ gen[r].seen < c.minCredits
      BY <1>1, <1>6, <2>1, <3>1 DEF Hold!Reconcile, Hold!StatusFor, Hold!oreateStatusForBalance
    <3> QED
      BY <1>1, <3>1, <3>2
  <2>2. ASSUME NEW p \in c.probers, Hold(c)!QuotaWrite(p) PROVE real[a] < c.minCredits
    <3>1. probe[p].pc = "write" /\ probe[p].acct \in c.accounts /\ probe[p].seen \in Nat
      BY <1>1, <2>2 DEF Hold!QuotaWrite, ProbesAccount
    <3>2. a = probe[p].acct /\ probe[p].seen < c.minCredits
      BY <1>1, <1>6, <2>2, <3>1 DEF Hold!QuotaWrite, Hold!Synced, Hold!StatusFor,
          Hold!oreateStatusForBalance
    <3> QED
      BY <1>1, <3>1, <3>2
  <2>3. ASSUME NEW r \in c.requests, Hold(c)!GenStep(r) \/ Hold(c)!Cancel(r), ~Hold(c)!Reconcile(r)
        PROVE  FALSE
    BY <1>1, <1>6, <2>3 DEF Hold!GenStep, Hold!List, Hold!GiveUp, Hold!ReserveQuota, Hold!NotAllowed,
        Hold!Served,
      Hold!quarantineOreateSpamAccount, Hold!FetchCreditsBalance, Hold!FetchFails, Hold!ViewRow,
      Hold!Pick, Hold!Refused, Hold!Cancel, Hold!row, Hold!Failed, Falling
  <2>4. ASSUME NEW p \in c.probers,
      Hold(c)!ProbeStep(p) \/ \E b \in c.accounts : Hold(c)!QuotaStart(p, b),
               ~Hold(c)!QuotaWrite(p)
        PROVE  FALSE
    BY <1>6, <2>4 DEF Hold!ProbeStep, Hold!QuotaFetch, Hold!QuotaFails, Hold!QuotaView,
        Hold!QuotaStart, Hold!row
  <2>5. ASSUME \/ Hold(c)!SweepStep \/ \E b \in c.accounts : Hold(c)!Reset(b) \/ Hold(c)!SpamExpires(b)
               \/ UNCHANGED holdVars
        PROVE  FALSE
    BY <1>1, <1>6, <2>5 DEF Hold!SweepStep, Hold!RecoverStart, Hold!RollStart, Hold!RollEnd,
        Hold!RecoverOne,
      Hold!RollResetMarkers, Hold!Reset, Hold!SpamExpires, Hold!row, holdVars
  <2> QED
    BY <2>1, <2>2, <2>3, <2>4, <2>5 DEF Hold!Next
<1> QED
  BY <1>5, <1>6 DEF Hold!SinksTheShort

-----------------------------------------------------------------------------
(* The balances of the pools.                                              *)

HoldInv ==
  /\ part = "held" => HoldTypes(Case.held) /\ Hold(Case.held)!NeverNegative
  /\ part = "alone" => RestInv(Case.alone)

\* What the components assume of their constants is assumed of the cases.
LEMMA HoldAssumptions ==
  /\ Hold(Case.held)!QuotaHoldAssumption
  /\ Hold(Case.alone)!QuotaHoldAssumption
  /\ Hold(Case.sunk)!QuotaHoldAssumption
BY PoolsAssumption

\* It holds at first.
LEMMA HoldInvInitially == PoolsInit => HoldInv
<1>1. PoolsInit => /\ part = "held" => Hold(Case.held)!Init
                   /\ part = "alone" => Hold(Case.alone)!Init
  BY DEF PoolsInit, Its
<1> QED
  BY <1>1, HoldAssumptions, HoldInitially, RestInitially DEF HoldInv

\* Every step keeps it.
LEMMA HoldInvStep ==
  ASSUME Undisturbed(Case.alone), HoldInv, [PoolsNext]_vars
  PROVE  HoldInv'
BY PartsAlone, HoldAssumptions, HoldTypesStep, NeverNegativeStep, RestStep DEF HoldInv

\* It is enough.
LEMMA HoldInvImplies == HoldInv => BalancesAreRight
<1> SUFFICES ASSUME HoldInv PROVE BalancesAreRight
  OBVIOUS
<1>1. ASSUME HoldTypes(Case.held) PROVE Hold(Case.held)!QuotaHoldTypeOK
  BY <1>1 DEF HoldTypes, RowTypes, GenTypes, ProbeTypes, Gens, Probes, Statuses, Hold!QuotaHoldTypeOK,
      Hold!Statuses
<1> QED
  BY <1>1, HoldAssumptions, RestImplies DEF HoldInv, BalancesAreRight

\* Whatever the accounts, the generations and the probes: no interleaving of holds,
\* returns and overwrites makes a balance negative; and where one job at a time runs and
\* nobody else writes, an account at rest has its real balance on the row.
THEOREM Pools_BalancesAreRight ==
  ASSUME Undisturbed(Case.alone)
  PROVE  PoolsSpec => []BalancesAreRight
<1>1. HoldInv /\ [PoolsNext]_vars => HoldInv'
  BY HoldInvStep
<1> QED
  BY <1>1, HoldInvInitially, HoldInvImplies, PTL DEF PoolsSpec

\* Whatever the accounts, the costs and the floor: where a balance only falls and no read
\* of one fails, an account is sunk only while its real balance is below the floor.
THEOREM Pools_SinksTheShort ==
  ASSUME Falling(Case.sunk)
  PROVE  PoolsSpec => [][part = "sunk" => Hold(Case.sunk)!SinksTheShort]_vars
<1> DEFINE I == part = "sunk" => SunkInv(Case.sunk)
<1>1. PoolsInit => I
  <2>1. PoolsInit => (part = "sunk" => Hold(Case.sunk)!Init)
    BY DEF PoolsInit, Its
  <2> QED
    BY <2>1, HoldAssumptions, SunkInitially
<1>2. I /\ [PoolsNext]_vars => I' /\ (part = "sunk" => Hold(Case.sunk)!SinksTheShort)
  BY PartsAlone, HoldAssumptions, SunkStep
<1> QED
  BY <1>1, <1>2, PTL DEF PoolsSpec

-----------------------------------------------------------------------------
(* The single pass over a pool.                                            *)

PassReqs(c) ==
  [pc : {"runway", "grok", "custom", "start", "round", "trying", "ended"}, list : Seq(c.accounts), i : Nat,
   err : {"", "ok", "no_account", "full", "auth", "quota", "temp", "param"}, tried : SUBSET c.accounts]

\* Where a generation is in its list, and why it goes on.
InList(g) ==
  /\ g.i \in 1..Len(g.list) + 1
  /\ g.pc \notin {"round", "trying", "ended"} => g.i = 1
  /\ g.pc = "trying" => g.i \in 1..Len(g.list)
Untried(g) ==
  /\ g.pc # "ended" => g.err \in {"", "auth", "quota", "temp"}
  /\ g.pc \in {"runway", "grok", "custom", "start"} => g.tried = {}
  /\ g.pc = "round" /\ g.err = "" => g.tried = {}
  /\ g.err = "full" => g.tried = {}

PassTypes(c) ==
  /\ passStatus \in [c.accounts -> {"active", "quota", "disabled"}]
  /\ passCached \in [c.accounts -> Int] /\ \A a \in c.accounts : passCached[a] \in {-1} \cup 0..c.credits[a]
  /\ credit \in [c.accounts -> Nat] /\ \A a \in c.accounts : credit[a] \in 0..c.credits[a]
  /\ passHolders \in [c.accounts -> SUBSET c.requests]
  /\ known \subseteq c.accounts /\ passGone \subseteq c.requests /\ unheard \subseteq c.requests
  /\ passReq \in [c.requests -> PassReqs(c)]
  /\ \A r \in c.requests : InList(passReq[r]) /\ Untried(passReq[r])

\* A generation is at work on an account.
WorksOn(r, a) == passReq[r].pc = "trying" /\ passReq[r].list[passReq[r].i] = a

\* Whose commands all got through has the slot of the account it works on and no other,
\* and no account has more slots taken than it has.
SlotsHeld(c) ==
  \A a \in c.accounts :
    /\ \A r \in c.requests \ unheard : r \in passHolders[a] <=> WorksOn(r, a)
    /\ IsFiniteSet(passHolders[a])
    /\ Cardinality(passHolders[a]) <= Pass(c)!Slots(a)

\* An account that was found spent is marked.
SpentMarked(c) ==
  \A a \in known : /\ c.poolOf[a] = "runway" => passStatus[a] = "disabled"
                   /\ c.poolOf[a] = "custom" => passStatus[a] = "quota"

PassInv(c) == PassTypes(c) /\ SlotsHeld(c) /\ SpentMarked(c)

\* The instance's own operators are those of the standard modules.
LEMMA PassCount ==
  ASSUME NEW CONSTANT c
  PROVE  \A S : /\ Pass(c)!Cardinality(S) = Cardinality(S) /\ Pass(c)!IsFiniteSet(S) = IsFiniteSet(S)
BY DEF Pass!Cardinality, Cardinality, Pass!IsFiniteSet, IsFiniteSet

\* Every account has a slot.
LEMMA SlotsCount ==
  ASSUME NEW CONSTANT c, Pass(c)!SinglePassAssumption, NEW a \in c.accounts
  PROVE  Pass(c)!Slots(a) \in Nat /\ Pass(c)!Slots(a) >= 1
<1>1. c.concurrency[a] \in Nat
  BY DEF Pass!SinglePassAssumption
<1>2. CASE c.poolOf[a] = "runway"
  BY <1>2 DEF Pass!Slots
<1>3. CASE c.poolOf[a] = "grok"
  BY <1>3 DEF Pass!Slots, Pass!grokConcurrencyPerAccount
<1>4. CASE c.poolOf[a] \notin {"runway", "grok"}
  BY <1>1, <1>4 DEF Pass!Slots
<1> QED
  BY <1>2, <1>3, <1>4

\* Slots that are given back leave no more taken.
LEMMA FewerSlots ==
  ASSUME NEW CONSTANT c, Pass(c)!SinglePassAssumption, SlotsHeld(c),
         \A b \in c.accounts : passHolders'[b] \subseteq passHolders[b]
  PROVE  \A b \in c.accounts : IsFiniteSet(passHolders'[b]) /\ Cardinality(passHolders'[b]) <= Pass(c)!Slots(b)
<1> TAKE b \in c.accounts
<1>1. /\ passHolders'[b] \subseteq passHolders[b] /\ IsFiniteSet(passHolders[b])
      /\ Cardinality(passHolders[b]) <= Pass(c)!Slots(b)
  BY DEF SlotsHeld
<1>2. /\ IsFiniteSet(passHolders'[b]) /\ Cardinality(passHolders'[b]) <= Cardinality(passHolders[b])
      /\ Cardinality(passHolders'[b]) \in Nat /\ Cardinality(passHolders[b]) \in Nat
  BY <1>1, FS_Subset, FS_CardinalityType
<1> QED
  BY <1>1, <1>2, SlotsCount

\* A list of a pool's accounts in any order.
LEMMA OrdersAreLists ==
  ASSUME NEW CONSTANT c, NEW S, IsFiniteSet(S), NEW order \in Pass(c)!Bijection(1..Pass(c)!Cardinality(S), S)
  PROVE  order \in Seq(S) /\ Len(order) = Cardinality(S) /\ Pass(c)!Range(order) \subseteq S
<1>1. Pass(c)!Cardinality(S) = Cardinality(S) /\ Cardinality(S) \in Nat
  BY PassCount, FS_CardinalityType
<1>2. order \in [1..Cardinality(S) -> S]
  BY <1>1 DEF Pass!Bijection, Pass!Injection
<1> QED
  BY <1>1, <1>2 DEF Pass!Range

\* What a generation keeps.
LEMMA ReqFields ==
  ASSUME NEW CONSTANT c, NEW g \in PassReqs(c)
  PROVE  /\ g.list \in Seq(c.accounts) /\ Len(g.list) \in Nat /\ g.i \in Nat /\ g.tried \subseteq c.accounts
         /\ g.err \in {"", "ok", "no_account", "full", "auth", "quota", "temp", "param"}
<1>1. PICK d : /\ g = [pc |-> g.pc, list |-> g.list, i |-> g.i, err |-> g.err, tried |-> g.tried]
               /\ d = g.list /\ d \in Seq(c.accounts)
  BY DEF PassReqs
<1>2. Len(d) \in Nat
  BY <1>1
<1>3. g.i \in Nat /\ g.tried \subseteq c.accounts
  BY DEF PassReqs
<1>4. g.err \in {"", "ok", "no_account", "full", "auth", "quota", "temp", "param"}
  BY DEF PassReqs
<1> QED
  BY <1>1, <1>2, <1>3, <1>4

\* Nobody has begun.
LEMMA PassInitially ==
  ASSUME NEW CONSTANT c, Pass(c)!SinglePassAssumption, Pass(c)!Init
  PROVE  PassInv(c)
<1>1. /\ passStatus = [a \in c.accounts |-> "active"] /\ passCached = [a \in c.accounts |-> -1]
      /\ credit = c.credits
      /\ passHolders = [a \in c.accounts |-> {}] /\ known = {} /\ passGone = {} /\ unheard = {}
      /\ passReq = [r \in c.requests |-> [pc |-> "start", list |-> << >>, i |-> 1, err |-> "", tried |-> {}]]
      /\ c.credits \in [c.accounts -> Nat]
  BY DEF Pass!Init, Pass!SinglePassAssumption, Pass!Unknown, Pass!Fresh
<1>2. PICK g : g = [pc |-> "start", list |-> << >>, i |-> 1, err |-> "", tried |-> {}]
  OBVIOUS
<1>3. g \in PassReqs(c) /\ InList(g) /\ Untried(g) /\ g.pc = "start"
  <2>1. << >> \in Seq(c.accounts) /\ Len(<< >>) = 0
    OBVIOUS
  <2>2. g.pc = "start" /\ g.list = << >> /\ g.i = 1 /\ g.err = "" /\ g.tried = {}
    BY <1>2
  <2>3. g \in PassReqs(c)
    BY <1>2, <2>1 DEF PassReqs
  <2>4. Len(g.list) = 0
    BY <2>1, <2>2
  <2>5. g.i \in 1..Len(g.list) + 1
    <3>1. 1 \in 1..0 + 1
      OBVIOUS
    <3> QED
      BY <2>2, <2>4, <3>1
  <2> QED
    BY <2>2, <2>3, <2>5 DEF InList, Untried
<1>4. \A r \in c.requests : passReq[r] = g
  BY <1>1, <1>2
<1>5. PassTypes(c)
  <2>1. passReq \in [c.requests -> PassReqs(c)] /\ \A r \in c.requests : InList(passReq[r]) /\ Untried(passReq[r])
    BY <1>1, <1>3, <1>4
  <2>2. passCached \in [c.accounts -> Int] /\ \A a \in c.accounts : passCached[a] \in {-1} \cup 0..c.credits[a]
    <3>1. -1 \in Int
      OBVIOUS
    <3> QED
      BY <1>1, <3>1
  <2>3. credit \in [c.accounts -> Nat] /\ \A a \in c.accounts : credit[a] \in 0..c.credits[a]
    <3>1. \A n \in Nat : n \in 0..n
      OBVIOUS
    <3>2. \A a \in c.accounts : c.credits[a] \in Nat
      BY <1>1
    <3> QED
      BY <1>1, <3>1, <3>2
  <2>4. /\ passStatus \in [c.accounts -> {"active", "quota", "disabled"}] /\ known \subseteq c.accounts
        /\ passHolders \in [c.accounts -> SUBSET c.requests]
        /\ passGone \subseteq c.requests /\ unheard \subseteq c.requests
    BY <1>1
  <2> QED
    BY <2>1, <2>2, <2>3, <2>4 DEF PassTypes
<1>6. SlotsHeld(c)
  <2>1. IsFiniteSet({}) /\ Cardinality({}) = 0
    BY FS_EmptySet
  <2>2. \A a \in c.accounts : passHolders[a] = {}
    BY <1>1
  <2>3. \A a \in c.accounts, r \in c.requests : ~WorksOn(r, a)
    BY <1>3, <1>4 DEF WorksOn
  <2>4. \A a \in c.accounts : Cardinality(passHolders[a]) <= Pass(c)!Slots(a)
    BY <2>1, <2>2, SlotsCount
  <2> QED
    BY <2>1, <2>2, <2>3, <2>4 DEF SlotsHeld
<1>7. SpentMarked(c)
  BY <1>1 DEF SpentMarked
<1> QED
  BY <1>5, <1>6, <1>7 DEF PassInv

\* A generation moves that neither has a slot nor takes one.
LEMMA ReqMoves ==
  ASSUME NEW CONSTANT c, PassInv(c), NEW r \in c.requests, passReq[r].pc # "trying",
         NEW g \in PassReqs(c), g.pc # "trying", InList(g), Untried(g), passReq' = [passReq EXCEPT ![r] = g],
         UNCHANGED <<passStatus, passCached, credit, passHolders, passGone, known, unheard>>
  PROVE  PassInv(c)'
<1>1. PassTypes(c) /\ SlotsHeld(c) /\ SpentMarked(c)
  BY DEF PassInv
<1>2. \A s \in c.requests : passReq'[s] = IF s = r THEN g ELSE passReq[s]
  BY <1>1 DEF PassTypes
<1>3. PassTypes(c)'
  <2>1. \A s \in c.requests : InList(passReq'[s]) /\ Untried(passReq'[s])
    BY <1>1, <1>2 DEF PassTypes
  <2>2. passReq' \in [c.requests -> PassReqs(c)]
    BY <1>1 DEF PassTypes
  <2> QED
    BY <1>1, <2>1, <2>2 DEF PassTypes
<1>4. \A a, s : s \in c.requests => (WorksOn(s, a)' <=> WorksOn(s, a))
  BY <1>2 DEF WorksOn
<1>5. SlotsHeld(c)' /\ SpentMarked(c)'
  BY <1>1, <1>4 DEF SlotsHeld, SpentMarked, Pass!Slots
<1> QED
  BY <1>3, <1>5 DEF PassInv

\* A generation turns to account a.
TurnsTo(r, a) ==
  /\ a = passReq[r].list[passReq[r].i]
  /\ passReq[r].pc = "round" /\ passReq[r].i <= Len(passReq[r].list)
  /\ passReq' = [passReq EXCEPT ![r].pc = "trying", ![r].tried = @ \cup {a}]
  /\ UNCHANGED <<passStatus, passCached, credit, passGone, known>>

\* Then it works on that account, and the slots are all that is left to say.
LEMMA TriesAccount ==
  ASSUME NEW CONSTANT c, PassInv(c), NEW r \in c.requests, NEW a, TurnsTo(r, a)
  PROVE  /\ a \in c.accounts
         /\ passHolders' \in [c.accounts -> SUBSET c.requests] /\ unheard' \subseteq c.requests => PassTypes(c)'
         /\ SpentMarked(c)'
         /\ \A b, s : s \in c.requests => (WorksOn(s, b)' <=> IF s = r THEN b = a ELSE WorksOn(s, b))
<1>1. PassTypes(c) /\ SpentMarked(c) /\ passReq[r] \in PassReqs(c)
      /\ InList(passReq[r]) /\ Untried(passReq[r])
  BY DEF PassInv, PassTypes
<1>0. /\ a = passReq[r].list[passReq[r].i]
      /\ passReq[r].pc = "round" /\ passReq[r].i <= Len(passReq[r].list)
      /\ passReq' = [passReq EXCEPT ![r].pc = "trying", ![r].tried = @ \cup {a}]
      /\ UNCHANGED <<passStatus, passCached, credit, passGone, known>>
  BY DEF TurnsTo
<1>2. passReq[r].i \in 1..Len(passReq[r].list) /\ a \in c.accounts /\ passReq[r].list \in Seq(c.accounts)
  <2>1. passReq[r].list \in Seq(c.accounts) /\ passReq[r].i \in Nat
    BY <1>1 DEF PassReqs
  <2>2. passReq[r].i \in 1..Len(passReq[r].list) + 1
      /\ Len(passReq[r].list) \in Nat
    BY <1>1, <2>1 DEF InList
  <2>3. passReq[r].i \in 1..Len(passReq[r].list)
    BY <1>0, <2>1, <2>2
  <2> QED
    BY <1>0, <2>1, <2>3
<1>3. PICK g : g = [passReq[r] EXCEPT !.pc = "trying", !.tried = @ \cup {a}]
  OBVIOUS
<1>4. /\ passReq' = [passReq EXCEPT ![r] = g] /\ g \in PassReqs(c) /\ g.pc = "trying" /\ InList(g) /\ Untried(g)
      /\ g.list = passReq[r].list /\ g.i = passReq[r].i
  <2>1. passReq' = [passReq EXCEPT ![r] = g]
    BY <1>1, <1>3, <1>0 DEF PassTypes
  <2>2. /\ g \in PassReqs(c) /\ g.pc = "trying" /\ g.list = passReq[r].list /\ g.i = passReq[r].i
        /\ g.err = passReq[r].err
    BY <1>1, <1>2, <1>3 DEF PassReqs
  <2>3. InList(g) /\ Untried(g)
    BY <1>1, <1>2, <1>0, <2>2 DEF InList, Untried
  <2> QED
    BY <2>1, <2>2, <2>3
<1>5. \A s \in c.requests : passReq'[s] = IF s = r THEN g ELSE passReq[s]
  BY <1>1, <1>4 DEF PassTypes
<1>6. ASSUME passHolders' \in [c.accounts -> SUBSET c.requests], unheard' \subseteq c.requests
      PROVE  PassTypes(c)'
  <2>1. \A s \in c.requests : InList(passReq'[s]) /\ Untried(passReq'[s])
    BY <1>1, <1>4, <1>5 DEF PassTypes
  <2>2. passReq' \in [c.requests -> PassReqs(c)]
    BY <1>1, <1>4 DEF PassTypes
  <2> QED
    BY <1>1, <1>6, <1>0, <2>1, <2>2 DEF PassTypes
<1>7. SpentMarked(c)'
  BY <1>1, <1>0 DEF SpentMarked
<1>8. \A b, s : s \in c.requests => (WorksOn(s, b)' <=> IF s = r THEN b = a ELSE WorksOn(s, b))
  BY <1>4, <1>5, <1>0 DEF WorksOn
<1> QED
  BY <1>2, <1>6, <1>7, <1>8

\* It takes a slot of it.
LEMMA TakesSlot ==
  ASSUME NEW CONSTANT c, Pass(c)!SinglePassAssumption, PassInv(c), NEW r \in c.requests, Pass(c)!Acquire(r)
  PROVE  PassInv(c)'
<1>1. PassTypes(c) /\ SlotsHeld(c)
  BY DEF PassInv
<1>2. PICK a : a = passReq[r].list[passReq[r].i]
  OBVIOUS
<1>3. /\ passReq[r].pc = "round" /\ passReq[r].i <= Len(passReq[r].list)
      /\ Pass(c)!Cardinality(passHolders[a]) < Pass(c)!Slots(a)
      /\ passHolders' = [passHolders EXCEPT ![a] = @ \cup {r}]
      /\ passReq' = [passReq EXCEPT ![r].pc = "trying", ![r].tried = @ \cup {a}]
      /\ UNCHANGED <<passStatus, passCached, credit, passGone, known, unheard>>
  BY <1>2 DEF Pass!Acquire, Pass!Current
<1>4. passHolders' \in [c.accounts -> SUBSET c.requests] /\ unheard' \subseteq c.requests
  BY <1>1, <1>3 DEF PassTypes
<1>5. /\ a \in c.accounts /\ PassTypes(c)' /\ SpentMarked(c)'
      /\ \A b, s : s \in c.requests => (WorksOn(s, b)' <=> IF s = r THEN b = a ELSE WorksOn(s, b))
  <2>1. TurnsTo(r, a)
    BY <1>2, <1>3 DEF TurnsTo
  <2> QED
    BY <1>4, <2>1, TriesAccount
<1>6. \A b \in c.accounts : passHolders'[b] = IF b = a THEN passHolders[a] \cup {r} ELSE passHolders[b]
  BY <1>1, <1>3 DEF PassTypes
<1>7. \A b : ~WorksOn(r, b)
  BY <1>3 DEF WorksOn
<1>8. \A b \in c.accounts, s \in c.requests \ unheard' : s \in passHolders'[b] <=> WorksOn(s, b)'
  <2> TAKE b \in c.accounts, s \in c.requests \ unheard'
  <2>1. s \in c.requests \ unheard /\ (s \in passHolders[b] <=> WorksOn(s, b))
    BY <1>1, <1>3 DEF SlotsHeld
  <2> QED
    BY <1>5, <1>6, <1>7, <2>1
<1>9. \A b \in c.accounts : IsFiniteSet(passHolders'[b]) /\ Cardinality(passHolders'[b]) <= Pass(c)!Slots(b)
  <2>1. /\ IsFiniteSet(passHolders[a]) /\ Cardinality(passHolders[a]) \in Nat
        /\ IsFiniteSet(passHolders[a] \cup {r})
        /\ Cardinality(passHolders[a] \cup {r}) <= Cardinality(passHolders[a]) + 1
        /\ Cardinality(passHolders[a] \cup {r}) \in Nat
    <3>1. IsFiniteSet(passHolders[a])
      BY <1>1, <1>5 DEF SlotsHeld
    <3>2. IsFiniteSet(passHolders[a] \cup {r}) /\ Cardinality(passHolders[a]) \in Nat
      BY <3>1, FS_AddElement, FS_CardinalityType
    <3>3. CASE r \in passHolders[a]
      <4>1. passHolders[a] \cup {r} = passHolders[a]
        BY <3>3
      <4>2. Cardinality(passHolders[a]) <= Cardinality(passHolders[a]) + 1
        BY <3>2
      <4> QED
        BY <3>1, <3>2, <4>1, <4>2, Zenon
    <3>4. CASE r \notin passHolders[a]
      BY <3>1, <3>2, <3>4, FS_AddElement
    <3> QED
      BY <3>1, <3>2, <3>3, <3>4
  <2>2. Cardinality(passHolders[a]) < Pass(c)!Slots(a) /\ Pass(c)!Slots(a) \in Nat
    BY <1>3, <1>5, PassCount, SlotsCount
  <2>3. Cardinality(passHolders[a] \cup {r}) <= Pass(c)!Slots(a)
    BY <2>1, <2>2
  <2>4. \A b \in c.accounts : IsFiniteSet(passHolders[b]) /\ Cardinality(passHolders[b]) <= Pass(c)!Slots(b)
    BY <1>1 DEF SlotsHeld
  <2> QED
    BY <1>6, <2>1, <2>3, <2>4
<1>10. SlotsHeld(c)'
  BY <1>8, <1>9 DEF SlotsHeld, Pass!Slots
<1> QED
  BY <1>5, <1>10 DEF PassInv

\* Or goes on without one, as the command fails.
LEMMA TakesNone ==
  ASSUME NEW CONSTANT c, Pass(c)!SinglePassAssumption, PassInv(c), NEW r \in c.requests, Pass(c)!AcquireOpen(r)
  PROVE  PassInv(c)'
<1>1. PassTypes(c) /\ SlotsHeld(c)
  BY DEF PassInv
<1>2. PICK a : a = passReq[r].list[passReq[r].i]
  OBVIOUS
<1>3. /\ passReq[r].pc = "round" /\ passReq[r].i <= Len(passReq[r].list)
      /\ passReq' = [passReq EXCEPT ![r].pc = "trying", ![r].tried = @ \cup {a}]
      /\ unheard' = unheard \cup {r}
      /\ UNCHANGED <<passStatus, passCached, credit, passHolders, passGone, known>>
  BY <1>2 DEF Pass!AcquireOpen, Pass!Current
<1>4. passHolders' \in [c.accounts -> SUBSET c.requests] /\ unheard' \subseteq c.requests
  BY <1>1, <1>3 DEF PassTypes
<1>5. /\ PassTypes(c)' /\ SpentMarked(c)'
      /\ \A b, s : s \in c.requests => (WorksOn(s, b)' <=> IF s = r THEN b = a ELSE WorksOn(s, b))
  <2>1. TurnsTo(r, a)
    BY <1>2, <1>3 DEF TurnsTo
  <2> QED
    BY <1>4, <2>1, TriesAccount
<1>6. \A b \in c.accounts, s \in c.requests \ unheard' : s \in passHolders'[b] <=> WorksOn(s, b)'
  BY <1>1, <1>3, <1>5 DEF SlotsHeld
<1>7. SlotsHeld(c)'
  BY <1>1, <1>3, <1>6 DEF SlotsHeld, Pass!Slots
<1> QED
  BY <1>5, <1>7 DEF PassInv

\* A generation gives its slot back, or the command does not get through.
LEMMA LeavesSlot ==
  ASSUME NEW CONSTANT c, Pass(c)!SinglePassAssumption, PassInv(c), NEW r \in c.requests, passReq[r].pc = "trying",
         Pass(c)!Released(r), NEW g, passReq' = [passReq EXCEPT ![r] = g], g.pc # "trying"
  PROVE  SlotsHeld(c)' /\ passHolders' \in [c.accounts -> SUBSET c.requests] /\ unheard' \subseteq c.requests
<1>1. PassTypes(c) /\ SlotsHeld(c)
  BY DEF PassInv
<1>2. PICK a : a = passReq[r].list[passReq[r].i]
  OBVIOUS
<1>3. \/ passHolders' = [passHolders EXCEPT ![a] = @ \ {r}] /\ UNCHANGED unheard
      \/ unheard' = unheard \cup {r} /\ UNCHANGED passHolders
  BY <1>2 DEF Pass!Released, Pass!Current
<1>4. \A s \in c.requests : passReq'[s] = IF s = r THEN g ELSE passReq[s]
  BY <1>1 DEF PassTypes
<1>5. \A b, s : s \in c.requests => (WorksOn(s, b)' <=> s # r /\ WorksOn(s, b))
  BY <1>4 DEF WorksOn
<1>6. WorksOn(r, a) /\ \A b : b # a => ~WorksOn(r, b)
  BY <1>2 DEF WorksOn
<1>7. /\ \A b \in c.accounts : passHolders'[b] \subseteq passHolders[b]
      /\ \A b \in c.accounts, s \in c.requests \ unheard' : s \in passHolders'[b] <=> WorksOn(s, b)'
      /\ passHolders' \in [c.accounts -> SUBSET c.requests] /\ unheard' \subseteq c.requests
  <2>1. CASE passHolders' = [passHolders EXCEPT ![a] = @ \ {r}] /\ UNCHANGED unheard
    <3>1. \A b \in c.accounts : passHolders'[b] = IF b = a THEN passHolders[b] \ {r} ELSE passHolders[b]
      BY <1>1, <2>1 DEF PassTypes
    <3>2. ASSUME NEW b \in c.accounts, NEW s \in c.requests \ unheard'
          PROVE  s \in passHolders'[b] <=> WorksOn(s, b)'
      <4>1. s \in passHolders[b] <=> WorksOn(s, b)
        BY <1>1, <2>1, <3>2 DEF SlotsHeld
      <4>2. CASE s = r
        BY <1>5, <1>6, <3>1, <3>2, <4>1, <4>2
      <4>3. CASE s # r
        BY <1>5, <3>1, <3>2, <4>1, <4>3
      <4> QED
        BY <4>2, <4>3
    <3> QED
      BY <1>1, <2>1, <3>1, <3>2 DEF PassTypes
  <2>2. CASE unheard' = unheard \cup {r} /\ UNCHANGED passHolders
    BY <1>1, <1>5, <2>2 DEF SlotsHeld, PassTypes
  <2> QED
    BY <1>3, <2>1, <2>2
<1>8. \A b \in c.accounts : IsFiniteSet(passHolders'[b]) /\ Cardinality(passHolders'[b]) <= Pass(c)!Slots(b)
  BY <1>1, <1>7, FewerSlots
<1> QED
  BY <1>7, <1>8 DEF SlotsHeld, Pass!Slots

\* The provider is chosen, and its accounts are listed.
LEMMA RouteStep ==
  ASSUME NEW CONSTANT c, Pass(c)!SinglePassAssumption, PassInv(c), NEW r \in c.requests, Pass(c)!Route(r)
  PROVE  PassInv(c)'
<1>1. passReq \in [c.requests -> PassReqs(c)] /\ passReq[r] \in PassReqs(c)
      /\ InList(passReq[r]) /\ Untried(passReq[r])
  BY DEF PassInv, PassTypes
<1>2. PICK p : p = Pass(c)!effectiveProvider(c.modelOf[r])
  OBVIOUS
<1>3. p \in {"runway", "grok", "custom"}
  BY <1>2 DEF Pass!effectiveProvider, Pass!SinglePassAssumption
<1>4. /\ passReq[r].pc = "start" /\ passReq' = [passReq EXCEPT ![r].pc = p]
      /\ UNCHANGED <<passStatus, passCached, credit, passHolders, passGone, known, unheard>>
  BY <1>2 DEF Pass!Route
<1>5. PICK g : g = [passReq[r] EXCEPT !.pc = p]
  OBVIOUS
<1>6. /\ g \in PassReqs(c) /\ g.pc = p /\ g.list = passReq[r].list /\ g.i = passReq[r].i
      /\ g.err = passReq[r].err /\ g.tried = passReq[r].tried
  BY <1>1, <1>3, <1>5 DEF PassReqs
<1>7. InList(g) /\ Untried(g) /\ g.pc # "trying"
  BY <1>1, <1>3, <1>4, <1>6 DEF InList, Untried
<1>8. passReq' = [passReq EXCEPT ![r] = g]
  BY <1>1, <1>4, <1>5
<1> QED
  BY <1>4, <1>6, <1>7, <1>8, ReqMoves

\* What a list is made of.
Listed(c, r, p) ==
  IF c.pinOf[r] # 0 THEN {c.pinOf[r]} \cap (IF p = "custom" THEN Pass(c)!customActive(c.modelOf[r]) ELSE Pass(c)!InPool(p))
  ELSE IF p = "custom" THEN Pass(c)!customActive(c.modelOf[r]) ELSE Pass(c)!nativeActive(p)

\* A step that makes one.
MakesList(c, r, p) ==
  /\ passReq[r].pc = p
  /\ UNCHANGED <<passStatus, passCached, credit, passHolders, passGone, known, unheard>>
  /\ \E g \in PassReqs(c) :
       /\ passReq' = [passReq EXCEPT ![r] = g] /\ Pass(c)!Range(g.list) \subseteq Listed(c, r, p)
       /\ g.i = passReq[r].i /\ g.tried = passReq[r].tried
       /\ g.pc \in {"ended", "round"} /\ g.err = (IF g.pc = "ended" THEN "no_account" ELSE "")

\* A list is one of accounts that are in use, and nobody else's changes.
LEMMA ListMakes ==
  ASSUME NEW CONSTANT c, Pass(c)!SinglePassAssumption, PassInv(c), NEW r \in c.requests,
         NEW p \in {"runway", "grok", "custom"}, Pass(c)!List(r, p)
  PROVE  MakesList(c, r, p)
<1>1. passReq \in [c.requests -> PassReqs(c)] /\ passReq[r] \in PassReqs(c)
  BY DEF PassInv, PassTypes
<1>2. PICK S : S = Listed(c, r, p)
  OBVIOUS
<1>3. /\ passReq[r].pc = p
      /\ UNCHANGED <<passStatus, passCached, credit, passHolders, passGone, known, unheard>>
      /\ \E order \in Pass(c)!Bijection(1..Pass(c)!Cardinality(S), S) :
           passReq' = [passReq EXCEPT ![r].pc = IF S = {} THEN "ended" ELSE "round",
                                      ![r].list = order,
                                      ![r].err = IF S = {} THEN "no_account" ELSE ""]
  BY <1>2 DEF Pass!List, Pass!pinTestAccount, Listed
<1>4. S \subseteq c.accounts /\ IsFiniteSet(S)
  <2>1. S \subseteq c.accounts
    BY <1>2 DEF Listed, Pass!customActive, Pass!InPool, Pass!nativeActive
  <2>2. IsFiniteSet(c.accounts)
    BY PassCount DEF Pass!SinglePassAssumption
  <2> QED
    BY <2>1, <2>2, FS_Subset
<1>5. PICK order \in Pass(c)!Bijection(1..Pass(c)!Cardinality(S), S) :
           passReq' = [passReq EXCEPT ![r].pc = IF S = {} THEN "ended" ELSE "round",
                                      ![r].list = order,
                                      ![r].err = IF S = {} THEN "no_account" ELSE ""]
  BY <1>3
<1>6. order \in Seq(S) /\ Pass(c)!Range(order) \subseteq S
  BY <1>4, OrdersAreLists
<1>7. order \in Seq(c.accounts)
  BY <1>4, <1>6
<1>8. PICK g : g = [passReq[r] EXCEPT !.pc = IF S = {} THEN "ended" ELSE "round", !.list = order,
                                      !.err = IF S = {} THEN "no_account" ELSE ""]
  OBVIOUS
<1>9. passReq' = [passReq EXCEPT ![r] = g]
  BY <1>1, <1>5, <1>8
<1>10. /\ g \in PassReqs(c) /\ g.list = order /\ g.i = passReq[r].i
       /\ g.pc \in {"ended", "round"} /\ g.err = (IF g.pc = "ended" THEN "no_account" ELSE "")
        /\ g.tried = passReq[r].tried
  BY <1>1, <1>7, <1>8 DEF PassReqs
<1> QED
  BY <1>2, <1>3, <1>6, <1>7, <1>9, <1>10 DEF MakesList

\* A list that is made leaves the invariant.
LEMMA ListStep ==
  ASSUME NEW CONSTANT c, Pass(c)!SinglePassAssumption, PassInv(c), NEW r \in c.requests,
         NEW p \in {"runway", "grok", "custom"}, Pass(c)!List(r, p)
  PROVE  PassInv(c)'
<1>0. MakesList(c, r, p)
  BY ListMakes
<1>1. passReq[r] \in PassReqs(c)
      /\ InList(passReq[r]) /\ Untried(passReq[r])
  BY DEF PassInv, PassTypes
<1>2. passReq[r].pc = p /\ UNCHANGED <<passStatus, passCached, credit, passHolders, passGone, known, unheard>>
  BY <1>0 DEF MakesList
<1>3. PICK g \in PassReqs(c) :
        /\ passReq' = [passReq EXCEPT ![r] = g] /\ g.i = passReq[r].i
        /\ g.pc \in {"ended", "round"} /\ g.err = (IF g.pc = "ended" THEN "no_account" ELSE "")
        /\ g.tried = passReq[r].tried
  BY <1>0 DEF MakesList
<1>5. g.i = 1 /\ g.tried = {}
  BY <1>1, <1>2, <1>3 DEF InList, Untried
<1>6. InList(g) /\ Untried(g)
  <2>1. Len(g.list) \in Nat
    BY ReqFields
  <2>2. 1 \in 1..Len(g.list) + 1
    BY <2>1
  <2> QED
    BY <1>3, <1>5, <2>2 DEF InList, Untried
<1>7. passReq[r].pc # "trying" /\ g.pc # "trying"
  BY <1>2, <1>3
<1> QED
  BY <1>2, <1>3, <1>6, <1>7, ReqMoves

\* The account is busy, or the list is at its end.
LEMMA BusyStep ==
  ASSUME NEW CONSTANT c, Pass(c)!SinglePassAssumption, PassInv(c), NEW r \in c.requests, Pass(c)!Busy(r)
  PROVE  PassInv(c)'
<1>1. passReq \in [c.requests -> PassReqs(c)] /\ passReq[r] \in PassReqs(c)
      /\ InList(passReq[r]) /\ Untried(passReq[r])
  BY DEF PassInv, PassTypes
<1>2. /\ passReq[r].pc = "round" /\ passReq[r].i <= Len(passReq[r].list)
      /\ passReq' = [passReq EXCEPT ![r].i = passReq[r].i + 1]
      /\ UNCHANGED <<passStatus, passCached, credit, passHolders, passGone, known, unheard>>
  BY <1>1 DEF Pass!Busy, Pass!After
<1>3. PICK g : g = [passReq[r] EXCEPT !.i = passReq[r].i + 1]
  OBVIOUS
<1>4. passReq[r].list \in Seq(c.accounts) /\ passReq[r].i \in Nat
      /\ Len(passReq[r].list) \in Nat
  BY <1>1, ReqFields
<1>5. /\ g \in PassReqs(c) /\ g.pc = "round" /\ g.list = passReq[r].list /\ g.i = passReq[r].i + 1
      /\ g.err = passReq[r].err /\ g.tried = passReq[r].tried
  <2>1. PICK n : n = passReq[r].i + 1
    OBVIOUS
  <2>2. n \in Nat /\ g = [passReq[r] EXCEPT !.i = n]
    BY <1>3, <1>4, <2>1
  <2> QED
    BY <1>1, <1>2, <2>1, <2>2 DEF PassReqs
<1>6. g.i \in 1..Len(g.list) + 1
  BY <1>2, <1>4, <1>5
<1>7. InList(g) /\ Untried(g)
  BY <1>1, <1>2, <1>5, <1>6 DEF InList, Untried
<1>8. passReq' = [passReq EXCEPT ![r] = g] /\ passReq[r].pc # "trying" /\ g.pc # "trying"
  BY <1>1, <1>2, <1>3, <1>5
<1> QED
  BY <1>2, <1>5, <1>7, <1>8, ReqMoves

\* An account that is found spent is marked, and known to be.
LEMMA ExhaustedStep ==
  ASSUME NEW CONSTANT c, Pass(c)!SinglePassAssumption, PassInv(c), NEW r \in c.requests, Pass(c)!Exhausted(r)
  PROVE  PassInv(c)'
<1>1. passReq \in [c.requests -> PassReqs(c)] /\ passReq[r] \in PassReqs(c)
      /\ InList(passReq[r]) /\ Untried(passReq[r])
  BY DEF PassInv, PassTypes
<1>2. PICK e : e = IF passReq[r].err = "" THEN "full" ELSE passReq[r].err
  OBVIOUS
<1>3. /\ passReq[r].pc = "round" /\ passReq' = [passReq EXCEPT ![r].pc = "ended", ![r].err = e]
      /\ UNCHANGED <<passStatus, passCached, credit, passHolders, passGone, known, unheard>>
  BY <1>2 DEF Pass!Exhausted, Pass!LastWord, Pass!LastError
<1>4. PICK g : g = [passReq[r] EXCEPT !.pc = "ended", !.err = e]
  OBVIOUS
<1>5. e \in {"full", "auth", "quota", "temp"} /\ (e = "full" => passReq[r].tried = {})
  BY <1>1, <1>2, <1>3 DEF Untried
<1>6. /\ g \in PassReqs(c) /\ g.pc = "ended" /\ g.list = passReq[r].list /\ g.i = passReq[r].i
      /\ g.err = e /\ g.tried = passReq[r].tried
  BY <1>1, <1>4, <1>5 DEF PassReqs
<1>7. InList(g) /\ Untried(g)
  BY <1>1, <1>5, <1>6 DEF InList, Untried
<1>8. passReq' = [passReq EXCEPT ![r] = g] /\ passReq[r].pc # "trying" /\ g.pc # "trying"
  BY <1>1, <1>3, <1>4, <1>6
<1> QED
  BY <1>3, <1>6, <1>7, <1>8, ReqMoves

\* The answer of the upstream: the slot is given back, and the row marked.
LEMMA AnswerStep ==
  ASSUME NEW CONSTANT c, Pass(c)!SinglePassAssumption, PassInv(c), NEW r \in c.requests,
         \/ Pass(c)!Success(r)
         \/ \E e \in {"auth", "quota", "temp", "param"}, w \in BOOLEAN : Pass(c)!Refused(r, e, w)
  PROVE  PassInv(c)'
<1>1. /\ passReq \in [c.requests -> PassReqs(c)] /\ passReq[r] \in PassReqs(c)
      /\ InList(passReq[r]) /\ Untried(passReq[r])
      /\ PassTypes(c) /\ SlotsHeld(c) /\ SpentMarked(c)
  BY DEF PassInv, PassTypes
<1>2. PICK a : a = passReq[r].list[passReq[r].i]
  OBVIOUS
<1>3. passReq[r].pc = "trying" /\ Pass(c)!Released(r) /\ UNCHANGED <<passCached, passGone>>
  BY DEF Pass!Success, Pass!Refused
<1>4. passReq[r].list \in Seq(c.accounts) /\ passReq[r].i \in 1..Len(passReq[r].list)
      /\ Len(passReq[r].list) \in Nat
  BY <1>1, <1>3, ReqFields DEF InList
<1>5. a \in c.accounts
  BY <1>2, <1>4
<1>6. \E g \in PassReqs(c) :
        /\ passReq' = [passReq EXCEPT ![r] = g] /\ g.list = passReq[r].list
        /\ \/ g.pc = "ended" /\ g.err \in {"ok", "param"} /\ g.i = passReq[r].i
           \/ g.pc = "round" /\ g.err \in {"auth", "quota", "temp"} /\ g.i = passReq[r].i + 1
  <2>1. CASE Pass(c)!Success(r)
    <3>1. PICK g : g = [passReq[r] EXCEPT !.pc = "ended", !.err = "ok"]
      OBVIOUS
    <3>2. passReq' = [passReq EXCEPT ![r] = g]
      BY <1>1, <2>1, <3>1 DEF Pass!Success
    <3>3. g \in PassReqs(c) /\ g.list = passReq[r].list /\ g.pc = "ended" /\ g.err = "ok" /\ g.i = passReq[r].i
      BY <1>1, <3>1 DEF PassReqs
    <3> QED
      BY <3>2, <3>3
  <2>2. ASSUME NEW w \in BOOLEAN, Pass(c)!Refused(r, "param", w)
        PROVE  \E g \in PassReqs(c) :
                 /\ passReq' = [passReq EXCEPT ![r] = g] /\ g.list = passReq[r].list
                 /\ g.pc = "ended" /\ g.err \in {"ok", "param"} /\ g.i = passReq[r].i
    <3>1. PICK g : g = [passReq[r] EXCEPT !.pc = "ended", !.err = "param"]
      OBVIOUS
    <3>2. passReq' = [passReq EXCEPT ![r] = g]
      BY <1>1, <2>2, <3>1 DEF Pass!Refused, Pass!Failover
    <3>3. g \in PassReqs(c) /\ g.list = passReq[r].list /\ g.pc = "ended" /\ g.err = "param" /\ g.i = passReq[r].i
      BY <1>1, <3>1 DEF PassReqs
    <3> QED
      BY <3>2, <3>3
  <2>3. ASSUME NEW e \in {"auth", "quota", "temp"}, NEW w \in BOOLEAN, Pass(c)!Refused(r, e, w)
        PROVE  \E g \in PassReqs(c) :
                 /\ passReq' = [passReq EXCEPT ![r] = g] /\ g.list = passReq[r].list
                 /\ g.pc = "round" /\ g.err \in {"auth", "quota", "temp"} /\ g.i = passReq[r].i + 1
    <3>1. PICK n : n = passReq[r].i + 1
      OBVIOUS
    <3>2. PICK g : g = [passReq[r] EXCEPT !.pc = "round", !.err = e, !.i = n]
      OBVIOUS
    <3>3. passReq' = [passReq EXCEPT ![r] = g]
      <4>1. passReq' = [passReq EXCEPT ![r].pc = "round", ![r].err = e, ![r].i = passReq[r].i + 1]
        BY <1>1, <2>3 DEF Pass!Refused, Pass!Failover, Pass!NextAccount, Pass!After
      <4> QED
        BY <1>1, <3>1, <3>2, <4>1
    <3>4. n \in Nat
      BY <1>4, <3>1
    <3>5. g \in PassReqs(c) /\ g.list = passReq[r].list /\ g.pc = "round" /\ g.err = e /\ g.i = n
      BY <1>1, <3>2, <3>4 DEF PassReqs
    <3> QED
      BY <3>1, <3>3, <3>5
  <2> QED
    BY <2>1, <2>2, <2>3
<1>7. PICK g \in PassReqs(c) :
        /\ passReq' = [passReq EXCEPT ![r] = g] /\ g.list = passReq[r].list
        /\ \/ g.pc = "ended" /\ g.err \in {"ok", "param"} /\ g.i = passReq[r].i
           \/ g.pc = "round" /\ g.err \in {"auth", "quota", "temp"} /\ g.i = passReq[r].i + 1
  BY <1>6
<1>8. InList(g) /\ Untried(g) /\ g.pc # "trying"
  <2>1. g.i \in 1..Len(g.list) + 1
    BY <1>4, <1>7
  <2> QED
    BY <1>7, <2>1 DEF InList, Untried
<1>9. SlotsHeld(c)' /\ passHolders' \in [c.accounts -> SUBSET c.requests] /\ unheard' \subseteq c.requests
  BY <1>3, <1>7, <1>8, LeavesSlot
<1>10. /\ known' \subseteq c.accounts /\ credit' \in [c.accounts -> Nat]
       /\ \A b \in c.accounts : credit'[b] \in 0..c.credits[b]
       /\ passStatus' \in [c.accounts -> {"active", "quota", "disabled"}]
       /\ SpentMarked(c)'
  <2>1. CASE Pass(c)!Success(r)
    <3>1. /\ credit[a] > 0 /\ credit' = [credit EXCEPT ![a] = @ - 1] /\ UNCHANGED <<passStatus, known>>
      BY <1>2, <2>1 DEF Pass!Success, Pass!Current
    <3>2. /\ credit \in [c.accounts -> Nat] /\ c.credits \in [c.accounts -> Nat]
          /\ \A b \in c.accounts : credit[b] \in 0..c.credits[b]
      BY <1>1 DEF PassTypes, Pass!SinglePassAssumption
    <3>3. credit[a] - 1 \in Nat /\ credit[a] - 1 \in 0..c.credits[a]
      <4>1. credit[a] \in Nat /\ c.credits[a] \in Nat /\ credit[a] \in 0..c.credits[a]
        BY <1>5, <3>2
      <4> QED
        BY <3>1, <4>1
    <3>4. \A b \in c.accounts : credit'[b] = IF b = a THEN credit[a] - 1 ELSE credit[b]
      BY <3>1, <3>2
    <3>5. credit' \in [c.accounts -> Nat]
      BY <3>1, <3>2, <3>3, <3>4
    <3> QED
      BY <1>1, <3>1, <3>2, <3>3, <3>4, <3>5 DEF PassTypes, SpentMarked
  <2>2. ASSUME NEW e \in {"auth", "quota", "temp", "param"}, NEW w \in BOOLEAN, Pass(c)!Refused(r, e, w)
        PROVE  /\ known' \subseteq c.accounts /\ UNCHANGED credit
               /\ passStatus' \in [c.accounts -> {"active", "quota", "disabled"}]
               /\ SpentMarked(c)'
    <3>0. CASE ~w
      BY <1>1, <2>2, <3>0 DEF Pass!Refused, PassTypes, SpentMarked
    <3>w. SUFFICES ASSUME w
                   PROVE  /\ known' \subseteq c.accounts /\ UNCHANGED credit
                          /\ passStatus' \in [c.accounts -> {"active", "quota", "disabled"}]
                          /\ SpentMarked(c)'
      BY <3>0
    <3>1. /\ passStatus' = [passStatus EXCEPT ![a] = Pass(c)!Marked(a, e)]
          /\ known' = IF e = "quota" THEN known \cup {a} ELSE known
          /\ UNCHANGED credit
      BY <1>2, <2>2, <3>w DEF Pass!Refused, Pass!Current
    <3>2. /\ passStatus \in [c.accounts -> {"active", "quota", "disabled"}] /\ known \subseteq c.accounts
          /\ c.poolOf[a] \in {"runway", "grok", "custom"}
      BY <1>1, <1>5 DEF PassTypes, Pass!SinglePassAssumption, Pass!Pools
    <3>3. /\ Pass(c)!Marked(a, e) \in {"disabled", "quota", passStatus[a]}
          /\ c.poolOf[a] = "runway" /\ (e = "quota" \/ passStatus[a] = "disabled") => Pass(c)!Marked(a, e) = "disabled"
          /\ c.poolOf[a] = "custom" /\ (e = "quota" \/ passStatus[a] = "quota") => Pass(c)!Marked(a, e) = "quota"
      <4>1. CASE c.poolOf[a] = "runway" /\ e \in {"auth", "quota"}
        BY <4>1 DEF Pass!Marked
      <4>2. CASE c.poolOf[a] = "custom" /\ e = "quota"
        BY <4>2 DEF Pass!Marked
      <4>3. CASE ~(c.poolOf[a] = "runway" /\ e \in {"auth", "quota"}) /\ ~(c.poolOf[a] = "custom" /\ e = "quota")
        BY <4>3 DEF Pass!Marked
      <4> QED
        BY <4>1, <4>2, <4>3
    <3>4. \A b \in c.accounts : passStatus'[b] = IF b = a THEN Pass(c)!Marked(a, e) ELSE passStatus[b]
      BY <3>1, <3>2
    <3>5. passStatus' \in [c.accounts -> {"active", "quota", "disabled"}] /\ known' \subseteq c.accounts
      BY <1>5, <3>1, <3>2, <3>3
    <3>6. SpentMarked(c)'
      BY <1>1, <1>5, <3>1, <3>2, <3>3, <3>4 DEF SpentMarked
    <3> QED
      BY <3>1, <3>5, <3>6
  <2>3. \A b \in c.accounts : credit[b] \in 0..c.credits[b]
    BY <1>1 DEF PassTypes
  <2>4. credit \in [c.accounts -> Nat]
    BY <1>1 DEF PassTypes
  <2> QED
    BY <2>1, <2>2, <2>3, <2>4
<1>11. PassTypes(c)'
  <2>1. \A s \in c.requests : passReq'[s] = IF s = r THEN g ELSE passReq[s]
    BY <1>1, <1>7
  <2>2. \A s \in c.requests : InList(passReq'[s]) /\ Untried(passReq'[s])
    BY <1>1, <1>8, <2>1 DEF PassTypes
  <2>3. passReq' \in [c.requests -> PassReqs(c)]
    BY <1>1, <1>7
  <2>4. passGone' \subseteq c.requests
    BY <1>1, <1>3 DEF PassTypes
  <2>5. passCached' \in [c.accounts -> Int] /\ \A b \in c.accounts : passCached'[b] \in {-1} \cup 0..c.credits[b]
    BY <1>1, <1>3 DEF PassTypes
  <2> QED
    BY <1>9, <1>10, <2>2, <2>3, <2>4, <2>5 DEF PassTypes
<1> QED
  BY <1>9, <1>10, <1>11 DEF PassInv

\* A probe writes the balance, the reset time of a custom account passes.
LEMMA ProbeStep ==
  ASSUME NEW CONSTANT c, Pass(c)!SinglePassAssumption, PassInv(c), NEW a \in c.accounts,
         Pass(c)!Probe(a) \/ Pass(c)!Recover(a)
  PROVE  PassInv(c)'
<1>1. PassTypes(c) /\ SlotsHeld(c) /\ SpentMarked(c) /\ c.credits \in [c.accounts -> Nat]
  BY DEF PassInv, Pass!SinglePassAssumption
<1>2. UNCHANGED <<passHolders, passReq, passGone, unheard>>
  BY DEF Pass!Probe, Pass!Recover
<1>3. SlotsHeld(c)'
  BY <1>1, <1>2 DEF SlotsHeld, WorksOn, Pass!Slots
<1>4. CASE Pass(c)!Probe(a)
  <2>1. passCached' = [passCached EXCEPT ![a] = credit[a]] /\ UNCHANGED <<passStatus, credit, known>>
    BY <1>4 DEF Pass!Probe
  <2>2. \A b \in c.accounts : passCached'[b] = IF b = a THEN credit[a] ELSE passCached[b]
    BY <1>1, <2>1 DEF PassTypes
  <2>3. passCached' \in [c.accounts -> Int] /\ \A b \in c.accounts : passCached'[b] \in {-1} \cup 0..c.credits[b]
    <3>1. credit[a] \in Int /\ credit[a] \in 0..c.credits[a]
      BY <1>1 DEF PassTypes
    <3> QED
      BY <1>1, <2>1, <2>2, <3>1 DEF PassTypes
  <2> QED
    BY <1>1, <1>2, <1>3, <2>1, <2>3 DEF PassInv, PassTypes, SpentMarked
<1>5. CASE Pass(c)!Recover(a)
  <2>1. /\ passStatus' = [passStatus EXCEPT ![a] = "active"] /\ credit' = [credit EXCEPT ![a] = c.credits[a]]
        /\ known' = known \ {a} /\ UNCHANGED passCached
    BY <1>5 DEF Pass!Recover
  <2>2. \A b \in c.accounts : credit'[b] = (IF b = a THEN c.credits[a] ELSE credit[b])
                              /\ passStatus'[b] = (IF b = a THEN "active" ELSE passStatus[b])
    BY <1>1, <2>1 DEF PassTypes
  <2>3. credit' \in [c.accounts -> Nat] /\ \A b \in c.accounts : credit'[b] \in 0..c.credits[b]
    <3>1. c.credits[a] \in Nat /\ c.credits[a] \in 0..c.credits[a]
      BY <1>1
    <3> QED
      BY <1>1, <2>1, <2>2, <3>1 DEF PassTypes
  <2>4. passStatus' \in [c.accounts -> {"active", "quota", "disabled"}] /\ known' \subseteq c.accounts
    BY <1>1, <2>1 DEF PassTypes
  <2>5. SpentMarked(c)'
    BY <1>1, <2>1, <2>2 DEF SpentMarked, PassTypes
  <2> QED
    BY <1>1, <1>2, <1>3, <2>1, <2>3, <2>4, <2>5 DEF PassInv, PassTypes
<1> QED
  BY <1>4, <1>5

\* A generation is cancelled, or a slot expires that nobody gave back.
LEMMA SlotLost ==
  ASSUME NEW CONSTANT c, Pass(c)!SinglePassAssumption, PassInv(c), NEW r \in c.requests,
         Pass(c)!Cancel(r) \/ \E a \in c.accounts : Pass(c)!ExpireSlot(r, a)
  PROVE  PassInv(c)'
<1>1. PassTypes(c) /\ SlotsHeld(c) /\ SpentMarked(c)
  BY DEF PassInv
<1>2. UNCHANGED <<passStatus, passCached, credit, passReq, known, unheard>>
  BY DEF Pass!Cancel, Pass!ExpireSlot
<1>3. /\ \A b \in c.accounts : passHolders'[b] \subseteq passHolders[b]
      /\ \A b \in c.accounts, s \in c.requests : s \in passHolders[b] /\ s \notin passHolders'[b] => ~WorksOn(s, b)
      /\ passHolders' \in [c.accounts -> SUBSET c.requests] /\ passGone' \subseteq c.requests
  <2>1. CASE Pass(c)!Cancel(r)
    BY <1>1, <2>1 DEF Pass!Cancel, PassTypes
  <2>2. ASSUME NEW a \in c.accounts, Pass(c)!ExpireSlot(r, a)
        PROVE  /\ \A b \in c.accounts : passHolders'[b] = IF b = a THEN passHolders[b] \ {r} ELSE passHolders[b]
               /\ ~WorksOn(r, a) /\ UNCHANGED passGone
               /\ passHolders' \in [c.accounts -> SUBSET c.requests]
    BY <1>1, <2>2 DEF Pass!ExpireSlot, Pass!Current, WorksOn, PassTypes
  <2> QED
    BY <1>1, <2>1, <2>2 DEF PassTypes
<1>4. \A b, s : WorksOn(s, b)' <=> WorksOn(s, b)
  BY <1>2 DEF WorksOn
<1>5. SlotsHeld(c)'
  <2>1. \A b \in c.accounts : IsFiniteSet(passHolders'[b]) /\ Cardinality(passHolders'[b]) <= Pass(c)!Slots(b)
    BY <1>1, <1>3, FewerSlots
  <2>2. \A b \in c.accounts, s \in c.requests \ unheard' : s \in passHolders'[b] <=> WorksOn(s, b)'
    <3> TAKE b \in c.accounts, s \in c.requests \ unheard'
    <3>1. s \in passHolders[b] <=> WorksOn(s, b)
      BY <1>1, <1>2 DEF SlotsHeld
    <3> QED
      BY <1>3, <1>4, <3>1
  <2> QED
    BY <2>1, <2>2 DEF SlotsHeld, Pass!Slots
<1> QED
  BY <1>1, <1>2, <1>3, <1>5 DEF PassInv, PassTypes, SpentMarked

\* Every step of the passes leaves the invariant.
LEMMA PassStep ==
  ASSUME NEW CONSTANT c, Pass(c)!SinglePassAssumption, PassInv(c),
         Pass(c)!Next \/ UNCHANGED <<passStatus, passCached, credit, passHolders, passReq, passGone, known, unheard>>
  PROVE  PassInv(c)'
<1>1. CASE UNCHANGED <<passStatus, passCached, credit, passHolders, passReq, passGone, known, unheard>>
  BY <1>1 DEF PassInv, PassTypes, SlotsHeld, SpentMarked, WorksOn, Pass!Slots
<1>2. CASE Pass(c)!Next
  <2>1. ASSUME NEW r \in c.requests, Pass(c)!Step(r)
        PROVE  PassInv(c)'
    BY <2>1, RouteStep, ListStep, TakesSlot, TakesNone, BusyStep, ExhaustedStep, AnswerStep DEF Pass!Step, Pass!Pools
  <2>2. ASSUME NEW a \in c.accounts, Pass(c)!Probe(a) \/ Pass(c)!Recover(a)
        PROVE  PassInv(c)'
    BY <2>2, ProbeStep
  <2>3. ASSUME NEW r \in c.requests, Pass(c)!Cancel(r) \/ \E a \in c.accounts : Pass(c)!ExpireSlot(r, a)
        PROVE  PassInv(c)'
    BY <2>3, SlotLost
  <2> QED
    BY <1>2, <2>1, <2>2, <2>3 DEF Pass!Next
<1> QED
  BY <1>1, <1>2

\* So a generation is told that all accounts are busy only if it tried none, and whose
\* commands get through holds the slot it works with.
LEMMA PassImplies ==
  ASSUME NEW CONSTANT c, PassInv(c)
  PROVE  Pass(c)!SinglePassTypeOK /\ Pass(c)!SlotsMatchJobs /\ Pass(c)!FullMeansUntried
<1>1. PassTypes(c) /\ SlotsHeld(c)
  BY DEF PassInv
<1>2. Pass(c)!SinglePassTypeOK
  <2>1. /\ passStatus \in [c.accounts -> {"active", "quota", "disabled"}]
        /\ \A a \in c.accounts : passCached[a] \in {-1} \cup 0..c.credits[a]
        /\ \A a \in c.accounts : credit[a] \in 0..c.credits[a]
        /\ passHolders \in [c.accounts -> SUBSET c.requests]
        /\ known \subseteq c.accounts /\ passGone \subseteq c.requests /\ unheard \subseteq c.requests
    BY <1>1 DEF PassTypes
  <2>2. \A r \in c.requests :
          /\ passReq[r].pc \in {"runway", "grok", "custom", "start", "round", "trying", "ended"}
          /\ passReq[r].err \in {"", "ok", "no_account", "full", "auth", "quota", "temp", "param"}
          /\ passReq[r].tried \subseteq c.accounts
          /\ passReq[r].i \in 1..Len(passReq[r].list) + 1
    <3> TAKE r \in c.requests
    <3>1. passReq[r] \in PassReqs(c) /\ InList(passReq[r])
      BY <1>1 DEF PassTypes
    <3>2. passReq[r].pc \in {"runway", "grok", "custom", "start", "round", "trying", "ended"}
      BY <3>1 DEF PassReqs
    <3> QED
      BY <3>1, <3>2, ReqFields DEF InList
  <2> QED
    BY <2>1, <2>2 DEF Pass!SinglePassTypeOK, Pass!Unknown, Pass!Pools
<1>3. Pass(c)!SlotsMatchJobs
  BY <1>1, PassCount DEF SlotsHeld, WorksOn, Pass!SlotsMatchJobs, Pass!Current
<1>4. Pass(c)!FullMeansUntried
  BY <1>1 DEF PassTypes, Untried, Pass!FullMeansUntried, Pass!Ended
<1> QED
  BY <1>2, <1>3, <1>4

\* An account that was found spent is in no list that is made after that.
LEMMA SpentUnlisted ==
  ASSUME NEW CONSTANT c, Pass(c)!SinglePassAssumption, PassInv(c),
         Pass(c)!Next \/ UNCHANGED <<passStatus, passCached, credit, passHolders, passReq, passGone, known, unheard>>
  PROVE  Pass(c)!LeavesSpentOut
<1>1. PassTypes(c) /\ SpentMarked(c) /\ passReq \in [c.requests -> PassReqs(c)]
  BY DEF PassInv, PassTypes
<1>2. SUFFICES ASSUME NEW r \in c.requests, NEW a \in c.accounts, a \in known, c.poolOf[a] # "grok",
                      c.pinOf[r] = 0,
                      passReq[r].pc \in {"runway", "grok", "custom"}, passReq'[r].pc = "round"
               PROVE  a \notin Pass(c)!Range(passReq'[r].list)
  BY DEF Pass!LeavesSpentOut, Pass!Pools
<1>3. PICK p \in {"runway", "grok", "custom"} : Pass(c)!List(r, p)
  <2>1. ASSUME NEW s \in c.requests, Pass(c)!Step(s)
        PROVE  \E p \in {"runway", "grok", "custom"} : Pass(c)!List(r, p)
    <3>1. CASE s = r
      BY <1>1, <1>2, <2>1, <3>1 DEF Pass!Step, Pass!Route, Pass!Acquire, Pass!AcquireOpen, Pass!Busy, Pass!Success,
         Pass!Exhausted,
        Pass!Refused, Pass!Pools
    <3>2. CASE s # r
      <4>1. passReq'[r] = passReq[r]
        BY <1>1, <2>1, <3>2 DEF Pass!Step, Pass!Route, Pass!Acquire, Pass!AcquireOpen, Pass!Busy, Pass!Success,
          Pass!Exhausted, Pass!Refused, Pass!Failover, Pass!NextAccount, Pass!List
      <4> QED
        BY <1>2, <4>1
    <3> QED
      BY <3>1, <3>2
  <2>2. Pass(c)!Next
    BY <1>2
  <2> QED
    BY <1>2, <2>1, <2>2 DEF Pass!Next, Pass!Probe, Pass!Recover, Pass!Cancel, Pass!ExpireSlot
<1>4. PICK g \in PassReqs(c) : /\ passReq' = [passReq EXCEPT ![r] = g]
                             /\ Pass(c)!Range(g.list) \subseteq Listed(c, r, p)
  <2>1. MakesList(c, r, p)
    BY <1>3, ListMakes
  <2> QED
    BY <2>1 DEF MakesList
<1>5. passReq'[r].list = g.list
  BY <1>1, <1>4
<1>6. a \notin Listed(c, r, p)
  <2>1. /\ c.poolOf[a] \in {"runway", "custom"}
        /\ passStatus[a] # "active"
    BY <1>1, <1>2 DEF SpentMarked, Pass!SinglePassAssumption, Pass!Pools
  <2> QED
    BY <1>2, <2>1 DEF Listed, Pass!customActive, Pass!customAccountServes, Pass!nativeActive
<1> QED
  BY <1>4, <1>5, <1>6

-----------------------------------------------------------------------------
(* For a reason.                                                           *)

\* The same of the parts of the passes.
LEMMA PassAlone ==
  ASSUME [PoolsNext]_vars
  PROVE  \A p \in {"mixed", "passes"} :
           part = p => \/ Pass(Case[p])!Next
                       \/ UNCHANGED <<passStatus, passCached, credit, passHolders, passReq, passGone, known, unheard>>
<1>1. CASE UNCHANGED vars
  BY <1>1 DEF vars, generationVars, passVars
<1>2. CASE PoolsNext
  BY <1>2 DEF PoolsNext, OfFailover, OfPass, OfHold, OfCredential, OfActivation, OfImport, OfCookie, OfSweep,
    passVars
<1> QED
  BY <1>1, <1>2

\* The invariant of the passes, as the parts are never changed.
PassesInv == \A p \in {"mixed", "passes"} : part = p => PassInv(Case[p])

\* Every part begins with it.
LEMMA PassesInitially == PoolsInit => PassesInv
<1>1. PoolsInit => \A p \in {"mixed", "passes"} : part = p => Pass(Case[p])!Init
  BY DEF PoolsInit, Its
<1> QED
  BY <1>1, PoolsAssumption, PassInitially DEF PassesInv

\* Every step leaves it, and no list that is made has an account that was found spent.
LEMMA PassesStep ==
  ASSUME PassesInv, [PoolsNext]_vars
  PROVE  PassesInv' /\ (part = "passes" => Pass(Case.passes)!LeavesSpentOut)
<1>1. part' = part
  BY PartsAlone
<1>2. \A p \in {"mixed", "passes"} : part = p => PassInv(Case[p])'
  BY PassAlone, PoolsAssumption, PassStep DEF PassesInv
<1>3. part = "passes" => Pass(Case.passes)!LeavesSpentOut
  BY PassAlone, PoolsAssumption, SpentUnlisted DEF PassesInv
<1> QED
  BY <1>1, <1>2, <1>3 DEF PassesInv

\* A sweep leaves its rest only for a profile that is due.
LEMMA SweepStarts ==
  ASSUME NEW CONSTANT c, Cookie(c)!CookieAssumption, CookieTypes(c), [Cookie(c)!Next]_cookieVars
  PROVE  Cookie(c)!SweepsTheEnabled
<1>1. SUFFICES ASSUME NEW s \in c.sweeps, caller[s].pc = "idle", caller'[s].pc # "idle"
               PROVE  profile.enabled
  BY DEF Cookie!SweepsTheEnabled
<1>2. /\ c.sweeps \cap c.admins = {} /\ s \in Refreshers(c)
      /\ caller \in [Refreshers(c) -> [pc : {"idle", "due", "read", "failed", "kill", "minted", "stamp"},
                                       cookie : 0..c.maxCookies, failures : 0..4]]
  BY DEF Cookie!CookieAssumption, CookieTypes, Refreshers
<1>3. \A d \in Refreshers(c) : Cookie(c)!Step(d) => d # s /\ caller'[s] = caller[s]
  <2> TAKE d \in Refreshers(c)
  <2>1. Cookie(c)!Step(d) => d # s
    BY <1>1 DEF Cookie!Step, Cookie!Read, Cookie!Exchanged, Cookie!ExchangeFails, Cookie!PutOff, Cookie!Kill,
      Cookie!Minted, Cookie!Stamp
  <2>2. Cookie(c)!Step(d) /\ d # s => caller'[s] = caller[s]
    BY <1>2 DEF Cookie!Step, Cookie!Read, Cookie!Exchanged, Cookie!ExchangeFails, Cookie!PutOff, Cookie!Kill,
      Cookie!Minted, Cookie!Stamp
  <2> QED
    BY <2>1, <2>2
<1>4. \A d \in Refreshers(c) : Cookie(c)!RefreshButton(d) => caller'[s] = caller[s]
  BY <1>2 DEF Cookie!RefreshButton
<1>5. \A d \in Refreshers(c) : Cookie(c)!RefreshDue(d) => caller'[s] = caller[s] \/ profile.enabled
  BY <1>2 DEF Cookie!RefreshDue, Cookie!ListDue
<1>6. \/ \E d \in Refreshers(c) : Cookie(c)!RefreshDue(d)
      \/ caller'[s] = caller[s]
  BY <1>3, <1>4 DEF Cookie!Next, Cookie!Callers, Refreshers, Cookie!Due, Cookie!Revoke, Cookie!Import,
     Cookie!checkPendingAdobe, Cookie!Switch, Cookie!SetStatus, Cookie!Delete, cookieVars
<1> QED
  BY <1>1, <1>5, <1>6

\* Whatever the accounts and generations: an account that was found spent is listed by
\* nobody after that; where balances only fall one is sunk only below the floor; a profile
\* that is switched off is not swept, and where the exchange fails at most twice on a
\* cookie that works an account is killed only when its cookie is dead.
THEOREM Pools_ForAReason ==
  ASSUME Falling(Case.sunk), FewBlips(Case.dead)
  PROVE  PoolsSpec => ForAReason
<1> DEFINE I == /\ PassesInv
                /\ part = "sunk" => SunkInv(Case.sunk)
                /\ part = "swept" => CookieTypes(Case.swept) /\ KillersCounted(Case.swept)
                /\ part = "dead" => CookieTypes(Case.dead) /\ KillersCounted(Case.dead) /\ DeadInv(Case.dead)
<1>1. PoolsInit => I
  <2>1. PoolsInit => /\ part = "sunk" => Hold(Case.sunk)!Init
                     /\ part = "swept" => Cookie(Case.swept)!Init
                     /\ part = "dead" => Cookie(Case.dead)!Init
    BY DEF PoolsInit, Its
  <2> QED
    BY <2>1, HoldAssumptions, StayAssumptions, PassesInitially, SunkInitially, CookieInitially, DeadInitially
<1>2. I /\ [PoolsNext]_vars =>
        /\ I'
        /\ part = "passes" => Pass(Case.passes)!LeavesSpentOut
        /\ part = "sunk" => Hold(Case.sunk)!SinksTheShort
        /\ part = "swept" => Cookie(Case.swept)!SweepsTheEnabled
        /\ part = "dead" => Cookie(Case.dead)!KillsTheDead
  <2> SUFFICES ASSUME I, [PoolsNext]_vars
               PROVE  /\ I'
                      /\ part = "passes" => Pass(Case.passes)!LeavesSpentOut
                      /\ part = "sunk" => Hold(Case.sunk)!SinksTheShort
                      /\ part = "swept" => Cookie(Case.swept)!SweepsTheEnabled
                      /\ part = "dead" => Cookie(Case.dead)!KillsTheDead
    OBVIOUS
  <2>1. PassesInv' /\ (part = "passes" => Pass(Case.passes)!LeavesSpentOut)
    BY PassesStep
  <2>2. part' = part /\ (part = "sunk" => SunkInv(Case.sunk)' /\ Hold(Case.sunk)!SinksTheShort)
    BY PartsAlone, HoldAssumptions, SunkStep
  <2>3. part = "swept" => /\ CookieTypes(Case.swept)' /\ KillersCounted(Case.swept)'
                          /\ Cookie(Case.swept)!SweepsTheEnabled
    BY PartsStay, StayAssumptions, CookieTypesStep, SweepStarts
  <2>4. part = "dead" => /\ CookieTypes(Case.dead)' /\ KillersCounted(Case.dead)' /\ DeadInv(Case.dead)'
                         /\ Cookie(Case.dead)!KillsTheDead
    BY PartsStay, StayAssumptions, CookieTypesStep, DeadStep
  <2> QED
    BY <2>1, <2>2, <2>3, <2>4
<1> QED
  BY <1>1, <1>2, PTL DEF PoolsSpec, ForAReason

-----------------------------------------------------------------------------
(* The rotation of a pool.                                                 *)

\* A finite set that is ordered can be listed in its order: at the place of an element
\* are as many as come before it.
LEMMA SortedExists ==
  ASSUME NEW S, IsFiniteSet(S), NEW R,
         \A a \in S : <<a, a>> \notin R,
         \A a, b, d \in S : <<a, b>> \in R /\ <<b, d>> \in R => <<a, d>> \in R,
         \A a, b \in S : a # b => <<a, b>> \in R \/ <<b, a>> \in R
  PROVE  \E s \in Bijection(1..Cardinality(S), S) :
           \A j \in 1..Cardinality(S) : \A i \in 1..j-1 : <<s[i], s[j]>> \in R
<1> DEFINE n == Cardinality(S)
           Below(a) == {b \in S : <<b, a>> \in R}
           f == [a \in S |-> Cardinality(Below(a)) + 1]
           s == [i \in 1..n |-> CHOOSE a \in S : f[a] = i]
<1>1. n \in Nat /\ IsFiniteSet(1..n) /\ Cardinality(1..n) = n
  BY FS_CardinalityType, FS_Interval
<1>2. \A a \in S : IsFiniteSet(Below(a)) /\ Cardinality(Below(a)) \in Nat /\ Cardinality(Below(a)) < n
  <2> TAKE a \in S
  <2>1. IsFiniteSet(S \ {a}) /\ Cardinality(S \ {a}) = n - 1
    BY FS_RemoveElement
  <2>2. Below(a) \subseteq S \ {a}
    OBVIOUS
  <2>3. IsFiniteSet(Below(a)) /\ Cardinality(Below(a)) <= n - 1
    <3> HIDE DEF Below
    <3>1. Below(a) \in SUBSET (S \ {a})
      BY <2>2
    <3> QED
      BY <2>1, <3>1, FS_Subset
  <2> QED
    BY <1>1, <2>3, FS_CardinalityType
<1>3. \A a, b \in S : <<a, b>> \in R => f[a] < f[b]
  <2> SUFFICES ASSUME NEW a \in S, NEW b \in S, <<a, b>> \in R PROVE f[a] < f[b]
    OBVIOUS
  <2>1. a \notin Below(a) /\ Below(a) \cup {a} \subseteq Below(b)
    OBVIOUS
  <2>2. Cardinality(Below(a) \cup {a}) = Cardinality(Below(a)) + 1
    BY <1>2, <2>1, FS_AddElement
  <2>3. Cardinality(Below(a) \cup {a}) <= Cardinality(Below(b))
    BY <1>2, <2>1, FS_Subset
  <2> HIDE DEF Below
  <2> QED
    BY <1>2, <2>2, <2>3
<1> HIDE DEF Below
<1>4. f \in [S -> 1..n]
  BY <1>1, <1>2
<1> HIDE DEF f
<1>5. \A a, b \in S : f[a] = f[b] => a = b
  <2>1. \A a \in S : f[a] \in Int
    BY <1>1, <1>4
  <2>2. SUFFICES ASSUME NEW a \in S, NEW b \in S, f[a] = f[b], a # b PROVE FALSE
    OBVIOUS
  <2>3. f[a] < f[b] \/ f[b] < f[a]
    BY <1>3, <2>2
  <2> QED
    BY <2>1, <2>2, <2>3
<1>6. f \in Injection(S, 1..n)
  BY <1>4, <1>5 DEF Injection, IsInjective
<1>7. \A i \in 1..n : \E a \in S : f[a] = i
  <2>1. f \in Surjection(S, 1..n)
    BY <1>1, <1>6, FS_Injection
  <2> QED
    BY <2>1 DEF Surjection
<1>8. \A i \in 1..n : s[i] \in S /\ f[s[i]] = i
  BY <1>7
<1>9. s \in [1..n -> S]
  BY <1>8
<1> HIDE DEF s
<1>10. s \in Bijection(1..n, S)
  <2>1. s \in Injection(1..n, S)
    BY <1>8, <1>9 DEF Injection, IsInjective
  <2>2. \A a \in S : f[a] \in 1..n /\ s[f[a]] = a
    BY <1>4, <1>5, <1>8
  <2>3. s \in Surjection(1..n, S)
    BY <1>9, <2>2 DEF Surjection
  <2> QED
    BY <2>1, <2>3 DEF Bijection
<1>11. \A j \in 1..n : \A i \in 1..j-1 : <<s[i], s[j]>> \in R
  <2> SUFFICES ASSUME NEW j \in 1..n, NEW i \in 1..j-1 PROVE <<s[i], s[j]>> \in R
    OBVIOUS
  <2>1. i \in 1..n /\ i < j /\ i # j /\ ~(j < i)
    BY <1>1
  <2>2. s[i] \in S /\ s[j] \in S /\ f[s[i]] = i /\ f[s[j]] = j
    BY <1>8, <2>1
  <2>3. s[i] # s[j] /\ <<s[j], s[i]>> \notin R
    BY <1>3, <2>1, <2>2
  <2> QED
    BY <2>2, <2>3
<1> QED
  BY <1>10, <1>11

\* What is left by a division.
LEMMA RemainderIs ==
  ASSUME NEW n \in Nat \ {0}, NEW x \in Int
  PROVE  x % n \in 0..n-1 /\ \E q \in Int : x = q * n + (x % n)
<1>1. x % n \in 0..n-1
  OBVIOUS
<1>2. x = (x \div n) * n + (x % n) /\ x \div n \in Int
  OBVIOUS
<1> QED
  BY <1>1, <1>2

\* Numbers that are less than n apart and leave the same are the same.
LEMMA SameRemainder ==
  ASSUME NEW n \in Nat \ {0}, NEW x \in Int, NEW y \in Int, x % n = y % n, x - y < n, y - x < n
  PROVE  x = y
<1>1. PICK p \in Int : x = p * n + (x % n)
  BY RemainderIs
<1>2. PICK q \in Int : y = q * n + (y % n)
  BY RemainderIs
<1>3. x % n \in Int
  BY RemainderIs
<1>4. x - y = p * n - q * n
  BY <1>1, <1>2, <1>3
<1>5. CASE p > q
  <2>1. p * n >= (q + 1) * n
    BY <1>5
  <2>2. (q + 1) * n = q * n + n
    OBVIOUS
  <2> QED
    BY <1>4, <2>1, <2>2
<1>6. CASE q > p
  <2>1. q * n >= (p + 1) * n
    BY <1>6
  <2>2. (p + 1) * n = p * n + n
    OBVIOUS
  <2> QED
    BY <1>4, <2>1, <2>2
<1>7. CASE p = q
  BY <1>4, <1>7
<1> QED
  BY <1>5, <1>6, <1>7

\* The instance's own operators are those of the standard modules.
LEMMA FailCount ==
  ASSUME NEW CONSTANT c
  PROVE  \A S : /\ Failover(c)!Cardinality(S) = Cardinality(S)
                /\ Failover(c)!IsFiniteSet(S) = IsFiniteSet(S)
BY DEF Failover!Cardinality, Cardinality, Failover!IsFiniteSet, IsFiniteSet

\* So are the listings of a set.
LEMMA FailBijection ==
  ASSUME NEW CONSTANT c
  PROVE  \A S, T : Failover(c)!Bijection(S, T) = Bijection(S, T)
BY DEF Failover!Bijection, Failover!Injection, Failover!Surjection, Failover!IsInjective, Bijection, Injection,
  Surjection, IsInjective

\* The group of an account, and its place there.
Group(c, S, a) == {b \in S : c.weight[b] = c.weight[a] /\ (b \in cooling <=> a \in cooling)}
Place(c, S, a) == Cardinality({b \in Group(c, S, a) : b < a})

\* A turn is a place in the group, moved on by the cursor.
LEMMA TurnIs ==
  ASSUME NEW CONSTANT c, Failover(c)!FailoverAssumption, NEW S, S \subseteq c.accounts, NEW a \in S, NEW k \in Int
  PROVE  /\ Failover(c)!Peers(S, a) = Group(c, S, a)
         /\ IsFiniteSet(Group(c, S, a)) /\ Cardinality(Group(c, S, a)) \in Nat \ {0}
         /\ Place(c, S, a) \in 0..Cardinality(Group(c, S, a)) - 1
         /\ Failover(c)!Turn(S, a, k) = (Place(c, S, a) - k) % Cardinality(Group(c, S, a))
         /\ Failover(c)!Turn(S, a, k) \in 0..Cardinality(Group(c, S, a)) - 1
<1> DEFINE G == Group(c, S, a)
           L == {b \in G : b < a}
<1>1. Failover(c)!Peers(S, a) = G
  BY DEF Failover!Peers, Group
<1>2. IsFiniteSet(c.accounts) /\ c.accounts \subseteq Nat \ {0}
  BY FailCount DEF Failover!FailoverAssumption
<1>3. IsFiniteSet(G) /\ a \in G /\ Cardinality(G) \in Nat
  <2>1. G \in SUBSET c.accounts /\ a \in G
    BY DEF Group
  <2> QED
    BY <1>2, <2>1, FS_Subset, FS_CardinalityType
<1>4. IsFiniteSet(G \ {a}) /\ Cardinality(G \ {a}) = Cardinality(G) - 1
  BY <1>3, FS_RemoveElement
<1>5. a \in Nat
  BY <1>2
<1> HIDE DEF G
<1>6. L \in SUBSET (G \ {a})
  BY <1>5
<1>7. Cardinality(L) \in Nat /\ Cardinality(L) <= Cardinality(G) - 1
  <2> HIDE DEF L
  <2> QED
    BY <1>4, <1>6, FS_Subset, FS_CardinalityType
<1>8. Cardinality(G \ {a}) \in Nat
  BY <1>4, FS_CardinalityType
<1>9. Cardinality(G) \in Nat \ {0} /\ Cardinality(L) \in 0..Cardinality(G) - 1
  BY <1>3, <1>4, <1>7, <1>8
<1>10. Failover(c)!Turn(S, a, k) = (Cardinality(L) - k) % Cardinality(G)
  BY <1>1, FailCount DEF Failover!Turn, G
<1>11. Failover(c)!Turn(S, a, k) \in 0..Cardinality(G) - 1
  <2>1. Cardinality(L) - k \in Int
    BY <1>7
  <2> HIDE DEF L
  <2> QED
    BY <1>9, <1>10, <2>1, RemainderIs
<1> QED
  BY <1>1, <1>3, <1>9, <1>10, <1>11 DEF G, Place

\* Two accounts of a group have different places, and turns.
LEMMA TurnsDiffer ==
  ASSUME NEW CONSTANT c, Failover(c)!FailoverAssumption, NEW S, S \subseteq c.accounts, NEW k \in Int,
         NEW a \in S, NEW b \in S, a # b, b \in Group(c, S, a)
  PROVE  /\ Group(c, S, b) = Group(c, S, a) /\ Failover(c)!Turn(S, a, k) # Failover(c)!Turn(S, b, k)
<1>1. Group(c, S, b) = Group(c, S, a)
  BY DEF Group
<1>2. \A x, y \in S : x < y /\ Group(c, S, x) = Group(c, S, y) => Place(c, S, x) < Place(c, S, y)
  <2> SUFFICES ASSUME NEW x \in S, NEW y \in S, x < y, Group(c, S, x) = Group(c, S, y)
               PROVE  Place(c, S, x) < Place(c, S, y)
    OBVIOUS
  <2> DEFINE G == Group(c, S, x)
             L == {d \in G : d < x}
             M == {d \in G : d < y}
  <2>1. x \in G /\ G \subseteq S /\ c.accounts \subseteq Nat \ {0} /\ IsFiniteSet(G)
    <3>1. x \in G /\ G \subseteq S
      BY DEF Group
    <3>2. IsFiniteSet(Group(c, S, x))
      BY TurnIs
    <3> QED
      BY <3>1, <3>2 DEF Failover!FailoverAssumption
  <2> HIDE DEF G
  <2>2. x \notin L /\ L \cup {x} \in SUBSET M /\ M \in SUBSET G /\ L \in SUBSET G
    BY <2>1
  <2> HIDE DEF L, M
  <2>3. IsFiniteSet(L) /\ IsFiniteSet(M) /\ Cardinality(L) \in Nat /\ Cardinality(M) \in Nat
    BY <2>1, <2>2, FS_Subset, FS_CardinalityType
  <2>4. Cardinality(L \cup {x}) = Cardinality(L) + 1
    BY <2>2, <2>3, FS_AddElement
  <2>5. Cardinality(L \cup {x}) <= Cardinality(M)
    BY <2>2, <2>3, FS_Subset
  <2>6. Place(c, S, x) = Cardinality(L) /\ Place(c, S, y) = Cardinality(M)
    BY DEF Place, L, M, G
  <2> QED
    BY <2>3, <2>4, <2>5, <2>6
<1>3. a \in Nat /\ b \in Nat
  BY DEF Failover!FailoverAssumption
<1>4. Place(c, S, a) # Place(c, S, b)
  <2>1. a < b \/ b < a
    BY <1>3
  <2>2. Place(c, S, a) \in Int /\ Place(c, S, b) \in Int
    BY TurnIs
  <2> QED
    BY <1>1, <1>2, <2>1, <2>2
<1> DEFINE n == Cardinality(Group(c, S, a))
           x == Place(c, S, a) - k
           y == Place(c, S, b) - k
<1>5. n \in Nat \ {0} /\ Place(c, S, a) \in 0..n-1
      /\ Failover(c)!Turn(S, a, k) = (Place(c, S, a) - k) % n
  BY TurnIs
<1>6. Place(c, S, b) \in 0..n-1 /\ Failover(c)!Turn(S, b, k) = (Place(c, S, b) - k) % n
  BY <1>1, TurnIs
<1> HIDE DEF n
<1>7. x \in Int /\ y \in Int /\ x - y < n /\ y - x < n /\ x # y
  <2>1. n \in Nat /\ Place(c, S, a) \in 0..n-1 /\ Place(c, S, b) \in 0..n-1
    BY <1>5, <1>6
  <2> QED
    BY <1>4, <2>1
<1>8. x % n # y % n
  <2> HIDE DEF x, y
  <2> QED
    BY <1>5, <1>7, SameRemainder
<1> QED
  BY <1>1, <1>5, <1>6, <1>8

\* The accounts of a pool are listed in the order of Before, whatever the cursor.
LEMMA RotationIs ==
  ASSUME NEW CONSTANT c, Failover(c)!FailoverAssumption, NEW S, S \subseteq c.accounts, NEW k \in Int
  PROVE  /\ IsFiniteSet(S) /\ Cardinality(S) \in Nat
         /\ Failover(c)!rotateRoundRobin(S, k) \in Bijection(1..Cardinality(S), S)
         /\ \A j \in 1..Cardinality(S) : \A i \in 1..j-1 :
              Failover(c)!Before(S, Failover(c)!rotateRoundRobin(S, k)[i],
                                 Failover(c)!rotateRoundRobin(S, k)[j], k)
<1> DEFINE R == {p \in S \X S : Failover(c)!Before(S, p[1], p[2], k)}
<1>1. IsFiniteSet(S) /\ Cardinality(S) \in Nat
  <2>1. IsFiniteSet(c.accounts)
    BY FailCount DEF Failover!FailoverAssumption
  <2> QED
    BY <2>1, FS_Subset, FS_CardinalityType
<1>2. \A a, b \in S : <<a, b>> \in R <=>
        \/ a \notin cooling /\ b \in cooling
        \/ /\ a \in cooling <=> b \in cooling
           /\ \/ c.weight[a] > c.weight[b]
              \/ c.weight[a] = c.weight[b] /\ Failover(c)!Turn(S, a, k) < Failover(c)!Turn(S, b, k)
  BY DEF Failover!Before
<1>3. \A a \in S : c.weight[a] \in Nat /\ Failover(c)!Turn(S, a, k) \in Int
  <2> TAKE a \in S
  <2>1. c.weight[a] \in Nat
    BY DEF Failover!FailoverAssumption
  <2>2. Failover(c)!Turn(S, a, k) \in 0..Cardinality(Group(c, S, a)) - 1 /\ Cardinality(Group(c, S, a)) \in Nat
    BY TurnIs
  <2> QED
    BY <2>1, <2>2
<1> HIDE DEF R
<1>4. \A a \in S : <<a, a>> \notin R
  BY <1>2, <1>3
<1>5. \A a, b, d \in S : <<a, b>> \in R /\ <<b, d>> \in R => <<a, d>> \in R
  BY <1>2, <1>3
<1>6. \A a, b \in S : a # b => <<a, b>> \in R \/ <<b, a>> \in R
  <2> SUFFICES ASSUME NEW a \in S, NEW b \in S, a # b PROVE <<a, b>> \in R \/ <<b, a>> \in R
    OBVIOUS
  <2>1. b \in Group(c, S, a) => Failover(c)!Turn(S, a, k) # Failover(c)!Turn(S, b, k)
    BY TurnsDiffer
  <2>2. b \in Group(c, S, a) <=> c.weight[b] = c.weight[a] /\ (b \in cooling <=> a \in cooling)
    BY DEF Group
  <2> QED
    BY <1>2, <1>3, <2>1, <2>2
<1>7. \E s \in Bijection(1..Cardinality(S), S) :
        \A j \in 1..Cardinality(S) : \A i \in 1..j-1 : <<s[i], s[j]>> \in R
  BY <1>1, <1>4, <1>5, <1>6, SortedExists
<1>8. \E s \in Bijection(1..Cardinality(S), S) :
        \A j \in 1..Cardinality(S) : \A i \in 1..j-1 : Failover(c)!Before(S, s[i], s[j], k)
  <2>1. \A p \in R : Failover(c)!Before(S, p[1], p[2], k)
    BY DEF R
  <2> QED
    BY <1>7, <2>1
<1>9. Failover(c)!rotateRoundRobin(S, k) =
        CHOOSE s \in Bijection(1..Cardinality(S), S) :
          \A j \in 1..Cardinality(S) : \A i \in 1..j-1 : Failover(c)!Before(S, s[i], s[j], k)
  BY FailCount, FailBijection DEF Failover!rotateRoundRobin
<1> QED
  BY <1>1, <1>8, <1>9

\* The first of a list has the turn.
LEMMA FirstHasTheTurn ==
  ASSUME NEW CONSTANT c, Failover(c)!FailoverAssumption, NEW S, S \subseteq c.accounts, S # {}, NEW k \in Int
  PROVE  /\ Failover(c)!rotateRoundRobin(S, k)[1] \in S
         /\ Failover(c)!Turn(S, Failover(c)!rotateRoundRobin(S, k)[1], k) = 0
<1> DEFINE s == Failover(c)!rotateRoundRobin(S, k)
           h == s[1]
           G == Group(c, S, h)
           n == Cardinality(G)
           f == [b \in G |-> Failover(c)!Turn(S, b, k)]
<1>1. /\ IsFiniteSet(S) /\ Cardinality(S) \in Nat /\ s \in [1..Cardinality(S) -> S]
      /\ \A a \in S : \E i \in 1..Cardinality(S) : s[i] = a
      /\ \A j \in 1..Cardinality(S) : \A i \in 1..j-1 : Failover(c)!Before(S, s[i], s[j], k)
  <2>1. /\ IsFiniteSet(S) /\ Cardinality(S) \in Nat /\ s \in Bijection(1..Cardinality(S), S)
        /\ \A j \in 1..Cardinality(S) : \A i \in 1..j-1 : Failover(c)!Before(S, s[i], s[j], k)
    BY RotationIs
  <2> HIDE DEF s
  <2>2. s \in [1..Cardinality(S) -> S] /\ \A a \in S : \E i \in 1..Cardinality(S) : s[i] = a
    BY <2>1 DEF Bijection, Injection, Surjection
  <2> QED
    BY <2>1, <2>2
<1> HIDE DEF s
<1>2. 1 \in 1..Cardinality(S) /\ h \in S
  BY <1>1
<1>3. \A b \in S : b # h => Failover(c)!Before(S, h, b, k)
  <2> TAKE b \in S
  <2>1. PICK i \in 1..Cardinality(S) : s[i] = b
    BY <1>1
  <2>2. b # h => 1 \in 1..i-1
    BY <1>1, <2>1
  <2> QED
    BY <1>1, <2>1, <2>2
<1> HIDE DEF h
<1>4. IsFiniteSet(G) /\ n \in Nat \ {0} /\ h \in G /\ G \subseteq S
  <2>1. IsFiniteSet(G) /\ n \in Nat \ {0}
    BY <1>2, TurnIs
  <2>2. h \in G /\ G \subseteq S
    BY <1>2 DEF Group
  <2> QED
    BY <2>1, <2>2
<1>5. \A b \in G : Group(c, S, b) = G /\ Failover(c)!Turn(S, b, k) \in 0..n-1
  <2> TAKE b \in G
  <2>1. Group(c, S, b) = G
    BY <1>4 DEF Group
  <2>2. b \in S
    BY <1>4
  <2>3. Failover(c)!Turn(S, b, k) \in 0..Cardinality(Group(c, S, b)) - 1
    BY <2>2, TurnIs
  <2> QED
    BY <2>1, <2>3
<1>6. \A a, b \in G : a # b => Failover(c)!Turn(S, a, k) # Failover(c)!Turn(S, b, k)
  BY <1>4, <1>5, TurnsDiffer
<1>7. \A b \in G : b # h => Failover(c)!Turn(S, h, k) < Failover(c)!Turn(S, b, k)
  <2> SUFFICES ASSUME NEW b \in G, b # h PROVE Failover(c)!Turn(S, h, k) < Failover(c)!Turn(S, b, k)
    OBVIOUS
  <2>1. Failover(c)!Before(S, h, b, k)
    BY <1>3, <1>4
  <2>2. c.weight[b] = c.weight[h] /\ (b \in cooling <=> h \in cooling) /\ c.weight[h] \in Nat
    BY <1>2, <1>4 DEF Group, Failover!FailoverAssumption
  <2> QED
    BY <2>1, <2>2 DEF Failover!Before
<1> HIDE DEF G, n
<1>8. f \in Injection(G, 0..n-1)
  BY <1>5, <1>6 DEF Injection, IsInjective
<1>9. IsFiniteSet(0..n-1) /\ Cardinality(0..n-1) = n
  BY <1>4, FS_Interval
<1>10. f \in Surjection(G, 0..n-1)
  <2> HIDE DEF f
  <2> QED
    BY <1>8, <1>9, FS_Injection DEF n
<1>11. 0 \in 0..n-1
  BY <1>4
<1>12. PICK b \in G : Failover(c)!Turn(S, b, k) = 0
  BY <1>10, <1>11 DEF Surjection
<1>13. Failover(c)!Turn(S, h, k) = 0
  BY <1>4, <1>5, <1>7, <1>12
<1> QED
  BY <1>2, <1>13 DEF h, s

\* So that the next choice is another, if the group is larger than one.
LEMMA NextIsAnother ==
  ASSUME NEW CONSTANT c, Failover(c)!FailoverAssumption
  PROVE  Failover(c)!PicksSpread
<1>1. ASSUME NEW S, S \subseteq c.accounts, S # {}, NEW k \in Int,
             Cardinality(Group(c, S, Failover(c)!rotateRoundRobin(S, k)[1])) > 1,
             Failover(c)!rotateRoundRobin(S, k)[1] = Failover(c)!rotateRoundRobin(S, k + 1)[1]
      PROVE  FALSE
  <2> DEFINE h == Failover(c)!rotateRoundRobin(S, k)[1]
             n == Cardinality(Group(c, S, h))
             p == Place(c, S, h)
  <2>1. h \in S /\ Failover(c)!Turn(S, h, k) = 0 /\ k + 1 \in Int
    BY <1>1, FirstHasTheTurn
  <2>2. Failover(c)!Turn(S, h, k + 1) = 0
    BY <1>1, <2>1, FirstHasTheTurn
  <2> HIDE DEF h
  <2>3. n \in Nat \ {0} /\ p \in Int /\ (p - k) % n = 0
    BY <1>1, <2>1, TurnIs
  <2>4. (p - (k + 1)) % n = 0
    BY <1>1, <2>1, <2>2, TurnIs
  <2>5. n > 1
    BY <1>1 DEF h
  <2> HIDE DEF n, p
  <2> DEFINE x == p - k
             y == p - (k + 1)
  <2>6. x \in Int /\ y \in Int /\ x - y < n /\ y - x < n /\ x # y
    BY <2>3, <2>5
  <2>7. x % n = y % n
    BY <2>3, <2>4
  <2> HIDE DEF x, y
  <2> QED
    BY <2>3, <2>6, <2>7, SameRemainder
<1>2. ASSUME NEW kind \in Failover(c)!Kinds, NEW k \in 0..c.cycle-2
      PROVE  LET S == {a \in c.accounts : Failover(c)!Usable(a, kind)} IN
             S # {} /\ Failover(c)!Cardinality(Failover(c)!Peers(S, Failover(c)!rotateRoundRobin(S, k)[1])) > 1
               => Failover(c)!rotateRoundRobin(S, k)[1] # Failover(c)!rotateRoundRobin(S, k + 1)[1]
  <2> DEFINE S == {a \in c.accounts : Failover(c)!Usable(a, kind)}
  <2>1. S \subseteq c.accounts /\ k \in Int
    BY DEF Failover!FailoverAssumption
  <2> HIDE DEF S
  <2>2. S # {} => Failover(c)!Cardinality(Failover(c)!Peers(S, Failover(c)!rotateRoundRobin(S, k)[1]))
                    = Cardinality(Group(c, S, Failover(c)!rotateRoundRobin(S, k)[1]))
    BY <2>1, FirstHasTheTurn, TurnIs, FailCount
  <2>3. S # {} /\ Failover(c)!Cardinality(Failover(c)!Peers(S, Failover(c)!rotateRoundRobin(S, k)[1])) > 1
          => Failover(c)!rotateRoundRobin(S, k)[1] # Failover(c)!rotateRoundRobin(S, k + 1)[1]
    BY <1>1, <2>1, <2>2
  <2> QED
    BY <2>3 DEF S
<1> QED
  BY <1>2 DEF Failover!PicksSpread

-----------------------------------------------------------------------------
(* The pools with a driver.                                                *)

FailRows == [status : {"active", "quota", "disabled"}, dead : BOOLEAN, limited : SUBSET Both]
FailReqs(c) ==
  [pc : {"start", "round", "trying", "backoff", "queued", "ended"}, list : Seq(c.accounts), i : Nat,
   err : {"", "ok", "no_account", "full", "auth", "quota", "temp", "param"}, temps : Nat, refreshed : BOOLEAN,
   limits : {<< >>} \cup [c.accounts -> SUBSET Both]]

\* Where a generation is in its list, and in its burst of temporary errors.
Proceeds(c, g) ==
  /\ Len(g.list) <= Cardinality(c.accounts)
  /\ g.i \in 1..Len(g.list) + 1
  /\ g.pc = "trying" => g.i \in 1..Len(g.list)
  /\ g.pc = "start" => g.i = 1
  /\ g.temps \in 0..c.maxTemp
  /\ IF g.pc = "backoff" THEN g.err # "" ELSE g.temps < c.maxTemp

FailTypes(c) ==
  /\ row \in [c.accounts -> FailRows]
  /\ cooling \subseteq c.accounts /\ cursor \in 0..c.cycle-1
  /\ holders \in [c.accounts -> SUBSET c.requests]
  /\ gone \subseteq c.requests /\ over \in [c.requests -> SUBSET {"queue", "window"}]
  /\ burnt \in [c.requests -> SUBSET c.accounts] /\ spent \in [c.requests -> SUBSET c.accounts]
  /\ req \in [c.requests -> FailReqs(c)]
  /\ \A r \in c.requests : Proceeds(c, req[r])

\* A slot set is within its cap; who is not cancelled holds what it tries.
SlotsKept(c) ==
  /\ \A a \in c.accounts : IsFiniteSet(holders[a]) /\ Cardinality(holders[a]) <= c.cap[a]
  /\ \A r \in c.requests : r \notin gone =>
       \A a \in c.accounts : r \in holders[a] <=> req[r].pc = "trying" /\ req[r].list[req[r].i] = a

\* What a generation has cooled it has counted.
BurnsCounted(c) ==
  \A r \in c.requests : Cardinality(burnt[r]) <= IF req[r].pc = "ended" THEN c.maxTemp ELSE req[r].temps

SurfacesLate(c) ==
  \A r \in c.requests : req[r].pc = "ended" /\ req[r].err = "temp" => r \in gone \/ "window" \in over[r]

\* The limits of a snapshot are limits of the rows.
Snapshot(c, g) ==
  g.limits \in [c.accounts -> SUBSET Both] /\ \A a \in c.accounts : g.limits[a] \subseteq row[a].limited
LimitsKnown(c) ==
  c.perKind => /\ \A a \in c.accounts : row[a].status = "quota" => row[a].limited = Both
               /\ \A r \in c.requests : req[r].pc \notin {"start", "ended"} => Snapshot(c, req[r])

FailInv(c) == FailTypes(c) /\ SlotsKept(c) /\ BurnsCounted(c) /\ SurfacesLate(c) /\ LimitsKnown(c)

\* What a step of generation r does, which then is g: to the slots, to what it has cooled
\* and to the rows.
SlotEffect(c, r, g) ==
  \/ /\ holders' = holders
     /\ \/ r \in gone
        \/ req[r].pc # "trying" /\ g.pc # "trying"
        \/ req[r].pc = "trying" /\ g.pc = "trying" /\ g.list = req[r].list /\ g.i = req[r].i
  \/ \E a \in c.accounts :
       /\ Cardinality(holders[a]) < c.cap[a] /\ holders' = [holders EXCEPT ![a] = @ \cup {r}]
       /\ req[r].pc # "trying" /\ g.pc = "trying" /\ g.list[g.i] = a
  \/ \E a \in c.accounts :
       /\ holders' = [holders EXCEPT ![a] = @ \ {r}]
       /\ req[r].pc = "trying" /\ req[r].list[req[r].i] = a /\ g.pc # "trying"
BurnEffect(c, r, g) ==
  \/ burnt' = burnt /\ (g.pc # "ended" => g.temps >= req[r].temps)
  \/ \E a \in c.accounts :
       /\ burnt' = [burnt EXCEPT ![r] = @ \cup {a}] /\ req[r].temps < c.maxTemp
       /\ g.pc # "ended" => g.temps = req[r].temps + 1
  \/ burnt' = [burnt EXCEPT ![r] = {}]
RowEffect(c) ==
  \/ row' = row
  \/ \E a \in c.accounts, x \in FailRows :
       /\ row' = [row EXCEPT ![a] = x] /\ row[a].limited \subseteq x.limited
       /\ c.perKind /\ x.status = "quota" => x.limited = Both
Effect(c, r, g) ==
  /\ req' = [req EXCEPT ![r] = g] /\ Proceeds(c, g) /\ req[r].pc # "ended" /\ g.pc # "start"
  /\ UNCHANGED <<gone, over>> /\ cooling' \subseteq c.accounts /\ cursor' \in 0..c.cycle-1
  /\ spent' \in [c.requests -> SUBSET c.accounts]
  /\ SlotEffect(c, r, g) /\ BurnEffect(c, r, g) /\ RowEffect(c)
  /\ c.perKind /\ g.pc # "ended" => Snapshot(c, g)
  /\ g.pc = "ended" /\ g.err = "temp" => r \in gone \/ "window" \in over[r]

\* One more is at most one more.
LEMMA OneMore ==
  ASSUME NEW S, IsFiniteSet(S), NEW x
  PROVE  /\ IsFiniteSet(S \cup {x}) /\ Cardinality(S \cup {x}) \in Nat
         /\ Cardinality(S \cup {x}) <= Cardinality(S) + 1
<1>1. Cardinality(S) \in Nat
  BY FS_CardinalityType
<1>2. CASE x \in S
  <2>1. S \cup {x} = S
    BY <1>2
  <2>2. Cardinality(S) <= Cardinality(S) + 1
    BY <1>1
  <2> QED
    BY <1>1, <2>1, <2>2, Zenon
<1>3. CASE x \notin S
  <2>1. IsFiniteSet(S \cup {x}) /\ Cardinality(S \cup {x}) = Cardinality(S) + 1
    BY <1>3, FS_AddElement
  <2> QED
    BY <1>1, <2>1
<1> QED
  BY <1>2, <1>3

\* The slots after a step.
LEMMA SlotsMove ==
  ASSUME NEW CONSTANT c, Failover(c)!FailoverAssumption, FailTypes(c), SlotsKept(c), NEW r \in c.requests,
         NEW g, Effect(c, r, g)
  PROVE  holders' \in [c.accounts -> SUBSET c.requests] /\ SlotsKept(c)'
<1>1. /\ \A s \in c.requests : req'[s] = IF s = r THEN g ELSE req[s]
      /\ UNCHANGED gone /\ holders \in [c.accounts -> SUBSET c.requests]
  BY DEF Effect, FailTypes
<1>2. \A a \in c.accounts : /\ IsFiniteSet(holders[a]) /\ Cardinality(holders[a]) <= c.cap[a]
                            /\ Cardinality(holders[a]) \in Nat /\ c.cap[a] \in Nat
  <2> TAKE a \in c.accounts
  <2>1. IsFiniteSet(holders[a]) /\ Cardinality(holders[a]) <= c.cap[a]
    BY DEF SlotsKept
  <2>2. Cardinality(holders[a]) \in Nat
    BY <2>1, FS_CardinalityType
  <2>3. c.cap[a] \in 1..20
    BY DEF Failover!FailoverAssumption
  <2> QED
    BY <2>1, <2>2, <2>3
<1>3. \A s \in c.requests : s \notin gone =>
        \A a \in c.accounts : s \in holders[a] <=> req[s].pc = "trying" /\ req[s].list[req[s].i] = a
  BY DEF SlotsKept
<1>4. SlotEffect(c, r, g)
  BY DEF Effect
<1>5. CASE /\ holders' = holders
           /\ \/ r \in gone
              \/ req[r].pc # "trying" /\ g.pc # "trying"
              \/ req[r].pc = "trying" /\ g.pc = "trying" /\ g.list = req[r].list /\ g.i = req[r].i
  <2>1. \A s \in c.requests : s \notin gone =>
          \A a \in c.accounts : s \in holders[a] <=> req'[s].pc = "trying" /\ req'[s].list[req'[s].i] = a
    BY <1>1, <1>3, <1>5
  <2> QED
    BY <1>1, <1>2, <1>5, <2>1 DEF SlotsKept
<1>6. ASSUME NEW a \in c.accounts, Cardinality(holders[a]) < c.cap[a],
             holders' = [holders EXCEPT ![a] = @ \cup {r}],
             req[r].pc # "trying", g.pc = "trying", g.list[g.i] = a
      PROVE  holders' \in [c.accounts -> SUBSET c.requests] /\ SlotsKept(c)'
  <2>1. \A b \in c.accounts : holders'[b] = IF b = a THEN holders[a] \cup {r} ELSE holders[b]
    BY <1>1, <1>6
  <2>2. IsFiniteSet(holders[a] \cup {r}) /\ Cardinality(holders[a] \cup {r}) <= Cardinality(holders[a]) + 1
    BY <1>2, OneMore
  <2>3. Cardinality(holders[a] \cup {r}) <= c.cap[a]
    BY <1>2, <1>6, <2>2, FS_CardinalityType
  <2>4. \A b \in c.accounts : IsFiniteSet(holders'[b]) /\ Cardinality(holders'[b]) <= c.cap[b]
    BY <1>2, <2>1, <2>2, <2>3
  <2>5. \A s \in c.requests : s \notin gone =>
          \A b \in c.accounts : s \in holders'[b] <=> req'[s].pc = "trying" /\ req'[s].list[req'[s].i] = b
    BY <1>1, <1>3, <1>6, <2>1
  <2> QED
    <3>1. holders' \in [c.accounts -> SUBSET c.requests]
      BY <1>1, <1>6
    <3> QED
      BY <1>1, <2>4, <2>5, <3>1 DEF SlotsKept
<1>7. ASSUME NEW a \in c.accounts, holders' = [holders EXCEPT ![a] = @ \ {r}],
             req[r].pc = "trying", req[r].list[req[r].i] = a, g.pc # "trying"
      PROVE  holders' \in [c.accounts -> SUBSET c.requests] /\ SlotsKept(c)'
  <2>1. \A b \in c.accounts : holders'[b] = IF b = a THEN holders[a] \ {r} ELSE holders[b]
    BY <1>1, <1>7
  <2>2. IsFiniteSet(holders[a] \ {r}) /\ Cardinality(holders[a] \ {r}) <= Cardinality(holders[a])
    <3>1. holders[a] \ {r} \in SUBSET holders[a]
      OBVIOUS
    <3> QED
      BY <1>2, <3>1, FS_Subset
  <2>3. Cardinality(holders[a] \ {r}) <= c.cap[a]
    BY <1>2, <2>2, FS_CardinalityType
  <2>4. \A b \in c.accounts : IsFiniteSet(holders'[b]) /\ Cardinality(holders'[b]) <= c.cap[b]
    BY <1>2, <2>1, <2>2, <2>3
  <2>5. \A s \in c.requests : s \notin gone =>
          \A b \in c.accounts : s \in holders'[b] <=> req'[s].pc = "trying" /\ req'[s].list[req'[s].i] = b
    BY <1>1, <1>3, <1>7, <2>1
  <2> QED
    <3>1. holders' \in [c.accounts -> SUBSET c.requests]
      BY <1>1, <1>7
    <3> QED
      BY <1>1, <2>4, <2>5, <3>1 DEF SlotsKept
<1> QED
  BY <1>4, <1>5, <1>6, <1>7 DEF SlotEffect

\* What was cooled after a step.
LEMMA BurnsMove ==
  ASSUME NEW CONSTANT c, Failover(c)!FailoverAssumption, FailTypes(c), BurnsCounted(c), NEW r \in c.requests,
         NEW g \in FailReqs(c), Effect(c, r, g)
  PROVE  burnt' \in [c.requests -> SUBSET c.accounts] /\ BurnsCounted(c)'
<1>1. /\ \A s \in c.requests : req'[s] = IF s = r THEN g ELSE req[s]
      /\ burnt \in [c.requests -> SUBSET c.accounts] /\ req[r].pc # "ended"
  BY DEF Effect, FailTypes
<1>2. \A s \in c.requests : IsFiniteSet(burnt[s]) /\ Cardinality(burnt[s]) \in Nat
  <2>1. IsFiniteSet(c.accounts)
    BY FailCount DEF Failover!FailoverAssumption
  <2> QED
    BY <1>1, <2>1, FS_Subset, FS_CardinalityType
<1>3. /\ req[r].temps \in 0..c.maxTemp /\ g.temps \in 0..c.maxTemp /\ c.maxTemp \in Nat
      /\ Cardinality(burnt[r]) <= req[r].temps
  BY <1>1 DEF FailTypes, Proceeds, BurnsCounted, Effect, Failover!FailoverAssumption
<1>4. BurnEffect(c, r, g)
  BY DEF Effect
<1>5. CASE burnt' = burnt /\ (g.pc # "ended" => g.temps >= req[r].temps)
  <2>1. Cardinality(burnt[r]) <= IF g.pc = "ended" THEN c.maxTemp ELSE g.temps
    BY <1>2, <1>3, <1>5
  <2> QED
    BY <1>1, <1>5, <2>1 DEF BurnsCounted
<1>6. ASSUME NEW a \in c.accounts, burnt' = [burnt EXCEPT ![r] = @ \cup {a}], req[r].temps < c.maxTemp,
             g.pc # "ended" => g.temps = req[r].temps + 1
      PROVE  burnt' \in [c.requests -> SUBSET c.accounts] /\ BurnsCounted(c)'
  <2>1. \A s \in c.requests : burnt'[s] = IF s = r THEN burnt[r] \cup {a} ELSE burnt[s]
    BY <1>1, <1>6
  <2>2. Cardinality(burnt[r] \cup {a}) <= Cardinality(burnt[r]) + 1 /\ Cardinality(burnt[r] \cup {a}) \in Nat
    BY <1>2, OneMore
  <2>3. Cardinality(burnt[r] \cup {a}) <= IF g.pc = "ended" THEN c.maxTemp ELSE g.temps
    BY <1>2, <1>3, <1>6, <2>2
  <2> QED
    BY <1>1, <1>6, <2>1, <2>3 DEF BurnsCounted
<1>7. CASE burnt' = [burnt EXCEPT ![r] = {}]
  <2>1. \A s \in c.requests : burnt'[s] = IF s = r THEN {} ELSE burnt[s]
    BY <1>1, <1>7
  <2>2. Cardinality({}) = 0
    BY FS_EmptySet
  <2>3. 0 <= IF g.pc = "ended" THEN c.maxTemp ELSE g.temps
    BY <1>3
  <2> QED
    BY <1>1, <1>7, <2>1, <2>2, <2>3 DEF BurnsCounted
<1> QED
  BY <1>4, <1>5, <1>6, <1>7 DEF BurnEffect

\* The rows after a step.
LEMMA RowsMove ==
  ASSUME NEW CONSTANT c, FailTypes(c), LimitsKnown(c), NEW r \in c.requests, NEW g, Effect(c, r, g)
  PROVE  row' \in [c.accounts -> FailRows] /\ LimitsKnown(c)'
<1>1. /\ \A s \in c.requests : req'[s] = IF s = r THEN g ELSE req[s]
      /\ row \in [c.accounts -> FailRows] /\ (c.perKind /\ g.pc # "ended" => Snapshot(c, g))
  BY DEF Effect, FailTypes
<1>2. /\ row' \in [c.accounts -> FailRows]
      /\ \A a \in c.accounts : row[a].limited \subseteq row'[a].limited
      /\ c.perKind => \A a \in c.accounts : row'[a].status = "quota" => row'[a].limited = Both
  <2>1. CASE row' = row
    BY <1>1, <2>1 DEF LimitsKnown
  <2>2. ASSUME NEW a \in c.accounts, NEW x \in FailRows, row' = [row EXCEPT ![a] = x],
               row[a].limited \subseteq x.limited, c.perKind /\ x.status = "quota" => x.limited = Both
        PROVE  /\ row' \in [c.accounts -> FailRows]
               /\ \A b \in c.accounts : row[b].limited \subseteq row'[b].limited
               /\ c.perKind => \A b \in c.accounts : row'[b].status = "quota" => row'[b].limited = Both
    <3>1. \A b \in c.accounts : row'[b] = IF b = a THEN x ELSE row[b]
      BY <1>1, <2>2
    <3>2. row' \in [c.accounts -> FailRows]
      BY <1>1, <2>2
    <3> QED
      BY <2>2, <3>1, <3>2 DEF LimitsKnown
  <2> QED
    BY <2>1, <2>2 DEF Effect, RowEffect
<1>3. c.perKind => \A s \in c.requests : req'[s].pc \notin {"start", "ended"} => Snapshot(c, req'[s])
  BY <1>1 DEF LimitsKnown
<1>4. c.perKind => \A s \in c.requests : req'[s].pc \notin {"start", "ended"} => Snapshot(c, req[s])'
  <2> SUFFICES ASSUME c.perKind, NEW s \in c.requests, req'[s].pc \notin {"start", "ended"}
               PROVE  /\ req'[s].limits \in [c.accounts -> SUBSET Both]
                      /\ \A a \in c.accounts : req'[s].limits[a] \subseteq row'[a].limited
    BY DEF Snapshot
  <2>1. /\ req'[s].limits \in [c.accounts -> SUBSET Both]
        /\ \A a \in c.accounts : req'[s].limits[a] \subseteq row[a].limited
    BY <1>3 DEF Snapshot
  <2> QED
    BY <1>2, <2>1
<1> QED
  BY <1>2, <1>4 DEF LimitsKnown

\* A step with such an effect leaves the invariant.
LEMMA EffectStep ==
  ASSUME NEW CONSTANT c, Failover(c)!FailoverAssumption, FailInv(c), NEW r \in c.requests,
         NEW g \in FailReqs(c), Effect(c, r, g)
  PROVE  FailInv(c)'
<1>1. FailTypes(c) /\ SlotsKept(c) /\ BurnsCounted(c) /\ SurfacesLate(c) /\ LimitsKnown(c)
  BY DEF FailInv
<1>2. /\ holders' \in [c.accounts -> SUBSET c.requests] /\ SlotsKept(c)'
      /\ burnt' \in [c.requests -> SUBSET c.accounts] /\ BurnsCounted(c)'
      /\ row' \in [c.accounts -> FailRows] /\ LimitsKnown(c)'
  BY <1>1, SlotsMove, BurnsMove, RowsMove
<1>3. \A s \in c.requests : req'[s] = IF s = r THEN g ELSE req[s]
  BY <1>1 DEF Effect, FailTypes
<1>4. FailTypes(c)'
  <2>1. req' \in [c.requests -> FailReqs(c)]
    BY <1>1 DEF Effect, FailTypes
  <2>2. \A s \in c.requests : Proceeds(c, req'[s])
    BY <1>1, <1>3 DEF Effect, FailTypes
  <2>3. /\ cooling' \subseteq c.accounts /\ cursor' \in 0..c.cycle-1
        /\ gone' \subseteq c.requests /\ over' \in [c.requests -> SUBSET {"queue", "window"}]
        /\ spent' \in [c.requests -> SUBSET c.accounts]
    BY <1>1 DEF Effect, FailTypes
  <2> QED
    BY <1>2, <2>1, <2>2, <2>3 DEF FailTypes
<1>5. SurfacesLate(c)'
  <2>1. UNCHANGED <<gone, over>> /\ (g.pc = "ended" /\ g.err = "temp" => r \in gone \/ "window" \in over[r])
    BY DEF Effect
  <2> QED
    BY <1>1, <1>3, <2>1 DEF SurfacesLate
<1> QED
  BY <1>2, <1>4, <1>5 DEF FailInv

\* Nothing has begun.
LEMMA FailInitially ==
  ASSUME NEW CONSTANT c, Failover(c)!FailoverAssumption, Failover(c)!Init
  PROVE  FailInv(c)
<1>1. PICK g : g = [pc |-> "start", list |-> << >>, i |-> 1, err |-> "", temps |-> 0, refreshed |-> FALSE,
                    limits |-> << >>]
  OBVIOUS
<1>2. PICK x : x = [status |-> "active", dead |-> FALSE, limited |-> {}]
  OBVIOUS
<1>3. /\ row = [a \in c.accounts |-> x] /\ cooling = {} /\ cursor = 0 /\ gone = {}
      /\ holders = [a \in c.accounts |-> {}] /\ req = [r \in c.requests |-> g]
      /\ over = [r \in c.requests |-> {}] /\ burnt = [r \in c.requests |-> {}] /\ spent = [r \in c.requests |-> {}]
  BY <1>1, <1>2 DEF Failover!Init, Failover!Fresh
<1>4. /\ IsFiniteSet(c.accounts) /\ Cardinality(c.accounts) \in Nat /\ c.maxTemp \in Nat \ {0}
      /\ c.cycle \in Nat \ {0} /\ \A a \in c.accounts : c.cap[a] \in 1..20
  <2>1. IsFiniteSet(c.accounts)
    BY FailCount DEF Failover!FailoverAssumption
  <2> QED
    BY <2>1, FS_CardinalityType DEF Failover!FailoverAssumption
<1>5. IsFiniteSet({}) /\ Cardinality({}) = 0
  BY FS_EmptySet
<1>6. g \in FailReqs(c) /\ Len(g.list) = 0 /\ g.pc = "start" /\ g.i = 1 /\ g.temps = 0
  <2>1. << >> \in Seq(c.accounts) /\ Len(<< >>) = 0
    OBVIOUS
  <2>2. g.list = << >> /\ g.pc = "start" /\ g.i = 1 /\ g.temps = 0
    BY <1>1
  <2>3. g \in FailReqs(c)
    BY <1>1, <2>1 DEF FailReqs
  <2> QED
    BY <2>1, <2>2, <2>3
<1>7. Proceeds(c, g)
  <2>1. 1 \in 1..0 + 1
    OBVIOUS
  <2> QED
    BY <1>4, <1>6, <2>1 DEF Proceeds
<1>8. x \in FailRows /\ x.status = "active"
  BY <1>2 DEF FailRows
<1>9. FailTypes(c)
  BY <1>3, <1>4, <1>6, <1>7, <1>8 DEF FailTypes
<1>10. SlotsKept(c)
  <2>1. \A a \in c.accounts : IsFiniteSet(holders[a]) /\ Cardinality(holders[a]) <= c.cap[a]
    BY <1>3, <1>4, <1>5
  <2> QED
    BY <1>3, <1>6, <2>1 DEF SlotsKept
<1>11. BurnsCounted(c) /\ SurfacesLate(c) /\ LimitsKnown(c)
  BY <1>3, <1>5, <1>6, <1>8 DEF BurnsCounted, SurfacesLate, LimitsKnown
<1> QED
  BY <1>9, <1>10, <1>11 DEF FailInv

\* What a generation keeps.
LEMMA FailFields ==
  ASSUME NEW CONSTANT c, NEW g \in FailReqs(c)
  PROVE  /\ g.list \in Seq(c.accounts) /\ Len(g.list) \in Nat /\ g.i \in Nat /\ g.temps \in Nat
         /\ g.err \in {"", "ok", "no_account", "full", "auth", "quota", "temp", "param"}
<1>1. PICK d : d = g.list /\ d \in Seq(c.accounts)
  BY DEF FailReqs
<1>2. Len(d) \in Nat
  BY <1>1
<1> QED
  BY <1>1, <1>2 DEF FailReqs

\* A generation that has ended has forgotten everything but its outcome.
LEMMA FinishedIs ==
  ASSUME NEW CONSTANT c, Failover(c)!FailoverAssumption, NEW r \in c.requests,
         NEW e \in {"ok", "no_account", "full", "auth", "quota", "temp", "param"}
  PROVE  \E g \in FailReqs(c) : /\ Failover(c)!Finished(r, e) = [req EXCEPT ![r] = g]
                                /\ g.pc = "ended" /\ g.err = e /\ Proceeds(c, g)
<1>1. PICK g : g = [Failover(c)!Fresh EXCEPT !.pc = "ended", !.err = e]
  OBVIOUS
<1>2. g \in FailReqs(c) /\ Len(g.list) = 0 /\ g.pc = "ended" /\ g.err = e /\ g.i = 1 /\ g.temps = 0
  <2>1. << >> \in Seq(c.accounts) /\ Len(<< >>) = 0
    OBVIOUS
  <2>2. g.list = << >> /\ g.pc = "ended" /\ g.err = e /\ g.i = 1 /\ g.temps = 0
    BY <1>1 DEF Failover!Fresh
  <2>3. g \in FailReqs(c)
    BY <1>1, <2>1 DEF FailReqs, Failover!Fresh
  <2> QED
    BY <2>1, <2>2, <2>3
<1>3. Proceeds(c, g)
  <2>1. 1 \in 1..0 + 1
    OBVIOUS
  <2>2. c.maxTemp \in Nat \ {0} /\ Cardinality(c.accounts) \in Nat
    <3>1. IsFiniteSet(c.accounts)
      BY FailCount DEF Failover!FailoverAssumption
    <3> QED
      BY <3>1, FS_CardinalityType DEF Failover!FailoverAssumption
  <2> QED
    BY <1>2, <2>1, <2>2 DEF Proceeds
<1>4. Failover(c)!Finished(r, e) = [req EXCEPT ![r] = g]
  BY <1>1 DEF Failover!Finished
<1> QED
  BY <1>2, <1>3, <1>4

\* The generation has a list of accounts, or there is none.
LEMMA SelectEffect ==
  ASSUME NEW CONSTANT c, Failover(c)!FailoverAssumption, FailInv(c), NEW r \in c.requests, Failover(c)!Select(r)
  PROVE  \E g \in FailReqs(c) : Effect(c, r, g)
<1>1. FailTypes(c) /\ req \in [c.requests -> FailReqs(c)] /\ req[r] \in FailReqs(c) /\ Proceeds(c, req[r])
  BY DEF FailInv, FailTypes
<1>2. PICK S : S = Failover(c)!Candidates(r)
  OBVIOUS
<1>3. S \subseteq c.accounts
  BY <1>2 DEF Failover!Candidates, Failover!FailoverAssumption
<1>4. req[r].pc = "start" /\ UNCHANGED <<row, cooling, holders, gone, over, burnt, spent>>
  BY DEF Failover!Select
<1>5. CASE S = {}
  <2>1. req' = Failover(c)!Finished(r, "no_account") /\ UNCHANGED cursor
    BY <1>2, <1>5 DEF Failover!Select
  <2>2. PICK g \in FailReqs(c) : /\ req' = [req EXCEPT ![r] = g]
                                 /\ g.pc = "ended" /\ g.err = "no_account" /\ Proceeds(c, g)
    BY <2>1, FinishedIs
  <2> QED
    BY <1>1, <1>4, <2>1, <2>2 DEF Effect, SlotEffect, BurnEffect, RowEffect, FailTypes
<1>6. CASE S # {}
  <2>1. PICK s, l : s = Failover(c)!rotateRoundRobin(S, cursor) /\ l = Failover(c)!Limits
    OBVIOUS
  <2>2. /\ req' = [req EXCEPT ![r].pc = "round", ![r].list = s, ![r].limits = l]
        /\ cursor' = cursor \/ cursor' = (cursor + 1) % c.cycle
    BY <1>2, <1>6, <2>1 DEF Failover!Select
  <2>3. cursor' \in 0..c.cycle-1
    <3>1. cursor + 1 \in Int /\ c.cycle \in Nat \ {0} /\ cursor \in 0..c.cycle-1
      BY <1>1 DEF FailTypes, Failover!FailoverAssumption
    <3>2. (cursor + 1) % c.cycle \in 0..c.cycle-1
      BY <3>1, RemainderIs
    <3> QED
      BY <2>2, <3>1, <3>2
  <2>4. s \in Seq(c.accounts) /\ Len(s) <= Cardinality(c.accounts) /\ Len(s) \in Nat
    <3>1. cursor \in Int
      BY <1>1 DEF FailTypes, Failover!FailoverAssumption
    <3>2. Cardinality(S) \in Nat /\ s \in Bijection(1..Cardinality(S), S)
      BY <1>3, <2>1, <3>1, RotationIs
    <3>3. s \in [1..Cardinality(S) -> S]
      BY <3>2 DEF Bijection, Injection
    <3>4. s \in Seq(c.accounts) /\ Len(s) = Cardinality(S)
      BY <1>3, <3>2, <3>3
    <3>5. IsFiniteSet(c.accounts)
      BY FailCount DEF Failover!FailoverAssumption
    <3>6. Cardinality(S) <= Cardinality(c.accounts)
      BY <1>3, <3>5, FS_Subset
    <3> QED
      BY <3>2, <3>4, <3>6
  <2>5. /\ l \in {<< >>} \cup [c.accounts -> SUBSET Both]
        /\ c.perKind => l \in [c.accounts -> SUBSET Both] /\ \A a \in c.accounts : l[a] \subseteq row[a].limited
    <3>1. \A a \in c.accounts : row[a].limited \in SUBSET Both
      BY <1>1 DEF FailTypes, FailRows
    <3>2. CASE c.perKind
      <4>1. l = [a \in c.accounts |-> row[a].limited]
        BY <2>1, <3>2 DEF Failover!Limits
      <4> QED
        BY <3>1, <4>1
    <3>3. CASE ~c.perKind
      <4>1. l = << >>
        BY <2>1, <3>3 DEF Failover!Limits
      <4> QED
        BY <3>3, <4>1
    <3> QED
      BY <3>2, <3>3
  <2>6. PICK g : g = [req[r] EXCEPT !.pc = "round", !.list = s, !.limits = l]
    OBVIOUS
  <2>7. req' = [req EXCEPT ![r] = g]
    BY <1>1, <2>2, <2>6
  <2>8. /\ g \in FailReqs(c) /\ g.pc = "round" /\ g.list = s /\ g.limits = l /\ g.i = req[r].i
        /\ g.temps = req[r].temps
    BY <1>1, <2>4, <2>5, <2>6 DEF FailReqs
  <2>9. Proceeds(c, g)
    <3>1. g.i = 1 /\ g.temps \in 0..c.maxTemp /\ g.temps < c.maxTemp
      BY <1>1, <1>4, <2>8 DEF Proceeds
    <3>2. 1 \in 1..Len(s) + 1
      BY <2>4
    <3> QED
      BY <2>4, <2>8, <3>1, <3>2 DEF Proceeds
  <2>10. Snapshot(c, g) \/ ~c.perKind
    BY <2>5, <2>8 DEF Snapshot
  <2>11. req[r].temps \in Nat
    BY <1>1, FailFields
  <2> QED
    <3>1. SlotEffect(c, r, g) /\ BurnEffect(c, r, g) /\ RowEffect(c)
      BY <1>4, <2>8, <2>11 DEF SlotEffect, BurnEffect, RowEffect
    <3>2. cooling' \subseteq c.accounts /\ spent' \in [c.requests -> SUBSET c.accounts]
      BY <1>1, <1>4 DEF FailTypes
    <3> QED
      BY <1>4, <2>3, <2>7, <2>8, <2>9, <2>10, <3>1, <3>2 DEF Effect
<1> QED
  BY <1>5, <1>6

\* The account admits it, or is busy.
LEMMA AcquireEffect ==
  ASSUME NEW CONSTANT c, Failover(c)!FailoverAssumption, FailInv(c), NEW r \in c.requests,
         Failover(c)!Acquire(r) \/ Failover(c)!Busy(r)
  PROVE  \E g \in FailReqs(c) : Effect(c, r, g)
<1>1. /\ FailTypes(c) /\ req \in [c.requests -> FailReqs(c)] /\ req[r] \in FailReqs(c) /\ Proceeds(c, req[r])
      /\ LimitsKnown(c)
  BY DEF FailInv, FailTypes
<1>2. /\ req[r].pc = "round" /\ req[r].i <= Len(req[r].list)
      /\ UNCHANGED <<row, cooling, cursor, gone, over, burnt, spent>>
  BY DEF Failover!Acquire, Failover!Busy
<1>3. PICK a : a = req[r].list[req[r].i]
  OBVIOUS
<1>4. req[r].list \in Seq(c.accounts) /\ Len(req[r].list) \in Nat /\ req[r].i \in Nat /\ req[r].temps \in Nat
  BY <1>1, FailFields
<1>5. req[r].i \in 1..Len(req[r].list)
  <2>1. req[r].i \in 1..Len(req[r].list) + 1
    BY <1>1 DEF Proceeds
  <2> QED
    BY <1>2, <1>4, <2>1
<1>6. a \in c.accounts
  BY <1>3, <1>4, <1>5
<1>7. CASE Failover(c)!Acquire(r)
  <2>1. PICK g : g = [req[r] EXCEPT !.pc = "trying", !.refreshed = FALSE]
    OBVIOUS
  <2>2. req' = [req EXCEPT ![r] = g]
    BY <1>1, <1>7, <2>1 DEF Failover!Acquire
  <2>3. /\ g \in FailReqs(c) /\ g.pc = "trying" /\ g.list = req[r].list /\ g.i = req[r].i /\ g.temps = req[r].temps
        /\ g.limits = req[r].limits
    BY <1>1, <2>1 DEF FailReqs
  <2>4. Proceeds(c, g)
    BY <1>1, <1>2, <1>5, <2>3 DEF Proceeds
  <2>5. SlotEffect(c, r, g)
    <3>1. CASE r \in gone
      BY <1>7, <3>1 DEF Failover!Acquire, SlotEffect
    <3>2. CASE r \notin gone
      <4>1. Cardinality(holders[a]) < c.cap[a] /\ holders' = [holders EXCEPT ![a] = @ \cup {r}]
        BY <1>3, <1>7, <3>2, FailCount DEF Failover!Acquire, Failover!HasSlot, Failover!Current
      <4> QED
        BY <1>2, <1>3, <1>6, <2>3, <4>1 DEF SlotEffect
    <3> QED
      BY <3>1, <3>2
  <2>6. c.perKind => Snapshot(c, g)
    BY <1>1, <1>2, <2>3 DEF LimitsKnown, Snapshot
  <2> QED
    <3>1. BurnEffect(c, r, g) /\ RowEffect(c)
      BY <1>2, <1>4, <2>3 DEF BurnEffect, RowEffect
    <3>2. /\ cooling' \subseteq c.accounts /\ cursor' \in 0..c.cycle-1
          /\ spent' \in [c.requests -> SUBSET c.accounts]
      BY <1>1, <1>2 DEF FailTypes
    <3> QED
      BY <1>2, <2>2, <2>3, <2>4, <2>5, <2>6, <3>1, <3>2 DEF Effect
<1>8. CASE Failover(c)!Busy(r)
  <2>1. PICK n : n = req[r].i + 1
    OBVIOUS
  <2>2. n \in Nat /\ n \in 1..Len(req[r].list) + 1
    BY <1>4, <1>5, <2>1
  <2>3. PICK g : g = [req[r] EXCEPT !.i = n]
    OBVIOUS
  <2>4. req' = [req EXCEPT ![r] = g] /\ UNCHANGED holders
    BY <1>1, <1>8, <2>1, <2>3 DEF Failover!Busy
  <2>5. /\ g \in FailReqs(c) /\ g.pc = "round" /\ g.list = req[r].list /\ g.i = n /\ g.temps = req[r].temps
        /\ g.limits = req[r].limits
    BY <1>1, <1>2, <2>2, <2>3 DEF FailReqs
  <2>6. Proceeds(c, g)
    BY <1>1, <1>2, <2>2, <2>5 DEF Proceeds
  <2>7. c.perKind => Snapshot(c, g)
    BY <1>1, <1>2, <2>5 DEF LimitsKnown, Snapshot
  <2> QED
    <3>1. SlotEffect(c, r, g) /\ BurnEffect(c, r, g) /\ RowEffect(c)
      BY <1>2, <1>4, <2>4, <2>5 DEF SlotEffect, BurnEffect, RowEffect
    <3>2. /\ cooling' \subseteq c.accounts /\ cursor' \in 0..c.cycle-1
          /\ spent' \in [c.requests -> SUBSET c.accounts]
      BY <1>1, <1>2 DEF FailTypes
    <3> QED
      BY <1>2, <2>4, <2>5, <2>6, <2>7, <3>1, <3>2 DEF Effect
<1> QED
  BY <1>7, <1>8

\* A try that does not give up the account.
LEMMA RefreshEffect ==
  ASSUME NEW CONSTANT c, Failover(c)!FailoverAssumption, FailInv(c), NEW r \in c.requests, Failover(c)!Refresh(r)
  PROVE  \E g \in FailReqs(c) : Effect(c, r, g)
<1>1. /\ FailTypes(c) /\ req \in [c.requests -> FailReqs(c)] /\ req[r] \in FailReqs(c) /\ Proceeds(c, req[r])
      /\ LimitsKnown(c) /\ row \in [c.accounts -> FailRows]
  BY DEF FailInv, FailTypes
<1>2. PICK a, l : /\ a = req[r].list[req[r].i]
                  /\ l = IF c.perKind THEN [req[r].limits EXCEPT ![a] = row[a].limited] ELSE req[r].limits
  OBVIOUS
<1>3. /\ req[r].pc = "trying" /\ UNCHANGED <<row, cooling, cursor, holders, gone, over, burnt, spent>>
      /\ req' = [req EXCEPT ![r].refreshed = TRUE, ![r].limits = l]
  BY <1>1, <1>2 DEF Failover!Refresh, Failover!Current
<1>4. req[r].list \in Seq(c.accounts) /\ req[r].i \in 1..Len(req[r].list) /\ req[r].temps \in Nat
  BY <1>1, <1>3, FailFields DEF Proceeds
<1>5. a \in c.accounts
  BY <1>2, <1>4
<1>6. /\ l \in {<< >>} \cup [c.accounts -> SUBSET Both]
      /\ c.perKind => l \in [c.accounts -> SUBSET Both] /\ \A b \in c.accounts : l[b] \subseteq row[b].limited
  <2>1. CASE c.perKind
    <3>1. /\ req[r].limits \in [c.accounts -> SUBSET Both]
          /\ \A b \in c.accounts : req[r].limits[b] \subseteq row[b].limited
      BY <1>1, <1>3, <2>1 DEF LimitsKnown, Snapshot
    <3>2. row[a].limited \in SUBSET Both
      BY <1>1, <1>5 DEF FailRows
    <3> QED
      BY <1>2, <2>1, <3>1, <3>2
  <2>2. CASE ~c.perKind
    BY <1>1, <1>2, <2>2 DEF FailReqs
  <2> QED
    BY <2>1, <2>2
<1>7. PICK g : g = [req[r] EXCEPT !.refreshed = TRUE, !.limits = l]
  OBVIOUS
<1>8. req' = [req EXCEPT ![r] = g]
  BY <1>1, <1>3, <1>7
<1>9. /\ g \in FailReqs(c) /\ g.pc = "trying" /\ g.list = req[r].list /\ g.i = req[r].i /\ g.temps = req[r].temps
      /\ g.limits = l
  BY <1>1, <1>3, <1>6, <1>7 DEF FailReqs
<1>10. Proceeds(c, g) /\ (c.perKind => Snapshot(c, g))
  BY <1>1, <1>3, <1>6, <1>9 DEF Proceeds, Snapshot
<1>11. SlotEffect(c, r, g) /\ BurnEffect(c, r, g) /\ RowEffect(c)
  BY <1>3, <1>4, <1>9 DEF SlotEffect, BurnEffect, RowEffect
<1>12. /\ cooling' \subseteq c.accounts /\ cursor' \in 0..c.cycle-1
       /\ spent' \in [c.requests -> SUBSET c.accounts]
  BY <1>1, <1>3 DEF FailTypes
<1> QED
  BY <1>3, <1>8, <1>9, <1>10, <1>11, <1>12 DEF Effect

\* A try that gives up the account: what it leaves, and where the generation goes.
Released1(c, r, a) == holders' = IF r \in gone THEN holders ELSE [holders EXCEPT ![a] = @ \ {r}]
\* So its step has such an effect.
LEMMA GivesUp ==
  ASSUME NEW CONSTANT c, FailInv(c), NEW r \in c.requests, req[r].pc = "trying",
         NEW a \in c.accounts, a = req[r].list[req[r].i], Released1(c, r, a),
         NEW g, req' = [req EXCEPT ![r] = g], Proceeds(c, g), g.pc \notin {"start", "trying"},
         UNCHANGED <<cursor, gone, over>>, cooling' = cooling \/ cooling' = cooling \cup {a},
         spent' \in {spent, [spent EXCEPT ![r] = @ \cup {a}]},
         BurnEffect(c, r, g), RowEffect(c), g.pc # "ended" => g.limits = req[r].limits,
         g.pc = "ended" /\ g.err = "temp" => r \in gone \/ "window" \in over[r]
  PROVE  Effect(c, r, g)
<1>1. FailTypes(c) /\ LimitsKnown(c)
  BY DEF FailInv
<1>2. SlotEffect(c, r, g)
  BY DEF SlotEffect, Released1
<1>3. /\ cooling' \subseteq c.accounts /\ cursor' \in 0..c.cycle-1
      /\ spent' \in [c.requests -> SUBSET c.accounts]
  BY <1>1 DEF FailTypes
<1>4. c.perKind /\ g.pc # "ended" => Snapshot(c, g)
  BY <1>1 DEF LimitsKnown, Snapshot
<1> QED
  BY <1>2, <1>3, <1>4 DEF Effect

\* The next account, after an error e and t temporary ones.
GoesOnTo(c, r, e, t) ==
  \E g \in FailReqs(c) :
    /\ [req EXCEPT ![r].pc = "round", ![r].err = e, ![r].i = req[r].i + 1, ![r].temps = t] = [req EXCEPT ![r] = g]
    /\ g.pc = "round" /\ Proceeds(c, g) /\ g.temps = t /\ g.limits = req[r].limits
\* So it goes on to the next one.
LEMMA NextIs ==
  ASSUME NEW CONSTANT c, FailInv(c), NEW r \in c.requests, req[r].pc = "trying",
         NEW e \in {"auth", "quota", "temp"}, NEW t \in Nat, t < c.maxTemp, c.maxTemp \in Nat
  PROVE  GoesOnTo(c, r, e, t)
<1>1. req \in [c.requests -> FailReqs(c)] /\ req[r] \in FailReqs(c) /\ Proceeds(c, req[r])
  BY DEF FailInv, FailTypes
<1>2. req[r].i \in 1..Len(req[r].list) /\ Len(req[r].list) \in Nat
  BY <1>1, FailFields DEF Proceeds
<1>3. PICK n : n = req[r].i + 1
  OBVIOUS
<1>4. n \in Nat /\ n \in 1..Len(req[r].list) + 1
  BY <1>2, <1>3
<1>5. PICK g : g = [req[r] EXCEPT !.pc = "round", !.err = e, !.i = n, !.temps = t]
  OBVIOUS
<1>6. /\ g \in FailReqs(c) /\ g.pc = "round" /\ g.list = req[r].list /\ g.i = n /\ g.temps = t
      /\ g.limits = req[r].limits
  BY <1>1, <1>4, <1>5 DEF FailReqs
<1>7. Proceeds(c, g)
  BY <1>1, <1>4, <1>6 DEF Proceeds
<1>8. [req EXCEPT ![r].pc = "round", ![r].err = e, ![r].i = req[r].i + 1, ![r].temps = t] = [req EXCEPT ![r] = g]
  BY <1>1, <1>3, <1>5
<1> QED
  BY <1>6, <1>7, <1>8 DEF GoesOnTo

\* The upstream answers.
LEMMA AttemptEffect ==
  ASSUME NEW CONSTANT c, Failover(c)!FailoverAssumption, FailInv(c), NEW r \in c.requests, Failover(c)!Attempt(r)
  PROVE  \E g \in FailReqs(c) : Effect(c, r, g)
<1>1. /\ FailTypes(c) /\ req \in [c.requests -> FailReqs(c)] /\ req[r] \in FailReqs(c) /\ Proceeds(c, req[r])
      /\ LimitsKnown(c) /\ row \in [c.accounts -> FailRows] /\ c.maxTemp \in Nat \ {0}
      /\ \A s \in c.requests : s \in DOMAIN burnt /\ s \in DOMAIN spent
  BY DEF FailInv, FailTypes, Failover!FailoverAssumption
<1>2. CASE Failover(c)!Refresh(r)
  BY <1>2, RefreshEffect
<1>3. CASE ~Failover(c)!Refresh(r)
  <2>1. PICK a : a = req[r].list[req[r].i]
    OBVIOUS
  <2>2. req[r].pc = "trying" /\ Released1(c, r, a) /\ UNCHANGED <<cursor, gone, over>>
    BY <1>3, <2>1 DEF Failover!Attempt, Failover!Success, Failover!AuthFails, Failover!Temporary,
      Failover!BadRequest, Failover!OutOfQuota, Failover!Released, Failover!Current, Released1
  <2>3. /\ req[r].list \in Seq(c.accounts) /\ req[r].i \in 1..Len(req[r].list) /\ req[r].temps \in Nat
        /\ req[r].temps < c.maxTemp
    BY <1>1, <2>2, FailFields DEF Proceeds
  <2>4. a \in c.accounts
    BY <2>1, <2>3
  <2>5. CASE Failover(c)!Success(r) \/ Failover(c)!BadRequest(r)
    <3>1. PICK e \in {"ok", "param"} : req' = Failover(c)!Finished(r, e)
      BY <2>5 DEF Failover!Success, Failover!BadRequest
    <3>2. UNCHANGED <<row, cooling, burnt, spent>>
      BY <2>5 DEF Failover!Success, Failover!BadRequest
    <3>3. PICK g \in FailReqs(c) : /\ req' = [req EXCEPT ![r] = g]
                                   /\ g.pc = "ended" /\ g.err = e /\ Proceeds(c, g)
      BY <3>1, FinishedIs
    <3>4. BurnEffect(c, r, g) /\ RowEffect(c)
      BY <3>2, <3>3 DEF BurnEffect, RowEffect
    <3> QED
      BY <2>1, <2>2, <2>4, <3>1, <3>2, <3>3, <3>4, GivesUp
  <2>6. CASE Failover(c)!AuthFails(r) \/ \E task \in BOOLEAN : Failover(c)!OutOfQuota(r, task)
    <3>1. PICK e \in {"auth", "quota"} :
            req' = [req EXCEPT ![r].pc = "round", ![r].err = e, ![r].i = req[r].i + 1]
      BY <1>1, <2>6 DEF Failover!AuthFails, Failover!OutOfQuota, Failover!Next1
    <3>2. req' = [req EXCEPT ![r].pc = "round", ![r].err = e, ![r].i = req[r].i + 1, ![r].temps = req[r].temps]
      BY <1>1, <3>1 DEF FailReqs
    <3>3. PICK g \in FailReqs(c) :
            /\ req' = [req EXCEPT ![r] = g]
            /\ g.pc = "round" /\ Proceeds(c, g) /\ g.temps = req[r].temps /\ g.limits = req[r].limits
      <4>1. req[r].temps \in Nat /\ req[r].temps < c.maxTemp /\ c.maxTemp \in Nat
              /\ e \in {"auth", "quota", "temp"}
        BY <1>1, <2>3
      <4>2. GoesOnTo(c, r, e, req[r].temps)
        BY <2>2, <4>1, NextIs
      <4> QED
        BY <3>2, <4>2 DEF GoesOnTo
    <3>4. UNCHANGED burnt
      BY <2>6 DEF Failover!AuthFails, Failover!OutOfQuota
    <3>5. cooling' = cooling \/ cooling' = cooling \cup {a}
      BY <2>1, <2>6 DEF Failover!AuthFails, Failover!OutOfQuota, Failover!Current
    <3>6. spent' \in {spent, [spent EXCEPT ![r] = @ \cup {a}]}
      BY <2>1, <2>6 DEF Failover!AuthFails, Failover!OutOfQuota, Failover!Noted, Failover!Current
    <3>7. BurnEffect(c, r, g)
      BY <2>3, <3>3, <3>4 DEF BurnEffect
    <3>8. RowEffect(c)
      <4>1. CASE row' = row
        BY <4>1 DEF RowEffect
      <4>2. CASE row' = [row EXCEPT ![a].status = "disabled", ![a].dead = TRUE]
        <5>1. PICK x : x = [row[a] EXCEPT !.status = "disabled", !.dead = TRUE]
          OBVIOUS
        <5>2. row' = [row EXCEPT ![a] = x]
          BY <1>1, <2>4, <4>2, <5>1
        <5>3. x \in FailRows /\ x.limited = row[a].limited /\ x.status = "disabled"
          BY <1>1, <2>4, <5>1 DEF FailRows
        <5> QED
          BY <2>4, <5>2, <5>3 DEF RowEffect
      <4>3. CASE row' = [row EXCEPT ![a] = Failover(c)!QuotaMarked(r, a)]
        <5>1. PICK x : x = Failover(c)!QuotaMarked(r, a)
          OBVIOUS
        <5>2. row[a] \in FailRows /\ c.kindOf[r] \in Both
          BY <1>1, <2>4 DEF Failover!FailoverAssumption, Failover!Kinds, Both
        <5>3. CASE ~c.perKind
          <6>1. x = [row[a] EXCEPT !.status = "quota"]
            BY <5>1, <5>3 DEF Failover!QuotaMarked
          <6>2. x \in FailRows /\ x.limited = row[a].limited
            BY <5>2, <6>1 DEF FailRows
          <6> QED
            BY <2>4, <4>3, <5>1, <5>3, <6>2 DEF RowEffect
        <5>4. CASE c.perKind
          <6>1. PICK l, t : /\ l = row[a].limited \cup {c.kindOf[r]}
                            /\ t = IF req[r].limits[a] \cup {c.kindOf[r]} = Both THEN "quota" ELSE row[a].status
            OBVIOUS
          <6>2. x = [row[a] EXCEPT !.limited = l, !.status = t]
            BY <5>1, <5>4, <6>1 DEF Failover!QuotaMarked, Failover!Kinds, Both
          <6>3. row[a].limited \in SUBSET Both /\ row[a].status \in {"active", "quota", "disabled"}
            BY <5>2 DEF FailRows
          <6>4. l \in SUBSET Both /\ t \in {"active", "quota", "disabled"}
            BY <5>2, <6>1, <6>3
          <6>5. x \in FailRows /\ x.limited = l /\ x.status = t
            BY <5>2, <6>2, <6>4 DEF FailRows
          <6>6. /\ req[r].limits[a] \subseteq row[a].limited
                /\ row[a].status = "quota" => row[a].limited = Both
            BY <1>1, <2>2, <2>4, <5>4 DEF LimitsKnown, Snapshot
          <6>7. t = "quota" => l = Both
            BY <6>1, <6>4, <6>6
          <6> QED
            BY <2>4, <4>3, <5>1, <6>1, <6>5, <6>7 DEF RowEffect
        <5> QED
          BY <5>3, <5>4
      <4> QED
        BY <2>1, <2>6, <4>1, <4>2, <4>3 DEF Failover!AuthFails, Failover!OutOfQuota, Failover!Current
    <3> QED
      BY <2>1, <2>2, <2>4, <3>3, <3>5, <3>6, <3>7, <3>8, GivesUp
  <2>7. CASE Failover(c)!Temporary(r)
    <3>1. PICK n : n = req[r].temps + 1
      OBVIOUS
    <3>2. /\ cooling' = cooling \cup {a} /\ UNCHANGED <<row, spent>>
          /\ burnt' = burnt \/ burnt' = [burnt EXCEPT ![r] = @ \cup {a}]
          /\ req' = IF n < c.maxTemp
                    THEN [Failover(c)!Next1(r, "temp") EXCEPT ![r].temps = n]
                    ELSE IF r \in gone \/ "window" \in over[r]
                    THEN Failover(c)!Finished(r, "temp")
                    ELSE [req EXCEPT ![r].pc = "backoff", ![r].err = "temp", ![r].temps = n]
      BY <2>1, <2>7, <3>1 DEF Failover!Temporary, Failover!Noted, Failover!Current, Failover!BurstLimit,
        Failover!NoMoreWaiting
    <3>3. n \in Nat /\ n <= c.maxTemp /\ n > req[r].temps
      BY <1>1, <2>3, <3>1
    <3>4. \A g : (g.pc # "ended" => g.temps = n) => BurnEffect(c, r, g)
      BY <2>3, <2>4, <3>1, <3>2, <3>3 DEF BurnEffect
    <3>5. RowEffect(c)
      BY <3>2 DEF RowEffect
    <3>6. CASE n < c.maxTemp
      <4>1. req' = [req EXCEPT ![r].pc = "round", ![r].err = "temp", ![r].i = req[r].i + 1, ![r].temps = n]
        BY <1>1, <3>2, <3>6 DEF Failover!Next1
      <4>2. PICK g \in FailReqs(c) :
              /\ req' = [req EXCEPT ![r] = g]
              /\ g.pc = "round" /\ Proceeds(c, g) /\ g.temps = n /\ g.limits = req[r].limits
        <5>1. n \in Nat /\ c.maxTemp \in Nat /\ "temp" \in {"auth", "quota", "temp"}
          BY <1>1, <3>3
        <5>2. GoesOnTo(c, r, "temp", n)
          BY <2>2, <3>6, <5>1, NextIs
        <5> QED
          BY <4>1, <5>2 DEF GoesOnTo
      <4>3. BurnEffect(c, r, g)
        BY <3>4, <4>2
      <4> QED
        BY <2>1, <2>2, <2>4, <3>2, <3>5, <4>2, <4>3, GivesUp
    <3>7. CASE ~(n < c.maxTemp) /\ (r \in gone \/ "window" \in over[r])
      <4>1. PICK g \in FailReqs(c) : /\ req' = [req EXCEPT ![r] = g]
                                     /\ g.pc = "ended" /\ g.err = "temp" /\ Proceeds(c, g)
        BY <3>2, <3>7, FinishedIs
      <4>2. BurnEffect(c, r, g)
        BY <3>4, <4>1
      <4> QED
        BY <2>1, <2>2, <2>4, <3>2, <3>5, <3>7, <4>1, <4>2, GivesUp
    <3>8. CASE ~(n < c.maxTemp) /\ ~(r \in gone \/ "window" \in over[r])
      <4>1. PICK g : g = [req[r] EXCEPT !.pc = "backoff", !.err = "temp", !.temps = n]
        OBVIOUS
      <4>2. req' = [req EXCEPT ![r] = g]
        BY <1>1, <3>2, <3>8, <4>1
      <4>3. /\ g \in FailReqs(c) /\ g.pc = "backoff" /\ g.list = req[r].list /\ g.i = req[r].i /\ g.temps = n
            /\ g.limits = req[r].limits /\ g.err = "temp"
        BY <1>1, <3>3, <4>1 DEF FailReqs
      <4>4. Proceeds(c, g)
        <5>1. g.temps \in 0..c.maxTemp
          BY <1>1, <3>3, <4>3
        <5>2. /\ Len(req[r].list) <= Cardinality(c.accounts) /\ req[r].i \in 1..Len(req[r].list) + 1
              /\ g.pc = "backoff" /\ g.err # ""
          BY <1>1, <4>3 DEF Proceeds
        <5> QED
          BY <4>3, <5>1, <5>2 DEF Proceeds
      <4>5. BurnEffect(c, r, g)
        BY <3>4, <4>3
      <4> QED
        BY <2>1, <2>2, <2>4, <3>2, <3>5, <4>2, <4>3, <4>4, <4>5, GivesUp
    <3> QED
      BY <3>6, <3>7, <3>8
  <2> QED
    BY <1>3, <2>5, <2>6, <2>7 DEF Failover!Attempt
<1> QED
  BY <1>2, <1>3

\* A generation that waits for a slot or a better upstream, or has none left to try.
LEMMA WaitEffect ==
  ASSUME NEW CONSTANT c, Failover(c)!FailoverAssumption, FailInv(c), NEW r \in c.requests,
         Failover(c)!EndRound(r) \/ Failover(c)!Backoff(r) \/ Failover(c)!Poll(r)
  PROVE  \E g \in FailReqs(c) : Effect(c, r, g)
<1>1. /\ FailTypes(c) /\ req \in [c.requests -> FailReqs(c)] /\ req[r] \in FailReqs(c) /\ Proceeds(c, req[r])
      /\ LimitsKnown(c) /\ c.maxTemp \in Nat \ {0}
  BY DEF FailInv, FailTypes, Failover!FailoverAssumption
<1>2. /\ UNCHANGED <<row, cooling, cursor, holders, gone, over, spent>>
      /\ req[r].pc \in {"round", "backoff", "queued"}
      /\ req[r].pc # "backoff" => UNCHANGED burnt
  BY DEF Failover!EndRound, Failover!Backoff, Failover!Poll
<1>3. /\ RowEffect(c) /\ cooling' \subseteq c.accounts /\ cursor' \in 0..c.cycle-1
      /\ spent' \in [c.requests -> SUBSET c.accounts]
      /\ \A g : g.pc # "trying" => SlotEffect(c, r, g)
  BY <1>1, <1>2 DEF RowEffect, FailTypes, SlotEffect
<1>4. c.perKind => Snapshot(c, req[r])
  BY <1>1, <1>2 DEF LimitsKnown
<1>5. ASSUME NEW e \in {"ok", "no_account", "full", "auth", "quota", "temp", "param"},
             req' = Failover(c)!Finished(r, e), UNCHANGED burnt, e = "temp" => r \in gone \/ "window" \in over[r]
      PROVE  \E g \in FailReqs(c) : Effect(c, r, g)
  <2>1. PICK g \in FailReqs(c) : req' = [req EXCEPT ![r] = g] /\ g.pc = "ended" /\ g.err = e /\ Proceeds(c, g)
    BY <1>5, FinishedIs
  <2>2. BurnEffect(c, r, g)
    BY <1>5, <2>1 DEF BurnEffect
  <2> QED
    BY <1>2, <1>3, <1>5, <2>1, <2>2 DEF Effect
<1>6. ASSUME NEW p \in {"backoff", "queued"}, req' = [req EXCEPT ![r].pc = p], UNCHANGED burnt,
             p = "backoff" => req[r].err # "", req[r].pc # "backoff"
      PROVE  \E g \in FailReqs(c) : Effect(c, r, g)
  <2>1. PICK g : g = [req[r] EXCEPT !.pc = p]
    OBVIOUS
  <2>2. req' = [req EXCEPT ![r] = g]
    BY <1>1, <1>6, <2>1
  <2>3. /\ g \in FailReqs(c) /\ g.pc = p /\ g.list = req[r].list /\ g.i = req[r].i /\ g.temps = req[r].temps
        /\ g.limits = req[r].limits /\ g.err = req[r].err
    BY <1>1, <2>1 DEF FailReqs
  <2>4. Proceeds(c, g) /\ (c.perKind => Snapshot(c, g))
    BY <1>1, <1>4, <1>6, <2>3 DEF Proceeds, Snapshot
  <2>5. BurnEffect(c, r, g)
    <3>1. req[r].temps \in Nat
      BY <1>1, FailFields
    <3>2. g.temps >= req[r].temps
      BY <2>3, <3>1
    <3> QED
      BY <1>6, <3>2 DEF BurnEffect
  <2> QED
    BY <1>2, <1>3, <2>2, <2>3, <2>4, <2>5 DEF Effect
<1>7. ASSUME NEW t \in Nat, t < c.maxTemp, req' = Failover(c)!NewRound(r, t),
             (burnt' = burnt /\ t >= req[r].temps) \/ burnt' = [burnt EXCEPT ![r] = {}]
      PROVE  \E g \in FailReqs(c) : Effect(c, r, g)
  <2>1. PICK g : g = [req[r] EXCEPT !.pc = "round", !.i = 1, !.err = "", !.temps = t]
    OBVIOUS
  <2>2. req' = [req EXCEPT ![r] = g]
    BY <1>1, <1>7, <2>1 DEF Failover!NewRound
  <2>3. /\ g \in FailReqs(c) /\ g.pc = "round" /\ g.list = req[r].list /\ g.i = 1 /\ g.temps = t
        /\ g.limits = req[r].limits
    BY <1>1, <2>1 DEF FailReqs
  <2>4. Proceeds(c, g) /\ (c.perKind => Snapshot(c, g))
    <3>1. Len(req[r].list) \in Nat
      BY <1>1, FailFields
    <3>2. 1 \in 1..Len(req[r].list) + 1
      BY <3>1
    <3>3. t \in 0..c.maxTemp
      BY <1>1, <1>7
    <3> QED
      BY <1>1, <1>4, <1>7, <2>3, <3>2, <3>3 DEF Proceeds, Snapshot
  <2>5. BurnEffect(c, r, g)
    BY <1>7, <2>3 DEF BurnEffect
  <2> QED
    BY <1>2, <1>3, <2>2, <2>3, <2>4, <2>5 DEF Effect
<1>8. CASE Failover(c)!EndRound(r)
  <2>1. req[r].pc = "round" /\ UNCHANGED burnt
    BY <1>8 DEF Failover!EndRound
  <2>2. CASE req[r].err # ""
    <3>1. req[r].err \in {"ok", "no_account", "full", "auth", "quota", "temp", "param"}
      BY <1>1, <2>2, FailFields
    <3>2. \/ req' = [req EXCEPT ![r].pc = "backoff"]
          \/ /\ req' = Failover(c)!Finished(r, req[r].err)
             /\ req[r].err = "temp" => r \in gone \/ "window" \in over[r]
      BY <1>8, <2>2 DEF Failover!EndRound, Failover!WaitsForRetry, Failover!NoMoreWaiting
    <3> QED
      BY <1>5, <1>6, <2>1, <2>2, <3>1, <3>2
  <2>3. CASE req[r].err = ""
    <3>1. req' = [req EXCEPT ![r].pc = "queued"] \/ req' = Failover(c)!Finished(r, "full")
      BY <1>8, <2>3 DEF Failover!EndRound
    <3> QED
      BY <1>5, <1>6, <2>1, <3>1
  <2> QED
    BY <2>2, <2>3
<1>9. CASE Failover(c)!Backoff(r)
  <2>1. req[r].pc = "backoff"
    BY <1>9 DEF Failover!Backoff
  <2>2. req[r].err \in {"ok", "no_account", "full", "auth", "quota", "temp", "param"}
    BY <1>1, <2>1, FailFields DEF Proceeds
  <2>3. CASE r \in gone
    <3>1. req' = Failover(c)!Finished(r, req[r].err) /\ UNCHANGED burnt
      BY <1>9, <2>3 DEF Failover!Backoff
    <3> QED
      BY <1>5, <2>2, <2>3, <3>1
  <2>4. CASE r \notin gone
    <3>1. req' = Failover(c)!NewRound(r, 0) /\ burnt' = [burnt EXCEPT ![r] = {}]
      BY <1>9, <2>4 DEF Failover!Backoff
    <3>2. 0 \in Nat /\ 0 < c.maxTemp
      BY <1>1
    <3> QED
      BY <1>7, <3>1, <3>2
  <2> QED
    BY <2>3, <2>4
<1>10. CASE Failover(c)!Poll(r)
  <2>1. req[r].pc = "queued" /\ UNCHANGED burnt
    BY <1>10 DEF Failover!Poll
  <2>2. req[r].temps \in Nat /\ req[r].temps < c.maxTemp /\ req[r].temps >= req[r].temps
    <3>1. req[r].temps \in Nat
      BY <1>1, FailFields
    <3>2. req[r].temps < c.maxTemp
      BY <1>1, <2>1 DEF Proceeds
    <3> QED
      BY <3>1, <3>2
  <2>3. req' = Failover(c)!Finished(r, "full") \/ req' = Failover(c)!NewRound(r, req[r].temps)
    BY <1>10 DEF Failover!Poll
  <2> QED
    BY <1>5, <1>7, <2>1, <2>2, <2>3
<1> QED
  BY <1>8, <1>9, <1>10

\* Time passes, a generation is cancelled, an account has cooled off, a slot expires.
LEMMA TimeStep ==
  ASSUME NEW CONSTANT c, Failover(c)!FailoverAssumption, FailInv(c),
         \/ \E r \in c.requests :
              Failover(c)!Cancel(r) \/ \E d \in Failover(c)!Deadlines : Failover(c)!Passes(r, d)
         \/ \E a \in c.accounts :
              Failover(c)!CoolOff(a) \/ \E r \in c.requests : Failover(c)!ExpireSlot(r, a)
  PROVE  FailInv(c)'
<1>1. FailTypes(c) /\ SlotsKept(c) /\ BurnsCounted(c) /\ SurfacesLate(c) /\ LimitsKnown(c)
  BY DEF FailInv
<1>2. UNCHANGED <<row, cursor, req, burnt, spent>>
  BY DEF Failover!Cancel, Failover!Passes, Failover!CoolOff, Failover!ExpireSlot
<1>3. BurnsCounted(c)' /\ LimitsKnown(c)'
  BY <1>1, <1>2 DEF BurnsCounted, LimitsKnown, Snapshot
<1>4. /\ cooling' \subseteq c.accounts /\ gone \subseteq gone' /\ gone' \subseteq c.requests
      /\ over' \in [c.requests -> SUBSET {"queue", "window"}]
      /\ \A r \in c.requests : over[r] \subseteq over'[r]
  <2>1. /\ cooling \subseteq c.accounts /\ gone \subseteq c.requests
        /\ over \in [c.requests -> SUBSET {"queue", "window"}]
    BY <1>1 DEF FailTypes
  <2>2. ASSUME NEW r \in c.requests, NEW d \in Failover(c)!Deadlines, Failover(c)!Passes(r, d)
        PROVE  /\ over' \in [c.requests -> SUBSET {"queue", "window"}]
               /\ \A s \in c.requests : over[s] \subseteq over'[s]
               /\ UNCHANGED <<cooling, gone>>
    BY <2>1, <2>2 DEF Failover!Passes, Failover!Deadlines
  <2>3. ASSUME NEW r \in c.requests, Failover(c)!Cancel(r)
        PROVE  gone' = gone \cup {r} /\ UNCHANGED <<cooling, over>>
    BY <2>3 DEF Failover!Cancel
  <2>4. ASSUME NEW a \in c.accounts, Failover(c)!CoolOff(a) \/ \E r \in c.requests : Failover(c)!ExpireSlot(r, a)
        PROVE  cooling' \subseteq cooling /\ UNCHANGED <<gone, over>>
    BY <2>4 DEF Failover!CoolOff, Failover!ExpireSlot
  <2> QED
    BY <2>1, <2>2, <2>3, <2>4
<1>5. SurfacesLate(c)'
  BY <1>1, <1>2, <1>4 DEF SurfacesLate
<1>6. holders' \in [c.accounts -> SUBSET c.requests] /\ SlotsKept(c)'
  <2>1. /\ holders \in [c.accounts -> SUBSET c.requests]
        /\ \A r \in c.requests : r \notin gone' =>
             \A a \in c.accounts : r \in holders[a] <=> req[r].pc = "trying" /\ req[r].list[req[r].i] = a
        /\ \A a \in c.accounts : IsFiniteSet(holders[a]) /\ Cardinality(holders[a]) <= c.cap[a]
    BY <1>1, <1>4 DEF FailTypes, SlotsKept
  <2>2. CASE UNCHANGED holders
    BY <1>2, <2>1, <2>2 DEF SlotsKept
  <2>3. ASSUME NEW r \in c.requests, NEW a \in c.accounts, Failover(c)!ExpireSlot(r, a)
        PROVE  holders' \in [c.accounts -> SUBSET c.requests] /\ SlotsKept(c)'
    <3>1. /\ holders' = [holders EXCEPT ![a] = @ \ {r}]
          /\ ~(req[r].pc = "trying" /\ req[r].list[req[r].i] = a)
      BY <2>3 DEF Failover!ExpireSlot, Failover!Current
    <3>2. \A b \in c.accounts : holders'[b] = IF b = a THEN holders[a] \ {r} ELSE holders[b]
      BY <2>1, <3>1
    <3>3. IsFiniteSet(holders[a] \ {r}) /\ Cardinality(holders[a] \ {r}) <= c.cap[a]
      <4>1. holders[a] \ {r} \in SUBSET holders[a]
        OBVIOUS
      <4>2. /\ IsFiniteSet(holders[a] \ {r}) /\ Cardinality(holders[a] \ {r}) <= Cardinality(holders[a])
            /\ Cardinality(holders[a] \ {r}) \in Nat /\ Cardinality(holders[a]) \in Nat
        BY <2>1, <4>1, FS_Subset, FS_CardinalityType
      <4>3. c.cap[a] \in 1..20 /\ Cardinality(holders[a]) <= c.cap[a]
        BY <2>1 DEF Failover!FailoverAssumption
      <4> QED
        BY <4>2, <4>3
    <3>4. \A b \in c.accounts : IsFiniteSet(holders'[b]) /\ Cardinality(holders'[b]) <= c.cap[b]
      BY <2>1, <3>2, <3>3
    <3>5. \A s \in c.requests : s \notin gone' =>
            \A b \in c.accounts : s \in holders'[b] <=> req[s].pc = "trying" /\ req[s].list[req[s].i] = b
      BY <2>1, <3>1, <3>2
    <3>6. holders' \in [c.accounts -> SUBSET c.requests]
      BY <2>1, <3>1
    <3> QED
      BY <1>2, <3>4, <3>5, <3>6 DEF SlotsKept
  <2> QED
    BY <2>2, <2>3 DEF Failover!Cancel, Failover!Passes, Failover!CoolOff
<1>7. FailTypes(c)'
  <2>1. \A r \in c.requests : Proceeds(c, req[r])'
    BY <1>1, <1>2 DEF FailTypes, Proceeds
  <2> QED
    BY <1>1, <1>2, <1>4, <1>6, <2>1 DEF FailTypes
<1> QED
  BY <1>3, <1>5, <1>6, <1>7 DEF FailInv

\* Every step of a pool with a driver leaves the invariant.
LEMMA FailStep ==
  ASSUME NEW CONSTANT c, Failover(c)!FailoverAssumption, FailInv(c),
         Failover(c)!Next \/ UNCHANGED failoverVars
  PROVE  FailInv(c)'
<1>1. CASE UNCHANGED failoverVars
  <2>1. FailTypes(c) /\ SlotsKept(c) /\ BurnsCounted(c) /\ SurfacesLate(c) /\ LimitsKnown(c)
    BY DEF FailInv
  <2>2. UNCHANGED row /\ UNCHANGED cooling /\ UNCHANGED cursor /\ UNCHANGED holders /\ UNCHANGED req
        /\ UNCHANGED gone /\ UNCHANGED over /\ UNCHANGED burnt /\ UNCHANGED spent
    BY <1>1 DEF failoverVars
  <2>3. FailTypes(c)'
    BY <2>1, <2>2 DEF FailTypes, Proceeds
  <2>4. SlotsKept(c)' /\ BurnsCounted(c)'
    BY <2>1, <2>2 DEF SlotsKept, BurnsCounted
  <2>5. SurfacesLate(c)' /\ LimitsKnown(c)'
    BY <2>1, <2>2 DEF SurfacesLate, LimitsKnown, Snapshot
  <2> QED
    BY <2>3, <2>4, <2>5 DEF FailInv
<1>2. ASSUME NEW r \in c.requests, Failover(c)!Step(r) PROVE FailInv(c)'
  <2>1. \E g \in FailReqs(c) : Effect(c, r, g)
    BY <1>2, SelectEffect, AcquireEffect, AttemptEffect, WaitEffect DEF Failover!Step
  <2> QED
    BY <2>1, EffectStep
<1>3. Failover(c)!Next => \/ \E r \in c.requests : Failover(c)!Step(r)
                          \/ \E r \in c.requests :
                               Failover(c)!Cancel(r) \/ \E d \in Failover(c)!Deadlines : Failover(c)!Passes(r, d)
                          \/ \E a \in c.accounts :
                               Failover(c)!CoolOff(a) \/ \E r \in c.requests : Failover(c)!ExpireSlot(r, a)
  BY DEF Failover!Next
<1> QED
  BY <1>1, <1>2, <1>3, TimeStep

\* So the slots are those of the accounts that are tried, within their caps; a burst of
\* temporary errors cools as many accounts as it has errors, and nobody is told of one
\* early; only an account without a kind left waits for its quota.
LEMMA FailImplies ==
  ASSUME NEW CONSTANT c, Failover(c)!FailoverAssumption, FailInv(c)
  PROVE  /\ Failover(c)!FailoverTypeOK /\ Failover(c)!CapKept /\ Failover(c)!NoHoldAndWait
         /\ Failover(c)!TempSurfacedLate /\ Failover(c)!FanOutBounded /\ Failover(c)!PicksSpread
         /\ Failover(c)!QuotaMeansBoth
<1>1. FailTypes(c) /\ SlotsKept(c) /\ BurnsCounted(c) /\ SurfacesLate(c) /\ LimitsKnown(c)
  BY DEF FailInv
<1>2. Failover(c)!FailoverTypeOK
  <2>1. row \in [c.accounts -> [status : {"active", "quota", "disabled"}, dead : BOOLEAN,
                               limited : SUBSET Failover(c)!Kinds]]
    BY <1>1 DEF FailTypes, FailRows, Both, Failover!Kinds
  <2>2. /\ cooling \subseteq c.accounts /\ cursor \in 0..c.cycle-1 /\ holders \in [c.accounts -> SUBSET c.requests]
        /\ gone \subseteq c.requests /\ over \in [c.requests -> SUBSET Failover(c)!Deadlines]
    BY <1>1 DEF FailTypes, Failover!Deadlines
  <2>3. \A r \in c.requests :
          /\ req[r].pc \in {"start", "round", "trying", "backoff", "queued", "ended"}
          /\ req[r].err \in Failover(c)!Outcomes \cup {""}
          /\ req[r].temps \in 0..c.maxTemp
          /\ req[r].i \in 1..Failover(c)!Cardinality(c.accounts) + 1
          /\ burnt[r] \subseteq c.accounts /\ spent[r] \subseteq c.accounts
    <3> TAKE r \in c.requests
    <3>1. req[r] \in FailReqs(c) /\ Proceeds(c, req[r]) /\ burnt[r] \subseteq c.accounts
          /\ spent[r] \subseteq c.accounts
      BY <1>1 DEF FailTypes
    <3>2. req[r].pc \in {"start", "round", "trying", "backoff", "queued", "ended"}
      BY <3>1 DEF FailReqs
    <3>3. req[r].err \in Failover(c)!Outcomes \cup {""}
      BY <3>1, FailFields DEF Failover!Outcomes
    <3>4. /\ req[r].temps \in 0..c.maxTemp /\ req[r].i \in 1..Len(req[r].list) + 1
          /\ Len(req[r].list) <= Cardinality(c.accounts)
      BY <3>1 DEF Proceeds
    <3>5. Failover(c)!Cardinality(c.accounts) = Cardinality(c.accounts) /\ Cardinality(c.accounts) \in Nat
      <4>1. IsFiniteSet(c.accounts)
        BY FailCount DEF Failover!FailoverAssumption
      <4> QED
        BY <4>1, FailCount, FS_CardinalityType
    <3>6. Len(req[r].list) \in Nat
      BY <3>1, FailFields
    <3>7. req[r].i \in 1..Cardinality(c.accounts) + 1
      BY <3>4, <3>5, <3>6
    <3> QED
      BY <3>1, <3>2, <3>3, <3>4, <3>5, <3>7
  <2> QED
    BY <2>1, <2>2, <2>3 DEF Failover!FailoverTypeOK
<1>3. Failover(c)!CapKept
  BY <1>1, FailCount DEF SlotsKept, Failover!CapKept
<1>4. Failover(c)!NoHoldAndWait
  BY <1>1 DEF SlotsKept, Failover!NoHoldAndWait, Failover!Current
<1>5. Failover(c)!TempSurfacedLate
  BY <1>1 DEF SurfacesLate, Failover!TempSurfacedLate, Failover!NoMoreWaiting
<1>6. Failover(c)!FanOutBounded
  <2> SUFFICES ASSUME NEW r \in c.requests PROVE Cardinality(burnt[r]) <= c.maxTemp
    BY FailCount DEF Failover!FanOutBounded
  <2>1. Cardinality(burnt[r]) <= IF req[r].pc = "ended" THEN c.maxTemp ELSE req[r].temps
    BY <1>1 DEF BurnsCounted
  <2>2. req[r].temps \in 0..c.maxTemp /\ c.maxTemp \in Nat
    BY <1>1 DEF FailTypes, Proceeds, Failover!FailoverAssumption
  <2>3. Cardinality(burnt[r]) \in Nat
    <3>1. IsFiniteSet(c.accounts) /\ burnt[r] \in SUBSET c.accounts
      BY <1>1, FailCount DEF Failover!FailoverAssumption, FailTypes
    <3> QED
      BY <3>1, FS_Subset, FS_CardinalityType
  <2> QED
    BY <2>1, <2>2, <2>3
<1>7. Failover(c)!QuotaMeansBoth
  BY <1>1 DEF LimitsKnown, Failover!QuotaMeansBoth, Failover!Kinds, Both
<1> QED
  BY <1>2, <1>3, <1>4, <1>5, <1>6, <1>7, NextIsAnother

-----------------------------------------------------------------------------
(* Failing over.                                                           *)

\* A step is one of the part, or leaves the pools with a driver alone.
LEMMA FailAlone ==
  ASSUME [PoolsNext]_vars
  PROVE  \A p \in {"busy", "outage", "kinds"} :
           part = p => Failover(Case[p])!Next \/ UNCHANGED failoverVars
<1>1. CASE UNCHANGED vars
  BY <1>1 DEF vars, generationVars
<1>2. CASE PoolsNext
  BY <1>2 DEF PoolsNext, OfFailover, OfPass, OfHold, OfCredential, OfActivation, OfImport, OfCookie, OfSweep
<1> QED
  BY <1>1, <1>2

\* The invariant of the pools with a driver, as the parts are never changed.
FailsInv == \A p \in {"busy", "outage", "kinds"} : part = p => FailInv(Case[p])

\* Every part begins with it.
LEMMA FailsInitially == PoolsInit => FailsInv
<1>1. PoolsInit => \A p \in {"busy", "outage", "kinds"} : part = p => Failover(Case[p])!Init
  BY DEF PoolsInit, Its
<1> QED
  BY <1>1, PoolsAssumption, FailInitially DEF FailsInv

\* Every step leaves it.
LEMMA FailsStep ==
  ASSUME FailsInv, [PoolsNext]_vars
  PROVE  FailsInv'
<1>1. part' = part
  BY PartsAlone
<1>2. \A p \in {"busy", "outage", "kinds"} : part = p => FailInv(Case[p])'
  BY FailAlone, PoolsAssumption, FailStep DEF FailsInv
<1> QED
  BY <1>1, <1>2 DEF FailsInv

\* Whatever the accounts and generations: no account of the failover has more jobs than it
\* may, who waits holds nothing, an outage cools no more accounts than a burst has errors, a
\* temporary error is not told before the window has passed, the next choice begins with
\* another account if the first has an equal; in a single pass the slots are those of the
\* generations whose commands get through, and who is told that the pool is full has tried
\* none.
THEOREM Pools_FailsOverRightly == PoolsSpec => []FailsOverRightly
<1>1. PoolsInit => FailsInv /\ PassesInv
  BY FailsInitially, PassesInitially
<1>2. FailsInv /\ PassesInv /\ [PoolsNext]_vars => (FailsInv /\ PassesInv)'
  BY FailsStep, PassesStep
<1>3. FailsInv /\ PassesInv => FailsOverRightly
  <2> SUFFICES ASSUME FailsInv, PassesInv PROVE FailsOverRightly
    OBVIOUS
  <2>1. part = "busy" => /\ Failover(Case.busy)!FailoverTypeOK
                         /\ Failover(Case.busy)!CapKept /\ Failover(Case.busy)!NoHoldAndWait
    BY PoolsAssumption, FailImplies DEF FailsInv
  <2>2. part = "outage" => /\ Failover(Case.outage)!TempSurfacedLate
                           /\ Failover(Case.outage)!FanOutBounded /\ Failover(Case.outage)!PicksSpread
    BY PoolsAssumption, FailImplies DEF FailsInv
  <2>3. part = "kinds" => Failover(Case.kinds)!QuotaMeansBoth
    BY PoolsAssumption, FailImplies DEF FailsInv
  <2>4. part = "mixed" => Pass(Case.mixed)!SinglePassTypeOK
    BY PoolsAssumption, PassImplies DEF PassesInv
  <2>5. part = "passes" => Pass(Case.passes)!SlotsMatchJobs /\ Pass(Case.passes)!FullMeansUntried
    BY PoolsAssumption, PassImplies DEF PassesInv
  <2> QED
    BY <2>1, <2>2, <2>3, <2>4, <2>5 DEF FailsOverRightly
<1> QED
  BY <1>1, <1>2, <1>3, PTL DEF PoolsSpec
=============================================================================

----------------------------- MODULE StayProofs -----------------------------
(***************************************************************************)
(* Proofs about MCPools, for any callers, accounts, credentials, pools and *)
(* bounds: what of an account can be used once is used once, and an        *)
(* account that works is neither listed twice nor taken out of use.        *)
(***************************************************************************)
EXTENDS MCPools, FiniteSetTheorems, WellFoundedInduction, TLAPS

-----------------------------------------------------------------------------
(* An instance is about one part, whose component's variables change only  *)
(* by its own steps.                                                       *)

\* The part is never changed, and nobody else touches its variables.
LEMMA PartsStay ==
  ASSUME [PoolsNext]_vars
  PROVE  /\ part' = part
         /\ part = "rotated" => [Credential(Case.rotated)!Next]_credentialVars
         /\ part = "once" => [Activation(Case.once)!Next]_activationVars
         /\ part = "granted" => [Activation(Case.granted)!Next]_activationVars
         /\ part = "serial" => [Import(Case.serial)!Next]_importVars
         /\ part = "swept" => [Cookie(Case.swept)!Next]_cookieVars
         /\ part = "dead" => [Cookie(Case.dead)!Next]_cookieVars
         /\ part = "grok" => [Balance(Case.grok)!Next]_sweepVars
<1>1. CASE UNCHANGED vars
  BY <1>1 DEF vars, accountVars
<1>2. CASE PoolsNext
  BY <1>2 DEF PoolsNext, OfFailover, OfPass, OfHold, OfCredential, OfActivation, OfImport, OfCookie,
     OfSweep,
    accountVars
<1> QED
  BY <1>1, <1>2

-----------------------------------------------------------------------------
(* A refresh token that is good once.                                      *)

\* One process, which does not stop.
OneProcess(c) == c.maxCrashes = 0 /\ \E p : c.procs = {p}

CallerTypes(c) ==
  credCaller \in [c.callers -> [pc : {"idle", "wait", "locked", "posted", "save", "use", "kill"},
                                have : 0..c.maxSessions, fresh : 0..c.maxSessions]]

\* The newest session that anyone has: all but the newest, if the answer with that was lost.
Newest == IF lost THEN latest - 1 ELSE latest

SessionTypes(c) ==
  /\ latest \in 1..c.maxSessions /\ Newest \in 1..latest /\ value \in 1..Newest /\ expiring \in 0..latest
  /\ clientCookies \in [c.procs -> 0..c.maxSessions]
  /\ credLock \in [c.procs -> c.callers \cup {0}]
  /\ presented \in [1..c.maxSessions -> Nat]
  /\ lost \in BOOLEAN /\ unreadable \in BOOLEAN
  /\ unsaved \in 0..c.maxUnsaved /\ restarts \in 0..c.maxCrashes
  /\ credStatus \in {"active", "disabled"} /\ (credStatus = "disabled" => lost \/ unreadable)

\* Whoever is between its look at the cache and the answer has the lock.
LockHeld(c) ==
  \A p \in c.procs : \A d \in c.callers : credLock[p] = d <=> credCaller[d].pc \in {"locked", "posted"}

\* The client knows the newest session, or none was ever refreshed.
CacheIsNewest(c) == \A p \in c.procs : clientCookies[p] = Newest \/ (clientCookies[p] = 0 /\ Newest = 1)

\* A session that runs out is the row's and everybody's, and nobody has got past the
\* refresh with it; only then is it presented, so that nobody is refused who could have
\* known a newer one.
CallerKnows(g) ==
  /\ g.pc = "kill" => lost \/ unreadable
  /\ IF g.pc = "idle" THEN g.have = 0 ELSE g.have \in 1..Newest
  /\ g.pc = "save" => g.fresh \in 1..Newest
  /\ g.pc = "posted" => expiring >= Newest
  /\ expiring >= Newest /\ g.pc # "idle" =>
       g.have = Newest /\ g.pc \in {"wait", "locked", "posted", "kill"}
CallersKnow(c) == \A d \in c.callers : CallerKnows(credCaller[d])
ValueIsNewest == expiring >= Newest => value = Newest

\* An older session was presented once, a newer one never; the newest that anyone has is
\* presented while somebody waits for the answer, and again once that was lost.
SomePosted(c) == \E d \in c.callers : credCaller[d].pc = "posted"
PresentedOnce(c) ==
  /\ \A s \in 1..c.maxSessions : /\ s < Newest => presented[s] <= 1
                                 /\ s > Newest => presented[s] = 0
  /\ ~lost => presented[Newest] <= 1 /\ (~SomePosted(c) => presented[Newest] = 0)
  /\ SomePosted(c) => presented[Newest] >= 1

RotInv(c) ==
  /\ CallerTypes(c) /\ SessionTypes(c) /\ LockHeld(c) /\ CacheIsNewest(c)
  /\ CallersKnow(c) /\ ValueIsNewest /\ PresentedOnce(c)

\* Nobody has refreshed: the client remembers nothing.
LEMMA RotInitially ==
  ASSUME NEW CONSTANT c, Credential(c)!RotatingAssumption, Credential(c)!Init
  PROVE  RotInv(c)
<1>1. /\ value = 1 /\ credStatus = "active" /\ latest = 1 /\ expiring = 0
      /\ clientCookies = [p \in c.procs |-> 0] /\ credLock = [p \in c.procs |-> 0]
      /\ credCaller = [d \in c.callers |-> [pc |-> "idle", have |-> 0, fresh |-> 0]]
      /\ presented = [s \in 1..c.maxSessions |-> 0] /\ unsaved = 0 /\ restarts = 0
      /\ lost = FALSE /\ unreadable = FALSE
      /\ c.maxSessions \in Nat \ {0} /\ c.maxUnsaved \in Nat /\ c.maxCrashes \in Nat /\ 0 \notin c.callers
  BY DEF Credential!Init, Credential!Idle, Credential!Sessions, Credential!RotatingAssumption
<1>2. Newest = 1
  BY <1>1 DEF Newest
<1>3. CallerTypes(c) /\ SessionTypes(c)
  <2>1. lost \in BOOLEAN /\ unreadable \in BOOLEAN
    BY <1>1
  <2>2. credStatus \in {"active", "disabled"} /\ (credStatus = "disabled" => lost \/ unreadable)
    BY <1>1
  <2>3. /\ latest \in 1..c.maxSessions /\ Newest \in 1..latest /\ value \in 1..Newest /\ expiring \in 0..latest
        /\ unsaved \in 0..c.maxUnsaved /\ restarts \in 0..c.maxCrashes /\ 0 \in 0..c.maxSessions
    BY <1>1, <1>2
  <2>4. /\ clientCookies \in [c.procs -> 0..c.maxSessions] /\ credLock \in [c.procs -> c.callers \cup {0}]
        /\ presented \in [1..c.maxSessions -> Nat]
    BY <1>1, <2>3
  <2>5. CallerTypes(c)
    BY <1>1, <2>3 DEF CallerTypes
  <2> QED
    BY <2>1, <2>2, <2>3, <2>4, <2>5 DEF SessionTypes
<1>4. LockHeld(c) /\ CacheIsNewest(c) /\ CallersKnow(c) /\ ValueIsNewest /\ PresentedOnce(c)
  BY <1>1, <1>2 DEF LockHeld, CacheIsNewest, CallersKnow, CallerKnows, ValueIsNewest, PresentedOnce, SomePosted
<1> QED
  BY <1>3, <1>4 DEF RotInv

\* Whatever a caller does, and when an hour passes: the invariant stays.
LEMMA RotStep ==
  ASSUME NEW CONSTANT c, Credential(c)!RotatingAssumption, OneProcess(c), RotInv(c),
         [Credential(c)!Next]_credentialVars
  PROVE  RotInv(c)'
<1>0. PICK o : c.procs = {o}
  BY DEF OneProcess
<1>1. /\ c.maxSessions \in Nat \ {0} /\ c.maxUnsaved \in Nat /\ c.maxCrashes = 0 /\ 0 \notin c.callers
      /\ \A d \in c.callers : c.procOf[d] = o
  BY <1>0 DEF Credential!RotatingAssumption, OneProcess
<1>2. CallerTypes(c) /\ SessionTypes(c) /\ LockHeld(c) /\ CacheIsNewest(c) /\ CallersKnow(c) /\ ValueIsNewest /\ PresentedOnce(c)
  BY DEF RotInv
<1>3. ASSUME NEW d \in c.callers
      PROVE  /\ credCaller[d] \in [pc : {"idle", "wait", "locked", "posted", "save", "use", "kill"},
                                   have : 0..c.maxSessions, fresh : 0..c.maxSessions]
             /\ credLock[o] = d <=> credCaller[d].pc \in {"locked", "posted"}
             /\ CallerKnows(credCaller[d])
  BY <1>0, <1>2 DEF CallerTypes, LockHeld, CallersKnow
<1>4. clientCookies[o] = Newest \/ (clientCookies[o] = 0 /\ Newest = 1)
  BY <1>0, <1>2 DEF CacheIsNewest
<1>5. /\ latest \in 1..c.maxSessions /\ value \in 1..Newest /\ expiring \in 0..latest /\ Newest \in 1..latest
      /\ latest \in Nat /\ value \in Nat /\ expiring \in Nat /\ Newest \in Nat /\ Newest \in 1..c.maxSessions
      /\ Newest >= 1 /\ lost \in BOOLEAN
  BY <1>1, <1>2 DEF SessionTypes
\* Nobody else waits for an answer or has the lock.
<1>6. ASSUME NEW d \in c.callers, credCaller[d].pc \in {"locked", "posted"}, NEW e \in c.callers, e # d
      PROVE  credCaller[e].pc \notin {"locked", "posted"}
  BY <1>3, <1>6
\* A caller that goes on, and nothing is presented.
<1>7. ASSUME NEW d \in c.callers, NEW g \in [pc : {"idle", "wait", "locked", "save", "use", "kill"},
                                            have : 0..c.maxSessions, fresh : 0..c.maxSessions],
             credCaller[d].pc # "posted",
             CallerKnows(g), credCaller' = [credCaller EXCEPT ![d] = g],
             UNCHANGED <<latest, expiring, clientCookies, presented, lost, unreadable>>
      PROVE  CallersKnow(c)' /\ CallerTypes(c)' /\ CacheIsNewest(c)' /\ PresentedOnce(c)' /\ Newest' = Newest
  <2>1. Newest' = Newest
    BY <1>7 DEF Newest
  <2>2. \A e \in c.callers : credCaller'[e] = IF e = d THEN g ELSE credCaller[e]
    BY <1>2, <1>7 DEF CallerTypes
  <2>4. ASSUME NEW e \in c.callers PROVE CallerKnows(credCaller[e])'
    <3>1. CallerKnows(credCaller[e]) /\ CallerKnows(g)
      BY <1>3, <1>7
    <3> QED
      BY <1>7, <2>1, <2>2, <3>1 DEF CallerKnows
  <2>5. CallerTypes(c)'
    BY <1>2, <1>7 DEF CallerTypes
  <2>6. SomePosted(c)' <=> SomePosted(c)
    BY <1>7, <2>2 DEF SomePosted
  <2> QED
    BY <1>2, <1>7, <2>1, <2>4, <2>5, <2>6 DEF CallersKnow, CacheIsNewest, PresentedOnce
\* A caller that is done with the lock lets go of it.
<1>8. ASSUME NEW d \in c.callers, credCaller[d].pc \in {"locked", "posted"},
             NEW g \in [pc : {"save", "use", "idle", "kill"}, have : 0..c.maxSessions, fresh : 0..c.maxSessions],
             credCaller' = [credCaller EXCEPT ![d] = g], credLock' = Credential(c)!Unlocked(d)
      PROVE  LockHeld(c)' /\ CallerTypes(c)' /\ credLock' \in [c.procs -> c.callers \cup {0}] /\ ~SomePosted(c)'
  <2>1. credLock[o] = d
    BY <1>3, <1>8
  <2>2. credLock' = [credLock EXCEPT ![o] = 0]
    BY <1>0, <1>1, <1>8, <2>1 DEF Credential!Unlocked
  <2>3. ASSUME NEW e \in c.callers, e # d PROVE credCaller[e].pc \notin {"locked", "posted"}
    BY <1>3, <2>1, <2>3
  <2>4. \A e \in c.callers : credCaller'[e] = IF e = d THEN g ELSE credCaller[e]
    BY <1>2, <1>8 DEF CallerTypes
  <2>5. ~SomePosted(c)'
    BY <1>8, <2>3, <2>4 DEF SomePosted
  <2>6. LockHeld(c)'
    BY <1>0, <1>1, <1>2, <1>8, <2>2, <2>3, <2>4 DEF LockHeld, CallerTypes, SessionTypes
  <2> QED
    BY <1>0, <1>2, <1>8, <2>2, <2>5, <2>6 DEF CallerTypes, SessionTypes
<1>9. ASSUME NEW d \in c.callers, Credential(c)!Snapshot(d) PROVE RotInv(c)'
  <2>0. PICK g : g = [pc |-> "wait", have |-> value, fresh |-> 0]
    OBVIOUS
  <2>1. /\ credCaller[d].pc = "idle" /\ credCaller' = [credCaller EXCEPT ![d] = g]
        /\ UNCHANGED <<value, credStatus, latest, expiring, clientCookies, credLock, presented, lost, unreadable, unsaved, restarts>>
    BY <1>9, <2>0 DEF Credential!Snapshot
  <2>2. /\ g \in [pc : {"wait"}, have : 0..c.maxSessions, fresh : 0..c.maxSessions]
        /\ g.pc = "wait" /\ g.have = value
    <3>1. value \in 0..c.maxSessions /\ 0 \in 0..c.maxSessions
      BY <1>1, <1>5
    <3> QED
      BY <2>0, <3>1
  <2>3. CallerKnows(g)
    BY <1>2, <1>5, <2>2 DEF CallerKnows, ValueIsNewest
  <2>4. CallersKnow(c)' /\ CallerTypes(c)' /\ CacheIsNewest(c)' /\ PresentedOnce(c)' /\ Newest' = Newest
    BY <1>7, <2>1, <2>2, <2>3
  <2>5. SessionTypes(c)' /\ ValueIsNewest'
    BY <1>2, <2>1, <2>4 DEF SessionTypes, ValueIsNewest
  <2>6. LockHeld(c)'
    BY <1>2, <1>3, <2>1, <2>2 DEF LockHeld, CallerTypes
  <2> QED
    BY <2>4, <2>5, <2>6 DEF RotInv
<1>10. ASSUME NEW d \in c.callers, Credential(c)!Enter(d) PROVE RotInv(c)'
  <2>1. /\ credCaller[d].pc = "wait" /\ credLock[o] = 0
        /\ credCaller' = [credCaller EXCEPT ![d].pc = "locked"] /\ credLock' = [credLock EXCEPT ![o] = d]
        /\ UNCHANGED <<value, credStatus, latest, expiring, clientCookies, presented, lost, unreadable, unsaved, restarts>>
    BY <1>1, <1>10 DEF Credential!Enter, Credential!userLock
  <2>2. ASSUME NEW e \in c.callers PROVE credCaller[e].pc \notin {"locked", "posted"}
    BY <1>1, <1>3, <2>1
  <2>3. PICK g : g = [credCaller[d] EXCEPT !.pc = "locked"]
    OBVIOUS
  <2>4. /\ g \in [pc : {"locked"}, have : 0..c.maxSessions, fresh : 0..c.maxSessions]
        /\ g.pc = "locked" /\ g.have = credCaller[d].have
        /\ credCaller' = [credCaller EXCEPT ![d] = g]
    BY <1>2, <1>3, <2>1, <2>3 DEF CallerTypes
  <2>5. CallerKnows(g)
    BY <1>3, <2>1, <2>4 DEF CallerKnows
  <2>6. CallersKnow(c)' /\ CallerTypes(c)' /\ CacheIsNewest(c)' /\ PresentedOnce(c)' /\ Newest' = Newest
    BY <1>7, <2>1, <2>4, <2>5
  <2>7. SessionTypes(c)' /\ ValueIsNewest'
    BY <1>0, <1>1, <1>2, <2>1, <2>6 DEF SessionTypes, ValueIsNewest
  <2>8. LockHeld(c)'
    BY <1>0, <1>2, <1>3, <2>1, <2>2 DEF LockHeld, CallerTypes, SessionTypes
  <2> QED
    BY <2>6, <2>7, <2>8 DEF RotInv
<1>11. ASSUME NEW d \in c.callers, Credential(c)!StillValid(d) PROVE RotInv(c)'
  <2>0. credCaller[d].have \in 1..Newest
    BY <1>3, <1>11 DEF Credential!StillValid, CallerKnows
  <2>1. PICK s : /\ s \in {clientCookies[o], credCaller[d].have} /\ s # 0 /\ s > expiring
                 /\ credCaller' = [credCaller EXCEPT ![d].pc = IF Credential(c)!Changed(d, s) THEN "save" ELSE "use",
                                                     ![d].fresh = s]
    <3>2. CASE Credential(c)!CacheServes(d)
      BY <1>1, <1>11, <3>2 DEF Credential!StillValid, Credential!CacheServes, Credential!Valid
    <3>3. CASE ~Credential(c)!CacheServes(d)
      <4>1. credCaller[d].have # 0 /\ credCaller[d].have > expiring
        BY <1>1, <1>5, <1>11, <2>0, <3>3 DEF Credential!StillValid, Credential!Valid
      <4> QED
        BY <1>11, <3>3, <4>1 DEF Credential!StillValid
    <3> QED
      BY <3>2, <3>3
  <2>2. /\ credCaller[d].pc = "locked" /\ credLock' = Credential(c)!Unlocked(d)
        /\ UNCHANGED <<value, credStatus, latest, expiring, clientCookies, presented, lost, unreadable, unsaved, restarts>>
    BY <1>11 DEF Credential!StillValid
  <2>3. s \in 1..Newest /\ s \in 0..c.maxSessions /\ ~(expiring >= Newest)
    BY <1>1, <1>4, <1>5, <2>0, <2>1
  <2>4. PICK g : /\ g = [credCaller[d] EXCEPT !.pc = IF Credential(c)!Changed(d, s) THEN "save" ELSE "use", !.fresh = s]
    OBVIOUS
  <2>5. credCaller' = [credCaller EXCEPT ![d] = g]
    BY <1>2, <2>1, <2>4 DEF CallerTypes
  <2>6. /\ g \in [pc : {"save", "use"}, have : 0..c.maxSessions, fresh : 0..c.maxSessions]
        /\ g.pc \in {"save", "use"} /\ g.have = credCaller[d].have /\ g.fresh = s
    BY <1>3, <2>3, <2>4
  <2>7. CallerKnows(g)
    BY <2>0, <2>3, <2>6 DEF CallerKnows
  <2>8. LockHeld(c)' /\ credLock' \in [c.procs -> c.callers \cup {0}]
    BY <1>8, <2>2, <2>5, <2>6
  <2>9. CallersKnow(c)' /\ CallerTypes(c)' /\ CacheIsNewest(c)' /\ PresentedOnce(c)' /\ Newest' = Newest
    BY <1>7, <2>2, <2>5, <2>6, <2>7
  <2>10. SessionTypes(c)' /\ ValueIsNewest'
    BY <1>2, <2>2, <2>8, <2>9 DEF SessionTypes, ValueIsNewest
  <2> QED
    BY <2>8, <2>9, <2>10 DEF RotInv
<1>12. ASSUME NEW d \in c.callers, Credential(c)!Present(d) PROVE RotInv(c)'
  <2>1. /\ credCaller[d].pc = "locked" /\ ~(clientCookies[o] # 0 /\ clientCookies[o] > expiring) /\ ~(credCaller[d].have > expiring)
        /\ presented' = [presented EXCEPT ![credCaller[d].have] = @ + 1]
        /\ credCaller' = [credCaller EXCEPT ![d].pc = "posted"]
        /\ UNCHANGED <<value, credStatus, latest, expiring, clientCookies, credLock, lost, unreadable, unsaved, restarts>>
    BY <1>1, <1>12 DEF Credential!Present, Credential!CacheServes, Credential!Valid
  <2>2. credCaller[d].have \in 1..Newest
    BY <1>3, <2>1 DEF CallerKnows
  <2>3. expiring >= Newest
    BY <1>4, <1>5, <2>1, <2>2
  <2>4. credCaller[d].have = Newest /\ Newest' = Newest
    BY <1>3, <2>1, <2>3 DEF CallerKnows, Newest
  <2>5. ASSUME NEW e \in c.callers PROVE credCaller[e].pc # "posted"
    BY <1>3, <2>1
  <2>6. presented' = [presented EXCEPT ![Newest] = @ + 1] /\ presented[Newest] \in Nat
    BY <1>2, <1>5, <2>1, <2>4 DEF SessionTypes
  <2>7. SessionTypes(c)' /\ ValueIsNewest'
    <3>1. presented' \in [1..c.maxSessions -> Nat]
      BY <1>2, <1>5, <2>6 DEF SessionTypes
    <3> QED
      BY <1>2, <2>1, <2>4, <3>1 DEF SessionTypes, ValueIsNewest
  <2>8. CallerTypes(c)' /\ LockHeld(c)'
    BY <1>0, <1>2, <1>3, <2>1 DEF CallerTypes, LockHeld
  <2>9. CacheIsNewest(c)'
    BY <1>2, <2>1, <2>4 DEF CacheIsNewest
  <2>10. CallersKnow(c)'
    <3> SUFFICES ASSUME NEW e \in c.callers PROVE CallerKnows(credCaller[e])'
      BY DEF CallersKnow
    <3>1. CallerKnows(credCaller[e])
      BY <1>3
    <3>2. CASE e # d
      BY <1>2, <2>1, <2>4, <3>1, <3>2 DEF CallerKnows, CallerTypes
    <3>3. CASE e = d
      <4>1. credCaller'[d].pc = "posted" /\ credCaller'[d].have = Newest
        BY <1>2, <2>1, <2>4 DEF CallerTypes
      <4> QED
        BY <1>5, <2>1, <2>3, <2>4, <3>3, <4>1 DEF CallerKnows
    <3> QED
      BY <3>2, <3>3
  <2>11. PresentedOnce(c)'
    <3>1. ~lost => presented[Newest] = 0
      BY <1>2, <2>5 DEF PresentedOnce, SomePosted
    <3>2. SomePosted(c)'
      BY <1>2, <2>1 DEF CallerTypes, SomePosted
    <3>3. presented'[Newest] = presented[Newest] + 1
      BY <1>2, <1>5, <2>6 DEF SessionTypes
    <3>4. \A s \in 1..c.maxSessions : s # Newest => presented'[s] = presented[s]
      BY <1>2, <2>6 DEF SessionTypes
    <3>5. \A s \in 1..c.maxSessions : /\ s < Newest => presented[s] <= 1
                                      /\ s > Newest => presented[s] = 0
      BY <1>2 DEF PresentedOnce
    <3>6. \A s \in 1..c.maxSessions : /\ s < Newest => presented'[s] <= 1
                                      /\ s > Newest => presented'[s] = 0
      BY <1>5, <3>4, <3>5
    <3> QED
      BY <2>1, <2>4, <2>6, <3>1, <3>2, <3>3, <3>6 DEF PresentedOnce
  <2> QED
    BY <2>7, <2>8, <2>9, <2>10, <2>11 DEF RotInv
\* What is known of whoever waits for an answer.
<1>13. ASSUME NEW d \in c.callers, credCaller[d].pc = "posted"
       PROVE  /\ credCaller[d].have = Newest /\ expiring >= Newest
              /\ presented[Newest] >= 1 /\ presented[Newest] \in Nat
              /\ ~lost => presented[Newest] = 1
              /\ credCaller[d].have = latest <=> ~lost
  <2>1. credCaller[d].have = Newest /\ expiring >= Newest
    BY <1>3, <1>13 DEF CallerKnows
  <2>2. SomePosted(c)
    BY <1>13 DEF SomePosted
  <2>3. presented[Newest] \in Nat
    BY <1>2, <1>5 DEF SessionTypes
  <2>4. presented[Newest] >= 1 /\ (~lost => presented[Newest] <= 1)
    BY <1>2, <2>2 DEF PresentedOnce
  <2>5. Newest = latest <=> ~lost
    BY <1>5 DEF Newest
  <2> QED
    BY <2>1, <2>3, <2>4, <2>5
\* The answer did not count, or it was issued in vain; the caller stops or kills.
<1>14. ASSUME NEW d \in c.callers, credCaller[d].pc = "posted",
              NEW g \in [pc : {"idle", "kill"}, have : 0..c.maxSessions, fresh : 0..c.maxSessions],
              credCaller' = [credCaller EXCEPT ![d] = g], credLock' = Credential(c)!Unlocked(d),
              g.pc = "kill" => (lost' \/ unreadable') /\ g.have = Newest, g.pc = "idle" => g.have = 0,
              lost' \in BOOLEAN, unreadable' \in BOOLEAN, lost => lost', unreadable => unreadable',
              \/ presented' = [presented EXCEPT ![Newest] = @ - 1] /\ UNCHANGED <<latest, lost>>
              \/ lost /\ UNCHANGED <<latest, lost, presented>>
              \/ ~lost /\ latest < c.maxSessions /\ latest' = latest + 1 /\ lost' /\ UNCHANGED presented,
              UNCHANGED <<value, credStatus, expiring, clientCookies, unsaved, restarts>>
       PROVE  RotInv(c)'
  <2>1. /\ expiring >= Newest /\ presented[Newest] >= 1 /\ presented[Newest] \in Nat
        /\ ~lost => presented[Newest] = 1
    BY <1>13, <1>14
  <2>2. Newest' = Newest
    <3>1. CASE UNCHANGED <<latest, lost>>
      BY <3>1 DEF Newest
    <3>2. CASE ~lost /\ latest' = latest + 1 /\ lost'
      BY <1>5, <3>2 DEF Newest
    <3> QED
      BY <1>14, <3>1, <3>2
  <2>3. LockHeld(c)' /\ CallerTypes(c)' /\ credLock' \in [c.procs -> c.callers \cup {0}] /\ ~SomePosted(c)'
    BY <1>8, <1>14
  <2>4. latest' \in 1..c.maxSessions /\ latest' >= latest
    BY <1>1, <1>5, <1>14
  <2>5. presented' \in [1..c.maxSessions -> Nat]
    BY <1>2, <1>5, <1>14, <2>1 DEF SessionTypes
  <2>6. SessionTypes(c)'
    <3>1. Newest' \in 1..latest' /\ value' \in 1..Newest' /\ expiring' \in 0..latest'
      BY <1>5, <1>14, <2>2, <2>4
    <3>2. credStatus' \in {"active", "disabled"} /\ (credStatus' = "disabled" => lost' \/ unreadable')
      BY <1>2, <1>14 DEF SessionTypes
    <3> QED
      BY <1>2, <1>14, <2>3, <2>4, <2>5, <3>1, <3>2 DEF SessionTypes
  <2>7. CacheIsNewest(c)' /\ ValueIsNewest'
    BY <1>2, <1>14, <2>2 DEF CacheIsNewest, ValueIsNewest
  <2>8. CallersKnow(c)'
    <3> SUFFICES ASSUME NEW e \in c.callers PROVE CallerKnows(credCaller[e])'
      BY DEF CallersKnow
    <3>1. CallerKnows(credCaller[e])
      BY <1>3
    <3>2. credCaller'[e] = IF e = d THEN g ELSE credCaller[e]
      BY <1>2, <1>14 DEF CallerTypes
    <3>3. CASE e # d
      BY <1>14, <2>2, <3>1, <3>2, <3>3 DEF CallerKnows
    <3>4. CASE e = d
      BY <1>5, <1>14, <2>2, <3>2, <3>4 DEF CallerKnows
    <3> QED
      BY <3>3, <3>4
  <2>9. PresentedOnce(c)'
    <3>1. \A s \in 1..c.maxSessions : s # Newest => presented'[s] = presented[s]
      BY <1>2, <1>14 DEF SessionTypes
    <3>2. \A s \in 1..c.maxSessions : /\ s < Newest => presented[s] <= 1
                                      /\ s > Newest => presented[s] = 0
      BY <1>2 DEF PresentedOnce
    <3>3. \A s \in 1..c.maxSessions : /\ s < Newest => presented'[s] <= 1
                                      /\ s > Newest => presented'[s] = 0
      BY <1>5, <3>1, <3>2
    <3>4. ~lost' => presented'[Newest] = 0
      <4>1. CASE presented' = [presented EXCEPT ![Newest] = @ - 1] /\ UNCHANGED lost
        <5>1. presented'[Newest] = presented[Newest] - 1
          BY <1>2, <1>5, <4>1 DEF SessionTypes
        <5> QED
          BY <2>1, <4>1, <5>1
      <4>2. CASE lost'
        BY <4>2
      <4> QED
        BY <1>14, <4>1, <4>2
    <3> QED
      BY <2>2, <2>3, <3>3, <3>4 DEF PresentedOnce
  <2> QED
    BY <2>3, <2>6, <2>7, <2>8, <2>9 DEF RotInv
<1>15. ASSUME NEW d \in c.callers, Credential(c)!Refresh(d) PROVE RotInv(c)'
  <2>1. /\ credCaller[d].pc = "posted" /\ latest < c.maxSessions /\ latest' = latest + 1 /\ ~lost
        /\ clientCookies' = [clientCookies EXCEPT ![o] = latest + 1]
        /\ credCaller' = [credCaller EXCEPT ![d].pc = "save", ![d].fresh = latest + 1]
        /\ credLock' = Credential(c)!Unlocked(d)
        /\ UNCHANGED <<value, credStatus, expiring, presented, lost, unreadable, unsaved, restarts>>
    BY <1>1, <1>13, <1>15 DEF Credential!Refresh
  <2>2. /\ Newest = latest /\ Newest' = latest + 1 /\ expiring = latest
        /\ latest + 1 \in 1..c.maxSessions /\ latest + 1 \in 0..c.maxSessions
        /\ presented[latest] = 1
    <3>1. Newest = latest /\ Newest' = latest + 1
      BY <2>1 DEF Newest
    <3> QED
      BY <1>1, <1>5, <1>13, <2>1, <3>1
  <2>3. PICK g : g = [credCaller[d] EXCEPT !.pc = "save", !.fresh = latest + 1]
    OBVIOUS
  <2>4. credCaller' = [credCaller EXCEPT ![d] = g]
    BY <1>2, <2>1, <2>3 DEF CallerTypes
  <2>5. /\ g \in [pc : {"save"}, have : 0..c.maxSessions, fresh : 0..c.maxSessions]
        /\ g.pc = "save" /\ g.have = latest /\ g.fresh = latest + 1
    BY <1>3, <1>13, <2>1, <2>2, <2>3
  <2>6. LockHeld(c)' /\ CallerTypes(c)' /\ credLock' \in [c.procs -> c.callers \cup {0}] /\ ~SomePosted(c)'
    BY <1>8, <2>1, <2>4, <2>5
  <2>7. SessionTypes(c)'
    <3>1. clientCookies' \in [c.procs -> 0..c.maxSessions]
      BY <1>2, <2>1, <2>2 DEF SessionTypes
    <3>2. latest' \in 1..c.maxSessions /\ Newest' \in 1..latest' /\ value' \in 1..Newest' /\ expiring' \in 0..latest'
      BY <1>1, <1>5, <2>1, <2>2
    <3> QED
      BY <1>2, <2>1, <2>6, <3>1, <3>2 DEF SessionTypes
  <2>8. CacheIsNewest(c)' /\ ValueIsNewest'
    BY <1>0, <1>2, <1>5, <2>1, <2>2 DEF CacheIsNewest, ValueIsNewest, SessionTypes
  <2>9. CallersKnow(c)'
    <3> SUFFICES ASSUME NEW e \in c.callers PROVE CallerKnows(credCaller[e])'
      BY DEF CallersKnow
    <3>1. CallerKnows(credCaller[e])
      BY <1>3
    <3>2. credCaller'[e] = IF e = d THEN g ELSE credCaller[e]
      BY <1>2, <2>4 DEF CallerTypes
    <3>3. ~(expiring' >= Newest') /\ \A n : n \in 1..latest => n \in 1..Newest'
      BY <1>5, <2>1, <2>2
    <3>4. CASE e # d
      <4>1. credCaller[e].pc # "posted"
        BY <1>6, <2>1, <3>4
      <4> QED
        BY <2>1, <2>2, <3>1, <3>2, <3>3, <3>4, <4>1 DEF CallerKnows
    <3>5. CASE e = d
      BY <1>5, <2>2, <2>5, <3>2, <3>3, <3>5 DEF CallerKnows
    <3> QED
      BY <3>4, <3>5
  <2>10. PresentedOnce(c)'
    <3>1. ASSUME NEW s \in 1..c.maxSessions
          PROVE  /\ s < latest + 1 => presented[s] <= 1
                 /\ s > latest + 1 => presented[s] = 0
                 /\ s = latest + 1 => presented[s] = 0
      <4>1. /\ s < latest => presented[s] <= 1
            /\ s > latest => presented[s] = 0
        BY <1>2, <2>2 DEF PresentedOnce
      <4> QED
        BY <1>1, <1>5, <2>2, <4>1
    <3>2. presented[latest + 1] = 0
      BY <2>2, <3>1
    <3> QED
      BY <2>1, <2>2, <2>6, <3>1, <3>2 DEF PresentedOnce
  <2> QED
    BY <2>6, <2>7, <2>8, <2>9, <2>10 DEF RotInv
<1>16. ASSUME NEW d \in c.callers, Credential(c)!RefreshRefused(d) PROVE RotInv(c)'
  <2>1. /\ credCaller[d].pc = "posted" /\ credCaller[d].have # latest
        /\ credCaller' = [credCaller EXCEPT ![d].pc = "kill"] /\ credLock' = Credential(c)!Unlocked(d)
        /\ UNCHANGED <<value, credStatus, latest, expiring, clientCookies, presented, lost, unreadable, unsaved, restarts>>
    BY <1>16 DEF Credential!RefreshRefused
  <2>2. lost /\ credCaller[d].have = Newest
    BY <1>5, <1>13, <2>1
  <2>3. PICK g : g = [credCaller[d] EXCEPT !.pc = "kill"]
    OBVIOUS
  <2>4. /\ g \in [pc : {"idle", "kill"}, have : 0..c.maxSessions, fresh : 0..c.maxSessions]
        /\ g.pc = "kill" /\ g.have = Newest /\ credCaller' = [credCaller EXCEPT ![d] = g]
    BY <1>2, <1>3, <2>1, <2>2, <2>3 DEF CallerTypes
  <2>5. lost' \in BOOLEAN /\ unreadable' \in BOOLEAN
    BY <1>2, <2>1 DEF SessionTypes
  <2> QED
    BY <1>14, <2>1, <2>2, <2>4, <2>5
<1>17. ASSUME NEW d \in c.callers, Credential(c)!RefreshFails(d) \/ Credential(c)!AnswerLost(d) PROVE RotInv(c)'
  <2> DEFINE g == [pc |-> "idle", have |-> 0, fresh |-> 0]
  <2>1. /\ credCaller[d].pc = "posted" /\ credCaller' = [credCaller EXCEPT ![d] = g]
        /\ credLock' = Credential(c)!Unlocked(d)
        /\ UNCHANGED <<value, credStatus, expiring, clientCookies, unreadable, unsaved, restarts>>
    BY <1>17 DEF Credential!RefreshFails, Credential!AnswerLost, Credential!Idle
  <2>2. \/ presented' = [presented EXCEPT ![Newest] = @ - 1] /\ UNCHANGED <<latest, lost>>
        \/ ~lost /\ latest < c.maxSessions /\ latest' = latest + 1 /\ lost' = TRUE /\ UNCHANGED presented
    BY <1>13, <1>17, <2>1 DEF Credential!RefreshFails, Credential!AnswerLost, Credential!IssuedInVain
  <2>3. g \in [pc : {"idle", "kill"}, have : 0..c.maxSessions, fresh : 0..c.maxSessions]
    <3>1. 0 \in 0..c.maxSessions
      BY <1>1
    <3> QED
      BY <3>1
  <2>4. g.pc = "idle" /\ g.have = 0
    OBVIOUS
  <2>5. lost' \in BOOLEAN /\ unreadable' \in BOOLEAN /\ (lost => lost') /\ (unreadable => unreadable')
    BY <1>2, <2>1, <2>2 DEF SessionTypes
  <2> HIDE DEF g
  <2> QED
    BY <1>14, <2>1, <2>2, <2>3, <2>4, <2>5
<1>18. ASSUME NEW d \in c.callers, Credential(c)!RefreshUnreadable(d) PROVE RotInv(c)'
  <2>1. /\ credCaller[d].pc = "posted" /\ credCaller' = [credCaller EXCEPT ![d].pc = "kill"]
        /\ credLock' = Credential(c)!Unlocked(d) /\ unreadable' = TRUE
        /\ UNCHANGED <<value, credStatus, expiring, clientCookies, unsaved, restarts>>
    BY <1>18 DEF Credential!RefreshUnreadable
  <2>2. credCaller[d].have = Newest /\ (credCaller[d].have = latest <=> ~lost)
    BY <1>13, <2>1
  <2>3. \/ presented' = [presented EXCEPT ![Newest] = @ - 1] /\ UNCHANGED <<latest, lost>>
        \/ ~lost /\ latest < c.maxSessions /\ latest' = latest + 1 /\ lost' = TRUE /\ UNCHANGED presented
    BY <1>18, <2>2 DEF Credential!RefreshUnreadable, Credential!IssuedInVain
  <2>4. PICK g : g = [credCaller[d] EXCEPT !.pc = "kill"]
    OBVIOUS
  <2>5. /\ g \in [pc : {"idle", "kill"}, have : 0..c.maxSessions, fresh : 0..c.maxSessions]
        /\ g.pc = "kill" /\ g.have = Newest /\ credCaller' = [credCaller EXCEPT ![d] = g]
    BY <1>2, <1>3, <2>1, <2>2, <2>4 DEF CallerTypes
  <2>6. lost' \in BOOLEAN /\ (lost => lost')
    BY <1>5, <2>3
  <2> QED
    BY <1>14, <2>1, <2>3, <2>5, <2>6
<1>19. ASSUME NEW d \in c.callers,
              \/ Credential(c)!Persist(d) \/ Credential(c)!PersistFails(d) \/ Credential(c)!Use(d)
              \/ Credential(c)!Kill(d)
       PROVE  RotInv(c)'
  <2>1. /\ credCaller[d].pc \in {"save", "use", "kill"}
        /\ UNCHANGED <<latest, expiring, clientCookies, credLock, presented, lost, unreadable, restarts>>
    BY <1>19 DEF Credential!Persist, Credential!PersistFails, Credential!Use, Credential!Kill
  <2>2. PICK g : /\ \/ g = [credCaller[d] EXCEPT !.pc = "use"] /\ credCaller[d].pc = "save"
                    \/ g = [pc |-> "idle", have |-> 0, fresh |-> 0]
                 /\ credCaller' = [credCaller EXCEPT ![d] = g]
    BY <1>2, <1>19 DEF Credential!Persist, Credential!PersistFails, Credential!Use, Credential!Kill,
       Credential!Idle, CallerTypes
  <2>3. 0 \in 0..c.maxSessions
    BY <1>1
  <2>4. /\ g \in [pc : {"use", "idle"}, have : 0..c.maxSessions, fresh : 0..c.maxSessions]
        /\ CallerKnows(g)
    BY <1>3, <2>1, <2>2, <2>3 DEF CallerKnows
  <2>5. /\ value' \in 1..Newest /\ ValueIsNewest'
        /\ unsaved' \in 0..c.maxUnsaved
        /\ credStatus' \in {"active", "disabled"} /\ (credStatus' = "disabled" => lost \/ unreadable)
    <3>0. Newest' = Newest
      BY <2>1 DEF Newest
    <3>1. CASE Credential(c)!Persist(d)
      <4>1. value' = credCaller[d].fresh /\ credCaller[d].pc = "save" /\ UNCHANGED <<credStatus, unsaved>>
        BY <3>1 DEF Credential!Persist
      <4>2. credCaller[d].fresh \in 1..Newest /\ ~(expiring >= Newest)
        BY <1>3, <4>1 DEF CallerKnows
      <4> QED
        BY <1>2, <2>1, <3>0, <4>1, <4>2 DEF SessionTypes, ValueIsNewest
    <3>2. CASE Credential(c)!PersistFails(d)
      BY <1>1, <1>2, <1>5, <2>1, <3>0, <3>2 DEF Credential!PersistFails, SessionTypes, ValueIsNewest
    <3>3. CASE Credential(c)!Use(d)
      BY <1>2, <1>5, <2>1, <3>0, <3>3 DEF Credential!Use, SessionTypes, ValueIsNewest
    <3>4. CASE Credential(c)!Kill(d)
      <4>1. credStatus' = "disabled" /\ credCaller[d].pc = "kill" /\ UNCHANGED <<value, unsaved>>
        BY <3>4 DEF Credential!Kill
      <4>2. lost \/ unreadable
        BY <1>3, <4>1 DEF CallerKnows
      <4> QED
        BY <1>2, <1>5, <2>1, <3>0, <4>1, <4>2 DEF SessionTypes, ValueIsNewest
    <3> QED
      BY <1>19, <3>1, <3>2, <3>3, <3>4
  <2>6. CallersKnow(c)' /\ CallerTypes(c)' /\ CacheIsNewest(c)' /\ PresentedOnce(c)' /\ Newest' = Newest
    BY <1>7, <2>1, <2>2, <2>4
  <2>7. SessionTypes(c)'
    BY <1>2, <2>1, <2>5, <2>6 DEF SessionTypes
  <2>8. LockHeld(c)'
    BY <1>2, <1>3, <2>1, <2>2, <2>4 DEF LockHeld, CallerTypes
  <2> QED
    BY <2>5, <2>6, <2>7, <2>8 DEF RotInv
<1>20. ASSUME Credential(c)!Expire PROVE RotInv(c)'
  <2>1. /\ expiring < latest /\ expiring' = latest
        /\ \A d \in c.callers : credCaller[d].pc \in {"idle", "wait"} /\ credCaller[d].have \in {0, Newest}
        /\ value # Newest => clientCookies[o] # Newest
        /\ UNCHANGED <<value, credStatus, latest, clientCookies, credLock, credCaller, presented, lost, unreadable, unsaved, restarts>>
    BY <1>0, <1>20 DEF Credential!Expire, Credential!Received, Newest
  <2>2. value = Newest
    BY <1>4, <1>5, <2>1
  <2>3. Newest' = Newest
    BY <2>1 DEF Newest
  <2>4. CallerTypes(c)' /\ SessionTypes(c)'
    BY <1>2, <1>5, <2>1, <2>3 DEF CallerTypes, SessionTypes
  <2>5. LockHeld(c)' /\ CacheIsNewest(c)' /\ ValueIsNewest'
    BY <1>2, <2>1, <2>2, <2>3 DEF LockHeld, CacheIsNewest, ValueIsNewest
  <2>6. CallersKnow(c)'
    <3> SUFFICES ASSUME NEW e \in c.callers PROVE CallerKnows(credCaller[e])'
      BY DEF CallersKnow
    <3>1. CallerKnows(credCaller[e]) /\ credCaller[e].pc \in {"idle", "wait"} /\ credCaller[e].have \in {0, Newest}
      BY <1>3, <2>1
    <3> QED
      BY <1>5, <2>1, <2>3, <3>1 DEF CallerKnows
  <2>7. PresentedOnce(c)'
    BY <1>2, <2>1, <2>3 DEF PresentedOnce, SomePosted
  <2> QED
    BY <2>4, <2>5, <2>6, <2>7 DEF RotInv
<1>21. ASSUME NEW p \in c.procs, Credential(c)!Crash(p) PROVE FALSE
  BY <1>1, <1>2, <1>21 DEF Credential!Crash, SessionTypes
<1>22. CASE UNCHANGED credentialVars
  BY <1>22 DEF credentialVars, RotInv, CallerTypes, SessionTypes, LockHeld, CacheIsNewest, CallersKnow,
     CallerKnows, ValueIsNewest, PresentedOnce, SomePosted, Newest
<1>23. CASE Credential(c)!Next
  BY <1>9, <1>10, <1>11, <1>12, <1>15, <1>16, <1>17, <1>18, <1>19, <1>20, <1>21,
     <1>23 DEF Credential!Next, Credential!Step
<1> QED
  BY <1>22, <1>23

\* So a token is spent once unless its answer was lost, and the account lives.
LEMMA RotImplies ==
  ASSUME NEW CONSTANT c, Credential(c)!RotatingAssumption, RotInv(c)
  PROVE  /\ Credential(c)!RotatingTypeOK
         /\ Credential(c)!SpentOnce
         /\ Credential(c)!LiveAccountLives
<1>1. c.maxSessions \in Nat
  BY DEF Credential!RotatingAssumption
<1>2. /\ CallerTypes(c) /\ SessionTypes(c) /\ PresentedOnce(c) /\ latest \in 1..c.maxSessions /\ Newest \in 1..latest
      /\ value \in 1..Newest
  BY DEF RotInv, SessionTypes
<1>3. value \in 1..c.maxSessions /\ Newest \in Nat
  BY <1>1, <1>2
<1>4. Credential(c)!RotatingTypeOK
  BY <1>1, <1>2, <1>3 DEF CallerTypes, SessionTypes, Credential!RotatingTypeOK, Credential!Sessions
<1>5. Credential(c)!SpentOnce
  <2>1. ASSUME NEW s \in 1..c.maxSessions
        PROVE  presented[s] <= 1 \/ (lost /\ s = Newest)
    <3>1. CASE s < Newest
      BY <1>2, <3>1 DEF PresentedOnce
    <3>2. CASE s > Newest
      BY <1>2, <3>2 DEF PresentedOnce
    <3>3. CASE s = Newest
      BY <1>2, <3>3 DEF PresentedOnce
    <3> QED
      BY <1>3, <3>1, <3>2, <3>3
  <2> QED
    BY <2>1 DEF Credential!SpentOnce, Credential!Sessions, Credential!Received, Newest
<1> QED
  BY <1>2, <1>4, <1>5 DEF SessionTypes, Credential!LiveAccountLives

-----------------------------------------------------------------------------
(* The page of the day.                                                    *)

Everybody(c) == c.callers \cup {"sweep"}
KreaTypes(c) ==
  /\ day \in 1..c.maxDay /\ granted \in 0..c.maxDay /\ actAt \in 0..c.maxDay /\ syncedAt \in 0..c.maxDay
  /\ pageLock \in Everybody(c) \cup {"free"}
  /\ at \in [Everybody(c) -> [pc : {"idle", "wait", "load", "loaded", "go"}, lastReset : 0..c.maxDay]]
  /\ loads \in [0..c.maxDay -> Nat]

\* Who loads the page has the lock, and is not too late; the client remembers no later day.
PageLocked(c) ==
  /\ actAt <= day
  /\ \A d \in Everybody(c) :
       /\ pageLock = d <=> at[d].pc \in {"load", "loaded"}
       /\ at[d].lastReset <= day
       /\ at[d].pc = "load" => actAt < at[d].lastReset

\* A page that was loaded is remembered, or who has loaded it is about to do so.
LoadsRemembered(c) ==
  \A k \in 0..c.maxDay :
    /\ loads[k] <= 1
    /\ loads[k] # 0 => k <= actAt \/ (k <= day /\ \E d \in Everybody(c) : at[d].pc = "loaded")

KreaInv(c) == KreaTypes(c) /\ PageLocked(c) /\ LoadsRemembered(c)

\* No page was loaded yet.
LEMMA KreaInitially ==
  ASSUME NEW CONSTANT c, Activation(c)!ActivationAssumption, Activation(c)!Init
  PROVE  KreaInv(c)
<1>1. /\ day = 1 /\ granted = 0 /\ actAt = 0 /\ pageLock = "free" /\ syncedAt = 0
      /\ at = [d \in Everybody(c) |-> [pc |-> "idle", lastReset |-> 0]]
      /\ loads = [d \in 0..c.maxDay |-> 0]
      /\ c.maxDay \in Nat \ {0} /\ "free" \notin c.callers
  BY DEF Activation!Init, Activation!ActivationAssumption, Activation!Days, Activation!Everyone,
     Activation!sweep,
     Everybody
<1>2. "free" \notin Everybody(c)
  BY <1>1 DEF Everybody
<1> QED
  BY <1>1, <1>2 DEF KreaInv, KreaTypes, PageLocked, LoadsRemembered

\* Whatever a generation or the sweep does, a restart, and midnight: the invariant stays.
LEMMA KreaStep ==
  ASSUME NEW CONSTANT c, Activation(c)!ActivationAssumption, KreaInv(c), [Activation(c)!Next]_activationVars
  PROVE  KreaInv(c)'
<1>1. /\ c.maxDay \in Nat \ {0} /\ "free" \notin Everybody(c)
      /\ Activation(c)!Everyone = Everybody(c) /\ Activation(c)!sweep = "sweep"
  BY DEF Activation!ActivationAssumption, Activation!Everyone, Activation!sweep, Everybody
<1>2. KreaTypes(c) /\ PageLocked(c) /\ LoadsRemembered(c)
  BY DEF KreaInv
<1>3. /\ day \in 1..c.maxDay /\ day \in Nat /\ actAt \in Nat /\ actAt <= day /\ day \in 0..c.maxDay
  BY <1>1, <1>2 DEF KreaTypes, PageLocked
<1>4. ASSUME NEW d \in Everybody(c)
      PROVE  /\ at[d] \in [pc : {"idle", "wait", "load", "loaded", "go"}, lastReset : 0..c.maxDay]
             /\ at[d].lastReset \in Nat
             /\ pageLock = d <=> at[d].pc \in {"load", "loaded"}
             /\ at[d].lastReset <= day
             /\ at[d].pc = "load" => actAt < at[d].lastReset
  BY <1>1, <1>2 DEF KreaTypes, PageLocked
\* Who moves without the lock.
<1>5. ASSUME NEW d \in Everybody(c), at[d].pc \notin {"load", "loaded"},
             NEW g \in [pc : {"idle", "wait", "go"}, lastReset : 0..c.maxDay], g.lastReset <= day,
             at' = [at EXCEPT ![d] = g], syncedAt' \in 0..c.maxDay,
             UNCHANGED <<day, granted, actAt, pageLock, loads>>
      PROVE  KreaInv(c)'
  <2>1. KreaTypes(c)'
    BY <1>2, <1>5 DEF KreaTypes
  <2>2. PageLocked(c)'
    BY <1>2, <1>3, <1>4, <1>5 DEF PageLocked, KreaTypes
  <2>3. \A e \in Everybody(c) : at[e].pc = "loaded" => at'[e].pc = "loaded"
    BY <1>2, <1>5 DEF KreaTypes
  <2>4. LoadsRemembered(c)'
    BY <1>2, <1>5, <2>3 DEF LoadsRemembered
  <2> QED
    BY <2>1, <2>2, <2>4 DEF KreaInv
<1>6. ASSUME NEW d \in Everybody(c), Activation(c)!Activate(d) PROVE KreaInv(c)'
  <2>1. PICK g : /\ g = [pc |-> IF Activation(c)!doneToday(d, day) THEN "go" ELSE "wait", lastReset |-> day]
                 /\ at' = [at EXCEPT ![d] = g]
    BY <1>6 DEF Activation!Activate
  <2>2. g \in [pc : {"idle", "wait", "go"}, lastReset : 0..c.maxDay] /\ g.lastReset <= day
    BY <1>3, <2>1
  <2>3. at[d].pc = "idle" /\ UNCHANGED <<day, granted, actAt, pageLock, syncedAt, loads>>
    BY <1>6 DEF Activation!Activate
  <2>4. syncedAt' \in 0..c.maxDay
    BY <1>2, <2>3 DEF KreaTypes
  <2> QED
    BY <1>5, <2>1, <2>2, <2>3, <2>4
<1>7. ASSUME NEW d \in Everybody(c), Activation(c)!Recheck(d), at[d].lastReset <= actAt PROVE KreaInv(c)'
  <2>1. /\ at[d].pc = "wait" /\ at' = [at EXCEPT ![d].pc = "go"]
        /\ UNCHANGED <<day, granted, actAt, pageLock, syncedAt, loads>>
    BY <1>7 DEF Activation!Recheck, Activation!doneToday
  <2>2. PICK g : g = [at[d] EXCEPT !.pc = "go"]
    OBVIOUS
  <2>3. at' = [at EXCEPT ![d] = g]
    BY <1>2, <2>1, <2>2 DEF KreaTypes
  <2>4. g \in [pc : {"idle", "wait", "go"}, lastReset : 0..c.maxDay] /\ g.lastReset <= day
    BY <1>4, <2>2
  <2>5. syncedAt' \in 0..c.maxDay
    BY <1>2, <2>1 DEF KreaTypes
  <2> QED
    BY <1>5, <2>1, <2>3, <2>4, <2>5
<1>8. ASSUME NEW d \in Everybody(c), Activation(c)!Recheck(d), actAt < at[d].lastReset PROVE KreaInv(c)'
  <2>1. /\ at[d].pc = "wait" /\ pageLock = "free" /\ pageLock' = d /\ at' = [at EXCEPT ![d].pc = "load"]
        /\ UNCHANGED <<day, granted, actAt, syncedAt, loads>>
    BY <1>3, <1>4, <1>8 DEF Activation!Recheck, Activation!doneToday
  <2>2. \A e \in Everybody(c) : at[e].pc \notin {"load", "loaded"}
    BY <1>1, <1>4, <2>1
  <2>3. KreaTypes(c)'
    BY <1>2, <1>4, <2>1 DEF KreaTypes
  <2>4. PageLocked(c)'
    BY <1>2, <1>3, <1>4, <1>8, <2>1, <2>2 DEF PageLocked, KreaTypes
  <2>5. LoadsRemembered(c)'
    BY <1>2, <2>1, <2>2 DEF LoadsRemembered
  <2> QED
    BY <2>3, <2>4, <2>5 DEF KreaInv
<1>9. ASSUME NEW d \in Everybody(c), Activation(c)!Load(d) PROVE KreaInv(c)'
  <2>1. /\ at[d].pc = "load" /\ loads' = [loads EXCEPT ![day] = @ + 1] /\ granted' \in {day, granted}
        /\ at' = [at EXCEPT ![d].pc = "loaded"]
        /\ UNCHANGED <<day, actAt, pageLock, syncedAt>>
    BY <1>9 DEF Activation!Load
  <2>2. \A e \in Everybody(c) : at[e].pc # "loaded"
    BY <1>4, <2>1
  <2>3. actAt < day
    BY <1>3, <1>4, <2>1
  <2>4. loads[day] = 0
    BY <1>2, <1>3, <2>2, <2>3 DEF LoadsRemembered
  <2>5. KreaTypes(c)'
    <3>1. at' \in [Everybody(c) -> [pc : {"idle", "wait", "load", "loaded", "go"}, lastReset : 0..c.maxDay]]
      BY <1>2, <1>4, <2>1 DEF KreaTypes
    <3>2. loads' \in [0..c.maxDay -> Nat]
      BY <1>2, <1>3, <2>1, <2>4 DEF KreaTypes
    <3> QED
      BY <1>2, <1>3, <2>1, <3>1, <3>2 DEF KreaTypes
  <2>6. PageLocked(c)'
    BY <1>2, <1>3, <1>4, <2>1, <2>3 DEF PageLocked, KreaTypes
  <2>7. LoadsRemembered(c)'
    <3>1. at'[d].pc = "loaded"
      BY <1>2, <2>1 DEF KreaTypes
    <3>2. loads' = [loads EXCEPT ![day] = 1]
      BY <2>1, <2>4
    <3> QED
      BY <1>2, <1>3, <2>1, <2>2, <3>1, <3>2 DEF LoadsRemembered, KreaTypes
  <2> QED
    BY <2>5, <2>6, <2>7 DEF KreaInv
<1>10. ASSUME NEW d \in Everybody(c), Activation(c)!Stamp(d) PROVE KreaInv(c)'
  <2>1. /\ at[d].pc = "loaded" /\ actAt' = day /\ pageLock' = "free" /\ at' = [at EXCEPT ![d].pc = "go"]
        /\ UNCHANGED <<day, granted, syncedAt, loads>>
    BY <1>10 DEF Activation!Stamp
  <2>2. \A e \in Everybody(c) : e # d => at[e].pc \notin {"load", "loaded"}
    BY <1>4, <2>1
  <2>3. KreaTypes(c)'
    BY <1>2, <1>3, <1>4, <2>1 DEF KreaTypes
  <2>4. PageLocked(c)'
    BY <1>1, <1>2, <1>3, <1>4, <2>1, <2>2 DEF PageLocked, KreaTypes
  <2>5. LoadsRemembered(c)'
    BY <1>1, <1>2, <1>3, <2>1 DEF LoadsRemembered
  <2> QED
    BY <2>3, <2>4, <2>5 DEF KreaInv
<1>11. ASSUME NEW d \in Everybody(c), Activation(c)!Go(d) PROVE KreaInv(c)'
  <2>1. PICK g : g = [pc |-> "idle", lastReset |-> 0] /\ at' = [at EXCEPT ![d] = g]
    BY <1>11 DEF Activation!Go
  <2>2. g \in [pc : {"idle", "wait", "go"}, lastReset : 0..c.maxDay] /\ g.lastReset <= day
    BY <1>1, <1>3, <2>1
  <2>3. at[d].pc = "go" /\ syncedAt' \in {day, syncedAt} /\ UNCHANGED <<day, granted, actAt, pageLock, loads>>
    BY <1>11 DEF Activation!Go
  <2>4. syncedAt' \in 0..c.maxDay
    BY <1>2, <1>3, <2>3 DEF KreaTypes
  <2> QED
    BY <1>5, <2>1, <2>2, <2>3, <2>4
<1>12. ASSUME Activation(c)!NewDay PROVE KreaInv(c)'
  <2>1. day < c.maxDay /\ day' = day + 1 /\ UNCHANGED <<granted, actAt, pageLock, syncedAt, at, loads>>
    BY <1>12 DEF Activation!NewDay
  <2>2. KreaTypes(c)'
    BY <1>1, <1>2, <1>3, <2>1 DEF KreaTypes
  <2>3. PageLocked(c)'
    BY <1>2, <1>3, <1>4, <2>1 DEF PageLocked
  <2>4. LoadsRemembered(c)'
    BY <1>1, <1>2, <1>3, <2>1 DEF LoadsRemembered
  <2> QED
    BY <2>2, <2>3, <2>4 DEF KreaInv
<1>13. CASE UNCHANGED activationVars
  BY <1>13 DEF activationVars, KreaInv, KreaTypes, PageLocked, LoadsRemembered
<1>14. CASE Activation(c)!Next
  <2>1. ASSUME NEW d \in Everybody(c), Activation(c)!Recheck(d) PROVE KreaInv(c)'
    BY <1>3, <1>4, <1>7, <1>8, <2>1
  <2> QED
    BY <1>1, <1>6, <1>9, <1>10, <1>11, <1>12, <1>14, <2>1 DEF Activation!Next, Activation!Proceed
<1> QED
  BY <1>13, <1>14

\* Where the page loads and the day waits for who is at work, who goes on finds the
\* credits of its day.
Uneventful(c) == c.mayFail = FALSE /\ c.midnight = FALSE
GrantedInv(c) ==
  /\ actAt = day => granted = day
  /\ \A d \in Everybody(c) :
       /\ at[d].pc # "idle" => at[d].lastReset = day
       /\ at[d].pc \in {"loaded", "go"} => granted = day

\* As long as the page loads, and the day waits for who is at work, so does this.
LEMMA GrantedStep ==
  ASSUME NEW CONSTANT c, Activation(c)!ActivationAssumption, Uneventful(c), KreaInv(c), GrantedInv(c),
         [Activation(c)!Next]_activationVars
  PROVE  GrantedInv(c)'
<1>1. /\ Activation(c)!Everyone = Everybody(c) /\ c.mayFail = FALSE /\ c.midnight = FALSE
      /\ day \in Nat /\ actAt \in Nat /\ actAt <= day
      /\ at \in [Everybody(c) -> [pc : {"idle", "wait", "load", "loaded", "go"}, lastReset : 0..c.maxDay]]
  BY DEF Activation!ActivationAssumption, Activation!Everyone, Activation!sweep, Everybody, Uneventful,
     KreaInv,
     KreaTypes, PageLocked
<1>2. ASSUME NEW d \in Everybody(c), Activation(c)!Activate(d) PROVE GrantedInv(c)'
  BY <1>1, <1>2 DEF Activation!Activate, Activation!doneToday, GrantedInv
<1>3. ASSUME NEW d \in Everybody(c), Activation(c)!Recheck(d) PROVE GrantedInv(c)'
  BY <1>1, <1>3 DEF Activation!Recheck, Activation!doneToday, GrantedInv
<1>4. ASSUME NEW d \in Everybody(c), Activation(c)!Load(d) PROVE GrantedInv(c)'
  BY <1>1, <1>4 DEF Activation!Load, GrantedInv
<1>5. ASSUME NEW d \in Everybody(c), Activation(c)!Stamp(d) PROVE GrantedInv(c)'
  BY <1>1, <1>5 DEF Activation!Stamp, GrantedInv
<1>6. ASSUME NEW d \in Everybody(c), Activation(c)!Go(d) PROVE GrantedInv(c)'
  BY <1>1, <1>6 DEF Activation!Go, GrantedInv
<1>7. ASSUME Activation(c)!NewDay PROVE GrantedInv(c)'
  BY <1>1, <1>7 DEF Activation!NewDay, GrantedInv
<1>8. CASE UNCHANGED activationVars
  BY <1>8 DEF activationVars, GrantedInv
<1>9. CASE Activation(c)!Next
  BY <1>1, <1>2, <1>3, <1>4, <1>5, <1>6, <1>7, <1>9 DEF Activation!Next, Activation!Proceed
<1> QED
  BY <1>8, <1>9

\* So the page is loaded once a day, and its credits are there for who goes on.
LEMMA KreaImplies ==
  ASSUME NEW CONSTANT c, Activation(c)!ActivationAssumption, KreaInv(c)
  PROVE  /\ Activation(c)!ActivationTypeOK /\ Activation(c)!LoadedOncePerDay
         /\ GrantedInv(c) => Activation(c)!GrantedBeforeUse
<1>1. /\ Activation(c)!Everyone = Everybody(c) /\ Activation(c)!Days = 0..c.maxDay /\ c.maxDay \in Nat
  BY DEF Activation!ActivationAssumption, Activation!Everyone, Activation!sweep, Everybody,
     Activation!Days
<1> QED
  BY <1>1 DEF KreaInv, KreaTypes, LoadsRemembered, GrantedInv, Activation!ActivationTypeOK,
     Activation!LoadedOncePerDay, Activation!GrantedBeforeUse

\* Nobody is at work.
LEMMA GrantedInitially ==
  ASSUME NEW CONSTANT c, Activation(c)!ActivationAssumption, Activation(c)!Init
  PROVE  GrantedInv(c)
BY DEF Activation!Init, Activation!Everyone, Activation!sweep, Everybody, GrantedInv
-----------------------------------------------------------------------------
(* The imports of an account.                                              *)

\* One import after the other, none before the probe of the last has ended; and no pool
\* whose probe takes a failure of the network for a refusal.
InTurn(c) == c.overlap = FALSE /\ "adobe" \notin c.pools

Rows(c) ==
  [there : BOOLEAN, value : {0} \cup c.imports, status : {"none", "pending", "active", "quota", "disabled"},
   dead : BOOLEAN, claimed : BOOLEAN]
Workers(c) ==
  [pc : {"off", "queued", "probing", "claim", "claiming"}, id : {0} \cup c.imports, cred : {0} \cup c.imports,
   answer : {"ok", "empty", "auth", "blip", "none"}, fresh : BOOLEAN]
On(w) == worker[w].pc # "off"
Found(i) == import[i].pc = "found"

ImportTypes(c) ==
  /\ pool \in c.pools
  /\ rows \in [c.imports -> Rows(c)]
  /\ \A id \in c.imports : rows[id].there <=> rows[id].status # "none"
  /\ importProfile \in [c.imports -> {0} \cup c.imports]
  /\ import \in [c.imports -> [pc : {"new", "found", "done"}, id : {0} \cup c.imports]]
  /\ worker \in [c.imports \cup c.reprobes -> Workers(c)]
  /\ paid \in [c.imports -> Nat] /\ importCrashes \in 0..c.maxCrashes
  /\ \A i \in c.imports : Found(i) => import[i].id \in c.imports
  /\ \A w \in c.imports \cup c.reprobes : On(w) => worker[w].id \in c.imports

\* Imports take turns, and but for the pool that is probed again one worker is at work.
Turns(c) ==
  /\ \A i, j \in c.imports : i < j /\ import[j].pc # "new" => import[i].pc = "done"
  /\ pool # "chatgpt" =>
       /\ \A v, w \in c.imports \cup c.reprobes : On(v) /\ On(w) => v = w
       /\ \A i \in c.imports : Found(i) => \A w \in c.imports \cup c.reprobes : ~On(w)

\* A pool that knows the email has one row, which is the one the next import will write.
KnowsEmail == pool \in {"chatgpt", "runway", "krea", "imagine", "oreate"}
OneRow(c) ==
  KnowsEmail => \A id \in c.imports : rows[id].there =>
    /\ \A k \in c.imports : rows[k].there => k = id
    /\ \A i \in c.imports : Found(i) => import[i].id = id

\* Only the worker of a new row pays, for a row nothing was paid for.
PaidOnce(c) ==
  /\ \A id \in c.imports : paid[id] <= 1 /\ (~rows[id].there => paid[id] = 0)
  /\ \A w \in c.imports \cup c.reprobes :
       /\ worker[w].pc \in {"claim", "claiming"} => pool = "oreate" /\ worker[w].fresh
       /\ pool = "oreate" /\ On(w) /\ worker[w].fresh => paid[worker[w].id] = 0

\* Who is refused has the credential of the row.
GoodRows(c) ==
  /\ pool = "chatgpt" => \A id \in c.imports : ~rows[id].dead /\ rows[id].status # "disabled"
  /\ pool # "chatgpt" => \A w \in c.imports \cup c.reprobes :
       On(w) /\ rows[worker[w].id].there => rows[worker[w].id].value = worker[w].cred
  /\ \A w \in c.imports \cup c.reprobes : worker[w].answer = "auth" => worker[w].cred \notin c.good
  /\ \A id \in c.imports : rows[id].value \in c.good /\ rows[id].status # "pending" =>
       ~rows[id].dead /\ rows[id].status # "disabled"

ImportInv(c) == ImportTypes(c) /\ Turns(c) /\ OneRow(c) /\ PaidOnce(c) /\ GoodRows(c)

\* The imports are numbers.
LEMMA ImportNumbers ==
  ASSUME NEW CONSTANT c, Import(c)!ImportAssumption
  PROVE  /\ \A i \in c.imports : i \in Nat /\ i # 0
         /\ c.pools \subseteq Import(c)!AllPools /\ c.good \subseteq c.imports /\ c.maxCrashes \in Nat
         /\ \A i \in c.imports : i \notin c.reprobes
         /\ Import(c)!Ids = c.imports
<1>1. IsFiniteSet(c.imports) /\ c.imports = 1..Cardinality(c.imports)
  BY DEF Import!ImportAssumption, Import!Cardinality, Cardinality, Import!IsFiniteSet, IsFiniteSet
<1>2. Cardinality(c.imports) \in Nat
  BY <1>1, FS_CardinalityType
<1> QED
  BY <1>1, <1>2 DEF Import!ImportAssumption, Import!Ids

\* No import has come.
LEMMA ImportInitially ==
  ASSUME NEW CONSTANT c, Import(c)!ImportAssumption, Import(c)!Init
  PROVE  ImportInv(c)
<1>1. /\ pool \in c.pools
      /\ rows = [id \in c.imports |-> [there |-> FALSE, value |-> 0, status |-> "none", dead |-> FALSE, claimed |-> FALSE]]
      /\ importProfile = [id \in c.imports |-> 0]
      /\ import = [i \in c.imports |-> [pc |-> "new", id |-> 0]]
      /\ worker = [w \in c.imports \cup c.reprobes |->
                     [pc |-> "off", id |-> 0, cred |-> 0, answer |-> "none", fresh |-> FALSE]]
      /\ paid = [id \in c.imports |-> 0] /\ importCrashes = 0 /\ 0 \in 0..c.maxCrashes
  BY ImportNumbers DEF Import!Init, Import!Absent, Import!Off
<1>2. ImportTypes(c)
  BY <1>1 DEF ImportTypes, Rows, Workers, On, Found
<1>3. Turns(c) /\ OneRow(c)
  BY <1>1 DEF Turns, OneRow, On, Found
<1>4. PaidOnce(c) /\ GoodRows(c)
  BY <1>1, ImportNumbers DEF PaidOnce, GoodRows, On
<1> QED
  BY <1>2, <1>3, <1>4 DEF ImportInv

\* What an import and a verdict make of a row.
LEMMA RowsWritten ==
  ASSUME NEW CONSTANT c, Import(c)!ImportAssumption, pool \in c.pools, "adobe" \notin c.pools,
         NEW r \in Rows(c), NEW k \in c.imports
  PROVE  /\ Import(c)!Reimport(r, k) \in Rows(c)
         /\ Import(c)!Reimport(r, k).there = r.there /\ Import(c)!Reimport(r, k).value = k
         /\ Import(c)!Reimport(r, k).status = "pending"
         /\ pool = "chatgpt" => ~Import(c)!Reimport(r, k).dead
         /\ Import(c)!createToken(k) =
              [there |-> TRUE, value |-> k, status |-> "pending", dead |-> FALSE, claimed |-> FALSE]
<1>1. pool \in {"chatgpt", "runway", "leonardo", "krea", "imagine", "grok", "oreate"}
  BY ImportNumbers DEF Import!AllPools
<1>2. CASE pool = "chatgpt"
  BY <1>2 DEF Import!Reimport, Import!ImportChatGPTToken, Import!createToken, Rows
<1>3. CASE pool = "runway"
  BY <1>3 DEF Import!Reimport, Import!ImportRunwayToken, Import!createToken, Rows
<1>4. CASE pool = "leonardo"
  BY <1>4 DEF Import!Reimport, Import!ImportLeonardoCookie, Import!createToken, Rows
<1>5. CASE pool = "krea"
  BY <1>5 DEF Import!Reimport, Import!ImportKreaCookie, Import!createToken, Rows
<1>6. CASE pool = "imagine"
  BY <1>6 DEF Import!Reimport, Import!ImportImagineToken, Import!createToken, Rows
<1>7. CASE pool = "grok"
  BY <1>7 DEF Import!Reimport, Import!ImportGrokToken, Import!createToken, Rows
<1>8. CASE pool = "oreate"
  BY <1>8 DEF Import!Reimport, Import!ImportOreateAccount, Import!createToken, Rows
<1> QED
  BY <1>1, <1>2, <1>3, <1>4, <1>5, <1>6, <1>7, <1>8

\* A verdict disables the row of a bad credential only, unless the network is to blame.
LEMMA Verdicts ==
  ASSUME NEW CONSTANT c, Import(c)!ImportAssumption, pool \in c.pools, "adobe" \notin c.pools,
         NEW a \in {"ok", "empty", "auth", "blip"}
  PROVE  /\ Import(c)!Verdict(a) \in {[status |-> "active", dead |-> FALSE], [status |-> "quota", dead |-> FALSE],
                                      [status |-> "disabled", dead |-> TRUE]}
         /\ a # "auth" \/ pool = "chatgpt" => Import(c)!Verdict(a) # [status |-> "disabled", dead |-> TRUE]
<1>1. pool \in {"chatgpt", "runway", "leonardo", "krea", "imagine", "grok", "oreate"}
  BY ImportNumbers DEF Import!AllPools
<1>2. /\ Import(c)!Active = [status |-> "active", dead |-> FALSE]
      /\ Import(c)!Limited = [status |-> "quota", dead |-> FALSE]
      /\ Import(c)!Dead = [status |-> "disabled", dead |-> TRUE]
  BY DEF Import!Active, Import!Limited, Import!Dead
<1>3. CASE pool = "chatgpt"
  BY <1>2, <1>3 DEF Import!Verdict, Import!checkPendingChatGPT
<1>4. CASE pool = "runway"
  BY <1>2, <1>4 DEF Import!Verdict, Import!checkPendingRunway
<1>5. CASE pool = "leonardo"
  BY <1>2, <1>5 DEF Import!Verdict, Import!checkPendingLeonardo
<1>6. CASE pool = "krea"
  BY <1>2, <1>6 DEF Import!Verdict, Import!checkPendingKrea
<1>7. CASE pool = "imagine"
  BY <1>2, <1>7 DEF Import!Verdict, Import!checkPendingImagine
<1>8. CASE pool = "grok"
  BY <1>2, <1>8 DEF Import!Verdict, Import!checkPendingGrok
<1>9. CASE pool = "oreate"
  BY <1>2, <1>9 DEF Import!Verdict, Import!checkPendingOreate
<1> QED
  BY <1>1, <1>3, <1>4, <1>5, <1>6, <1>7, <1>8, <1>9

\* An import finds the row it will write, and lands it.
LEMMA FindStep ==
  ASSUME NEW CONSTANT c, Import(c)!ImportAssumption, InTurn(c), ImportInv(c), NEW i \in c.imports, Import(c)!Find(i)
  PROVE  ImportInv(c)'
<1>1. ImportTypes(c) /\ Turns(c) /\ OneRow(c) /\ PaidOnce(c) /\ GoodRows(c) /\ Import(c)!Ids = c.imports
  BY ImportNumbers DEF ImportInv
<1>2. PICK id \in Import(c)!GetByPoolEmail(i) : import' = [import EXCEPT ![i] = [pc |-> "found", id |-> IF id = 0 THEN i ELSE id]]
  BY DEF Import!Find
<1>3. /\ import[i].pc = "new" /\ \A j \in c.imports : j < i => import[j].pc = "done"
      /\ \A w \in c.imports \cup c.reprobes : ~On(w)
      /\ UNCHANGED <<pool, rows, importProfile, worker, paid, importCrashes>>
  BY DEF Import!Find, Import!Quiet, InTurn, On
<1>4. PICK k : k = IF id = 0 THEN i ELSE id
  OBVIOUS
<1>5. import' = [import EXCEPT ![i] = [pc |-> "found", id |-> k]]
  BY <1>2, <1>4
<1>6. k \in c.imports /\ (KnowsEmail => \A x \in c.imports : rows[x].there => k = x)
  <2>1. KnowsEmail => \A x, y \in c.imports : rows[x].there /\ rows[y].there => x = y
    BY <1>1 DEF OneRow
  <2>2. Import(c)!There = {x \in c.imports : rows[x].there}
    BY <1>1 DEF Import!There
  <2>3. 0 \notin c.imports
    BY ImportNumbers
  <2> QED
    BY <1>2, <1>4, <2>1, <2>2, <2>3 DEF Import!GetByPoolEmail, KnowsEmail
<1>7. ImportTypes(c)'
  BY <1>1, <1>3, <1>5, <1>6 DEF ImportTypes, Found, On
<1>8. \A j \in c.imports : Found(j)' <=> Found(j) \/ j = i
  BY <1>1, <1>5 DEF ImportTypes, Found
<1>9. \A j \in c.imports : ~Found(j)
  <2> SUFFICES ASSUME NEW j \in c.imports, Found(j) PROVE FALSE
    OBVIOUS
  <2>1. i \in Nat /\ j \in Nat
    BY ImportNumbers
  <2>2. CASE j < i
    BY <1>3, <2>2 DEF Found
  <2>3. CASE i < j
    BY <1>1, <1>3, <2>3 DEF Turns, Found
  <2>4. CASE i = j
    BY <1>3, <2>4 DEF Found
  <2> QED
    BY <2>1, <2>2, <2>3, <2>4
<1>10. Turns(c)'
  <2>1. \A j, l \in c.imports : j < l /\ import'[l].pc # "new" => import'[j].pc = "done"
    <3> SUFFICES ASSUME NEW j \in c.imports, NEW l \in c.imports, j < l, import'[l].pc # "new"
                 PROVE  import'[j].pc = "done"
      OBVIOUS
    <3>0. j \in Nat /\ l \in Nat /\ i \in Nat
      BY ImportNumbers
    <3>1. CASE l = i
      BY <1>1, <1>3, <1>5, <3>0, <3>1 DEF ImportTypes
    <3>2. CASE l # i
      <4>1. import[l].pc # "new" /\ import[j].pc = "done"
        BY <1>1, <1>5, <3>2 DEF ImportTypes, Turns
      <4> QED
        BY <1>1, <1>3, <1>5, <4>1 DEF ImportTypes
    <3> QED
      BY <3>1, <3>2
  <2> QED
    BY <1>1, <1>3, <2>1 DEF Turns, On, Found
<1>11. OneRow(c)'
  <2>1. import'[i].id = k
    BY <1>1, <1>5 DEF ImportTypes
  <2> QED
    BY <1>1, <1>3, <1>6, <1>8, <1>9, <2>1 DEF OneRow, KnowsEmail
<1>12. PaidOnce(c)' /\ GoodRows(c)'
  BY <1>1, <1>3 DEF PaidOnce, GoodRows, On
<1> QED
  BY <1>7, <1>10, <1>11, <1>12 DEF ImportInv

\* An import writes its row and leaves it to a worker.
LEMMA LandStep ==
  ASSUME NEW CONSTANT c, Import(c)!ImportAssumption, InTurn(c), ImportInv(c), NEW i \in c.imports, Import(c)!Land(i)
  PROVE  ImportInv(c)'
<1>1. ImportTypes(c) /\ Turns(c) /\ OneRow(c) /\ PaidOnce(c) /\ GoodRows(c) /\ "adobe" \notin c.pools /\ i \in Nat
  BY ImportNumbers DEF ImportInv, InTurn
<1>2. PICK id : id = import[i].id
  OBVIOUS
<1>3. /\ Found(i) /\ id \in c.imports /\ pool \in c.pools /\ rows[id] \in Rows(c)
  BY <1>1, <1>2 DEF Import!Land, ImportTypes, Found
<1>4. PICK R : R = IF rows[id].there THEN Import(c)!Reimport(rows[id], i) ELSE Import(c)!createToken(i)
  OBVIOUS
<1>5. PICK g : g = [pc |-> "queued", id |-> id, cred |-> i, answer |-> "none", fresh |-> ~rows[id].there]
  OBVIOUS
<1>6. /\ rows' = [rows EXCEPT ![id] = R] /\ importProfile' = importProfile
      /\ worker' = [worker EXCEPT ![i] = g] /\ import' = [import EXCEPT ![i].pc = "done"]
      /\ UNCHANGED <<pool, paid, importCrashes>>
  BY <1>1, <1>2, <1>3, <1>4, <1>5 DEF Import!Land, Import!Fresh
<1>7. /\ R \in Rows(c) /\ R.there = TRUE /\ R.value = i /\ R.status = "pending"
      /\ pool = "chatgpt" => ~R.dead
  <2>1. CASE rows[id].there
    BY <1>1, <1>3, <1>4, <2>1, RowsWritten
  <2>2. CASE ~rows[id].there
    <3>1. R = [there |-> TRUE, value |-> i, status |-> "pending", dead |-> FALSE, claimed |-> FALSE]
      BY <1>1, <1>3, <1>4, <2>2, RowsWritten
    <3> QED
      BY <3>1 DEF Rows
  <2> QED
    BY <2>1, <2>2
<1>8. /\ g \in Workers(c) /\ g.pc = "queued" /\ g.id = id /\ g.cred = i /\ g.answer = "none"
      /\ g.fresh => ~rows[id].there
  BY <1>3, <1>5 DEF Workers, Rows
<1>9. \A w \in c.imports \cup c.reprobes : worker'[w] = IF w = i THEN g ELSE worker[w]
  BY <1>1, <1>6 DEF ImportTypes
<1>10. \A x \in c.imports : rows'[x] = IF x = id THEN R ELSE rows[x]
  BY <1>1, <1>6 DEF ImportTypes
<1>11. \A j \in c.imports : /\ import'[j].pc = IF j = i THEN "done" ELSE import[j].pc
                            /\ import'[j].id = import[j].id
  BY <1>1, <1>6 DEF ImportTypes
<1>12. ImportTypes(c)'
  <2>1. /\ rows' \in [c.imports -> Rows(c)] /\ worker' \in [c.imports \cup c.reprobes -> Workers(c)]
        /\ import' \in [c.imports -> [pc : {"new", "found", "done"}, id : {0} \cup c.imports]]
    <3>1. rows' \in [c.imports -> Rows(c)]
      BY <1>1, <1>6, <1>7 DEF ImportTypes
    <3>2. worker' \in [c.imports \cup c.reprobes -> Workers(c)]
      BY <1>1, <1>6, <1>8 DEF ImportTypes
    <3>3. import' \in [c.imports -> [pc : {"new", "found", "done"}, id : {0} \cup c.imports]]
      BY <1>1, <1>6 DEF ImportTypes
    <3> QED
      BY <3>1, <3>2, <3>3
  <2>2. \A x \in c.imports : rows'[x].there <=> rows'[x].status # "none"
    BY <1>1, <1>7, <1>10 DEF ImportTypes
  <2> QED
    BY <1>1, <1>3, <1>6, <1>8, <1>9, <1>11, <2>1, <2>2 DEF ImportTypes, On, Found
<1>13. Turns(c)'
  <2>1. \A j, l \in c.imports : j < l /\ import'[l].pc # "new" => import'[j].pc = "done"
    BY <1>1, <1>3, <1>11 DEF Turns, Found
  <2>2. \A j \in c.imports : Found(j)' => FALSE
    <3> SUFFICES ASSUME NEW j \in c.imports, Found(j)' PROVE FALSE
      OBVIOUS
    <3>1. j # i /\ Found(j) /\ j \in Nat
      BY <1>11, ImportNumbers DEF Found
    <3> QED
      BY <1>1, <1>3, <3>1 DEF Turns, Found
  <2> QED
    BY <1>1, <1>3, <1>6, <1>9, <2>1, <2>2 DEF Turns, On
<1>14. OneRow(c)'
  <2>1. KnowsEmail => \A x \in c.imports : rows[x].there => x = id
    BY <1>1, <1>2, <1>3 DEF OneRow
  <2>2. \A j \in c.imports : Found(j)' => FALSE
    <3> SUFFICES ASSUME NEW j \in c.imports, Found(j)' PROVE FALSE
      OBVIOUS
    <3>1. j # i /\ Found(j) /\ j \in Nat
      BY <1>11, ImportNumbers DEF Found
    <3> QED
      BY <1>1, <1>3, <3>1 DEF Turns, Found
  <2> QED
    BY <1>6, <1>10, <2>1, <2>2 DEF OneRow, KnowsEmail
<1>15. PaidOnce(c)'
  <2>1. \A x \in c.imports : rows'[x].there \/ ~rows[x].there
    BY <1>7, <1>10
  <2>2. g.fresh => paid[id] = 0
    BY <1>1, <1>3, <1>8 DEF PaidOnce
  <2>3. \A x \in c.imports : paid'[x] <= 1 /\ (~rows'[x].there => paid'[x] = 0)
    BY <1>1, <1>6, <2>1 DEF PaidOnce
  <2> QED
    BY <1>1, <1>6, <1>8, <1>9, <2>2, <2>3 DEF PaidOnce, On
<1>16. GoodRows(c)'
  <2>1. pool # "chatgpt" => \A w \in c.imports \cup c.reprobes : ~On(w)
    BY <1>1, <1>3 DEF Turns
  <2>2. pool = "chatgpt" => \A x \in c.imports : ~rows'[x].dead /\ rows'[x].status # "disabled"
    BY <1>1, <1>7, <1>10 DEF GoodRows
  <2>3. \A x \in c.imports : rows'[x].value \in c.good /\ rows'[x].status # "pending" =>
          ~rows'[x].dead /\ rows'[x].status # "disabled"
    BY <1>1, <1>7, <1>10 DEF GoodRows
  <2>4. pool # "chatgpt" => \A w \in c.imports \cup c.reprobes :
          On(w)' /\ rows'[worker'[w].id].there => rows'[worker'[w].id].value = worker'[w].cred
    BY <1>3, <1>7, <1>8, <1>9, <1>10, <2>1 DEF On
  <2>5. \A w \in c.imports \cup c.reprobes : worker'[w].answer = "auth" => worker'[w].cred \notin c.good
    BY <1>1, <1>8, <1>9 DEF GoodRows
  <2> QED
    BY <1>6, <2>2, <2>3, <2>4, <2>5 DEF GoodRows
<1> QED
  BY <1>12, <1>13, <1>14, <1>15, <1>16 DEF ImportInv

\* A worker goes on without writing the row.
LEMMA WorkerMoves ==
  ASSUME NEW CONSTANT c, Import(c)!ImportAssumption, ImportInv(c), NEW w \in c.imports \cup c.reprobes,
         On(w), NEW g \in Workers(c), worker' = [worker EXCEPT ![w] = g],
         g.pc = "off" \/ (g.id = worker[w].id /\ g.cred = worker[w].cred /\ g.fresh = worker[w].fresh),
         g.pc \in {"claim", "claiming"} => pool = "oreate" /\ g.fresh,
         g.answer = "auth" => g.cred \notin c.good,
         UNCHANGED <<pool, rows, importProfile, import, paid, importCrashes>>
  PROVE  ImportInv(c)'
<1>1. ImportTypes(c) /\ Turns(c) /\ OneRow(c) /\ PaidOnce(c) /\ GoodRows(c)
  BY DEF ImportInv
<1>2. \A v \in c.imports \cup c.reprobes : worker'[v] = IF v = w THEN g ELSE worker[v]
  BY <1>1 DEF ImportTypes
<1>3. \A v \in c.imports \cup c.reprobes : On(v)' => On(v)
  BY <1>2 DEF On
<1>4. ImportTypes(c)'
  <2>1. \A v \in c.imports \cup c.reprobes : On(v)' => worker'[v].id \in c.imports
    BY <1>1, <1>2, <1>3 DEF ImportTypes, On
  <2> QED
    BY <1>1, <2>1 DEF ImportTypes, Found
<1>5. Turns(c)' /\ OneRow(c)'
  BY <1>1, <1>3 DEF Turns, OneRow, Found, KnowsEmail
<1>6. PaidOnce(c)'
  BY <1>1, <1>2, <1>3 DEF PaidOnce, On
<1>7. GoodRows(c)'
  BY <1>1, <1>2, <1>3 DEF GoodRows, On
<1> QED
  BY <1>4, <1>5, <1>6, <1>7 DEF ImportInv

\* A worker starts its probe, or has an answer.
LEMMA WorkStep ==
  ASSUME NEW CONSTANT c, Import(c)!ImportAssumption, InTurn(c), ImportInv(c), NEW w \in c.imports \cup c.reprobes,
         Import(c)!Acquire(w) \/ Import(c)!Probe(w)
  PROVE  ImportInv(c)'
<1>1. ImportTypes(c) /\ PaidOnce(c) /\ GoodRows(c) /\ "adobe" \notin c.pools /\ worker[w] \in Workers(c)
  BY DEF ImportInv, InTurn, ImportTypes
<1>2. CASE Import(c)!Acquire(w)
  <2>1. PICK s : s = IF worker[w].pc = "queued" THEN "probing" ELSE "claiming"
    OBVIOUS
  <2>2. PICK g : g = [worker[w] EXCEPT !.pc = s]
    OBVIOUS
  <2>3. /\ worker[w].pc \in {"queued", "claim"} /\ worker' = [worker EXCEPT ![w].pc = s]
        /\ UNCHANGED <<pool, rows, importProfile, import, paid, importCrashes>>
    BY <1>2, <2>1 DEF Import!Acquire
  <2>4. worker' = [worker EXCEPT ![w] = g]
    BY <1>1, <2>2, <2>3 DEF ImportTypes
  <2>5. /\ g \in Workers(c) /\ g.pc = s /\ g.id = worker[w].id /\ g.cred = worker[w].cred /\ g.fresh = worker[w].fresh
        /\ g.answer = worker[w].answer
    BY <1>1, <2>1, <2>2 DEF Workers
  <2>6. g.pc \in {"claim", "claiming"} => pool = "oreate" /\ g.fresh
    BY <1>1, <2>1, <2>3, <2>5 DEF PaidOnce
  <2>7. On(w)
    BY <2>3 DEF On
  <2>8. g.answer = "auth" => g.cred \notin c.good
    BY <1>1, <2>5 DEF GoodRows
  <2> QED
    BY <2>3, <2>4, <2>5, <2>6, <2>7, <2>8, WorkerMoves
<1>3. CASE Import(c)!Probe(w)
  <2>1. PICK a \in {"ok", "empty", "auth", "blip"} :
          (a = "auth" => worker[w].cred \notin c.good) /\ worker' = [worker EXCEPT ![w].answer = a] /\ rows' = rows
    BY <1>1, <1>3 DEF Import!Probe, Import!Answers, ImportTypes
  <2>2. PICK g : g = [worker[w] EXCEPT !.answer = a]
    OBVIOUS
  <2>3. worker[w].pc = "probing" /\ UNCHANGED <<pool, rows, importProfile, import, paid, importCrashes>>
    BY <1>3, <2>1 DEF Import!Probe
  <2>4. worker' = [worker EXCEPT ![w] = g]
    BY <1>1, <2>1, <2>2 DEF ImportTypes
  <2>5. /\ g \in Workers(c) /\ g.pc = worker[w].pc /\ g.id = worker[w].id /\ g.cred = worker[w].cred
        /\ g.fresh = worker[w].fresh /\ g.answer = a
    BY <1>1, <2>1, <2>2 DEF Workers
  <2>6. g.pc \notin {"claim", "claiming"} /\ On(w)
    BY <2>3, <2>5 DEF On
  <2>7. g.answer = "auth" => g.cred \notin c.good
    BY <2>1, <2>5
  <2> QED
    BY <2>3, <2>4, <2>5, <2>6, <2>7, WorkerMoves
<1> QED
  BY <1>2, <1>3

\* The sweep probes a pending row again: only of the pool that never disables.
LEMMA ReprobeStep ==
  ASSUME NEW CONSTANT c, Import(c)!ImportAssumption, InTurn(c), ImportInv(c), NEW w \in c.imports \cup c.reprobes,
         Import(c)!Reprobe(w)
  PROVE  ImportInv(c)'
<1>1. ImportTypes(c) /\ Turns(c) /\ OneRow(c) /\ PaidOnce(c) /\ GoodRows(c) /\ "adobe" \notin c.pools
      /\ Import(c)!Ids = c.imports
  BY ImportNumbers DEF ImportInv, InTurn
<1>2. PICK id \in c.imports :
        /\ pool = "chatgpt"
        /\ worker' = [worker EXCEPT ![w] = [pc |-> "queued", id |-> id, cred |-> rows[id].value,
                                            answer |-> "none", fresh |-> FALSE]]
  <2>1. pool # "adobe"
    BY <1>1 DEF ImportTypes
  <2>2. PICK id \in c.imports :
          /\ Import(c)!ReprobeStalePendingChatGPT(id) \/ Import(c)!ReprobeStalePendingAdobe(id)
          /\ worker' = [worker EXCEPT ![w] = [pc |-> "queued", id |-> id,
                                              cred |-> IF pool = "adobe" THEN importProfile[id] ELSE rows[id].value,
                                              answer |-> "none", fresh |-> FALSE]]
    BY <1>1 DEF Import!Reprobe
  <2>3. pool = "chatgpt"
    BY <2>1, <2>2 DEF Import!ReprobeStalePendingChatGPT, Import!ReprobeStalePendingAdobe
  <2>4. worker' = [worker EXCEPT ![w] = [pc |-> "queued", id |-> id, cred |-> rows[id].value,
                                        answer |-> "none", fresh |-> FALSE]]
    BY <2>1, <2>2
  <2> QED
    BY <2>3, <2>4
<1>3. UNCHANGED <<pool, rows, importProfile, import, paid, importCrashes>>
  BY DEF Import!Reprobe
<1>4. PICK g : g = [pc |-> "queued", id |-> id, cred |-> rows[id].value, answer |-> "none", fresh |-> FALSE]
  OBVIOUS
<1>5. g \in Workers(c) /\ g.pc = "queued" /\ g.id = id /\ g.answer = "none" /\ ~g.fresh
  BY <1>1, <1>4 DEF Workers, ImportTypes, Rows
<1>6. \A v \in c.imports \cup c.reprobes : worker'[v] = IF v = w THEN g ELSE worker[v]
  BY <1>1, <1>2, <1>4 DEF ImportTypes
<1>7. ImportTypes(c)'
  <2>1. worker' \in [c.imports \cup c.reprobes -> Workers(c)]
    BY <1>1, <1>2, <1>4, <1>5 DEF ImportTypes
  <2> QED
    BY <1>1, <1>3, <1>5, <1>6, <2>1 DEF ImportTypes, On, Found
<1>8. Turns(c)' /\ OneRow(c)'
  BY <1>1, <1>2, <1>3 DEF Turns, OneRow, Found, KnowsEmail
<1>9. PaidOnce(c)' /\ GoodRows(c)'
  BY <1>1, <1>2, <1>3, <1>5, <1>6 DEF PaidOnce, GoodRows, On
<1> QED
  BY <1>7, <1>8, <1>9 DEF ImportInv

\* A worker's verdict is on the row.
LEMMA FinishStep ==
  ASSUME NEW CONSTANT c, Import(c)!ImportAssumption, InTurn(c), ImportInv(c), NEW w \in c.imports \cup c.reprobes,
         Import(c)!Finish(w)
  PROVE  ImportInv(c)'
<1>1. /\ ImportTypes(c) /\ Turns(c) /\ OneRow(c) /\ PaidOnce(c) /\ GoodRows(c) /\ "adobe" \notin c.pools
      /\ worker[w] \in Workers(c) /\ pool \in c.pools
  BY DEF ImportInv, InTurn, ImportTypes
<1>2. PICK id : id = worker[w].id
  OBVIOUS
<1>3. PICK a : a = worker[w].answer
  OBVIOUS
<1>4. /\ On(w) /\ worker[w].pc = "probing" /\ id \in c.imports /\ a \in {"ok", "empty", "auth", "blip"}
      /\ rows[id] \in Rows(c) /\ UNCHANGED <<pool, importProfile, import, paid, importCrashes>>
  BY <1>1, <1>2, <1>3 DEF Import!Finish, ImportTypes, On, Workers
<1>5. PICK v : v = Import(c)!Verdict(a)
  OBVIOUS
<1>6. /\ v \in {[status |-> "active", dead |-> FALSE], [status |-> "quota", dead |-> FALSE],
                [status |-> "disabled", dead |-> TRUE]}
      /\ a # "auth" \/ pool = "chatgpt" => v # [status |-> "disabled", dead |-> TRUE]
  BY <1>1, <1>4, <1>5, Verdicts
<1>7. PICK R : R = IF rows[id].there THEN [rows[id] EXCEPT !.status = v.status, !.dead = v.dead] ELSE rows[id]
  OBVIOUS
<1>8. PICK g : g = IF pool = "oreate" /\ worker[w].fresh /\ a # "auth" THEN [worker[w] EXCEPT !.pc = "claim"]
                   ELSE [pc |-> "off", id |-> 0, cred |-> 0, answer |-> "none", fresh |-> FALSE]
  OBVIOUS
<1>9. rows' = [rows EXCEPT ![id] = R] /\ worker' = [worker EXCEPT ![w] = g]
  BY <1>1, <1>2, <1>3, <1>5, <1>7, <1>8 DEF Import!Finish, Import!finishPending, Import!Off, ImportTypes
<1>10. /\ R \in Rows(c) /\ R.there = rows[id].there /\ R.value = rows[id].value
       /\ R.there => R.status = v.status /\ R.dead = v.dead
       /\ ~R.there => R = rows[id]
  <2>1. v.status \in {"active", "quota", "disabled"} /\ v.dead \in BOOLEAN
    <3>1. CASE v = [status |-> "active", dead |-> FALSE]
      BY <3>1
    <3>2. CASE v = [status |-> "quota", dead |-> FALSE]
      BY <3>2
    <3>3. CASE v = [status |-> "disabled", dead |-> TRUE]
      BY <3>3
    <3> QED
      BY <1>6, <3>1, <3>2, <3>3
  <2>2. CASE ~rows[id].there
    BY <1>4, <1>7, <2>2
  <2>3. CASE rows[id].there
    <3>1. PICK s, d : s = v.status /\ d = v.dead
      OBVIOUS
    <3>2. R = [rows[id] EXCEPT !.status = s, !.dead = d] /\ s \in {"active", "quota", "disabled"} /\ d \in BOOLEAN
      BY <1>7, <2>1, <2>3, <3>1
    <3>3. R \in Rows(c) /\ R.there = rows[id].there /\ R.value = rows[id].value /\ R.status = s /\ R.dead = d
      BY <1>4, <3>2 DEF Rows
    <3> QED
      BY <2>3, <3>1, <3>3
  <2> QED
    BY <2>2, <2>3
<1>11. /\ g \in Workers(c) /\ g.pc \in {"claim", "off"}
       /\ g.pc = "off" \/ (g.id = worker[w].id /\ g.cred = worker[w].cred /\ g.fresh = worker[w].fresh
                           /\ g.answer = worker[w].answer)
       /\ g.pc = "claim" => pool = "oreate" /\ g.fresh
       /\ g.answer = "auth" => g.pc = "claim"
  BY <1>1, <1>8 DEF Workers
<1>12. \A x \in c.imports \cup c.reprobes : worker'[x] = IF x = w THEN g ELSE worker[x]
  BY <1>1, <1>9 DEF ImportTypes
<1>13. \A x \in c.imports : rows'[x] = IF x = id THEN R ELSE rows[x]
  BY <1>1, <1>9 DEF ImportTypes
<1>14. \A x \in c.imports \cup c.reprobes : On(x)' => On(x)
  BY <1>4, <1>12 DEF On
<1>15. \A x \in c.imports : rows'[x].there = rows[x].there /\ rows'[x].value = rows[x].value
  BY <1>10, <1>13
<1>16. v.status \in {"active", "quota", "disabled"}
  BY <1>6
<1>17. ImportTypes(c)'
  <2>1. rows' \in [c.imports -> Rows(c)] /\ worker' \in [c.imports \cup c.reprobes -> Workers(c)]
    BY <1>1, <1>9, <1>10, <1>11 DEF ImportTypes
  <2>2. \A x \in c.imports : rows'[x].there <=> rows'[x].status # "none"
    BY <1>1, <1>10, <1>13, <1>16 DEF ImportTypes
  <2>3. \A x \in c.imports \cup c.reprobes : On(x)' => worker'[x].id \in c.imports
    BY <1>1, <1>11, <1>12, <1>14 DEF ImportTypes, On
  <2> QED
    BY <1>1, <1>4, <2>1, <2>2, <2>3 DEF ImportTypes, Found
<1>18. Turns(c)' /\ OneRow(c)'
  BY <1>1, <1>4, <1>14, <1>15 DEF Turns, OneRow, Found, KnowsEmail
<1>19. PaidOnce(c)'
  BY <1>1, <1>2, <1>4, <1>11, <1>12, <1>14, <1>15 DEF PaidOnce, On
<1>20. GoodRows(c)'
  <2>1. \A x \in c.imports \cup c.reprobes : worker'[x].answer = "auth" => worker'[x].cred \notin c.good
    BY <1>1, <1>11, <1>12 DEF GoodRows
  <2>2. pool # "chatgpt" => \A x \in c.imports \cup c.reprobes :
          On(x)' /\ rows'[worker'[x].id].there => rows'[worker'[x].id].value = worker'[x].cred
    <3> SUFFICES ASSUME pool # "chatgpt", NEW x \in c.imports \cup c.reprobes, On(x)', rows'[worker'[x].id].there
                 PROVE  rows'[worker'[x].id].value = worker'[x].cred
      OBVIOUS
    <3>1. On(x) /\ worker'[x].id = worker[x].id /\ worker'[x].cred = worker[x].cred /\ worker[x].id \in c.imports
      BY <1>1, <1>11, <1>12, <1>14 DEF On, ImportTypes
    <3> QED
      BY <1>1, <1>15, <3>1 DEF GoodRows
  <2>3. v.status = "disabled" \/ v.dead => a = "auth" /\ pool # "chatgpt"
    BY <1>6
  <2>4. a = "auth" /\ pool # "chatgpt" /\ rows[id].there => rows[id].value \notin c.good
    BY <1>1, <1>2, <1>3, <1>4 DEF GoodRows
  <2>5. pool = "chatgpt" => \A x \in c.imports : ~rows'[x].dead /\ rows'[x].status # "disabled"
    BY <1>1, <1>4, <1>10, <1>13, <2>3 DEF GoodRows
  <2>6. \A x \in c.imports : rows'[x].value \in c.good /\ rows'[x].status # "pending" =>
          ~rows'[x].dead /\ rows'[x].status # "disabled"
    BY <1>1, <1>4, <1>10, <1>13, <2>3, <2>4 DEF GoodRows
  <2> QED
    BY <1>4, <2>1, <2>2, <2>5, <2>6 DEF GoodRows
<1> QED
  BY <1>17, <1>18, <1>19, <1>20 DEF ImportInv

\* The first image is paid for by the only worker, for a row nothing was paid for.
LEMMA ClaimStep ==
  ASSUME NEW CONSTANT c, Import(c)!ImportAssumption, InTurn(c), ImportInv(c), NEW w \in c.imports \cup c.reprobes,
         Import(c)!Claim(w)
  PROVE  ImportInv(c)'
<1>1. /\ ImportTypes(c) /\ Turns(c) /\ OneRow(c) /\ PaidOnce(c) /\ GoodRows(c)
  BY DEF ImportInv
<1>2. PICK id : id = worker[w].id
  OBVIOUS
<1>3. PICK go \in BOOLEAN : go = (rows[id].there /\ ~rows[id].dead /\ ~rows[id].claimed)
  OBVIOUS
<1>4. PICK g : g = [pc |-> "off", id |-> 0, cred |-> 0, answer |-> "none", fresh |-> FALSE]
  OBVIOUS
<1>5. /\ worker[w].pc = "claiming" /\ On(w) /\ id \in c.imports /\ pool = "oreate" /\ worker[w].fresh
      /\ paid[id] = 0 /\ rows[id] \in Rows(c) /\ g \in Workers(c) /\ g.pc = "off" /\ g.answer = "none"
  BY <1>1, <1>2, <1>4 DEF Import!Claim, On, ImportTypes, PaidOnce, Workers
<1>6. /\ rows' = IF go THEN [rows EXCEPT ![id].claimed = TRUE] ELSE rows
      /\ paid' = IF go THEN [paid EXCEPT ![id] = @ + 1] ELSE paid
      /\ worker' = [worker EXCEPT ![w] = g] /\ UNCHANGED <<pool, importProfile, import, importCrashes>>
  BY <1>2, <1>3, <1>4 DEF Import!Claim, Import!Off
<1>7. \A x \in c.imports \cup c.reprobes : x # w => ~On(x)
  BY <1>1, <1>5 DEF Turns
<1>8. \A x \in c.imports \cup c.reprobes : worker'[x] = IF x = w THEN g ELSE worker[x]
  BY <1>1, <1>6 DEF ImportTypes
<1>9. \A x \in c.imports \cup c.reprobes : ~On(x)'
  BY <1>5, <1>7, <1>8 DEF On
<1>10. rows' \in [c.imports -> Rows(c)]
  BY <1>1, <1>5, <1>6 DEF ImportTypes, Rows
<1>11. \A x \in c.imports : /\ rows'[x].there = rows[x].there /\ rows'[x].value = rows[x].value
                            /\ rows'[x].status = rows[x].status /\ rows'[x].dead = rows[x].dead
  BY <1>1, <1>5, <1>6 DEF ImportTypes, Rows
<1>12. \A x \in c.imports : paid'[x] \in Nat /\ paid'[x] <= 1 /\ (~rows[x].there => paid'[x] = 0)
  <2>1. \A x \in c.imports : paid[x] \in Nat /\ paid[x] <= 1 /\ (~rows[x].there => paid[x] = 0)
    BY <1>1 DEF ImportTypes, PaidOnce
  <2>2. CASE go
    <3>1. \A x \in c.imports : paid'[x] = IF x = id THEN 1 ELSE paid[x]
      BY <1>1, <1>5, <1>6, <2>2 DEF ImportTypes
    <3>2. rows[id].there
      BY <1>3, <2>2
    <3> QED
      BY <2>1, <3>1, <3>2
  <2>3. CASE ~go
    BY <1>6, <2>1, <2>3
  <2> QED
    BY <2>2, <2>3
<1>13. ImportTypes(c)'
  <2>1. paid' \in [c.imports -> Nat]
    BY <1>1, <1>5, <1>6 DEF ImportTypes
  <2>2. worker' \in [c.imports \cup c.reprobes -> Workers(c)]
    BY <1>1, <1>5, <1>6 DEF ImportTypes
  <2> QED
    BY <1>1, <1>6, <1>9, <1>10, <1>11, <2>1, <2>2 DEF ImportTypes, Found
<1>14. Turns(c)' /\ OneRow(c)'
  BY <1>1, <1>6, <1>9, <1>11 DEF Turns, OneRow, Found, KnowsEmail
<1>15. PaidOnce(c)' /\ GoodRows(c)'
  BY <1>1, <1>5, <1>6, <1>8, <1>9, <1>11, <1>12 DEF PaidOnce, GoodRows, On
<1> QED
  BY <1>13, <1>14, <1>15 DEF ImportInv

\* An admin deletes a row.
LEMMA DeleteStep ==
  ASSUME NEW CONSTANT c, Import(c)!ImportAssumption, ImportInv(c), NEW id \in c.imports, Import(c)!Delete(id)
  PROVE  ImportInv(c)'
<1>1. /\ ImportTypes(c) /\ Turns(c) /\ OneRow(c) /\ PaidOnce(c) /\ GoodRows(c) /\ 0 \notin c.good
  BY ImportNumbers DEF ImportInv
<1>2. PICK R : R = [there |-> FALSE, value |-> 0, status |-> "none", dead |-> FALSE, claimed |-> FALSE]
  OBVIOUS
<1>3. /\ rows' = [rows EXCEPT ![id] = R] /\ importProfile' = [importProfile EXCEPT ![id] = 0]
      /\ paid' = [paid EXCEPT ![id] = 0] /\ UNCHANGED <<pool, import, worker, importCrashes>>
  BY <1>2 DEF Import!Delete, Import!Absent
<1>4. /\ R \in Rows(c) /\ R.there = FALSE /\ R.value = 0 /\ R.status = "none" /\ R.dead = FALSE
  BY <1>2 DEF Rows
<1>5. \A x \in c.imports : rows'[x] = (IF x = id THEN R ELSE rows[x]) /\ paid'[x] = IF x = id THEN 0 ELSE paid[x]
  BY <1>1, <1>3 DEF ImportTypes
<1>6. \A x \in c.imports : rows'[x].there => rows[x].there
  BY <1>4, <1>5
<1>7. ImportTypes(c)'
  <2>1. /\ rows' \in [c.imports -> Rows(c)] /\ paid' \in [c.imports -> Nat]
        /\ importProfile' \in [c.imports -> {0} \cup c.imports]
    BY <1>1, <1>3, <1>4 DEF ImportTypes
  <2>2. \A x \in c.imports : rows'[x].there <=> rows'[x].status # "none"
    BY <1>1, <1>4, <1>5 DEF ImportTypes
  <2> QED
    BY <1>1, <1>3, <2>1, <2>2 DEF ImportTypes, On, Found
<1>8. Turns(c)' /\ OneRow(c)'
  BY <1>1, <1>3, <1>6 DEF Turns, OneRow, On, Found, KnowsEmail
<1>9. PaidOnce(c)'
  <2>1. \A w \in c.imports \cup c.reprobes : On(w) => worker[w].id \in c.imports
    BY <1>1 DEF ImportTypes
  <2>2. \A x \in c.imports : paid'[x] <= 1 /\ (~rows'[x].there => paid'[x] = 0)
    BY <1>1, <1>5 DEF PaidOnce
  <2> QED
    BY <1>1, <1>3, <1>5, <2>1, <2>2 DEF PaidOnce, On
<1>10. GoodRows(c)'
  <2>1. \A w \in c.imports \cup c.reprobes : On(w) => worker[w].id \in c.imports
    BY <1>1 DEF ImportTypes
  <2> QED
    BY <1>1, <1>3, <1>4, <1>5, <2>1 DEF GoodRows, On
<1> QED
  BY <1>7, <1>8, <1>9, <1>10 DEF ImportInv

\* A restart takes the workers and the imports, and leaves the rows.
LEMMA CrashStep ==
  ASSUME NEW CONSTANT c, Import(c)!ImportAssumption, ImportInv(c), Import(c)!Crash
  PROVE  ImportInv(c)'
<1>1. /\ ImportTypes(c) /\ Turns(c) /\ OneRow(c) /\ PaidOnce(c) /\ GoodRows(c) /\ c.maxCrashes \in Nat
  BY ImportNumbers DEF ImportInv
<1>2. /\ importCrashes < c.maxCrashes /\ importCrashes' = importCrashes + 1
      /\ worker' = [w \in c.imports \cup c.reprobes |->
                      [pc |-> "off", id |-> 0, cred |-> 0, answer |-> "none", fresh |-> FALSE]]
      /\ import' = [i \in c.imports |-> IF import[i].pc = "found" THEN [import[i] EXCEPT !.pc = "done"] ELSE import[i]]
      /\ UNCHANGED <<pool, rows, importProfile, paid>>
  BY DEF Import!Crash, Import!Off
<1>3. \A i \in c.imports : /\ import'[i].pc = IF import[i].pc = "found" THEN "done" ELSE import[i].pc
                           /\ ~Found(i)'
  BY <1>1, <1>2 DEF ImportTypes, Found
<1>4. \A w \in c.imports \cup c.reprobes : ~On(w)' /\ worker'[w].answer = "none" /\ worker'[w].pc = "off"
  BY <1>2 DEF On
<1>5. ImportTypes(c)'
  <2>1. worker' \in [c.imports \cup c.reprobes -> Workers(c)]
    BY <1>2 DEF Workers
  <2>2. import' \in [c.imports -> [pc : {"new", "found", "done"}, id : {0} \cup c.imports]]
    BY <1>1, <1>2 DEF ImportTypes
  <2>3. importCrashes' \in 0..c.maxCrashes
    BY <1>1, <1>2 DEF ImportTypes
  <2> QED
    BY <1>1, <1>2, <1>3, <1>4, <2>1, <2>2, <2>3 DEF ImportTypes
<1>6. Turns(c)' /\ OneRow(c)'
  BY <1>1, <1>2, <1>3, <1>4 DEF Turns, OneRow, KnowsEmail
<1>7. PaidOnce(c)' /\ GoodRows(c)'
  BY <1>1, <1>2, <1>4 DEF PaidOnce, GoodRows
<1> QED
  BY <1>5, <1>6, <1>7 DEF ImportInv

\* Every step of the imports and the workers leaves the invariant.
LEMMA ImportStep ==
  ASSUME NEW CONSTANT c, Import(c)!ImportAssumption, InTurn(c), ImportInv(c), [Import(c)!Next]_importVars
  PROVE  ImportInv(c)'
<1>1. CASE UNCHANGED importVars
  BY <1>1 DEF importVars, ImportInv, ImportTypes, Turns, OneRow, PaidOnce, GoodRows, On, Found,
     KnowsEmail
<1>2. CASE Import(c)!Next
  BY <1>2, ImportNumbers, FindStep, LandStep, WorkStep, FinishStep, ClaimStep, ReprobeStep, DeleteStep,
     CrashStep
     DEF Import!Next, Import!Work
<1> QED
  BY <1>1, <1>2

\* So an email has one row, its first image is paid for once, and a good credential is not sidelined.
LEMMA ImportImplies ==
  ASSUME NEW CONSTANT c, Import(c)!ImportAssumption, ImportInv(c)
  PROVE  /\ Import(c)!ImportTypeOK /\ Import(c)!FirstImageOnce
         /\ Import(c)!OneRowPerEmail /\ Import(c)!GoodNotSidelined
<1>1. /\ ImportTypes(c) /\ OneRow(c) /\ PaidOnce(c) /\ GoodRows(c) /\ Import(c)!Ids = c.imports
      /\ \A S : Import(c)!Cardinality(S) = Cardinality(S)
  BY ImportNumbers DEF ImportInv, Import!Cardinality, Cardinality
<1>2. Import(c)!ImportTypeOK /\ Import(c)!FirstImageOnce
  BY <1>1 DEF ImportTypes, PaidOnce, Rows, Workers, Import!ImportTypeOK, Import!FirstImageOnce,
     Import!Answers
<1>3. Import(c)!There = {id \in c.imports : rows[id].there}
  BY <1>1 DEF Import!There
<1>4. Import(c)!GoodNotSidelined
  BY <1>1, <1>3 DEF GoodRows, Import!GoodNotSidelined
<1>5. Import(c)!OneRowPerEmail
  <2>1. CASE Import(c)!There = {}
    BY <1>1, <2>1, FS_EmptySet DEF Import!OneRowPerEmail
  <2>2. ASSUME KnowsEmail, Import(c)!There # {} PROVE Cardinality(Import(c)!There) <= 1
    <3>1. PICK x \in c.imports : rows[x].there
      BY <1>3, <2>2
    <3>2. Import(c)!There = {x}
      BY <1>1, <1>3, <2>2, <3>1 DEF OneRow
    <3>3. Cardinality({x}) = 1
      BY FS_Singleton
    <3> QED
      BY <3>2, <3>3
  <2> QED
    BY <1>1, <2>1, <2>2 DEF Import!OneRowPerEmail, KnowsEmail
<1> QED
  BY <1>2, <1>4, <1>5
-----------------------------------------------------------------------------
(* The cookie of an adobe account.                                         *)

Refreshers(c) == c.sweeps \cup c.admins
CookieTypes(c) ==
  /\ adobeRow \in [there : BOOLEAN, status : {"active", "pending", "disabled"}, dead : BOOLEAN]
  /\ profile \in [there : BOOLEAN, cookie : 1..c.maxCookies, failures : 0..4, enabled : BOOLEAN, due : BOOLEAN]
  /\ cookies \in 1..c.maxCookies /\ live \subseteq 1..cookies
  /\ caller \in [Refreshers(c) -> [pc : {"idle", "due", "read", "failed", "kill", "minted", "stamp"},
                                   cookie : 0..c.maxCookies, failures : 0..4]]
  /\ streak \in 0..4 /\ killed \in -1..4 /\ blips \in 0..c.maxBlips

\* Who is about to kill has counted to three.
KillersCounted(c) == \A d \in Refreshers(c) : caller[d].pc = "kill" => caller[d].failures >= 3

\* Nobody has counted yet.
LEMMA CookieInitially ==
  ASSUME NEW CONSTANT c, Cookie(c)!CookieAssumption, Cookie(c)!Init
  PROVE  CookieTypes(c) /\ KillersCounted(c)
<1>1. c.maxCookies \in Nat \ {0} /\ c.maxBlips \in Nat
  BY DEF Cookie!CookieAssumption
<1>2. /\ 0 \in 0..4 /\ -1 \in -1..4 /\ 0 \in 0..c.maxBlips /\ 0 \in 0..c.maxCookies /\ 1 \in 1..c.maxCookies
  BY <1>1
<1>3. CookieTypes(c)
  BY <1>2 DEF Cookie!Init, Cookie!Idle, Cookie!Callers, Refreshers, CookieTypes
<1> QED
  BY <1>3 DEF Cookie!Init, Cookie!Idle, Cookie!Callers, Refreshers, KillersCounted

\* One caller moves, and the types hold.
LEMMA CookieTypesStep ==
  ASSUME NEW CONSTANT c, Cookie(c)!CookieAssumption, CookieTypes(c), KillersCounted(c), [Cookie(c)!Next]_cookieVars
  PROVE  CookieTypes(c)' /\ KillersCounted(c)'
<1>1. /\ c.maxCookies \in Nat \ {0} /\ c.maxBlips \in Nat /\ Cookie(c)!Callers = Refreshers(c)
      /\ -1 \in Int /\ cookies \in Nat
  BY DEF Cookie!CookieAssumption, Cookie!Callers, Refreshers, CookieTypes
<1> DEFINE T == [pc : {"idle", "due", "read", "failed", "kill", "minted", "stamp"}, cookie : 0..c.maxCookies, failures : 0..4]
<1>2. \A n \in 0..4 : Cookie(c)!Plus(n) \in 0..4
  BY DEF Cookie!Plus, Cookie!Cap
<1>3. [pc |-> "idle", cookie |-> 0, failures |-> 0] \in T
  BY <1>1
<1>4. ASSUME NEW d \in Refreshers(c)
      PROVE  caller[d] \in T /\ (caller[d].pc = "kill" => caller[d].failures >= 3)
  BY DEF CookieTypes, KillersCounted
\* Only the caller's own entry changes.
<1>5. ASSUME NEW d \in Refreshers(c), NEW g \in T, g.pc = "kill" => g.failures >= 3, caller' = [caller EXCEPT ![d] = g]
      PROVE  caller' \in [Refreshers(c) -> T] /\ KillersCounted(c)'
  BY <1>5 DEF CookieTypes, KillersCounted
<1>6. ASSUME NEW d \in Refreshers(c), Cookie(c)!RefreshDue(d) \/ Cookie(c)!RefreshButton(d)
      PROVE  CookieTypes(c)' /\ KillersCounted(c)'
  <2>1. PICK g : g = [caller[d] EXCEPT !.pc = "due"] /\ caller' = [caller EXCEPT ![d] = g]
    BY <1>6 DEF Cookie!RefreshDue, Cookie!RefreshButton, CookieTypes
  <2>2. g \in T /\ g.pc # "kill"
    BY <1>4, <2>1
  <2> QED
    BY <1>5, <1>6, <2>1, <2>2 DEF Cookie!RefreshDue, Cookie!RefreshButton, CookieTypes
<1>7. ASSUME NEW d \in Refreshers(c), Cookie(c)!Read(d) PROVE CookieTypes(c)' /\ KillersCounted(c)'
  <2>1. PICK g : /\ g \in {[pc |-> "read", cookie |-> profile.cookie, failures |-> profile.failures],
                           [pc |-> "idle", cookie |-> 0, failures |-> 0]}
                 /\ caller' = [caller EXCEPT ![d] = g]
    BY <1>7 DEF Cookie!Read, Cookie!Idle
  <2>2. profile.cookie \in 0..c.maxCookies /\ profile.failures \in 0..4
    BY <1>1 DEF CookieTypes
  <2>3. g \in T /\ g.pc # "kill"
    BY <1>3, <2>1, <2>2
  <2> QED
    BY <1>5, <1>7, <2>1, <2>3 DEF Cookie!Read, CookieTypes
<1>8. ASSUME NEW d \in Refreshers(c), Cookie(c)!Exchanged(d) PROVE CookieTypes(c)' /\ KillersCounted(c)'
  <2>1. PICK g : g = [caller[d] EXCEPT !.pc = "minted"] /\ caller' = [caller EXCEPT ![d] = g]
    BY <1>8 DEF Cookie!Exchanged, CookieTypes
  <2>2. g \in T /\ g.pc # "kill" /\ 0 \in 0..4
    BY <1>4, <2>1
  <2> QED
    BY <1>5, <1>8, <2>1, <2>2 DEF Cookie!Exchanged, CookieTypes
<1>9. ASSUME NEW d \in Refreshers(c), Cookie(c)!ExchangeFails(d) PROVE CookieTypes(c)' /\ KillersCounted(c)'
  <2>1. PICK n : n = Cookie(c)!Plus(caller[d].failures)
    OBVIOUS
  <2>2. n \in 0..4
    BY <1>2, <1>4, <2>1
  <2>3. PICK g : g = [caller[d] EXCEPT !.pc = "failed", !.failures = n] /\ caller' = [caller EXCEPT ![d] = g]
    BY <1>9, <2>1 DEF Cookie!ExchangeFails, CookieTypes
  <2>4. g \in T /\ g.pc # "kill"
    BY <1>4, <2>2, <2>3
  <2>5. streak' \in 0..4
    BY <1>2, <1>9 DEF Cookie!ExchangeFails, CookieTypes
  <2>6. blips' \in 0..c.maxBlips /\ UNCHANGED <<adobeRow, profile, cookies, live, killed>>
    BY <1>1, <1>9 DEF Cookie!ExchangeFails, CookieTypes
  <2> QED
    BY <1>5, <2>3, <2>4, <2>5, <2>6 DEF CookieTypes
<1>10. ASSUME NEW d \in Refreshers(c), Cookie(c)!PutOff(d) PROVE CookieTypes(c)' /\ KillersCounted(c)'
  <2>1. PICK g : /\ g = IF caller[d].failures >= 3 THEN [caller[d] EXCEPT !.pc = "kill"]
                        ELSE [pc |-> "idle", cookie |-> 0, failures |-> 0]
                 /\ caller' = [caller EXCEPT ![d] = g]
    BY <1>10 DEF Cookie!PutOff, Cookie!Enough, Cookie!Idle, CookieTypes
  <2>2. g \in T /\ (g.pc = "kill" => g.failures >= 3)
    BY <1>3, <1>4, <2>1
  <2>3. profile' \in [there : BOOLEAN, cookie : 1..c.maxCookies, failures : 0..4, enabled : BOOLEAN, due : BOOLEAN]
    <3>1. PICK n : n = caller[d].failures
      OBVIOUS
    <3>2. n \in 0..4 /\ profile' \in {profile, [profile EXCEPT !.failures = n, !.due = FALSE]}
      BY <1>4, <1>10, <3>1 DEF Cookie!PutOff, Cookie!Counted
    <3> QED
      BY <3>2 DEF CookieTypes
  <2> QED
    BY <1>5, <1>10, <2>1, <2>2, <2>3 DEF Cookie!PutOff, CookieTypes
<1>11. ASSUME NEW d \in Refreshers(c), Cookie(c)!Kill(d) PROVE CookieTypes(c)' /\ KillersCounted(c)'
  <2>1. PICK g : g = [pc |-> "idle", cookie |-> 0, failures |-> 0] /\ caller' = [caller EXCEPT ![d] = g]
    BY <1>11 DEF Cookie!Kill, Cookie!Idle
  <2>2. killed' \in -1..4
    BY <1>1, <1>11 DEF Cookie!Kill, CookieTypes
  <2>3. adobeRow' \in [there : BOOLEAN, status : {"active", "pending", "disabled"}, dead : BOOLEAN]
    BY <1>11 DEF Cookie!Kill, CookieTypes
  <2> QED
    BY <1>3, <1>5, <1>11, <2>1, <2>2, <2>3 DEF Cookie!Kill, CookieTypes
<1>12. ASSUME NEW d \in Refreshers(c), Cookie(c)!Minted(d) PROVE CookieTypes(c)' /\ KillersCounted(c)'
  <2>1. PICK g : /\ g \in {[caller[d] EXCEPT !.pc = "stamp"], [pc |-> "idle", cookie |-> 0, failures |-> 0]}
                 /\ caller' = [caller EXCEPT ![d] = g]
    BY <1>12 DEF Cookie!Minted, Cookie!Idle, CookieTypes
  <2>2. g \in T /\ g.pc # "kill"
    BY <1>3, <1>4, <2>1
  <2>3. adobeRow' \in [there : BOOLEAN, status : {"active", "pending", "disabled"}, dead : BOOLEAN]
    BY <1>12 DEF Cookie!Minted, Cookie!Revive, CookieTypes
  <2> QED
    BY <1>5, <1>12, <2>1, <2>2, <2>3 DEF Cookie!Minted, CookieTypes
<1>13. ASSUME NEW d \in Refreshers(c), Cookie(c)!Stamp(d) PROVE CookieTypes(c)' /\ KillersCounted(c)'
  <2>1. PICK g : g = [pc |-> "idle", cookie |-> 0, failures |-> 0] /\ caller' = [caller EXCEPT ![d] = g]
    BY <1>13 DEF Cookie!Stamp, Cookie!Idle
  <2>2. profile' \in [there : BOOLEAN, cookie : 1..c.maxCookies, failures : 0..4, enabled : BOOLEAN, due : BOOLEAN]
    <3>1. 0 \in 0..4 /\ profile' \in {profile, [profile EXCEPT !.failures = 0, !.due = FALSE]}
      BY <1>13 DEF Cookie!Stamp
    <3> QED
      BY <3>1 DEF CookieTypes
  <2> QED
    BY <1>3, <1>5, <1>13, <2>1, <2>2 DEF Cookie!Stamp, CookieTypes
\* What the administrator, the upstream and time do leaves the callers alone.
<1>14. ASSUME Cookie(c)!Due \/ Cookie(c)!Revoke \/ Cookie(c)!checkPendingAdobe \/ Cookie(c)!Switch
              \/ Cookie(c)!SetStatus \/ Cookie(c)!Delete
       PROVE  CookieTypes(c)' /\ KillersCounted(c)'
  <2>1. UNCHANGED <<cookies, caller, streak, killed, blips>>
    BY <1>14 DEF Cookie!Due, Cookie!Revoke, Cookie!checkPendingAdobe, Cookie!Switch, Cookie!SetStatus,
       Cookie!Delete
  <2>2. profile' \in [there : BOOLEAN, cookie : 1..c.maxCookies, failures : 0..4, enabled : BOOLEAN, due : BOOLEAN]
    BY <1>14 DEF Cookie!Due, Cookie!Revoke, Cookie!checkPendingAdobe, Cookie!Switch, Cookie!SetStatus,
       Cookie!Delete,
       CookieTypes
  <2>3. adobeRow' \in [there : BOOLEAN, status : {"active", "pending", "disabled"}, dead : BOOLEAN]
    BY <1>14 DEF Cookie!Due, Cookie!Revoke, Cookie!checkPendingAdobe, Cookie!Switch, Cookie!SetStatus,
       Cookie!Delete,
       Cookie!Revive, CookieTypes
  <2>4. live' \subseteq live
    BY <1>14 DEF Cookie!Due, Cookie!Revoke, Cookie!checkPendingAdobe, Cookie!Switch, Cookie!SetStatus,
       Cookie!Delete
  <2> QED
    BY <2>1, <2>2, <2>3, <2>4 DEF CookieTypes, KillersCounted
<1>15. ASSUME Cookie(c)!Import PROVE CookieTypes(c)' /\ KillersCounted(c)'
  <2>1. /\ cookies < c.maxCookies /\ cookies' = cookies + 1 /\ live' = live \cup {cookies + 1}
        /\ profile' = Cookie(c)!Registered(cookies + 1)
        /\ adobeRow' = [there |-> TRUE, status |-> "pending", dead |-> adobeRow.there /\ adobeRow.dead]
        /\ UNCHANGED <<caller, streak, killed, blips>>
    BY <1>15 DEF Cookie!Import
  <2>2. cookies + 1 \in 1..c.maxCookies /\ live \subseteq 1..(cookies + 1) /\ cookies + 1 \in 1..(cookies + 1) /\ 0 \in 0..4
    BY <1>1, <2>1 DEF CookieTypes
  <2>3. profile' \in [there : BOOLEAN, cookie : 1..c.maxCookies, failures : 0..4, enabled : BOOLEAN, due : BOOLEAN]
    BY <2>1, <2>2 DEF Cookie!Registered, CookieTypes
  <2>4. adobeRow' \in [there : BOOLEAN, status : {"active", "pending", "disabled"}, dead : BOOLEAN]
    BY <2>1 DEF CookieTypes
  <2> QED
    BY <2>1, <2>2, <2>3, <2>4 DEF CookieTypes, KillersCounted
<1>16. CASE UNCHANGED cookieVars
  BY <1>16 DEF cookieVars, CookieTypes, KillersCounted
<1>17. CASE Cookie(c)!Next
  BY <1>1, <1>6, <1>7, <1>8, <1>9, <1>10, <1>11, <1>12, <1>13, <1>14, <1>15, <1>17 DEF Cookie!Next,
     Cookie!Step
<1> QED
  BY <1>16, <1>17

\* One caller: the count of the profile is no more than the failures in a row, unless the
\* caller is about to reset it.
SoleCaller(c) == \E s : Refreshers(c) = {s}
SweptInv(c) ==
  /\ adobeRow.there = profile.there
  /\ killed # -1 => killed >= 3
  /\ \A d \in Refreshers(c) :
       /\ caller[d].pc \in {"read", "failed", "kill"} => caller[d].failures <= streak
       /\ profile.there /\ caller[d].pc \notin {"minted", "stamp"} => profile.failures <= streak

\* No failure was counted.
LEMMA SweptInitially ==
  ASSUME NEW CONSTANT c, Cookie(c)!CookieAssumption, Cookie(c)!Init
  PROVE  SweptInv(c)
BY DEF Cookie!Init, Cookie!Idle, Cookie!Callers, Refreshers, SweptInv

\* One caller's steps keep the count of the profile below the failures in a row.
LEMMA SweptStep ==
  ASSUME NEW CONSTANT c, Cookie(c)!CookieAssumption, SoleCaller(c), CookieTypes(c), KillersCounted(c), SweptInv(c),
         [Cookie(c)!Next]_cookieVars
  PROVE  SweptInv(c)'
<1>0. PICK s : Refreshers(c) = {s}
  BY DEF SoleCaller
<1>1. /\ Cookie(c)!Callers = {s} /\ streak \in 0..4 /\ profile.failures \in 0..4 /\ caller[s].failures \in 0..4
      /\ caller \in [{s} -> [pc : {"idle", "due", "read", "failed", "kill", "minted", "stamp"},
                             cookie : 0..c.maxCookies, failures : 0..4]]
      /\ profile \in [there : BOOLEAN, cookie : 1..c.maxCookies, failures : 0..4, enabled : BOOLEAN, due : BOOLEAN]
      /\ adobeRow \in [there : BOOLEAN, status : {"active", "pending", "disabled"}, dead : BOOLEAN]
  BY <1>0 DEF Cookie!Callers, Refreshers, CookieTypes
<1>2. /\ adobeRow.there = profile.there
      /\ killed # -1 => killed >= 3
      /\ caller[s].pc \in {"read", "failed", "kill"} => caller[s].failures <= streak
      /\ profile.there /\ caller[s].pc \notin {"minted", "stamp"} => profile.failures <= streak
      /\ caller[s].pc = "kill" => caller[s].failures >= 3
  BY <1>0 DEF SweptInv, KillersCounted
<1>3. ASSUME adobeRow'.there = profile'.there, killed' # -1 => killed' >= 3,
             caller'[s].pc \in {"read", "failed", "kill"} => caller'[s].failures <= streak',
             profile'.there /\ caller'[s].pc \notin {"minted", "stamp"} => profile'.failures <= streak'
      PROVE  SweptInv(c)'
  BY <1>0, <1>3 DEF SweptInv
<1>4. CASE Cookie(c)!RefreshDue(s) \/ Cookie(c)!RefreshButton(s)
  BY <1>1, <1>2, <1>3, <1>4 DEF Cookie!RefreshDue, Cookie!RefreshButton
<1>5. CASE Cookie(c)!Read(s)
  BY <1>1, <1>2, <1>3, <1>5 DEF Cookie!Read, Cookie!Idle
<1>6. CASE Cookie(c)!Exchanged(s)
  BY <1>1, <1>2, <1>3, <1>6 DEF Cookie!Exchanged
<1>7. CASE Cookie(c)!ExchangeFails(s)
  <2>1. /\ caller[s].pc = "read" /\ caller'[s].pc = "failed" /\ caller'[s].failures = Cookie(c)!Plus(caller[s].failures)
        /\ streak' = Cookie(c)!Plus(streak) /\ UNCHANGED <<adobeRow, profile, killed>>
    BY <1>1, <1>7 DEF Cookie!ExchangeFails
  <2>2. caller'[s].failures <= streak' /\ streak <= streak' /\ streak' \in 0..4
    BY <1>1, <1>2, <2>1 DEF Cookie!Plus, Cookie!Cap
  <2>3. profile.there => profile.failures <= streak'
    BY <1>1, <1>2, <2>1, <2>2
  <2> QED
    BY <1>2, <1>3, <2>1, <2>2, <2>3
<1>8. CASE Cookie(c)!PutOff(s)
  BY <1>1, <1>2, <1>3, <1>8 DEF Cookie!PutOff, Cookie!Enough, Cookie!Idle, Cookie!Counted
<1>9. CASE Cookie(c)!Kill(s)
  BY <1>1, <1>2, <1>3, <1>9 DEF Cookie!Kill, Cookie!Idle
<1>10. CASE Cookie(c)!Minted(s)
  BY <1>1, <1>2, <1>3, <1>10 DEF Cookie!Minted, Cookie!Revive, Cookie!Idle
<1>11. CASE Cookie(c)!Stamp(s)
  BY <1>1, <1>2, <1>3, <1>11 DEF Cookie!Stamp, Cookie!Idle
<1>12. CASE Cookie(c)!Due \/ Cookie(c)!Switch
  BY <1>1, <1>2, <1>3, <1>12 DEF Cookie!Due, Cookie!Switch
<1>13. CASE Cookie(c)!Revoke \/ Cookie(c)!checkPendingAdobe \/ Cookie(c)!SetStatus
  BY <1>1, <1>2, <1>3, <1>13 DEF Cookie!Revoke, Cookie!checkPendingAdobe, Cookie!SetStatus, Cookie!Revive
<1>14. CASE Cookie(c)!Delete
  BY <1>1, <1>2, <1>3, <1>14 DEF Cookie!Delete
<1>15. CASE Cookie(c)!Import
  <2>1. adobeRow'.there = TRUE /\ UNCHANGED <<caller, streak, killed>>
    BY <1>15 DEF Cookie!Import
  <2>2. /\ profile'.there = TRUE
        /\ profile.there => profile' = profile
        /\ ~profile.there => profile'.failures = 0
    BY <1>1, <1>15 DEF Cookie!Import, Cookie!Registered
  <2>3. caller' = caller /\ streak' = streak /\ killed' = killed
    BY <2>1
  <2>4. profile'.there /\ caller'[s].pc \notin {"minted", "stamp"} => profile'.failures <= streak'
    <3>1. CASE profile.there
      BY <1>2, <2>2, <2>3, <3>1
    <3>2. CASE ~profile.there
      BY <1>1, <2>2, <2>3, <3>2
    <3> QED
      BY <3>1, <3>2
  <2>5. caller'[s].pc \in {"read", "failed", "kill"} => caller'[s].failures <= streak'
    BY <1>2, <2>3
  <2>6. killed' # -1 => killed' >= 3
    BY <1>2, <2>3
  <2>7. adobeRow'.there = profile'.there
    BY <2>1, <2>2
  <2> QED
    BY <1>3, <2>4, <2>5, <2>6, <2>7
<1>16. CASE UNCHANGED cookieVars
  BY <1>16 DEF cookieVars, SweptInv
<1>17. CASE Cookie(c)!Next
  BY <1>1, <1>4, <1>5, <1>6, <1>7, <1>8, <1>9, <1>10, <1>11, <1>12, <1>13, <1>14, <1>15, <1>17
     DEF Cookie!Next, Cookie!Step
<1> QED
  BY <1>16, <1>17

\* Nobody edits and the exchange fails at most twice on the one cookie while it works: a
\* count of three is a count of failures of a cookie that is dead.
FewBlips(c) == c.edits = FALSE /\ c.maxBlips <= 2
DeadInv(c) ==
  /\ cookies = 1 /\ profile.cookie = 1
  /\ \A d \in Refreshers(c) : caller[d].pc = "read" => caller[d].cookie = 1
  /\ 1 \in live => profile.failures <= blips /\ \A d \in Refreshers(c) : caller[d].failures <= blips

\* The cookie works and nobody has failed.
LEMMA DeadInitially ==
  ASSUME NEW CONSTANT c, Cookie(c)!CookieAssumption, Cookie(c)!Init
  PROVE  DeadInv(c)
BY DEF Cookie!Init, Cookie!Idle, Cookie!Callers, Refreshers, DeadInv

\* While the cookie works the counts are of blips; who kills has counted three.
LEMMA DeadStep ==
  ASSUME NEW CONSTANT c, Cookie(c)!CookieAssumption, FewBlips(c), CookieTypes(c), KillersCounted(c), DeadInv(c),
         [Cookie(c)!Next]_cookieVars
  PROVE  DeadInv(c)' /\ Cookie(c)!KillsTheDead
<1>1. /\ Cookie(c)!Callers = Refreshers(c) /\ blips \in 0..c.maxBlips /\ profile.failures \in 0..4 /\ c.maxBlips \in Nat
      /\ caller \in [Refreshers(c) -> [pc : {"idle", "due", "read", "failed", "kill", "minted", "stamp"},
                                       cookie : 0..c.maxCookies, failures : 0..4]]
      /\ profile \in [there : BOOLEAN, cookie : 1..c.maxCookies, failures : 0..4, enabled : BOOLEAN, due : BOOLEAN]
      /\ c.edits = FALSE /\ c.maxBlips <= 2
  BY DEF Cookie!CookieAssumption, Cookie!Callers, Refreshers, CookieTypes, FewBlips
<1>2. /\ cookies = 1 /\ profile.cookie = 1
      /\ \A d \in Refreshers(c) : caller[d].pc = "read" => caller[d].cookie = 1
      /\ 1 \in live => profile.failures <= blips /\ \A d \in Refreshers(c) : caller[d].failures <= blips
      /\ \A d \in Refreshers(c) : caller[d].pc = "kill" => caller[d].failures >= 3
  BY DEF DeadInv, KillersCounted
<1>3. Cookie(c)!KillsTheDead
  BY <1>1, <1>2 DEF Cookie!KillsTheDead
<1>4. ASSUME NEW d \in Refreshers(c), Cookie(c)!RefreshDue(d) \/ Cookie(c)!RefreshButton(d) PROVE DeadInv(c)'
  BY <1>1, <1>2, <1>4 DEF Cookie!RefreshDue, Cookie!RefreshButton, DeadInv
<1>5. ASSUME NEW d \in Refreshers(c), Cookie(c)!Read(d) PROVE DeadInv(c)'
  BY <1>1, <1>2, <1>5 DEF Cookie!Read, Cookie!Idle, DeadInv
<1>6. ASSUME NEW d \in Refreshers(c), Cookie(c)!Exchanged(d) PROVE DeadInv(c)'
  BY <1>1, <1>2, <1>6 DEF Cookie!Exchanged, DeadInv
<1>7. ASSUME NEW d \in Refreshers(c), Cookie(c)!ExchangeFails(d) PROVE DeadInv(c)'
  <2>1. PICK n : n = Cookie(c)!Plus(caller[d].failures)
    OBVIOUS
  <2>2. /\ caller[d].pc = "read" /\ caller' = [caller EXCEPT ![d].pc = "failed", ![d].failures = n]
        /\ caller[d].cookie = 1 /\ (1 \in live => blips' = blips + 1)
        /\ UNCHANGED <<cookies, profile, live>>
    BY <1>2, <1>7, <2>1 DEF Cookie!ExchangeFails
  <2>3. n <= caller[d].failures + 1
    BY <1>1, <2>1 DEF Cookie!Plus, Cookie!Cap
  <2>4. 1 \in live => n <= blips' /\ profile.failures <= blips' /\ \A e \in Refreshers(c) : caller[e].failures <= blips'
    BY <1>1, <1>2, <2>2, <2>3, <2>1 DEF Cookie!Plus, Cookie!Cap
  <2> QED
    BY <1>1, <1>2, <2>2, <2>4 DEF DeadInv
<1>8. ASSUME NEW d \in Refreshers(c), Cookie(c)!PutOff(d) PROVE DeadInv(c)'
  BY <1>1, <1>2, <1>8 DEF Cookie!PutOff, Cookie!Enough, Cookie!Idle, Cookie!Counted, DeadInv
<1>9. ASSUME NEW d \in Refreshers(c), Cookie(c)!Kill(d) \/ Cookie(c)!Minted(d) \/ Cookie(c)!Stamp(d) PROVE DeadInv(c)'
  <2>1. PICK g : /\ g \in {[caller[d] EXCEPT !.pc = "stamp"], [pc |-> "idle", cookie |-> 0, failures |-> 0]}
                 /\ caller' = [caller EXCEPT ![d] = g]
    BY <1>1, <1>9 DEF Cookie!Kill, Cookie!Minted, Cookie!Stamp, Cookie!Idle
  <2>2. profile' \in {profile, [profile EXCEPT !.failures = 0, !.due = FALSE]} /\ UNCHANGED <<cookies, live, blips>>
    BY <1>9 DEF Cookie!Kill, Cookie!Minted, Cookie!Stamp
  <2>3. profile'.cookie = 1 /\ (1 \in live => profile'.failures <= blips)
    <3>1. CASE profile' = profile
      BY <1>2, <3>1
    <3>2. CASE profile' = [profile EXCEPT !.failures = 0, !.due = FALSE]
      <4>1. profile'.failures = 0 /\ profile'.cookie = profile.cookie
        BY <1>1, <3>2
      <4> QED
        BY <1>1, <1>2, <4>1
    <3> QED
      BY <2>2, <3>1, <3>2
  <2>4. g.pc # "read" /\ (1 \in live => g.failures <= blips)
    BY <1>1, <1>2, <2>1
  <2> QED
    BY <1>1, <1>2, <2>1, <2>2, <2>3, <2>4 DEF DeadInv
<1>10. CASE Cookie(c)!Due \/ Cookie(c)!Revoke \/ Cookie(c)!checkPendingAdobe
  BY <1>1, <1>2, <1>3, <1>10 DEF Cookie!Due, Cookie!Revoke, Cookie!checkPendingAdobe, DeadInv
<1>11. CASE Cookie(c)!Switch \/ Cookie(c)!SetStatus \/ Cookie(c)!Delete \/ Cookie(c)!Import
  BY <1>1, <1>11 DEF Cookie!Switch, Cookie!SetStatus, Cookie!Delete, Cookie!Import
<1>12. CASE UNCHANGED cookieVars
  BY <1>3, <1>12 DEF cookieVars, DeadInv
<1>13. CASE Cookie(c)!Next
  BY <1>1, <1>3, <1>4, <1>5, <1>6, <1>7, <1>8, <1>9, <1>10, <1>11, <1>13 DEF Cookie!Next, Cookie!Step
<1> QED
  BY <1>12, <1>13

\* So who kills did so after three failures in a row.
LEMMA CookieImplies ==
  ASSUME NEW CONSTANT c, Cookie(c)!CookieAssumption, CookieTypes(c), SweptInv(c)
  PROVE  Cookie(c)!CookieTypeOK /\ Cookie(c)!KilledInARow
BY DEF CookieTypes, SweptInv, Refreshers, Cookie!CookieTypeOK, Cookie!KilledInARow, Cookie!Callers,
   Cookie!Cap
-----------------------------------------------------------------------------
(* The batches of the balance sweep.                                       *)

\* The instance's own operators are those of the standard module.
LEMMA SweepCount ==
  ASSUME NEW CONSTANT c, NEW S
  PROVE  Balance(c)!Cardinality(S) = Cardinality(S) /\ Balance(c)!IsFiniteSet(S) = IsFiniteSet(S)
BY DEF Balance!Cardinality, Cardinality, Balance!IsFiniteSet, IsFiniteSet

\* Some element of a set of numbers is the largest.
LEMMA Largest ==
  ASSUME NEW n \in Nat, NEW S, S \subseteq 1..n, S # {}
  PROVE  \E x \in S : \A y \in S : y <= x
<1> DEFINE T == {n - x : x \in S}
<1>1. T \subseteq Nat /\ T # {}
  <2>1. \A x \in S : n - x \in Nat
    OBVIOUS
  <2> QED
    BY <2>1
<1>2. PICK t \in T : \A u \in T : ~(<<u, t>> \in OpToRel(<, Nat))
  BY <1>1, NatLessThanWellFounded, WFMin
<1>3. \A u \in T : ~(u < t)
  BY <1>1, <1>2 DEF OpToRel
<1>4. PICK x \in S : t = n - x
  BY <1>2
<1>5. \A y \in S : y <= x
  <2> TAKE y \in S
  <2>1. n - y \in T
    OBVIOUS
  <2> QED
    BY <1>3, <1>4, <2>1
<1> QED
  BY <1>5

\* Some element of a set of numbers has the smallest key.
LEMMA SmallestKey ==
  ASSUME NEW S, S # {}, NEW f, \A x \in S : f[x] \in Nat
  PROVE  \E x \in S : \A y \in S : f[x] <= f[y]
<1> DEFINE T == {f[x] : x \in S}
<1>1. T \subseteq Nat /\ T # {}
  OBVIOUS
<1>2. PICK t \in T : \A u \in T : ~(<<u, t>> \in OpToRel(<, Nat))
  BY <1>1, NatLessThanWellFounded, WFMin
<1>3. \A u \in T : ~(u < t)
  BY <1>1, <1>2 DEF OpToRel
<1>4. PICK x \in S : t = f[x]
  BY <1>2
<1>5. \A y \in S : f[x] <= f[y]
  <2> TAKE y \in S
  <2>1. f[y] \in T
    OBVIOUS
  <2> QED
    BY <1>3, <1>4, <2>1
<1> QED
  BY <1>5

SweepTypes(c) ==
  /\ sweptStatus \in [c.accounts -> {"none", "active", "quota", "disabled"}]
  /\ poor \subseteq c.accounts
  /\ checked \in [c.accounts -> 0..(c.interval + Cardinality(c.accounts) + 1)]
  /\ todo \subseteq c.accounts /\ Cardinality(todo) <= c.batch

\* Of the accounts with fewer than a batch before them the last one has all others
\* before it, so that they are no more than a batch.
LEMMA BatchIsKept ==
  ASSUME NEW CONSTANT c, Balance(c)!SweepAssumption, SweepTypes(c)
  PROVE  Balance(c)!Candidates \subseteq c.accounts /\ Cardinality(Balance(c)!Candidates) <= c.batch
<1> DEFINE C == Balance(c)!Candidates
           D == Balance(c)!Due
           n == Cardinality(c.accounts)
           Before(a, b) == checked[a] > checked[b] \/ (checked[a] = checked[b] /\ a < b)
<1>1. /\ IsFiniteSet(c.accounts) /\ c.accounts = 1..n /\ n \in Nat /\ c.batch \in Nat \ {0} /\ c.interval \in Nat
  BY SweepCount, FS_CardinalityType DEF Balance!SweepAssumption
<1>2. D \subseteq c.accounts /\ C = {a \in D : Cardinality({b \in D : b # a /\ Before(b, a)}) < c.batch}
  BY SweepCount DEF Balance!Due, Balance!Candidates, Balance!Before
<1>3. \A a \in c.accounts : checked[a] \in Nat /\ a \in Nat
  BY <1>1 DEF SweepTypes
<1>4. IsFiniteSet(C) /\ IsFiniteSet(D)
  BY <1>1, <1>2, FS_Subset
<1> HIDE DEF C, D
<1>5. CASE C = {}
  <2>1. Cardinality(C) = 0
    BY <1>5, FS_EmptySet
  <2> QED
    BY <1>1, <1>2, <2>1 DEF C
<1>6. CASE C # {}
  <2>1. PICK x \in C : \A y \in C : checked[x] <= checked[y]
    BY <1>2, <1>3, <1>6, SmallestKey
  <2> DEFINE M == {y \in C : checked[y] = checked[x]}
  <2>2. M \subseteq 1..n /\ M # {}
    BY <1>1, <1>2, <2>1
  <2>3. PICK m \in M : \A y \in M : y <= m
    BY <1>1, <2>2, Largest
  <2>4. \A y \in C : y # m => Before(y, m)
    <3>1. SUFFICES ASSUME NEW y \in C, y # m PROVE Before(y, m)
      OBVIOUS
    <3>2. /\ checked[x] <= checked[y] /\ checked[m] = checked[x] /\ m \in Nat /\ y \in Nat
          /\ checked[x] \in Nat /\ checked[y] \in Nat
      BY <1>2, <1>3, <2>1, <2>3
    <3>3. CASE checked[y] = checked[x]
      BY <2>3, <3>1, <3>2, <3>3
    <3>4. CASE checked[y] # checked[x]
      BY <3>2, <3>4
    <3> QED
      BY <3>3, <3>4
  <2> DEFINE R == {b \in D : b # m /\ Before(b, m)}
  <2>5. C \ {m} \subseteq R
    BY <1>2, <2>4
  <2>6. IsFiniteSet(R)
    BY <1>4, FS_Subset
  <2>7. Cardinality(C \ {m}) <= Cardinality(R)
    BY <2>5, <2>6, FS_Subset
  <2>8. Cardinality(R) < c.batch
    BY <1>2
  <2>9. Cardinality(C \ {m}) = Cardinality(C) - 1
    BY <1>4, FS_RemoveElement
  <2>10. Cardinality(C) \in Nat /\ Cardinality(R) \in Nat
    BY <1>4, <2>6, FS_CardinalityType
  <2> QED
    BY <1>1, <1>2, <2>7, <2>8, <2>9, <2>10 DEF C
<1> QED
  BY <1>5, <1>6

\* Nobody was checked and the batch is empty.
LEMMA SweepInitially ==
  ASSUME NEW CONSTANT c, Balance(c)!SweepAssumption, Balance(c)!Init
  PROVE  SweepTypes(c)
<1>1. IsFiniteSet(c.accounts) /\ Cardinality(c.accounts) \in Nat /\ c.batch \in Nat /\ c.interval \in Nat
  BY SweepCount, FS_CardinalityType DEF Balance!SweepAssumption
<1>2. 0 \in 0..(c.interval + Cardinality(c.accounts) + 1)
  BY <1>1
<1>3. Cardinality({}) = 0
  BY FS_EmptySet
<1> QED
  BY <1>1, <1>2, <1>3 DEF Balance!Init, SweepTypes

\* A tick fills a batch, which the sweep works off.
LEMMA SweepStep ==
  ASSUME NEW CONSTANT c, Balance(c)!SweepAssumption, SweepTypes(c), [Balance(c)!Next]_sweepVars
  PROVE  SweepTypes(c)'
<1>1. PICK n : n = c.interval + Cardinality(c.accounts) + 1
  OBVIOUS
<1>2. /\ IsFiniteSet(c.accounts) /\ c.interval \in Nat /\ c.batch \in Nat /\ n \in Nat /\ n = Balance(c)!Never
  BY <1>1, SweepCount, FS_CardinalityType DEF Balance!SweepAssumption, Balance!Never
<1>3. ASSUME sweptStatus' \in [c.accounts -> {"none", "active", "quota", "disabled"}], poor' \subseteq c.accounts,
             checked' \in [c.accounts -> 0..n], todo' \subseteq c.accounts, Cardinality(todo') <= c.batch
      PROVE  SweepTypes(c)'
  BY <1>1, <1>3 DEF SweepTypes
<1>4. /\ sweptStatus \in [c.accounts -> {"none", "active", "quota", "disabled"}] /\ poor \subseteq c.accounts
      /\ checked \in [c.accounts -> 0..n] /\ todo \subseteq c.accounts /\ Cardinality(todo) <= c.batch
  BY <1>1 DEF SweepTypes
<1>5. CASE Balance(c)!Sweep
  <2>1. \A a \in c.accounts : checked[a] < n => checked[a] + 1 \in 0..n
    BY <1>2, <1>4
  <2>2. checked' \in [c.accounts -> 0..n]
    BY <1>2, <1>4, <1>5, <2>1 DEF Balance!Sweep
  <2> QED
    BY <1>3, <1>4, <1>5, <2>2, BatchIsKept DEF Balance!Sweep
<1>6. ASSUME NEW a \in c.accounts, Balance(c)!Check(a) PROVE SweepTypes(c)'
  <2>1. todo' = todo \ {a} /\ 0 \in 0..n
    BY <1>2, <1>6 DEF Balance!Check
  <2>2. Cardinality(todo') <= c.batch
    <3>1. IsFiniteSet(todo)
      BY <1>2, <1>4, FS_Subset
    <3>2. Cardinality(todo') <= Cardinality(todo) /\ Cardinality(todo') \in Nat /\ Cardinality(todo) \in Nat
      BY <2>1, <3>1, FS_Subset, FS_CardinalityType
    <3> QED
      BY <1>2, <1>4, <3>2
  <2>3. sweptStatus' \in [c.accounts -> {"none", "active", "quota", "disabled"}]
    BY <1>4, <1>6 DEF Balance!Check, Balance!RefreshGrokLiveness, Balance!RefreshLowCreditOreateAccounts
  <2>4. poor' \subseteq c.accounts
    BY <1>4, <1>6 DEF Balance!Check, Balance!RefreshGrokLiveness, Balance!RefreshLowCreditOreateAccounts
  <2>5. checked' \in [c.accounts -> 0..n]
    BY <1>4, <1>6, <2>1 DEF Balance!Check, Balance!Stamp
  <2> QED
    BY <1>3, <1>4, <2>1, <2>2, <2>3, <2>4, <2>5
<1>7. ASSUME NEW a \in c.accounts, Balance(c)!Change(a) PROVE SweepTypes(c)'
  <2>1. n \in 0..n
    BY <1>2
  <2> QED
    BY <1>2, <1>3, <1>4, <1>7, <2>1 DEF Balance!Change
<1>8. CASE UNCHANGED sweepVars
  BY <1>3, <1>4, <1>8 DEF sweepVars
<1> QED
  BY <1>5, <1>6, <1>7, <1>8 DEF Balance!Next

\* So a batch is never larger than its bound.
LEMMA SweepImplies ==
  ASSUME NEW CONSTANT c, SweepTypes(c)
  PROVE  Balance(c)!BalanceSweepTypeOK
BY SweepCount DEF SweepTypes, Balance!BalanceSweepTypeOK, Balance!Never
-----------------------------------------------------------------------------
(* What can be used once, and who is in use.                               *)

StayInv ==
  /\ part = "rotated" => RotInv(Case.rotated)
  /\ part = "once" => KreaInv(Case.once)
  /\ part = "granted" => KreaInv(Case.granted) /\ GrantedInv(Case.granted)
  /\ part = "serial" => ImportInv(Case.serial)
  /\ part = "swept" => CookieTypes(Case.swept) /\ KillersCounted(Case.swept) /\ SweptInv(Case.swept)
  /\ part = "grok" => SweepTypes(Case.grok)

\* The constants of a part are those its component assumes.
LEMMA StayAssumptions ==
  /\ Credential(Case.rotated)!RotatingAssumption
  /\ Activation(Case.once)!ActivationAssumption /\ Activation(Case.granted)!ActivationAssumption
  /\ Import(Case.serial)!ImportAssumption
  /\ Cookie(Case.swept)!CookieAssumption /\ Cookie(Case.dead)!CookieAssumption
  /\ Balance(Case.grok)!SweepAssumption
BY PoolsAssumption

\* The invariant holds at the start of every part.
LEMMA StayInitially == PoolsInit => StayInv
<1>1. PoolsInit => /\ part = "rotated" => Credential(Case.rotated)!Init
                   /\ part = "once" => Activation(Case.once)!Init
                   /\ part = "granted" => Activation(Case.granted)!Init
                   /\ part = "serial" => Import(Case.serial)!Init
                   /\ part = "swept" => Cookie(Case.swept)!Init
                   /\ part = "grok" => Balance(Case.grok)!Init
  BY DEF PoolsInit, Its
<1> QED
  BY <1>1, StayAssumptions, RotInitially, KreaInitially, GrantedInitially, ImportInitially,
     CookieInitially,
     SweptInitially, SweepInitially DEF StayInv

\* A client that alone refreshes, days on which the page loads before midnight, imports
\* that wait for one another, one sweep of the cookies: what the parts are about.
InOrder ==
  OneProcess(Case.rotated) /\ Uneventful(Case.granted) /\ InTurn(Case.serial) /\ SoleCaller(Case.swept)

\* Every step of a part is a step of its component.
LEMMA StayStep ==
  ASSUME InOrder, StayInv, [PoolsNext]_vars
  PROVE  StayInv'
<1>1. /\ part' = part
      /\ part = "rotated" => RotInv(Case.rotated)'
      /\ part = "once" => KreaInv(Case.once)'
      /\ part = "granted" => KreaInv(Case.granted)' /\ GrantedInv(Case.granted)'
  BY PartsStay, StayAssumptions, RotStep, KreaStep, GrantedStep DEF StayInv, InOrder
<1>2. /\ part = "serial" => ImportInv(Case.serial)'
      /\ part = "swept" => CookieTypes(Case.swept)' /\ KillersCounted(Case.swept)' /\ SweptInv(Case.swept)'
      /\ part = "grok" => SweepTypes(Case.grok)'
  BY PartsStay, StayAssumptions, ImportStep, CookieTypesStep, SweptStep, SweepStep DEF StayInv, InOrder
<1> QED
  BY <1>1, <1>2 DEF StayInv

\* The invariant has the checked property.
LEMMA StayImplies == StayInv => GoodStay
BY StayAssumptions, RotImplies, KreaImplies, ImportImplies, CookieImplies, SweepImplies DEF StayInv,
   GoodStay

\* Whatever the callers, accounts, credentials, pools and bounds: a refresh token is
\* presented once and its account lives, unless the answer to a refresh was lost or could
\* not be read; the page is loaded once a day and its credits are there for who goes on,
\* the first image of an account is paid for once, an email has one row, a good credential
\* is not sidelined, an account is killed after three failures in a row, and a sweep takes
\* no more than its batch.
THEOREM Pools_GoodStay ==
  ASSUME InOrder
  PROVE  PoolsSpec => []GoodStay
<1>1. StayInv /\ [PoolsNext]_vars => StayInv'
  BY StayStep
<1> QED
  BY <1>1, StayInitially, StayImplies, PTL DEF PoolsSpec

\* Whoever refreshes, as long as the exchange fails at most twice on a cookie that works
\* and nobody edits: an account is killed only when its cookie is dead.
THEOREM Pools_KillsTheDead ==
  ASSUME FewBlips(Case.dead)
  PROVE  PoolsSpec => [][part = "dead" => Cookie(Case.dead)!KillsTheDead]_vars
<1> DEFINE I == part = "dead" => CookieTypes(Case.dead) /\ KillersCounted(Case.dead) /\ DeadInv(Case.dead)
<1>1. PoolsInit => I
  <2>1. PoolsInit => (part = "dead" => Cookie(Case.dead)!Init)
    BY DEF PoolsInit, Its
  <2> QED
    BY <2>1, StayAssumptions, CookieInitially, DeadInitially
<1>2. I /\ [PoolsNext]_vars => I' /\ (part = "dead" => Cookie(Case.dead)!KillsTheDead)
  BY PartsStay, StayAssumptions, CookieTypesStep, DeadStep
<1> QED
  BY <1>1, <1>2, PTL DEF PoolsSpec

=============================================================================

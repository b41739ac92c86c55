---------------------------- MODULE MediaProofs ----------------------------
(***************************************************************************)
(* Proofs about MCMedia, for any calls, processes, files, models and       *)
(* bounds: the image jobs of one idempotency key and their polls, what     *)
(* lies in the object store and who refers to it, the models and the lists *)
(* of upstreams, and the counters that outlive the log.                    *)
(***************************************************************************)
EXTENDS MCMedia, FiniteSetTheorems, TLAPS

-----------------------------------------------------------------------------
(* The calls of one key.                                                   *)

\* The types, without the job map's relation to the goroutines.
Types ==
  /\ sub \in [Calls -> [mode : {"sync", "async"}, proc : Procs]]
  /\ pc \in [Calls -> {"new", "looked", "stored", "relook", "ended", "dead"} \cup Executing \cup Returned]
  /\ told \in [Calls -> {"nothing", "pending", "completed", "failed"}]
  /\ job \in [Procs -> Calls \cup {NoCall}]
  /\ result \in [Calls -> {"open", "completed", "failed"}]
  /\ lock \in Calls \cup {NoCall}
  /\ row \in {"none", "pending", "success", "failed"}
  /\ owner \in Calls \cup {NoCall}
  /\ charge \in [Calls -> {"none", "held", "returned"}]
  /\ faults \in Nat

\* The row has an owner, whose goroutine works on it, or is dead, while it is
\* pending.
RowOwned ==
  /\ (row = "none") = (owner = NoCall)
  /\ row = "pending" => pc[owner] \in {"work", "dead"} /\ charge[owner] = "held"
  /\ row = "success" => charge[owner] = "held"

\* A call that has not yet been charged, or not yet logged, owns no row; one that
\* works owns a pending one.
CallAccounted(c) ==
  /\ pc[c] \in {"new", "looked", "stored", "relook", "prepare", "charged"} => owner # c
  /\ pc[c] \in {"new", "looked", "stored", "relook", "prepare"} => charge[c] = "none"
  /\ pc[c] = "charged" => charge[c] = "held"
  /\ pc[c] = "work" => owner = c /\ row = "pending"
  /\ charge[c] = "held" => \/ pc[c] \in {"charged", "dead"}
                           \/ owner = c /\ row \in {"pending", "success"}

JobsInv == Types /\ RowOwned /\ \A c \in Calls : CallAccounted(c)

LEMMA JobsInitially == Init => JobsInv
BY ImageJobsAssumption DEF Init, JobsInv, Types, RowOwned, CallAccounted, Executing, Returned

\* What a client or a poll is told.
LEMMA AnswerTypes ==
  ASSUME Types, NEW c \in Calls
  PROVE  /\ RowAnswer \in {"pending", "completed", "failed"}
         /\ JobAnswer(c) \in {"pending", "completed", "failed"}
<1>1. RowAnswer \in {"pending", "completed", "failed"}
  BY DEF RowAnswer
<1>2. JobAnswer(c) \in {"pending", "completed", "failed"}
  BY DEF JobAnswer, Types
<1> QED
  BY <1>1, <1>2

LEMMA TypesStep == Types /\ [Next]_jobVars => Types'
<1> SUFFICES ASSUME Types, [Next]_jobVars PROVE Types'
  OBVIOUS
<1> USE ImageJobsAssumption DEF Types, Executing, Returned, Goto, Tell
<1>1. ASSUME NEW c \in Calls, Submit(c) PROVE Types'
  <2>1. RowAnswer \in {"pending", "completed", "failed"}
    BY AnswerTypes
  <2>2. told' \in [Calls -> {"nothing", "pending", "completed", "failed"}]
    BY <1>1, <2>1 DEF Submit
  <2>3. Goto(c, "prepare") \/ Goto(c, "ended") \/ Goto(c, "looked")
    BY <1>1 DEF Submit
  <2>4. UNCHANGED <<sub, job, result, lock, row, owner, charge, faults>>
    BY <1>1 DEF Submit
  <2> QED
    BY <2>2, <2>3, <2>4, pc \in [Calls -> {"new", "looked", "stored", "relook", "ended", "dead"} \cup Executing \cup Returned]
<1>2. ASSUME NEW c \in Calls, LoadOrStore(c) PROVE Types'
  <2>1. PICK k \in Calls \cup {NoCall} : k = job[Proc(c)]
    BY DEF Proc
  <2>2. k # NoCall => JobAnswer(k) \in {"pending", "completed", "failed"}
    BY AnswerTypes
  <2>3. told' \in [Calls -> {"nothing", "pending", "completed", "failed"}]
    BY <1>2, <2>1, <2>2 DEF LoadOrStore
  <2>4. job' \in [Procs -> Calls \cup {NoCall}]
    BY <1>2 DEF LoadOrStore, Proc
  <2>5. pc' \in [Calls -> {"new", "looked", "stored", "relook", "ended", "dead"} \cup Executing \cup Returned]
    BY <1>2 DEF LoadOrStore
  <2> QED
    BY <1>2, <2>3, <2>4, <2>5 DEF LoadOrStore
<1>3. ASSUME NEW c \in Calls, Lock(c) PROVE Types'
  BY <1>3 DEF Lock, Fault
<1>4. ASSUME NEW c \in Calls, LockedOut(c) PROVE Types'
  BY <1>4 DEF LockedOut
<1>5. ASSUME NEW c \in Calls, Relook(c) PROVE Types'
  BY <1>5, AnswerTypes DEF Relook
<1>6. ASSUME NEW c \in Calls, PrepareFails(c) PROVE Types'
  BY <1>6 DEF PrepareFails
<1>7. ASSUME NEW c \in Calls, Charge(c) PROVE Types'
  BY <1>7 DEF Charge
<1>8. ASSUME NEW c \in Calls, Insert(c) PROVE Types'
  BY <1>8 DEF Insert
<1>9. ASSUME NEW c \in Calls, InsertFails(c) PROVE Types'
  BY <1>9 DEF InsertFails
<1>10. ASSUME NEW c \in Calls, Work(c) PROVE Types'
  BY <1>10 DEF Work
<1>11. ASSUME NEW c \in Calls, Complete(c) PROVE Types'
  BY <1>11 DEF Complete
<1>12. ASSUME NEW c \in Calls, Unlock(c) PROVE Types'
  BY <1>12 DEF Unlock
<1>13. ASSUME NEW c \in Calls, Drop(c) PROVE Types'
  BY <1>13 DEF Drop
<1>14. ASSUME NEW p \in Procs, Crash(p) PROVE Types'
  BY <1>14 DEF Crash, Fault
<1>15. CASE Sweep
  BY <1>15 DEF Sweep
<1>16. CASE ExpireLock
  BY <1>16 DEF ExpireLock
<1>17. CASE UNCHANGED jobVars
  BY <1>17 DEF jobVars
<1> QED
  BY <1>1, <1>2, <1>3, <1>4, <1>5, <1>6, <1>7, <1>8, <1>9, <1>10, <1>11, <1>12, <1>13, <1>14, <1>15, <1>16, <1>17
  DEF Next, Step

LEMMA JobsStep == JobsInv /\ [Next]_jobVars => JobsInv'
<1> SUFFICES ASSUME JobsInv, [Next]_jobVars, Types' PROVE RowOwned' /\ \A c \in Calls : CallAccounted(c)'
  BY TypesStep DEF JobsInv
<1> USE ImageJobsAssumption DEF JobsInv, Types, RowOwned, CallAccounted, Executing, Returned, Goto
<1> DEFINE Accounted == RowOwned /\ \A c \in Calls : CallAccounted(c)
<1>1. ASSUME NEW c \in Calls, Submit(c) PROVE Accounted'
  BY <1>1 DEF Submit
<1>2. ASSUME NEW c \in Calls, LoadOrStore(c) PROVE Accounted'
  BY <1>2 DEF LoadOrStore
<1>3. ASSUME NEW c \in Calls, Lock(c) PROVE Accounted'
  BY <1>3 DEF Lock, Fault
<1>4. ASSUME NEW c \in Calls, LockedOut(c) PROVE Accounted'
  BY <1>4 DEF LockedOut
<1>5. ASSUME NEW c \in Calls, Relook(c) PROVE Accounted'
  BY <1>5 DEF Relook
<1>6. ASSUME NEW c \in Calls, PrepareFails(c) PROVE Accounted'
  BY <1>6 DEF PrepareFails
<1>7. ASSUME NEW c \in Calls, Charge(c) PROVE Accounted'
  BY <1>7 DEF Charge
<1>8. ASSUME NEW c \in Calls, Insert(c) PROVE Accounted'
  BY <1>8 DEF Insert
<1>9. ASSUME NEW c \in Calls, InsertFails(c) PROVE Accounted'
  BY <1>9 DEF InsertFails
<1>10. ASSUME NEW c \in Calls, Work(c) PROVE Accounted'
  BY <1>10 DEF Work
<1>11. ASSUME NEW c \in Calls, Complete(c) PROVE Accounted'
  BY <1>11 DEF Complete
<1>12. ASSUME NEW c \in Calls, Unlock(c) PROVE Accounted'
  BY <1>12 DEF Unlock
<1>13. ASSUME NEW c \in Calls, Drop(c) PROVE Accounted'
  BY <1>13 DEF Drop
<1>14. ASSUME NEW p \in Procs, Crash(p) PROVE Accounted'
  BY <1>14 DEF Crash, Fault
<1>15. CASE Sweep
  BY <1>15 DEF Sweep
<1>16. CASE ExpireLock
  BY <1>16 DEF ExpireLock
<1>17. CASE UNCHANGED jobVars
  BY <1>17 DEF jobVars
<1> QED
  BY <1>1, <1>2, <1>3, <1>4, <1>5, <1>6, <1>7, <1>8, <1>9, <1>10, <1>11, <1>12, <1>13, <1>14, <1>15, <1>16, <1>17
  DEF Next, Step

\* A live candidate is the job of its process.
LEMMA JobStep == Types /\ JobOK /\ [Next]_jobVars => JobOK'
<1> SUFFICES ASSUME Types, JobOK, [Next]_jobVars, NEW d \in Calls, Mode(d)' = "async",
                    pc'[d] \in {"stored"} \cup Executing \cup Returned
             PROVE  job'[Proc(d)'] = d
  BY DEF JobOK
<1> USE ImageJobsAssumption DEF Types, JobOK, Executing, Returned, Goto, Tell, Mode, Proc
<1>0. sub' = sub
  BY DEF Next, Submit, Step, LoadOrStore, Lock, LockedOut, Relook, PrepareFails, Charge, Insert, InsertFails, Work,
     Complete, Unlock, Drop, Crash, Sweep, ExpireLock, jobVars
<1>1. ASSUME NEW c \in Calls, Submit(c) PROVE job'[Proc(d)'] = d
  BY <1>0, <1>1 DEF Submit
<1>2. ASSUME NEW c \in Calls, LoadOrStore(c) PROVE job'[Proc(d)'] = d
  BY <1>0, <1>2 DEF LoadOrStore
<1>3. ASSUME NEW c \in Calls, LockedOut(c) PROVE job'[Proc(d)'] = d
  BY <1>0, <1>3 DEF LockedOut
<1>4. ASSUME NEW c \in Calls, Drop(c) PROVE job'[Proc(d)'] = d
  BY <1>0, <1>4 DEF Drop
<1>5. ASSUME NEW p \in Procs, Crash(p) PROVE job'[Proc(d)'] = d
  BY <1>0, <1>5 DEF Crash
<1>6. CASE UNCHANGED <<pc, job>>
  BY <1>0, <1>6
<1>7. ASSUME NEW c \in Calls, UNCHANGED job, c # d \/ pc[d] \in {"stored"} \cup Executing \cup Returned,
             \A e \in Calls \ {c} : pc'[e] = pc[e]
      PROVE  job'[Proc(d)'] = d
  BY <1>0, <1>7
<1>8. ASSUME NEW c \in Calls, Lock(c) \/ PrepareFails(c) \/ Charge(c) \/ Insert(c) \/ InsertFails(c) \/ Work(c)
      PROVE  job'[Proc(d)'] = d
  BY <1>7, <1>8 DEF Lock, PrepareFails, Charge, Insert, InsertFails, Work
<1>9. ASSUME NEW c \in Calls, Relook(c) \/ Complete(c) \/ Unlock(c) PROVE job'[Proc(d)'] = d
  BY <1>7, <1>9 DEF Relook, Complete, Unlock
<1> QED
  BY <1>1, <1>2, <1>3, <1>4, <1>5, <1>6, <1>8, <1>9 DEF Next, Step, Sweep, ExpireLock, jobVars

-----------------------------------------------------------------------------
(* Polls of one process that does not die.                                 *)

\* Whoever is past its lookup is the job, and the row is its own or was there not
\* before; the outcome that a job keeps is what became of the row.
PollInv(c) ==
  LET live == {"stored", "finish", "completed", "retained"} \cup Executing IN
  /\ pc[c] = "looked" => \A p \in Procs : p = Proc(c) /\ job[p] = NoCall => row = "none"
  /\ pc[c] \in {"stored", "prepare", "charged"} => row = "none"
  /\ pc[c] = "work" => row = "pending" /\ owner = c
  /\ pc[c] \in {"finish", "completed", "retained"} => row = "none" \/ (owner = c /\ row # "pending")
  /\ pc[c] \in {"completed", "retained"} => result[c] = (IF row = "success" THEN "completed" ELSE "failed")
  /\ pc[c] \in {"new", "looked", "stored", "finish"} \cup Executing => result[c] = "open"
  /\ job[Proc(c)] = c => pc[c] \in live
  /\ pc[c] \in live => job[Proc(c)] = c
  /\ pc[c] # "dead"

OneServes == \A c, d \in Calls : Mode(c) = "async" /\ Proc(c) = Proc(d)

PolledInv ==
  /\ Types /\ OneServes /\ faults = 0
  /\ row = "pending" => owner \in Calls
  /\ \A p \in Procs : (\A c \in Calls : Proc(c) # p) => job[p] = NoCall
  /\ \A p \in Procs : job[p] # NoCall => Proc(job[p]) = p
  /\ \A c \in Calls : PollInv(c)

LEMMA PolledInitially == Init /\ OneServes => PolledInv
<1> SUFFICES ASSUME Init, OneServes PROVE PolledInv
  OBVIOUS
<1>1. Types
  BY ImageJobsAssumption DEF Init, Types, Executing, Returned
<1>2. ASSUME NEW c \in Calls PROVE PollInv(c)
  BY <1>1, ImageJobsAssumption DEF Init, PollInv, Executing, Types, Proc
<1> QED
  BY <1>1, <1>2 DEF Init, PolledInv

LEMMA PolledStep ==
  ASSUME PolledInv, [Next]_jobVars, faults' = faults
  PROVE  PolledInv'
<1> USE ImageJobsAssumption DEF Executing, Goto, Tell, Mode, Proc
<1>0. /\ sub' = sub /\ Types'
      /\ sub \in [Calls -> [mode : {"sync", "async"}, proc : Procs]] /\ job \in [Procs -> Calls \cup {NoCall}]
      /\ DOMAIN pc = Calls /\ DOMAIN result = Calls /\ row \in {"none", "pending", "success", "failed"}
      /\ faults = 0
  BY TypesStep DEF PolledInv, Types, Next, Submit, Step, LoadOrStore, Lock, LockedOut, Relook, PrepareFails, Charge, Insert, InsertFails, Work,
     Complete, Unlock, Drop, Crash, Sweep, ExpireLock, jobVars
<1>1. ASSUME NEW c \in Calls, Submit(c) PROVE PolledInv'
  BY <1>0, <1>1 DEF PolledInv, OneServes, PollInv, Submit
<1>2. ASSUME NEW c \in Calls, LoadOrStore(c) PROVE PolledInv'
  BY <1>0, <1>2 DEF PolledInv, OneServes, PollInv, LoadOrStore
<1>3. ASSUME NEW c \in Calls, Lock(c) PROVE PolledInv'
  BY <1>0, <1>3 DEF PolledInv, OneServes, PollInv, Lock, Fault
<1>4. ASSUME NEW c \in Calls, LockedOut(c) PROVE PolledInv'
  BY <1>0, <1>4 DEF PolledInv, OneServes, PollInv, LockedOut
<1>5. ASSUME NEW c \in Calls, Relook(c) PROVE PolledInv'
  BY <1>0, <1>5 DEF PolledInv, OneServes, PollInv, Relook
<1>6. ASSUME NEW c \in Calls, PrepareFails(c) PROVE PolledInv'
  BY <1>0, <1>6 DEF PolledInv, OneServes, PollInv, PrepareFails
<1>7. ASSUME NEW c \in Calls, Charge(c) PROVE PolledInv'
  BY <1>0, <1>7 DEF PolledInv, OneServes, PollInv, Charge
<1>8. ASSUME NEW c \in Calls, Insert(c) PROVE PolledInv'
  BY <1>0, <1>8 DEF PolledInv, OneServes, PollInv, Insert
<1>9. ASSUME NEW c \in Calls, InsertFails(c) PROVE PolledInv'
  BY <1>0, <1>9 DEF PolledInv, OneServes, PollInv, InsertFails
<1>10. ASSUME NEW c \in Calls, Work(c) PROVE PolledInv'
  BY <1>0, <1>10 DEF PolledInv, OneServes, PollInv, Work
<1>11. ASSUME NEW c \in Calls, Complete(c) PROVE PolledInv'
  BY <1>0, <1>11 DEF PolledInv, OneServes, PollInv, Complete
<1>12. ASSUME NEW c \in Calls, Unlock(c) PROVE PolledInv'
  BY <1>0, <1>12 DEF PolledInv, OneServes, PollInv, Unlock
<1>13. ASSUME NEW c \in Calls, Drop(c) PROVE PolledInv'
  BY <1>0, <1>13 DEF PolledInv, OneServes, PollInv, Drop
<1>14. ASSUME NEW p \in Procs, Crash(p) PROVE PolledInv'
  BY <1>0, <1>14 DEF Crash, Fault
<1>15. CASE Sweep
  <2>1. owner \in Calls /\ row = "pending"
    BY <1>15 DEF Sweep, PolledInv
  <2> QED
    BY <1>15, <2>1 DEF Sweep, PolledInv, PollInv
<1>16. CASE ExpireLock
  BY <1>0, <1>16 DEF ExpireLock, PolledInv, PollInv, OneServes
<1>17. CASE UNCHANGED jobVars
  BY <1>0, <1>17 DEF jobVars, PolledInv, OneServes, PollInv
<1> QED
  BY <1>1, <1>2, <1>3, <1>4, <1>5, <1>6, <1>7, <1>8, <1>9, <1>10, <1>11, <1>12, <1>13, <1>14, <1>15, <1>16, <1>17
  DEF Next, Step

\* What a poll answers is what became of the row, and a task is found.
LEMMA PollsAnswered == PolledInv => AnswersMatchRow /\ AcceptedIsFound
<1> SUFFICES ASSUME PolledInv PROVE AnswersMatchRow /\ AcceptedIsFound
  OBVIOUS
<1>1. ASSUME NEW p \in Procs PROVE /\ Answer(p) = "failed" => row # "success"
                                   /\ Answer(p) = "completed" => row = "success"
  <2>1. CASE job[p] = NoCall
    BY <2>1 DEF Answer, RowAnswer
  <2>2. CASE job[p] # NoCall
    <3>1. job[p] \in Calls /\ PollInv(job[p]) /\ job[Proc(job[p])] = job[p]
      BY <2>2 DEF PolledInv, Types
    <3>2. Answer(p) = JobAnswer(job[p])
      BY <2>2 DEF Answer
    <3> QED
      BY <3>1, <3>2 DEF PollInv, JobAnswer, Executing
  <2> QED
    BY <2>1, <2>2
<1>2. ASSUME NEW c \in Calls, NEW d \in Calls, pc[c] \in Executing PROVE Answer(Proc(d)) # "not found"
  <2>1. job[Proc(d)] = c /\ c # NoCall
    BY <1>2, ImageJobsAssumption DEF PolledInv, PollInv, OneServes
  <2>2. Answer(Proc(d)) = JobAnswer(c)
    BY <2>1 DEF Answer
  <2> QED
    BY <2>2 DEF JobAnswer, PolledInv, Types
<1> QED
  BY <1>1, <1>2 DEF AnswersMatchRow, AcceptedIsFound

-----------------------------------------------------------------------------
(* The media store.                                                        *)

Uploads == [pc : {"idle", "read", "drop", "write"}, key : Logos \cup {NoCall}, prev : Logos \cup {NoCall}]
Runs == [pc : {"idle", "set", "logo", "delete"}, todo : SUBSET Store!Keys, pinned : SUBSET Store!Keys,
         cleared : SUBSET Store!Keys]

\* The kinds of keys are apart.
LEMMA KeysApart ==
  /\ NoCall \notin Logos /\ Logos \cap (Files \cup Copies \cup Assets \cup Store!Stills) = {}
  /\ Files \cap (Copies \cup Assets \cup Store!Stills) = {}
  /\ \A f \in Files : Store!thumb(f) \in Store!Stills
  /\ Store!Keys = Files \cup Store!Stills \cup Copies \cup Logos \cup Assets
  /\ Assets \cap (Copies \cup Store!Stills) = {} /\ MaxStoreFaults \in Nat
BY MediaAssumption DEF Store!MediaAssumption, Store!Stills, Store!thumb, Store!Keys

LEMMA StoreInitially == Store!Init => Store!MediaTypeOK
<1> SUFFICES ASSUME Store!Init PROVE Store!MediaTypeOK
  OBVIOUS
<1>1. adm \in [Admins -> Uploads] /\ pr \in [Pruners -> Runs]
  BY DEF Store!Init, Uploads, Runs
<1>2. \A p \in Pruners : pr[p].pc = "idle" => pr[p].cleared = {}
  BY DEF Store!Init
<1> QED
  BY <1>1, <1>2, KeysApart DEF Store!Init, Store!MediaTypeOK, Uploads, Runs

\* What administrators and retention runs do to their own state, and what they leave.
LEMMA UploadsTyped ==
  ASSUME Store!MediaTypeOK, NEW a \in Admins
  PROVE  adm \in [Admins -> Uploads] /\ adm[a] \in Uploads /\ logo \in Logos \cup {NoCall}
BY DEF Store!MediaTypeOK, Uploads

LEMMA RunsTyped ==
  ASSUME Store!MediaTypeOK, NEW p \in Pruners
  PROVE  /\ pr \in [Pruners -> Runs] /\ pr[p] \in Runs
         /\ old \subseteq Store!Keys /\ logo \in Logos \cup {NoCall} /\ showcase \subseteq Store!Keys
BY KeysApart DEF Store!MediaTypeOK, Runs

LEMMA UploadLogoMoves ==
  ASSUME Store!MediaTypeOK, NEW a \in Admins, NEW k \in Logos, Store!UploadLogo(a, k)
  PROVE  /\ adm[a].pc = "idle" /\ adm'[a].pc = "read" /\ adm'[a].key = k /\ adm'[a].prev = NoCall
         /\ k \notin used /\ used' = used \cup {k} /\ objects' = objects \cup {k} /\ old' = old
         /\ UNCHANGED <<gen, file, stale, kept, refused, showcase, logo, dl, pr, storeFaults>>
         /\ \A b \in Admins \ {a} : adm'[b] = adm[b]
         /\ adm' # adm /\ adm' \in [Admins -> Uploads]
BY UploadsTyped DEF Store!UploadLogo, Store!Store, Uploads

LEMMA RemoveLogoMoves ==
  ASSUME Store!MediaTypeOK, NEW a \in Admins, Store!RemoveLogo(a)
  PROVE  /\ adm[a].pc = "idle" /\ adm'[a].pc = "read" /\ adm'[a].key = NoCall /\ adm'[a].prev = NoCall
         /\ UNCHANGED <<objects, old, used, gen, file, stale, kept, refused, showcase, logo, dl, pr, storeFaults>>
         /\ \A b \in Admins \ {a} : adm'[b] = adm[b]
         /\ adm' # adm /\ adm' \in [Admins -> Uploads]
BY UploadsTyped DEF Store!RemoveLogo, Uploads

LEMMA ReadOldLogoMoves ==
  ASSUME Store!MediaTypeOK, NEW a \in Admins, Store!ReadOldLogo(a)
  PROVE  /\ adm[a].pc = "read" /\ adm'[a].prev = logo /\ adm'[a].key = adm[a].key
         /\ adm'[a].pc = (IF logo = NoCall THEN "write" ELSE "drop")
         /\ UNCHANGED <<objects, old, used, gen, file, stale, kept, refused, showcase, logo, dl, pr, storeFaults>>
         /\ \A b \in Admins \ {a} : adm'[b] = adm[b]
         /\ adm' # adm /\ adm' \in [Admins -> Uploads]
BY UploadsTyped DEF Store!ReadOldLogo, Uploads

LEMMA DropOldLogoMoves ==
  ASSUME Store!MediaTypeOK, NEW a \in Admins, Store!DropOldLogo(a)
  PROVE  /\ adm[a].pc = "drop" /\ adm'[a].pc = "write" /\ adm'[a].prev = adm[a].prev /\ adm'[a].key = adm[a].key
         /\ \/ objects' = objects \ {adm[a].prev} /\ old' = old \ {adm[a].prev} /\ storeFaults' = storeFaults
            \/ Store!Fails("delete") /\ UNCHANGED <<objects, old>>
         /\ UNCHANGED <<used, gen, file, stale, kept, refused, showcase, logo, dl, pr>>
         /\ \A b \in Admins \ {a} : adm'[b] = adm[b]
         /\ adm' # adm /\ adm' \in [Admins -> Uploads]
BY UploadsTyped DEF Store!DropOldLogo, Store!Works, Store!Remove, Uploads

LEMMA WriteLogoMoves ==
  ASSUME Store!MediaTypeOK, NEW a \in Admins, Store!WriteLogo(a)
  PROVE  /\ adm[a].pc = "write" /\ adm'[a].pc = "idle" /\ adm'[a].key = NoCall /\ adm'[a].prev = NoCall
         /\ (logo' = adm[a].key /\ storeFaults' = storeFaults) \/ (logo' = logo /\ Store!Fails("write"))
         /\ UNCHANGED <<objects, old, used, gen, file, stale, kept, refused, showcase, dl, pr>>
         /\ \A b \in Admins \ {a} : adm'[b] = adm[b]
         /\ adm' # adm /\ adm' \in [Admins -> Uploads]
BY UploadsTyped DEF Store!WriteLogo, Store!Works, Uploads

LEMMA ListMoves ==
  ASSUME Store!MediaTypeOK, NEW p \in Pruners, Store!List(p)
  PROVE  /\ pr[p].pc = "idle" /\ pr'[p].pc = (IF p = "sweep" THEN "set" ELSE "delete")
         /\ pr'[p].todo = old /\ pr'[p].pinned = pr[p].pinned /\ pr'[p].cleared = pr[p].cleared
         /\ UNCHANGED <<objects, old, used, gen, file, stale, kept, refused, showcase, logo, dl, adm, storeFaults>>
         /\ \A q \in Pruners \ {p} : pr'[q] = pr[q]
         /\ pr' \in [Pruners -> Runs]
BY RunsTyped DEF Store!List, Runs

LEMMA PublicFileSetMoves ==
  ASSUME Store!MediaTypeOK, NEW p \in Pruners, Store!PublicFileSet(p)
  PROVE  /\ pr[p].pc = "set" /\ pr'[p].pc = "logo" /\ pr'[p].todo = pr[p].todo /\ pr'[p].cleared = pr[p].cleared
         /\ \/ pr'[p].pinned = showcase /\ storeFaults' = storeFaults
            \/ pr'[p].pinned = {} /\ Store!Fails("set")
         /\ UNCHANGED <<objects, old, used, gen, file, stale, kept, refused, showcase, logo, dl, adm>>
         /\ \A q \in Pruners \ {p} : pr'[q] = pr[q]
         /\ pr' \in [Pruners -> Runs]
BY RunsTyped DEF Store!PublicFileSet, Store!Works, Store!Pinned, Runs

LEMMA PinLogoMoves ==
  ASSUME Store!MediaTypeOK, NEW p \in Pruners, Store!PinLogo(p)
  PROVE  /\ pr[p].pc = "logo" /\ pr'[p].pc = "delete" /\ pr'[p].todo = pr[p].todo /\ pr'[p].cleared = pr[p].cleared
         /\ \/ pr'[p].pinned = pr[p].pinned \cup ({logo} \ {NoCall}) /\ storeFaults' = storeFaults
            \/ pr'[p].pinned = pr[p].pinned /\ Store!Fails("logo")
         /\ UNCHANGED <<objects, old, used, gen, file, stale, kept, refused, showcase, logo, dl, adm>>
         /\ \A q \in Pruners \ {p} : pr'[q] = pr[q]
         /\ pr' \in [Pruners -> Runs]
BY RunsTyped, KeysApart DEF Store!PinLogo, Store!Works, Runs

LEMMA DeleteExpiredMoves ==
  ASSUME Store!MediaTypeOK, NEW p \in Pruners, Store!DeleteExpired(p)
  PROVE  /\ pr[p].pc = "delete" /\ pr'[p].pc = "delete" /\ pr'[p].pinned = pr[p].pinned
         /\ \E k \in pr[p].todo :
              /\ pr'[p].todo = pr[p].todo \ {k}
              /\ \/ UNCHANGED <<objects, old>> /\ pr'[p].cleared = pr[p].cleared
                    /\ (storeFaults' = storeFaults \/ Store!Fails("delete"))
                 \/ /\ k \notin pr[p].pinned /\ objects' = objects \ {k} /\ old' = old \ {k}
                    /\ pr'[p].cleared = pr[p].cleared \cup {k} /\ storeFaults' = storeFaults
         /\ UNCHANGED <<used, gen, file, stale, kept, refused, showcase, logo, dl, adm>>
         /\ \A q \in Pruners \ {p} : pr'[q] = pr[q]
         /\ pr' \in [Pruners -> Runs]
BY RunsTyped DEF Store!DeleteExpired, Store!Works, Store!Remove, Runs

LEMMA ClearFilesMoves ==
  ASSUME Store!MediaTypeOK, NEW p \in Pruners, Store!ClearFiles(p)
  PROVE  /\ pr[p].pc = "delete" /\ pr[p].todo = {} /\ pr'[p].pc = "idle"
         /\ pr'[p].todo = {} /\ pr'[p].pinned = {} /\ pr'[p].cleared = {}
         /\ \/ file' = file \ (pr[p].cleared \cap Files) /\ storeFaults' = storeFaults
            \/ file' = file /\ Store!Fails("clear")
         /\ UNCHANGED <<objects, old, used, gen, stale, kept, refused, showcase, logo, dl, adm>>
         /\ \A q \in Pruners \ {p} : pr'[q] = pr[q]
         /\ pr' \in [Pruners -> Runs]
BY RunsTyped DEF Store!ClearFiles, Store!Works, Runs

LEMMA MediaTypesStep == Store!MediaTypeOK /\ [Store!Next]_storeVars => Store!MediaTypeOK'
<1> SUFFICES ASSUME Store!MediaTypeOK, [Store!Next]_storeVars PROVE Store!MediaTypeOK'
  OBVIOUS
<1>0. /\ \A f \in Files : f \in Store!Keys /\ Store!thumb(f) \in Store!Keys
      /\ Copies \subseteq Store!Keys /\ Logos \subseteq Store!Keys /\ Assets \subseteq Store!Keys
  BY KeysApart
<1>1. ASSUME NEW kind, Store!Fails(kind) PROVE storeFaults' \in 0..MaxStoreFaults
  BY <1>1, KeysApart DEF Store!Fails, Store!MediaTypeOK
<1>2. ASSUME NEW f \in Files, Store!allocateOutput(f) \/ Store!Finish(f) PROVE Store!MediaTypeOK'
  BY <1>2 DEF Store!allocateOutput, Store!Finish, Store!MediaTypeOK
<1>3. ASSUME NEW f \in Files, Store!Put(f) \/ Store!PutStill(f) PROVE Store!MediaTypeOK'
  <2>1. /\ old' = old /\ objects' \in {objects, objects \cup {f}, objects \cup {Store!thumb(f)}} /\ storeFaults' \in 0..MaxStoreFaults
    BY <1>1, <1>3 DEF Store!Put, Store!PutStill, Store!Store, Store!Works, Store!MediaTypeOK
  <2>2. gen' \in [Files -> {"new", "put", "still", "status", "done", "failed"}]
    BY <1>3 DEF Store!Put, Store!PutStill, Store!MediaTypeOK
  <2>3. UNCHANGED <<used, file, stale, kept, refused, showcase, logo, dl, adm, pr>>
    BY <1>3 DEF Store!Put, Store!PutStill
  <2> QED
    BY <1>0, <2>1, <2>2, <2>3 DEF Store!MediaTypeOK
<1>4. ASSUME NEW f \in Files, Store!DeleteFile(f) \/ Store!DeleteStills(f) \/ Store!BlankRow(f) PROVE Store!MediaTypeOK'
  <2>1. /\ \/ objects' = objects /\ old' = old
           \/ \E k \in {f, Store!thumb(f)} : objects' = objects \ {k} /\ old' = old \ {k}
        /\ storeFaults' \in 0..MaxStoreFaults
    BY <1>1, <1>4 DEF Store!DeleteFile, Store!DeleteStills, Store!BlankRow, Store!Remove, Store!Works, Store!MediaTypeOK
  <2>2. dl' \in [Files -> {"idle", "still", "clear"}] /\ file' \subseteq file
    BY <1>4 DEF Store!DeleteFile, Store!DeleteStills, Store!BlankRow, Store!MediaTypeOK
  <2>3. UNCHANGED <<used, gen, stale, kept, refused, showcase, logo, adm, pr>>
    BY <1>4 DEF Store!DeleteFile, Store!DeleteStills, Store!BlankRow
  <2> QED
    BY <2>1, <2>2, <2>3 DEF Store!MediaTypeOK
<1>5. ASSUME NEW c \in Copies, Store!OpenImageContent(c) PROVE Store!MediaTypeOK'
  <2>1. /\ old' = old /\ objects' \in {objects, objects \cup {c}} /\ storeFaults' \in 0..MaxStoreFaults
        /\ kept' \subseteq Copies /\ refused' \subseteq Copies
    BY <1>1, <1>5 DEF Store!OpenImageContent, Store!Store, Store!Works, Store!MediaTypeOK
  <2>2. UNCHANGED <<used, gen, file, stale, showcase, logo, dl, adm, pr>>
    BY <1>5 DEF Store!OpenImageContent
  <2> QED
    BY <1>0, <2>1, <2>2 DEF Store!MediaTypeOK
<1>6. ASSUME NEW c \in Copies, Store!UrlLapses(c) PROVE Store!MediaTypeOK'
  BY <1>6 DEF Store!UrlLapses, Store!MediaTypeOK
<1>7. ASSUME NEW k \in Store!Keys, Store!Age(k) PROVE Store!MediaTypeOK'
  BY <1>7 DEF Store!Age, Store!MediaTypeOK
<1>8. ASSUME NEW k \in Assets, Store!UploadAsset(k) PROVE Store!MediaTypeOK'
  BY <1>0, <1>8 DEF Store!UploadAsset, Store!Store, Store!MediaTypeOK
<1>9. ASSUME NEW k \in Files \cup Assets, Store!CreateShowcase(k) \/ Store!DeleteShowcase(k) PROVE Store!MediaTypeOK'
  BY <1>9 DEF Store!CreateShowcase, Store!DeleteShowcase, Store!MediaTypeOK
<1>10. ASSUME NEW a \in Admins, NEW k \in Logos, Store!UploadLogo(a, k) PROVE Store!MediaTypeOK'
  BY <1>0, <1>10, UploadLogoMoves DEF Store!MediaTypeOK, Uploads
<1>11. ASSUME NEW a \in Admins, Store!RemoveLogo(a) \/ Store!ReadOldLogo(a) PROVE Store!MediaTypeOK'
  BY <1>11, RemoveLogoMoves, ReadOldLogoMoves DEF Store!MediaTypeOK, Uploads
<1>12. ASSUME NEW a \in Admins, Store!DropOldLogo(a) PROVE Store!MediaTypeOK'
  <2>1. storeFaults' \in 0..MaxStoreFaults
    BY <1>1, <1>12, DropOldLogoMoves DEF Store!MediaTypeOK
  <2> QED
    BY <1>12, <2>1, DropOldLogoMoves DEF Store!MediaTypeOK, Uploads
<1>13. ASSUME NEW a \in Admins, Store!WriteLogo(a) PROVE Store!MediaTypeOK'
  <2>1. storeFaults' \in 0..MaxStoreFaults /\ logo' \in Logos \cup {NoCall}
    BY <1>1, <1>13, WriteLogoMoves, UploadsTyped DEF Store!MediaTypeOK, Uploads
  <2> QED
    BY <1>13, <2>1, WriteLogoMoves DEF Store!MediaTypeOK, Uploads
<1>14. ASSUME NEW p \in Pruners, Store!prune(p) PROVE Store!MediaTypeOK'
  <2>1. pr' \in [Pruners -> Runs] /\ \A q \in Pruners \ {p} : pr'[q] = pr[q]
    BY <1>14, ListMoves, PublicFileSetMoves, PinLogoMoves, DeleteExpiredMoves, ClearFilesMoves DEF Store!prune
  <2>2. storeFaults' \in 0..MaxStoreFaults
    BY <1>1, <1>14, ListMoves, PublicFileSetMoves, PinLogoMoves, DeleteExpiredMoves, ClearFilesMoves
    DEF Store!prune, Store!MediaTypeOK
  <2>3. pr'[p].pc = "idle" => pr'[p].cleared = {}
    BY <1>14, ListMoves, PublicFileSetMoves, PinLogoMoves, DeleteExpiredMoves, ClearFilesMoves DEF Store!prune
  <2>4. /\ UNCHANGED <<used, gen, stale, kept, refused, showcase, logo, dl, adm>> /\ file' \subseteq file
        /\ (objects' = objects /\ old' = old) \/ \E k \in pr[p].todo : objects' = objects \ {k} /\ old' = old \ {k}
    BY <1>14, ListMoves, PublicFileSetMoves, PinLogoMoves, DeleteExpiredMoves, ClearFilesMoves DEF Store!prune
  <2> QED
    BY <2>1, <2>2, <2>3, <2>4 DEF Store!MediaTypeOK, Runs
<1>15. CASE UNCHANGED storeVars
  BY <1>15 DEF storeVars, Store!MediaTypeOK
<1> QED
  BY <1>2, <1>3, <1>4, <1>5, <1>6, <1>7, <1>8, <1>9, <1>10, <1>11, <1>12, <1>13, <1>14, <1>15 DEF Store!Next

\* A row that names a stored file names one that is there, or whoever deleted the file has
\* still to blank the row.
RowsInv ==
  \A f \in Files : gen[f] \in {"still", "status", "done"} /\ f \in file /\ f \notin objects =>
    dl[f] # "idle" \/ \E p \in Pruners : f \in pr[p].cleared

LEMMA RowsStep ==
  ASSUME "clear" \notin Faults, Store!MediaTypeOK, RowsInv, [Store!Next]_storeVars, adm' = adm
  PROVE  RowsInv'
<1> USE KeysApart DEF RowsInv
<1>0. /\ gen \in [Files -> {"new", "put", "still", "status", "done", "failed"}] /\ dl \in [Files -> {"idle", "still", "clear"}]
      /\ \A f, g \in Files : Store!thumb(f) # g
  BY DEF Store!MediaTypeOK
<1>1. ASSUME NEW f \in Files, Store!allocateOutput(f) PROVE RowsInv'
  BY <1>0, <1>1 DEF Store!allocateOutput
<1>2. ASSUME NEW f \in Files, Store!Put(f) \/ Store!PutStill(f) \/ Store!Finish(f) PROVE RowsInv'
  BY <1>0, <1>2 DEF Store!Put, Store!PutStill, Store!Finish, Store!Store
<1>3. ASSUME NEW f \in Files, Store!DeleteFile(f) PROVE RowsInv'
  BY <1>0, <1>3 DEF Store!DeleteFile, Store!Remove
<1>4. ASSUME NEW f \in Files, Store!DeleteStills(f) PROVE RowsInv'
  BY <1>0, <1>4 DEF Store!DeleteStills, Store!Remove
<1>5. ASSUME NEW f \in Files, Store!BlankRow(f) PROVE RowsInv'
  BY <1>0, <1>5 DEF Store!BlankRow, Store!Fails
<1>6. ASSUME NEW p \in Pruners, Store!List(p) \/ Store!PublicFileSet(p) \/ Store!PinLogo(p) PROVE RowsInv'
  BY <1>6, ListMoves, PublicFileSetMoves, PinLogoMoves
<1>7. ASSUME NEW p \in Pruners, Store!DeleteExpired(p) PROVE RowsInv'
  BY <1>7, DeleteExpiredMoves
<1>8. ASSUME NEW p \in Pruners, Store!ClearFiles(p) PROVE RowsInv'
  <2>1. /\ file' = file \ (pr[p].cleared \cap Files) /\ UNCHANGED <<objects, gen, dl>>
        /\ \A q \in Pruners \ {p} : pr'[q] = pr[q]
    BY <1>8, ClearFilesMoves DEF Store!Fails
  <2> QED
    BY <2>1
<1>9. ASSUME objects \subseteq objects', UNCHANGED <<gen, file, dl, pr>> PROVE RowsInv'
  BY <1>9
<1>10. ASSUME NEW c \in Copies, Store!OpenImageContent(c) \/ Store!UrlLapses(c) PROVE RowsInv'
  BY <1>9, <1>10 DEF Store!OpenImageContent, Store!UrlLapses, Store!Store
<1>11. ASSUME NEW k \in Store!Keys, Store!Age(k) \/ Store!UploadAsset(k) \/ Store!CreateShowcase(k) \/ Store!DeleteShowcase(k)
       PROVE  RowsInv'
  BY <1>9, <1>11 DEF Store!Age, Store!UploadAsset, Store!CreateShowcase, Store!DeleteShowcase, Store!Store
<1>12. ASSUME NEW a \in Admins PROVE /\ \A k \in Logos : ~Store!UploadLogo(a, k)
                                     /\ ~Store!RemoveLogo(a) /\ ~Store!ReadOldLogo(a) /\ ~Store!DropOldLogo(a) /\ ~Store!WriteLogo(a)
  BY UploadLogoMoves, RemoveLogoMoves, ReadOldLogoMoves, DropOldLogoMoves, WriteLogoMoves
<1>13. CASE UNCHANGED storeVars
  BY <1>9, <1>13 DEF storeVars
<1>14. Assets \subseteq Store!Keys /\ Files \subseteq Store!Keys
  OBVIOUS
<1> QED
  BY <1>1, <1>2, <1>3, <1>4, <1>5, <1>6, <1>7, <1>8, <1>10, <1>11, <1>12, <1>13, <1>14 DEF Store!Next, Store!prune

\* A key that an administrator is about to set names a logo that is there, young, and known
\* to nobody else; the sweep spares the logo it has read, which is the logo unless a younger
\* one has taken its place.
LogosInv ==
  /\ objects \cap Logos \subseteq used /\ logo \in used \cup {NoCall}
  /\ \A p \in Pruners : pr[p].todo \cap Logos \subseteq used /\ (p # "sweep" => pr[p].pc = "idle" /\ pr[p].todo = {})
  /\ \A a \in Admins : adm[a].prev \in used \cup {NoCall} /\ (adm[a].pc = "idle" => adm[a].key = NoCall)
  /\ \A a \in Admins : adm[a].key # NoCall =>
       /\ adm[a].key \in (objects \cap used) \ old /\ adm[a].key # logo
       /\ \A b \in Admins : adm[b].prev # adm[a].key /\ (b # a => adm[b].key # adm[a].key)
       /\ \A p \in Pruners : adm[a].key \notin pr[p].todo
  /\ \A p \in Pruners : pr[p].pc = "delete" /\ logo \in pr[p].todo \ {NoCall} => logo \in pr[p].pinned
  /\ showcase = {} /\ objects \cap (Files \cup Assets) = {}

LEMMA LogosStep ==
  ASSUME "write" \notin Faults, "logo" \notin Faults, Store!MediaTypeOK, LogosInv, Store!CurrentLogoExists,
         [Store!Next]_storeVars, objects' \subseteq Logos, \A p \in Pruners \ {"sweep"} : pr'[p] = pr[p]
  PROVE  LogosInv' /\ Store!CurrentLogoExists'
<1> USE KeysApart DEF LogosInv, Store!CurrentLogoExists
<1>0. /\ \A a \in Admins : adm[a] \in Uploads
      /\ logo \in Logos \cup {NoCall} /\ old \subseteq objects
      /\ \A p \in Pruners : pr[p] \in Runs
      /\ objects' \cap (Files \cup Assets) = {}
  BY UploadsTyped, RunsTyped DEF Store!MediaTypeOK
<1>1. ASSUME NEW f \in Files, Store!allocateOutput(f) \/ Store!Put(f) \/ Store!PutStill(f) \/ Store!Finish(f)
                                \/ Store!DeleteFile(f) \/ Store!DeleteStills(f) \/ Store!BlankRow(f)
      PROVE  LogosInv' /\ Store!CurrentLogoExists'
  <2>1. UNCHANGED <<used, showcase, logo, adm, pr>>
    BY <1>1 DEF Store!allocateOutput, Store!Put, Store!PutStill, Store!Finish, Store!DeleteFile, Store!DeleteStills, Store!BlankRow
  <2>2. objects' \cap Logos = objects \cap Logos /\ old' \cap Logos = old \cap Logos
    BY <1>1 DEF Store!allocateOutput, Store!Put, Store!PutStill, Store!Finish, Store!DeleteFile, Store!DeleteStills, Store!BlankRow,
       Store!Store, Store!Remove
  <2>3. \A a \in Admins : adm[a].key # NoCall => adm[a].key \in Logos
    BY <1>0 DEF Uploads
  <2> QED
    BY <1>0, <2>1, <2>2, <2>3
<1>2. ASSUME NEW c \in Copies, Store!OpenImageContent(c) \/ Store!UrlLapses(c) PROVE LogosInv' /\ Store!CurrentLogoExists'
  <2>1. UNCHANGED <<old, used, showcase, logo, adm, pr>> /\ objects' \in {objects, objects \cup {c}}
    BY <1>2 DEF Store!OpenImageContent, Store!UrlLapses, Store!Store
  <2> QED
    BY <1>0, <2>1
<1>3. ASSUME NEW k \in Store!Keys, Store!Age(k) PROVE LogosInv' /\ Store!CurrentLogoExists'
  BY <1>0, <1>3 DEF Store!Age
<1>4. ASSUME NEW k \in Files \cup Assets PROVE ~Store!UploadAsset(k) /\ ~Store!CreateShowcase(k) /\ ~Store!DeleteShowcase(k)
  BY <1>0, <1>4 DEF Store!UploadAsset, Store!Store, Store!CreateShowcase, Store!DeleteShowcase
<1>5. ASSUME NEW a \in Admins, NEW k \in Logos, Store!UploadLogo(a, k) PROVE LogosInv' /\ Store!CurrentLogoExists'
  <2>1. /\ adm[a].pc = "idle" /\ adm'[a].pc = "read" /\ adm'[a].key = k /\ adm'[a].prev = NoCall
        /\ k \notin used /\ used' = used \cup {k} /\ objects' = objects \cup {k} /\ old' = old
        /\ UNCHANGED <<showcase, logo, pr>>
        /\ \A b \in Admins \ {a} : adm'[b] = adm[b]
    BY <1>5, UploadLogoMoves
  <2> QED
    BY <1>0, <2>1
<1>6. ASSUME NEW a \in Admins, Store!RemoveLogo(a) PROVE LogosInv' /\ Store!CurrentLogoExists'
  BY <1>0, <1>6, RemoveLogoMoves
<1>7. ASSUME NEW a \in Admins, Store!ReadOldLogo(a) PROVE LogosInv' /\ Store!CurrentLogoExists'
  BY <1>0, <1>7, ReadOldLogoMoves
<1>8. ASSUME NEW a \in Admins, Store!DropOldLogo(a) PROVE LogosInv' /\ Store!CurrentLogoExists'
  <2>1. /\ adm[a].pc = "drop" /\ adm'[a].pc = "write" /\ adm'[a].prev = adm[a].prev /\ adm'[a].key = adm[a].key
        /\ \/ objects' = objects \ {adm[a].prev} /\ old' = old \ {adm[a].prev}
           \/ UNCHANGED <<objects, old>>
        /\ UNCHANGED <<used, showcase, logo, pr>>
        /\ \A b \in Admins \ {a} : adm'[b] = adm[b]
    BY <1>8, DropOldLogoMoves
  <2> QED
    BY <1>0, <2>1
<1>9. ASSUME NEW a \in Admins, Store!WriteLogo(a) PROVE LogosInv' /\ Store!CurrentLogoExists'
  <2>1. /\ adm'[a].pc = "idle" /\ adm'[a].key = NoCall /\ adm'[a].prev = NoCall /\ logo' = adm[a].key
        /\ UNCHANGED <<objects, old, used, showcase, pr>>
        /\ \A b \in Admins \ {a} : adm'[b] = adm[b]
    BY <1>9, WriteLogoMoves DEF Store!Fails
  <2> QED
    BY <1>0, <2>1
<1>10. ASSUME NEW p \in Pruners, Store!prune(p), p = "sweep" PROVE LogosInv' /\ Store!CurrentLogoExists'
  <2>1. CASE Store!List(p)
    BY <1>0, <1>10, <2>1, ListMoves
  <2>2. CASE Store!PublicFileSet(p)
    BY <1>0, <1>10, <2>2, PublicFileSetMoves
  <2>3. CASE Store!PinLogo(p)
    BY <1>0, <1>10, <2>3, PinLogoMoves DEF Store!Fails
  <2>4. CASE Store!DeleteExpired(p)
    <3>1. PICK k \in pr[p].todo :
            /\ pr'[p].todo = pr[p].todo \ {k}
            /\ \/ UNCHANGED <<objects, old>>
               \/ k \notin pr[p].pinned /\ objects' = objects \ {k} /\ old' = old \ {k}
      BY <2>4, DeleteExpiredMoves
    <3>2. /\ pr[p].pc = "delete" /\ pr'[p].pc = "delete" /\ pr'[p].pinned = pr[p].pinned
          /\ UNCHANGED <<used, showcase, logo, adm>> /\ \A q \in Pruners \ {p} : pr'[q] = pr[q]
      BY <2>4, DeleteExpiredMoves
    <3> QED
      BY <1>0, <1>10, <3>1, <3>2
  <2>5. CASE Store!ClearFiles(p)
    BY <1>0, <1>10, <2>5, ClearFilesMoves
  <2> QED
    BY <1>10, <2>1, <2>2, <2>3, <2>4, <2>5 DEF Store!prune
<1>11. ASSUME NEW p \in Pruners, Store!prune(p), p # "sweep" PROVE FALSE
  <2>1. pr[p].pc = "idle" /\ pr'[p].pc = "idle"
    BY <1>11
  <2> QED
    BY <1>11, <2>1, ListMoves, PublicFileSetMoves, PinLogoMoves, DeleteExpiredMoves, ClearFilesMoves DEF Store!prune
<1>12. CASE UNCHANGED storeVars
  BY <1>0, <1>12 DEF storeVars
<1> QED
  BY <1>1, <1>2, <1>3, <1>4, <1>5, <1>6, <1>7, <1>8, <1>9, <1>10, <1>11, <1>12 DEF Store!Next

\* What the sweep is to delete and is still there is past the window, and what of it the
\* showcase has is pinned: what the showcase is given meanwhile is younger.
HomeInv ==
  /\ logo = NoCall /\ objects \cap Assets \subseteq used
  /\ \A f \in Files : f \in old => gen[f] = "done"
  /\ \A p \in Pruners :
       /\ p # "sweep" => pr[p].pc = "idle"
       /\ pr[p].todo \cap Assets \subseteq used
       /\ \A f \in Files : f \in pr[p].todo => gen[f] = "done"
       /\ pr[p].todo \cap objects \cap (Files \cup Assets) \subseteq old
       /\ pr[p].pc \in {"logo", "delete"} => pr[p].todo \cap showcase \subseteq pr[p].pinned

LEMMA HomeStep ==
  ASSUME Store!MediaTypeOK, HomeInv, [Store!Next]_storeVars, adm' = adm, storeFaults' = storeFaults,
         (showcase' \ showcase) \cap old = {}, \A p \in Pruners \ {"sweep"} : pr'[p] = pr[p]
  PROVE  HomeInv'
<1> USE KeysApart DEF HomeInv
<1>0. /\ gen \in [Files -> {"new", "put", "still", "status", "done", "failed"}] /\ old \subseteq objects
      /\ \A p \in Pruners : pr[p] \in Runs
      /\ showcase \subseteq Files \cup Assets
      /\ \A kind : ~Store!Fails(kind)
  BY RunsTyped DEF Store!MediaTypeOK, Store!Fails
<1>1. ASSUME NEW f \in Files, Store!allocateOutput(f) \/ Store!Put(f) \/ Store!PutStill(f) \/ Store!Finish(f) PROVE HomeInv'
  <2>1. /\ UNCHANGED <<old, used, showcase, logo, pr>>
        /\ objects' \in {objects, objects \cup {Store!thumb(f)}} \/ (objects' = objects \cup {f} /\ gen[f] = "put")
        /\ gen[f] # "done" /\ \A g \in Files \ {f} : gen'[g] = gen[g]
    BY <1>0, <1>1 DEF Store!allocateOutput, Store!Put, Store!PutStill, Store!Finish, Store!Store
  <2> QED
    BY <1>0, <2>1
<1>2. ASSUME NEW f \in Files, Store!DeleteFile(f) \/ Store!DeleteStills(f) \/ Store!BlankRow(f) PROVE HomeInv'
  <2>1. /\ UNCHANGED <<gen, used, showcase, logo, pr>>
        /\ (objects' = objects /\ old' = old) \/ \E k \in {f, Store!thumb(f)} : objects' = objects \ {k} /\ old' = old \ {k}
    BY <1>2 DEF Store!DeleteFile, Store!DeleteStills, Store!BlankRow, Store!Remove
  <2> QED
    BY <1>0, <2>1
<1>3. ASSUME NEW c \in Copies, Store!OpenImageContent(c) \/ Store!UrlLapses(c) PROVE HomeInv'
  <2>1. UNCHANGED <<gen, old, used, showcase, logo, pr>> /\ objects' \in {objects, objects \cup {c}}
    BY <1>3 DEF Store!OpenImageContent, Store!UrlLapses, Store!Store
  <2> QED
    BY <1>0, <2>1
<1>4. ASSUME NEW k \in Store!Keys, Store!Age(k) PROVE HomeInv'
  BY <1>0, <1>4 DEF Store!Age
<1>5. ASSUME NEW k \in Assets, Store!UploadAsset(k) PROVE HomeInv'
  BY <1>0, <1>5 DEF Store!UploadAsset, Store!Store
<1>6. ASSUME NEW k \in Files \cup Assets, Store!CreateShowcase(k) \/ Store!DeleteShowcase(k) PROVE HomeInv'
  <2>1. CASE Store!CreateShowcase(k)
    <3>1. UNCHANGED <<objects, old, used, gen, logo, pr>> /\ showcase' = showcase \cup {k} /\ k \in objects \ old
      BY <2>1 DEF Store!CreateShowcase
    <3> QED
      BY <1>0, <3>1
  <2>2. CASE Store!DeleteShowcase(k)
    BY <2>2 DEF Store!DeleteShowcase
  <2> QED
    BY <1>6, <2>1, <2>2
<1>7. ASSUME NEW a \in Admins PROVE /\ \A k \in Logos : ~Store!UploadLogo(a, k)
                                    /\ ~Store!RemoveLogo(a) /\ ~Store!ReadOldLogo(a) /\ ~Store!DropOldLogo(a) /\ ~Store!WriteLogo(a)
  BY UploadLogoMoves, RemoveLogoMoves, ReadOldLogoMoves, DropOldLogoMoves, WriteLogoMoves
<1>8. ASSUME NEW p \in Pruners, Store!prune(p) PROVE HomeInv'
  <2>1. p = "sweep"
    <3>1. p # "sweep" => pr[p].pc = "idle" /\ pr'[p].pc = "idle"
      OBVIOUS
    <3> QED
      BY <1>8, <3>1, ListMoves, PublicFileSetMoves, PinLogoMoves, DeleteExpiredMoves, ClearFilesMoves DEF Store!prune
  <2>2. CASE Store!List(p)
    <3>1. /\ pr'[p].pc = "set" /\ pr'[p].todo = old /\ \A q \in Pruners \ {p} : pr'[q] = pr[q]
          /\ UNCHANGED <<objects, old, used, gen, showcase, logo>>
      BY <2>1, <2>2, ListMoves
    <3> QED
      BY <1>0, <2>1, <3>1
  <2>3. CASE Store!PublicFileSet(p)
    <3>1. pr'[p].pinned = showcase
      BY <1>0, <2>3, PublicFileSetMoves
    <3> QED
      BY <1>0, <2>1, <2>3, <3>1, PublicFileSetMoves
  <2>4. CASE Store!PinLogo(p)
    BY <1>0, <2>1, <2>4, PinLogoMoves
  <2>5. CASE Store!DeleteExpired(p)
    <3>1. PICK k \in pr[p].todo :
            /\ pr'[p].todo = pr[p].todo \ {k}
            /\ \/ UNCHANGED <<objects, old>>
               \/ k \notin pr[p].pinned /\ objects' = objects \ {k} /\ old' = old \ {k}
      BY <2>5, DeleteExpiredMoves
    <3>2. /\ pr[p].pc = "delete" /\ pr'[p].pc = "delete" /\ pr'[p].pinned = pr[p].pinned
          /\ UNCHANGED <<used, gen, showcase, logo>> /\ \A q \in Pruners \ {p} : pr'[q] = pr[q]
      BY <2>5, DeleteExpiredMoves
    <3> QED
      BY <1>0, <3>1, <3>2
  <2>6. CASE Store!ClearFiles(p)
    BY <1>0, <2>1, <2>6, ClearFilesMoves
  <2> QED
    BY <1>8, <2>2, <2>3, <2>4, <2>5, <2>6 DEF Store!prune
<1>9. CASE UNCHANGED storeVars
  BY <1>0, <1>9 DEF storeVars
<1> QED
  BY <1>1, <1>2, <1>3, <1>4, <1>5, <1>6, <1>7, <1>8, <1>9 DEF Store!Next

\* Where all that a run has to delete and the home page shows is pinned, it takes none of it.
LEMMA PinnedIsSpared ==
  ASSUME Store!MediaTypeOK, [Store!Next]_storeVars,
         \A p \in Pruners : pr[p].pc = "delete" => pr[p].todo \cap Store!Home \subseteq pr[p].pinned
  PROVE  Store!SparesHome
<1>1. ASSUME NEW p \in Pruners, Store!DeleteExpired(p) PROVE (objects \ objects') \cap Store!Home = {}
  BY <1>1, DeleteExpiredMoves
<1>2. ASSUME NEW p \in Pruners, Store!List(p) \/ Store!PublicFileSet(p) \/ Store!PinLogo(p) \/ Store!ClearFiles(p)
      PROVE  objects' = objects
  BY <1>2, ListMoves, PublicFileSetMoves, PinLogoMoves, ClearFilesMoves
<1>3. (\E p \in Pruners : Store!prune(p)) \/ pr' = pr
  BY DEF Store!Next, storeVars, Store!allocateOutput, Store!Put, Store!PutStill, Store!Finish, Store!DeleteFile, Store!DeleteStills,
     Store!BlankRow, Store!OpenImageContent, Store!UrlLapses, Store!Age, Store!UploadAsset, Store!CreateShowcase,
     Store!DeleteShowcase, Store!UploadLogo, Store!RemoveLogo, Store!ReadOldLogo, Store!DropOldLogo, Store!WriteLogo
<1>4. CASE \E p \in Pruners : Store!prune(p)
  BY <1>1, <1>2, <1>4 DEF Store!prune, Store!SparesHome
<1>5. CASE pr' = pr
  BY <1>5 DEF Store!SparesHome
<1> QED
  BY <1>3, <1>4, <1>5

-----------------------------------------------------------------------------
(* The model catalogue.                                                    *)

Editors == [op : {"idle", "create", "update", "lists", "strip"}, id : Ids \cup {NoAlias}, alias : Names \cup {NoAlias},
            seen : [Upstreams -> SUBSET Ids] \cup {<<>>}, todo : SUBSET Upstreams]

CatalogTypes ==
  /\ models \subseteq Ids /\ alias \in [Ids -> Names \cup {NoAlias}]
  /\ list \in [Upstreams -> SUBSET Ids] /\ wanted \in [Upstreams -> SUBSET (Ids \cup {NoAlias})]
  /\ editor \in [Admins -> Editors]
  /\ \A a \in Admins : editor[a].op = "strip" => editor[a].seen \in [Upstreams -> SUBSET Ids]
  /\ \A a \in Admins : editor[a].op \in {"create", "update", "lists", "strip"} => editor[a].id \in Ids
  /\ \A id \in Ids \ models : alias[id] = NoAlias
  /\ boots \in 0..MaxSeeds

\* Administrators take turns.
OneEditor == \A a, b \in Admins : editor[a].op # "idle" /\ editor[b].op # "idle" => a = b

\* Aliases are unique and no other row's id, and what was checked holds until it is written.
NamesInv ==
  /\ \A x, y \in models : alias[x] # NoAlias /\ (alias[x] = alias[y] \/ alias[x] = y) => x = y
  /\ \A a \in Admins : editor[a].op = "create" => ~Catalog!Collides(NoAlias, editor[a].id, editor[a].alias)
  /\ \A a \in Admins : editor[a].op = "update" => ~Catalog!Collides(editor[a].id, editor[a].id, editor[a].alias)

\* A list names a deleted model only where its administrator wants it or its deletion has
\* still to come by, and what is to be written back is as it was read.
ListsInv ==
  /\ \A u \in Upstreams, id \in Ids \ models :
       id \in list[u] => \/ id \in wanted[u]
                         \/ \E a \in Admins : /\ editor[a].id = id
                                              /\ editor[a].op = "lists" \/ (editor[a].op = "strip" /\ u \in editor[a].todo)
  /\ \A a \in Admins, u \in Upstreams : editor[a].op = "strip" /\ u \in editor[a].todo => editor[a].seen[u] = list[u]

LEMMA CatalogInitially == Catalog!Init => CatalogTypes /\ OneEditor /\ NamesInv /\ ListsInv
<1> SUFFICES ASSUME Catalog!Init PROVE CatalogTypes /\ OneEditor /\ NamesInv /\ ListsInv
  OBVIOUS
<1> USE MediaAssumption DEF Catalog!CatalogAssumption, Catalog!Init, Catalog!Idle
<1>1. CatalogTypes
  <2>1. list \in [Upstreams -> SUBSET Ids] /\ wanted \in [Upstreams -> SUBSET (Ids \cup {NoAlias})]
    OBVIOUS
  <2>2. editor \in [Admins -> Editors]
    BY DEF Editors
  <2>3. models \subseteq Ids /\ alias \in [Ids -> Names \cup {NoAlias}] /\ boots \in 0..MaxSeeds
    OBVIOUS
  <2>4. \A a \in Admins : editor[a].op = "idle"
    OBVIOUS
  <2>5. \A id \in Ids : alias[id] = NoAlias
    OBVIOUS
  <2> HIDE DEF Catalog!Init
  <2> QED
    BY <2>1, <2>2, <2>3, <2>4, <2>5 DEF CatalogTypes
<1>2. OneEditor /\ NamesInv
  BY DEF OneEditor, NamesInv
<1>3. ListsInv
  BY DEF ListsInv
<1> QED
  BY <1>1, <1>2, <1>3

\* Who takes something up is an administrator, and found the others idle.
LEMMA Taken ==
  ASSUME ~AdminsOverlap, NEW a \in Admins, Catalog!Free(a)
  PROVE  \A b \in Admins : editor[b].op = "idle"
BY DEF Catalog!Free

LEMMA CatalogTypesStep == CatalogTypes /\ [Catalog!Next]_catalogVars => CatalogTypes'
<1> SUFFICES ASSUME CatalogTypes, [Catalog!Next]_catalogVars PROVE CatalogTypes'
  OBVIOUS
<1>0. /\ Ids \subseteq Names /\ Builtin \subseteq Ids /\ NoAlias \notin Names /\ Lists \subseteq SUBSET Ids /\ MaxSeeds \in Nat
  BY MediaAssumption DEF Catalog!CatalogAssumption
<1>1. editor \in [Admins -> Editors] /\ \A a \in Admins : editor[a] \in Editors
  BY DEF CatalogTypes
<1>2. ASSUME NEW a \in Admins, NEW e \in Editors, editor' = [editor EXCEPT ![a] = e],
             e.op = "strip" => e.seen \in [Upstreams -> SUBSET Ids], e.op # "idle" => e.id \in Ids,
             UNCHANGED <<models, alias, list, boots>>, wanted' \in [Upstreams -> SUBSET (Ids \cup {NoAlias})]
      PROVE  CatalogTypes'
  BY <1>1, <1>2 DEF CatalogTypes
<1>3. Catalog!Idle \in Editors /\ Catalog!Idle.op = "idle"
  BY DEF Catalog!Idle, Editors
<1>4. ASSUME NEW a \in Admins, NEW id \in Ids, NEW al \in Names \cup {NoAlias}, Catalog!CreateModel(a, id, al)
      PROVE  CatalogTypes'
  <2> DEFINE e == [Catalog!Idle EXCEPT !.op = "create", !.id = id, !.alias = al]
  <2>1. e \in Editors /\ e.op = "create" /\ e.id = id
    BY DEF Catalog!Idle, Editors
  <2>2. editor' = [editor EXCEPT ![a] = e] /\ UNCHANGED <<models, alias, list, wanted, boots>>
    BY <1>4 DEF Catalog!CreateModel
  <2> HIDE DEF e
  <2> QED
    BY <1>2, <2>1, <2>2 DEF CatalogTypes
<1>5. ASSUME NEW a \in Admins, NEW id \in Ids, NEW al \in Names \cup {NoAlias}, Catalog!UpdateModel(a, id, al)
      PROVE  CatalogTypes'
  <2> DEFINE e == [Catalog!Idle EXCEPT !.op = "update", !.id = id, !.alias = al]
  <2>1. e \in Editors /\ e.op = "update" /\ e.id = id
    BY DEF Catalog!Idle, Editors
  <2>2. editor' = [editor EXCEPT ![a] = e] /\ UNCHANGED <<models, alias, list, wanted, boots>>
    BY <1>5 DEF Catalog!UpdateModel
  <2> HIDE DEF e
  <2> QED
    BY <1>2, <2>1, <2>2 DEF CatalogTypes
<1>6. ASSUME NEW a \in Admins, NEW id \in Ids, Catalog!DeleteModel(a, id) PROVE CatalogTypes'
  <2> DEFINE e == [Catalog!Idle EXCEPT !.op = "lists", !.id = id]
  <2>1. e \in Editors /\ e.op = "lists" /\ e.id = id
    BY DEF Catalog!Idle, Editors
  <2>2. /\ editor' = [editor EXCEPT ![a] = e] /\ UNCHANGED <<list, boots>> /\ models' = models \ {id}
        /\ alias' = [alias EXCEPT ![id] = NoAlias] /\ wanted' = [u \in Upstreams |-> Catalog!WithoutId(wanted[u], id)]
    BY <1>6 DEF Catalog!DeleteModel
  <2>3. wanted' \in [Upstreams -> SUBSET (Ids \cup {NoAlias})]
    BY <2>2 DEF CatalogTypes, Catalog!WithoutId
  <2>4. editor' \in [Admins -> Editors]
    BY <1>1, <2>1, <2>2
  <2> HIDE DEF e
  <2> QED
    BY <1>1, <2>1, <2>2, <2>3, <2>4 DEF CatalogTypes
<1>7. ASSUME NEW a \in Admins, Catalog!Create(a) \/ Catalog!Update(a) PROVE CatalogTypes'
  <2>1. editor' = [editor EXCEPT ![a] = Catalog!Idle] /\ UNCHANGED <<list, wanted, boots>> /\ editor[a].op \in {"create", "update"}
    BY <1>7 DEF Catalog!Create, Catalog!Update
  <2>2. editor[a].id \in Ids /\ editor[a].alias \in Names \cup {NoAlias}
    BY <1>1, <2>1 DEF CatalogTypes, Editors
  <2>3. models' \subseteq Ids /\ alias' \in [Ids -> Names \cup {NoAlias}] /\ \A id \in Ids \ models' : alias'[id] = NoAlias
    BY <1>7, <2>2 DEF Catalog!Create, Catalog!Update, CatalogTypes
  <2>4. editor' \in [Admins -> Editors] /\ \A b \in Admins : editor'[b] \in {Catalog!Idle, editor[b]}
    BY <1>1, <1>3, <2>1
  <2> QED
    BY <1>3, <2>1, <2>3, <2>4 DEF CatalogTypes
<1>8. ASSUME NEW a \in Admins, Catalog!removeModelFromUpstreams(a) PROVE CatalogTypes'
  <2> DEFINE named == {u \in Upstreams : editor[a].id \in list[u]}
             e == [editor[a] EXCEPT !.op = "strip", !.seen = list, !.todo = named]
  <2>1. /\ editor' = [editor EXCEPT ![a] = IF named = {} THEN Catalog!Idle ELSE e] /\ UNCHANGED <<models, alias, list, wanted, boots>>
        /\ editor[a].op = "lists"
    BY <1>8 DEF Catalog!removeModelFromUpstreams
  <2>2. named \in SUBSET Upstreams /\ list \in [Upstreams -> SUBSET Ids]
    BY DEF CatalogTypes
  <2> HIDE DEF named
  <2>3. e \in Editors /\ e.seen = list /\ e.id = editor[a].id
    BY <1>1, <2>2 DEF Editors
  <2>4. editor[a].id \in Ids
    BY <2>1 DEF CatalogTypes
  <2> HIDE DEF e
  <2> QED
    BY <1>2, <1>3, <2>1, <2>2, <2>3, <2>4 DEF CatalogTypes
<1>9. ASSUME NEW a \in Admins, Catalog!Strip(a) PROVE CatalogTypes'
  <2>1. PICK u \in editor[a].todo :
          /\ list' = [list EXCEPT ![u] = Catalog!Kept(a, u)]
          /\ editor' = [editor EXCEPT ![a] = IF editor[a].todo = {u} THEN Catalog!Idle ELSE [editor[a] EXCEPT !.todo = editor[a].todo \ {u}]]
    BY <1>9 DEF Catalog!Strip
  <2> DEFINE e == [editor[a] EXCEPT !.todo = editor[a].todo \ {u}]
  <2>2. e \in Editors /\ e.seen = editor[a].seen /\ e.id = editor[a].id
    BY <1>1 DEF Editors
  <2>3. editor[a].op = "strip" /\ UNCHANGED <<models, alias, wanted, boots>>
    BY <1>9 DEF Catalog!Strip
  <2>4. editor[a].seen \in [Upstreams -> SUBSET Ids] /\ editor[a].id \in Ids /\ u \in Upstreams
    BY <1>1, <2>3 DEF CatalogTypes, Editors
  <2>5. list' \in [Upstreams -> SUBSET Ids]
    BY <2>1, <2>4 DEF Catalog!Kept, CatalogTypes
  <2> HIDE DEF e
  <2>6. \A b \in Admins : editor'[b] \in {Catalog!Idle, editor[b]} \/ (b = a /\ editor'[b] = e)
    BY <1>1, <2>1 DEF e
  <2>7. editor' \in [Admins -> Editors]
    BY <1>1, <1>3, <2>1, <2>2 DEF e
  <2> QED
    BY <1>3, <2>2, <2>3, <2>4, <2>5, <2>6, <2>7 DEF CatalogTypes
<1>10. ASSUME NEW a \in Admins, NEW u \in Upstreams, NEW l \in Lists, Catalog!ImportCustomAccount(a, u, l) PROVE CatalogTypes'
  BY <1>0, <1>10 DEF Catalog!ImportCustomAccount, CatalogTypes
<1>11. CASE Catalog!seedDefaults
  <2>1. models' \subseteq Ids /\ boots' \in 0..MaxSeeds
    BY <1>0, <1>11 DEF Catalog!seedDefaults, Catalog!Missing, CatalogTypes
  <2>2. models \subseteq models' /\ UNCHANGED <<alias, list, wanted, editor>>
    BY <1>11 DEF Catalog!seedDefaults
  <2> QED
    BY <2>1, <2>2 DEF CatalogTypes
<1>12. CASE UNCHANGED catalogVars
  BY <1>12 DEF catalogVars, CatalogTypes
<1> QED
  BY <1>4, <1>5, <1>6, <1>7, <1>8, <1>9, <1>10, <1>11, <1>12 DEF Catalog!Next, Catalog!Work

\* What each step makes of an administrator's work.
LEMMA EditorMoves ==
  ASSUME CatalogTypes, NEW a \in Admins
  PROVE  /\ \A id \in Ids, al \in Names \cup {NoAlias} :
              Catalog!CreateModel(a, id, al) =>
                editor'[a].op = "create" /\ editor'[a].id = id /\ editor'[a].alias = al
         /\ \A id \in Ids, al \in Names \cup {NoAlias} :
              Catalog!UpdateModel(a, id, al) =>
                editor'[a].op = "update" /\ editor'[a].id = id /\ editor'[a].alias = al
         /\ \A id \in Ids : Catalog!DeleteModel(a, id) => editor'[a].op = "lists" /\ editor'[a].id = id
         /\ Catalog!Create(a) \/ Catalog!Update(a) => editor'[a].op = "idle"
         /\ Catalog!removeModelFromUpstreams(a) =>
              \/ editor'[a].op = "idle" /\ \A u \in Upstreams : editor[a].id \notin list[u]
              \/ /\ editor'[a].op = "strip" /\ editor'[a].id = editor[a].id /\ editor'[a].seen = list
                 /\ editor'[a].todo = {u \in Upstreams : editor[a].id \in list[u]}
         /\ Catalog!Strip(a) =>
              \E u \in editor[a].todo :
                /\ list' = [list EXCEPT ![u] = Catalog!Kept(a, u)]
                /\ \/ editor'[a].op = "idle" /\ editor[a].todo = {u}
                   \/ /\ editor'[a].op = "strip" /\ editor'[a].id = editor[a].id /\ editor'[a].seen = editor[a].seen
                      /\ editor'[a].todo = editor[a].todo \ {u}
<1>1. editor \in [Admins -> Editors] /\ editor[a] \in Editors /\ Catalog!Idle.op = "idle"
  BY DEF CatalogTypes, Catalog!Idle
<1>2. ASSUME NEW id \in Ids, NEW al \in Names \cup {NoAlias}
      PROVE  /\ Catalog!CreateModel(a, id, al) => editor'[a].op = "create" /\ editor'[a].id = id /\ editor'[a].alias = al
             /\ Catalog!UpdateModel(a, id, al) => editor'[a].op = "update" /\ editor'[a].id = id /\ editor'[a].alias = al
  BY <1>1 DEF Catalog!CreateModel, Catalog!UpdateModel, Catalog!Idle
<1>3. ASSUME NEW id \in Ids, Catalog!DeleteModel(a, id) PROVE editor'[a].op = "lists" /\ editor'[a].id = id
  BY <1>1, <1>3 DEF Catalog!DeleteModel, Catalog!Idle
<1>4. ASSUME Catalog!Create(a) \/ Catalog!Update(a) PROVE editor'[a].op = "idle"
  BY <1>1, <1>4 DEF Catalog!Create, Catalog!Update
<1>5. ASSUME Catalog!removeModelFromUpstreams(a)
      PROVE  \/ editor'[a].op = "idle" /\ \A u \in Upstreams : editor[a].id \notin list[u]
             \/ /\ editor'[a].op = "strip" /\ editor'[a].id = editor[a].id /\ editor'[a].seen = list
                /\ editor'[a].todo = {u \in Upstreams : editor[a].id \in list[u]}
  <2> DEFINE named == {u \in Upstreams : editor[a].id \in list[u]}
  <2>1. editor' = [editor EXCEPT ![a] = IF named = {} THEN Catalog!Idle
                                          ELSE [editor[a] EXCEPT !.op = "strip", !.seen = list, !.todo = named]]
    BY <1>5 DEF Catalog!removeModelFromUpstreams
  <2>2. CASE named = {}
    BY <1>1, <2>1, <2>2
  <2>3. CASE named # {}
    BY <1>1, <2>1, <2>3 DEF Editors
  <2> QED
    BY <2>2, <2>3
<1>6. ASSUME Catalog!Strip(a)
      PROVE  \E u \in editor[a].todo :
               /\ list' = [list EXCEPT ![u] = Catalog!Kept(a, u)]
               /\ \/ editor'[a].op = "idle" /\ editor[a].todo = {u}
                  \/ /\ editor'[a].op = "strip" /\ editor'[a].id = editor[a].id /\ editor'[a].seen = editor[a].seen
                     /\ editor'[a].todo = editor[a].todo \ {u}
  <2>1. PICK u \in editor[a].todo :
          /\ list' = [list EXCEPT ![u] = Catalog!Kept(a, u)]
          /\ editor' = [editor EXCEPT ![a] = IF editor[a].todo = {u} THEN Catalog!Idle ELSE [editor[a] EXCEPT !.todo = editor[a].todo \ {u}]]
    BY <1>6 DEF Catalog!Strip
  <2>2. CASE editor[a].todo = {u}
    BY <1>1, <2>1, <2>2
  <2>3. CASE editor[a].todo # {u}
    <3>1. editor'[a] = [editor[a] EXCEPT !.todo = editor[a].todo \ {u}] /\ editor[a].op = "strip"
      BY <1>1, <1>6, <2>1, <2>3 DEF Catalog!Strip
    <3>2. /\ editor'[a].op = "strip" /\ editor'[a].id = editor[a].id /\ editor'[a].seen = editor[a].seen
          /\ editor'[a].todo = editor[a].todo \ {u}
      BY <1>1, <3>1 DEF Editors
    <3> QED
      BY <2>1, <3>2
  <2> QED
    BY <2>2, <2>3
<1> QED
  BY <1>2, <1>3, <1>4, <1>5, <1>6

\* A step is one administrator's, or none's.
LEMMA OthersEdit ==
  ASSUME CatalogTypes, NEW a \in Admins,
         \/ \E id \in Ids, al \in Names \cup {NoAlias} : Catalog!CreateModel(a, id, al) \/ Catalog!UpdateModel(a, id, al)
         \/ \E id \in Ids : Catalog!DeleteModel(a, id)
         \/ Catalog!Work(a)
  PROVE  \A b \in Admins \ {a} : editor'[b] = editor[b]
BY DEF CatalogTypes, Catalog!CreateModel, Catalog!UpdateModel, Catalog!DeleteModel, Catalog!Work, Catalog!Create,
   Catalog!Update, Catalog!removeModelFromUpstreams, Catalog!Strip

LEMMA OneEditorStep ==
  ASSUME ~AdminsOverlap, CatalogTypes, OneEditor, [Catalog!Next]_catalogVars
  PROVE  OneEditor'
<1>1. ASSUME NEW a \in Admins,
             \/ \E id \in Ids, al \in Names \cup {NoAlias} : Catalog!CreateModel(a, id, al) \/ Catalog!UpdateModel(a, id, al)
             \/ \E id \in Ids : Catalog!DeleteModel(a, id)
      PROVE  OneEditor'
  <2>1. \A b \in Admins : editor[b].op = "idle"
    BY <1>1, Taken DEF Catalog!CreateModel, Catalog!UpdateModel, Catalog!DeleteModel
  <2>2. \A b \in Admins \ {a} : editor'[b] = editor[b]
    BY <1>1, OthersEdit
  <2> QED
    BY <2>1, <2>2 DEF OneEditor
<1>2. ASSUME NEW a \in Admins, Catalog!Work(a) PROVE OneEditor'
  <2>1. editor[a].op # "idle"
    BY <1>2 DEF Catalog!Work, Catalog!Create, Catalog!Update, Catalog!removeModelFromUpstreams, Catalog!Strip
  <2>2. \A b \in Admins \ {a} : editor'[b] = editor[b]
    BY <1>2, OthersEdit
  <2> QED
    BY <2>1, <2>2 DEF OneEditor
<1>3. CASE editor' = editor
  BY <1>3 DEF OneEditor
<1> QED
  BY <1>1, <1>2, <1>3 DEF Catalog!Next, Catalog!ImportCustomAccount, Catalog!seedDefaults, catalogVars

LEMMA NamesStep ==
  ASSUME ~AdminsOverlap, CatalogTypes, OneEditor, NamesInv, [Catalog!Next]_catalogVars, Catalog!Missing \cap models' = {}
  PROVE  NamesInv'
<1>0. /\ alias \in [Ids -> Names \cup {NoAlias}] /\ models \subseteq Ids /\ Ids \subseteq Names /\ NoAlias \notin Names
      /\ Builtin \subseteq Ids
  BY MediaAssumption DEF CatalogTypes, Catalog!CatalogAssumption
<1> USE DEF NamesInv, Catalog!Collides
<1>1. ASSUME NEW a \in Admins, NEW id \in Ids, NEW al \in Names \cup {NoAlias},
             Catalog!CreateModel(a, id, al) \/ Catalog!UpdateModel(a, id, al)
      PROVE  NamesInv'
  <2>1. \A b \in Admins : editor[b].op = "idle"
    BY <1>1, Taken DEF Catalog!CreateModel, Catalog!UpdateModel
  <2>2. \A b \in Admins \ {a} : editor'[b].op = "idle"
    BY <1>1, <2>1, OthersEdit
  <2>3. UNCHANGED <<models, alias>>
    BY <1>1 DEF Catalog!CreateModel, Catalog!UpdateModel
  <2>4. CASE Catalog!CreateModel(a, id, al)
    <3>1. editor'[a].op = "create" /\ editor'[a].id = id /\ editor'[a].alias = al
      BY <2>4, EditorMoves
    <3>2. ~Catalog!Collides(NoAlias, id, al)
      BY <2>4 DEF Catalog!CreateModel
    <3> QED
      BY <2>2, <2>3, <3>1, <3>2
  <2>5. CASE Catalog!UpdateModel(a, id, al)
    <3>1. editor'[a].op = "update" /\ editor'[a].id = id /\ editor'[a].alias = al
      BY <2>5, EditorMoves
    <3>2. ~Catalog!Collides(id, id, al)
      BY <2>5 DEF Catalog!UpdateModel
    <3> QED
      BY <2>2, <2>3, <3>1, <3>2
  <2> QED
    BY <1>1, <2>4, <2>5
<1>2. ASSUME NEW a \in Admins, NEW id \in Ids, Catalog!DeleteModel(a, id) PROVE NamesInv'
  <2>1. \A b \in Admins : editor'[b].op \in {"idle", "lists"}
    <3>1. \A b \in Admins : editor[b].op = "idle"
      BY <1>2, Taken DEF Catalog!DeleteModel
    <3> QED
      BY <1>2, <3>1, OthersEdit, EditorMoves
  <2>2. models' = models \ {id} /\ alias' = [alias EXCEPT ![id] = NoAlias]
    BY <1>2 DEF Catalog!DeleteModel
  <2> QED
    BY <1>0, <2>1, <2>2
<1>3. ASSUME NEW a \in Admins, Catalog!Create(a) \/ Catalog!Update(a) PROVE NamesInv'
  <2>1. \A b \in Admins : editor'[b].op = "idle"
    <3>1. editor[a].op # "idle" /\ \A b \in Admins : editor[b].op \in {"idle", "create", "update", "lists", "strip"}
      BY <1>3 DEF Catalog!Create, Catalog!Update, CatalogTypes, Editors
    <3>2. \A b \in Admins \ {a} : editor'[b] = editor[b] /\ editor[b].op = "idle"
      BY <1>3, <3>1, OthersEdit DEF Catalog!Work, OneEditor
    <3> QED
      BY <1>3, <3>2, EditorMoves
  <2>2. editor[a].id \in Ids
    BY <1>3 DEF CatalogTypes, Catalog!Create, Catalog!Update
  <2>3. CASE Catalog!Create(a)
    <3>1. editor[a].op = "create" /\ ~Catalog!Collides(NoAlias, editor[a].id, editor[a].alias)
      BY <2>3 DEF Catalog!Create
    <3>2. \/ UNCHANGED <<models, alias>>
          \/ models' = models \cup {editor[a].id} /\ alias' = [alias EXCEPT ![editor[a].id] = editor[a].alias]
      BY <2>3 DEF Catalog!Create
    <3> QED
      BY <1>0, <2>1, <2>2, <3>1, <3>2
  <2>4. CASE Catalog!Update(a)
    <3>1. editor[a].op = "update" /\ ~Catalog!Collides(editor[a].id, editor[a].id, editor[a].alias)
      BY <2>4 DEF Catalog!Update
    <3>2. models' = models /\ (alias' = alias \/ alias' = [alias EXCEPT ![editor[a].id] = editor[a].alias])
      BY <2>4 DEF Catalog!Update
    <3> QED
      BY <1>0, <2>1, <2>2, <3>1, <3>2
  <2> QED
    BY <1>3, <2>3, <2>4
<1>4. ASSUME NEW a \in Admins, Catalog!removeModelFromUpstreams(a) \/ Catalog!Strip(a) PROVE NamesInv'
  <2>1. UNCHANGED <<models, alias>> /\ editor'[a].op \in {"idle", "strip"}
    BY <1>4, EditorMoves DEF Catalog!removeModelFromUpstreams, Catalog!Strip
  <2>2. \A b \in Admins \ {a} : editor'[b] = editor[b]
    BY <1>4, OthersEdit DEF Catalog!Work
  <2> QED
    BY <2>1, <2>2
<1>5. CASE Catalog!seedDefaults
  <2>1. models' = models /\ alias' = alias /\ editor' = editor
    BY <1>5 DEF Catalog!seedDefaults, Catalog!Missing
  <2> QED
    BY <2>1
<1>6. CASE UNCHANGED <<models, alias, editor>>
  BY <1>6
<1> QED
  BY <1>1, <1>2, <1>3, <1>4, <1>5, <1>6 DEF Catalog!Next, Catalog!Work, Catalog!ImportCustomAccount, catalogVars

LEMMA ListsStep ==
  ASSUME ~AdminsOverlap, CatalogTypes, OneEditor, ListsInv, [Catalog!Next]_catalogVars
  PROVE  ListsInv'
<1>0. /\ \A u \in Upstreams : list[u] \subseteq Ids /\ DOMAIN list = Upstreams
      /\ wanted \in [Upstreams -> SUBSET (Ids \cup {NoAlias})] /\ NoAlias \notin Ids /\ models \subseteq Ids
      /\ \A a \in Admins : editor[a].todo \subseteq Upstreams
  BY MediaAssumption DEF CatalogTypes, Catalog!CatalogAssumption, Editors
<1> USE DEF ListsInv
<1>1. ASSUME NEW a \in Admins, NEW id \in Ids, NEW al \in Names \cup {NoAlias},
             Catalog!CreateModel(a, id, al) \/ Catalog!UpdateModel(a, id, al)
      PROVE  ListsInv'
  <2>1. (\A b \in Admins : editor[b].op = "idle") /\ UNCHANGED <<models, list, wanted>>
    BY <1>1, Taken DEF Catalog!CreateModel, Catalog!UpdateModel
  <2>2. \A b \in Admins : editor'[b].op \in {"idle", "create", "update"}
    BY <1>1, <2>1, OthersEdit, EditorMoves
  <2> QED
    BY <2>1, <2>2
<1>2. ASSUME NEW a \in Admins, NEW id \in Ids, Catalog!DeleteModel(a, id) PROVE ListsInv'
  <2>1. (\A b \in Admins : editor[b].op = "idle") /\ list' = list /\ models' = models \ {id}
    BY <1>2, Taken DEF Catalog!DeleteModel
  <2>2. editor'[a].op = "lists" /\ editor'[a].id = id /\ \A b \in Admins \ {a} : editor'[b].op = "idle"
    BY <1>2, <2>1, OthersEdit, EditorMoves
  <2>3. \A u \in Upstreams : wanted[u] \ {id} \subseteq wanted'[u]
    BY <1>2 DEF Catalog!DeleteModel, Catalog!WithoutId
  <2> QED
    BY <2>1, <2>2, <2>3
<1>3. ASSUME NEW a \in Admins, Catalog!Create(a) \/ Catalog!Update(a) PROVE ListsInv'
  <2>1. /\ models \subseteq models' /\ UNCHANGED <<list, wanted>> /\ editor'[a].op = "idle"
        /\ editor[a].op \in {"create", "update"}
    BY <1>3, EditorMoves DEF Catalog!Create, Catalog!Update
  <2>2. \A b \in Admins \ {a} : editor'[b] = editor[b]
    BY <1>3, OthersEdit DEF Catalog!Work
  <2> QED
    BY <2>1, <2>2
<1>4. ASSUME NEW a \in Admins, Catalog!removeModelFromUpstreams(a) PROVE ListsInv'
  <2>1. UNCHANGED <<models, list, wanted>> /\ editor[a].op = "lists"
    BY <1>4 DEF Catalog!removeModelFromUpstreams
  <2>2. \A b \in Admins \ {a} : editor'[b] = editor[b]
    BY <1>4, OthersEdit DEF Catalog!Work
  <2>3. CASE editor'[a].op = "idle" /\ \A u \in Upstreams : editor[a].id \notin list[u]
    BY <2>1, <2>2, <2>3
  <2>4. CASE /\ editor'[a].op = "strip" /\ editor'[a].id = editor[a].id /\ editor'[a].seen = list
             /\ editor'[a].todo = {u \in Upstreams : editor[a].id \in list[u]}
    BY <2>1, <2>2, <2>4
  <2> QED
    BY <1>4, <2>3, <2>4, EditorMoves
<1>5. ASSUME NEW a \in Admins, Catalog!Strip(a) PROVE ListsInv'
  <2>1. UNCHANGED <<models, wanted>> /\ editor[a].op = "strip"
    BY <1>5 DEF Catalog!Strip
  <2>2. \A b \in Admins \ {a} : editor'[b] = editor[b] /\ editor[b].op = "idle"
    BY <1>5, <2>1, OthersEdit DEF Catalog!Work, OneEditor, CatalogTypes, Editors
  <2>3. PICK u \in editor[a].todo :
                /\ list' = [list EXCEPT ![u] = Catalog!Kept(a, u)]
                /\ \/ editor'[a].op = "idle" /\ editor[a].todo = {u}
                   \/ /\ editor'[a].op = "strip" /\ editor'[a].id = editor[a].id /\ editor'[a].seen = editor[a].seen
                      /\ editor'[a].todo = editor[a].todo \ {u}
    BY <1>5, EditorMoves
  <2>4. Catalog!Kept(a, u) = list[u] \ {editor[a].id} /\ u \in Upstreams
    BY <1>0, <2>1, <2>3 DEF Catalog!Kept
  <2>5. /\ list'[u] = list[u] \ {editor[a].id}
        /\ \A v \in Upstreams \ {u} : list'[v] = list[v]
    BY <1>0, <2>3, <2>4
  <2> QED
    BY <2>1, <2>2, <2>3, <2>5
<1>6. ASSUME NEW a \in Admins, NEW u \in Upstreams, NEW l \in Lists, Catalog!ImportCustomAccount(a, u, l) PROVE ListsInv'
  <2>1. (\A b \in Admins : editor[b].op = "idle") /\ UNCHANGED <<models, editor>>
    BY <1>6, Taken DEF Catalog!ImportCustomAccount
  <2>2. list' = [list EXCEPT ![u] = l] /\ wanted' = [wanted EXCEPT ![u] = l]
    BY <1>6 DEF Catalog!ImportCustomAccount
  <2> QED
    BY <1>0, <2>1, <2>2
<1>7. CASE Catalog!seedDefaults
  BY <1>7 DEF Catalog!seedDefaults
<1>8. CASE UNCHANGED catalogVars
  BY <1>8 DEF catalogVars
<1> QED
  BY <1>1, <1>2, <1>3, <1>4, <1>5, <1>6, <1>7, <1>8 DEF Catalog!Next, Catalog!Work

\* What the invariants say of the names and the lists.
LEMMA CatalogRight ==
  ASSUME CatalogTypes
  PROVE  /\ Catalog!CatalogTypeOK
         /\ NamesInv => Catalog!NamesOneModel /\ Catalog!AliasIsNoId
         /\ ListsInv => Catalog!NoOrphans
<1>1. Catalog!CatalogTypeOK
  BY DEF Catalog!CatalogTypeOK, CatalogTypes, Editors
<1>2. ASSUME NamesInv PROVE Catalog!NamesOneModel /\ Catalog!AliasIsNoId
  <2>1. Catalog!NamesOneModel
    BY <1>2, MediaAssumption DEF NamesInv, Catalog!NamesOneModel, Catalog!Get, Catalog!CatalogAssumption, CatalogTypes
  <2>2. Catalog!AliasIsNoId
    BY <1>2, MediaAssumption DEF NamesInv, Catalog!AliasIsNoId, Catalog!CatalogAssumption, CatalogTypes
  <2> QED
    BY <2>1, <2>2
<1>3. ListsInv => Catalog!NoOrphans
  BY DEF ListsInv, Catalog!NoOrphans
<1> QED
  BY <1>1, <1>2, <1>3

-----------------------------------------------------------------------------
(* The statistics.                                                         *)

\* The instances' cardinality is the cardinality.
LEMMA SameCount == /\ \A S : Stats!Cardinality(S) = Cardinality(S)
                   /\ \A S : Stats!IsFiniteSet(S) = IsFiniteSet(S)
BY DEF Stats!Cardinality, Cardinality, Stats!IsFiniteSet, IsFiniteSet

LEMMA GensCounted ==
  ASSUME NEW S \in SUBSET Gens
  PROVE  /\ IsFiniteSet(S) /\ Cardinality(S) \in Nat
         /\ \A g \in Gens \ S : Cardinality(S \cup {g}) = Cardinality(S) + 1
         /\ \A R \in SUBSET S : Cardinality(R) <= Cardinality(S)
<1>1. IsFiniteSet(Gens)
  BY MediaAssumption, SameCount DEF Stats!StatAssumption
<1>2. IsFiniteSet(S)
  BY <1>1, FS_Subset
<1>3. Cardinality(S) \in Nat
  BY <1>2, FS_CardinalityType
<1>4. \A g \in Gens \ S : Cardinality(S \cup {g}) = Cardinality(S) + 1
  BY <1>2, FS_AddElement
<1>5. \A R \in SUBSET S : Cardinality(R) <= Cardinality(S)
  BY <1>2, FS_Subset
<1> QED
  BY <1>2, <1>3, <1>4, <1>5

\* What has succeeded and is counted for the model, and on the cards.
CountedRuns == {g \in done : generation[g].at \notin {"success", "model"}}
CountedCards == {g \in done : generation[g].at # "success"}

Seeding == {"models", "rows", "insert"}

\* The types of the statistics.
StatTypes ==
  /\ boot \in [Procs -> {"down", "models", "rows", "insert", "up"}] /\ starts \in 0..MaxStarts
  /\ generation \in [Gens -> [at : Stats!Steps, proc : Procs]]
  /\ log \in [Gens -> {"none", "pending", "success"}] /\ done \subseteq Gens
  /\ stat \in [Stats!Keys -> Nat \cup {Stats!NoRow}] /\ made \in Nat
  /\ clears \in 0..MaxClears /\ deaths \in 0..MaxDeaths

\* One process at a time, and whoever counts is at one that serves, whose counters
\* have their rows, or none has one.
OneProcess ==
  /\ \A p, q \in Procs : boot[p] # "down" /\ boot[q] # "down" => p = q
  /\ \A p \in Procs : boot[p] # "down" => starts > 0
  /\ \A g \in Gens : generation[g].at \notin {"new", "over"} => boot[generation[g].proc] = "up"
  /\ stat["total"] = Stats!NoRow <=> stat["success"] = Stats!NoRow
  /\ \A p \in Procs : boot[p] = "up" => stat["success"] # Stats!NoRow

\* A generation that has succeeded is past its log row's transition.
Succeeded ==
  /\ \A g \in done : generation[g].at \in {"success", "model", "over"}
  /\ \A g \in Gens : generation[g].at \in {"success", "model"} => g \in done
  /\ \A g \in Gens : log[g] = "success" => g \in done

\* No count is above what has been counted.
NoneAbove == made <= Cardinality(CountedRuns) /\ stat["success"] <= Cardinality(CountedCards)

\* While nothing dies and no log is cleared, the log has what was done, and the counts
\* are exact once they have been seeded.
Exact ==
  /\ Stats!Logged("success") = done
  /\ \A g \in Gens : generation[g].at \in {"total", "runs"} => log[g] = "pending"
  /\ \/ made = Cardinality(CountedRuns)
     \/ made = 0 /\ (starts = 0 \/ \E p \in Procs : boot[p] = "models")
  /\ \/ stat["success"] = Cardinality(CountedCards)
     \/ stat["success"] = Stats!NoRow /\ (starts = 0 \/ \E p \in Procs : boot[p] \in Seeding)

StatInv ==
  /\ StatTypes /\ OneProcess /\ Succeeded /\ NoneAbove
  /\ deaths = 0 /\ clears = 0 => Exact

LEMMA StatInitially == Stats!Init => StatInv
<1> SUFFICES ASSUME Stats!Init PROVE StatInv
  OBVIOUS
<1> USE DEF Stats!Init, Stats!Steps, Stats!Keys, Stats!NoRow
<1>1. PICK p \in Procs : generation = [g \in Gens |-> [at |-> IF g \in History THEN "over" ELSE "new", proc |-> p]]
  OBVIOUS
<1>2. History \subseteq Gens /\ {MaxClears, MaxStarts, MaxDeaths} \subseteq Nat
  BY MediaAssumption DEF Stats!StatAssumption
<1>3. StatTypes
  BY <1>1, <1>2 DEF StatTypes
<1>4. OneProcess /\ Succeeded
  BY <1>1, <1>2 DEF OneProcess, Succeeded
<1>5. CountedRuns \in SUBSET Gens /\ CountedCards \in SUBSET Gens
  BY <1>2 DEF CountedRuns, CountedCards
<1>6. NoneAbove
  BY <1>5, GensCounted DEF NoneAbove
<1>7. Exact
  BY <1>1, <1>2 DEF Exact, Stats!Logged
<1> QED
  BY <1>3, <1>4, <1>6, <1>7 DEF StatInv

LEMMA StatTypesStep == StatTypes /\ [Stats!Next]_statVars => StatTypes'
<1> SUFFICES ASSUME StatTypes, [Stats!Next]_statVars PROVE StatTypes'
  OBVIOUS
<1> USE MediaAssumption, SameCount DEF StatTypes, Stats!StatAssumption, Stats!Steps, Stats!Keys, Stats!NoRow
<1>1. \A s : Stats!Cardinality(Stats!Logged(s)) \in Nat /\ Stats!Cardinality(Gens \ Stats!Logged(s)) \in Nat
  BY GensCounted DEF Stats!Logged
<1>2. ASSUME NEW k \in {"total", "success"}, Stats!incrCounters(k) PROVE stat' \in [{"total", "success"} -> Nat \cup {-1}]
  BY <1>2 DEF Stats!incrCounters
<1>3. ASSUME NEW p \in Procs, Stats!Start(p) \/ Stats!CountRows(p) \/ Stats!Stop(p) PROVE StatTypes'
  BY <1>3 DEF Stats!Start, Stats!CountRows, Stats!Stop
<1>4. ASSUME NEW p \in Procs, Stats!SeedModels(p) PROVE StatTypes'
  BY <1>1, <1>4 DEF Stats!SeedModels, Stats!Backfilled
<1>5. ASSUME NEW p \in Procs, Stats!InsertCounters(p) PROVE StatTypes'
  <2>1. \A k \in {"total", "success"} : Stats!FromLog(k) \in Nat
    BY <1>1 DEF Stats!FromLog
  <2>2. \A k \in {"total", "success"} : Stats!OnConflictDoNothing(k) \in Nat \cup {-1}
    BY <2>1 DEF Stats!OnConflictDoNothing
  <2>3. CASE stat' = [k \in {"total", "success"} |-> Stats!OnConflictDoNothing(k)]
    BY <1>5, <2>2, <2>3 DEF Stats!InsertCounters
  <2>4. CASE stat' = stat
    BY <1>5, <2>4 DEF Stats!InsertCounters
  <2> QED
    BY <1>5, <2>3, <2>4 DEF Stats!InsertCounters, Stats!Keys
<1>6. ASSUME NEW p \in Procs, Stats!Die(p) PROVE StatTypes'
  <2>1. \A g \in Gens : [generation[g] EXCEPT !.at = "over"] \in [at : Stats!Steps, proc : Procs]
    OBVIOUS
  <2> QED
    BY <1>6, <2>1 DEF Stats!Die
<1>7. ASSUME NEW p \in Procs, NEW g \in Gens, Stats!Create(g, p) PROVE StatTypes'
  BY <1>7 DEF Stats!Create
<1>8. ASSUME NEW g \in Gens, Stats!Counts(g) PROVE StatTypes'
  <2>1. CASE Stats!CountTotal(g)
    BY <1>2, <2>1 DEF Stats!CountTotal
  <2>2. CASE Stats!Succeed(g)
    BY <2>2 DEF Stats!Succeed
  <2>3. CASE Stats!CountSuccess(g)
    BY <1>2, <2>3 DEF Stats!CountSuccess
  <2>4. CASE Stats!IncrementGenerationCount(g)
    BY <2>4 DEF Stats!IncrementGenerationCount
  <2> QED
    BY <1>8, <2>1, <2>2, <2>3, <2>4 DEF Stats!Counts
<1>9. CASE Stats!ClearLog
  BY <1>9 DEF Stats!ClearLog
<1>10. CASE UNCHANGED statVars
  BY <1>10 DEF statVars
<1> QED
  BY <1>3, <1>4, <1>5, <1>6, <1>7, <1>8, <1>9, <1>10 DEF Stats!Next, Stats!Seeds, Stats!Quiet, Stats!vars, statVars

LEMMA CountedSets ==
  ASSUME StatTypes
  PROVE  CountedRuns \in SUBSET Gens /\ CountedCards \in SUBSET Gens
BY DEF StatTypes, CountedRuns, CountedCards

\* Both counts stay as they are while nothing that was counted is lost.
LEMMA CountsKept ==
  ASSUME StatTypes, StatTypes', NoneAbove, made' = made, stat'["success"] = stat["success"],
         CountedRuns \subseteq CountedRuns', CountedCards \subseteq CountedCards'
  PROVE  NoneAbove'
<1>1. /\ Cardinality(CountedRuns) <= Cardinality(CountedRuns') /\ Cardinality(CountedRuns) \in Nat
      /\ Cardinality(CountedCards) <= Cardinality(CountedCards') /\ Cardinality(CountedCards) \in Nat
      /\ Cardinality(CountedRuns') \in Nat /\ Cardinality(CountedCards') \in Nat
  <2>1. CountedRuns' \in SUBSET Gens /\ CountedCards' \in SUBSET Gens
    BY CountedSets, StatTypes' DEF StatTypes, CountedRuns, CountedCards
  <2> QED
    BY <2>1, CountedSets, GensCounted
<1> QED
  BY <1>1 DEF NoneAbove, StatTypes, Stats!Keys, Stats!NoRow

LEMMA OneProcessStep ==
  ASSUME ~StartsOverlap, ~SeedFaults, StatTypes, OneProcess, [Stats!Next]_statVars
  PROVE  OneProcess'
<1> USE DEF StatTypes, OneProcess, Stats!Steps, Stats!Keys, Stats!NoRow
<1>1. ASSUME NEW p \in Procs, Stats!Start(p) \/ Stats!SeedModels(p) PROVE OneProcess'
  BY <1>1 DEF Stats!Start, Stats!SeedModels
<1>2. ASSUME NEW p \in Procs, Stats!CountRows(p) PROVE OneProcess'
  BY <1>2 DEF Stats!CountRows
<1>3. ASSUME NEW p \in Procs, Stats!Stop(p) PROVE OneProcess'
  BY <1>3 DEF Stats!Stop, Stats!Busy
<1>4. ASSUME NEW p \in Procs, Stats!InsertCounters(p) PROVE OneProcess'
  <2>1. \A k \in {"total", "success"} : Stats!FromLog(k) \in Nat
    BY GensCounted, SameCount DEF Stats!FromLog, Stats!Logged
  <2>2. /\ stat' = [k \in {"total", "success"} |-> Stats!OnConflictDoNothing(k)]
        /\ boot' = [boot EXCEPT ![p] = "up"] /\ boot[p] = "insert" /\ UNCHANGED <<starts, generation>>
    BY <1>4 DEF Stats!InsertCounters
  <2>3. stat'["total"] # -1 /\ stat'["success"] # -1
    BY <2>1, <2>2 DEF Stats!OnConflictDoNothing
  <2> QED
    BY <2>2, <2>3
<1>5. ASSUME NEW p \in Procs, Stats!Die(p) PROVE OneProcess'
  <2>1. /\ boot' = [boot EXCEPT ![p] = "down"] /\ UNCHANGED <<starts, stat>>
        /\ \A g \in Gens : generation'[g].proc = generation[g].proc
        /\ \A g \in Gens : generation'[g].at # generation[g].at => generation'[g].at = "over"
        /\ \A g \in Gens : generation[g].proc = p => generation'[g].at \in {"new", "over"}
    BY <1>5 DEF Stats!Die
  <2> QED
    BY <2>1
<1>6. ASSUME NEW p \in Procs, NEW g \in Gens, Stats!Create(g, p) PROVE OneProcess'
  BY <1>6 DEF Stats!Create
<1>7. ASSUME NEW g \in Gens, Stats!Counts(g) PROVE OneProcess'
  <2>1. generation[g].at \notin {"new", "over"} /\ \A h \in Gens : generation'[h].proc = generation[h].proc
    BY <1>7 DEF Stats!Counts, Stats!CountTotal, Stats!Succeed, Stats!CountSuccess, Stats!IncrementGenerationCount
  <2>2. \A h \in Gens : h # g => generation'[h] = generation[h]
    BY <1>7 DEF Stats!Counts, Stats!CountTotal, Stats!Succeed, Stats!CountSuccess, Stats!IncrementGenerationCount
  <2>3. boot[generation[g].proc] = "up" /\ stat["success"] \in Nat /\ stat["total"] \in Nat
    BY <2>1
  <2>4. UNCHANGED <<boot, starts>> /\ stat'["success"] # -1 /\ stat'["total"] # -1
    BY <1>7, <2>3 DEF Stats!Counts, Stats!CountTotal, Stats!Succeed, Stats!CountSuccess,
                      Stats!IncrementGenerationCount, Stats!incrCounters
  <2> QED
    BY <2>1, <2>2, <2>3, <2>4
<1>8. CASE Stats!ClearLog
  BY <1>8 DEF Stats!ClearLog
<1>9. CASE UNCHANGED statVars
  BY <1>9 DEF statVars
<1> QED
  BY <1>1, <1>2, <1>3, <1>4, <1>5, <1>6, <1>7, <1>8, <1>9 DEF Stats!Next, Stats!Seeds, Stats!Quiet, Stats!vars, statVars

LEMMA SucceededStep ==
  ASSUME StatTypes, OneProcess, Succeeded, [Stats!Next]_statVars
  PROVE  Succeeded'
<1> USE DEF StatTypes, Succeeded, Stats!Steps
<1>1. CASE UNCHANGED <<generation, log, done>>
  BY <1>1
<1>2. ASSUME NEW p \in Procs, Stats!Die(p) PROVE Succeeded'
  <2>1. /\ \A g \in Gens : generation'[g].at = generation[g].at \/ (generation[g].at # "new" /\ generation'[g].at = "over")
        /\ UNCHANGED <<log, done>>
    BY <1>2 DEF Stats!Die
  <2> QED
    BY <2>1
<1>3. ASSUME NEW p \in Procs, NEW g \in Gens, Stats!Create(g, p) PROVE Succeeded'
  BY <1>3 DEF Stats!Create
<1>4. ASSUME NEW g \in Gens, Stats!Counts(g) PROVE Succeeded'
  BY <1>4 DEF Stats!Counts, Stats!CountTotal, Stats!Succeed, Stats!CountSuccess, Stats!IncrementGenerationCount, Stats!Transitions
<1>5. CASE Stats!ClearLog
  BY <1>5 DEF Stats!ClearLog
<1> QED
  BY <1>1, <1>2, <1>3, <1>4, <1>5 DEF Stats!Next, Stats!Seeds, Stats!Quiet, Stats!vars, statVars,
     Stats!Start, Stats!SeedModels, Stats!CountRows, Stats!InsertCounters, Stats!Stop

\* A step of the seed counts everything there is: nobody is at work meanwhile.
LEMMA NobodyCounts ==
  ASSUME StatTypes, OneProcess, Succeeded, NEW p \in Procs, boot[p] \in Seeding
  PROVE  CountedRuns = done /\ CountedCards = done
<1>1. \A g \in Gens : generation[g].at \in {"new", "over"}
  BY DEF StatTypes, OneProcess, Seeding
<1> QED
  BY <1>1 DEF CountedRuns, CountedCards, StatTypes

\* What one generation's statement adds to what is counted.
LEMMA CountingStep ==
  ASSUME StatTypes, Succeeded, NEW g \in Gens
  PROVE  /\ Stats!CountTotal(g) => CountedRuns' = CountedRuns /\ CountedCards' = CountedCards
         /\ Stats!Succeed(g) => /\ CountedRuns' = CountedRuns
                                /\ CountedCards' = IF log[g] = "pending" THEN CountedCards ELSE CountedCards \cup {g}
                                /\ g \notin CountedCards
         /\ Stats!CountSuccess(g) => /\ CountedRuns' = CountedRuns
                                     /\ CountedCards' = CountedCards \cup {g} /\ g \notin CountedCards
         /\ Stats!IncrementGenerationCount(g) => /\ CountedRuns' = CountedRuns \cup {g} /\ g \notin CountedRuns
                                                 /\ CountedCards' = CountedCards
<1> USE DEF StatTypes, Succeeded, CountedRuns, CountedCards, Stats!Steps
<1>1. Stats!CountTotal(g) => CountedRuns' = CountedRuns /\ CountedCards' = CountedCards
  BY DEF Stats!CountTotal
<1>2. ASSUME Stats!Succeed(g)
      PROVE  /\ CountedRuns' = CountedRuns
             /\ CountedCards' = IF log[g] = "pending" THEN CountedCards ELSE CountedCards \cup {g}
             /\ g \notin CountedCards
  <2>1. g \notin done /\ done' = done \cup {g}
    BY <1>2 DEF Stats!Succeed
  <2>2. \A h \in Gens : generation'[h].at = IF h = g THEN (IF log[g] = "pending" THEN "success" ELSE "model") ELSE generation[h].at
    BY <1>2 DEF Stats!Succeed, Stats!Transitions
  <2> QED
    BY <2>1, <2>2
<1>3. ASSUME Stats!CountSuccess(g)
      PROVE  CountedRuns' = CountedRuns /\ CountedCards' = CountedCards \cup {g} /\ g \notin CountedCards
  <2>1. g \in done /\ done' = done /\ generation[g].at = "success"
    BY <1>3 DEF Stats!CountSuccess
  <2>2. \A h \in Gens : generation'[h].at = IF h = g THEN "model" ELSE generation[h].at
    BY <1>3 DEF Stats!CountSuccess
  <2> QED
    BY <2>1, <2>2
<1>4. ASSUME Stats!IncrementGenerationCount(g)
      PROVE  CountedRuns' = CountedRuns \cup {g} /\ g \notin CountedRuns /\ CountedCards' = CountedCards
  <2>1. g \in done /\ done' = done /\ generation[g].at = "model"
    BY <1>4 DEF Stats!IncrementGenerationCount
  <2>2. \A h \in Gens : generation'[h].at = IF h = g THEN "over" ELSE generation[h].at
    BY <1>4 DEF Stats!IncrementGenerationCount
  <2> QED
    BY <2>1, <2>2
<1> QED
  BY <1>1, <1>2, <1>3, <1>4

LEMMA NoneAboveStep ==
  ASSUME StatTypes, StatTypes', OneProcess, Succeeded, NoneAbove, [Stats!Next]_statVars
  PROVE  NoneAbove'
<1> USE DEF StatTypes, Stats!Steps, Stats!Keys, Stats!NoRow
<1>1. CASE UNCHANGED <<generation, done, stat, made>>
  BY <1>1 DEF NoneAbove, CountedRuns, CountedCards
<1>2. ASSUME NEW p \in Procs, Stats!Die(p) PROVE NoneAbove'
  <2>1. /\ \A g \in Gens : generation'[g].at = generation[g].at \/ generation'[g].at = "over"
        /\ UNCHANGED <<done, made, stat>>
    BY <1>2 DEF Stats!Die
  <2>2. CountedRuns \subseteq CountedRuns' /\ CountedCards \subseteq CountedCards'
    BY <2>1 DEF CountedRuns, CountedCards
  <2> QED
    BY <2>1, <2>2, CountsKept
<1>3. ASSUME NEW p \in Procs, NEW g \in Gens, Stats!Create(g, p) PROVE NoneAbove'
  <2>1. generation' = [generation EXCEPT ![g] = [at |-> "total", proc |-> p]] /\ UNCHANGED <<done, made, stat>>
    BY <1>3 DEF Stats!Create
  <2>2. CountedRuns \subseteq CountedRuns' /\ CountedCards \subseteq CountedCards'
    BY <2>1 DEF CountedRuns, CountedCards
  <2> QED
    BY <2>1, <2>2, CountsKept
<1>4. ASSUME NEW p \in Procs, Stats!SeedModels(p) \/ Stats!InsertCounters(p) PROVE NoneAbove'
  <2>1. CountedRuns = done /\ CountedCards = done
    BY <1>4, NobodyCounts DEF Stats!SeedModels, Stats!InsertCounters, Seeding
  <2>2. CountedRuns' = CountedRuns /\ CountedCards' = CountedCards
    BY <1>4 DEF Stats!SeedModels, Stats!InsertCounters, CountedRuns, CountedCards
  <2>3. Stats!Logged("success") \in SUBSET done /\ done \in SUBSET Gens
    BY DEF Stats!Logged, Succeeded
  <2>4. Cardinality(Stats!Logged("success")) <= Cardinality(done)
    BY <2>3, GensCounted
  <2>5. made' <= Cardinality(done) \/ made' = made
    BY <1>4, <2>4, SameCount DEF Stats!SeedModels, Stats!InsertCounters, Stats!Backfilled
  <2>6. stat'["success"] <= Cardinality(done) \/ stat'["success"] = stat["success"]
    BY <1>4, <2>4, SameCount DEF Stats!SeedModels, Stats!InsertCounters, Stats!OnConflictDoNothing, Stats!FromLog
  <2> QED
    BY <2>1, <2>2, <2>5, <2>6 DEF NoneAbove
<1>5. ASSUME NEW g \in Gens, Stats!CountTotal(g) PROVE NoneAbove'
  BY <1>5, CountingStep DEF Stats!CountTotal, Stats!incrCounters, NoneAbove
<1>6. ASSUME NEW g \in Gens, Stats!Succeed(g) PROVE NoneAbove'
  <2>1. CountedRuns' = CountedRuns /\ CountedCards \subseteq CountedCards'
    BY <1>6, CountingStep
  <2> QED
    BY <1>6, <2>1, CountsKept DEF Stats!Succeed
<1>7. CountedRuns \in SUBSET Gens /\ CountedCards \in SUBSET Gens
  BY CountedSets
<1>8. ASSUME NEW g \in Gens, Stats!CountSuccess(g) PROVE NoneAbove'
  <2>1. CountedRuns' = CountedRuns /\ Cardinality(CountedCards') = Cardinality(CountedCards) + 1 /\ Cardinality(CountedCards) \in Nat
    BY <1>7, <1>8, CountingStep, GensCounted
  <2>2. made' = made /\ stat'["success"] \in {1, stat["success"] + 1}
    BY <1>8 DEF Stats!CountSuccess, Stats!incrCounters
  <2> QED
    BY <2>1, <2>2 DEF NoneAbove
<1>9. ASSUME NEW g \in Gens, Stats!IncrementGenerationCount(g) PROVE NoneAbove'
  <2>1. CountedCards' = CountedCards /\ Cardinality(CountedRuns') = Cardinality(CountedRuns) + 1 /\ Cardinality(CountedRuns) \in Nat
    BY <1>7, <1>9, CountingStep, GensCounted
  <2>2. made' = made + 1 /\ stat' = stat
    BY <1>9 DEF Stats!IncrementGenerationCount
  <2> QED
    BY <2>1, <2>2 DEF NoneAbove
<1> QED
  BY <1>1, <1>2, <1>3, <1>4, <1>5, <1>6, <1>8, <1>9 DEF Stats!Next, Stats!Seeds, Stats!Counts, Stats!Quiet, Stats!vars, statVars,
     Stats!Start, Stats!CountRows, Stats!Stop, Stats!ClearLog

LEMMA ExactStep ==
  ASSUME ~StartsOverlap, ~SeedFaults, StatTypes, StatTypes', OneProcess, OneProcess', Succeeded, Exact,
         [Stats!Next]_statVars, deaths' = 0, clears' = 0
  PROVE  Exact'
<1> USE DEF StatTypes, Stats!Steps, Stats!Keys, Stats!NoRow
<1>0. CountedRuns \in SUBSET Gens /\ CountedCards \in SUBSET Gens
  BY CountedSets
<1>1. CASE UNCHANGED statVars
  BY <1>1 DEF statVars, Exact, CountedRuns, CountedCards, Stats!Logged, Seeding
<1>2. ASSUME NEW p \in Procs, Stats!Start(p) PROVE Exact'
  BY <1>2 DEF Stats!Start, Exact, CountedRuns, CountedCards, Stats!Logged, Seeding
<1>3. ASSUME NEW p \in Procs, Stats!SeedModels(p) PROVE Exact'
  <2>1. CountedRuns = done /\ CountedRuns' = CountedRuns /\ CountedCards' = CountedCards
    BY <1>3, NobodyCounts DEF Stats!SeedModels, Seeding, CountedRuns, CountedCards
  <2>2. made' = Cardinality(done)
    BY <1>3, <2>1, SameCount DEF Stats!SeedModels, Stats!Backfilled, Exact
  <2>3. boot[p] = "models" /\ boot' = [boot EXCEPT ![p] = "rows"] /\ UNCHANGED <<starts, generation, log, done, stat>>
    BY <1>3 DEF Stats!SeedModels
  <2> QED
    BY <2>1, <2>2, <2>3 DEF Exact, Stats!Logged, Seeding
<1>4. ASSUME NEW p \in Procs, Stats!CountRows(p) PROVE Exact'
  BY <1>4 DEF Stats!CountRows, Exact, CountedRuns, CountedCards, Stats!Logged, Seeding, OneProcess
<1>5. ASSUME NEW p \in Procs, Stats!InsertCounters(p) PROVE Exact'
  <2>1. CountedCards = done /\ CountedRuns' = CountedRuns /\ CountedCards' = CountedCards
    BY <1>5, NobodyCounts DEF Stats!InsertCounters, Seeding, CountedRuns, CountedCards
  <2>2. stat'["success"] = Cardinality(done)
    BY <1>5, <2>1, SameCount DEF Stats!InsertCounters, Stats!OnConflictDoNothing, Stats!FromLog, Exact
  <2>3. /\ boot[p] = "insert" /\ boot' = [boot EXCEPT ![p] = "up"] /\ UNCHANGED <<starts, generation, log, done, made>>
    BY <1>5 DEF Stats!InsertCounters
  <2>4. starts > 0 /\ \A q \in Procs : boot[q] # "models"
    BY <2>3 DEF OneProcess
  <2> QED
    BY <2>1, <2>2, <2>3, <2>4 DEF Exact, Stats!Logged
<1>6. ASSUME NEW p \in Procs, Stats!Stop(p) PROVE Exact'
  BY <1>6 DEF Stats!Stop, Exact, CountedRuns, CountedCards, Stats!Logged, Seeding
<1>7. ASSUME NEW p \in Procs, NEW g \in Gens, Stats!Create(g, p) PROVE Exact'
  <2>1. /\ generation' = [generation EXCEPT ![g] = [at |-> "total", proc |-> p]] /\ log' = [log EXCEPT ![g] = "pending"]
        /\ generation[g].at = "new" /\ UNCHANGED <<boot, starts, done, stat, made>>
    BY <1>7 DEF Stats!Create
  <2>2. CountedRuns' = CountedRuns /\ CountedCards' = CountedCards /\ g \notin done
    BY <2>1 DEF CountedRuns, CountedCards, Succeeded
  <2> QED
    BY <2>1, <2>2 DEF Exact, Stats!Logged
<1>8. ASSUME NEW g \in Gens, generation[g].at \notin {"new", "over"}
      PROVE  /\ starts > 0 /\ \A q \in Procs : boot[q] \notin Seeding
             /\ Exact => made = Cardinality(CountedRuns) /\ stat["success"] = Cardinality(CountedCards)
  BY <1>8 DEF OneProcess, Seeding, Exact
<1>9. ASSUME NEW g \in Gens, Stats!CountTotal(g) PROVE Exact'
  <2>1. CountedRuns' = CountedRuns /\ CountedCards' = CountedCards
    BY <1>9, CountingStep
  <2> QED
    BY <1>9, <2>1 DEF Stats!CountTotal, Stats!incrCounters, Exact, Stats!Logged
<1>10. ASSUME NEW g \in Gens, Stats!Succeed(g) PROVE Exact'
  <2>1. log[g] = "pending"
    BY <1>10 DEF Stats!Succeed, Exact
  <2>2. CountedRuns' = CountedRuns /\ CountedCards' = CountedCards
    BY <1>10, <2>1, CountingStep
  <2>3. /\ log' = [log EXCEPT ![g] = "success"] /\ done' = done \cup {g} /\ generation' = [generation EXCEPT ![g].at = "success"]
        /\ UNCHANGED <<boot, starts, stat, made>>
    BY <1>10, <2>1 DEF Stats!Succeed, Stats!Transitions
  <2> QED
    BY <2>2, <2>3 DEF Exact, Stats!Logged
<1>11. ASSUME NEW g \in Gens, Stats!CountSuccess(g) PROVE Exact'
  <2>1. /\ generation[g].at = "success" /\ generation' = [generation EXCEPT ![g].at = "model"]
        /\ stat' = [stat EXCEPT !["success"] = IF @ = -1 THEN 1 ELSE @ + 1] /\ UNCHANGED <<boot, starts, log, done, made>>
    BY <1>11 DEF Stats!CountSuccess, Stats!incrCounters
  <2>2. CountedRuns' = CountedRuns /\ Cardinality(CountedCards') = Cardinality(CountedCards) + 1 /\ Cardinality(CountedCards) \in Nat
    BY <1>0, <1>11, CountingStep, GensCounted
  <2>3. made' = Cardinality(CountedRuns') /\ stat'["success"] = Cardinality(CountedCards')
    BY <1>8, <2>1, <2>2
  <2> QED
    BY <2>1, <2>3 DEF Exact, Stats!Logged
<1>12. ASSUME NEW g \in Gens, Stats!IncrementGenerationCount(g) PROVE Exact'
  <2>1. /\ generation[g].at = "model" /\ generation' = [generation EXCEPT ![g].at = "over"]
        /\ made' = made + 1 /\ UNCHANGED <<boot, starts, log, done, stat>>
    BY <1>12 DEF Stats!IncrementGenerationCount
  <2>2. CountedCards' = CountedCards /\ Cardinality(CountedRuns') = Cardinality(CountedRuns) + 1 /\ Cardinality(CountedRuns) \in Nat
    BY <1>0, <1>12, CountingStep, GensCounted
  <2>3. made' = Cardinality(CountedRuns') /\ stat'["success"] = Cardinality(CountedCards')
    BY <1>8, <2>1, <2>2
  <2> QED
    BY <2>1, <2>3 DEF Exact, Stats!Logged
<1>13. ASSUME NEW p \in Procs PROVE ~Stats!Die(p)
  BY DEF Stats!Die
<1>14. ~Stats!ClearLog
  BY DEF Stats!ClearLog
<1> QED
  BY <1>1, <1>2, <1>3, <1>4, <1>5, <1>6, <1>7, <1>9, <1>10, <1>11, <1>12, <1>13, <1>14
  DEF Stats!Next, Stats!Seeds, Stats!Counts, Stats!Quiet, Stats!vars, statVars

LEMMA StatStep ==
  ASSUME ~StartsOverlap, ~SeedFaults, StatInv, [Stats!Next]_statVars
  PROVE  StatInv'
<1>1. StatTypes' /\ OneProcess'
  BY StatTypesStep, OneProcessStep DEF StatInv
<1>2. Succeeded' /\ NoneAbove'
  BY <1>1, SucceededStep, NoneAboveStep DEF StatInv
<1>3. deaths' = 0 /\ clears' = 0 => deaths = 0 /\ clears = 0
  <2>1. deaths \in Nat /\ clears \in Nat
    BY DEF StatInv, StatTypes
  <2>2. deaths' \in {deaths, deaths + 1} /\ clears' \in {clears, clears + 1}
    BY DEF Stats!Next, Stats!Seeds, Stats!Counts, Stats!Quiet, Stats!vars, statVars, Stats!Start, Stats!SeedModels, Stats!CountRows,
       Stats!InsertCounters, Stats!Stop, Stats!Die, Stats!Create, Stats!CountTotal, Stats!Succeed, Stats!CountSuccess,
       Stats!IncrementGenerationCount, Stats!ClearLog
  <2> QED
    BY <2>1, <2>2
<1> QED
  BY <1>1, <1>2, <1>3, ExactStep DEF StatInv

\* No count is twice what was done, and all is counted when nobody is at work.
LEMMA CountsRight ==
  ASSUME StatInv, ~SeedFaults
  PROVE  Stats!StatTypeOK /\ Stats!NotTwice /\ Stats!AllCounted
<1> USE DEF StatInv, StatTypes, Stats!Keys, Stats!NoRow, Stats!Steps
<1>1. Stats!StatTypeOK
  BY DEF Stats!StatTypeOK, OneProcess
<1>2. CountedRuns \in SUBSET done /\ CountedCards \in SUBSET done /\ done \in SUBSET Gens
  BY DEF CountedRuns, CountedCards
<1>3. /\ Cardinality(CountedRuns) <= Cardinality(done) /\ Cardinality(CountedCards) <= Cardinality(done)
      /\ Cardinality(CountedRuns) \in Nat /\ Cardinality(CountedCards) \in Nat /\ Cardinality(done) \in Nat
  BY <1>2, GensCounted
<1>4. Stats!NotTwice
  BY <1>3, SameCount DEF Stats!NotTwice, NoneAbove
<1>5. ASSUME deaths = 0, clears = 0, starts > 0, \A p \in Procs : boot[p] \in {"up", "down"} /\ ~Stats!Busy(p)
      PROVE  made = Cardinality(done) /\ stat["success"] = Cardinality(done)
  <2>1. CountedRuns = done /\ CountedCards = done
    BY <1>5 DEF CountedRuns, CountedCards, Stats!Busy
  <2> QED
    BY <1>5, <2>1 DEF Exact, Seeding
<1> QED
  BY <1>1, <1>4, <1>5, SameCount DEF Stats!AllCounted

LEMMA CountsNeverFall == StatTypes /\ [Stats!Next]_statVars => Stats!NeverFalls
<1> SUFFICES ASSUME StatTypes, [Stats!Next]_statVars PROVE Stats!NeverFalls
  OBVIOUS
<1> USE DEF StatTypes, Stats!Keys, Stats!NoRow, Stats!NeverFalls
<1>1. Stats!Cardinality(Stats!Logged("success")) \in Nat /\ Stats!Cardinality(Gens \ Stats!Logged("none")) \in Nat
  BY GensCounted, SameCount DEF Stats!Logged
<1>2. CASE UNCHANGED <<stat, made>>
  BY <1>2
<1>3. ASSUME NEW p \in Procs, Stats!SeedModels(p) PROVE Stats!NeverFalls
  <2>1. made' = Stats!Backfilled /\ stat' = stat
    BY <1>3 DEF Stats!SeedModels
  <2>2. Stats!Backfilled >= made
    BY <1>1 DEF Stats!Backfilled
  <2> QED
    BY <2>1, <2>2
<1>4. ASSUME NEW p \in Procs, Stats!InsertCounters(p) PROVE Stats!NeverFalls
  <2>1. \A k \in {"total", "success"} : Stats!OnConflictDoNothing(k) >= stat[k]
    <3>1. \A k \in {"total", "success"} : Stats!FromLog(k) \in Nat
      BY <1>1 DEF Stats!FromLog
    <3> QED
      BY <3>1 DEF Stats!OnConflictDoNothing
  <2> QED
    BY <1>4, <2>1 DEF Stats!InsertCounters
<1>5. ASSUME NEW g \in Gens, Stats!Counts(g) PROVE Stats!NeverFalls
  BY <1>5 DEF Stats!Counts, Stats!CountTotal, Stats!Succeed, Stats!CountSuccess, Stats!IncrementGenerationCount, Stats!incrCounters
<1> QED
  BY <1>2, <1>3, <1>4, <1>5 DEF Stats!Next, Stats!Seeds, Stats!Quiet, Stats!vars, statVars, Stats!Start, Stats!CountRows,
     Stats!Stop, Stats!Die, Stats!Create, Stats!ClearLog

-----------------------------------------------------------------------------
(* The parts together.                                                     *)

\* A step is one component's, of a part it belongs to, and the others rest.
LEMMA MovesOfMedia ==
  ASSUME [MediaNext]_vars
  PROVE  /\ part' = part
         /\ [Next]_jobVars /\ (part = "polled" => faults' = faults)
         /\ [Store!Next]_storeVars
         /\ part \in {"home", "rows", "kept"} => adm' = adm
         /\ part \in {"home", "kept", "logos"} => \A p \in Pruners \ {"sweep"} : pr'[p] = pr[p]
         /\ part = "home" => storeFaults' = storeFaults /\ (showcase' \ showcase) \cap old = {}
         /\ part = "logos" => UNCHANGED storeVars \/ objects' \subseteq Logos
         /\ [Catalog!Next]_catalogVars
         /\ part = "names" => UNCHANGED catalogVars \/ Catalog!Missing \cap models' = {}
         /\ [Stats!Next]_statVars
<1>1. CASE ImagesMove(Next)
  BY <1>1 DEF ImagesMove, storeVars
<1>2. CASE StoreMove(Store!Next)
  BY <1>2 DEF StoreMove, jobVars
<1>3. CASE CatalogMove
  BY <1>3 DEF CatalogMove, jobVars, storeVars
<1>4. CASE StatsMove
  BY <1>4 DEF StatsMove, jobVars, storeVars
<1>5. CASE UNCHANGED vars
  BY <1>5 DEF vars, jobVars, storeVars, catalogVars
<1> QED
  BY <1>1, <1>2, <1>3, <1>4, <1>5 DEF MediaNext

ImagesInv == JobsInv /\ JobOK /\ (part = "polled" => PolledInv)

LEMMA ImagesInitially == MediaInit => ImagesInv
<1> SUFFICES ASSUME MediaInit PROVE ImagesInv
  OBVIOUS
<1>1. Init /\ (part = "polled" => sub = [c \in Calls |-> [mode |-> "async", proc |-> Single]])
  BY DEF MediaInit
<1>2. JobsInv
  BY <1>1, JobsInitially
<1>3. JobOK
  BY <1>1 DEF Init, JobOK, Executing, Returned
<1>4. part = "polled" => OneServes
  BY <1>1 DEF OneServes, Mode, Proc
<1> QED
  BY <1>1, <1>2, <1>3, <1>4, PolledInitially DEF ImagesInv

LEMMA ImagesStep == ImagesInv /\ [MediaNext]_vars => ImagesInv'
<1> SUFFICES ASSUME ImagesInv, [MediaNext]_vars PROVE ImagesInv'
  OBVIOUS
<1>1. part' = part /\ [Next]_jobVars /\ (part = "polled" => faults' = faults)
  BY MovesOfMedia
<1>2. JobsInv' /\ JobOK'
  BY <1>1, JobsStep, JobStep DEF ImagesInv, JobsInv
<1>3. part = "polled" => PolledInv'
  BY <1>1, PolledStep DEF ImagesInv
<1> QED
  BY <1>1, <1>2, <1>3 DEF ImagesInv

\* What the store keeps to, in the parts that move it.
HomeKept == Store!MediaTypeOK /\ (part = "home" => HomeInv)
RowsKept == part \in {"rows", "kept"} => RowsInv
LogosKept == part = "logos" => LogosInv /\ Store!CurrentLogoExists

LEMMA StoresInitially == MediaInit => HomeKept /\ RowsKept /\ LogosKept
<1> SUFFICES ASSUME Store!Init PROVE Store!MediaTypeOK /\ RowsInv /\ HomeInv /\ LogosInv /\ Store!CurrentLogoExists
  BY DEF MediaInit, HomeKept, RowsKept, LogosKept
<1>1. Store!MediaTypeOK
  BY StoreInitially
<1>2. RowsInv /\ HomeInv
  BY DEF Store!Init, RowsInv, HomeInv
<1>3. LogosInv /\ Store!CurrentLogoExists
  BY DEF Store!Init, LogosInv, Store!CurrentLogoExists
<1> QED
  BY <1>1, <1>2, <1>3

LEMMA HomeKeptStep == HomeKept /\ [MediaNext]_vars => HomeKept'
BY MovesOfMedia, MediaTypesStep, HomeStep DEF HomeKept

LEMMA RowsKeptStep ==
  ASSUME "clear" \notin Faults, HomeKept, RowsKept, [MediaNext]_vars
  PROVE  RowsKept'
BY MovesOfMedia, RowsStep DEF HomeKept, RowsKept

\* Administrators of the logo while the write of the setting, and the sweep's reading of
\* it, succeed.
LEMMA LogosKeptStep ==
  ASSUME "write" \notin Faults, "logo" \notin Faults, HomeKept, LogosKept, [MediaNext]_vars
  PROVE  LogosKept'
<1> SUFFICES ASSUME part = "logos" PROVE LogosInv' /\ Store!CurrentLogoExists'
  BY MovesOfMedia DEF LogosKept
<1>1. CASE UNCHANGED storeVars
  BY <1>1 DEF storeVars, LogosKept, LogosInv, Store!CurrentLogoExists
<1>2. CASE objects' \subseteq Logos
  BY <1>2, MovesOfMedia, LogosStep DEF HomeKept, LogosKept
<1> QED
  BY <1>1, <1>2, MovesOfMedia

LEMMA HomeSparedStep ==
  ASSUME HomeKept, LogosKept, [MediaNext]_vars, part \in {"home", "logos"}
  PROVE  Store!SparesHome
<1>1. CASE part = "home"
  BY <1>1, MovesOfMedia, PinnedIsSpared DEF HomeKept, HomeInv, Store!Home
<1>2. CASE part = "logos"
  BY <1>2, MovesOfMedia, PinnedIsSpared DEF HomeKept, LogosKept, LogosInv, Store!Home
<1> QED
  BY <1>1, <1>2

CatalogInv ==
  /\ CatalogTypes /\ OneEditor /\ ListsInv
  /\ part = "names" => NamesInv

LEMMA CatalogsInitially == MediaInit => CatalogInv
BY CatalogInitially DEF MediaInit, CatalogInv

LEMMA CatalogStep ==
  ASSUME ~AdminsOverlap, CatalogInv, [MediaNext]_vars
  PROVE  CatalogInv'
<1>1. CatalogTypes' /\ OneEditor' /\ ListsInv'
  BY MovesOfMedia, CatalogTypesStep, OneEditorStep, ListsStep DEF CatalogInv
<1>2. ASSUME part = "names" PROVE NamesInv'
  <2>1. CASE UNCHANGED catalogVars
    BY <1>2, <2>1 DEF catalogVars, CatalogInv, NamesInv, Catalog!Collides
  <2>2. CASE Catalog!Missing \cap models' = {}
    BY <1>2, <2>2, MovesOfMedia, NamesStep DEF CatalogInv
  <2> QED
    BY <1>2, <2>1, <2>2, MovesOfMedia
<1> QED
  BY <1>1, <1>2, MovesOfMedia DEF CatalogInv

-----------------------------------------------------------------------------
\* However calls of any mode come in at any processes, and whichever of these die,
\* one call at most renders and only it stays charged, and a success is paid for by
\* the request that wrote its row; where one process serves and lives, a poll
\* answers what became of the image and finds every task that is at work.
THEOREM PollsHold == MediaSpec => []PollsAreRight
<1>1. ImagesInv => PollsAreRight
  <2> SUFFICES ASSUME ImagesInv PROVE PollsAreRight
    OBVIOUS
  <2>1. TypeOK
    BY DEF ImagesInv, JobsInv, Types, TypeOK
  <2>2. ChargedOnce
    BY DEF ImagesInv, JobsInv, CallAccounted, ChargedOnce
  <2>3. SuccessPaidByOwner
    BY DEF ImagesInv, JobsInv, RowOwned, SuccessPaidByOwner
  <2> QED
    BY <2>1, <2>2, <2>3, PollsAnswered DEF ImagesInv, PollsAreRight
<1> QED
  BY <1>1, ImagesInitially, ImagesStep, PTL DEF MediaSpec

\* While the statement that blanks rows, the write of the logo's setting and the
\* sweep's reading of it succeed, and administrators take turns: no row of a
\* finished generation, and not the setting, goes on naming a file that is gone, a
\* name finds one model and no list goes on naming a deleted one.
THEOREM NamesHold ==
  ASSUME {"clear", "write", "logo"} \cap Faults = {}, ~AdminsOverlap
  PROVE  MediaSpec => []NamesResolve
<1> DEFINE Inv == HomeKept /\ RowsKept /\ LogosKept /\ CatalogInv
<1>1. MediaInit => Inv
  BY StoresInitially, CatalogsInitially
<1>2. Inv /\ [MediaNext]_vars => Inv'
  BY HomeKeptStep, RowsKeptStep, LogosKeptStep, CatalogStep
<1>3. Inv => NamesResolve
  <2> SUFFICES ASSUME Inv PROVE NamesResolve
    OBVIOUS
  <2>1. RowsInv => Store!NoRowDangles
    BY DEF RowsInv, Store!NoRowDangles
  <2> QED
    BY <2>1, CatalogRight DEF HomeKept, RowsKept, LogosKept, CatalogInv, NamesResolve
<1> QED
  BY <1>1, <1>2, <1>3, PTL DEF MediaSpec

\* While the write of the logo's setting and the sweep's reading of it succeed, a
\* retention run takes no image of the showcase and no logo that is set.
THEOREM HomeHolds ==
  ASSUME {"write", "logo"} \cap Faults = {}
  PROVE  MediaSpec => HomeIsSpared
<1> DEFINE Inv == HomeKept /\ LogosKept
<1>1. MediaInit => Inv
  BY StoresInitially
<1>2. Inv /\ [MediaNext]_vars => Inv'
  BY HomeKeptStep, LogosKeptStep
<1>3. Inv /\ [MediaNext]_vars => [(part \in {"home", "logos"}) => Store!SparesHome]_vars
  BY HomeSparedStep
<1>4. MediaSpec => [][(part \in {"home", "logos"}) => Store!SparesHome]_vars
  BY <1>1, <1>2, <1>3, PTL DEF MediaSpec
<1> QED
  BY <1>4 DEF HomeIsSpared

\* While processes do not overlap and the seed's statements succeed, no generation
\* is counted twice, all are counted when none is at work and nothing died, and no
\* count ever falls.
THEOREM CountsHold ==
  ASSUME ~StartsOverlap, ~SeedFaults
  PROVE  MediaSpec => CountedOnce
<1> DEFINE Right == part = "stats" => Stats!StatTypeOK /\ Stats!NotTwice /\ Stats!AllCounted
           Word == part = "stats" => Stats!NeverFalls
<1>1. MediaInit => StatInv
  BY StatInitially DEF MediaInit
<1>2. StatInv /\ [MediaNext]_vars => StatInv'
  BY MovesOfMedia, StatStep
<1>3. StatInv => Right
  BY CountsRight
<1>4. StatInv /\ [MediaNext]_vars => [Word]_vars
  BY MovesOfMedia, CountsNeverFall DEF StatInv
<1>5. MediaSpec => []Right /\ [][Word]_vars
  BY <1>1, <1>2, <1>3, <1>4, PTL DEF MediaSpec
<1> QED
  BY <1>5 DEF CountedOnce
=============================================================================

----------------------------- MODULE ImageJobs -----------------------------
(***************************************************************************)
(* Image requests that carry one idempotency key of one user: the          *)
(* synchronous ones, and the asynchronous ones that are coalesced by the   *)
(* in-memory jobs of each process, guarded by a lock in Redis and, last,   *)
(* by the unique index on event_logs (StartImageRequest, ImageTask and     *)
(* prepareImageExecution of service/v1.go).  Keys share nothing, so one is *)
(* enough.  How a refund is made is GenBilling's; here it is one step.     *)
(***************************************************************************)
EXTENDS Naturals, FiniteSets

CONSTANTS
  Calls,          \* requests with the key
  Procs,          \* backend processes
  Submissions,    \* what may be submitted: a set of [Calls -> [mode, proc]]
  NoCall,
  MaxFaults       \* bound on crashes and on Redis failing an Acquire

ASSUME ImageJobsAssumption ==
  /\ Submissions \subseteq [Calls -> [mode : {"sync", "async"}, proc : Procs]]
  /\ NoCall \notin Calls
  /\ MaxFaults \in Nat

VARIABLES
  sub,            \* mode and process of each call (chosen once)
  pc,             \* where its goroutine is
  told,           \* what its client was answered
  job,            \* imageJobs of each process: the call whose job is stored
  result,         \* asyncImageJob of a call: open, or done with its outcome
  lock,           \* member of the set idem:image:<key>
  row, owner,     \* the event row of the key, and the call that wrote it
  charge,         \* the deduction of each call
  faults

jobVars == <<sub, pc, told, job, result, lock, row, owner, charge, faults>>

Mode(c) == sub[c].mode
Proc(c) == sub[c].proc

\* A goroutine that executes the generation, and one that has come back.
Executing == {"prepare", "charged", "work"}
Returned == {"finish", "completed", "retained"}

\* A live candidate is the job of its process.
JobOK == \A c \in Calls :
  (Mode(c) = "async" /\ pc[c] \in {"stored"} \cup Executing \cup Returned) => job[Proc(c)] = c

TypeOK ==
  /\ sub \in [Calls -> [mode : {"sync", "async"}, proc : Procs]]
  /\ pc \in [Calls -> {"new", "looked", "stored", "relook", "ended", "dead"} \cup Executing \cup Returned]
  /\ told \in [Calls -> {"nothing", "pending", "completed", "failed"}]
  /\ job \in [Procs -> Calls \cup {NoCall}]
  /\ result \in [Calls -> {"open", "completed", "failed"}]
  /\ lock \in Calls \cup {NoCall}
  /\ row \in {"none", "pending", "success", "failed"}
  /\ owner \in Calls \cup {NoCall}
  /\ charge \in [Calls -> {"none", "held", "returned"}]
  /\ faults \in Nat
  /\ JobOK

Init ==
  /\ sub \in Submissions
  /\ pc = [c \in Calls |-> "new"]
  /\ told = [c \in Calls |-> "nothing"]
  /\ job = [p \in Procs |-> NoCall]
  /\ result = [c \in Calls |-> "open"]
  /\ lock = NoCall
  /\ row = "none" /\ owner = NoCall
  /\ charge = [c \in Calls |-> "none"]
  /\ faults = 0

Goto(c, to) == pc' = [pc EXCEPT ![c] = to]
Tell(c, what) == told' = [told EXCEPT ![c] = what]
Fault == faults < MaxFaults /\ faults' = faults + 1

\* imageTaskFromEvent, when there is an event.
RowAnswer == CASE row = "success" -> "completed"
               [] row = "failed"  -> "failed"
               [] OTHER           -> "pending"

\* asyncImageJobResponse.
JobAnswer(c) == IF result[c] = "open" THEN "pending" ELSE result[c]

\* ImageTask, polled at process p.
Answer(p) == IF job[p] # NoCall THEN JobAnswer(job[p])
             ELSE IF row # "none" THEN RowAnswer
             ELSE "not found"

-----------------------------------------------------------------------------
(* Submission.                                                             *)

\* A synchronous request is executed at once; an asynchronous one first looks
\* for the event of the key.
Submit(c) ==
  /\ pc[c] = "new"
  /\ \/ Mode(c) = "sync" /\ Goto(c, "prepare") /\ UNCHANGED told
     \/ Mode(c) = "async" /\ row # "none" /\ Tell(c, RowAnswer) /\ Goto(c, "ended")
     \/ Mode(c) = "async" /\ row = "none" /\ Goto(c, "looked") /\ UNCHANGED told
  /\ UNCHANGED <<sub, job, result, lock, row, owner, charge, faults>>

\* imageJobs.LoadOrStore.
LoadOrStore(c) ==
  /\ pc[c] = "looked"
  /\ IF job[Proc(c)] # NoCall
     THEN Tell(c, JobAnswer(job[Proc(c)])) /\ Goto(c, "ended") /\ UNCHANGED job
     ELSE job' = [job EXCEPT ![Proc(c)] = c] /\ Goto(c, "stored") /\ UNCHANGED told
  /\ UNCHANGED <<sub, result, lock, row, owner, charge, faults>>

\* The lock is free, or Redis fails and Acquire admits: the execution goes to
\* the background and the client is told to poll.
Lock(c) ==
  /\ pc[c] = "stored"
  /\ \/ lock = NoCall /\ lock' = c /\ UNCHANGED faults
     \/ Fault /\ UNCHANGED lock
  /\ Tell(c, "pending")
  /\ Goto(c, "prepare")
  /\ UNCHANGED <<sub, job, result, row, owner, charge>>

\* Another process has it: the candidate is withdrawn, the event looked up
\* again.
LockedOut(c) ==
  /\ pc[c] = "stored"
  /\ lock # NoCall
  /\ job' = [job EXCEPT ![Proc(c)] = IF @ = c THEN NoCall ELSE @]
  /\ Goto(c, "relook")
  /\ UNCHANGED <<sub, told, result, lock, row, owner, charge, faults>>

Relook(c) ==
  /\ pc[c] = "relook"
  /\ Tell(c, IF row = "none" THEN "pending" ELSE RowAnswer)
  /\ Goto(c, "ended")
  /\ UNCHANGED <<sub, job, result, lock, row, owner, charge, faults>>

-----------------------------------------------------------------------------
(* Execution, prepareImageExecution.                                       *)

\* Admission, validation or the charge refuses: no row with the key.
PrepareFails(c) ==
  /\ pc[c] = "prepare"
  /\ Goto(c, "finish")
  /\ UNCHANGED <<sub, told, job, result, lock, row, owner, charge, faults>>

Charge(c) ==
  /\ pc[c] = "prepare"
  /\ charge' = [charge EXCEPT ![c] = "held"]
  /\ Goto(c, "charged")
  /\ UNCHANGED <<sub, told, job, result, lock, row, owner, faults>>

\* logPendingEvent: the unique index lets one call of the key through.
Insert(c) ==
  /\ pc[c] = "charged"
  /\ row = "none"
  /\ row' = "pending" /\ owner' = c
  /\ Goto(c, "work")
  /\ UNCHANGED <<sub, told, job, result, lock, charge, faults>>

\* The others give back what they were charged.
InsertFails(c) ==
  /\ pc[c] = "charged"
  /\ row # "none"
  /\ charge' = [charge EXCEPT ![c] = "returned"]
  /\ Goto(c, "finish")
  /\ UNCHANGED <<sub, told, job, result, lock, row, owner, faults>>

\* The image is stored, or the work fails and is refunded.
Work(c) ==
  /\ pc[c] = "work"
  /\ \/ row' = "success" /\ UNCHANGED charge
     \/ row' = "failed" /\ charge' = [charge EXCEPT ![c] = "returned"]
  /\ Goto(c, "finish")
  /\ UNCHANGED <<sub, told, job, result, lock, owner, faults>>

\* Mutant of Complete: the error of the execution is dropped.
CompleteAnyway(c) ==
  /\ pc[c] = "finish"
  /\ result' = [result EXCEPT ![c] = "completed"]
  /\ Goto(c, IF Mode(c) = "async" THEN "completed" ELSE "ended")
  /\ UNCHANGED <<sub, told, job, lock, row, owner, charge, faults>>

\* candidate.complete: what this execution came to.  A synchronous handler
\* answers its client.
Complete(c) ==
  /\ pc[c] = "finish"
  /\ LET outcome == IF owner = c /\ row = "success" THEN "completed" ELSE "failed" IN
       \/ /\ Mode(c) = "async"
          /\ result' = [result EXCEPT ![c] = outcome]
          /\ Goto(c, "completed")
          /\ UNCHANGED told
       \/ /\ Mode(c) = "sync"
          /\ Tell(c, outcome)
          /\ Goto(c, "ended")
          /\ UNCHANGED result
  /\ UNCHANGED <<sub, job, lock, row, owner, charge, faults>>

\* Mutant of Unlock: a failed execution keeps the lock.
UnlockSuccess(c) ==
  /\ pc[c] = "completed"
  /\ lock' = IF lock = c /\ result[c] = "completed" THEN NoCall ELSE lock
  /\ Goto(c, "retained")
  /\ UNCHANGED <<sub, told, job, result, row, owner, charge, faults>>

Unlock(c) ==
  /\ pc[c] = "completed"
  /\ lock' = IF lock = c THEN NoCall ELSE lock
  /\ Goto(c, "retained")
  /\ UNCHANGED <<sub, told, job, result, row, owner, charge, faults>>

\* The timer of asyncImageJobRetention, ten minutes: a lookup that was under way
\* has come back.
Drop(c) ==
  /\ pc[c] = "retained"
  /\ \A d \in Calls : Proc(d) = Proc(c) => pc[d] # "looked"
  /\ job' = [job EXCEPT ![Proc(c)] = IF @ = c THEN NoCall ELSE @]
  /\ Goto(c, "ended")
  /\ UNCHANGED <<sub, told, result, lock, row, owner, charge, faults>>

-----------------------------------------------------------------------------
\* A process dies: its goroutines and its jobs are gone.
Crash(p) ==
  /\ Fault
  /\ pc' = [c \in Calls |-> IF Proc(c) = p /\ pc[c] \notin {"new", "ended"} THEN "dead" ELSE pc[c]]
  /\ job' = [job EXCEPT ![p] = NoCall]
  /\ UNCHANGED <<sub, told, result, lock, row, owner, charge>>

\* The maintenance sweep fails and refunds a row without a goroutine.
Sweep ==
  /\ row = "pending" /\ pc[owner] = "dead"
  /\ row' = "failed"
  /\ charge' = [charge EXCEPT ![owner] = "returned"]
  /\ UNCHANGED <<sub, pc, told, job, result, lock, owner, faults>>

\* The lock of a dead holder reaches its TTL (an execution is over long before).
ExpireLock ==
  /\ lock # NoCall /\ pc[lock] = "dead"
  /\ lock' = NoCall
  /\ UNCHANGED <<sub, pc, told, job, result, row, owner, charge, faults>>

Step(c) ==
  \/ LoadOrStore(c) \/ Lock(c) \/ LockedOut(c) \/ Relook(c)
  \/ PrepareFails(c) \/ Charge(c) \/ Insert(c) \/ InsertFails(c) \/ Work(c)
  \/ Complete(c) \/ Unlock(c) \/ Drop(c)

Next ==
  \/ \E c \in Calls : Submit(c) \/ Step(c)
  \/ \E p \in Procs : Crash(p)
  \/ Sweep \/ ExpireLock

Spec == Init /\ [][Next]_jobVars

\* Goroutines go on, a work context ends the work, timers fire, the sweep runs.
FairSpec == /\ Spec
            /\ \A c \in Calls : WF_jobVars(Step(c))
            /\ WF_jobVars(Sweep) /\ WF_jobVars(ExpireLock)

-----------------------------------------------------------------------------
\* "preventing retry storms from charging or rendering the same image more than
\* once" (v1.go:1034): whatever processes and modes the requests come in, one
\* call at most renders, and only it stays charged, except for a crash between
\* the charge and the row.
ChargedOnce ==
  \A c \in Calls :
    /\ pc[c] = "work" => owner = c
    /\ charge[c] = "held" =>
         \/ pc[c] \in {"charged", "dead"}
         \/ owner = c /\ row \in {"pending", "success"}

\* A call whose generation succeeded is the one that is paid, and no other.
SuccessPaidByOwner ==
  row = "success" => charge[owner] = "held"

\* What a poll answers is what became of the key ("a deterministic recovery
\* contract", DESIGN.md:507): not "failed" when the image is there, and not
\* "completed" when it is not.
AnswersMatchRow ==
  \A p \in Procs : /\ Answer(p) = "failed" => row # "success"
                   /\ Answer(p) = "completed" => row = "success"

\* A client that was told to poll finds its task ("The existing task endpoint
\* reports queued, completed, or failed state", DESIGN.md:505) at every process
\* that serves requests, while nothing has crashed and the execution is not over.
AcceptedIsFound ==
  \A c, d \in Calls :
    (told[c] = "pending" /\ faults = 0 /\ pc[c] \in Executing) => Answer(Proc(d)) # "not found"

\* A poll does not say "pending" for ever, also when processes crash.
AnswerIsFinal == \A p \in Procs : (Answer(p) = "pending") ~> (Answer(p) # "pending")

\* A lock outlives its holder for a while, but not for good.
LockFreed == (lock # NoCall) ~> (lock = NoCall)
=============================================================================

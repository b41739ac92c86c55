---------------------------- MODULE StatCounters ----------------------------
(***************************************************************************)
(* The counts that outlive the log: stat_counters (repo/event_repo.go), the *)
(* generation_count of a model (IncrementGenerationCount) and their one-time *)
(* backfill from the log when a process starts (bootstrap/seed.go).  Every  *)
(* statement is a step of its own: a generation writes its row, then the    *)
(* counters, and a process seeds before it serves.                          *)
(***************************************************************************)
EXTENDS Integers, FiniteSets

CONSTANTS
  Procs, Gens,
  History,   \* generations that succeeded before there were counters
  Overlap,   \* a process may start while another one serves
  MaxClears, \* bounds on the log's clearings, on starts, on processes that die
  MaxStarts,
  MaxDeaths,
  Faults     \* a statement of the seed may fail

\* What an instance must give the constants.
StatAssumption ==
  /\ IsFiniteSet(Gens) /\ History \subseteq Gens
  /\ {MaxClears, MaxStarts, MaxDeaths} \subseteq Nat /\ {Overlap, Faults} \subseteq BOOLEAN

VARIABLES
  boot,     \* each process: down, at a statement of the seed, or up
  starts,
  gen,      \* each generation: where it is, and its process
  log,      \* the rows of the log: generation -> status
  done,     \* generations that have succeeded
  stat,     \* the rows of stat_counters; NoRow when there is none
  made,     \* the model's generation_count
  clears, deaths

vars == <<boot, starts, gen, log, done, stat, made, clears, deaths>>

NoRow == -1
Keys == {"total", "success"}
Steps == {"new", "total", "runs", "success", "model", "over"}

StatTypeOK ==
  /\ boot \in [Procs -> {"down", "models", "rows", "insert", "up"}] /\ starts \in 0..MaxStarts
  /\ gen \in [Gens -> [at : Steps, proc : Procs]]
  /\ log \in [Gens -> {"none", "pending", "success"}] /\ done \subseteq Gens
  /\ stat \in [Keys -> Nat \cup {NoRow}] /\ made \in Nat
  /\ clears \in 0..MaxClears /\ deaths \in 0..MaxDeaths
  /\ (\E p \in Procs : boot[p] = "up") /\ ~Faults => \A k \in Keys : stat[k] # NoRow

Init ==
  /\ boot = [p \in Procs |-> "down"] /\ starts = 0
  /\ gen \in {[g \in Gens |-> [at |-> IF g \in History THEN "over" ELSE "new", proc |-> p]] : p \in Procs}
  /\ log = [g \in Gens |-> IF g \in History THEN "success" ELSE "none"] /\ done = History
  /\ stat = [k \in Keys |-> NoRow] /\ made = 0 /\ clears = 0 /\ deaths = 0

Busy(p) == \E g \in Gens : gen[g].proc = p /\ gen[g].at \notin {"new", "over"}

-----------------------------------------------------------------------------
Start(p) ==
  /\ boot[p] = "down" /\ starts < MaxStarts /\ starts' = starts + 1
  /\ Overlap \/ \A q \in Procs : boot[q] = "down"
  /\ boot' = [boot EXCEPT ![p] = "models"]
  /\ UNCHANGED <<gen, log, done, stat, made, clears, deaths>>

Logged(s) == {g \in Gens : log[g] = s}

\* Mutant of Backfilled: the log is added to what was counted.
BackfilledAdds == made + Cardinality(Logged("success"))

\* Only a count that is still zero is read from the log.
Backfilled == IF made = 0 THEN Cardinality(Logged("success")) ELSE made

SeedModels(p) ==
  /\ boot[p] = "models" /\ boot' = [boot EXCEPT ![p] = "rows"] /\ made' = Backfilled
  /\ UNCHANGED <<starts, gen, log, done, stat, clears, deaths>>

\* The counters are seeded only when the table has no row.
CountRows(p) ==
  /\ boot[p] = "rows"
  /\ boot' = [boot EXCEPT ![p] = IF \A k \in Keys : stat[k] = NoRow THEN "insert" ELSE "up"]
  /\ UNCHANGED <<starts, gen, log, done, stat, made, clears, deaths>>

FromLog(k) == IF k = "success" THEN Cardinality(Logged("success")) ELSE Cardinality(Gens \ Logged("none"))

OnConflictDoNothing(k) == IF stat[k] = NoRow THEN FromLog(k) ELSE stat[k]

\* The seed's one INSERT ... SELECT; its error is not looked at.
InsertCounters(p) ==
  /\ boot[p] = "insert" /\ boot' = [boot EXCEPT ![p] = "up"]
  /\ \/ stat' = [k \in Keys |-> OnConflictDoNothing(k)]
     \/ Faults /\ UNCHANGED stat
  /\ UNCHANGED <<starts, gen, log, done, made, clears, deaths>>

-----------------------------------------------------------------------------
incrCounters(k) == stat' = [stat EXCEPT ![k] = IF @ = NoRow THEN 1 ELSE @ + 1]

Create(g, p) ==
  /\ boot[p] = "up" /\ gen[g].at = "new"
  /\ gen' = [gen EXCEPT ![g] = [at |-> "total", proc |-> p]] /\ log' = [log EXCEPT ![g] = "pending"]
  /\ UNCHANGED <<boot, starts, done, stat, made, clears, deaths>>

CountTotal(g) ==
  /\ gen[g].at = "total" /\ gen' = [gen EXCEPT ![g].at = "runs"] /\ incrCounters("total")
  /\ UNCHANGED <<boot, starts, log, done, made, clears, deaths>>

Transitions(g) == log[g] = "pending"

\* The guarded update to success; without a row nothing is counted for it.
Succeed(g) ==
  /\ gen[g].at = "runs"
  /\ IF Transitions(g)
       THEN log' = [log EXCEPT ![g] = "success"] /\ gen' = [gen EXCEPT ![g].at = "success"]
       ELSE UNCHANGED log /\ gen' = [gen EXCEPT ![g].at = "model"]
  /\ done' = done \cup {g}
  /\ UNCHANGED <<boot, starts, stat, made, clears, deaths>>

CountSuccess(g) ==
  /\ gen[g].at = "success" /\ gen' = [gen EXCEPT ![g].at = "model"] /\ incrCounters("success")
  /\ UNCHANGED <<boot, starts, log, done, made, clears, deaths>>

IncrementGenerationCount(g) ==
  /\ gen[g].at = "model" /\ gen' = [gen EXCEPT ![g].at = "over"] /\ made' = made + 1
  /\ UNCHANGED <<boot, starts, log, done, stat, clears, deaths>>

-----------------------------------------------------------------------------
\* DeleteAll, DeletePending.
ClearLog ==
  /\ clears < MaxClears /\ clears' = clears + 1
  /\ \E cleared \in {{"success", "pending"}, {"pending"}} :
       log' = [g \in Gens |-> IF log[g] \in cleared THEN "none" ELSE log[g]]
  /\ UNCHANGED <<boot, starts, gen, done, stat, made, deaths>>

\* A process stops when its generations have ended, or dies.
Stop(p) ==
  /\ boot[p] = "up" /\ ~Busy(p) /\ boot' = [boot EXCEPT ![p] = "down"]
  /\ UNCHANGED <<starts, gen, log, done, stat, made, clears, deaths>>

Die(p) ==
  /\ boot[p] # "down" /\ deaths < MaxDeaths /\ deaths' = deaths + 1
  /\ boot' = [boot EXCEPT ![p] = "down"]
  /\ gen' = [g \in Gens |-> IF gen[g].proc = p /\ gen[g].at # "new" THEN [gen[g] EXCEPT !.at = "over"] ELSE gen[g]]
  /\ UNCHANGED <<starts, log, done, stat, made, clears>>

Seeds(p) == SeedModels(p) \/ CountRows(p) \/ InsertCounters(p)
Counts(g) == CountTotal(g) \/ Succeed(g) \/ CountSuccess(g) \/ IncrementGenerationCount(g)
Quiet == starts = MaxStarts /\ (\A p \in Procs : boot[p] \in {"up", "down"} /\ ~Busy(p)) /\ UNCHANGED vars

Next ==
  \/ \E p \in Procs : Start(p) \/ Seeds(p) \/ Stop(p) \/ Die(p) \/ \E g \in Gens : Create(g, p)
  \/ \E g \in Gens : Counts(g)
  \/ ClearLog \/ Quiet

Spec == Init /\ [][Next]_vars

-----------------------------------------------------------------------------
\* No generation is counted twice, by the seed and by its own increment.
NotTwice == made <= Cardinality(done) /\ stat["success"] <= Cardinality(done)

\* The counts survive the log: none ever goes down.
NeverFalls == made' >= made /\ \A k \in Keys : stat'[k] >= stat[k]

\* When nothing runs and nothing died, every generation is counted, those of
\* before the counters included, unless their log was cleared first.
AllCounted ==
  deaths = 0 /\ clears = 0 /\ starts > 0 /\ (\A p \in Procs : boot[p] \in {"up", "down"} /\ ~Busy(p)) =>
    made = Cardinality(done) /\ stat["success"] = Cardinality(done)

\* The cards start from the log's history ("Seed the dashboard lifetime counters
\* from logs ONCE (only when empty), so the all-time cards start from real
\* history", bootstrap/seed.go).
StartsFromHistory ==
  clears = 0 => stat["success"] = NoRow \/ stat["success"] >= Cardinality(History)
=============================================================================

------------------------------ MODULE MCMedia ------------------------------
(***************************************************************************)
(* Image jobs, the media store, the model catalogue and the statistics,    *)
(* for TLC.  They meet in no row that two of them change, so that an       *)
(* instance is about one of them and the others rest.                      *)
(***************************************************************************)
EXTENDS ImageJobs

CONSTANTS
  Single,        \* the process of the polls
  Files, Copies, Logos, Assets, Admins, Pruners, PickOld, Faults, MaxStoreFaults, FewFaults,
  Ids, Names, Builtin, Upstreams, Lists, AdminsOverlap, MaxSeeds, NoAlias,
  Gens, History, StartsOverlap, MaxClears, MaxStarts, MaxDeaths, SeedFaults

VARIABLES
  part,
  objects, old, used, gen, file, stale, kept, refused, showcase, logo, dl, adm, pr, storeFaults,
  models, alias, list, wanted, editor, boots,
  boot, starts, generation, log, done, stat, made, clears, deaths

AnyMode == [Calls -> [mode : {"sync", "async"}, proc : Procs]]

-----------------------------------------------------------------------------
(* The components.                                                         *)

Store == INSTANCE MediaStore WITH MaxFaults <- MaxStoreFaults, None <- NoCall, faults <- storeFaults

Catalog == INSTANCE ModelCatalog WITH
  Overlap <- AdminsOverlap, MaxStarts <- MaxSeeds, None <- NoAlias, adm <- editor, starts <- boots

Stats == INSTANCE StatCounters WITH Overlap <- StartsOverlap, Faults <- SeedFaults, gen <- generation

ASSUME MediaAssumption ==
  /\ Single \in Procs /\ FewFaults \in Nat
  /\ Store!MediaAssumption /\ Catalog!CatalogAssumption /\ Stats!StatAssumption

-----------------------------------------------------------------------------
storeVars == <<objects, old, used, gen, file, stale, kept, refused, showcase, logo, dl, adm, pr, storeFaults>>
catalogVars == <<models, alias, list, wanted, editor, boots>>
statVars == <<boot, starts, generation, log, done, stat, made, clears, deaths>>
vars == <<part, jobVars, storeVars, catalogVars, statVars>>

MediaInit ==
  /\ part \in {"images", "polled", "home", "rows", "kept", "logos", "names", "lists", "stats"}
  /\ Init /\ Store!Init /\ Catalog!Init /\ Stats!Init
  /\ part # "images" => sub = [c \in Calls |-> [mode |-> "async", proc |-> Single]]
  /\ part # "lists" => \A u \in Upstreams : list[u] = {}
  /\ part # "stats" => \A g \in Gens : generation[g].proc = Single

\* Calls of any mode at several processes that may die; and asynchronous calls at
\* one that does not.
ImagesMove(A) ==
  /\ part \in {"images", "polled"} /\ A
  /\ part = "polled" => faults' = faults
  /\ UNCHANGED <<part, storeVars, catalogVars, statVars>>

\* The showcase under the sweep, given young files, while no request fails; the
\* row of a file under both retention runs; the rows of a file and of an image
\* the provider keeps under the sweep; and two administrators who change the logo.
StoreMove(A) ==
  /\ part \in {"home", "rows", "kept", "logos"} /\ A
  /\ part = "home" => /\ objects' \subseteq Files \cup Store!Stills \cup Assets /\ storeFaults' = storeFaults
                      /\ (showcase' \ showcase) \cap old = {}
  /\ part = "rows" => objects' \subseteq Files \cup Store!Stills
  /\ part = "kept" => objects' \subseteq Files \cup Store!Stills \cup Copies
  /\ part = "logos" => objects' \subseteq Logos /\ gen' = gen
  /\ part # "rows" => \A p \in Pruners \ {"sweep"} : pr'[p] = pr[p]
  /\ part # "kept" => stale' = stale
  /\ part # "logos" => adm' = adm /\ storeFaults' <= FewFaults
  /\ UNCHANGED <<part, jobVars, catalogVars, statVars>>

\* Names, some of them no id, while no start puts a model back; and the lists of
\* upstreams.
CatalogMove ==
  /\ part \in {"names", "lists"} /\ Catalog!Next
  /\ part = "names" => list' = list /\ Catalog!Missing \cap models' = {}
  /\ part = "lists" => \A a \in Admins : editor'[a].alias \notin Names \ Ids
  /\ UNCHANGED <<part, jobVars, storeVars, statVars>>

StatsMove == part = "stats" /\ Stats!Next /\ UNCHANGED <<part, jobVars, storeVars, catalogVars>>

MediaNext == ImagesMove(Next) \/ StoreMove(Store!Next) \/ CatalogMove \/ StatsMove

MediaSpec == MediaInit /\ [][MediaNext]_vars

\* Goroutines go on, timers fire, the sweeps run, as in the components.  A behaviour is
\* of one part, so that conditions on steps of different parts may be joined.
OfImages(A) == part = "images" /\ ImagesMove(A)
OfRows(A) == part \in {"rows", "kept"} /\ StoreMove(A)

Fairness ==
  /\ \A c \in Calls : WF_vars(OfImages(Step(c)))
  /\ WF_vars(OfImages(Sweep) \/ OfRows(Store!prune("sweep")))
  /\ WF_vars(OfImages(ExpireLock) \/ OfRows(Store!prune("saved")))

FairMediaSpec == MediaSpec /\ Fairness

-----------------------------------------------------------------------------
\* What a poll answers is what became of the image, and a client that was told to
\* poll finds its task; one call renders and stays charged, and a success is paid
\* for by the request that wrote its row.
PollsAreRight ==
  /\ part = "polled" => AnswersMatchRow /\ AcceptedIsFound
  /\ part = "images" => TypeOK /\ ChargedOnce /\ SuccessPaidByOwner

\* No row, and not the logo's setting, names a file that is gone; a name finds one
\* model, and no upstream's list a deleted one.
NamesResolve ==
  /\ part \in {"rows", "kept"} => Store!MediaTypeOK /\ Store!NoRowDangles
  /\ part = "logos" => Store!CurrentLogoExists
  /\ part = "names" => Catalog!CatalogTypeOK /\ Catalog!NamesOneModel /\ Catalog!AliasIsNoId
  /\ part = "lists" => Catalog!NoOrphans

\* The retention window takes nothing the home page shows.
HomeIsSpared == [][(part \in {"home", "logos"}) => Store!SparesHome]_vars

\* A generation is counted once, and the counters survive the deletion of the log
\* they count.
CountedOnce ==
  /\ [](part = "stats" => Stats!StatTypeOK /\ Stats!NotTwice /\ Stats!AllCounted)
  /\ [][part = "stats" => Stats!NeverFalls]_vars

\* No poll says "pending", and no lock is held, for ever; and the retention window
\* leaves nothing that is older, but what the home page shows.
NothingLasts ==
  /\ \A p \in Procs : (part = "images" /\ Answer(p) = "pending") ~> (part = "images" => Answer(p) # "pending")
  /\ (part = "images" /\ lock # NoCall) ~> lock = NoCall
  /\ \A k \in Files \cup Copies :
       (part \in {"rows", "kept"} /\ k \in old \ Store!Home) ~> k \notin objects \ Store!Home
=============================================================================

----------------------------- MODULE MediaStore -----------------------------
(***************************************************************************)
(* What lies in the object store, and who refers to it: the rows of the    *)
(* log (generated files and the copies of images a provider keeps), the    *)
(* showcase of the home page and the logo of the site.  Generations, the   *)
(* uploads of administrators, deletions by hand and the two ways the       *)
(* retention window is enforced run side by side.  A step is one request   *)
(* to the store or to the database.                                        *)
(***************************************************************************)
EXTENDS Integers, FiniteSets

CONSTANTS
  Files,        \* generated files, each with a row of its own
  Copies,       \* images a provider keeps: the row has their URL, the store a copy
  Logos, Assets,
  Admins,
  Pruners,      \* "sweep": pruneMedia; "saved": pruneGeneratedFiles
  PickOld,      \* the showcase may be given files past the retention window
  Faults,       \* what can fail
  MaxFaults,    \* how often (a bound)
  None

FaultKinds == {"put", "delete", "set", "logo", "clear", "write"}

\* What an instance must give the constants.
MediaAssumption ==
  /\ Pruners \subseteq {"sweep", "saved"} /\ Faults \subseteq FaultKinds
  /\ PickOld \in BOOLEAN /\ MaxFaults \in Nat
  /\ None \notin Logos /\ Logos \cap (Files \cup Copies \cup Assets) = {}
  /\ Files \cap (Copies \cup Assets) = {} /\ Copies \cap Assets = {}
  /\ \A f \in Files : <<"thumb", f>> \notin Files \cup Copies \cup Logos \cup Assets

VARIABLES
  objects, old,  \* keys in the store, and those past the window
  used,          \* keys of uploads are random: each is used once
  gen,           \* how far the generation of each file is
  file,          \* rows whose file column is set
  stale,         \* copies whose URL has lapsed
  kept, refused, \* copies that were stored once; views that were refused
  showcase, logo,
  dl,            \* deletions by hand
  adm,           \* what each administrator does with the logo
  pr,            \* the retention runs
  faults

vars == <<objects, old, used, gen, file, stale, kept, refused, showcase, logo, dl, adm, pr, faults>>

thumb(f) == <<"thumb", f>>
Stills == {thumb(f) : f \in Files}
Keys == Files \cup Stills \cup Copies \cup Logos \cup Assets
Home == showcase \cup ({logo} \ {None})

MediaTypeOK ==
  /\ old \subseteq objects /\ objects \subseteq Keys /\ used \subseteq Logos \cup Assets
  /\ gen \in [Files -> {"new", "put", "still", "status", "done", "failed"}]
  /\ file \subseteq Files \cup Copies /\ stale \subseteq Copies
  /\ kept \subseteq Copies /\ refused \subseteq Copies
  /\ showcase \subseteq Files \cup Assets /\ logo \in Logos \cup {None}
  /\ dl \in [Files -> {"idle", "still", "clear"}]
  /\ adm \in [Admins -> [pc : {"idle", "read", "drop", "write"}, key : Logos \cup {None}, prev : Logos \cup {None}]]
  /\ pr \in [Pruners -> [pc : {"idle", "set", "logo", "delete"}, todo : SUBSET Keys,
                         pinned : SUBSET Keys, cleared : SUBSET Keys]]
  /\ \A p \in Pruners : pr[p].pc = "idle" => pr[p].cleared = {}
  /\ faults \in 0..MaxFaults

Init ==
  /\ objects = {} /\ old = {} /\ used = {} /\ file = Copies /\ stale = {} /\ kept = {} /\ refused = {}
  /\ gen = [f \in Files |-> "new"] /\ dl = [f \in Files |-> "idle"]
  /\ showcase = {} /\ logo = None
  /\ adm = [a \in Admins |-> [pc |-> "idle", key |-> None, prev |-> None]]
  /\ pr = [p \in Pruners |-> [pc |-> "idle", todo |-> {}, pinned |-> {}, cleared |-> {}]]
  /\ faults = 0

-----------------------------------------------------------------------------
\* A request to the store is signed, sent and answered, or fails.
Fails(kind) == kind \in Faults /\ faults < MaxFaults /\ faults' = faults + 1
Works == faults' = faults

Store(k) == objects' = objects \cup {k} /\ UNCHANGED old
Remove(ks) == objects' = objects \ ks /\ old' = old \ ks

-----------------------------------------------------------------------------
\* The row is written with the key before the work begins.
allocateOutput(f) ==
  /\ gen[f] = "new" /\ gen' = [gen EXCEPT ![f] = "put"] /\ file' = file \cup {f}
  /\ UNCHANGED <<objects, old, used, stale, kept, refused, showcase, logo, dl, adm, pr, faults>>

Put(f) ==
  /\ gen[f] = "put"
  /\ \/ Works /\ Store(f) /\ gen' = [gen EXCEPT ![f] = "still"]
     \/ Fails("put") /\ gen' = [gen EXCEPT ![f] = "failed"] /\ UNCHANGED <<objects, old>>
  /\ UNCHANGED <<used, file, stale, kept, refused, showcase, logo, dl, adm, pr>>

\* Stills are best effort.
PutStill(f) ==
  /\ gen[f] = "still" /\ gen' = [gen EXCEPT ![f] = "status"]
  /\ \/ Works /\ Store(thumb(f))
     \/ Fails("put") /\ UNCHANGED <<objects, old>>
  /\ UNCHANGED <<used, file, stale, kept, refused, showcase, logo, dl, adm, pr>>

Finish(f) ==
  /\ gen[f] = "status" /\ gen' = [gen EXCEPT ![f] = "done"]
  /\ UNCHANGED <<objects, old, used, file, stale, kept, refused, showcase, logo, dl, adm, pr, faults>>

-----------------------------------------------------------------------------
\* OpenImageContent: the copy if there is one, else the URL of the row, of
\* which a copy is stored if the store takes it.
OpenImageContent(c) ==
  /\ c \in file /\ c \notin objects
  /\ IF c \in stale
       THEN refused' = refused \cup {c} /\ UNCHANGED <<objects, old, kept, faults>>
       ELSE /\ \/ Works /\ Store(c) /\ kept' = kept \cup {c}
               \/ Fails("put") /\ UNCHANGED <<objects, old, kept>>
            /\ UNCHANGED refused
  /\ UNCHANGED <<used, gen, file, stale, showcase, logo, dl, adm, pr>>

UrlLapses(c) ==
  /\ c \notin stale /\ stale' = stale \cup {c}
  /\ UNCHANGED <<objects, old, used, gen, file, kept, refused, showcase, logo, dl, adm, pr, faults>>

\* Days pass; no request lasts that long.
Age(k) ==
  /\ k \in objects \ old /\ old' = old \cup {k}
  /\ \A f \in Files : k \in {f, thumb(f)} => gen[f] = "done"
  /\ \A a \in Admins : adm[a].key # k
  /\ UNCHANGED <<objects, used, gen, file, stale, kept, refused, showcase, logo, dl, adm, pr, faults>>

-----------------------------------------------------------------------------
\* The home page's items: the image is an uploaded asset or a generated file.
UploadAsset(k) ==
  /\ k \in Assets \ used /\ used' = used \cup {k} /\ Store(k)
  /\ UNCHANGED <<gen, file, stale, kept, refused, showcase, logo, dl, adm, pr, faults>>

CreateShowcase(k) ==
  /\ k \in objects /\ k \notin showcase /\ (k \in Files => gen[k] = "done")
  /\ PickOld \/ k \notin old
  /\ showcase' = showcase \cup {k}
  /\ UNCHANGED <<objects, old, used, gen, file, stale, kept, refused, logo, dl, adm, pr, faults>>

DeleteShowcase(k) ==
  /\ k \in showcase /\ showcase' = showcase \ {k}
  /\ UNCHANGED <<objects, old, used, gen, file, stale, kept, refused, logo, dl, adm, pr, faults>>

-----------------------------------------------------------------------------
\* UploadLogo and RemoveLogo: store the new one, look for the old one, delete
\* it, and point the setting at the new one, or at none.
UploadLogo(a, k) ==
  /\ adm[a].pc = "idle" /\ k \in Logos \ used /\ used' = used \cup {k} /\ Store(k)
  /\ adm' = [adm EXCEPT ![a] = [pc |-> "read", key |-> k, prev |-> None]]
  /\ UNCHANGED <<gen, file, stale, kept, refused, showcase, logo, dl, pr, faults>>

RemoveLogo(a) ==
  /\ adm[a].pc = "idle" /\ adm' = [adm EXCEPT ![a] = [pc |-> "read", key |-> None, prev |-> None]]
  /\ UNCHANGED <<objects, old, used, gen, file, stale, kept, refused, showcase, logo, dl, pr, faults>>

ReadOldLogo(a) ==
  /\ adm[a].pc = "read"
  /\ adm' = [adm EXCEPT ![a].prev = logo, ![a].pc = IF logo = None THEN "write" ELSE "drop"]
  /\ UNCHANGED <<objects, old, used, gen, file, stale, kept, refused, showcase, logo, dl, pr, faults>>

DropOldLogo(a) ==
  /\ adm[a].pc = "drop" /\ adm' = [adm EXCEPT ![a].pc = "write"]
  /\ \/ Works /\ Remove({adm[a].prev})
     \/ Fails("delete") /\ UNCHANGED <<objects, old>>
  /\ UNCHANGED <<used, gen, file, stale, kept, refused, showcase, logo, dl, pr>>

WriteLogo(a) ==
  /\ adm[a].pc = "write"
  /\ adm' = [adm EXCEPT ![a] = [pc |-> "idle", key |-> None, prev |-> None]]
  /\ (Works /\ logo' = adm[a].key) \/ (Fails("write") /\ logo' = logo)
  /\ UNCHANGED <<objects, old, used, gen, file, stale, kept, refused, showcase, dl, pr>>

-----------------------------------------------------------------------------
\* DeleteFile: a user or an administrator deletes a file, its stills, and
\* blanks the rows.
DeleteFile(f) ==
  /\ dl[f] = "idle" /\ f \in file /\ f \notin showcase
  /\ \/ Works /\ Remove({f}) /\ dl' = [dl EXCEPT ![f] = "still"]
     \/ Fails("delete") /\ UNCHANGED <<objects, old, dl>>
  /\ UNCHANGED <<used, gen, file, stale, kept, refused, showcase, logo, adm, pr>>

DeleteStills(f) ==
  /\ dl[f] = "still" /\ dl' = [dl EXCEPT ![f] = "clear"]
  /\ (Works /\ Remove({thumb(f)})) \/ (Fails("delete") /\ UNCHANGED <<objects, old>>)
  /\ UNCHANGED <<used, gen, file, stale, kept, refused, showcase, logo, adm, pr>>

BlankRow(f) ==
  /\ dl[f] = "clear" /\ dl' = [dl EXCEPT ![f] = "idle"]
  /\ (Works /\ file' = file \ {f}) \/ (Fails("clear") /\ file' = file)
  /\ UNCHANGED <<objects, old, used, gen, stale, kept, refused, showcase, logo, adm, pr>>

-----------------------------------------------------------------------------
\* The retention window: list what is past it, read what the home page needs
\* (the sweep only), delete the rest and blank the rows.
List(p) ==
  /\ pr[p].pc = "idle"
  /\ pr' = [pr EXCEPT ![p].todo = old, ![p].pc = IF p = "sweep" THEN "set" ELSE "delete"]
  /\ UNCHANGED <<objects, old, used, gen, file, stale, kept, refused, showcase, logo, dl, adm, faults>>

\* Mutant of Pinned: what users made is not pinned.
PinnedAssets == showcase \cap Assets

\* PublicFileSet: what the showcase names.
Pinned == showcase

PublicFileSet(p) ==
  /\ pr[p].pc = "set"
  /\ \/ Works /\ pr' = [pr EXCEPT ![p].pinned = Pinned, ![p].pc = "logo"]
     \/ Fails("set") /\ pr' = [pr EXCEPT ![p].pinned = {}, ![p].pc = "logo"]
  /\ UNCHANGED <<objects, old, used, gen, file, stale, kept, refused, showcase, logo, dl, adm>>

PinLogo(p) ==
  /\ pr[p].pc = "logo"
  /\ \/ Works /\ pr' = [pr EXCEPT ![p].pinned = @ \cup ({logo} \ {None}), ![p].pc = "delete"]
     \/ Fails("logo") /\ pr' = [pr EXCEPT ![p].pc = "delete"]
  /\ UNCHANGED <<objects, old, used, gen, file, stale, kept, refused, showcase, logo, dl, adm>>

\* An object that is gone already counts as deleted.
DeleteExpired(p) ==
  /\ pr[p].pc = "delete"
  /\ \E k \in pr[p].todo :
       IF k \in pr[p].pinned
         THEN Works /\ pr' = [pr EXCEPT ![p].todo = @ \ {k}] /\ UNCHANGED <<objects, old>>
         ELSE \/ Works /\ Remove({k}) /\ pr' = [pr EXCEPT ![p].todo = @ \ {k}, ![p].cleared = @ \cup {k}]
              \/ Fails("delete") /\ pr' = [pr EXCEPT ![p].todo = @ \ {k}] /\ UNCHANGED <<objects, old>>
  /\ UNCHANGED <<used, gen, file, stale, kept, refused, showcase, logo, dl, adm>>

\* Mutant of ClearFiles: the rows are not blanked.
ClearFilesNot(p) ==
  /\ pr[p].pc = "delete" /\ pr[p].todo = {} /\ Works
  /\ pr' = [pr EXCEPT ![p] = [pc |-> "idle", todo |-> {}, pinned |-> {}, cleared |-> {}]]
  /\ UNCHANGED <<objects, old, used, gen, file, stale, kept, refused, showcase, logo, dl, adm>>

\* One statement for all rows; a process that ends before it is a fault of it.
ClearFiles(p) ==
  /\ pr[p].pc = "delete" /\ pr[p].todo = {}
  /\ pr' = [pr EXCEPT ![p] = [pc |-> "idle", todo |-> {}, pinned |-> {}, cleared |-> {}]]
  /\ \/ Works /\ file' = file \ (pr[p].cleared \cap Files)
     \/ Fails("clear") /\ file' = file
  /\ UNCHANGED <<objects, old, used, gen, stale, kept, refused, showcase, logo, dl, adm>>

-----------------------------------------------------------------------------
prune(p) == List(p) \/ PublicFileSet(p) \/ PinLogo(p) \/ DeleteExpired(p) \/ ClearFiles(p)

Next ==
  \/ \E f \in Files :
       \/ allocateOutput(f) \/ Put(f) \/ PutStill(f) \/ Finish(f)
       \/ DeleteFile(f) \/ DeleteStills(f) \/ BlankRow(f)
  \/ \E c \in Copies : OpenImageContent(c) \/ UrlLapses(c)
  \/ \E k \in Keys : Age(k)
  \/ \E k \in Assets : UploadAsset(k)
  \/ \E k \in Files \cup Assets : CreateShowcase(k) \/ DeleteShowcase(k)
  \/ \E a \in Admins :
       \/ (\E k \in Logos : UploadLogo(a, k)) \/ RemoveLogo(a)
       \/ ReadOldLogo(a) \/ DropOldLogo(a) \/ WriteLogo(a)
  \/ \E p \in Pruners : prune(p)

Spec == Init /\ [][Next]_vars
\* The sweep runs every minute.
FairSpec == Spec /\ \A p \in Pruners : WF_vars(prune(p))

-----------------------------------------------------------------------------
\* The retention window takes nothing the home page shows: no image of the
\* showcase and no logo, however old.
SparesHome == \A p \in Pruners : pr'[p].todo # pr[p].todo => (objects \ objects') \cap Home = {}

\* The setting names a logo that exists, but while it is being changed.
CurrentLogoExists == logo \in objects \cup {None} \/ \E a \in Admins : adm[a].pc \in {"drop", "write"}

\* No row of a finished generation goes on naming a file that is gone: whoever
\* deleted the file has still to blank it.
NoRowDangles ==
  \A f \in Files : gen[f] = "done" /\ f \in file /\ f \notin objects =>
    dl[f] # "idle" \/ \E p \in Pruners : f \in pr[p].cleared

\* An image of which a copy was stored can be viewed from then on, whatever
\* becomes of the provider's URL.
CopiedIsServed == refused \cap kept = {}

\* What is past the window and not shown does not stay.
ExpiredGoes ==
  \A k \in Keys : (k \in old /\ k \notin Home) ~> (k \notin objects \/ k \in Home)
=============================================================================

---------------------------- MODULE ModelCatalog ----------------------------
(***************************************************************************)
(* The models administrators manage (service/admin_write.go): a model is   *)
(* called by its alias, or by its id if it has none, and a custom upstream *)
(* takes over the models its list names, or all if the list is empty.      *)
(* Creating and changing a model is a check and a write; deleting one      *)
(* strips it from the lists, one upstream at a time.  A starting process   *)
(* inserts the built-in models that are missing.                           *)
(***************************************************************************)
EXTENDS Integers

CONSTANTS
  Ids, Names,   \* ids, and what an alias may be: ids are among them
  Builtin,      \* ids the seed inserts
  Upstreams,
  Lists,        \* the lists an administrator gives an upstream; {} serves all
  Admins,
  Overlap,      \* administrators work at the same time
  MaxStarts,    \* a bound
  None

\* What an instance must give the constants.
CatalogAssumption ==
  /\ Ids \subseteq Names /\ Builtin \subseteq Ids /\ None \notin Names
  /\ Lists \subseteq SUBSET Ids /\ Overlap \in BOOLEAN /\ MaxStarts \in Nat

VARIABLES
  models,  \* the ids with a row
  alias,   \* of each row, None if it has none
  list,    \* Meta["models"] of each upstream
  wanted,  \* the list an administrator gave it, without what was deleted since
           \* (None takes its place: only a list given empty is empty)
  adm,     \* what each administrator is at
  starts

vars == <<models, alias, list, wanted, adm, starts>>

Idle == [op |-> "idle", id |-> None, alias |-> None, seen |-> <<>>, todo |-> {}]

CatalogTypeOK ==
  /\ models \subseteq Ids /\ alias \in [Ids -> Names \cup {None}]
  /\ list \in [Upstreams -> SUBSET Ids] /\ wanted \in [Upstreams -> SUBSET (Ids \cup {None})]
  /\ \A a \in Admins : /\ adm[a].op \in {"idle", "create", "update", "lists", "strip"}
                       /\ adm[a].id \in Ids \cup {None} /\ adm[a].todo \subseteq Upstreams
                       /\ adm[a].op = "strip" => adm[a].seen \in [Upstreams -> SUBSET Ids]
  /\ \A id \in Ids \ models : alias[id] = None
  /\ starts \in 0..MaxStarts

Init ==
  /\ models = Builtin /\ alias = [id \in Ids |-> None]
  /\ list \in [Upstreams -> Lists] /\ wanted = list
  /\ adm = [a \in Admins |-> Idle] /\ starts = 0

-----------------------------------------------------------------------------
\* Get: the rows a request that names n finds.
Get(n) == {id \in models : alias[id] = n \/ (alias[id] = None /\ id = n)}

customAccountServes(l) == IF l = {} THEN Ids ELSE l \ {None}

\* validateModelNameSpace: ids and aliases of the other rows are looked at.
Collides(self, id, al) ==
  \E other \in models \ {self} :
    alias[other] = id \/ (al # None /\ (other = al \/ alias[other] = al))

Free(a) == adm[a].op = "idle" /\ (~Overlap => \A b \in Admins : adm[b].op = "idle")

CreateModel(a, id, al) ==
  /\ Free(a) /\ ~Collides(None, id, al)
  /\ adm' = [adm EXCEPT ![a] = [Idle EXCEPT !.op = "create", !.id = id, !.alias = al]]
  /\ UNCHANGED <<models, alias, list, wanted, starts>>

\* The primary key refuses a second row of one id.
Create(a) ==
  /\ adm[a].op = "create" /\ adm' = [adm EXCEPT ![a] = Idle]
  /\ IF adm[a].id \in models THEN UNCHANGED <<models, alias>>
       ELSE models' = models \cup {adm[a].id} /\ alias' = [alias EXCEPT ![adm[a].id] = adm[a].alias]
  /\ UNCHANGED <<list, wanted, starts>>

UpdateModel(a, id, al) ==
  /\ Free(a) /\ id \in models /\ ~Collides(id, id, al)
  /\ adm' = [adm EXCEPT ![a] = [Idle EXCEPT !.op = "update", !.id = id, !.alias = al]]
  /\ UNCHANGED <<models, alias, list, wanted, starts>>

\* An update of a row that is gone changes nothing.
Update(a) ==
  /\ adm[a].op = "update" /\ adm' = [adm EXCEPT ![a] = Idle]
  /\ alias' = IF adm[a].id \in models THEN [alias EXCEPT ![adm[a].id] = adm[a].alias] ELSE alias
  /\ UNCHANGED <<models, list, wanted, starts>>

WithoutId(l, id) == IF id \in l THEN (l \ {id}) \cup {None} ELSE l

DeleteModel(a, id) ==
  /\ Free(a) /\ id \in models
  /\ models' = models \ {id} /\ alias' = [alias EXCEPT ![id] = None]
  /\ adm' = [adm EXCEPT ![a] = [Idle EXCEPT !.op = "lists", !.id = id]]
  /\ wanted' = [u \in Upstreams |-> WithoutId(wanted[u], id)]
  /\ UNCHANGED <<list, starts>>

\* removeModelFromUpstreams reads all lists, and writes each that named the
\* model, whole, as it was when it was read.
removeModelFromUpstreams(a) ==
  /\ adm[a].op = "lists"
  /\ LET named == {u \in Upstreams : adm[a].id \in list[u]}
     IN  adm' = [adm EXCEPT ![a] = IF named = {} THEN Idle ELSE [@ EXCEPT !.op = "strip", !.seen = list, !.todo = named]]
  /\ UNCHANGED <<models, alias, list, wanted, starts>>

Kept(a, u) == adm[a].seen[u] \ {adm[a].id}

\* Best effort: a write that fails is passed over.
Strip(a) ==
  /\ adm[a].op = "strip"
  /\ \E u \in adm[a].todo :
       /\ list' = [list EXCEPT ![u] = Kept(a, u)]
       /\ adm' = [adm EXCEPT ![a] = IF @.todo = {u} THEN Idle ELSE [@ EXCEPT !.todo = adm[a].todo \ {u}]]
  /\ UNCHANGED <<models, alias, wanted, starts>>

\* ImportCustomAccount, of an upstream that exists: the meta is replaced.
ImportCustomAccount(a, u, l) ==
  /\ Free(a) /\ l # list[u]
  /\ list' = [list EXCEPT ![u] = l] /\ wanted' = [wanted EXCEPT ![u] = l]
  /\ UNCHANGED <<models, alias, adm, starts>>

Missing == Builtin \ models

seedDefaults ==
  /\ starts < MaxStarts /\ starts' = starts + 1
  /\ models' = models \cup Missing
  /\ UNCHANGED <<alias, list, wanted, adm>>

-----------------------------------------------------------------------------
Work(a) == Create(a) \/ Update(a) \/ removeModelFromUpstreams(a) \/ Strip(a)

Next ==
  \/ \E a \in Admins, id \in Ids :
       \/ \E al \in Names \cup {None} : CreateModel(a, id, al) \/ UpdateModel(a, id, al)
       \/ DeleteModel(a, id)
  \/ \E a \in Admins, u \in Upstreams, l \in Lists : ImportCustomAccount(a, u, l)
  \/ \E a \in Admins : Work(a)
  \/ seedDefaults

Spec == Init /\ [][Next]_vars

-----------------------------------------------------------------------------
\* A name a request may use finds one model.
NamesOneModel == \A n \in Names : \A x, y \in Get(n) : x = y

\* No alias is the id of another model, so that giving up an alias never makes
\* a name ambiguous.
AliasIsNoId == \A id \in models : alias[id] \notin models \ {id}

\* Once a deletion is through, no list names the model it deleted, unless an
\* administrator put it there since.
NoOrphans ==
  \A u \in Upstreams, id \in Ids \ models :
    id \in list[u] => \/ \E a \in Admins : adm[a].op \in {"lists", "strip"} /\ adm[a].id = id
                      \/ id \in wanted[u]

\* An upstream takes over no model that the administrator's list did not give it.
ServesWhatWasWanted == \A u \in Upstreams : customAccountServes(list[u]) \subseteq customAccountServes(wanted[u])
=============================================================================

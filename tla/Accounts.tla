------------------------------ MODULE Accounts ------------------------------
(***************************************************************************)
(* The user table and the API keys.  People register, the administrator    *)
(* creates, edits and deletes users, and keys are minted and deleted.      *)
(* Every request reads what it checks (is there an administrator, is the   *)
(* e-mail taken, is the name taken) by queries of its own before it        *)
(* writes.  The database keeps e-mails unique, and a key's user: it        *)
(* refuses a second row of an e-mail, and to delete a user with a key.     *)
(***************************************************************************)
EXTENDS Naturals

CONSTANTS
  Registers, Creates, Updates,  \* requests, by handler
  Minters,                      \* requests for a key in place of all others
  Emails, Names,                \* NoName is the name of a user without
  NoName,
  MaxUsers, MaxKeys,            \* bounds on the rows written
  MaxBlips,                     \* bound on the queries of UpdateUser that fail
  Deletes                       \* whether the administrator deletes users

\* What an instance must give the constants.
AccountsAssumption ==
  /\ Registers \cap Creates = {} /\ Updates \cap (Registers \cup Creates) = {}
  /\ NoName \notin Names /\ MaxUsers \in Nat /\ MaxKeys \in Nat /\ MaxBlips \in Nat
  /\ Deletes \in BOOLEAN

VARIABLES
  users,     \* the rows: id -> e-mail, name, role
  keys,      \* the keys: id -> user
  request,   \* where each request is, what it asks for, and what it has read
  minter,    \* where each mint is, its user, and the keys it met
  created, minted, blips

vars == <<users, keys, request, minter, created, minted, blips>>

Requests == Registers \cup Creates \cup Updates
Ids == 1..MaxUsers
Roles == {"user", "agent", "admin"}
Rows == [email : Emails, name : Names \cup {NoName}, role : Roles]
Out == [pc |-> "out"]

AccountsTypeOK ==
  /\ \E D \in SUBSET Ids : users \in [D -> Rows]
  /\ \E D \in SUBSET (1..MaxKeys) : keys \in [D -> Ids]
  /\ \A r \in Requests : request[r].pc \in {"out", "admin", "email", "name", "role", "write"}
  /\ \A m \in Minters : minter[m].pc \in {"out", "delete", "create"}
  /\ created \in 0..MaxUsers /\ minted \in 0..MaxKeys /\ blips \in 0..MaxBlips

Init ==
  /\ users = << >> /\ keys = << >> /\ created = 0 /\ minted = 0 /\ blips = 0
  /\ request = [r \in Requests |-> Out]
  /\ minter = [m \in Minters |-> Out]

There == DOMAIN users
HasAdmin == \E u \in There : users[u].role = "admin"
ExistsEmail(e, self) == \E u \in There \ {self} : users[u].email = e
ExistsName(n, self) == \E u \in There \ {self} : users[u].name = n

Goto(r, pc) == request' = [request EXCEPT ![r].pc = pc]
Ends(r) == request' = [request EXCEPT ![r] = Out]

-----------------------------------------------------------------------------
\* A request arrives with the fields of the form.
Register(r, e, n) ==
  /\ request[r].pc = "out" /\ created < MaxUsers
  /\ request' = [request EXCEPT ![r] =
       [pc |-> "admin", id |-> 0, email |-> e, name |-> n, role |-> "user", first |-> FALSE]]
  /\ UNCHANGED <<users, keys, minter, created, minted, blips>>

\* The first account bootstraps the administrator; the toggle, the domains and
\* the code only hold once there is one, and turn a registration away.
BootstrapsOrIsOpen(r) ==
  /\ request[r].pc = "admin"
  /\ request' = [request EXCEPT ![r] = [@ EXCEPT !.pc = "email", !.first = ~HasAdmin]]
  /\ UNCHANGED <<users, keys, minter, created, minted, blips>>

TurnedAway(r) ==
  /\ request[r].pc = "admin" /\ HasAdmin
  /\ Ends(r)
  /\ UNCHANGED <<users, keys, minter, created, minted, blips>>

\* CreateUser: an administrator is created as a user.
NewRole(role) == IF role = "admin" THEN "user" ELSE role

CreateUser(r, e, n, role) ==
  /\ request[r].pc = "out" /\ created < MaxUsers /\ HasAdmin
  /\ request' = [request EXCEPT ![r] =
       [pc |-> "email", id |-> 0, email |-> e, name |-> n, role |-> NewRole(role), first |-> FALSE]]
  /\ UNCHANGED <<users, keys, minter, created, minted, blips>>

\* UpdateUser asks for every field; "admin" for the role asks for no change.
UpdateUser(r, u, e, n, role) ==
  /\ request[r].pc = "out" /\ HasAdmin
  /\ request' = [request EXCEPT ![r] =
       [pc |-> "email", id |-> u, email |-> e, name |-> n, role |-> role, first |-> FALSE]]
  /\ UNCHANGED <<users, keys, minter, created, minted, blips>>

CheckEmail(r) ==
  /\ request[r].pc = "email"
  /\ IF ExistsEmail(request[r].email, request[r].id) THEN Ends(r) ELSE Goto(r, "name")
  /\ UNCHANGED <<users, keys, minter, created, minted, blips>>

\* An empty name is not looked for.
NameTaken(r) == request[r].name # NoName /\ ExistsName(request[r].name, request[r].id)

CheckName(r) ==
  /\ request[r].pc = "name"
  /\ IF NameTaken(r) THEN Ends(r) ELSE Goto(r, IF r \in Updates THEN "role" ELSE "write")
  /\ UNCHANGED <<users, keys, minter, created, minted, blips>>

\* The role is patched when the user is not the administrator, or not found.
MayChangeRole(r) ==
  /\ request[r].role # "admin"
  /\ request[r].id \in There => users[request[r].id].role # "admin"

ReadRole(r) ==
  /\ request[r].pc = "role"
  /\ request' = [request EXCEPT ![r] =
       [@ EXCEPT !.pc = "write", !.role = IF MayChangeRole(r) THEN request[r].role ELSE "admin"]]
  /\ UNCHANGED <<users, keys, minter, created, minted, blips>>

\* The query fails, its error is dropped: the user counts as not found.
ReadRoleFails(r) ==
  /\ request[r].pc = "role" /\ blips < MaxBlips
  /\ blips' = blips + 1
  /\ Goto(r, "write")
  /\ UNCHANGED <<users, keys, minter, created, minted>>

\* The unique index of the table refuses another row of the e-mail.
UniqueIndex(e, self) == ~ExistsEmail(e, self)

Insert(r) ==
  /\ request[r].pc = "write" /\ r \notin Updates
  /\ IF UniqueIndex(request[r].email, 0) /\ created < MaxUsers
     THEN /\ created' = created + 1
          /\ users' = [u \in There \cup {created + 1} |->
               IF u # created + 1 THEN users[u]
               ELSE [email |-> request[r].email, name |-> request[r].name,
                     role |-> IF request[r].first THEN "admin" ELSE request[r].role]]
     ELSE UNCHANGED <<users, created>>
  /\ Ends(r)
  /\ UNCHANGED <<keys, minter, minted, blips>>

\* A patch of a user that is gone changes no row.
Patch(r) ==
  /\ request[r].pc = "write" /\ r \in Updates
  /\ LET q == request[r] IN
       users' = IF q.id \in There /\ UniqueIndex(q.email, q.id)
                THEN [users EXCEPT ![q.id] = [email |-> q.email, name |-> q.name,
                                              role |-> IF q.role = "admin" THEN @.role ELSE q.role]]
                ELSE users
  /\ Ends(r)
  /\ UNCHANGED <<keys, minter, created, minted, blips>>

KeysOf(u) == {k \in DOMAIN keys : keys[k] = u}

\* Mutant of MayDelete: the key's reference does not hold its user.
MayDeleteAny(u) == TRUE

\* The foreign key of the keys refuses to delete their user.
MayDelete(u) == KeysOf(u) = {}

\* DeleteUser, and DeleteUsers of several: all of them or none.
DeleteUsers(D) ==
  /\ Deletes /\ D # {} /\ \A u \in D : MayDelete(u)
  /\ users' = [u \in There \ D |-> users[u]]
  /\ UNCHANGED <<keys, request, minter, created, minted, blips>>

-----------------------------------------------------------------------------
\* Mint: in one transaction the keys of the user are deleted and one is created.
Mint(m, u) ==
  /\ minter[m].pc = "out" /\ u \in There
  /\ minter' = [minter EXCEPT ![m] = [pc |-> "delete", user |-> u, met |-> KeysOf(u)]]
  /\ UNCHANGED <<users, keys, request, created, minted, blips>>

Replaced(u) == KeysOf(u)

\* The keys committed by now go, with the commit; a later one is not met.
MintDeletes(m) ==
  /\ minter[m].pc = "delete"
  /\ minter' = [minter EXCEPT ![m] = [pc |-> "create", user |-> @.user, met |-> @.met,
                                      gone |-> Replaced(@.user)]]
  /\ UNCHANGED <<users, keys, request, created, minted, blips>>

\* The commit; the foreign key refuses the key of a user that is gone.
MintCommits(m) ==
  /\ minter[m].pc = "create"
  /\ IF minter[m].user \in There /\ minted < MaxKeys
     THEN /\ minted' = minted + 1
          /\ keys' = [k \in (DOMAIN keys \ minter[m].gone) \cup {minted + 1} |->
                        IF k = minted + 1 THEN minter[m].user ELSE keys[k]]
     ELSE UNCHANGED <<keys, minted>>
  /\ minter' = [minter EXCEPT ![m] = Out]
  /\ UNCHANGED <<users, request, created, blips>>

\* The administrator adds a key beside the others.
CreateUserAPIKey(u) ==
  /\ u \in There /\ minted < MaxKeys
  /\ minted' = minted + 1
  /\ keys' = [k \in DOMAIN keys \cup {minted + 1} |-> IF k = minted + 1 THEN u ELSE keys[k]]
  /\ UNCHANGED <<users, request, minter, created, blips>>

\* Revoke deletes all keys of a user, DeleteOne and the administrator one.
DeleteKeys(D) ==
  /\ D # {} /\ keys' = [k \in DOMAIN keys \ D |-> keys[k]]
  /\ UNCHANGED <<users, request, minter, created, minted, blips>>

Next ==
  \/ \E e \in Emails, n \in Names :
       \/ \E r \in Registers : Register(r, e, n)
       \/ \E r \in Creates, role \in Roles, m \in {n, NoName} : CreateUser(r, e, m, role)
       \/ \E r \in Updates, u \in There, role \in Roles, m \in {n, NoName} : UpdateUser(r, u, e, m, role)
  \/ \E r \in Requests :
       \/ BootstrapsOrIsOpen(r) \/ TurnedAway(r) \/ CheckEmail(r) \/ CheckName(r)
       \/ ReadRole(r) \/ ReadRoleFails(r) \/ Insert(r) \/ Patch(r)
  \/ \E D \in SUBSET There : DeleteUsers(D)
  \/ \E m \in Minters, u \in There : Mint(m, u)
  \/ \E m \in Minters : MintDeletes(m) \/ MintCommits(m)
  \/ \E u \in There : CreateUserAPIKey(u) \/ DeleteKeys(KeysOf(u))
  \/ \E k \in DOMAIN keys : DeleteKeys({k})

Spec == Init /\ [][Next]_vars

-----------------------------------------------------------------------------
\* User: no two accounts of one e-mail, whichever requests meet.
UniqueEmail == \A u, v \in There : users[u].email = users[v].email => u = v

\* Register, CreateUser, UpdateUser: "the user name exists already".
UniqueName == \A u, v \in There : users[u].name = users[v].name /\ users[u].name # NoName => u = v

\* "The very first account ever bootstraps the admin": there is one administrator.
OneAdmin == \A u, v \in There : users[u].role = "admin" /\ users[v].role = "admin" => u = v

\* UpdateUser never changes the role of the administrator: the back office does
\* not lose it to an edit.
KeepsAdmin == \A u \in There \cap DOMAIN users' : users[u].role = "admin" => users'[u].role = "admin"

\* GetByAPIKeyHash: every key has its user.
KeysHaveUsers == \A k \in DOMAIN keys : keys[k] \in There

\* Mint: the keys the user had when the new one was asked for are off when it
\* is there, whatever else is minted meanwhile.
TurnsOldKeysOff ==
  \A m \in Minters :
    minter[m].pc = "create" /\ minter'[m].pc = "out" /\ minted' # minted
      => minter[m].met \cap DOMAIN keys' = {}
=============================================================================

---------------------------- MODULE AccessControl ----------------------------
(***************************************************************************)
(* Accounts, roles, officers and stations, administered by concurrent       *)
(* requests, and the permissions of accounts, used through access tokens.   *)
(*                                                                          *)
(*   CreateUser, Touch, SetActive, Assign            UsersService           *)
(*   CreateRole, Touch, Assign, DeleteRole           RolesService           *)
(*   CreateOfficer, UpdateOfficer                    OfficersService        *)
(*   CreateStation, UpdateStation                    PoliceStationsService  *)
(*   Sign       AuthService.login and refreshTokens, as far as claims go    *)
(*   UseToken   JwtAuthGuard and PermissionsGuard                           *)
(*   Seed       the script src/seeds/initial-seed.ts                        *)
(*                                                                          *)
(* No handler opens a transaction.  Each reads the entity with its many-to- *)
(* many relation (the roles of an account, the permissions of a role),      *)
(* changes it and calls TypeORM's save, which reads the row and its         *)
(* junction rows again and, in a transaction of its own, writes what the    *)
(* entity differs in - also what another request has changed meanwhile.     *)
(* Passwords, lockout and refresh tokens are the business of                *)
(* AccountSessions.                                                         *)
(***************************************************************************)
EXTENDS Naturals, FiniteSets

CONSTANTS
  Requests,     \* HTTP requests, and runs of the seed script
  Emails,       \* addresses of accounts
  Seeded,       \* those of them that the seed script creates
  Badges,       \* badge numbers of officers
  Codes,        \* codes of stations
  SystemRoles,  \* roles that the seed script creates
  CustomRoles,  \* other roles that exist from the start
  Permissions,
  Lifetime,     \* of an access token
  MaxTime,      \* bound: time
  None

\* A role made by CreateRole is named by the request.
Roles == SystemRoles \cup CustomRoles \cup Requests

Keys == Emails \cup Badges \cup Codes

Ids == Keys \cup Roles

ASSUME KeysAssumption ==
  /\ Seeded \subseteq Emails
  /\ Keys \cap Roles = {} /\ Emails \cap (Badges \cup Codes) = {} /\ Badges \cap Codes = {}
  /\ SystemRoles \cap CustomRoles = {} /\ (SystemRoles \cup CustomRoles) \cap Requests = {}
ASSUME TimeAssumption == Lifetime \in Nat /\ MaxTime \in Nat

VARIABLES
  row,          \* committed row of each account, role, officer and station
  pc,           \* where each request is
  call,         \* what a request was asked to do
  entity,       \* the entity that it has read and changed
  diff,         \* what its save will write
  token,        \* the access token that a Sign has issued
  clock,
  asked,        \* history: the calls made so far
  before,       \* history: pairs of requests, the first ended when the second began
  lost          \* history: since when a seeded account lacks a permission, or None

locals == <<call, entity, diff>>
histories == <<asked, before>>
accessVars == <<row, pc, locals, token, clock, histories, lost>>

-----------------------------------------------------------------------------
(* The grants of an account are its roles, those of a role its permissions.  *)
(* flag is isActive, or isSystem of a role.                                  *)

Row == [flag : BOOLEAN, grants : SUBSET (Roles \cup Permissions)]

Accounts == {e \in Emails : row[e] # None}

Present == {x \in Roles : row[x] # None}

Grantable(x) ==
  CASE x \in Emails -> Present
    [] x \in Roles -> Permissions
    [] OTHER -> {}

\* What there is to be edited: a system role is not.
Editable == {x \in Ids : row[x] # None /\ ~(x \in Roles /\ row[x].flag)}

\* extractPermissions of the roles of account e.
Claims(e) == UNION {row[x].grants : x \in row[e].grants}

Holds(e, p) == e \in Accounts /\ row[e].flag /\ p \in Claims(e)

Operation == {"assign", "touch", "activate", "deactivate", "create", "delete",
              "sign", "use", "seed"}

Call == [op : Operation, on : Ids \cup {None},
         wanted : {None} \cup SUBSET (Roles \cup Permissions)]

Token == [user : Emails, claims : SUBSET Permissions, readAt : 0..MaxTime,
          issuedAt : 0..MaxTime \cup {None}]

\* None is none of the values that it stands in for.
ASSUME NoneAssumption ==
  /\ None \notin Ids \cup Nat \cup Row \cup Call \cup Token
  /\ \A grants \in SUBSET (Roles \cup Permissions) : None # grants

NoDiff == [insert |-> FALSE, flag |-> FALSE, add |-> {}, drop |-> {}]

Stage == {"idle", "new", "found", "ready", "merged", "saved", "row", "done", "failed"}

InFlight == {"new", "found", "ready", "merged", "saved", "row"}

Ended(r) == pc[r] \in {"done", "failed"}

AccessTypeOK ==
  /\ row \in [Ids -> Row \cup {None}]
  /\ \A e \in Accounts : row[e].grants \subseteq Present
  /\ \A x \in Present : row[x].grants \subseteq Permissions
  /\ pc \in [Requests -> Stage]
  /\ call \in [Requests -> Call \cup {None}]
  /\ entity \in [Requests -> Row \cup {None}]
  /\ diff \in [Requests -> [insert : BOOLEAN, flag : BOOLEAN,
                             add : SUBSET (Roles \cup Permissions),
                             drop : SUBSET (Ids \cup Permissions)]]
  /\ token \in [Requests -> Token \cup {None}]
  /\ clock \in 0..MaxTime
  /\ before \subseteq Requests \X Requests
  /\ lost \in [Seeded \X Permissions -> 0..MaxTime \cup {None}]

AccessInit ==
  /\ row = [x \in Ids |->
              CASE x \in Seeded -> [flag |-> TRUE, grants |-> CustomRoles]
                [] x \in SystemRoles -> [flag |-> TRUE, grants |-> Permissions]
                [] x \in CustomRoles -> [flag |-> FALSE, grants |-> Permissions]
                [] OTHER -> None]
  /\ pc = [r \in Requests |-> "idle"]
  /\ call = [r \in Requests |-> None]
  /\ entity = [r \in Requests |-> None]
  /\ diff = [r \in Requests |-> NoDiff]
  /\ token = [r \in Requests |-> None]
  /\ clock = 0
  /\ asked = {} /\ before = {}
  /\ lost = [h \in Seeded \X Permissions |-> IF Holds(h[1], h[2]) THEN None ELSE 0]

-----------------------------------------------------------------------------
(* What every handler reads first.                                          *)

Goto(r, stage) == pc' = [pc EXCEPT ![r] = stage]

\* Request r is asked to do c, has read its row and holds the entity e.
Enter(r, c, stage, e) ==
  /\ Goto(r, stage)
  /\ call' = [call EXCEPT ![r] = c]
  /\ entity' = [entity EXCEPT ![r] = e]
  /\ asked' = asked \cup {[by |-> r, op |-> c.op, on |-> c.on, wanted |-> c.wanted]}
  /\ UNCHANGED <<diff, clock>>

Begin(r, op, x, wanted, stage, e) ==
  /\ pc[r] = "idle"
  /\ Enter(r, [op |-> op, on |-> x, wanted |-> wanted], stage, e)
  /\ before' = before \cup {<<q, r>> : q \in {p \in Requests : Ended(p) /\ call[p] # None}}

\* assignRoles, and update of a role with permissionIds: all grants are replaced.
Assign(r) ==
  \E x \in Editable \cap (Emails \cup Roles) :
    \E wanted \in SUBSET Grantable(x) :
      Begin(r, "assign", x, wanted, "found", row[x]) /\ UNCHANGED <<row, token>>

\* update, of which all but the grants is left out.
TouchOne(r, x) == Begin(r, "touch", x, None, "ready", row[x]) /\ UNCHANGED <<row, token>>

\* update of an account, and of a role without permissionIds.
Touch(r) == \E x \in Editable \cap (Emails \cup Roles) : TouchOne(r, x)

UpdateOfficer(r) == \E x \in Editable \cap Badges : TouchOne(r, x)

UpdateStation(r) == \E x \in Editable \cap Codes : TouchOne(r, x)

\* activate and deactivate; the entity is only looked up.
SetActive(r) ==
  \E e \in Accounts, op \in {"activate", "deactivate"} :
    Begin(r, op, e, None, "ready", row[e]) /\ UNCHANGED <<row, token>>

New == [flag |-> TRUE, grants |-> {}]

Free == {x \in Keys : row[x] = None}

CreateOne(r, k, wanted) ==
  Begin(r, "create", k, wanted, "new", New) /\ UNCHANGED <<row, token>>

\* No account has the address yet, no officer the badge number, no station the
\* code.
CreateUser(r) == \E k \in Free \cap Emails, wanted \in SUBSET Present : CreateOne(r, k, wanted)

CreateOfficer(r) == \E k \in Free \cap Badges : CreateOne(r, k, {})

CreateStation(r) == \E k \in Free \cap Codes : CreateOne(r, k, {})

\* No role has the name yet.
CreateRole(r) ==
  \E granted \in SUBSET Permissions :
    /\ Begin(r, "create", r, granted, "new", [flag |-> FALSE, grants |-> granted])
    /\ UNCHANGED <<row, token>>

DeleteRole(r) ==
  \E x \in Present :
    /\ ~row[x].flag
    /\ Begin(r, "delete", x, None, "ready", row[x]) /\ UNCHANGED <<row, token>>

\* Faulty variant of Sign: the active flag is not looked at.
SignAny(r) ==
  \E e \in Accounts \cap Seeded :
    /\ Begin(r, "sign", e, None, "ready", row[e])
    /\ token' = [token EXCEPT ![r] = [user |-> e, claims |-> Claims(e),
                                      readAt |-> clock, issuedAt |-> None]]
    /\ UNCHANGED row

\* login and refreshTokens read an active account with its permissions.  One
\* made by create has no password and cannot log in.
Sign(r) ==
  \E e \in Accounts \cap Seeded :
    /\ row[e].flag
    /\ Begin(r, "sign", e, None, "ready", row[e])
    /\ token' = [token EXCEPT ![r] = [user |-> e, claims |-> Claims(e),
                                      readAt |-> clock, issuedAt |-> None]]
    /\ UNCHANGED row

Live(k) == k # None /\ k.issuedAt # None /\ clock < k.issuedAt + Lifetime

\* A request with a live token whose claims name the permission required.
UseToken(r) ==
  \E q \in Requests :
    /\ Live(token[q])
    /\ \E p \in token[q].claims :
         Begin(r, "use", token[q].user, {p}, "done", None)
    /\ token' = [token EXCEPT ![r] = token[q]]
    /\ UNCHANGED row

Seed(r) == Begin(r, "seed", None, None, "ready", None) /\ UNCHANGED <<row, token>>

\* Not found, a system role, a name or an address taken, an account that is not
\* active, or a token that the guards refuse.
Refuse(r) ==
  /\ pc[r] = "idle"
  /\ Goto(r, "failed")
  /\ UNCHANGED <<row, locals, token, clock, histories>>

-----------------------------------------------------------------------------
(* Saving.                                                                  *)

Saves(r) == call[r].op \in {"assign", "touch", "create"}

Unchanged == UNCHANGED <<token, clock, histories>>

\* What follows the INSERT: an account that is to have roles is saved again.
AfterInsert(r) ==
  IF call[r].on \in Emails /\ call[r].wanted # {} THEN "found" ELSE "saved"

\* Faulty variant of Insert: the unique index is missing.
InsertAnyway(r) ==
  /\ pc[r] = "new"
  /\ row' = [row EXCEPT ![call[r].on] = entity[r]]
  /\ Goto(r, AfterInsert(r))
  /\ UNCHANGED locals /\ Unchanged

\* The unique index on the address, badge number, code or name admits one row.
Insert(r) ==
  /\ pc[r] = "new" /\ row[call[r].on] = None
  /\ row' = [row EXCEPT ![call[r].on] = entity[r]]
  /\ Goto(r, AfterInsert(r))
  /\ UNCHANGED locals /\ Unchanged

\* Faulty variant of LookUp: the new grants are added to the old ones.
LookUpAdding(r) ==
  /\ pc[r] = "found"
  /\ entity' = [entity EXCEPT ![r].grants = @ \cup (call[r].wanted \cap Grantable(call[r].on))]
  /\ Goto(r, "ready")
  /\ UNCHANGED <<row, call, diff>> /\ Unchanged

\* findByIds: ids of roles that are gone are left out without a word.
LookUp(r) ==
  /\ pc[r] = "found"
  /\ entity' = [entity EXCEPT ![r].grants = call[r].wanted \cap Grantable(call[r].on)]
  /\ Goto(r, "ready")
  /\ UNCHANGED <<row, call, diff>> /\ Unchanged

\* save() reads the row and its junction rows again.  An entity whose row is
\* gone will be inserted.
Merge(r) ==
  /\ pc[r] = "ready" /\ Saves(r)
  /\ LET old == row[call[r].on]
         new == entity[r]
     IN  diff' = [diff EXCEPT ![r] =
           IF old = None
           THEN [insert |-> TRUE, flag |-> FALSE, add |-> new.grants, drop |-> {}]
           ELSE [insert |-> FALSE, flag |-> new.flag # old.flag,
                 add |-> new.grants \ old.grants, drop |-> old.grants \ new.grants]]
  /\ Goto(r, "merged")
  /\ UNCHANGED <<row, call, entity>> /\ Unchanged

\* The transaction of save().  It fails if a grant to be added is there
\* already or names a role that is gone, and if a row to be inserted is there;
\* an UPDATE of a row that is gone finds nothing to change.
Save(r) ==
  LET x == call[r].on
      d == diff[r]
  IN  /\ pc[r] = "merged" /\ Saves(r)
      /\ d.add \subseteq Grantable(x)
      /\ IF d.insert
         THEN row[x] = None /\ row' = [row EXCEPT ![x] = entity[r]]
         ELSE IF row[x] = None
         THEN d.add = {} /\ UNCHANGED row
         ELSE /\ d.add \cap row[x].grants = {}
              /\ row' = [row EXCEPT ![x] =
                   [flag |-> IF d.flag THEN entity[r].flag ELSE @.flag,
                    grants |-> (@.grants \cup d.add) \ d.drop]]
      /\ Goto(r, "saved")
      /\ UNCHANGED locals /\ Unchanged

Holders(x) == {e \in Accounts : x \in row[e].grants}

\* remove() reads the accounts that have the role.
MergeDelete(r) ==
  /\ pc[r] = "ready" /\ call[r].op = "delete"
  /\ diff' = [diff EXCEPT ![r] = [NoDiff EXCEPT !.drop = Holders(call[r].on)]]
  /\ Goto(r, "merged")
  /\ UNCHANGED <<row, call, entity>> /\ Unchanged

\* Faulty variant of RemoveRole: nobody else's grant of the role is looked for.
RemoveUnchecked(r) ==
  /\ pc[r] = "merged" /\ call[r].op = "delete"
  /\ row' = [x \in Ids |->
               CASE x = call[r].on -> None
                 [] x \in diff[r].drop -> [row[x] EXCEPT !.grants = @ \ {call[r].on}]
                 [] OTHER -> row[x]]
  /\ Goto(r, "saved")
  /\ UNCHANGED locals /\ Unchanged

\* Its transaction takes the role from them and deletes it, which fails if some
\* other account has been given the role since.
RemoveRole(r) ==
  /\ pc[r] = "merged" /\ call[r].op = "delete"
  /\ Holders(call[r].on) \subseteq diff[r].drop
  /\ row' = [x \in Ids |->
               CASE x = call[r].on -> None
                 [] x \in diff[r].drop -> [row[x] EXCEPT !.grants = @ \ {call[r].on}]
                 [] OTHER -> row[x]]
  /\ Goto(r, "saved")
  /\ UNCHANGED locals /\ Unchanged

\* UPDATE users SET is_active.
WriteActive(r) ==
  /\ pc[r] = "ready" /\ call[r].op \in {"activate", "deactivate"}
  /\ row' = [row EXCEPT ![call[r].on].flag = (call[r].op = "activate")]
  /\ Goto(r, "saved")
  /\ UNCHANGED locals /\ Unchanged

\* Request r ends; what it held is gone.
Finish(r, stage) ==
  /\ Goto(r, stage)
  /\ entity' = [entity EXCEPT ![r] = None]
  /\ diff' = [diff EXCEPT ![r] = NoDiff]
  /\ UNCHANGED call

\* The token is signed with the claims read before.
Issue(r) ==
  /\ pc[r] = "ready" /\ call[r].op = "sign"
  /\ token' = [token EXCEPT ![r].issuedAt = clock]
  /\ Finish(r, "done")
  /\ UNCHANGED <<row, clock, histories>>

\* The transaction of the seed script: its roles are system roles with their
\* permissions again, its accounts are active and have a system role.
CommitSeed(r) ==
  /\ pc[r] = "ready" /\ call[r].op = "seed"
  /\ LET old(x) == IF row[x] = None THEN {} ELSE row[x].grants
         add(x) == IF x \in Emails THEN SystemRoles ELSE Permissions
     IN  row' = [x \in Ids |-> IF x \in Seeded \cup SystemRoles
                               THEN [flag |-> TRUE, grants |-> old(x) \cup add(x)]
                               ELSE row[x]]
  /\ Finish(r, "done") /\ Unchanged

\* The audit insert follows the change, outside any transaction; there is none
\* for stations.
LogAudit(r) ==
  /\ pc[r] = "saved"
  /\ Finish(r, "done")
  /\ UNCHANGED row /\ Unchanged

\* A statement, the audit insert or the process fails: what was saved stays.
Fail(r) ==
  /\ pc[r] \in InFlight
  /\ Finish(r, "failed")
  /\ UNCHANGED row /\ Unchanged

Tick ==
  /\ clock < MaxTime /\ clock' = clock + 1
  /\ UNCHANGED <<row, pc, locals, token, histories>>

Start(r) ==
  \/ Assign(r)
  \/ Touch(r)
  \/ UpdateOfficer(r)
  \/ UpdateStation(r)
  \/ SetActive(r)
  \/ CreateUser(r)
  \/ CreateOfficer(r)
  \/ CreateStation(r)
  \/ CreateRole(r)
  \/ DeleteRole(r)
  \/ Sign(r)
  \/ UseToken(r)
  \/ Seed(r)
  \/ Refuse(r)

Proceed(r) ==
  \/ Insert(r)
  \/ LookUp(r)
  \/ Merge(r)
  \/ Save(r)
  \/ MergeDelete(r)
  \/ RemoveRole(r)
  \/ WriteActive(r)
  \/ Issue(r)
  \/ CommitSeed(r)

\* Every step keeps the history of what accounts hold.
Observe ==
  lost' = [h \in Seeded \X Permissions |->
             IF Holds(h[1], h[2])' THEN None
             ELSE IF lost[h] = None THEN clock ELSE lost[h]]

AccessNext ==
  /\ \/ \E r \in Requests : Start(r) \/ Proceed(r) \/ LogAudit(r) \/ Fail(r)
     \/ Tick
  /\ Observe

AccessSpec == AccessInit /\ [][AccessNext]_accessVars

-----------------------------------------------------------------------------
(* Properties.                                                              *)

\* The calls of other requests that had not ended before r began, and among
\* them those of requests that were in flight together with r.
Later(r) == {a \in asked : a.by # r /\ <<a.by, r>> \notin before}

Beside(r) == {a \in Later(r) : <<r, a.by>> \notin before}

Reseeded(r) == \E a \in Later(r) : a.op = "seed"

\* What an answered request has taken away stays away - roles that assignRoles
\* left out, permissions that an update of a role left out, the access of a
\* deactivated account, a deleted role - until somebody grants it later: only a
\* request in flight at the same time, with an entity read before, brings it
\* back by itself.
RevokedStaysRevoked ==
  \A r \in Requests :
    (pc[r] = "done" /\ call[r] # None) =>
      LET x == call[r].on
          saved == {a \in Beside(r) : a.on = x /\ a.op \in {"assign", "touch", "create"}}
      IN  /\ (call[r].op = "assign" /\ row[x] # None) =>
               \A g \in row[x].grants \ call[r].wanted :
                 \/ Reseeded(r)
                 \/ \E a \in Later(r) : a.on = x /\ a.wanted # None /\ g \in a.wanted
                 \/ \E a \in saved : a.op = "touch"
          /\ (call[r].op = "deactivate" /\ row[x].flag) =>
               Reseeded(r) \/ saved # {} \/ \E a \in Later(r) : a.op = "activate" /\ a.on = x
          /\ (call[r].op = "delete" /\ row[x] # None) => saved # {}

\* A permission that an account has lost, by deactivation or through its roles,
\* opens nothing once the lifetime of an access token has passed, except with a
\* token that was being issued when it was lost.
StaleAccessBounded ==
  [][\A r \in Requests :
       (pc[r] = "idle" /\ pc'[r] = "done" /\ call'[r].op = "use") =>
         LET k == token'[r]
         IN  \A p \in call'[r].wanted :
               LET since == lost[<<k.user, p>>]
               IN  since # None =>
                     \/ clock < since + Lifetime
                     \/ k.readAt <= since /\ since <= k.issuedAt]_accessVars

=============================================================================

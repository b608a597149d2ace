-------------------------- MODULE UserImport_proofs --------------------------
(***************************************************************************)
(* Accounts, roles and uploads, for any number of requests, accounts, roles *)
(* and files: what AccessControl and UserImport are about.                  *)
(***************************************************************************)
EXTENDS UserImport, FiniteSetTheorems, TLAPS

-----------------------------------------------------------------------------
(* What a request can be doing.                                             *)

Saving == {"assign", "touch", "create"}

\* What the operations are about.
Sensible(r, c) ==
  /\ c.op = "assign" => c.on \in (Emails \cup Roles) \ SystemRoles /\ c.wanted # None
  /\ c.op = "touch" => c.on \in Ids \ SystemRoles /\ c.wanted = None
  /\ c.op \in {"activate", "deactivate", "sign", "use"} => c.on \in Emails
  /\ c.op = "create" => c.on \in Keys \cup {r} /\ c.wanted # None
  /\ c.op = "delete" => c.on \in Roles \ SystemRoles

Asked(r) == [by |-> r, op |-> call[r].op, on |-> call[r].on, wanted |-> call[r].wanted]

CallInv ==
  /\ \A a \in asked : a.by \in Requests /\ pc[a.by] # "idle"
  /\ \A r \in Requests :
       /\ pc[r] = "idle" => call[r] = None /\ file[r] = None
       /\ call[r] # None => Asked(r) \in asked /\ Sensible(r, call[r])

\* The operations that have the stages.
StageInv ==
  \A r \in Requests :
    /\ pc[r] = "row" => file[r] # None
    /\ pc[r] \in InFlight \ {"row"} => call[r] # None
    /\ pc[r] = "new" => call[r].op = "create"
    /\ pc[r] = "found" => call[r].op \in {"assign", "create"}
    /\ pc[r] = "merged" => call[r].op \in Saving \cup {"delete"}
    /\ pc[r] = "ready" /\ call[r].op = "sign" => token[r] # None

\* Request r holds an entity that it will save.
Holding(r) ==
  call[r] # None /\ call[r].op \in Saving /\ pc[r] \in {"new", "found", "ready", "merged"}

EntityInv ==
  \A r \in Requests :
    /\ Holding(r) => entity[r] \in Row
    /\ pc[r] = "new" =>
         \/ call[r].on \in Keys /\ entity[r] = New
         \/ call[r].on = r /\ entity[r].grants = call[r].wanted /\ call[r].wanted \subseteq Permissions
    /\ pc[r] \in {"ready", "merged"} /\ call[r].op \in {"assign", "create"} =>
         entity[r].grants \subseteq call[r].wanted
    /\ pc[r] = "merged" /\ call[r].op \in Saving =>
         /\ diff[r].add \subseteq entity[r].grants
         /\ diff[r].insert => diff[r].add = entity[r].grants
    /\ pc[r] = "merged" /\ call[r].op = "delete" => diff[r].drop \subseteq Accounts

\* Rows that stay: those of system roles, and those of accounts, officers and
\* stations that a request has met.  A role that somebody else has met is there
\* since its request has inserted it.
RowsInv ==
  /\ \A x \in SystemRoles : row[x] # None /\ row[x].flag
  /\ \A r \in Requests :
       call[r] # None /\ call[r].op \in {"assign", "touch", "activate", "deactivate"}
       /\ call[r].on \in Keys => row[call[r].on] # None
  /\ \A q \in Requests :
       \/ row[q] # None
       \/ \E s \in Requests \ {q} : call[s] # None /\ call[s].on = q
       => pc[q] # "idle" /\ ~(pc[q] = "new" /\ call[q].on = q)

BeforeInv == \A pair \in before : Ended(pair[1]) /\ pc[pair[2]] # "idle"

-----------------------------------------------------------------------------
(* Tokens.                                                                  *)

LostInv == \A h \in Seeded \X Permissions :
  /\ lost[h] = None <=> Holds(h[1], h[2])
  /\ lost[h] # None => lost[h] <= clock

\* Nobody had lost what a token claims when it was read.
TokenInv ==
  \A r \in Requests : token[r] # None =>
    /\ token[r].user \in Seeded /\ token[r].readAt <= clock
    /\ \A p \in token[r].claims :
         lost[<<token[r].user, p>>] # None => token[r].readAt <= lost[<<token[r].user, p>>]

-----------------------------------------------------------------------------
(* Uploads.                                                                 *)

RolesOf(r, i) == IF file[r][i].roles = None THEN {} ELSE file[r][i].roles

UploadInv ==
  \A r \in Uploads :
    /\ pc[r] \in {"row", "new", "found", "ready", "merged", "saved", "done", "failed"}
    /\ created[r] \cup errors[r] = {i \in Accounted(r) : i < at[r]}
    /\ created[r] \cap errors[r] = {}
    /\ pc[r] = "done" => at[r] > Len(file[r])
    /\ call[r] # None => call[r].op = "create"
    /\ pc[r] \in InFlight \ {"row"} =>
         /\ at[r] \in DOMAIN file[r] /\ call[r].op = "create"
         /\ call[r].on = file[r][at[r]].key /\ call[r].on \in Keys
         /\ call[r].wanted = RolesOf(r, at[r])

CreatorInv ==
  /\ \A k \in Keys : creator[k] # None =>
       /\ row[k] # None /\ pc[creator[k][1]] # "idle"
       /\ creator[k][1] \in Uploads =>
            /\ creator[k][2] \in DOMAIN file[creator[k][1]]
            /\ file[creator[k][1]][creator[k][2]].key = k
  /\ \A r \in Uploads :
       /\ pc[r] \in {"found", "ready", "merged", "saved"} => creator[call[r].on] = <<r, at[r]>>
       /\ \A i \in created[r] : file[r][i].key \in Keys /\ creator[file[r][i].key] = <<r, i>>

\* What an upload can be alone with.
Solo(r) == {k \in Ids : Alone(r, k)}

\* With nobody else about, an upload's row gives its account the roles.
AloneInv ==
  \A r \in Uploads :
    /\ pc[r] \in InFlight \ {"row"} /\ call[r].on \in Solo(r) =>
         /\ pc[r] \in {"new", "found", "ready"} => call[r].wanted \subseteq Present
         /\ pc[r] \in {"found", "ready", "merged"} => row[call[r].on].grants = {}
         /\ pc[r] \in {"ready", "merged"} => entity[r].grants = call[r].wanted
         /\ pc[r] = "merged" =>
              ~diff[r].insert /\ diff[r].add = call[r].wanted /\ diff[r].drop = {}
         /\ pc[r] = "saved" => row[call[r].on].grants = call[r].wanted
    /\ \A i \in created[r] :
         file[r][i].key \in Solo(r) => row[file[r][i].key].grants = RolesOf(r, i)

-----------------------------------------------------------------------------
(* What is taken away.                                                      *)

Saved(r) == {a \in Beside(r) : a.on = call[r].on /\ a.op \in Saving}

Regranted(r, g) ==
  \/ Reseeded(r)
  \/ \E a \in Later(r) : a.on = call[r].on /\ a.wanted # None /\ g \in a.wanted
  \/ \E a \in Saved(r) : a.op = "touch"

\* Requests that read what r has written and will write it again.
Followers(r) ==
  {q \in Requests : <<r, q>> \in before /\ Holding(q) /\ call[q].on = call[r].on}

\* What the row of r has beyond what r left there.
Excess(r) == row[call[r].on].grants \ call[r].wanted

AssignInv ==
  \A r \in Requests : call[r] # None /\ call[r].op = "assign" =>
    /\ pc[r] = "merged" /\ ~diff[r].insert /\ row[call[r].on] # None =>
         \A g \in Excess(r) : g \in diff[r].drop \/ Regranted(r, g)
    /\ pc[r] \in {"saved", "done"} /\ row[call[r].on] # None =>
         \A g \in Excess(r) : Regranted(r, g)
    /\ pc[r] = "done" =>
         \A q \in Followers(r), g \in Roles \cup Permissions :
           call[q].op = "touch" /\ g \in entity[q].grants \ call[r].wanted => Regranted(r, g)

Reactivated(r) ==
  \/ Reseeded(r) \/ Saved(r) # {}
  \/ \E a \in Later(r) : a.op = "activate" /\ a.on = call[r].on

DeactivateInv ==
  \A r \in Requests : call[r] # None /\ call[r].op = "deactivate" =>
    /\ pc[r] \in {"saved", "done"} /\ row[call[r].on].flag => Reactivated(r)
    /\ pc[r] = "done" => \A q \in Followers(r) : entity[q].flag => Reactivated(r)

DeleteInv ==
  \A r \in Requests : call[r] # None /\ call[r].op = "delete" /\ pc[r] \in {"saved", "done"} =>
    \/ Saved(r) # {}
    \/ /\ row[call[r].on] = None
       /\ \A q \in Requests : Holding(q) => call[q].on # call[r].on

-----------------------------------------------------------------------------
(* What the steps do.                                                       *)

Types == TypeOK /\ CallInv /\ StageInv /\ EntityInv /\ RowsInv

\* Request r, with the history kept, moves on; all that others have stays.
OthersStay(r) ==
  \A q \in Requests \ {r} :
    /\ pc'[q] = pc[q] /\ call'[q] = call[q] /\ entity'[q] = entity[q] /\ diff'[q] = diff[q]
    /\ token'[q] = token[q]
    /\ file'[q] = file[q] /\ at'[q] = at[q] /\ created'[q] = created[q] /\ errors'[q] = errors[q]

\* Where a request starts with call c, at which stage and with which entity.
Legal(r, c, stage, e) ==
  \/ /\ c.op = "assign" /\ c.on \in Editable \cap (Emails \cup Roles)
     /\ c.wanted \in SUBSET Grantable(c.on) /\ stage = "found" /\ e = row[c.on]
  \/ c.op = "touch" /\ c.on \in Editable /\ c.wanted = None /\ stage = "ready" /\ e = row[c.on]
  \/ /\ c.op \in {"activate", "deactivate"} /\ c.on \in Accounts
     /\ c.wanted = None /\ stage = "ready" /\ e = row[c.on]
  \/ c.op = "create" /\ c.on \in Free /\ c.wanted \in SUBSET Present /\ stage = "new" /\ e = New
  \/ /\ c.op = "create" /\ c.on = r /\ pc[r] = "idle" /\ c.wanted \in SUBSET Permissions
     /\ stage = "new" /\ e = [flag |-> FALSE, grants |-> c.wanted]
  \/ /\ c.op = "delete" /\ c.on \in Present /\ ~row[c.on].flag
     /\ c.wanted = None /\ stage = "ready" /\ e = row[c.on]
  \/ /\ c.op = "sign" /\ c.on \in Accounts \cap Seeded /\ row[c.on].flag
     /\ c.wanted = None /\ stage = "ready" /\ e = row[c.on]
  \/ /\ c.op = "use" /\ c.on \in Emails /\ c.wanted \in SUBSET Permissions
     /\ stage = "done" /\ e = None
  \/ c.op = "seed" /\ c.on = None /\ c.wanted = None /\ stage = "ready" /\ e = None

\* A request starts, or an upload its next row.
Entering(r) ==
  \E c \in Call, stage \in Stage, e \in Row \cup {None} :
    /\ Legal(r, c, stage, e) /\ Enter(r, c, stage, e)
    /\ pc[r] = "idle" \/ (pc[r] = "row" /\ c.op = "create" /\ c.on \in Keys)
    /\ row' = row

\* The pairs that the start of r adds.
Begun(r) == before' = before \cup {<<q, r>> : q \in {p \in Requests : Ended(p) /\ call[p] # None}}

\* The token of r: read, copied, or left.
TokenRead(r) ==
  \E e \in Accounts \cap Seeded :
    /\ row[e].flag
    /\ token' = [token EXCEPT ![r] = [user |-> e, claims |-> Claims(e),
                                      readAt |-> clock, issuedAt |-> None]]

TokenCopied(r) ==
  \E q \in Requests : Live(token[q]) /\ token' = [token EXCEPT ![r] = token[q]]

LEMMA StartEffect ==
  ASSUME TypeOK, NEW r \in Requests, Start(r), UNCHANGED importVars
  PROVE  /\ pc[r] = "idle"
         /\ \/ Refuse(r)
            \/ /\ Entering(r) /\ Begun(r)
               /\ \/ token' = token /\ call'[r].op \notin {"sign", "use"}
                  \/ call'[r].op = "sign" /\ TokenRead(r)
                  \/ call'[r].op = "use" /\ TokenCopied(r)
  <1> USE DEF TypeOK, AccessTypeOK
  <1> DEFINE Started(op, x, wanted, stage, e) == Begin(r, op, x, wanted, stage, e) /\ row' = row
  <1>1. ASSUME NEW op \in Operation, NEW x, x \in Ids \/ x = None,
               NEW wanted, wanted \subseteq Roles \cup Permissions \/ wanted = None,
               NEW stage \in Stage, NEW e, e \in Row \/ e = None, Started(op, x, wanted, stage, e),
               Legal(r, [op |-> op, on |-> x, wanted |-> wanted], stage, e)
        PROVE  pc[r] = "idle" /\ Entering(r) /\ Begun(r) /\ call'[r].op = op
    <2> DEFINE c == [op |-> op, on |-> x, wanted |-> wanted]
    <2>1. c \in Call /\ e \in Row \cup {None}
      <3>1. x \in Ids \cup {None}
        BY <1>1
      <3>2. wanted \in {None} \cup SUBSET (Roles \cup Permissions)
        BY <1>1
      <3>3. e \in Row \cup {None}
        BY <1>1
      <3> QED
        BY <3>1, <3>2, <3>3 DEF Call
    <2>2. pc[r] = "idle" /\ Enter(r, c, stage, e) /\ Begun(r) /\ row' = row
      BY <1>1 DEF Begin, Begun
    <2>3. call'[r] = c
      BY <2>2 DEF Enter
    <2>4. Legal(r, c, stage, e)
      BY <1>1
    <2>5. call'[r].op = op
      BY <2>3
    <2> HIDE DEF c
    <2>6. Entering(r)
      BY <2>1, <2>2, <2>4 DEF Entering
    <2> QED
      BY <2>2, <2>5, <2>6
  <1>2. \A x \in Ids : row[x] # None => row[x] \in Row
    OBVIOUS
  <1>3. CASE Assign(r)
    <2>5. PICK x \in Editable \cap (Emails \cup Roles) : \E wanted \in SUBSET Grantable(x) :
            Begin(r, "assign", x, wanted, "found", row[x]) /\ UNCHANGED <<row, token>>
      BY <1>3 DEF Assign
    <2>1. PICK wanted \in SUBSET Grantable(x) :
            Begin(r, "assign", x, wanted, "found", row[x]) /\ UNCHANGED <<row, token>>
      BY <2>5
    <2>2. x \in Ids /\ row[x] \in Row
      BY <1>2, <2>1 DEF Editable, Ids, Keys
    <2>3. wanted \in SUBSET (Roles \cup Permissions)
      BY <2>1, KeysAssumption DEF Grantable, Present, Keys
    <2>4. Legal(r, [op |-> "assign", on |-> x, wanted |-> wanted], "found", row[x])
      BY <2>1 DEF Legal
    <2> QED
      BY <1>1, <2>1, <2>2, <2>3, <2>4 DEF Operation, Stage
  <1>4. ASSUME NEW x \in Editable, TouchOne(r, x)
        PROVE  pc[r] = "idle" /\ Entering(r) /\ Begun(r) /\ call'[r].op = "touch" /\ token' = token
    <2>1. x \in Ids /\ row[x] \in Row
      BY <1>2 DEF Editable
    <2>2. Legal(r, [op |-> "touch", on |-> x, wanted |-> None], "ready", row[x])
      BY DEF Legal
    <2> QED
      BY <1>1, <1>4, <2>1, <2>2 DEF Operation, Stage, TouchOne
  <1>5. CASE SetActive(r)
    <2>1. PICK e \in Accounts, op \in {"activate", "deactivate"} :
            Begin(r, op, e, None, "ready", row[e]) /\ UNCHANGED <<row, token>>
      BY <1>5 DEF SetActive
    <2>2. e \in Ids /\ row[e] \in Row
      BY <1>2 DEF Accounts, Ids, Keys
    <2>3. Legal(r, [op |-> op, on |-> e, wanted |-> None], "ready", row[e])
      BY DEF Legal
    <2>4. op \in Operation /\ op \notin {"sign", "use"} /\ "ready" \in Stage
      BY DEF Operation, Stage
    <2> QED
      BY <1>1, <2>1, <2>2, <2>3, <2>4
  <1>6. New \in Row
    BY DEF New, Row
  <1>7. ASSUME NEW k \in Free, NEW wanted \in SUBSET Present, CreateOne(r, k, wanted)
        PROVE  pc[r] = "idle" /\ Entering(r) /\ Begun(r) /\ call'[r].op = "create" /\ token' = token
    <2>1. k \in Ids /\ wanted \in SUBSET (Roles \cup Permissions)
      BY DEF Free, Ids, Present
    <2>2. Legal(r, [op |-> "create", on |-> k, wanted |-> wanted], "new", New)
      BY DEF Legal
    <2> QED
      BY <1>1, <1>6, <1>7, <2>1, <2>2 DEF Operation, Stage, CreateOne
  <1>8. CASE CreateRole(r)
    <2>1. PICK granted \in SUBSET Permissions :
            /\ Begin(r, "create", r, granted, "new", [flag |-> FALSE, grants |-> granted])
            /\ UNCHANGED <<row, token>>
      BY <1>8 DEF CreateRole
    <2>2. [flag |-> FALSE, grants |-> granted] \in Row /\ r \in Ids /\ pc[r] = "idle"
      BY <2>1 DEF Row, Ids, Roles, Begin
    <2>3. Legal(r, [op |-> "create", on |-> r, wanted |-> granted], "new",
                [flag |-> FALSE, grants |-> granted])
      BY <2>2 DEF Legal
    <2> QED
      BY <1>1, <2>1, <2>2, <2>3 DEF Operation, Stage
  <1>9. CASE DeleteRole(r)
    <2>1. PICK x \in Present :
            ~row[x].flag /\ Begin(r, "delete", x, None, "ready", row[x]) /\ UNCHANGED <<row, token>>
      BY <1>9 DEF DeleteRole
    <2>2. x \in Ids /\ row[x] \in Row
      BY <1>2 DEF Present, Ids
    <2>3. Legal(r, [op |-> "delete", on |-> x, wanted |-> None], "ready", row[x])
      BY <2>1 DEF Legal
    <2> QED
      BY <1>1, <2>1, <2>2, <2>3 DEF Operation, Stage
  <1>10. CASE Sign(r)
    <2>1. PICK e \in Accounts \cap Seeded :
            /\ row[e].flag /\ Begin(r, "sign", e, None, "ready", row[e])
            /\ token' = [token EXCEPT ![r] = [user |-> e, claims |-> Claims(e),
                                              readAt |-> clock, issuedAt |-> None]]
            /\ UNCHANGED row
      BY <1>10 DEF Sign
    <2>2. e \in Ids /\ row[e] \in Row
      BY <1>2 DEF Accounts, Ids, Keys
    <2>3. Legal(r, [op |-> "sign", on |-> e, wanted |-> None], "ready", row[e])
      BY <2>1 DEF Legal
    <2>4. TokenRead(r)
      BY <2>1 DEF TokenRead
    <2> QED
      <3>1. "sign" \in Operation /\ "ready" \in Stage
        BY DEF Operation, Stage
      <3> QED
        BY <1>1, <2>1, <2>2, <2>3, <2>4, <3>1
  <1>11. CASE UseToken(r)
    <2>1. PICK q \in Requests :
            /\ Live(token[q])
            /\ \E p \in token[q].claims : Begin(r, "use", token[q].user, {p}, "done", None)
            /\ token' = [token EXCEPT ![r] = token[q]]
            /\ UNCHANGED row
      BY <1>11 DEF UseToken
    <2>2. PICK p \in token[q].claims : Begin(r, "use", token[q].user, {p}, "done", None)
      BY <2>1
    <2>3. token[q].user \in Emails /\ p \in Permissions
      BY <2>1, <2>2 DEF Live, Token
    <2>6. {p} \subseteq Roles \cup Permissions
      BY <2>3
    <2>7. token[q].user \in Ids
      BY <2>3 DEF Ids, Keys
    <2>4. Legal(r, [op |-> "use", on |-> token[q].user, wanted |-> {p}], "done", None)
      BY <2>3 DEF Legal
    <2>5. TokenCopied(r)
      BY <2>1 DEF TokenCopied
    <2> QED
      BY <1>1, <2>1, <2>2, <2>3, <2>4, <2>5, <2>6, <2>7 DEF Operation, Stage
  <1>12. CASE Seed(r)
    <2>1. Legal(r, [op |-> "seed", on |-> None, wanted |-> None], "ready", None)
      BY DEF Legal
    <2>2. "seed" \in Operation /\ "ready" \in Stage
      BY DEF Operation, Stage
    <2> QED
      BY <1>1, <1>12, <2>1, <2>2 DEF Seed
  <1>13. CASE Refuse(r)
    BY <1>13 DEF Refuse
  <1> QED
    BY <1>3, <1>4, <1>5, <1>7, <1>8, <1>9, <1>10, <1>11, <1>12, <1>13
    DEF Start, Touch, UpdateOfficer, UpdateStation, CreateUser, CreateOfficer, CreateStation

\* A step of request r, or of its upload.
Acts(r) ==
  \/ Start(r) /\ UNCHANGED importVars
  \/ Proceed(r) /\ UNCHANGED <<file, at, created, errors>> /\ Credit(r)
  \/ r \notin Uploads /\ LogAudit(r) /\ UNCHANGED importVars
  \/ Fail(r) /\ UNCHANGED importVars
  \/ UploadStep(r)

LEMMA NextEffect ==
  ASSUME [Next]_vars
  PROVE  \/ \E r \in Requests : Acts(r) /\ Observe
         \/ Tick /\ UNCHANGED importVars /\ Observe
         \/ UNCHANGED vars
  BY DEF Next, Acts, Quiescent

\* The steps that write rows.
Writes(r) == Insert(r) \/ Save(r) \/ RemoveRole(r) \/ WriteActive(r) \/ CommitSeed(r)

\* Those that write none and leave the call as it is.
Works(r) ==
  \/ Refuse(r) \/ LookUp(r) \/ Merge(r) \/ MergeDelete(r) \/ Issue(r)
  \/ r \notin Uploads /\ LogAudit(r)
  \/ Fail(r)

\* Those of an upload.
Handles(r) ==
  \/ StartUpload(r) \/ SkipBlank(r) \/ Abort(r) \/ RejectRow(r)
  \/ RowCreated(r) \/ RowFailed(r) \/ Answer(r)

LEMMA ActsEffect ==
  ASSUME TypeOK, NEW r \in Requests, Acts(r)
  PROVE  \/ /\ Entering(r) /\ Begun(r) /\ pc[r] = "idle" /\ UNCHANGED importVars
            /\ \/ token' = token /\ call'[r].op \notin {"sign", "use"}
               \/ call'[r].op = "sign" /\ TokenRead(r)
               \/ call'[r].op = "use" /\ TokenCopied(r)
         \/ Entering(r) /\ CreateRow(r)
         \/ Writes(r) /\ UNCHANGED <<file, at, created, errors>> /\ Credit(r)
         \/ Works(r) /\ UNCHANGED importVars
         \/ Handles(r)
  <1>1. CASE Start(r) /\ UNCHANGED importVars
    BY <1>1, StartEffect DEF Works
  <1>2. CASE Proceed(r) /\ UNCHANGED <<file, at, created, errors>> /\ Credit(r)
    <2>1. CASE Writes(r)
      BY <1>2, <2>1
    <2>2. CASE LookUp(r) \/ Merge(r) \/ MergeDelete(r) \/ Issue(r)
      <3>1. row' = row
        BY <2>2 DEF LookUp, Merge, MergeDelete, Issue
      <3> QED
        BY <1>2, <2>2, <3>1 DEF Credit, importVars, Works
    <2> QED
      BY <1>2, <2>1, <2>2 DEF Proceed, Writes
  <1>3. CASE CreateRow(r)
    <2>1. PICK i \in {at[r]} :
            /\ AtRow(r, i) /\ RolesKnown(file[r][i].roles)
            /\ LET k == file[r][i].key
                   roles == IF file[r][i].roles = None THEN {} ELSE file[r][i].roles
               IN  /\ k \in Keys /\ row[k] = None
                   /\ Enter(r, [op |-> "create", on |-> k, wanted |-> roles], "new", New)
            /\ UNCHANGED <<row, token, before, importVars>>
      BY <1>3 DEF CreateRow
    <2> DEFINE k == file[r][i].key
               roles == IF file[r][i].roles = None THEN {} ELSE file[r][i].roles
               c == [op |-> "create", on |-> k, wanted |-> roles]
    <2>2. roles \in SUBSET Present
      BY <2>1 DEF RolesKnown
    <2>3. c \in Call
      BY <2>1, <2>2 DEF Call, Operation, Ids, Present
    <2>4. Legal(r, c, "new", New)
      BY <2>1, <2>2 DEF Legal, Free
    <2>5. New \in Row /\ "new" \in Stage
      BY DEF New, Row, Stage
    <2>6. pc[r] = "row" /\ c.op = "create" /\ c.on \in Keys /\ row' = row /\ Enter(r, c, "new", New)
      BY <2>1 DEF AtRow
    <2> HIDE DEF c
    <2>7. Entering(r)
      BY <2>3, <2>4, <2>5, <2>6 DEF Entering
    <2> QED
      BY <1>3, <2>7
  <1> QED
    BY <1>1, <1>2, <1>3 DEF Acts, UploadStep, Works, Handles

\* Request r leaves what the others have, and only adds to the history: the
\* call that it has now, and when it starts, the requests that have ended.
LEMMA Frame ==
  ASSUME TypeOK, NEW r \in Requests, Acts(r)
  PROVE  /\ OthersStay(r) /\ clock' = clock
         /\ asked \subseteq asked' /\ \A a \in asked' \ asked : call'[r] # None /\ a = Asked(r)'
         /\ before \subseteq before'
         /\ \A pair \in before' \ before :
              pc[r] = "idle" /\ pair[1] \in Requests /\ Ended(pair[1]) /\ pair[2] = r
         /\ pc[r] \in {"idle"} \cup InFlight /\ pc'[r] # "idle"
         /\ row' = row \/ Writes(r)
         /\ call'[r] = call[r] \/ Entering(r)
  <1> USE DEF TypeOK, AccessTypeOK, OthersStay
  <1>1. CASE Entering(r) /\ ((Begun(r) /\ pc[r] = "idle") \/ before' = before) /\ UNCHANGED importVars
             /\ (token' = token \/ TokenRead(r) \/ TokenCopied(r))
    <2>1. PICK c \in Call, stage \in Stage, e \in Row \cup {None} :
            /\ Legal(r, c, stage, e) /\ Enter(r, c, stage, e)
            /\ pc[r] = "idle" \/ (pc[r] = "row" /\ c.op = "create" /\ c.on \in Keys)
            /\ row' = row
      BY <1>1 DEF Entering
    <2>2. pc' = [pc EXCEPT ![r] = stage] /\ call' = [call EXCEPT ![r] = c]
          /\ entity' = [entity EXCEPT ![r] = e] /\ diff' = diff /\ clock' = clock
          /\ asked' = asked \cup {[by |-> r, op |-> c.op, on |-> c.on, wanted |-> c.wanted]}
      BY <2>1 DEF Enter, Goto
    <2>3. stage # "idle" /\ c # None
      BY <2>1, NoneAssumption, Zenon DEF Legal
    <2>4. pc'[r] = stage /\ call'[r] = c
      BY <2>2
    <2>5. \A q \in Requests \ {r} : token'[q] = token[q]
      BY <1>1 DEF TokenRead, TokenCopied
    <2>6. OthersStay(r)
      BY <1>1, <2>2, <2>5 DEF importVars
    <2>7. asked \subseteq asked' /\ \A a \in asked' \ asked : call'[r] # None /\ a = Asked(r)'
      BY <2>2, <2>3, <2>4 DEF Asked
    <2>8. /\ before \subseteq before'
          /\ \A pair \in before' \ before :
               pc[r] = "idle" /\ pair[1] \in Requests /\ Ended(pair[1]) /\ pair[2] = r
      BY <1>1 DEF Begun
    <2> QED
      BY <1>1, <2>1, <2>2, <2>3, <2>4, <2>6, <2>7, <2>8 DEF InFlight
  <1>2. CASE Writes(r) /\ UNCHANGED <<file, at, created, errors>>
    BY <1>2 DEF Writes, Insert, Save, RemoveRole, WriteActive, CommitSeed, Goto, Finish, locals,
                histories, Unchanged, InFlight, AfterInsert
  <1>3. CASE Works(r) /\ UNCHANGED importVars
    BY <1>3 DEF Works, Refuse, LookUp, Merge, MergeDelete, Issue, LogAudit, Fail, Goto, Finish,
                locals, histories, Unchanged, importVars, InFlight
  <1>4. CASE Handles(r)
    <2>1. CASE StartUpload(r)
      BY <2>1 DEF StartUpload, Goto, locals
    <2>2. CASE SkipBlank(r) \/ RejectRow(r)
      BY <2>2 DEF SkipBlank, RejectRow, AtRow, NextRow, Report, UploadUnchanged, Goto, locals,
                  histories, InFlight
    <2>3. CASE Abort(r) \/ Answer(r)
      BY <2>3 DEF Abort, Answer, AtRow, UploadUnchanged, Goto, Finish, histories, InFlight
    <2>4. CASE RowCreated(r) \/ RowFailed(r)
      BY <2>4 DEF RowCreated, RowFailed, Creating, NextRow, Report, UploadUnchanged, Goto,
                  histories, InFlight
    <2> QED
      BY <1>4, <2>1, <2>2, <2>3, <2>4 DEF Handles
  <1>5. CreateRow(r) => token' = token /\ before' = before /\ UNCHANGED importVars
    BY DEF CreateRow
  <1> HIDE DEF TypeOK, AccessTypeOK, OthersStay
  <1>6. \/ Entering(r) /\ Begun(r) /\ pc[r] = "idle" /\ UNCHANGED importVars
           /\ (token' = token \/ TokenRead(r) \/ TokenCopied(r))
        \/ Entering(r) /\ CreateRow(r)
        \/ Writes(r) /\ UNCHANGED <<file, at, created, errors>>
        \/ Works(r) /\ UNCHANGED importVars
        \/ Handles(r)
    BY ActsEffect
  <1> QED
    BY <1>1, <1>2, <1>3, <1>4, <1>5, <1>6

\* What is known of the call that a request starts with.
LEMMA LegalIsSensible ==
  ASSUME TypeOK, RowsInv, NEW r \in Requests, NEW c \in Call, NEW stage, NEW e,
         Legal(r, c, stage, e)
  PROVE  Sensible(r, c) /\ stage # "idle" /\ c # None
  <1>1. \A x \in Editable : x \in Ids \ SystemRoles
    BY DEF Editable, RowsInv, Ids, Roles
  <1>2. \A x \in Present : x \in Roles /\ (~row[x].flag => x \notin SystemRoles)
    BY DEF Present, RowsInv
  <1>3. c # None
    BY NoneAssumption, Zenon
  <1>4. c.wanted \in SUBSET (Roles \cup Permissions) => c.wanted # None
    BY NoneAssumption
  <1>5. \A x : c.wanted \in SUBSET Grantable(x) => c.wanted # None
    <2>1. \A x : Grantable(x) \subseteq Roles \cup Permissions \/ c.wanted # None
      BY NoneAssumption DEF Grantable, Present, Call
    <2> QED
      BY <1>4, <2>1
  <1>6. c.wanted \in SUBSET Present \/ c.wanted \in SUBSET Permissions => c.wanted # None
    BY <1>4 DEF Present
  <1> QED
    BY <1>1, <1>2, <1>3, <1>5, <1>6 DEF Legal, Sensible, Free, Accounts

LEMMA CallStep ==
  ASSUME TypeOK, CallInv, RowsInv, NEW r \in Requests, Acts(r)
  PROVE  CallInv'
  <1>1. /\ OthersStay(r)
        /\ asked \subseteq asked' /\ \A a \in asked' \ asked : call'[r] # None /\ a = Asked(r)'
        /\ pc'[r] # "idle"
        /\ call'[r] = call[r] \/ Entering(r)
    BY Frame
  <1>2. \A a \in asked' : a.by \in Requests /\ pc'[a.by] # "idle"
    BY <1>1 DEF CallInv, OthersStay, Asked
  <1>3. \A q \in Requests \ {r} :
          /\ pc'[q] = "idle" => call'[q] = None /\ file'[q] = None
          /\ call'[q] # None => Asked(q)' \in asked' /\ Sensible(q, call'[q])
    BY <1>1 DEF CallInv, OthersStay, Asked
  <1>4. call'[r] # None => Asked(r)' \in asked' /\ Sensible(r, call'[r])
    <2>1. CASE call'[r] = call[r]
      BY <1>1, <2>1 DEF CallInv, Asked
    <2>2. CASE Entering(r)
      <3>1. PICK c \in Call, stage \in Stage, e \in Row \cup {None} :
              Legal(r, c, stage, e) /\ Enter(r, c, stage, e)
        BY <2>2 DEF Entering
      <3>2. call'[r] = c
        BY <3>1 DEF Enter, TypeOK, AccessTypeOK
      <3>3. Asked(r)' \in asked'
        BY <3>1, <3>2 DEF Enter, Asked
      <3> QED
        BY <3>1, <3>2, <3>3, LegalIsSensible
    <2> QED
      BY <1>1, <2>1, <2>2
  <1> QED
    BY <1>1, <1>2, <1>3, <1>4 DEF CallInv

-----------------------------------------------------------------------------
(* What becomes of the rows.                                                *)

RowOK ==
  /\ row \in [Ids -> Row \cup {None}]
  /\ \A e \in Accounts : row[e].grants \subseteq Present
  /\ \A x \in Present : row[x].grants \subseteq Permissions

Before == TypeOK /\ CallInv /\ StageInv /\ EntityInv /\ RowsInv

LEMMA Rows ==
  ASSUME TypeOK
  PROVE  /\ \A x \in Ids : row[x] # None => /\ row[x] \in Row /\ row[x].flag \in BOOLEAN
                                            /\ row[x].grants \subseteq Roles \cup Permissions
         /\ \A u \in Row : u # None
  BY NoneAssumption DEF TypeOK, AccessTypeOK, Row

LEMMA InsertEffect ==
  ASSUME Before, NEW r \in Requests, Insert(r)
  PROVE  /\ call[r].on \in Ids /\ row[call[r].on] = None /\ row'[call[r].on] = entity[r]
         /\ call[r].op = "create" /\ pc[r] = "new" /\ entity[r] \in Row
         /\ \A y \in Ids \ {call[r].on} : row'[y] = row[y]
         /\ RowOK'
  <1> DEFINE x == call[r].on
  <1>1. /\ pc[r] = "new" /\ row[x] = None /\ row' = [row EXCEPT ![x] = entity[r]]
    BY DEF Insert
  <1>2. call[r] # None /\ call[r].op = "create" /\ x \in Keys \cup {r}
    BY <1>1 DEF Before, StageInv, CallInv, Sensible, InFlight
  <1>3. x \in Ids
    BY <1>2 DEF Ids, Roles
  <1>4. entity[r] \in Row /\ \/ x \in Keys /\ entity[r].grants = {}
                             \/ x \in Roles /\ entity[r].grants \subseteq Permissions
    BY <1>1, <1>2 DEF Before, EntityInv, Holding, Saving, New, Roles
  <1>5. row'[x] = entity[r] /\ \A y \in Ids \ {x} : row'[y] = row[y]
    BY <1>1, <1>3 DEF Before, TypeOK, AccessTypeOK
  <1>6. row' \in [Ids -> Row \cup {None}]
    BY <1>1, <1>4 DEF Before, TypeOK, AccessTypeOK
  <1>7. Keys \cap Roles = {} /\ Emails \subseteq Keys /\ Keys \subseteq Ids /\ Roles \subseteq Ids
    BY KeysAssumption DEF Keys, Ids
  <1> HIDE DEF x
  <1>8. \A y \in Roles : y \in Present => y \in Present'
    BY <1>1, <1>3, <1>5, <1>7 DEF Present
  <1>9. \A e \in Accounts' : row'[e].grants \subseteq Present'
    <2> TAKE e \in Accounts'
    <2>1. CASE e = x
      BY <2>1, <1>4, <1>5, <1>7 DEF Accounts
    <2>2. CASE e # x
      <3>1. e \in Accounts /\ row'[e] = row[e]
        BY <2>2, <1>5, <1>7 DEF Accounts
      <3> QED
        BY <3>1, <1>8 DEF Before, TypeOK, AccessTypeOK, Present
    <2> QED
      BY <2>1, <2>2
  <1>10. \A y \in Present' : row'[y].grants \subseteq Permissions
    BY <1>4, <1>5, <1>7 DEF Present, Before, TypeOK, AccessTypeOK
  <1> QED
    BY <1>1, <1>2, <1>3, <1>4, <1>5, <1>6, <1>9, <1>10 DEF RowOK, x

\* What Save makes of the row that it finds.
Rewritten(r) ==
  LET u == row[call[r].on] IN
  [flag |-> IF diff[r].flag THEN entity[r].flag ELSE u.flag,
   grants |-> (u.grants \cup diff[r].add) \ diff[r].drop]

LEMMA SaveEffect ==
  ASSUME Before, NEW r \in Requests, Save(r)
  PROVE  /\ call[r].on \in Ids /\ pc[r] = "merged" /\ call[r].op \in Saving /\ entity[r] \in Row
         /\ diff[r].add \subseteq entity[r].grants
         /\ \/ /\ diff[r].insert /\ row[call[r].on] = None
               /\ row'[call[r].on] = entity[r] /\ entity[r].grants = diff[r].add
            \/ ~diff[r].insert /\ row[call[r].on] = None /\ row' = row
            \/ /\ ~diff[r].insert /\ row[call[r].on] # None
               /\ row'[call[r].on] = Rewritten(r) /\ Rewritten(r) \in Row
         /\ \A y \in Ids \ {call[r].on} : row'[y] = row[y]
         /\ RowOK'
  <1> DEFINE x == call[r].on
             d == diff[r]
  <1>1. /\ pc[r] = "merged" /\ Saves(r) /\ d.add \subseteq Grantable(x)
        /\ IF d.insert
           THEN row[x] = None /\ row' = [row EXCEPT ![x] = entity[r]]
           ELSE IF row[x] = None
           THEN d.add = {} /\ row' = row
           ELSE row' = [row EXCEPT ![x] =
                          [flag |-> IF d.flag THEN entity[r].flag ELSE @.flag,
                           grants |-> (@.grants \cup d.add) \ d.drop]]
    BY DEF Save
  <1>2. call[r] # None /\ call[r].op \in Saving
    BY <1>1 DEF Before, StageInv, InFlight, Saves, Saving
  <1>3. x \in Ids
    BY <1>2 DEF Before, CallInv, Sensible, Saving, Ids, Keys, Roles
  <1>4. entity[r] \in Row /\ d.add \subseteq entity[r].grants /\ (d.insert => d.add = entity[r].grants)
    BY <1>1, <1>2 DEF Before, EntityInv, Holding
  <1>5. d.insert \in BOOLEAN /\ d.flag \in BOOLEAN /\ d.add \subseteq Roles \cup Permissions
    BY DEF Before, TypeOK, AccessTypeOK
  <1>6. \A y \in Ids \ {x} : row'[y] = row[y]
    BY <1>1, <1>3 DEF Before, TypeOK, AccessTypeOK
  <1>7. \/ d.insert /\ row[x] = None /\ row'[x] = entity[r] /\ entity[r].grants = d.add
        \/ ~d.insert /\ row[x] = None /\ row' = row
        \/ ~d.insert /\ row[x] # None /\ row'[x] = Rewritten(r)
    BY <1>1, <1>3, <1>4, <1>5 DEF Before, TypeOK, AccessTypeOK, Rewritten
  <1>8. row[x] # None => Rewritten(r) \in Row
    <2>1. SUFFICES ASSUME row[x] # None PROVE Rewritten(r) \in Row
      OBVIOUS
    <2>2. row[x].flag \in BOOLEAN /\ row[x].grants \subseteq Roles \cup Permissions
      BY <2>1, <1>3, Rows DEF Before
    <2>3. entity[r].flag \in BOOLEAN
      BY <1>4 DEF Row
    <2>4. (IF d.flag THEN entity[r].flag ELSE row[x].flag) \in BOOLEAN
      BY <2>2, <2>3
    <2>5. (row[x].grants \cup d.add) \ d.drop \in SUBSET (Roles \cup Permissions)
      BY <2>2, <1>5
    <2> QED
      BY <2>4, <2>5 DEF Rewritten, Row
  <1>9. row' \in [Ids -> Row \cup {None}]
    <2>1. DOMAIN row' = Ids /\ \A y \in Ids : row'[y] \in Row \cup {None}
      BY <1>1, <1>3, <1>4, <1>6, <1>7, <1>8 DEF Before, TypeOK, AccessTypeOK
    <2>2. row' = [y \in Ids |-> row'[y]]
      BY <1>1 DEF Before, TypeOK, AccessTypeOK
    <2> QED
      BY <2>1, <2>2
  <1>10. Keys \cap Roles = {} /\ Emails \subseteq Keys /\ Keys \subseteq Ids /\ Roles \subseteq Ids
    BY KeysAssumption DEF Keys, Ids
  <1>11. row[x] # None => row'[x] # None
    BY <1>3, <1>7, <1>8, Rows DEF Before
  <1>12. row'[x] # None /\ row[x] # None => row'[x].grants \subseteq row[x].grants \cup Grantable(x)
    <2>1. Rewritten(r).grants \subseteq row[x].grants \cup d.add
      BY DEF Rewritten
    <2> QED
      BY <2>1, <1>1, <1>7
  <1>13. row'[x] # None /\ row[x] = None => row'[x].grants \subseteq Grantable(x)
    BY <1>1, <1>7
  <1> HIDE DEF x, d
  <1>14. \A y \in Roles : y \in Present => y \in Present'
    BY <1>3, <1>6, <1>10, <1>11 DEF Present
  <1>15. \A e \in Accounts' : row'[e].grants \subseteq Present'
    <2> TAKE e \in Accounts'
    <2>1. CASE e = x
      <3>1. Grantable(x) = Present
        BY <2>1, <1>10 DEF Grantable, Accounts
      <3>2. row[x] # None => row[x].grants \subseteq Present
        BY <2>1 DEF Accounts, Before, TypeOK, AccessTypeOK
      <3>3. row'[x].grants \subseteq Present
        BY <2>1, <3>1, <3>2, <1>12, <1>13 DEF Accounts
      <3> QED
        BY <2>1, <3>3, <1>14 DEF Present
    <2>2. CASE e # x
      <3>1. e \in Accounts /\ row'[e] = row[e]
        BY <2>2, <1>6, <1>10 DEF Accounts
      <3> QED
        BY <3>1, <1>14 DEF Before, TypeOK, AccessTypeOK, Present
    <2> QED
      BY <2>1, <2>2
  <1>16. \A y \in Present' : row'[y].grants \subseteq Permissions
    <2> TAKE y \in Present'
    <2>1. CASE y = x
      <3>1. Grantable(x) = Permissions
        BY <2>1, <1>10 DEF Grantable, Present
      <3>2. row[x] # None => row[x].grants \subseteq Permissions
        BY <2>1 DEF Present, Before, TypeOK, AccessTypeOK
      <3> QED
        BY <2>1, <3>1, <3>2, <1>12, <1>13 DEF Present
    <2>2. CASE y # x
      <3>1. y \in Present /\ row'[y] = row[y]
        BY <2>2, <1>6, <1>10 DEF Present
      <3> QED
        BY <3>1 DEF Before, TypeOK, AccessTypeOK
    <2> QED
      BY <2>1, <2>2
  <1> QED
    BY <1>1, <1>2, <1>3, <1>4, <1>6, <1>7, <1>8, <1>9, <1>15, <1>16 DEF RowOK, x, d

LEMMA RemoveEffect ==
  ASSUME Before, NEW r \in Requests, RemoveRole(r)
  PROVE  /\ call[r].on \in Roles \ SystemRoles /\ pc[r] = "merged" /\ call[r].op = "delete"
         /\ row'[call[r].on] = None
         /\ \A y \in Ids \ {call[r].on} :
              \/ row'[y] = row[y]
              \/ /\ y \in Accounts /\ row'[y] \in Row /\ row'[y].flag = row[y].flag
                 /\ row'[y].grants = row[y].grants \ {call[r].on}
         /\ RowOK'
  <1> DEFINE x == call[r].on
  <1>1. /\ pc[r] = "merged" /\ call[r].op = "delete" /\ Holders(x) \subseteq diff[r].drop
        /\ row' = [y \in Ids |->
                     CASE y = x -> None
                       [] y \in diff[r].drop -> [row[y] EXCEPT !.grants = @ \ {x}]
                       [] OTHER -> row[y]]
    BY DEF RemoveRole
  <1>2. x \in Roles \ SystemRoles
    BY <1>1 DEF Before, StageInv, InFlight, CallInv, Sensible
  <1>3. diff[r].drop \subseteq Accounts
    BY <1>1 DEF Before, EntityInv
  <1>4. Keys \cap Roles = {} /\ Emails \subseteq Keys /\ Keys \subseteq Ids /\ Roles \subseteq Ids
    BY KeysAssumption DEF Keys, Ids
  <1>5. x \notin diff[r].drop /\ x \in Ids
    BY <1>2, <1>3, <1>4 DEF Accounts
  <1> HIDE DEF x
  <1>6. row'[x] = None
    BY <1>1, <1>5
  <1>7. \A y \in Ids \ {x} : y \notin diff[r].drop => row'[y] = row[y]
    BY <1>1
  <1>8. \A y \in diff[r].drop :
          /\ y \in Accounts /\ row'[y] = [row[y] EXCEPT !.grants = @ \ {x}]
          /\ row'[y] \in Row /\ row'[y].flag = row[y].flag /\ row'[y].grants = row[y].grants \ {x}
    <2> TAKE y \in diff[r].drop
    <2>1. y \in Accounts /\ y \in Ids /\ y # x
      BY <1>3, <1>4, <1>5 DEF Accounts
    <2>2. row'[y] = [row[y] EXCEPT !.grants = @ \ {x}]
      BY <1>1, <2>1
    <2>3. row[y] \in Row
      BY <2>1, Rows DEF Before, Accounts
    <2> QED
      BY <2>1, <2>2, <2>3 DEF Row
  <1>9. row' \in [Ids -> Row \cup {None}]
    <2>1. \A y \in Ids : row'[y] \in Row \cup {None}
      BY <1>6, <1>7, <1>8 DEF Before, TypeOK, AccessTypeOK
    <2> QED
      BY <1>1, <2>1
  <1>10. \A y \in Present : y # x => y \in Present'
    BY <1>3, <1>4, <1>7 DEF Present, Accounts
  <1>11. \A e \in Accounts' : row'[e].grants \subseteq Present'
    <2> TAKE e \in Accounts'
    <2>1. e \in Ids /\ e # x /\ row'[e] # None /\ e \in Emails
      BY <1>2, <1>4 DEF Accounts
    <2>2. CASE e \in diff[r].drop
      <3>1. row[e].grants \subseteq Present
        BY <2>2, <1>3 DEF Before, TypeOK, AccessTypeOK
      <3> QED
        BY <2>2, <3>1, <1>8, <1>10
    <2>3. CASE e \notin diff[r].drop
      <3>1. row'[e] = row[e] /\ e \in Accounts
        BY <2>1, <2>3, <1>7 DEF Accounts
      <3>2. x \notin row[e].grants
        BY <3>1, <2>3, <1>1 DEF Holders
      <3>3. row[e].grants \subseteq Present
        BY <3>1 DEF Before, TypeOK, AccessTypeOK
      <3> QED
        BY <3>1, <3>2, <3>3, <1>10
    <2> QED
      BY <2>2, <2>3
  <1>12. \A y \in Present' : row'[y].grants \subseteq Permissions
    <2> TAKE y \in Present'
    <2>1. y \in Roles /\ y # x /\ row'[y] # None
      BY <1>6 DEF Present
    <2>2. row'[y] = row[y]
      BY <2>1, <1>3, <1>4, <1>7 DEF Accounts
    <2> QED
      BY <2>1, <2>2 DEF Present, Before, TypeOK, AccessTypeOK
  <1> QED
    BY <1>1, <1>2, <1>6, <1>7, <1>8, <1>9, <1>11, <1>12 DEF RowOK, x

LEMMA ActiveEffect ==
  ASSUME Before, NEW r \in Requests, WriteActive(r)
  PROVE  /\ call[r].on \in Accounts /\ pc[r] = "ready" /\ call[r].op \in {"activate", "deactivate"}
         /\ row'[call[r].on].flag = (call[r].op = "activate")
         /\ row'[call[r].on].grants = row[call[r].on].grants /\ row'[call[r].on] \in Row
         /\ \A y \in Ids \ {call[r].on} : row'[y] = row[y]
         /\ RowOK'
  <1> DEFINE x == call[r].on
  <1>1. /\ pc[r] = "ready" /\ call[r].op \in {"activate", "deactivate"}
        /\ row' = [row EXCEPT ![x].flag = (call[r].op = "activate")]
    BY DEF WriteActive
  <1>2. call[r] # None /\ x \in Emails
    BY <1>1 DEF Before, StageInv, InFlight, CallInv, Sensible
  <1>3. x \in Accounts /\ x \in Ids
    BY <1>1, <1>2 DEF Before, RowsInv, Accounts, Keys, Ids
  <1>4. Keys \cap Roles = {} /\ Emails \subseteq Keys /\ Keys \subseteq Ids /\ Roles \subseteq Ids
    BY KeysAssumption DEF Keys, Ids
  <1>5. row[x] \in Row
    BY <1>3, Rows DEF Before, Accounts
  <1>6. row'[x] = [row[x] EXCEPT !.flag = (call[r].op = "activate")]
    BY <1>1, <1>3 DEF Before, TypeOK, AccessTypeOK
  <1>7. row'[x] = [flag |-> (call[r].op = "activate"), grants |-> row[x].grants]
    BY <1>5, <1>6 DEF Row
  <1>8. row'[x] \in Row
    BY <1>5, <1>7 DEF Row
  <1>9. \A y \in Ids \ {x} : row'[y] = row[y]
    BY <1>1, <1>3 DEF Before, TypeOK, AccessTypeOK
  <1> HIDE DEF x
  <1>10. row' \in [Ids -> Row \cup {None}]
    <2>1. \A y \in Ids : row'[y] \in Row \cup {None}
      BY <1>8, <1>9 DEF Before, TypeOK, AccessTypeOK
    <2>2. row' = [y \in Ids |-> row'[y]]
      BY <1>1 DEF Before, TypeOK, AccessTypeOK
    <2> QED
      BY <2>1, <2>2
  <1>11. Accounts' \subseteq Accounts
    BY <1>3, <1>4, <1>9 DEF Accounts
  <1>12. \A y \in Roles : row'[y] = row[y]
    BY <1>3, <1>4, <1>9 DEF Accounts
  <1>13. Present' = Present
    BY <1>12 DEF Present
  <1>14. \A e \in Accounts' : row'[e].grants = row[e].grants
    BY <1>4, <1>7, <1>9 DEF Accounts
  <1> QED
    BY <1>1, <1>3, <1>7, <1>8, <1>9, <1>10, <1>11, <1>12, <1>13, <1>14
    DEF RowOK, x, Before, TypeOK, AccessTypeOK

LEMMA SeedEffect ==
  ASSUME Before, NEW r \in Requests, CommitSeed(r)
  PROVE  /\ pc[r] = "ready" /\ call[r].op = "seed"
         /\ \A y \in Seeded \cup SystemRoles :
              /\ row'[y] \in Row /\ row'[y].flag = TRUE
              /\ row[y] # None => row[y].grants \subseteq row'[y].grants
         /\ \A y \in Ids \ (Seeded \cup SystemRoles) : row'[y] = row[y]
         /\ RowOK'
  <1> DEFINE old(y) == IF row[y] = None THEN {} ELSE row[y].grants
             add(y) == IF y \in Emails THEN SystemRoles ELSE Permissions
  <1>1. /\ pc[r] = "ready" /\ call[r].op = "seed"
        /\ row' = [y \in Ids |-> IF y \in Seeded \cup SystemRoles
                                 THEN [flag |-> TRUE, grants |-> old(y) \cup add(y)]
                                 ELSE row[y]]
    BY DEF CommitSeed
  <1>2. /\ Keys \cap Roles = {} /\ Emails \subseteq Keys /\ Keys \subseteq Ids /\ Roles \subseteq Ids
        /\ Seeded \subseteq Emails /\ SystemRoles \subseteq Roles
    BY KeysAssumption DEF Keys, Ids, Roles
  <1>3. \A y \in Ids : old(y) \subseteq Roles \cup Permissions
    BY Rows DEF Before
  <1>4. \A y \in Ids : add(y) \subseteq Roles \cup Permissions
    BY <1>2
  <1>5. \A y \in Seeded \cup SystemRoles :
          y \in Ids /\ row'[y] = [flag |-> TRUE, grants |-> old(y) \cup add(y)]
    BY <1>1, <1>2
  <1>6. \A y \in Ids \ (Seeded \cup SystemRoles) : row'[y] = row[y]
    BY <1>1
  <1>7. \A e \in Emails : old(e) \subseteq Present
    BY DEF Before, TypeOK, AccessTypeOK, Accounts
  <1>8. \A y \in Roles : old(y) \subseteq Permissions
    BY DEF Before, TypeOK, AccessTypeOK, Present
  <1>9. \A y \in Emails : add(y) = SystemRoles
    OBVIOUS
  <1>10. \A y \in Roles : add(y) = Permissions
    BY <1>2
  <1>11. \A y \in Ids : row[y] # None => row[y].grants = old(y)
    OBVIOUS
  <1> HIDE DEF old, add
  <1>12. \A y \in Seeded \cup SystemRoles :
           /\ row'[y] \in Row /\ row'[y].flag = TRUE /\ row'[y].grants = old(y) \cup add(y)
           /\ row[y] # None => row[y].grants \subseteq row'[y].grants
    <2> TAKE y \in Seeded \cup SystemRoles
    <2>1. y \in Ids /\ row'[y] = [flag |-> TRUE, grants |-> old(y) \cup add(y)]
      BY <1>5
    <2>2. old(y) \cup add(y) \in SUBSET (Roles \cup Permissions)
      BY <2>1, <1>3, <1>4
    <2>3. row'[y] \in Row
      BY <2>1, <2>2 DEF Row
    <2> QED
      BY <2>1, <2>3, <1>11
  <1>13. row' \in [Ids -> Row \cup {None}]
    <2>1. \A y \in Ids : row'[y] \in Row \cup {None}
      BY <1>6, <1>12 DEF Before, TypeOK, AccessTypeOK
    <2> QED
      BY <1>1, <2>1
  <1>14. \A y \in Present : y \in Present'
    <2>1. TypeOK
      BY DEF Before
    <2>2. \A y \in Roles : row[y] # None => row'[y] # None
      BY <2>1, <1>2, <1>6, <1>12, Rows
    <2> QED
      BY <2>2 DEF Present
  <1>15. SystemRoles \subseteq Present'
    BY <1>2, <1>12, Rows DEF Present, Before
  <1>16. \A e \in Accounts' : row'[e].grants \subseteq Present'
    <2> TAKE e \in Accounts'
    <2>1. CASE e \in Seeded
      BY <2>1, <1>2, <1>7, <1>9, <1>12, <1>14, <1>15
    <2>2. CASE e \notin Seeded
      <3>1. e \in Accounts /\ row'[e] = row[e]
        BY <2>2, <1>2, <1>6 DEF Accounts
      <3> QED
        BY <3>1, <1>14 DEF Before, TypeOK, AccessTypeOK
    <2> QED
      BY <2>1, <2>2
  <1>17. \A y \in Present' : row'[y].grants \subseteq Permissions
    <2> TAKE y \in Present'
    <2>1. CASE y \in SystemRoles
      BY <2>1, <1>2, <1>8, <1>10, <1>12
    <2>2. CASE y \notin SystemRoles
      <3>1. y \in Present /\ row'[y] = row[y]
        BY <2>2, <1>2, <1>6 DEF Present
      <3> QED
        BY <3>1 DEF Before, TypeOK, AccessTypeOK
    <2> QED
      BY <2>1, <2>2
  <1> QED
    BY <1>1, <1>6, <1>12, <1>13, <1>16, <1>17 DEF RowOK

LEMMA WritesEffect ==
  ASSUME Before, NEW r \in Requests, Writes(r)
  PROVE  /\ RowOK'
         /\ \A k \in Keys \cup SystemRoles : row[k] # None => row'[k] # None
         /\ \A k \in SystemRoles : row'[k].flag = row[k].flag
         /\ \A q \in Requests : row[q] = None /\ row'[q] # None =>
              Holding(r) /\ call[r].on = q /\ pc'[r] \in {"found", "saved"}
         /\ call' = call /\ asked' = asked /\ before' = before /\ token' = token
  <1>1. /\ Keys \cap Roles = {} /\ Keys \subseteq Ids /\ Roles \subseteq Ids /\ Emails \subseteq Keys
        /\ SystemRoles \subseteq Roles /\ SystemRoles \cap Requests = {} /\ Requests \subseteq Roles
        /\ Seeded \subseteq Emails
    BY KeysAssumption DEF Keys, Ids, Roles
  <1>2. \A k \in SystemRoles : row[k] # None /\ row[k].flag = TRUE
    BY <1>1, Rows DEF Before, RowsInv
  <1>3. call[r] # None /\ call[r].op \in Saving => call[r].on \notin SystemRoles
    BY <1>1 DEF Before, CallInv, Sensible, Saving
  <1>4. \A u \in Row : u # None
    BY Rows DEF Before
  <1>5. CASE Insert(r)
    <2>1. pc'[r] \in {"found", "saved"} /\ UNCHANGED <<call, asked, before, token>>
      BY <1>5 DEF Insert, Goto, AfterInsert, locals, Unchanged, histories, Before, TypeOK, AccessTypeOK
    <2>2. Holding(r) /\ call[r].op \in Saving
      BY <1>5, InsertEffect DEF Holding, Saving, Before, StageInv, InFlight
    <2> QED
      BY <1>1, <1>2, <1>3, <1>4, <1>5, <2>1, <2>2, InsertEffect DEF Holding
  <1>6. CASE Save(r)
    <2>1. pc'[r] = "saved" /\ UNCHANGED <<call, asked, before, token>>
      BY <1>6 DEF Save, Goto, locals, Unchanged, histories, Before, TypeOK, AccessTypeOK
    <2>2. Holding(r) /\ call[r].op \in Saving
      BY <1>6, SaveEffect DEF Holding, Saving, Before, StageInv, InFlight
    <2>3. row'[call[r].on] \in Row \/ row' = row
      BY <1>6, SaveEffect
    <2> QED
      BY <1>1, <1>2, <1>3, <1>4, <1>6, <2>1, <2>2, <2>3, SaveEffect DEF Holding
  <1>7. CASE RemoveRole(r)
    <2>1. UNCHANGED <<call, asked, before, token>>
      BY <1>7 DEF RemoveRole, Goto, locals, Unchanged, histories
    <2> QED
      BY <1>1, <1>2, <1>4, <1>7, <2>1, RemoveEffect DEF Accounts
  <1>8. CASE WriteActive(r)
    <2>1. UNCHANGED <<call, asked, before, token>>
      BY <1>8 DEF WriteActive, Goto, locals, Unchanged, histories
    <2> QED
      BY <1>1, <1>2, <1>4, <1>8, <2>1, ActiveEffect DEF Accounts
  <1>9. CASE CommitSeed(r)
    <2>1. UNCHANGED <<call, asked, before, token>>
      BY <1>9 DEF CommitSeed, Finish, Unchanged, histories
    <2> QED
      BY <1>1, <1>2, <1>4, <1>9, <2>1, SeedEffect
  <1> QED
    BY <1>5, <1>6, <1>7, <1>8, <1>9 DEF Writes

\* The same of every step: rows of keys and of system roles stay.
LEMMA RowsStay ==
  ASSUME Before, NEW r \in Requests, Acts(r)
  PROVE  /\ RowOK'
         /\ \A k \in Keys \cup SystemRoles : row[k] # None => row'[k] # None
         /\ \A k \in SystemRoles : row'[k].flag = row[k].flag
         /\ Accounts \subseteq Accounts'
  <1>1. CASE Writes(r)
    BY <1>1, WritesEffect DEF Accounts, Keys
  <1>2. CASE row' = row
    <2>1. Accounts' = Accounts /\ Present' = Present
      BY <1>2 DEF Accounts, Present
    <2> QED
      BY <1>2, <2>1 DEF RowOK, Before, TypeOK, AccessTypeOK
  <1> QED
    BY <1>1, <1>2, Frame DEF Before

LEMMA RowsStep ==
  ASSUME Before, NEW r \in Requests, Acts(r)
  PROVE  RowsInv'
  <1>1. /\ OthersStay(r) /\ pc[r] \in {"idle"} \cup InFlight /\ pc'[r] # "idle"
        /\ row' = row \/ Writes(r)
        /\ call'[r] = call[r] \/ Entering(r)
    BY Frame DEF Before
  <1>2. \A k \in Keys \cup SystemRoles : row[k] # None => row'[k] # None
    BY RowsStay
  <1>3. \A x \in SystemRoles : row'[x] # None /\ row'[x].flag
    BY RowsStay DEF Before, RowsInv
  <1>4. ASSUME Entering(r)
        PROVE  \E c \in Call, stage \in Stage, e \in Row \cup {None} :
                 /\ Legal(r, c, stage, e)
                 /\ pc[r] = "idle" \/ (pc[r] = "row" /\ c.op = "create" /\ c.on \in Keys)
                 /\ call'[r] = c /\ pc'[r] = stage /\ row' = row
    BY <1>4 DEF Entering, Enter, Goto, Before, TypeOK, AccessTypeOK
  <1>5. /\ Keys \cap Roles = {} /\ Keys \subseteq Ids /\ Roles \subseteq Ids /\ Emails \subseteq Keys
        /\ Requests \subseteq Roles /\ None \notin Ids
    BY KeysAssumption, NoneAssumption DEF Keys, Ids, Roles
  <1>6. ASSUME NEW q \in Requests, call'[q] # None,
               call'[q].op \in {"assign", "touch", "activate", "deactivate"}, call'[q].on \in Keys
        PROVE  row'[call'[q].on] # None
    <2>1. CASE call'[q] = call[q]
      BY <2>1, <1>2, <1>6 DEF Before, RowsInv
    <2>2. CASE q = r /\ Entering(r)
      <3>1. PICK c \in Call, stage \in Stage, e \in Row \cup {None} :
              Legal(r, c, stage, e) /\ call'[r] = c /\ pc'[r] = stage /\ row' = row
        BY <2>2, <1>4
      <3> QED
        BY <3>1, <2>2, <1>6 DEF Legal, Editable, Accounts
    <2> QED
      BY <1>1, <2>1, <2>2 DEF OthersStay
  <1>7. ASSUME NEW q \in Requests,
               row'[q] # None \/ \E s \in Requests \ {q} : call'[s] # None /\ call'[s].on = q
        PROVE  pc'[q] # "idle" /\ ~(pc'[q] = "new" /\ call'[q].on = q)
    <2> DEFINE Met == row[q] # None \/ \E s \in Requests \ {q} : call[s] # None /\ call[s].on = q
    <2>1. Met => pc[q] # "idle" /\ ~(pc[q] = "new" /\ call[q].on = q)
      BY DEF Before, RowsInv
    <2>2. CASE Writes(r)
      <3>1. call' = call
        BY <2>2, WritesEffect
      <3>2. Met \/ (q = r /\ pc'[r] \in {"found", "saved"})
        BY <1>7, <2>2, <3>1, WritesEffect DEF Holding
      <3>3. pc'[r] # "new"
        BY <2>2 DEF Writes, Insert, Save, RemoveRole, WriteActive, CommitSeed, Goto, Finish,
                    AfterInsert, Before, TypeOK, AccessTypeOK
      <3> QED
        BY <1>1, <2>1, <3>1, <3>2, <3>3 DEF OthersStay
    <2>3. CASE Entering(r)
      <3>1. PICK c \in Call, stage \in Stage, e \in Row \cup {None} :
              /\ Legal(r, c, stage, e)
              /\ pc[r] = "idle" \/ (pc[r] = "row" /\ c.op = "create" /\ c.on \in Keys)
              /\ call'[r] = c /\ pc'[r] = stage /\ row' = row
        BY <2>3, <1>4
      <3>2. q # r /\ c.on = q => row[q] # None
        BY <3>1, <1>5 DEF Legal, Editable, Accounts, Present, Free
      <3>3. Met
        BY <1>7, <1>1, <3>1, <3>2 DEF OthersStay
      <3>4. q = r => c.on # r
        BY <1>5, <2>1, <3>1, <3>3
      <3> QED
        BY <1>1, <2>1, <3>1, <3>3, <3>4 DEF OthersStay
    <2>4. CASE row' = row /\ call'[r] = call[r] /\ ~Entering(r)
      <3>1. Met
        BY <1>1, <1>7, <2>4 DEF OthersStay
      <3>2. pc'[r] = "new" => pc[r] = "new"
        <4>1. Works(r) \/ Handles(r) \/ Writes(r)
          BY <2>4, ActsEffect DEF Before
        <4> QED
          BY <4>1 DEF Works, Refuse, LookUp, Merge, MergeDelete, Issue, LogAudit, Fail, Goto, Finish,
             Handles, StartUpload, SkipBlank, Abort, RejectRow, RowCreated, RowFailed, Answer,
             NextRow, Report, Writes, Insert, Save, RemoveRole, WriteActive, CommitSeed, AfterInsert,
             Before, TypeOK, AccessTypeOK
      <3> QED
        BY <1>1, <2>1, <2>4, <3>1, <3>2 DEF OthersStay
    <2> QED
      BY <1>1, <2>2, <2>3, <2>4
  <1> QED
    BY <1>3, <1>6, <1>7 DEF RowsInv

-----------------------------------------------------------------------------
(* Stages, entities and types.                                              *)

\* What a request starts with.
LEMMA Entry ==
  ASSUME TypeOK, NEW r \in Requests, Entering(r)
  PROVE  \E c \in Call, stage \in Stage, e \in Row \cup {None} :
           /\ Legal(r, c, stage, e)
           /\ pc[r] = "idle" \/ (pc[r] = "row" /\ c.op = "create" /\ c.on \in Keys)
           /\ call'[r] = c /\ pc'[r] = stage /\ entity'[r] = e /\ row' = row /\ diff' = diff
           /\ pc' = [pc EXCEPT ![r] = stage] /\ call' = [call EXCEPT ![r] = c]
           /\ entity' = [entity EXCEPT ![r] = e]
  BY DEF Entering, Enter, Goto, TypeOK, AccessTypeOK

LEMMA ClaimsArePermissions ==
  ASSUME TypeOK, NEW e \in Accounts
  PROVE  Claims(e) \subseteq Permissions
  BY DEF TypeOK, AccessTypeOK, Claims

LEMMA TokensRead ==
  ASSUME TypeOK, NEW r \in Requests, TokenRead(r)
  PROVE  token'[r] \in Token /\ token'[r] # None /\ token' \in [Requests -> Token \cup {None}]
  <1>1. PICK e \in Accounts \cap Seeded :
          token' = [token EXCEPT ![r] = [user |-> e, claims |-> Claims(e),
                                         readAt |-> clock, issuedAt |-> None]]
    BY DEF TokenRead
  <1>2. [user |-> e, claims |-> Claims(e), readAt |-> clock, issuedAt |-> None] \in Token
    <2>1. e \in Emails /\ Claims(e) \in SUBSET Permissions /\ clock \in 0..MaxTime
      BY ClaimsArePermissions DEF Accounts, TypeOK, AccessTypeOK
    <2> QED
      BY <2>1 DEF Token
  <1> QED
    BY <1>1, <1>2, NoneAssumption DEF TypeOK, AccessTypeOK

LEMMA StageStep ==
  ASSUME Before, NEW r \in Requests, Acts(r)
  PROVE  StageInv'
  <1> DEFINE Fine(q) ==
        /\ pc[q] = "row" => file[q] # None
        /\ pc[q] \in InFlight \ {"row"} => call[q] # None
        /\ pc[q] = "new" => call[q].op = "create"
        /\ pc[q] = "found" => call[q].op \in {"assign", "create"}
        /\ pc[q] = "merged" => call[q].op \in Saving \cup {"delete"}
        /\ pc[q] = "ready" /\ call[q].op = "sign" => token[q] # None
  <1>1. OthersStay(r)
    BY Frame DEF Before
  <1>2. \A q \in Requests : Fine(q)
    BY DEF Before, StageInv
  <1>3. \A q \in Requests \ {r} : Fine(q)'
    BY <1>1, <1>2 DEF OthersStay
  <1>10. SUFFICES Fine(r)'
    <2>1. Fine(r)' => \A q \in Requests : Fine(q)'
      BY <1>3
    <2> QED
      BY <2>1 DEF StageInv
  <1> USE DEF Before, TypeOK, AccessTypeOK
  <1>4. CASE Entering(r) /\ (call'[r].op = "sign" => TokenRead(r)) /\ UNCHANGED importVars
    <2>1. PICK c \in Call, stage \in Stage, e \in Row \cup {None} :
            /\ Legal(r, c, stage, e)
            /\ pc[r] = "idle" \/ (pc[r] = "row" /\ c.op = "create" /\ c.on \in Keys)
            /\ call'[r] = c /\ pc'[r] = stage
      BY <1>4, Entry
    <2>2. c # None
      BY <2>1, LegalIsSensible
    <2>3. stage # "row" /\ stage # "merged"
          /\ (stage = "new" => c.op = "create") /\ (stage = "found" => c.op = "assign")
      BY <2>1 DEF Legal
    <2>4. c.op = "sign" => token'[r] # None
      BY <1>4, <2>1, TokensRead
    <2> QED
      BY <2>1, <2>2, <2>3, <2>4
  <1>5. CASE Writes(r)
    <2>1. Fine(r)
      BY <1>2
    <2>2. call' = call /\ token' = token
      BY <1>5, WritesEffect
    <2>3. /\ pc'[r] \in {"found", "saved", "done"} /\ (pc'[r] = "found" => pc[r] = "new")
          /\ pc[r] \in InFlight \ {"row"}
      BY <1>5 DEF Writes, Insert, Save, RemoveRole, WriteActive, CommitSeed, Goto, Finish, AfterInsert,
                  InFlight
    <2> QED
      BY <2>1, <2>2, <2>3
  <1>6. CASE Works(r) /\ UNCHANGED importVars
    <2>1. Fine(r)
      BY <1>2
    <2>2. call' = call
      BY <1>6 DEF Works, Refuse, LookUp, Merge, MergeDelete, Issue, LogAudit, Fail, Finish, locals
    <2>3. \/ pc'[r] \in {"failed", "done"}
          \/ pc[r] = "found" /\ pc'[r] = "ready"
          \/ pc[r] = "ready" /\ pc'[r] = "merged" /\ call[r].op \in Saving \cup {"delete"}
      BY <1>6 DEF Works, Refuse, LookUp, Merge, MergeDelete, Issue, LogAudit, Fail, Goto, Finish,
                  Saves, Saving
    <2>4. pc'[r] \in {"failed", "done"} => pc'[r] \notin InFlight
      BY DEF InFlight
    <2> QED
      BY <2>1, <2>2, <2>3, <2>4 DEF InFlight
  <1>7. CASE Handles(r)
    <2>1. Fine(r)
      BY <1>2
    <2>2. call' = call
      BY <1>7 DEF Handles, StartUpload, SkipBlank, Abort, RejectRow, RowCreated, RowFailed, Answer,
                  Finish, locals
    <2>3. pc'[r] \in {"row", "failed", "done"}
      BY <1>7 DEF Handles, StartUpload, SkipBlank, Abort, RejectRow, RowCreated, RowFailed, Answer,
                  NextRow, Report, Goto, Finish
    <2>4. pc'[r] = "row" => file'[r] # None
      <3>1. CASE StartUpload(r)
        <4>1. None \notin Files
          BY FilesAssumption
        <4> QED
          BY <3>1, <4>1 DEF StartUpload
      <3>2. CASE SkipBlank(r) \/ RejectRow(r) \/ RowCreated(r) \/ RowFailed(r)
        BY <3>2, <2>1 DEF SkipBlank, RejectRow, RowCreated, RowFailed, AtRow, Creating, Uploads,
                          UploadUnchanged
      <3>3. CASE Abort(r) \/ Answer(r)
        BY <3>3 DEF Abort, Answer, Finish, Goto
      <3> QED
        BY <1>7, <3>1, <3>2, <3>3 DEF Handles
    <2> QED
      BY <2>1, <2>2, <2>3, <2>4 DEF InFlight
  <1>8. CreateRow(r) => UNCHANGED importVars /\ (Entering(r) => call'[r].op # "sign")
    <2>1. Enter(r, [op |-> "create", on |-> file[r][at[r]].key,
                    wanted |-> IF file[r][at[r]].roles = None THEN {} ELSE file[r][at[r]].roles],
                "new", New) => call'[r].op = "create"
      BY DEF Enter
    <2> QED
      BY <2>1 DEF CreateRow
  <1>9. \/ Entering(r) /\ (call'[r].op = "sign" => TokenRead(r)) /\ UNCHANGED importVars
        \/ Entering(r) /\ CreateRow(r)
        \/ Writes(r)
        \/ Works(r) /\ UNCHANGED importVars
        \/ Handles(r)
    BY ActsEffect
  <1> HIDE DEF Fine
  <1> QED
    BY <1>4, <1>5, <1>6, <1>7, <1>8, <1>9

LEMMA EntityStep ==
  ASSUME Before, NEW r \in Requests, Acts(r)
  PROVE  EntityInv'
  <1> DEFINE Fine(q) ==
        /\ Holding(q) => entity[q] \in Row
        /\ pc[q] = "new" =>
             \/ call[q].on \in Keys /\ entity[q] = New
             \/ call[q].on = q /\ entity[q].grants = call[q].wanted /\ call[q].wanted \subseteq Permissions
        /\ pc[q] \in {"ready", "merged"} /\ call[q].op \in {"assign", "create"} =>
             entity[q].grants \subseteq call[q].wanted
        /\ pc[q] = "merged" /\ call[q].op \in Saving =>
             /\ diff[q].add \subseteq entity[q].grants
             /\ diff[q].insert => diff[q].add = entity[q].grants
        /\ pc[q] = "merged" /\ call[q].op = "delete" => diff[q].drop \subseteq Accounts
  <1>1. OthersStay(r) /\ Accounts \subseteq Accounts'
    BY Frame, RowsStay DEF Before
  <1>2. \A q \in Requests : Fine(q)
    BY DEF Before, EntityInv
  <1>3. \A q \in Requests \ {r} : Fine(q)'
    BY <1>1, <1>2 DEF OthersStay, Holding
  <1>4. SUFFICES Fine(r)'
    <2>1. Fine(r)' => \A q \in Requests : Fine(q)'
      BY <1>3
    <2> QED
      BY <2>1 DEF EntityInv
  <1>5. Fine(r)
    BY <1>2
  <1> USE DEF Before, TypeOK, AccessTypeOK
  <1>6. CASE Entering(r)
    <2>1. PICK c \in Call, stage \in Stage, e \in Row \cup {None} :
            /\ Legal(r, c, stage, e)
            /\ call'[r] = c /\ pc'[r] = stage /\ entity'[r] = e
      BY <1>6, Entry
    <2>2. c.op \in Saving => e \in Row
      <3>1. \A x \in Editable : row[x] \in Row
        BY Rows DEF Editable
      <3>2. New \in Row
        BY DEF New, Row
      <3>3. c.wanted \in SUBSET Permissions => [flag |-> FALSE, grants |-> c.wanted] \in Row
        BY DEF Row
      <3> QED
        BY <2>1, <3>1, <3>2, <3>3 DEF Legal, Saving
    <2>3. /\ stage # "merged"
          /\ stage = "ready" => c.op \notin {"assign", "create"}
          /\ stage = "new" => \/ c.on \in Keys /\ e = New
                              \/ c.on = r /\ e.grants = c.wanted /\ c.wanted \subseteq Permissions
      BY <2>1 DEF Legal, Free
    <2> QED
      BY <2>1, <2>2, <2>3 DEF Holding
  <1>7. CASE Writes(r)
    <2>1. pc'[r] \in {"found", "saved", "done"} /\ (pc'[r] = "found" => pc[r] = "new" /\ entity' = entity)
      BY <1>7 DEF Writes, Insert, Save, RemoveRole, WriteActive, CommitSeed, Goto, Finish, AfterInsert,
                  locals
    <2>2. call' = call
      BY <1>7, WritesEffect
    <2>3. pc[r] = "new" /\ call[r].op \in Saving => Holding(r)
      BY DEF Holding, StageInv, InFlight
    <2> QED
      BY <1>5, <2>1, <2>2, <2>3 DEF Holding
  <1>8. CASE LookUp(r)
    <2>1. /\ pc[r] = "found" /\ pc'[r] = "ready" /\ call' = call
          /\ entity' = [entity EXCEPT ![r].grants = call[r].wanted \cap Grantable(call[r].on)]
      BY <1>8 DEF LookUp, Goto
    <2>2. Holding(r)
      BY <2>1 DEF Holding, StageInv, InFlight, Saving
    <2>3. entity[r] \in Row
      BY <1>5, <2>2
    <2>4. entity'[r] = [entity[r] EXCEPT !.grants = call[r].wanted \cap Grantable(call[r].on)]
      BY <2>1
    <2>5. Grantable(call[r].on) \subseteq Roles \cup Permissions
      <3>1. call[r].on \in Emails \cup Roles \/ call[r].on \in Keys
        BY <2>1, <2>2 DEF CallInv, Sensible, StageInv, Holding, Roles
      <3>2. Keys \cap Roles = {}
        BY KeysAssumption
      <3> QED
        BY <3>1, <3>2 DEF Grantable, Present, Keys
    <2>6. entity'[r].grants = call[r].wanted \cap Grantable(call[r].on)
      BY <2>3, <2>4 DEF Row
    <2>7. entity'[r] \in Row
      <3>1. call[r].wanted \cap Grantable(call[r].on) \in SUBSET (Roles \cup Permissions)
        BY <2>5
      <3> QED
        BY <2>3, <2>4, <3>1 DEF Row
    <2> QED
      BY <2>1, <2>6, <2>7
  <1>9. CASE Merge(r)
    <2> DEFINE old == row[call[r].on]
               new == entity[r]
    <2>1. /\ pc[r] = "ready" /\ Saves(r) /\ pc'[r] = "merged" /\ call' = call /\ entity' = entity
          /\ diff'[r] = IF old = None
               THEN [insert |-> TRUE, flag |-> FALSE, add |-> new.grants, drop |-> {}]
               ELSE [insert |-> FALSE, flag |-> new.flag # old.flag,
                     add |-> new.grants \ old.grants, drop |-> old.grants \ new.grants]
      BY <1>9 DEF Merge, Goto
    <2>2. Holding(r) /\ call[r].op # "delete"
      BY <2>1 DEF Holding, StageInv, InFlight, Saves, Saving
    <2>3. diff'[r].add \subseteq new.grants /\ (diff'[r].insert => diff'[r].add = new.grants)
      BY <2>1
    <2> QED
      BY <1>5, <2>1, <2>2, <2>3
  <1>10. CASE MergeDelete(r)
    <2>1. /\ pc'[r] = "merged" /\ call' = call /\ call[r].op = "delete"
          /\ diff'[r] = [NoDiff EXCEPT !.drop = Holders(call[r].on)]
      BY <1>10 DEF MergeDelete, Goto
    <2>2. diff'[r].drop = Holders(call[r].on)
      BY <2>1 DEF NoDiff
    <2>3. Holders(call[r].on) \subseteq Accounts'
      BY <1>1 DEF Holders
    <2> QED
      BY <2>1, <2>2, <2>3 DEF Holding, Saving
  <1>11. CASE Refuse(r) \/ Issue(r) \/ LogAudit(r) \/ Fail(r)
    <2>1. pc'[r] \in {"failed", "done"}
      BY <1>11 DEF Refuse, Issue, LogAudit, Fail, Goto, Finish
    <2> QED
      BY <2>1 DEF Holding
  <1>12. CASE Handles(r)
    <2>1. pc'[r] \in {"row", "failed", "done"}
      BY <1>12 DEF Handles, StartUpload, SkipBlank, Abort, RejectRow, RowCreated, RowFailed, Answer,
                  NextRow, Report, Goto, Finish
    <2> QED
      BY <2>1 DEF Holding
  <1>13. Entering(r) \/ Writes(r) \/ Works(r) \/ Handles(r)
    BY ActsEffect
  <1> HIDE DEF Fine
  <1> QED
    BY <1>6, <1>7, <1>8, <1>9, <1>10, <1>11, <1>12, <1>13 DEF Works

LEMMA FileFacts ==
  ASSUME NEW f \in Files
  PROVE  /\ Len(f) \in Nat /\ DOMAIN f = 1..Len(f) /\ Cardinality(DOMAIN f) = Len(f) /\ f # None
         /\ \A i \in DOMAIN f : f[i] \in FileRow
         /\ \A i \in DOMAIN f : f[i].key \in Badges \cup Codes => f[i].roles = None
  <1>1. f \in Seq(FileRow) /\ f # None
    BY FilesAssumption
  <1>2. Len(f) \in Nat /\ DOMAIN f = 1..Len(f)
    BY <1>1
  <1>3. \A i \in DOMAIN f : f[i] \in FileRow
    BY <1>1
  <1>4. Cardinality(1..Len(f)) = Len(f)
    <2>1. Cardinality(1..Len(f)) = IF 1 > Len(f) THEN 0 ELSE Len(f) - 1 + 1
      BY <1>2, FS_Interval
    <2> QED
      BY <1>2, <2>1
  <1>5. \A i \in DOMAIN f : f[i].key \in Badges \cup Codes => f[i].roles = None
    BY FilesAssumption
  <1> QED
    BY <1>1, <1>2, <1>3, <1>4, <1>5

LEMMA RowsOf ==
  ASSUME TypeOK, NEW r \in Uploads
  PROVE  file[r] \in Files
  BY DEF TypeOK, Uploads

\* What an upload has reported, and where it is.
Progress(r) ==
  LET rows == IF file[r] = None THEN {} ELSE DOMAIN file[r]
  IN  /\ at[r] \in 0..(Cardinality(rows) + 1)
      /\ created[r] \subseteq rows /\ errors[r] \subseteq rows

LEMMA ProgressStep ==
  ASSUME Before, UploadInv, NEW r \in Requests, Acts(r)
  PROVE  /\ \A q \in Requests : Progress(q)'
         /\ file' \in [Requests -> Files \cup {None}] /\ at' \in [Requests -> Nat]
         /\ created' \in [Requests -> SUBSET Nat] /\ errors' \in [Requests -> SUBSET Nat]
  <1> USE DEF Before, TypeOK
  <1>1. OthersStay(r) /\ \A q \in Requests : Progress(q)
    BY Frame DEF Progress
  <1>2. \A q \in Requests \ {r} : Progress(q)'
    BY <1>1 DEF OthersStay, Progress
  <1>3. CASE UNCHANGED <<file, at, created, errors>>
    BY <1>1, <1>2, <1>3 DEF Progress
  <1>4. CASE StartUpload(r)
    <2>1. PICK f \in Files : file' = [file EXCEPT ![r] = f]
      BY <1>4 DEF StartUpload
    <2>2. /\ at' = [at EXCEPT ![r] = 1] /\ created' = created /\ errors' = errors
          /\ pc[r] = "idle"
      BY <1>4 DEF StartUpload
    <2>3. file[r] = None
      BY <2>2 DEF CallInv
    <2>4. created[r] = {} /\ errors[r] = {}
      BY <1>1, <2>3 DEF Progress
    <2>5. file'[r] = f /\ at'[r] = 1
      BY <2>1, <2>2
    <2>6. 1 \in 0..(Cardinality(DOMAIN f) + 1)
      BY FileFacts
    <2>7. Progress(r)'
      BY <2>2, <2>4, <2>5, <2>6, FileFacts DEF Progress
    <2>8. file' \in [Requests -> Files \cup {None}] /\ at' \in [Requests -> Nat]
      BY <2>1, <2>2
    <2> QED
      BY <1>2, <2>2, <2>7, <2>8
  <1>5. CASE SkipBlank(r) \/ RejectRow(r) \/ RowCreated(r) \/ RowFailed(r)
    <2>1. r \in Uploads /\ at[r] \in DOMAIN file[r]
      <3>1. CASE SkipBlank(r) \/ RejectRow(r)
        BY <3>1 DEF SkipBlank, RejectRow, AtRow, StageInv, Uploads
      <3>2. CASE RowCreated(r) \/ RowFailed(r)
        BY <3>2 DEF RowCreated, RowFailed, Creating, UploadInv
      <3> QED
        BY <1>5, <3>1, <3>2
    <2>2. /\ file' = file /\ at' = [at EXCEPT ![r] = @ + 1]
          /\ created' = created \/ created' = [created EXCEPT ![r] = @ \cup {at[r]}]
          /\ errors' = errors \/ errors' = [errors EXCEPT ![r] = @ \cup {at[r]}]
      <3>1. CASE SkipBlank(r)
        BY <3>1 DEF SkipBlank, NextRow, UploadUnchanged
      <3>2. CASE RejectRow(r)
        BY <3>2 DEF RejectRow, NextRow, Report, UploadUnchanged
      <3>3. CASE RowCreated(r)
        BY <3>3 DEF RowCreated, NextRow, Report, UploadUnchanged
      <3>4. CASE RowFailed(r)
        BY <3>4 DEF RowFailed, NextRow, Report, UploadUnchanged
      <3> QED
        BY <1>5, <3>1, <3>2, <3>3, <3>4
    <2>3. file[r] \in Files /\ file[r] # None
      BY <2>1, RowsOf, FileFacts
    <2>4. at[r] \in Nat /\ at[r] <= Cardinality(DOMAIN file[r]) /\ Cardinality(DOMAIN file[r]) \in Nat
      BY <2>1, <2>3, FileFacts
    <2>5. at[r] + 1 \in 0..(Cardinality(DOMAIN file[r]) + 1) /\ at[r] + 1 \in Nat
      BY <2>4
    <2>6. at'[r] = at[r] + 1 /\ created'[r] \subseteq created[r] \cup {at[r]}
          /\ errors'[r] \subseteq errors[r] \cup {at[r]}
      BY <2>2
    <2>7. Progress(r)'
      BY <1>1, <2>1, <2>2, <2>3, <2>5, <2>6 DEF Progress
    <2>8. at' \in [Requests -> Nat]
      BY <2>2, <2>5
    <2>9. created' \in [Requests -> SUBSET Nat] /\ errors' \in [Requests -> SUBSET Nat]
      <3>1. created[r] \cup {at[r]} \in SUBSET Nat /\ errors[r] \cup {at[r]} \in SUBSET Nat
        BY <2>4
      <3> QED
        BY <2>2, <3>1
    <2> QED
      BY <1>2, <2>2, <2>7, <2>8, <2>9
  <1>6. CASE Abort(r) \/ Answer(r)
    BY <1>3, <1>6 DEF Abort, Answer, UploadUnchanged
  <1>7. CreateRow(r) => UNCHANGED importVars
    BY DEF CreateRow
  <1>8. \/ UNCHANGED importVars \/ UNCHANGED <<file, at, created, errors>> \/ Handles(r)
    BY <1>7, ActsEffect
  <1> QED
    BY <1>3, <1>4, <1>5, <1>6, <1>8 DEF Handles, importVars

LEMMA AccessTypeStep ==
  ASSUME Before, NEW r \in Requests, Acts(r), Observe
  PROVE  AccessTypeOK' /\ creator' \in [Ids -> (Requests \X Nat) \cup {None}]
  <1> DEFINE Diff == [insert : BOOLEAN, flag : BOOLEAN, add : SUBSET (Roles \cup Permissions),
                      drop : SUBSET (Ids \cup Permissions)]
  <1> USE DEF Before, TypeOK, AccessTypeOK
  <1>1. RowOK'
    BY RowsStay
  <1>2. /\ before \subseteq before' /\ clock' = clock
        /\ \A pair \in before' \ before : pair[1] \in Requests /\ pair[2] = r
    BY Frame
  <1>3. before' \subseteq Requests \X Requests
    <2>1. CASE Begun(r)
      BY <2>1 DEF Begun
    <2>2. CASE StartUpload(r)
      BY <2>2 DEF StartUpload
    <2>3. CASE before' = before
      BY <2>3
    <2>4. Writes(r) => before' = before
      BY WritesEffect
    <2>5. Works(r) => before' = before
      BY DEF Works, Refuse, LookUp, Merge, MergeDelete, Issue, LogAudit, Fail, histories, Unchanged
    <2>6. Handles(r) => StartUpload(r) \/ before' = before
      BY DEF Handles, SkipBlank, Abort, RejectRow, RowCreated, RowFailed, Answer, histories
    <2>7. CreateRow(r) => before' = before
      BY DEF CreateRow
    <2> QED
      BY <2>1, <2>2, <2>3, <2>4, <2>5, <2>6, <2>7, ActsEffect
  <1>4. lost' \in [Seeded \X Permissions -> 0..MaxTime \cup {None}]
    BY DEF Observe
  <1>5. Holding(r) => entity[r] \in Row
    BY DEF EntityInv
  <1>6. NoDiff \in Diff
    BY DEF NoDiff
  <1>7. token' \in [Requests -> Token \cup {None}]
    <2>1. CASE token' = token
      BY <2>1
    <2>2. CASE TokenRead(r)
      BY <2>2, TokensRead
    <2>3. CASE TokenCopied(r)
      BY <2>3 DEF TokenCopied
    <2>4. CASE Issue(r)
      <3>1. token' = [token EXCEPT ![r].issuedAt = clock] /\ pc[r] = "ready" /\ call[r].op = "sign"
        BY <2>4 DEF Issue
      <3>2. token[r] \in Token
        BY <3>1 DEF StageInv
      <3>3. [token[r] EXCEPT !.issuedAt = clock] \in Token
        BY <3>2 DEF Token
      <3> QED
        BY <3>1, <3>3
    <2>5. Writes(r) => token' = token
      BY WritesEffect
    <2>6. Works(r) => Issue(r) \/ token' = token
      BY DEF Works, Refuse, LookUp, Merge, MergeDelete, LogAudit, Fail, Unchanged
    <2>7. Handles(r) => token' = token
      BY DEF Handles, StartUpload, SkipBlank, Abort, RejectRow, RowCreated, RowFailed, Answer,
             UploadUnchanged
    <2>8. CreateRow(r) => token' = token
      BY DEF CreateRow
    <2> QED
      BY <2>1, <2>2, <2>3, <2>4, <2>5, <2>6, <2>7, <2>8, ActsEffect
  <1>8. /\ pc' \in [Requests -> Stage] /\ call' \in [Requests -> Call \cup {None}]
        /\ entity' \in [Requests -> Row \cup {None}] /\ diff' \in [Requests -> Diff]
    <2>1. CASE Entering(r)
      <3>1. PICK c \in Call, stage \in Stage, e \in Row \cup {None} :
              /\ pc' = [pc EXCEPT ![r] = stage] /\ call' = [call EXCEPT ![r] = c]
              /\ entity' = [entity EXCEPT ![r] = e] /\ diff' = diff
        BY <2>1, Entry
      <3> QED
        BY <3>1
    <2>2. CASE Insert(r) \/ Save(r) \/ RemoveRole(r) \/ WriteActive(r)
      <3>1. UNCHANGED locals /\ \E stage \in {"found", "saved"} : Goto(r, stage)
        <4>1. CASE Insert(r)
          BY <4>1 DEF Insert, AfterInsert
        <4>2. CASE Save(r)
          BY <4>2 DEF Save
        <4>3. CASE RemoveRole(r) \/ WriteActive(r)
          BY <4>3 DEF RemoveRole, WriteActive
        <4> QED
          BY <2>2, <4>1, <4>2, <4>3
      <3> QED
        BY <3>1 DEF Goto, locals, Stage
    <2>3. CASE CommitSeed(r) \/ Issue(r) \/ LogAudit(r) \/ Fail(r) \/ Abort(r) \/ Answer(r)
      <3>1. Finish(r, "done") \/ Finish(r, "failed")
        BY <2>3 DEF CommitSeed, Issue, LogAudit, Fail, Abort, Answer
      <3> HIDE DEF Diff
      <3>2. pc' \in [Requests -> Stage] /\ call' = call
        BY <3>1 DEF Finish, Goto, Stage
      <3>3. /\ entity' = [entity EXCEPT ![r] = None] /\ diff' = [diff EXCEPT ![r] = NoDiff]
        BY <3>1 DEF Finish
      <3>4. diff \in [Requests -> Diff]
        BY DEF Diff
      <3> QED
        BY <1>6, <3>2, <3>3, <3>4
    <2>4. CASE Refuse(r) \/ StartUpload(r) \/ SkipBlank(r) \/ RejectRow(r)
      <3>1. UNCHANGED locals /\ \E stage \in {"failed", "row"} : Goto(r, stage)
        BY <2>4 DEF Refuse, StartUpload, SkipBlank, RejectRow, NextRow, Report
      <3> QED
        BY <3>1 DEF Goto, locals, Stage
    <2>5. CASE RowCreated(r) \/ RowFailed(r)
      <3>1. Goto(r, "row") /\ call' = call /\ entity' = [entity EXCEPT ![r] = None]
            /\ diff' = [diff EXCEPT ![r] = NoDiff]
        BY <2>5 DEF RowCreated, RowFailed, NextRow, Report
      <3> HIDE DEF Diff
      <3>2. diff \in [Requests -> Diff]
        BY DEF Diff
      <3> QED
        BY <1>6, <3>1, <3>2 DEF Goto, Stage
    <2>6. CASE LookUp(r)
      <3>1. /\ pc[r] = "found" /\ pc' = [pc EXCEPT ![r] = "ready"] /\ call' = call /\ diff' = diff
            /\ entity' = [entity EXCEPT ![r].grants = call[r].wanted \cap Grantable(call[r].on)]
        BY <2>6 DEF LookUp, Goto
      <3>2. entity[r] \in Row /\ call[r] # None /\ call[r].op \in {"assign", "create"}
        BY <1>5, <3>1 DEF Holding, StageInv, InFlight, Saving
      <3>3. call[r].wanted \subseteq Roles \cup Permissions
        BY <3>2 DEF CallInv, Sensible, Call
      <3>4. call[r].wanted \cap Grantable(call[r].on) \in SUBSET (Roles \cup Permissions)
        BY <3>3
      <3>5. [entity[r] EXCEPT !.grants = call[r].wanted \cap Grantable(call[r].on)] \in Row
        BY <3>2, <3>4 DEF Row
      <3> QED
        BY <3>1, <3>5 DEF Stage
    <2>7. CASE Merge(r)
      <3> DEFINE old == row[call[r].on]
                 new == entity[r]
                 d == IF old = None
                      THEN [insert |-> TRUE, flag |-> FALSE, add |-> new.grants, drop |-> {}]
                      ELSE [insert |-> FALSE, flag |-> new.flag # old.flag,
                            add |-> new.grants \ old.grants, drop |-> old.grants \ new.grants]
      <3>1. /\ pc[r] = "ready" /\ Saves(r) /\ pc' = [pc EXCEPT ![r] = "merged"]
            /\ call' = call /\ entity' = entity /\ diff' = [diff EXCEPT ![r] = d]
        BY <2>7 DEF Merge, Goto
      <3>2. new \in Row /\ call[r] # None /\ call[r].op \in Saving
        BY <1>5, <3>1 DEF Holding, StageInv, InFlight, Saves, Saving
      <3>3. call[r].on \in Ids
        BY <3>2 DEF CallInv, Sensible, Saving, Ids, Keys, Roles
      <3>4. new.grants \in SUBSET (Roles \cup Permissions)
        BY <3>2 DEF Row
      <3>5. old # None => old.grants \in SUBSET (Roles \cup Permissions)
        BY <3>3, Rows
      <3>6. Roles \subseteq Ids
        BY DEF Ids
      <3> HIDE DEF old, new
      <3>7. d \in Diff
        <4>1. CASE old = None
          BY <4>1, <3>4
        <4>2. CASE old # None
          <5>1. new.grants \ old.grants \in SUBSET (Roles \cup Permissions)
            BY <3>4
          <5>2. old.grants \ new.grants \in SUBSET (Ids \cup Permissions)
            BY <4>2, <3>5, <3>6
          <5> QED
            BY <4>2, <5>1, <5>2
        <4> QED
          BY <4>1, <4>2
      <3> HIDE DEF d
      <3> QED
        BY <3>1, <3>7 DEF Stage
    <2>8. CASE MergeDelete(r)
      <3>1. /\ pc' = [pc EXCEPT ![r] = "merged"] /\ call' = call /\ entity' = entity
            /\ diff' = [diff EXCEPT ![r] = [NoDiff EXCEPT !.drop = Holders(call[r].on)]]
        BY <2>8 DEF MergeDelete, Goto
      <3>2. Holders(call[r].on) \in SUBSET (Ids \cup Permissions)
        BY DEF Holders, Accounts, Ids, Keys
      <3>3. [NoDiff EXCEPT !.drop = Holders(call[r].on)] \in Diff
        BY <3>2 DEF NoDiff
      <3> QED
        BY <3>1, <3>3 DEF Stage
    <2>9. Entering(r) \/ Writes(r) \/ Works(r) \/ Handles(r)
      BY ActsEffect
    <2> HIDE DEF Diff
    <2> QED
      BY <2>1, <2>2, <2>3, <2>4, <2>5, <2>6, <2>7, <2>8, <2>9 DEF Writes, Works, Handles
  <1>9. creator' \in [Ids -> (Requests \X Nat) \cup {None}]
    <2>1. Credit(r) => creator' \in [Ids -> (Requests \X Nat) \cup {None}]
      <3>1. <<r, at[r]>> \in Requests \X Nat
        OBVIOUS
      <3> QED
        BY <3>1 DEF Credit
    <2>2. Handles(r) => creator' = creator
      BY DEF Handles, StartUpload, SkipBlank, Abort, RejectRow, RowCreated, RowFailed, Answer
    <2>3. CreateRow(r) => creator' = creator
      BY DEF CreateRow, importVars
    <2> QED
      BY <2>1, <2>2, <2>3, ActsEffect DEF importVars
  <1> QED
    BY <1>1, <1>2, <1>3, <1>4, <1>7, <1>8, <1>9 DEF RowOK

LEMMA TypeStep ==
  ASSUME Before, UploadInv, NEW r \in Requests, Acts(r), Observe
  PROVE  TypeOK'
  BY AccessTypeStep, ProgressStep DEF TypeOK, Progress

-----------------------------------------------------------------------------
(* Who had ended, and what tokens claim.                                    *)

LEMMA BeforeStep ==
  ASSUME TypeOK, BeforeInv, NEW r \in Requests, Acts(r)
  PROVE  BeforeInv'
  <1>1. /\ OthersStay(r) /\ pc[r] \in {"idle"} \cup InFlight /\ pc'[r] # "idle"
        /\ \A pair \in before' \ before :
             pc[r] = "idle" /\ pair[1] \in Requests /\ Ended(pair[1]) /\ pair[2] = r
    BY Frame
  <1>2. \A q \in Requests : Ended(q) => q # r /\ pc'[q] \in {"done", "failed"}
    BY <1>1 DEF Ended, InFlight, OthersStay
  <1>3. \A q \in Requests : pc[q] # "idle" => pc'[q] # "idle"
    BY <1>1 DEF OthersStay
  <1>4. ASSUME NEW pair \in before' PROVE pc'[pair[1]] \in {"done", "failed"} /\ pc'[pair[2]] # "idle"
    <2>1. CASE pair \in before
      <3>1. pair[1] \in Requests /\ pair[2] \in Requests
        BY <2>1 DEF TypeOK, AccessTypeOK
      <3> QED
        BY <2>1, <3>1, <1>2, <1>3 DEF BeforeInv
    <2>2. CASE pair \notin before
      BY <2>2, <1>1, <1>2
    <2> QED
      BY <2>1, <2>2
  <1> QED
    BY <1>4 DEF BeforeInv, Ended

LEMMA LostStep ==
  ASSUME TypeOK, LostInv, Observe, clock' \in Nat, clock' >= clock
  PROVE  LostInv'
  <1>1. ASSUME NEW h \in Seeded \X Permissions
        PROVE  /\ lost'[h] = None <=> Holds(h[1], h[2])'
               /\ lost'[h] # None => lost'[h] <= clock'
    <2>1. lost'[h] = IF Holds(h[1], h[2])' THEN None
                     ELSE IF lost[h] = None THEN clock ELSE lost[h]
      BY DEF Observe
    <2>2. clock # None /\ clock \in Nat /\ 0..MaxTime \subseteq Nat
      BY NoneAssumption, TimeAssumption DEF TypeOK, AccessTypeOK
    <2>3. lost[h] # None => lost[h] \in Nat /\ lost[h] <= clock
      BY <2>2 DEF TypeOK, AccessTypeOK, LostInv
    <2> QED
      BY <2>1, <2>2, <2>3
  <1> QED
    BY <1>1 DEF LostInv

\* Since when a permission is lost only gets later.
LEMMA LostLater ==
  ASSUME TypeOK, LostInv, Observe, NEW h \in Seeded \X Permissions, NEW t \in Nat, t <= clock,
         lost[h] # None => t <= lost[h]
  PROVE  lost'[h] # None => t <= lost'[h]
  BY DEF Observe

LEMMA TokenStep ==
  ASSUME Before, LostInv, TokenInv, NEW r \in Requests, Acts(r), Observe
  PROVE  TokenInv'
  <1>1. /\ OthersStay(r) /\ clock' = clock /\ (row' = row \/ Writes(r))
    BY Frame DEF Before
  <1>2. \A q \in Requests : token[q] # None =>
          /\ token[q] \in Token /\ token[q].readAt \in Nat /\ token[q].claims \subseteq Permissions
          /\ token[q].user \in Seeded /\ token[q].readAt <= clock
    <2>1. 0..MaxTime \subseteq Nat
      BY TimeAssumption
    <2> QED
      BY <2>1 DEF Before, TypeOK, AccessTypeOK, Token, TokenInv
  <1>3. ASSUME NEW q \in Requests, token[q] # None
        PROVE  /\ token[q].user \in Seeded /\ token[q].readAt <= clock'
               /\ \A p \in token[q].claims : lost'[<<token[q].user, p>>] # None =>
                    token[q].readAt <= lost'[<<token[q].user, p>>]
    <2>1. token[q].user \in Seeded /\ token[q].readAt <= clock'
      BY <1>1, <1>2, <1>3
    <2>2. ASSUME NEW p \in token[q].claims, lost'[<<token[q].user, p>>] # None
          PROVE  token[q].readAt <= lost'[<<token[q].user, p>>]
      <3> DEFINE h == <<token[q].user, p>>
                 t == token[q].readAt
      <3>1. h \in Seeded \X Permissions /\ t \in Nat /\ t <= clock
        BY <1>2, <1>3
      <3>2. lost[h] # None => t <= lost[h]
        BY <1>3 DEF TokenInv
      <3> HIDE DEF h, t
      <3>3. lost'[h] # None => t <= lost'[h]
        BY <3>1, <3>2, LostLater DEF Before
      <3> QED
        BY <2>2, <3>3 DEF h, t
    <2> QED
      BY <2>1, <2>2
  <1>4. ASSUME NEW q \in Requests, token'[q] # None
        PROVE  /\ token'[q].user \in Seeded /\ token'[q].readAt <= clock'
               /\ \A p \in token'[q].claims : lost'[<<token'[q].user, p>>] # None =>
                    token'[q].readAt <= lost'[<<token'[q].user, p>>]
    <2>1. CASE token'[q] = token[q]
      BY <1>3, <1>4, <2>1
    <2>2. CASE q = r /\ TokenCopied(r)
      <3>1. PICK s \in Requests : Live(token[s]) /\ token' = [token EXCEPT ![r] = token[s]]
        BY <2>2 DEF TokenCopied
      <3>2. token[s] # None /\ token'[q] = token[s]
        BY <2>2, <3>1 DEF Live, Before, TypeOK, AccessTypeOK
      <3> QED
        BY <3>2, <1>3
    <2>3. CASE q = r /\ TokenRead(r) /\ row' = row
      <3>1. PICK e \in Accounts \cap Seeded :
              /\ row[e].flag
              /\ token' = [token EXCEPT ![r] = [user |-> e, claims |-> Claims(e),
                                                readAt |-> clock, issuedAt |-> None]]
        BY <2>3 DEF TokenRead
      <3>2. token'[q].user = e /\ token'[q].claims = Claims(e) /\ token'[q].readAt = clock
        BY <2>3, <3>1 DEF Before, TypeOK, AccessTypeOK
      <3>3. \A p \in Claims(e) : lost'[<<e, p>>] = None
        <4> TAKE p \in Claims(e)
        <4>1. p \in Permissions
          BY ClaimsArePermissions DEF Before
        <4>2. Holds(e, p)'
          BY <2>3, <3>1 DEF Holds, Accounts, Claims
        <4> QED
          BY <4>1, <4>2 DEF Observe
      <3>4. clock <= clock'
        BY <1>1, TimeAssumption DEF Before, TypeOK, AccessTypeOK
      <3> QED
        BY <1>1, <3>2, <3>3, <3>4
    <2>4. CASE q = r /\ Issue(r)
      <3>1. token' = [token EXCEPT ![r].issuedAt = clock] /\ pc[r] = "ready" /\ call[r].op = "sign"
        BY <2>4 DEF Issue
      <3>2. token[r] \in Token /\ token[r] # None
        BY <3>1 DEF Before, StageInv, TypeOK, AccessTypeOK
      <3>3. token'[r] = [token[r] EXCEPT !.issuedAt = clock]
        BY <3>1 DEF Before, TypeOK, AccessTypeOK
      <3>4. /\ token'[r].user = token[r].user /\ token'[r].claims = token[r].claims
            /\ token'[r].readAt = token[r].readAt
        BY <3>2, <3>3 DEF Token
      <3> QED
        BY <1>3, <2>4, <3>2, <3>4
    <2>5. \/ token' = token \/ (TokenRead(r) /\ row' = row) \/ TokenCopied(r) \/ Issue(r)
      <3>1. Writes(r) => token' = token
        BY WritesEffect
      <3>2. Works(r) => Issue(r) \/ token' = token
        BY DEF Works, Refuse, LookUp, Merge, MergeDelete, LogAudit, Fail, Unchanged
      <3>3. Handles(r) => token' = token
        BY DEF Handles, StartUpload, SkipBlank, Abort, RejectRow, RowCreated, RowFailed, Answer,
               UploadUnchanged
      <3>4. CreateRow(r) => token' = token
        BY DEF CreateRow
      <3>5. Entering(r) => row' = row
        BY DEF Entering
      <3> QED
        BY <3>1, <3>2, <3>3, <3>4, <3>5, ActsEffect DEF Before
    <2> QED
      BY <1>1, <2>1, <2>2, <2>3, <2>4, <2>5 DEF OthersStay
  <1> QED
    BY <1>4 DEF TokenInv

-----------------------------------------------------------------------------
(* Uploads.                                                                 *)

\* What an upload can be doing.
LEMMA UploadStages ==
  ASSUME Before, UploadInv, NEW r \in Uploads, Acts(r)
  PROVE  \/ CreateRow(r) /\ Entering(r)
         \/ (Insert(r) \/ Save(r)) /\ UNCHANGED <<file, at, created, errors>> /\ Credit(r)
         \/ (LookUp(r) \/ Merge(r) \/ Fail(r)) /\ UNCHANGED importVars
         \/ SkipBlank(r) \/ Abort(r) \/ RejectRow(r) \/ RowCreated(r) \/ RowFailed(r) \/ Answer(r)
  <1>1. r \in Requests /\ pc[r] # "idle"
    BY DEF UploadInv, Uploads
  <1>2. pc[r] \in InFlight \ {"row"} => call[r].op = "create"
    BY DEF UploadInv
  <1> QED
    <2>1. \/ CreateRow(r) /\ Entering(r)
          \/ Writes(r) /\ UNCHANGED <<file, at, created, errors>> /\ Credit(r)
          \/ Works(r) /\ UNCHANGED importVars
          \/ Handles(r)
      BY <1>1, ActsEffect DEF Before
    <2>2. CASE Writes(r) /\ UNCHANGED <<file, at, created, errors>> /\ Credit(r)
      <3>1. Insert(r) \/ Save(r)
        BY <2>2, <1>2 DEF Writes, RemoveRole, WriteActive, CommitSeed, InFlight
      <3> QED
        BY <2>2, <3>1
    <2>3. CASE Works(r) /\ UNCHANGED importVars
      <3>1. LookUp(r) \/ Merge(r) \/ Fail(r)
        BY <2>3, <1>1, <1>2 DEF Works, Refuse, MergeDelete, Issue, InFlight
      <3> QED
        BY <2>3, <3>1
    <2>4. CASE Handles(r)
      BY <1>1, <2>4 DEF Handles, StartUpload
    <2> QED
      BY <2>1, <2>2, <2>3, <2>4

\* Reporting row i as well.
LEMMA ReportedNext ==
  ASSUME NEW S, \A i \in S : i \in Nat, NEW n \in Nat
  PROVE  /\ n \in S => {i \in S : i < n + 1} = {i \in S : i < n} \cup {n}
         /\ n \notin S => {i \in S : i < n + 1} = {i \in S : i < n}
  <1>1. \A i \in S : i < n + 1 <=> i < n \/ i = n
    OBVIOUS
  <1>2. \A i \in S : i = n => i < n + 1
    OBVIOUS
  <1> QED
    BY <1>1, <1>2, Zenon

LEMMA UploadKept ==
  ASSUME Before, UploadInv, NEW r \in Requests, Acts(r)
  PROVE  UploadInv'
  <1> DEFINE Fine(q) ==
        /\ pc[q] \in {"row", "new", "found", "ready", "merged", "saved", "done", "failed"}
        /\ created[q] \cup errors[q] = {i \in Accounted(q) : i < at[q]}
        /\ created[q] \cap errors[q] = {}
        /\ pc[q] = "done" => at[q] > Len(file[q])
        /\ call[q] # None => call[q].op = "create"
        /\ pc[q] \in InFlight \ {"row"} =>
             /\ at[q] \in DOMAIN file[q] /\ call[q].op = "create"
             /\ call[q].on = file[q][at[q]].key /\ call[q].on \in Keys
             /\ call[q].wanted = RolesOf(q, at[q])
  <1>1. OthersStay(r)
    BY Frame DEF Before
  <1>2. \A q \in Uploads : Fine(q)
    BY DEF UploadInv
  <1>3. \A q \in Requests \ {r} : q \in Uploads' => Fine(q)'
    BY <1>1, <1>2 DEF OthersStay, Uploads, Accounted, RolesOf
  <1>4. SUFFICES ASSUME r \in Uploads' PROVE Fine(r)'
    <2>1. (r \in Uploads' => Fine(r)') => \A q \in Uploads' : Fine(q)'
      BY <1>3 DEF Uploads
    <2> QED
      BY <2>1 DEF UploadInv
  <1> USE DEF Before, TypeOK
  <1>5. CASE r \notin Uploads
    <2>1. StartUpload(r)
      <3>1. ~(UNCHANGED importVars) /\ ~(UNCHANGED <<file, at, created, errors>>)
        BY <1>4, <1>5 DEF Uploads, importVars
      <3>2. CreateRow(r) => UNCHANGED importVars
        BY DEF CreateRow
      <3>3. Handles(r) => StartUpload(r) \/ file' = file
        BY DEF Handles, SkipBlank, Abort, RejectRow, RowCreated, RowFailed, Answer, UploadUnchanged
      <3> QED
        BY <1>4, <1>5, <3>1, <3>2, <3>3, ActsEffect DEF Uploads
    <2>2. PICK f \in Files : file' = [file EXCEPT ![r] = f]
      BY <2>1 DEF StartUpload
    <2>3. /\ at' = [at EXCEPT ![r] = 1] /\ created' = created /\ errors' = errors
          /\ pc' = [pc EXCEPT ![r] = "row"]
      BY <2>1 DEF StartUpload, Goto
    <2>4. created[r] = {} /\ errors[r] = {}
      BY <1>5 DEF Uploads
    <2>5. file'[r] = f /\ at'[r] = 1 /\ pc'[r] = "row" /\ created'[r] = {} /\ errors'[r] = {}
      BY <2>2, <2>3, <2>4 DEF AccessTypeOK
    <2>6. \A i \in DOMAIN f : ~(i < 1)
      BY FileFacts
    <2>7. {i \in Accounted(r) : i < at[r]}' = {}
      BY <2>5, <2>6 DEF Accounted
    <2>8. call'[r] = None
      BY <2>1 DEF StartUpload, locals, CallInv
    <2> QED
      BY <2>5, <2>7, <2>8 DEF InFlight
  <1>6. CASE r \in Uploads
    <2>1. Fine(r)
      BY <1>2, <1>6
    <2>2. file[r] \in Files /\ at[r] \in Nat
      BY <1>6, RowsOf
    <2>3. DOMAIN file[r] = 1..Len(file[r]) /\ Len(file[r]) \in Nat
      BY <2>2, FileFacts
    <2>4. CASE UNCHANGED <<file, at, created, errors>> /\ UNCHANGED call /\ pc[r] \in InFlight \ {"row"}
               /\ pc'[r] \in {"found", "ready", "merged", "saved", "failed"}
      BY <2>1, <2>4 DEF Accounted, RolesOf, InFlight
    <2>5. ASSUME (Insert(r) \/ Save(r) \/ LookUp(r) \/ Merge(r)),
                 UNCHANGED <<file, at, created, errors>>
          PROVE  Fine(r)'
      <3>1. UNCHANGED call /\ pc[r] \in InFlight \ {"row"}
            /\ pc'[r] \in {"found", "ready", "merged", "saved", "failed"}
        BY <2>5 DEF Insert, Save, LookUp, Merge, Goto, AfterInsert, locals, InFlight, AccessTypeOK
      <3> QED
        BY <2>4, <2>5, <3>1
    <2>6. CASE Fail(r) /\ UNCHANGED importVars
      <3>1. UNCHANGED call /\ pc'[r] = "failed"
        BY <2>6 DEF Fail, Finish, Goto, AccessTypeOK
      <3> QED
        BY <2>1, <2>6, <3>1 DEF Accounted, RolesOf, InFlight, importVars
    <2>7. CASE Abort(r)
      <3>1. UNCHANGED <<call, file, at, created, errors>> /\ pc'[r] = "failed"
        BY <2>7 DEF Abort, Finish, Goto, AccessTypeOK, UploadUnchanged
      <3> QED
        BY <2>1, <3>1 DEF Accounted, RolesOf, InFlight
    <2>8. CASE Answer(r)
      <3>1. UNCHANGED <<call, file, at, created, errors>> /\ pc'[r] = "done" /\ at[r] > Len(file[r])
        BY <2>8 DEF Answer, Finish, Goto, AccessTypeOK, UploadUnchanged
      <3> QED
        BY <2>1, <3>1 DEF Accounted, RolesOf, InFlight
    <2>9. CASE CreateRow(r)
      <3> DEFINE k == file[r][at[r]].key
                 roles == IF file[r][at[r]].roles = None THEN {} ELSE file[r][at[r]].roles
      <3>1. /\ pc[r] = "row" /\ at[r] \in DOMAIN file[r] /\ k \in Keys /\ UNCHANGED importVars
            /\ Enter(r, [op |-> "create", on |-> k, wanted |-> roles], "new", New)
        BY <2>9 DEF CreateRow, AtRow
      <3>2. pc'[r] = "new" /\ call'[r] = [op |-> "create", on |-> k, wanted |-> roles]
        BY <3>1 DEF Enter, Goto, AccessTypeOK
      <3>3. UNCHANGED <<file, at, created, errors>>
        BY <3>1 DEF importVars
      <3>4. call'[r].op = "create" /\ call'[r].on = k /\ call'[r].wanted = RolesOf(r, at[r])
        BY <3>2 DEF RolesOf
      <3> QED
        BY <2>1, <3>1, <3>2, <3>3, <3>4 DEF Accounted, RolesOf
    <2>10. ASSUME SkipBlank(r) \/ RejectRow(r) \/ RowCreated(r) \/ RowFailed(r)
           PROVE  Fine(r)'
      <3>1. /\ at[r] \in DOMAIN file[r] /\ pc'[r] = "row" /\ file' = file /\ at'[r] = at[r] + 1
            /\ \/ at[r] \notin Accounted(r) /\ created' = created /\ errors' = errors
               \/ at[r] \in Accounted(r) /\ created' = created /\ errors'[r] = errors[r] \cup {at[r]}
               \/ at[r] \in Accounted(r) /\ errors' = errors /\ created'[r] = created[r] \cup {at[r]}
        <4>1. CASE SkipBlank(r)
          BY <4>1 DEF SkipBlank, AtRow, NextRow, Goto, Accounted, AccessTypeOK, UploadUnchanged
        <4>2. CASE RejectRow(r)
          <5>1. "blank" \notin Keys /\ "blank" # "invalid"
            BY FilesAssumption
          <5> QED
            BY <4>2, <5>1 DEF RejectRow, AtRow, NextRow, Report, Goto, Accounted, AccessTypeOK,
                              UploadUnchanged
        <4>3. CASE RowCreated(r) \/ RowFailed(r)
          <5>1. "blank" \notin Keys
            BY FilesAssumption
          <5>2. pc[r] \in InFlight \ {"row"}
            BY <4>3 DEF RowCreated, RowFailed, Creating
          <5>3. at[r] \in Accounted(r)
            BY <2>1, <5>1, <5>2 DEF Accounted
          <5>4. CASE RowCreated(r)
            BY <2>1, <5>2, <5>3, <5>4 DEF RowCreated, NextRow, Report, Goto, AccessTypeOK,
                                          UploadUnchanged
          <5>5. CASE RowFailed(r)
            BY <2>1, <5>2, <5>3, <5>5 DEF RowFailed, NextRow, Report, Goto, AccessTypeOK,
                                          UploadUnchanged
          <5> QED
            BY <4>3, <5>4, <5>5
        <4> QED
          BY <2>10, <4>1, <4>2, <4>3
      <3>2. \A i \in Accounted(r) : i \in Nat
        BY <2>3 DEF Accounted
      <3>3. Accounted(r)' = Accounted(r)
        BY <3>1 DEF Accounted
      <3>4. {i \in Accounted(r) : i < at[r] + 1} =
              IF at[r] \in Accounted(r) THEN {i \in Accounted(r) : i < at[r]} \cup {at[r]}
              ELSE {i \in Accounted(r) : i < at[r]}
        BY <2>2, <3>2, ReportedNext
      <3>5. at[r] \notin created[r] \cup errors[r]
        BY <2>1, <2>2
      <3>6. (created[r] \cup errors[r])' = {i \in Accounted(r) : i < at[r]}'
        BY <2>1, <3>1, <3>3, <3>4
      <3>7. (created[r] \cap errors[r])' = {}
        BY <2>1, <3>1, <3>5
      <3>8. call' = call
        BY <2>10 DEF SkipBlank, RejectRow, RowCreated, RowFailed, locals
      <3> QED
        BY <2>1, <3>1, <3>6, <3>7, <3>8 DEF InFlight
    <2> HIDE DEF Fine
    <2> QED
      BY <1>6, <2>5, <2>6, <2>7, <2>8, <2>9, <2>10, UploadStages DEF importVars
  <1> QED
    BY <1>5, <1>6

\* Only Insert gives a row its creator, and only where there was no row.
LEMMA CreditEffect ==
  ASSUME Before, NEW r \in Requests, Acts(r)
  PROVE  \/ creator' = creator
         \/ /\ Insert(r) /\ creator' = [creator EXCEPT ![call[r].on] = <<r, at[r]>>]
            /\ UNCHANGED <<file, at, created, errors, call>>
  <1>1. CASE Writes(r) /\ UNCHANGED <<file, at, created, errors>> /\ Credit(r)
    <2>1. CASE Insert(r)
      BY <1>1, <2>1, WritesEffect DEF Credit
    <2>2. CASE ~Insert(r)
      <3>1. pc[r] # "new"
        BY <1>1, <2>2 DEF Writes, Save, RemoveRole, WriteActive, CommitSeed
      <3> QED
        BY <1>1, <3>1 DEF Credit
    <2> QED
      BY <2>1, <2>2
  <1>2. Handles(r) => creator' = creator
    BY DEF Handles, StartUpload, SkipBlank, Abort, RejectRow, RowCreated, RowFailed, Answer
  <1>3. CreateRow(r) => creator' = creator
    BY DEF CreateRow, importVars
  <1> QED
    BY <1>1, <1>2, <1>3, ActsEffect DEF Before, importVars

LEMMA InsertCredits ==
  ASSUME Before, NEW r \in Requests, Insert(r), Credit(r)
  PROVE  creator' = [creator EXCEPT ![call[r].on] = <<r, at[r]>>]
  <1>1. row[call[r].on] = None /\ row'[call[r].on] \in Row /\ pc[r] = "new"
    BY InsertEffect
  <1>2. row' # row
    BY <1>1, Rows DEF Before
  <1> QED
    BY <1>1, <1>2 DEF Credit

\* A file stays that of a request which has begun.
LEMMA FileStays ==
  ASSUME Before, NEW r \in Requests, Acts(r), NEW q \in Requests, pc[q] # "idle"
  PROVE  file'[q] = file[q]
  <1>1. OthersStay(r)
    BY Frame DEF Before
  <1>2. CASE q = r
    <2>1. Handles(r) => file' = file
      BY <1>2 DEF Handles, StartUpload, SkipBlank, Abort, RejectRow, RowCreated, RowFailed, Answer,
                  UploadUnchanged
    <2>2. CreateRow(r) => file' = file
      BY DEF CreateRow, importVars
    <2> QED
      BY <1>2, <2>1, <2>2, ActsEffect DEF Before, importVars
  <1> QED
    BY <1>1, <1>2 DEF OthersStay

LEMMA CreatorKept ==
  ASSUME Before, UploadInv, CreatorInv, NEW r \in Requests, Acts(r)
  PROVE  CreatorInv'
  <1>1. OthersStay(r) /\ pc[r] \in {"idle"} \cup InFlight /\ pc'[r] # "idle"
    BY Frame DEF Before
  <1>2. \A k \in Keys : row[k] # None => row'[k] # None
    BY RowsStay
  <1>3. /\ creator \in [Ids -> (Requests \X Nat) \cup {None}] /\ Keys \subseteq Ids
        /\ \A c \in Requests \X Nat : c # None
    BY FilesAssumption DEF Before, TypeOK, Ids
  <1>4. CASE Insert(r) /\ creator' = [creator EXCEPT ![call[r].on] = <<r, at[r]>>]
             /\ UNCHANGED <<file, at, created, errors, call>>
    <2> DEFINE x == call[r].on
    <2>1. x \in Ids /\ row[x] = None /\ row'[x] # None /\ pc[r] = "new" /\ pc'[r] \in {"found", "saved"}
      <3>1. x \in Ids /\ row[x] = None /\ row'[x] \in Row
        BY <1>4, InsertEffect
      <3>2. pc[r] = "new" /\ pc'[r] \in {"found", "saved"}
        BY <1>4 DEF Insert, Goto, AfterInsert, Before, TypeOK, AccessTypeOK
      <3> QED
        BY <3>1, <3>2, Rows DEF Before
    <2>2. r \in Uploads => at[r] \in DOMAIN file[r] /\ file[r][at[r]].key = x /\ x \in Keys
      BY <2>1 DEF UploadInv, InFlight
    <2>3. creator'[x] = <<r, at[r]>> /\ \A k \in Ids \ {x} : creator'[k] = creator[k]
      BY <1>3, <1>4, <2>1
    <2> HIDE DEF x
    <2>4. Uploads' = Uploads
      BY <1>4 DEF Uploads
    <2>5. ASSUME NEW k \in Keys, creator'[k] # None
          PROVE  /\ row'[k] # None /\ pc'[creator'[k][1]] # "idle"
                 /\ creator'[k][1] \in Uploads =>
                      /\ creator'[k][2] \in DOMAIN file[creator'[k][1]]
                      /\ file[creator'[k][1]][creator'[k][2]].key = k
      <3>1. CASE k = x
        BY <2>1, <2>2, <2>3, <3>1
      <3>2. CASE k # x
        <4>1. creator'[k] = creator[k] /\ creator[k] \in Requests \X Nat
          BY <1>3, <2>3, <2>5, <3>2
        <4>2. pc[creator[k][1]] # "idle" /\ row[k] # None
          BY <2>5, <4>1 DEF CreatorInv
        <4>3. pc'[creator[k][1]] # "idle"
          BY <1>1, <4>1, <4>2 DEF OthersStay
        <4> QED
          BY <1>2, <2>5, <4>1, <4>2, <4>3 DEF CreatorInv
      <3> QED
        BY <3>1, <3>2
    <2>6. ASSUME NEW k \in Ids, NEW c \in Requests \X Nat, creator[k] = c, k \in Keys
          PROVE  creator'[k] = c
      <3>1. row[k] # None
        BY <1>3, <2>6 DEF CreatorInv
      <3> QED
        BY <2>1, <2>3, <2>6, <3>1
    <2>7. ASSUME NEW q \in Uploads
          PROVE  /\ pc'[q] \in {"found", "ready", "merged", "saved"} => creator'[call[q].on] = <<q, at[q]>>
                 /\ \A i \in created[q] :
                      file[q][i].key \in Keys /\ creator'[file[q][i].key] = <<q, i>>
      <3>1. q \in Requests /\ <<q, at[q]>> \in Requests \X Nat /\ created[q] \subseteq Nat
        BY DEF Uploads, Before, TypeOK
      <3>2. pc'[q] \in {"found", "ready", "merged", "saved"} => creator'[call[q].on] = <<q, at[q]>>
        <4>1. CASE q = r
          BY <2>3, <4>1 DEF x
        <4>2. CASE q # r
          <5>1. SUFFICES ASSUME pc'[q] \in {"found", "ready", "merged", "saved"}
                         PROVE  creator'[call[q].on] = <<q, at[q]>>
            OBVIOUS
          <5>2. pc[q] \in {"found", "ready", "merged", "saved"}
            BY <1>1, <3>1, <4>2, <5>1 DEF OthersStay
          <5>3. creator[call[q].on] = <<q, at[q]>> /\ call[q].on \in Keys
            BY <5>2 DEF CreatorInv, UploadInv, InFlight
          <5> QED
            BY <1>3, <2>6, <3>1, <5>3
        <4> QED
          BY <4>1, <4>2
      <3>3. ASSUME NEW i \in created[q]
            PROVE  file[q][i].key \in Keys /\ creator'[file[q][i].key] = <<q, i>>
        <4>1. /\ file[q][i].key \in Keys /\ creator[file[q][i].key] = <<q, i>>
              /\ <<q, i>> \in Requests \X Nat
          BY <3>1 DEF CreatorInv
        <4> QED
          BY <1>3, <2>6, <4>1
      <3> QED
        BY <3>2, <3>3
    <2>8. file' = file /\ at' = at /\ created' = created /\ call' = call
      BY <1>4
    <2> QED
      BY <2>4, <2>5, <2>7, <2>8 DEF CreatorInv
  <1>5. CASE creator' = creator
    <2>1. ASSUME NEW k \in Keys, creator[k] # None
          PROVE  /\ row'[k] # None /\ pc'[creator[k][1]] # "idle"
                 /\ creator[k][1] \in Uploads' =>
                      /\ creator[k][2] \in DOMAIN file'[creator[k][1]]
                      /\ file'[creator[k][1]][creator[k][2]].key = k
      <3>1. creator[k] \in Requests \X Nat /\ creator[k][1] \in Requests
        BY <1>3, <2>1
      <3>2. pc[creator[k][1]] # "idle" /\ row[k] # None
        BY <2>1 DEF CreatorInv
      <3>3. file'[creator[k][1]] = file[creator[k][1]] /\ pc'[creator[k][1]] # "idle"
        BY <1>1, <3>1, <3>2, FileStays DEF OthersStay
      <3> QED
        BY <1>2, <2>1, <3>1, <3>2, <3>3 DEF CreatorInv, Uploads
    <2> DEFINE Fine(q) ==
          /\ pc[q] \in {"found", "ready", "merged", "saved"} => creator[call[q].on] = <<q, at[q]>>
          /\ \A i \in created[q] : file[q][i].key \in Keys /\ creator[file[q][i].key] = <<q, i>>
    <2>2. \A q \in Uploads : Fine(q)
      BY DEF CreatorInv
    <2>3. ASSUME NEW q \in Requests \ {r}, q \in Uploads' PROVE Fine(q)'
      <3>1. /\ pc'[q] = pc[q] /\ call'[q] = call[q] /\ file'[q] = file[q] /\ at'[q] = at[q]
            /\ created'[q] = created[q]
        BY <1>1 DEF OthersStay
      <3>2. q \in Uploads
        BY <2>3, <3>1 DEF Uploads
      <3> QED
        BY <1>5, <2>2, <3>1, <3>2
    <2>4. r \in Uploads' => Fine(r)'
      <3>1. CASE r \notin Uploads
        <4>1. r \in Uploads' => StartUpload(r)
          <5>1. CreateRow(r) => file' = file
            BY DEF CreateRow, importVars
          <5>2. Handles(r) => StartUpload(r) \/ file' = file
            BY DEF Handles, SkipBlank, Abort, RejectRow, RowCreated, RowFailed, Answer, UploadUnchanged
          <5> QED
            BY <3>1, <5>1, <5>2, ActsEffect DEF Before, importVars, Uploads
        <4>2. StartUpload(r) => pc'[r] = "row" /\ created' = created
          BY DEF StartUpload, Goto, Before, TypeOK, AccessTypeOK
        <4>3. created[r] = {}
          BY <3>1 DEF Uploads, Before, TypeOK
        <4> QED
          BY <4>1, <4>2, <4>3
      <3>2. CASE r \in Uploads
        <4>1. Fine(r) /\ file'[r] = file[r]
          BY <2>2, <3>2, FileStays DEF UploadInv, Uploads
        <4>2. CASE (Save(r) \/ LookUp(r) \/ Merge(r)) /\ UNCHANGED <<file, at, created, errors>>
          <5>1. UNCHANGED call /\ pc[r] \in {"found", "ready", "merged"}
            <6>1. CASE Save(r)
              BY <6>1 DEF Save, locals
            <6>2. CASE LookUp(r) \/ Merge(r)
              BY <6>2 DEF LookUp, Merge
            <6> QED
              BY <4>2, <6>1, <6>2
          <5> QED
            BY <1>5, <4>1, <4>2, <5>1
        <4>3. CASE Insert(r) /\ Credit(r) /\ UNCHANGED <<file, at, created, errors>>
          <5>1. creator' = [creator EXCEPT ![call[r].on] = <<r, at[r]>>]
            BY <4>3, InsertCredits
          <5>2. call' = call /\ call[r].on \in Ids
            BY <4>3, InsertEffect DEF Insert, locals
          <5>3. creator'[call[r].on] = <<r, at[r]>>
            BY <1>3, <5>1, <5>2
          <5> QED
            BY <1>5, <4>1, <4>3, <5>2, <5>3
        <4>4. CASE CreateRow(r)
          <5>1. pc'[r] = "new" /\ created' = created
            BY <4>4 DEF CreateRow, Enter, Goto, Before, TypeOK, AccessTypeOK, importVars
          <5> QED
            BY <1>5, <4>1, <5>1
        <4>5. CASE RowCreated(r)
          <5>1. pc[r] = "saved" /\ pc'[r] = "row" /\ created'[r] = created[r] \cup {at[r]}
            BY <4>5 DEF RowCreated, NextRow, Report, Goto, Before, TypeOK, AccessTypeOK
          <5>2. creator[call[r].on] = <<r, at[r]>> /\ call[r].on = file[r][at[r]].key
                /\ call[r].on \in Keys
            BY <3>2, <5>1 DEF CreatorInv, UploadInv, InFlight
          <5> QED
            BY <1>5, <4>1, <5>1, <5>2
        <4>6. CASE SkipBlank(r) \/ Abort(r) \/ RejectRow(r) \/ RowFailed(r) \/ Answer(r)
                   \/ (Fail(r) /\ UNCHANGED importVars)
          <5>1. pc'[r] \in {"row", "failed", "done"}
            BY <4>6 DEF SkipBlank, Abort, RejectRow, RowFailed, Answer, Fail, NextRow, Report, Goto,
                        Finish, Before, TypeOK, AccessTypeOK
          <5>2. created' = created
            BY <4>6 DEF SkipBlank, Abort, RejectRow, RowFailed, Answer, Report, importVars
          <5> QED
            BY <1>5, <4>1, <5>1, <5>2
        <4> HIDE DEF Fine
        <4> QED
          BY <3>2, <4>2, <4>3, <4>4, <4>5, <4>6, UploadStages DEF importVars
      <3> QED
        BY <3>1, <3>2
    <2> HIDE DEF Fine
    <2>5. \A q \in Uploads' : Fine(q)'
      BY <2>3, <2>4 DEF Uploads
    <2> QED
      BY <1>5, <2>1, <2>5 DEF CreatorInv, Fine
  <1> QED
    BY <1>4, <1>5, CreditEffect

\* Nobody who was alone after a step was in company before; and nobody else
\* writes then.
LEMMA AloneWrites ==
  ASSUME Before, NEW r \in Requests, Acts(r), NEW q \in Requests, NEW k, k \in Solo(q)'
  PROVE  /\ k \in Solo(q)
         /\ q # r => row' = row
         /\ q = r => row' = row \/ call[r].on = k
  <1>1. asked \subseteq asked' /\ (row' = row \/ Writes(r))
    BY Frame DEF Before
  <1>2. k \in Solo(q)
    BY <1>1 DEF Solo, Alone
  <1>3. Writes(r) => Asked(r) \in asked /\ call[r].op \notin {"sign", "use"}
    <2>1. SUFFICES ASSUME Writes(r) PROVE Asked(r) \in asked /\ call[r].op \notin {"sign", "use"}
      OBVIOUS
    <2>2. pc[r] \in InFlight \ {"row"}
      BY <2>1 DEF Writes, Insert, Save, RemoveRole, WriteActive, CommitSeed, InFlight
    <2>3. call[r].op \notin {"sign", "use"}
      BY <2>1 DEF Writes, Insert, Save, Saves, RemoveRole, WriteActive, CommitSeed, Before, StageInv
    <2> QED
      BY <2>2, <2>3 DEF Before, CallInv, StageInv
  <1>4. Asked(r).by = r /\ Asked(r).op = call[r].op /\ Asked(r).on = call[r].on
    BY DEF Asked
  <1> QED
    BY <1>1, <1>2, <1>3, <1>4 DEF Solo, Alone

\* Only the file of accounts names roles.
LEMMA RolesOfAccounts ==
  ASSUME Before, UploadInv, NEW r \in Uploads, pc[r] \in InFlight \ {"row"}
  PROVE  call[r].wanted = {} \/ call[r].on \in Emails
  <1>1. /\ at[r] \in DOMAIN file[r] /\ call[r].on = file[r][at[r]].key /\ call[r].on \in Keys
        /\ call[r].wanted = RolesOf(r, at[r])
    BY DEF UploadInv
  <1>2. file[r] \in Files
    BY RowsOf DEF Before
  <1>3. call[r].on \in Badges \cup Codes => file[r][at[r]].roles = None
    BY <1>1, <1>2, FileFacts
  <1> QED
    BY <1>1, <1>3 DEF Keys, RolesOf

LEMMA AloneKept ==
  ASSUME Before, UploadInv, CreatorInv, AloneInv, NEW r \in Requests, Acts(r)
  PROVE  AloneInv'
  <1> DEFINE Made(q) ==
        /\ pc[q] \in {"new", "found", "ready"} => call[q].wanted \subseteq Present
        /\ pc[q] \in {"found", "ready", "merged"} => row[call[q].on].grants = {}
        /\ pc[q] \in {"ready", "merged"} => entity[q].grants = call[q].wanted
        /\ pc[q] = "merged" =>
             ~diff[q].insert /\ diff[q].add = call[q].wanted /\ diff[q].drop = {}
        /\ pc[q] = "saved" => row[call[q].on].grants = call[q].wanted
      Given(q, i) ==
        file[q][i].key \in Solo(q) => row[file[q][i].key].grants = RolesOf(q, i)
      Fine(q) ==
        /\ pc[q] \in InFlight \ {"row"} /\ call[q].on \in Solo(q) => Made(q)
        /\ \A i \in created[q] : Given(q, i)
  <1>1. \A q \in Uploads : Fine(q)
    BY DEF AloneInv
  <1>2. OthersStay(r) /\ pc'[r] # "idle"
    BY Frame DEF Before
  <1>3. ASSUME NEW q \in Requests \ {r}, q \in Uploads'
        PROVE  Fine(q)'
    <2>1. /\ pc'[q] = pc[q] /\ call'[q] = call[q] /\ entity'[q] = entity[q] /\ diff'[q] = diff[q]
          /\ file'[q] = file[q] /\ created'[q] = created[q]
      BY <1>2 DEF OthersStay
    <2>2. q \in Uploads /\ Fine(q)
      BY <1>1, <1>3, <2>1 DEF Uploads
    <2>3. ASSUME NEW k, k \in Solo(q)' PROVE k \in Solo(q) /\ row' = row
      BY <2>3, AloneWrites
    <2>4. row' = row => Present' = Present
      BY DEF Present
    <2>5. pc'[q] \in InFlight \ {"row"} /\ call[q].on \in Solo(q)' => Made(q)'
      BY <2>1, <2>2, <2>3, <2>4
    <2>6. ASSUME NEW i \in created[q] PROVE Given(q, i)'
      <3>1. Given(q, i)
        BY <2>2
      <3>2. file[q][i].key \in Solo(q)' => file[q][i].key \in Solo(q) /\ row' = row
        BY <2>3
      <3> QED
        BY <2>1, <3>1, <3>2 DEF RolesOf
    <2> HIDE DEF Made, Given
    <2> QED
      BY <2>1, <2>5, <2>6
  <1>4. ASSUME r \in Uploads' PROVE Fine(r)'
    <2>1. CASE r \notin Uploads
      <3>1. StartUpload(r)
        <4>1. CreateRow(r) => file' = file
          BY DEF CreateRow, importVars
        <4>2. Handles(r) => StartUpload(r) \/ file' = file
          BY DEF Handles, SkipBlank, Abort, RejectRow, RowCreated, RowFailed, Answer, UploadUnchanged
        <4> QED
          BY <1>4, <2>1, <4>1, <4>2, ActsEffect DEF Before, importVars, Uploads
      <3>2. pc'[r] = "row" /\ created' = created
        BY <3>1 DEF StartUpload, Goto, Before, TypeOK, AccessTypeOK
      <3>3. created[r] = {}
        BY <2>1 DEF Uploads, Before, TypeOK
      <3> QED
        BY <3>2, <3>3
    <2>2. CASE r \in Uploads
      <3>1. Fine(r)
        BY <1>1, <2>2
      <3>2. file'[r] = file[r]
        BY <2>2, FileStays DEF UploadInv, Uploads
      <3>3. ASSUME NEW i \in created[r] PROVE Given(r, i)'
        <4> DEFINE k == file[r][i].key
        <4>1. SUFFICES ASSUME k \in Solo(r)' PROVE row'[k].grants = row[k].grants
          <5>1. k \in Solo(r)' => k \in Solo(r)
            BY AloneWrites
          <5>2. Given(r, i)
            BY <3>1
          <5> QED
            BY <3>2, <4>1, <5>1, <5>2 DEF RolesOf
        <4>2. creator[k] = <<r, i>> /\ k \in Keys /\ i < at[r]
          BY <2>2 DEF CreatorInv, UploadInv
        <4>3. row[k] # None
          <5>1. i \in Nat
            BY DEF Before, TypeOK
          <5>2. <<r, i>> \in Requests \X Nat
            BY <5>1
          <5>3. creator[k] # None
            BY <4>2, <5>2, FilesAssumption
          <5> QED
            BY <4>2, <5>3 DEF CreatorInv
        <4>4. row' = row \/ (call[r].on = k /\ Writes(r))
          BY <4>1, AloneWrites, Frame DEF Before
        <4>5. Writes(r) => Insert(r) \/ Save(r)
          <5>1. pc[r] \in InFlight \ {"row"} => call[r].op = "create"
            BY <2>2 DEF UploadInv
          <5> QED
            BY <5>1 DEF Writes, RemoveRole, WriteActive, CommitSeed, InFlight
        <4>6. Insert(r) => row[call[r].on] = None
          BY DEF Insert
        <4>7. Save(r) => creator[call[r].on] = <<r, at[r]>>
          BY <2>2 DEF Save, CreatorInv
        <4>8. ~(Writes(r) /\ call[r].on = k)
          <5>1. i # at[r]
            BY <4>2 DEF Before, TypeOK
          <5> QED
            BY <4>2, <4>3, <4>5, <4>6, <4>7, <5>1
        <4> QED
          BY <4>4, <4>8
      <3> DEFINE Goal == pc'[r] \in InFlight \ {"row"} /\ call'[r].on \in Solo(r)' => Made(r)'
      <3>4. pc[r] \in InFlight \ {"row"} =>
              /\ call[r].op = "create" /\ call[r].on \in Keys /\ r \notin Keys
              /\ call[r].wanted = RolesOf(r, at[r]) /\ call[r].on = file[r][at[r]].key
        <4>1. r \notin Keys
          BY KeysAssumption DEF Roles
        <4> QED
          BY <2>2, <4>1 DEF UploadInv
      <3>5. pc[r] \in {"found", "ready", "merged", "saved"} => row[call[r].on] # None
        <4>1. <<r, at[r]>> \in Requests \X Nat
          BY DEF Before, TypeOK
        <4>2. <<r, at[r]>> # None
          BY <4>1, FilesAssumption
        <4> QED
          BY <2>2, <3>4, <4>2 DEF CreatorInv, InFlight
      <3>6. call' = call /\ call[r].on \in Solo(r)' => call[r].on \in Solo(r)
        BY AloneWrites
      <3>7. ASSUME CreateRow(r) PROVE Goal /\ created' = created
        <4>1. /\ RolesKnown(file[r][at[r]].roles) /\ UNCHANGED <<row, importVars>>
              /\ Enter(r, [op |-> "create", on |-> file[r][at[r]].key,
                           wanted |-> IF file[r][at[r]].roles = None THEN {} ELSE file[r][at[r]].roles],
                       "new", New)
          BY <3>7 DEF CreateRow
        <4>2. pc'[r] = "new" /\ call'[r].wanted = RolesOf(r, at[r]) /\ created' = created
          BY <4>1 DEF Enter, Goto, RolesOf, Before, TypeOK, AccessTypeOK, importVars
        <4>3. RolesOf(r, at[r]) \subseteq Present
          BY <4>1 DEF RolesOf, RolesKnown
        <4>4. Present' = Present
          BY <4>1 DEF Present
        <4> QED
          BY <4>2, <4>3, <4>4
      <3>8. ASSUME Insert(r) PROVE Goal
        <4>1. /\ call' = call /\ pc[r] = "new" /\ pc'[r] \in {"found", "saved"}
              /\ pc'[r] = "saved" => call[r].on \notin Emails \/ call[r].wanted = {}
          BY <3>8 DEF Insert, Goto, AfterInsert, locals, Before, TypeOK, AccessTypeOK
        <4>2. row'[call[r].on] = New
          <5>1. entity[r] = New
            BY <3>4, <4>1 DEF Before, EntityInv, InFlight
          <5> QED
            BY <3>8, <5>1, InsertEffect
        <4>3. New.grants = {}
          BY DEF New
        <4>4. call[r].wanted = {} \/ call[r].on \in Emails
          BY <2>2, <4>1, RolesOfAccounts DEF InFlight
        <4>5. Present \subseteq Present'
          <5>1. \A x \in Roles : row'[x] = row[x]
            BY <3>4, <3>8, <4>1, InsertEffect, KeysAssumption DEF InFlight, Ids
          <5> QED
            BY <5>1 DEF Present
        <4>6. call[r].on \in Solo(r) => call[r].wanted \subseteq Present
          BY <3>1, <4>1 DEF InFlight
        <4> QED
          BY <3>6, <4>1, <4>2, <4>3, <4>4, <4>5, <4>6
      <3>9. ASSUME LookUp(r) PROVE Goal
        <4>1. /\ call' = call /\ pc[r] = "found" /\ pc'[r] = "ready" /\ row' = row
              /\ entity' = [entity EXCEPT ![r].grants = call[r].wanted \cap Grantable(call[r].on)]
          BY <3>9 DEF LookUp, Goto, Before, TypeOK, AccessTypeOK
        <4>2. entity[r] \in Row
          BY <3>4, <4>1 DEF Before, EntityInv, Holding, StageInv, InFlight, Saving
        <4>3. entity'[r].grants = call[r].wanted \cap Grantable(call[r].on)
          BY <4>1, <4>2 DEF Before, TypeOK, AccessTypeOK, Row
        <4>4. call[r].wanted = {} \/ Grantable(call[r].on) = Present
          BY <2>2, <4>1, RolesOfAccounts, KeysAssumption DEF InFlight, Grantable, Keys
        <4>5. call[r].on \in Solo(r) => Made(r)
          BY <3>1, <4>1 DEF InFlight
        <4>6. Present' = Present
          BY <4>1 DEF Present
        <4> QED
          BY <3>6, <4>1, <4>3, <4>4, <4>5, <4>6
      <3>10. ASSUME Merge(r) PROVE Goal
        <4>1. /\ call' = call /\ pc[r] = "ready" /\ pc'[r] = "merged" /\ row' = row /\ entity' = entity
              /\ row[call[r].on] # None =>
                   diff'[r] = [insert |-> FALSE, flag |-> entity[r].flag # row[call[r].on].flag,
                               add |-> entity[r].grants \ row[call[r].on].grants,
                               drop |-> row[call[r].on].grants \ entity[r].grants]
          BY <3>10 DEF Merge, Goto, Before, TypeOK, AccessTypeOK
        <4>2. /\ ~diff'[r].insert /\ diff'[r].add = entity[r].grants \ row[call[r].on].grants
              /\ diff'[r].drop = row[call[r].on].grants \ entity[r].grants
          BY <3>5, <4>1
        <4>3. call[r].on \in Solo(r) => Made(r)
          BY <3>1, <4>1 DEF InFlight
        <4> QED
          BY <3>6, <4>1, <4>2, <4>3
      <3>11. ASSUME Save(r) PROVE Goal
        <4>1. call' = call /\ pc[r] = "merged" /\ pc'[r] = "saved"
          BY <3>11 DEF Save, Goto, locals, Before, TypeOK, AccessTypeOK
        <4>2. ~diff[r].insert => row'[call[r].on] = Rewritten(r)
          BY <3>5, <3>11, <4>1, SaveEffect
        <4>3. Rewritten(r).grants = (row[call[r].on].grants \cup diff[r].add) \ diff[r].drop
          BY DEF Rewritten
        <4>4. call[r].on \in Solo(r) => Made(r)
          BY <3>1, <4>1 DEF InFlight
        <4> QED
          BY <3>6, <4>1, <4>2, <4>3, <4>4
      <3>12. ASSUME Fail(r) \/ SkipBlank(r) \/ Abort(r) \/ RejectRow(r) \/ RowCreated(r)
                    \/ RowFailed(r) \/ Answer(r)
             PROVE  Goal
        <4>1. pc'[r] \in {"row", "failed", "done"}
          BY <3>12 DEF Fail, SkipBlank, Abort, RejectRow, RowCreated, RowFailed, Answer, NextRow,
                       Report, Finish, Goto, Before, TypeOK, AccessTypeOK
        <4> QED
          BY <4>1 DEF InFlight
      <3>13. ASSUME RowCreated(r), NEW i \in created'[r] PROVE Given(r, i)'
        <4>1. pc[r] = "saved" /\ created'[r] = created[r] \cup {at[r]} /\ row' = row
          BY <3>13 DEF RowCreated, NextRow, Report, Before, TypeOK, UploadUnchanged
        <4>2. CASE i = at[r]
          <5>1. call[r].on = file[r][i].key /\ call[r].wanted = RolesOf(r, i)
            BY <3>4, <4>1, <4>2 DEF InFlight
          <5>2. call[r].on \in Solo(r) => row[call[r].on].grants = call[r].wanted
            BY <3>1, <4>1 DEF InFlight
          <5>3. call[r].on \in Solo(r)' => call[r].on \in Solo(r)
            BY AloneWrites
          <5> QED
            BY <3>2, <4>1, <5>1, <5>2, <5>3 DEF RolesOf
        <4> QED
          BY <3>3, <4>1, <4>2
      <3>14. RowCreated(r) \/ created' = created
        <4>1. UNCHANGED importVars => created' = created
          BY DEF importVars
        <4>2. SkipBlank(r) \/ Abort(r) \/ RejectRow(r) \/ RowFailed(r) \/ Answer(r) => created' = created
          BY DEF SkipBlank, Abort, RejectRow, RowFailed, Answer, Report
        <4> QED
          BY <2>2, <3>7, <4>1, <4>2, UploadStages
      <3>15. Goal
        <4> HIDE DEF Goal
        <4> QED
          BY <2>2, <3>7, <3>8, <3>9, <3>10, <3>11, <3>12, UploadStages
      <3> HIDE DEF Given, Made
      <3> QED
        BY <3>3, <3>13, <3>14, <3>15
    <2> QED
      BY <2>1, <2>2
  <1> HIDE DEF Fine, Made, Given
  <1>5. \A q \in Uploads' : Fine(q)'
    BY <1>3, <1>4 DEF Uploads
  <1> QED
    BY <1>5 DEF Fine, Made, Given, AloneInv

-----------------------------------------------------------------------------
(* What is taken away stays away.                                           *)

\* Calls that came later, or were in flight together with r, stay so.
LEMMA LaterKept ==
  ASSUME Before, BeforeInv, NEW s \in Requests, Acts(s), NEW r \in Requests, pc[r] # "idle"
  PROVE  /\ Later(r) \subseteq Later(r)' /\ Beside(r) \subseteq Beside(r)'
         /\ call'[r] = call[r] =>
              /\ Saved(r) \subseteq Saved(r)'
              /\ \A g : Regranted(r, g) => Regranted(r, g)'
              /\ Reactivated(r) => Reactivated(r)'
  <1>1. /\ asked \subseteq asked' /\ before \subseteq before'
        /\ \A pair \in before' \ before : pc[s] = "idle" /\ pair[2] = s
    BY Frame DEF Before
  <1>2. Later(r) \subseteq Later(r)'
    <2>1. \A q : <<q, r>> \in before' => <<q, r>> \in before
      BY <1>1
    <2> QED
      BY <1>1, <2>1 DEF Later
  <1>3. Beside(r) \subseteq Beside(r)'
    <2> SUFFICES ASSUME NEW a \in Beside(r) PROVE a \in Beside(r)'
      OBVIOUS
    <2>1. a \in Later(r)' /\ <<r, a.by>> \notin before /\ pc[a.by] # "idle"
      BY <1>2 DEF Beside, Later, Before, CallInv
    <2>2. <<r, a.by>> \notin before'
      BY <1>1, <2>1
    <2> QED
      BY <2>1, <2>2 DEF Beside
  <1>4. ASSUME call'[r] = call[r] PROVE Saved(r) \subseteq Saved(r)'
    BY <1>3, <1>4 DEF Saved
  <1>5. Reseeded(r) => Reseeded(r)'
    BY <1>2 DEF Reseeded
  <1>6. ASSUME call'[r] = call[r], NEW g, Regranted(r, g) PROVE Regranted(r, g)'
    <2>1. Saved(r) \subseteq Saved(r)'
      BY <1>4, <1>6
    <2> QED
      BY <1>2, <1>5, <1>6, <2>1 DEF Regranted
  <1>7. ASSUME call'[r] = call[r], Reactivated(r) PROVE Reactivated(r)'
    <2>1. Saved(r) \subseteq Saved(r)'
      BY <1>4, <1>7
    <2> QED
      BY <1>2, <1>5, <1>7, <2>1 DEF Reactivated
  <1> QED
    BY <1>2, <1>3, <1>4, <1>6, <1>7

\* The call of a request that has not ended came later than any r, and if r did
\* not end before it, was in flight together with r.
LEMMA Company ==
  ASSUME Before, BeforeInv, NEW q \in Requests, NEW r \in Requests, q # r, ~Ended(q),
         call[q] # None
  PROVE  /\ Asked(q) \in Later(r)
         /\ <<r, q>> \notin before => Asked(q) \in Beside(r)
         /\ ~Ended(r) => <<r, q>> \notin before
         /\ Asked(q).op = call[q].op /\ Asked(q).on = call[q].on /\ Asked(q).wanted = call[q].wanted
  <1>1. Asked(q) \in asked
    BY DEF Before, CallInv
  <1>2. /\ Asked(q).by = q /\ Asked(q).op = call[q].op /\ Asked(q).on = call[q].on
        /\ Asked(q).wanted = call[q].wanted
    BY DEF Asked
  <1>3. <<q, r>> \notin before /\ (~Ended(r) => <<r, q>> \notin before)
    <2>1. \A pair \in before : Ended(pair[1])
      BY DEF BeforeInv
    <2>2. <<q, r>>[1] = q /\ <<r, q>>[1] = r
      OBVIOUS
    <2> QED
      BY <2>1, <2>2
  <1> QED
    BY <1>1, <1>2, <1>3 DEF Later, Beside

\* How a request gets an entity to save, and keeps it.
LEMMA HoldingStep ==
  ASSUME Before, NEW s \in Requests, Acts(s), Holding(s)'
  PROVE  \/ Entering(s)
         \/ /\ Holding(s) /\ call'[s] = call[s] /\ pc[s] # "idle"
            /\ entity'[s].flag = entity[s].flag
            /\ call[s].op = "touch" => entity'[s] = entity[s]
  <1> USE DEF Before, TypeOK, AccessTypeOK
  <1>1. CASE Insert(s)
    <2>1. pc[s] = "new" /\ entity' = entity /\ call' = call
      BY <1>1 DEF Insert, locals
    <2> QED
      BY <1>1, <2>1, InsertEffect DEF Holding, StageInv, InFlight, Saving
  <1>2. CASE LookUp(s)
    <2>1. /\ pc[s] = "found" /\ call' = call
          /\ entity' = [entity EXCEPT ![s].grants = call[s].wanted \cap Grantable(call[s].on)]
      BY <1>2 DEF LookUp
    <2>2. Holding(s) /\ call[s].op # "touch"
      BY <2>1 DEF Holding, StageInv, InFlight, Saving
    <2>3. entity[s] \in Row
      BY <2>2 DEF EntityInv
    <2>4. entity'[s] = [entity[s] EXCEPT !.grants = call[s].wanted \cap Grantable(call[s].on)]
      BY <2>1
    <2>5. entity'[s].flag = entity[s].flag
      BY <2>3, <2>4 DEF Row
    <2> QED
      BY <2>1, <2>2, <2>5
  <1>3. CASE Merge(s)
    <2>1. pc[s] = "ready" /\ Saves(s) /\ entity' = entity /\ call' = call
      BY <1>3 DEF Merge
    <2> QED
      BY <2>1 DEF Holding, StageInv, InFlight, Saves, Saving
  <1>4. CASE ~(Insert(s) \/ LookUp(s) \/ Merge(s)) /\ ~Entering(s)
    <2>1. Writes(s) \/ Works(s) \/ Handles(s)
      BY <1>4, ActsEffect
    <2>2. Writes(s) => pc'[s] \in {"saved", "done"}
      BY <1>4 DEF Writes, Save, RemoveRole, WriteActive, CommitSeed, Finish, Goto
    <2>3. Works(s) => \/ pc'[s] \in {"failed", "done"}
                      \/ call[s].op = "delete" /\ call' = call
      BY <1>4 DEF Works, Refuse, MergeDelete, Issue, LogAudit, Fail, Finish, Goto
    <2>4. Handles(s) => pc'[s] \in {"row", "failed", "done"}
      BY DEF Handles, StartUpload, SkipBlank, Abort, RejectRow, RowCreated, RowFailed, Answer,
             NextRow, Report, Goto, Finish
    <2> QED
      BY <2>1, <2>2, <2>3, <2>4 DEF Holding, Saving
  <1> QED
    BY <1>1, <1>2, <1>3, <1>4

\* The steps of a request that takes away: it starts, or goes on with its call.
LEMMA TakingAway ==
  ASSUME Before, UploadInv, NEW r \in Requests, Acts(r), call'[r] # None,
         call'[r].op \in {"assign", "deactivate", "delete"}
  PROVE  \/ pc'[r] \in {"found", "ready", "failed"}
         \/ /\ call' = call
            /\ Merge(r) \/ Save(r) \/ MergeDelete(r) \/ RemoveRole(r) \/ WriteActive(r) \/ LogAudit(r)
  <1> USE DEF Before, TypeOK, AccessTypeOK
  <1>1. CASE Entering(r)
    <2>1. PICK c \in Call, stage \in Stage, e \in Row \cup {None} :
            Legal(r, c, stage, e) /\ call'[r] = c /\ pc'[r] = stage
      BY <1>1, Entry
    <2> QED
      BY <2>1 DEF Legal
  <1>2. CASE Writes(r)
    <2>1. call' = call
      BY <1>2 DEF Writes, Insert, Save, RemoveRole, WriteActive, CommitSeed, Finish, locals
    <2>2. ~Insert(r) /\ ~CommitSeed(r)
      BY <2>1 DEF Insert, CommitSeed, StageInv
    <2> QED
      BY <1>2, <2>1, <2>2 DEF Writes
  <1>3. CASE Works(r)
    <2>1. Refuse(r) \/ LookUp(r) \/ Fail(r) => pc'[r] \in {"ready", "failed"}
      BY DEF Refuse, LookUp, Fail, Goto, Finish
    <2>2. Merge(r) \/ MergeDelete(r) \/ LogAudit(r) \/ Issue(r) => call' = call
      BY DEF Merge, MergeDelete, LogAudit, Issue, Finish
    <2>3. Issue(r) => call'[r].op = "sign"
      BY <2>2 DEF Issue
    <2> QED
      BY <1>3, <2>1, <2>2, <2>3 DEF Works
  <1>4. CASE Handles(r)
    <2>1. CASE StartUpload(r)
      <3>1. call' = call /\ call[r] = None
        BY <2>1 DEF StartUpload, locals, CallInv
      <3> QED
        BY <3>1
    <2>2. CASE ~StartUpload(r)
      <3>1. call' = call /\ r \in Uploads
        <4>1. call' = call
          BY <1>4, <2>2 DEF Handles, SkipBlank, Abort, RejectRow, RowCreated, RowFailed, Answer,
                            Finish, locals
        <4>2. pc[r] = "row" \/ Creating(r)
          BY <1>4, <2>2 DEF Handles, SkipBlank, Abort, RejectRow, RowCreated, RowFailed, Answer,
                            AtRow
        <4> QED
          BY <4>1, <4>2 DEF Creating, StageInv, Uploads
      <3> QED
        BY <3>1 DEF UploadInv
    <2> QED
      BY <2>1, <2>2
  <1> QED
    BY <1>1, <1>2, <1>3, <1>4, ActsEffect

\* Nobody begins after r as long as r has not ended.
LEMMA NoFollowers ==
  ASSUME BeforeInv, NEW r \in Requests, ~Ended(r), before' = before
  PROVE  Followers(r)' = {}
  <1>1. \A q : <<r, q>> \notin before
    <2>1. \A q : <<r, q>>[1] = r
      OBVIOUS
    <2> QED
      BY <2>1 DEF BeforeInv
  <1> QED
    BY <1>1 DEF Followers

\* A grant that another request adds to the row of r is explained.
LEMMA GrantsExplained ==
  ASSUME Before, BeforeInv, AssignInv, NEW s \in Requests, Acts(s), NEW r \in Requests, s # r,
         call[r] # None, call[r].op = "assign", pc[r] \in {"merged", "saved", "done"},
         row'[call[r].on] # None, NEW g \in row'[call[r].on].grants
  PROVE  \/ row[call[r].on] # None /\ g \in row[call[r].on].grants
         \/ Regranted(r, g) \/ g \in call[r].wanted
  <1> DEFINE x == call[r].on
             Goal == \/ row[x] # None /\ g \in row[x].grants
                     \/ Regranted(r, g) \/ g \in call[r].wanted
  <1> USE DEF Before
  <1>0. x \in Ids
    BY DEF CallInv, Sensible, Ids, Keys
  <1>1. ASSUME call[s] # None, ~Ended(s), call[s].on = x, call[s].wanted # None, g \in call[s].wanted
        PROVE  Goal
    BY <1>1, Company DEF Regranted
  <1>2. ASSUME Insert(s) PROVE Goal
    <2>1. /\ call[s].on \in Ids /\ row'[call[s].on] = entity[s]
          /\ call[s].op = "create" /\ pc[s] = "new"
          /\ \A y \in Ids \ {call[s].on} : row'[y] = row[y]
      BY <1>2, InsertEffect
    <2>2. call[s] # None /\ call[s].wanted # None /\ ~Ended(s)
      BY <2>1 DEF CallInv, StageInv, Sensible, InFlight, Ended
    <2>3. entity[s].grants = {} \/ entity[s].grants = call[s].wanted
      BY <2>1 DEF EntityInv, New
    <2>4. CASE call[s].on = x
      BY <1>1, <2>1, <2>2, <2>3, <2>4
    <2>5. CASE call[s].on # x
      BY <1>0, <2>1, <2>5
    <2> QED
      BY <2>4, <2>5
  <1>3. ASSUME Save(s) PROVE Goal
    <2>1. /\ pc[s] = "merged" /\ call[s].op \in Saving /\ diff[s].add \subseteq entity[s].grants
          /\ \A y \in Ids \ {call[s].on} : row'[y] = row[y]
          /\ \/ row'[call[s].on].grants = diff[s].add
             \/ row' = row
             \/ row[call[s].on] # None /\ row'[call[s].on] = Rewritten(s)
      BY <1>3, SaveEffect
    <2>2. call[s] # None /\ ~Ended(s) /\ Holding(s)
      BY <2>1 DEF StageInv, InFlight, Ended, Holding
    <2>3. CASE call[s].on # x
      BY <1>0, <2>1, <2>3
    <2>4. CASE call[s].on = x
      <3>1. Rewritten(s).grants \subseteq row[x].grants \cup diff[s].add
        BY <2>4 DEF Rewritten
      <3>2. Goal \/ g \in entity[s].grants
        BY <2>1, <2>4, <3>1
      <3>3. CASE g \in entity[s].grants /\ call[s].op \in {"assign", "create"}
        <4>1. g \in call[s].wanted /\ call[s].wanted # None
          BY <2>1, <2>2, <3>3 DEF EntityInv, CallInv, Sensible
        <4> QED
          BY <1>1, <2>2, <2>4, <4>1
      <3>4. CASE g \in entity[s].grants /\ call[s].op = "touch"
        <4>1. CASE <<r, s>> \in before
          <5>1. pc[r] = "done"
            <6>1. Ended(r)
              BY <2>2, <4>1, Company
            <6> QED
              BY <6>1 DEF Ended
          <5>2. s \in Followers(r)
            BY <2>2, <2>4, <4>1 DEF Followers
          <5>3. g \in Roles \cup Permissions
            BY <2>2, <3>4 DEF EntityInv, Row
          <5> QED
            BY <3>4, <5>1, <5>2, <5>3 DEF AssignInv
        <4>2. CASE <<r, s>> \notin before
          <5>1. Asked(s) \in Saved(r) /\ Asked(s).op = "touch"
            BY <2>2, <2>4, <3>4, <4>2, Company DEF Saved, Saving
          <5> QED
            BY <5>1 DEF Regranted
        <4> QED
          BY <4>1, <4>2
      <3> QED
        BY <2>1, <3>2, <3>3, <3>4 DEF Saving
    <2> QED
      BY <2>3, <2>4
  <1>4. ASSUME RemoveRole(s) PROVE Goal
    BY <1>0, <1>4, RemoveEffect DEF Accounts
  <1>5. ASSUME WriteActive(s) PROVE Goal
    BY <1>0, <1>5, ActiveEffect DEF Accounts
  <1>6. ASSUME CommitSeed(s) PROVE Goal
    <2>1. pc[s] = "ready" /\ call[s].op = "seed"
      BY <1>6 DEF CommitSeed
    <2>2. Asked(s) \in Later(r) /\ Asked(s).op = "seed"
      BY <2>1, Company DEF StageInv, InFlight, Ended
    <2> QED
      BY <2>2 DEF Regranted, Reseeded
  <1>7. row' = row \/ Writes(s)
    BY Frame
  <1> QED
    BY <1>2, <1>3, <1>4, <1>5, <1>6, <1>7 DEF Writes

\* Who may write after r has ended, with what it has read.
LEMMA FollowersStep ==
  ASSUME Before, NEW s \in Requests, Acts(s), NEW r \in Requests, s # r, call[r] # None,
         NEW q \in Followers(r)'
  PROVE  /\ call'[q].on = call[r].on
         /\ \/ q # s /\ q \in Followers(r) /\ entity'[q] = entity[q] /\ call'[q] = call[q]
            \/ q = s /\ Entering(s)
            \/ /\ q = s /\ q \in Followers(r) /\ call'[s] = call[s]
               /\ entity'[s].flag = entity[s].flag
               /\ call[s].op = "touch" => entity'[s] = entity[s]
  <1>1. /\ OthersStay(s)
        /\ \A pair \in before' \ before : pc[s] = "idle" /\ pair[2] = s
    BY Frame DEF Before
  <1>2. call'[r] = call[r]
    BY <1>1 DEF OthersStay
  <1>3. q \in Requests /\ <<r, q>> \in before' /\ Holding(q)' /\ call'[q].on = call[r].on
    BY <1>2 DEF Followers
  <1>4. CASE q # s
    <2>1. /\ pc'[q] = pc[q] /\ call'[q] = call[q] /\ entity'[q] = entity[q]
      BY <1>1, <1>3, <1>4 DEF OthersStay
    <2>2. <<r, q>> \in before
      BY <1>1, <1>3, <1>4
    <2> QED
      BY <1>3, <1>4, <2>1, <2>2 DEF Followers, Holding
  <1>5. CASE q = s /\ ~Entering(s)
    <2>1. /\ Holding(s) /\ call'[s] = call[s] /\ pc[s] # "idle"
          /\ entity'[s].flag = entity[s].flag
          /\ call[s].op = "touch" => entity'[s] = entity[s]
      BY <1>3, <1>5, HoldingStep
    <2>2. <<r, s>> \in before
      BY <1>1, <1>3, <1>5, <2>1
    <2> QED
      BY <1>3, <1>5, <2>1, <2>2 DEF Followers
  <1> QED
    BY <1>3, <1>4, <1>5

LEMMA AssignKept ==
  ASSUME Before, BeforeInv, UploadInv, AssignInv, NEW s \in Requests, Acts(s)
  PROVE  AssignInv'
  <1> DEFINE Fine(r) ==
        /\ pc[r] = "merged" /\ ~diff[r].insert /\ row[call[r].on] # None =>
             \A g \in Excess(r) : g \in diff[r].drop \/ Regranted(r, g)
        /\ pc[r] \in {"saved", "done"} /\ row[call[r].on] # None =>
             \A g \in Excess(r) : Regranted(r, g)
        /\ pc[r] = "done" =>
             \A q \in Followers(r), g \in Roles \cup Permissions :
               call[q].op = "touch" /\ g \in entity[q].grants \ call[r].wanted => Regranted(r, g)
  <1>1. \A r \in Requests : call[r] # None /\ call[r].op = "assign" => Fine(r)
    BY DEF AssignInv
  <1>2. ASSUME NEW r \in Requests \ {s}, call'[r] # None, call'[r].op = "assign"
        PROVE  Fine(r)'
    <2>1. pc'[r] = pc[r] /\ call'[r] = call[r] /\ diff'[r] = diff[r]
      BY Frame DEF OthersStay, Before
    <2>2. Fine(r)
      BY <1>1, <1>2, <2>1
    <2>3. call[r] # None /\ call[r].op = "assign" /\ pc[r] # "idle"
      BY <1>2, <2>1 DEF Before, CallInv
    <2>4. \A g : Regranted(r, g) => Regranted(r, g)'
      BY <2>1, <2>3, LaterKept
    <2>5. ASSUME pc[r] \in {"merged", "saved", "done"}, row'[call[r].on] # None,
                 NEW g \in Excess(r)'
          PROVE  (row[call[r].on] # None /\ g \in Excess(r)) \/ Regranted(r, g)'
      <3>1. g \in row'[call[r].on].grants /\ g \notin call[r].wanted
        BY <2>1, <2>5 DEF Excess
      <3> QED
        BY <2>3, <2>4, <2>5, <3>1, GrantsExplained DEF Excess
    <2>6. ASSUME pc[r] = "done", NEW q \in Followers(r)', NEW g \in Roles \cup Permissions,
                 call'[q].op = "touch", g \in entity'[q].grants \ call[r].wanted
          PROVE  Regranted(r, g)'
      <3>1. call'[q].on = call[r].on
        BY <2>3, <2>6, FollowersStep
      <3>2. CASE q \in Followers(r) /\ entity'[q] = entity[q] /\ call'[q] = call[q]
        BY <2>2, <2>4, <2>6, <3>2
      <3>3. CASE q = s /\ Entering(s)
        <4>1. PICK c \in Call, stage \in Stage, e \in Row \cup {None} :
                Legal(s, c, stage, e) /\ call'[s] = c /\ entity'[s] = e
          BY <3>3, Entry DEF Before
        <4>2. entity'[q] = row[call[r].on] /\ row[call[r].on] # None
          BY <2>6, <3>1, <3>3, <4>1 DEF Legal, Editable
        <4>3. g \in Excess(r)
          BY <2>6, <4>2 DEF Excess
        <4> QED
          BY <2>2, <2>4, <2>6, <4>2, <4>3
      <3>4. \/ q \in Followers(r) /\ entity'[q] = entity[q] /\ call'[q] = call[q]
            \/ q = s /\ Entering(s)
        BY <2>3, <2>6, FollowersStep
      <3> QED
        BY <3>2, <3>3, <3>4
    <2> QED
      BY <2>1, <2>2, <2>4, <2>5, <2>6
  <1>3. ASSUME call'[s] # None, call'[s].op = "assign"
        PROVE  Fine(s)'
    <2>1. CASE pc'[s] \in {"found", "ready", "failed"}
      BY <2>1
    <2>2. ASSUME call' = call, Merge(s) PROVE Fine(s)'
      <3>1. /\ pc[s] = "ready" /\ pc'[s] = "merged" /\ row' = row
            /\ row[call[s].on] # None =>
                 diff'[s] = [insert |-> FALSE, flag |-> entity[s].flag # row[call[s].on].flag,
                             add |-> entity[s].grants \ row[call[s].on].grants,
                             drop |-> row[call[s].on].grants \ entity[s].grants]
        BY <2>2 DEF Merge, Goto, Before, TypeOK, AccessTypeOK
      <3>2. entity[s].grants \subseteq call[s].wanted
        BY <1>3, <2>2, <3>1 DEF Before, EntityInv
      <3>3. row[call[s].on] # None => Excess(s)' \subseteq diff'[s].drop
        BY <2>2, <3>1, <3>2 DEF Excess
      <3> QED
        BY <2>2, <3>1, <3>3
    <2>3. ASSUME call' = call, Save(s) PROVE Fine(s)'
      <3> DEFINE x == call[s].on
      <3>1. /\ pc[s] = "merged" /\ diff[s].add \subseteq entity[s].grants
            /\ \/ row'[x].grants = diff[s].add
               \/ row'[x] = None
               \/ ~diff[s].insert /\ row[x] # None /\ row'[x] = Rewritten(s)
        BY <2>3, SaveEffect
      <3>2. pc'[s] = "saved"
        BY <2>3 DEF Save, Goto, Before, TypeOK, AccessTypeOK
      <3>3. entity[s].grants \subseteq call[s].wanted
        BY <1>3, <2>3, <3>1 DEF Before, EntityInv
      <3>4. \A g : Regranted(s, g) => Regranted(s, g)'
        BY <2>3, <3>1, LaterKept
      <3>5. ASSUME row'[x] # None, NEW g \in Excess(s)' PROVE Regranted(s, g)'
        <4>1. g \in row'[x].grants /\ g \notin call[s].wanted
          BY <2>3, <3>5 DEF Excess
        <4>2. /\ ~diff[s].insert /\ row[x] # None
              /\ g \in (row[x].grants \cup diff[s].add) \ diff[s].drop
          BY <3>1, <3>3, <3>5, <4>1 DEF Rewritten
        <4>3. g \in Excess(s)
          BY <3>1, <3>3, <4>1, <4>2 DEF Excess
        <4>4. Fine(s)
          BY <1>1, <1>3, <2>3
        <4> QED
          BY <3>1, <3>4, <4>2, <4>3, <4>4
      <3> QED
        BY <2>3, <3>2, <3>5
    <2>4. ASSUME call' = call, LogAudit(s) PROVE Fine(s)'
      <3>1. pc[s] = "saved" /\ pc'[s] = "done" /\ row' = row /\ before' = before
        BY <2>4 DEF LogAudit, Finish, Goto, Unchanged, histories, Before, TypeOK, AccessTypeOK
      <3>2. Fine(s)
        BY <1>1, <1>3, <2>4
      <3>3. \A g : Regranted(s, g) => Regranted(s, g)'
        BY <2>4, <3>1, LaterKept
      <3>4. Excess(s)' = Excess(s)
        BY <2>4, <3>1 DEF Excess
      <3>5. Followers(s)' = {}
        BY <3>1, NoFollowers DEF Ended
      <3> QED
        BY <2>4, <3>1, <3>2, <3>3, <3>4, <3>5
    <2>5. call' = call => ~MergeDelete(s) /\ ~RemoveRole(s) /\ ~WriteActive(s)
      BY <1>3 DEF MergeDelete, RemoveRole, WriteActive
    <2> HIDE DEF Fine
    <2> QED
      BY <1>3, <2>1, <2>2, <2>3, <2>4, <2>5, TakingAway
  <1> HIDE DEF Fine
  <1>4. \A r \in Requests : call'[r] # None /\ call'[r].op = "assign" => Fine(r)'
    BY <1>2, <1>3
  <1> QED
    BY <1>4 DEF AssignInv, Fine

\* Another request that makes the account of r active is explained.
LEMMA FlagExplained ==
  ASSUME Before, BeforeInv, DeactivateInv, NEW s \in Requests, Acts(s), NEW r \in Requests, s # r,
         call[r] # None, call[r].op = "deactivate", pc[r] \in {"saved", "done"},
         row'[call[r].on].flag
  PROVE  row[call[r].on].flag \/ Reactivated(r)
  <1> DEFINE x == call[r].on
             Goal == row[x].flag \/ Reactivated(r)
  <1> USE DEF Before
  <1>1. x \in Ids /\ x \in Emails /\ row[x] # None /\ x \notin Roles
    BY KeysAssumption DEF CallInv, Sensible, RowsInv, Ids, Keys
  <1>2. ASSUME Insert(s) PROVE Goal
    BY <1>1, <1>2, InsertEffect
  <1>3. ASSUME Save(s) PROVE Goal
    <2>1. /\ pc[s] = "merged" /\ call[s].op \in Saving
          /\ \A y \in Ids \ {call[s].on} : row'[y] = row[y]
          /\ row[call[s].on] # None => row' = row \/ row'[call[s].on] = Rewritten(s)
      BY <1>3, SaveEffect
    <2>2. call[s] # None /\ ~Ended(s) /\ Holding(s)
      BY <2>1 DEF StageInv, InFlight, Ended, Holding
    <2>3. CASE call[s].on # x
      BY <1>1, <2>1, <2>3
    <2>4. CASE call[s].on = x
      <3>1. Rewritten(s).flag = (IF diff[s].flag THEN entity[s].flag ELSE row[x].flag)
        BY <2>4 DEF Rewritten
      <3>2. Goal \/ entity[s].flag
        BY <1>1, <2>1, <2>4, <3>1
      <3>3. CASE entity[s].flag /\ <<r, s>> \in before
        <4>1. pc[r] = "done"
          <5>1. Ended(r)
            BY <2>2, <3>3, Company
          <5> QED
            BY <5>1 DEF Ended
        <4>2. s \in Followers(r)
          BY <2>2, <2>4, <3>3 DEF Followers
        <4> QED
          BY <3>3, <4>1, <4>2 DEF DeactivateInv
      <3>4. CASE <<r, s>> \notin before
        <4>1. Asked(s) \in Saved(r)
          BY <2>1, <2>2, <2>4, <3>4, Company DEF Saved
        <4> QED
          BY <4>1 DEF Reactivated
      <3> QED
        BY <3>2, <3>3, <3>4
    <2> QED
      BY <2>3, <2>4
  <1>4. ASSUME RemoveRole(s) PROVE Goal
    BY <1>1, <1>4, RemoveEffect
  <1>5. ASSUME WriteActive(s) PROVE Goal
    <2>1. /\ pc[s] = "ready" /\ row'[call[s].on].flag = (call[s].op = "activate")
          /\ \A y \in Ids \ {call[s].on} : row'[y] = row[y]
      BY <1>5, ActiveEffect
    <2>2. CASE call[s].on = x
      <3>1. call[s].op = "activate"
        BY <2>1, <2>2
      <3>2. Asked(s) \in Later(r) /\ Asked(s).op = "activate" /\ Asked(s).on = x
        BY <2>1, <2>2, <3>1, Company DEF StageInv, InFlight, Ended
      <3> QED
        BY <3>2 DEF Reactivated
    <2>3. CASE call[s].on # x
      BY <1>1, <2>1, <2>3
    <2> QED
      BY <2>2, <2>3
  <1>6. ASSUME CommitSeed(s) PROVE Goal
    <2>1. pc[s] = "ready" /\ call[s].op = "seed"
      BY <1>6 DEF CommitSeed
    <2>2. Asked(s) \in Later(r) /\ Asked(s).op = "seed"
      BY <2>1, Company DEF StageInv, InFlight, Ended
    <2> QED
      BY <2>2 DEF Reactivated, Reseeded
  <1>7. row' = row \/ Writes(s)
    BY Frame
  <1> QED
    BY <1>2, <1>3, <1>4, <1>5, <1>6, <1>7 DEF Writes

LEMMA DeactivateKept ==
  ASSUME Before, BeforeInv, UploadInv, DeactivateInv, NEW s \in Requests, Acts(s)
  PROVE  DeactivateInv'
  <1> DEFINE Fine(r) ==
        /\ pc[r] \in {"saved", "done"} /\ row[call[r].on].flag => Reactivated(r)
        /\ pc[r] = "done" => \A q \in Followers(r) : entity[q].flag => Reactivated(r)
  <1>1. \A r \in Requests : call[r] # None /\ call[r].op = "deactivate" => Fine(r)
    BY DEF DeactivateInv
  <1>2. ASSUME NEW r \in Requests \ {s}, call'[r] # None, call'[r].op = "deactivate"
        PROVE  Fine(r)'
    <2>1. pc'[r] = pc[r] /\ call'[r] = call[r]
      BY Frame DEF OthersStay, Before
    <2>2. Fine(r)
      BY <1>1, <1>2, <2>1
    <2>3. call[r] # None /\ call[r].op = "deactivate" /\ pc[r] # "idle"
      BY <1>2, <2>1 DEF Before, CallInv
    <2>4. Reactivated(r) => Reactivated(r)'
      BY <2>1, <2>3, LaterKept
    <2>5. ASSUME pc[r] \in {"saved", "done"}, row'[call[r].on].flag
          PROVE  Reactivated(r)'
      <3>1. row[call[r].on].flag \/ Reactivated(r)
        BY <2>3, <2>5, FlagExplained
      <3> QED
        BY <2>2, <2>4, <2>5, <3>1
    <2>6. ASSUME pc[r] = "done", NEW q \in Followers(r)', entity'[q].flag
          PROVE  Reactivated(r)'
      <3>1. call'[q].on = call[r].on
        BY <2>3, <2>6, FollowersStep
      <3>2. CASE q \in Followers(r) /\ entity'[q].flag = entity[q].flag
        BY <2>2, <2>4, <2>6, <3>2
      <3>3. CASE q = s /\ Entering(s)
        <4>1. PICK c \in Call, stage \in Stage, e \in Row \cup {None} :
                Legal(s, c, stage, e) /\ call'[s] = c /\ entity'[s] = e
          BY <3>3, Entry DEF Before
        <4>2. call[r].on \in Emails /\ row[call[r].on] # None /\ s # call[r].on
          BY <2>3, KeysAssumption DEF Before, CallInv, Sensible, RowsInv, Keys, Roles
        <4>3. c.op \in Saving
          BY <2>6, <3>3, <4>1 DEF Followers, Holding
        <4>4. entity'[q] = row[call[r].on]
          BY <3>1, <3>3, <4>1, <4>2, <4>3 DEF Legal, Free, Saving
        <4> QED
          BY <2>2, <2>4, <2>6, <4>4
      <3>4. \/ q # s /\ q \in Followers(r) /\ entity'[q] = entity[q]
            \/ q = s /\ Entering(s)
            \/ q = s /\ q \in Followers(r) /\ entity'[s].flag = entity[s].flag
        BY <2>3, <2>6, FollowersStep
      <3>5. (q \in Followers(r) /\ entity'[q].flag = entity[q].flag) \/ (q = s /\ Entering(s))
        BY <3>4
      <3> QED
        BY <3>2, <3>3, <3>5
    <2> QED
      BY <2>1, <2>2, <2>4, <2>5, <2>6
  <1>3. ASSUME call'[s] # None, call'[s].op = "deactivate"
        PROVE  Fine(s)'
    <2>1. CASE pc'[s] \in {"found", "ready", "failed"}
      BY <2>1
    <2>2. ASSUME call' = call, WriteActive(s) PROVE Fine(s)'
      <3>1. pc'[s] = "saved" /\ row'[call[s].on].flag = FALSE
        BY <1>3, <2>2, ActiveEffect DEF WriteActive, Goto, Before, TypeOK, AccessTypeOK
      <3> QED
        BY <2>2, <3>1
    <2>3. ASSUME call' = call, LogAudit(s) PROVE Fine(s)'
      <3>1. pc[s] = "saved" /\ pc'[s] = "done" /\ row' = row /\ before' = before
        BY <2>3 DEF LogAudit, Finish, Goto, Unchanged, histories, Before, TypeOK, AccessTypeOK
      <3>2. Fine(s)
        BY <1>1, <1>3, <2>3
      <3>3. Reactivated(s) => Reactivated(s)'
        BY <2>3, <3>1, LaterKept
      <3>4. Followers(s)' = {}
        BY <3>1, NoFollowers DEF Ended
      <3> QED
        BY <2>3, <3>1, <3>2, <3>3, <3>4
    <2>4. call' = call =>
            ~Merge(s) /\ ~Save(s) /\ ~MergeDelete(s) /\ ~RemoveRole(s)
      BY <1>3 DEF Merge, Save, Saves, MergeDelete, RemoveRole
    <2> HIDE DEF Fine
    <2> QED
      BY <1>3, <2>1, <2>2, <2>3, <2>4, TakingAway
  <1> HIDE DEF Fine
  <1>4. \A r \in Requests : call'[r] # None /\ call'[r].op = "deactivate" => Fine(r)'
    BY <1>2, <1>3
  <1> QED
    BY <1>4 DEF DeactivateInv, Fine

LEMMA DeleteKept ==
  ASSUME Before, BeforeInv, UploadInv, DeleteInv, NEW s \in Requests, Acts(s)
  PROVE  DeleteInv'
  <1> DEFINE Gone(r) == /\ row[call[r].on] = None
                        /\ \A q \in Requests : Holding(q) => call[q].on # call[r].on
  <1>1. \A r \in Requests :
          call[r] # None /\ call[r].op = "delete" /\ pc[r] \in {"saved", "done"} =>
            Saved(r) # {} \/ Gone(r)
    BY DEF DeleteInv
  <1>2. \A q \in Requests \ {s} : call'[q] = call[q] /\ pc'[q] = pc[q] /\ (Holding(q)' <=> Holding(q))
    BY Frame DEF OthersStay, Before, Holding
  <1>3. ASSUME NEW r \in Requests \ {s}, call'[r] # None, call'[r].op = "delete",
               pc'[r] \in {"saved", "done"}, Gone(r)
        PROVE  Gone(r)'
    <2> DEFINE x == call[r].on
    <2>1. call'[r] = call[r] /\ call[r] # None /\ call[r].op = "delete"
      BY <1>2, <1>3
    <2>2. x \in Roles \ SystemRoles /\ x \in Ids /\ x \notin Keys /\ x \notin Emails /\ x \notin Seeded
      BY <2>1, KeysAssumption DEF Before, CallInv, Sensible, Ids, Keys
    <2>3. row[x] = None /\ \A q \in Requests : Holding(q) => call[q].on # x
      BY <1>3
    <2>4. row'[x] = None
      <3>1. ASSUME Insert(s) \/ Save(s) PROVE row'[x] = None
        <4>1. \A y \in Ids \ {call[s].on} : row'[y] = row[y]
          BY <3>1, InsertEffect, SaveEffect
        <4>2. Holding(s)
          BY <3>1, InsertEffect, SaveEffect DEF Holding, Saving, Before, StageInv, InFlight
        <4> QED
          BY <2>2, <2>3, <4>1, <4>2
      <3>2. ASSUME RemoveRole(s) PROVE row'[x] = None
        BY <2>2, <2>3, <3>2, RemoveEffect DEF Accounts
      <3>3. ASSUME WriteActive(s) PROVE row'[x] = None
        BY <2>2, <2>3, <3>3, ActiveEffect DEF Accounts
      <3>4. ASSUME CommitSeed(s) PROVE row'[x] = None
        BY <2>2, <2>3, <3>4, SeedEffect
      <3>5. row' = row \/ Writes(s)
        BY Frame DEF Before
      <3> QED
        BY <2>3, <3>1, <3>2, <3>3, <3>4, <3>5 DEF Writes
    <2>5. ASSUME Holding(s)', call'[s].on = x PROVE FALSE
      <3>1. CASE Entering(s)
        <4>1. PICK c \in Call, stage \in Stage, e \in Row \cup {None} :
                Legal(s, c, stage, e) /\ call'[s] = c
          BY <3>1, Entry DEF Before
        <4>2. c.op \in Saving /\ c.on = x
          BY <2>5, <4>1 DEF Holding
        <4>3. x = s /\ pc[s] = "idle"
          BY <2>2, <2>3, <4>1, <4>2 DEF Legal, Saving, Editable, Free
        <4>4. pc[s] # "idle"
          BY <2>1, <4>3 DEF Before, RowsInv
        <4> QED
          BY <4>3, <4>4
      <3>2. CASE Holding(s) /\ call'[s] = call[s]
        BY <2>3, <2>5, <3>2
      <3> QED
        BY <2>5, <3>1, <3>2, HoldingStep
    <2>6. \A q \in Requests : Holding(q)' => call'[q].on # x
      BY <1>2, <2>3, <2>5
    <2> QED
      BY <2>1, <2>4, <2>6
  <1>4. ASSUME call'[s] # None, call'[s].op = "delete", pc'[s] \in {"saved", "done"}
        PROVE  Saved(s)' # {} \/ Gone(s)'
    <2>1. call' = call /\ (RemoveRole(s) \/ LogAudit(s))
      <3>1. /\ call' = call
            /\ Merge(s) \/ Save(s) \/ MergeDelete(s) \/ RemoveRole(s) \/ WriteActive(s) \/ LogAudit(s)
        BY <1>4, TakingAway
      <3>2. ~Merge(s) /\ ~Save(s) /\ ~WriteActive(s)
        BY <1>4, <3>1 DEF Merge, Save, Saves, WriteActive
      <3>3. ~MergeDelete(s)
        BY <1>4 DEF MergeDelete, Goto, Before, TypeOK, AccessTypeOK
      <3> QED
        BY <3>1, <3>2, <3>3
    <2>2. call[s] # None /\ call[s].op = "delete" /\ pc[s] \in {"merged", "saved"} /\ before' = before
      BY <1>4, <2>1 DEF RemoveRole, LogAudit, Unchanged, histories
    <2>3. Saved(s) # {} => Saved(s)' # {}
      BY <2>1, <2>2, LaterKept
    <2>4. ~Holding(s)'
      BY <1>4 DEF Holding, Saving
    <2>5. CASE RemoveRole(s)
      <3>1. row'[call[s].on] = None
        BY <2>5, RemoveEffect
      <3>2. ASSUME NEW q \in Requests, Holding(q)', call[q].on = call[s].on PROVE Saved(s) # {}
        <4>1. q # s /\ Holding(q)
          BY <1>2, <2>4, <3>2
        <4>2. call[q] # None /\ ~Ended(q) /\ call[q].op \in Saving
          BY <4>1 DEF Holding, Ended
        <4>3. Asked(q) \in Saved(s)
          BY <2>2, <3>2, <4>1, <4>2, Company DEF Saved, Ended
        <4> QED
          BY <4>3
      <3> QED
        BY <2>1, <2>3, <3>1, <3>2
    <2>6. CASE LogAudit(s)
      <3>1. row' = row /\ pc[s] = "saved"
        BY <2>6 DEF LogAudit
      <3>2. Saved(s) # {} \/ Gone(s)
        BY <1>1, <2>2, <3>1
      <3>3. Gone(s) => Gone(s)'
        BY <1>2, <2>1, <2>4, <3>1
      <3> HIDE DEF Gone
      <3> QED
        BY <2>3, <3>2, <3>3
    <2> QED
      BY <2>1, <2>5, <2>6
  <1>5. ASSUME NEW r \in Requests \ {s}, call'[r] # None, call'[r].op = "delete",
               pc'[r] \in {"saved", "done"}
        PROVE  Saved(r)' # {} \/ Gone(r)'
    <2>1. Saved(r) # {} \/ Gone(r)
      BY <1>1, <1>2, <1>5
    <2>2. Saved(r) # {} => Saved(r)' # {}
      <3>1. call'[r] = call[r] /\ pc[r] # "idle"
        BY <1>2, <1>5
      <3> QED
        BY <3>1, LaterKept
    <2> HIDE DEF Gone
    <2> QED
      BY <1>3, <1>5, <2>1, <2>2
  <1> HIDE DEF Gone
  <1>6. \A r \in Requests :
          call'[r] # None /\ call'[r].op = "delete" /\ pc'[r] \in {"saved", "done"} =>
            Saved(r)' # {} \/ Gone(r)'
    BY <1>4, <1>5
  <1> QED
    BY <1>6 DEF DeleteInv, Gone

-----------------------------------------------------------------------------
(* The invariant.                                                           *)

ImportInv ==
  /\ TypeOK /\ CallInv /\ StageInv /\ EntityInv /\ RowsInv /\ BeforeInv
  /\ LostInv /\ TokenInv
  /\ UploadInv /\ CreatorInv /\ AloneInv
  /\ AssignInv /\ DeactivateInv /\ DeleteInv

LEMMA InitRows ==
  ASSUME AccessInit
  PROVE  /\ row \in [Ids -> Row \cup {None}]
         /\ \A e \in Accounts : row[e].grants \subseteq Present
         /\ \A x \in Present : row[x].grants \subseteq Permissions
         /\ \A x \in SystemRoles : row[x] # None /\ row[x].flag
         /\ \A q \in Requests : row[q] = None
  <1>1. row = [x \in Ids |->
                 CASE x \in Seeded -> [flag |-> TRUE, grants |-> CustomRoles]
                   [] x \in SystemRoles -> [flag |-> TRUE, grants |-> Permissions]
                   [] x \in CustomRoles -> [flag |-> FALSE, grants |-> Permissions]
                   [] OTHER -> None]
    BY DEF AccessInit
  <1>2. /\ Seeded \subseteq Ids /\ Emails \subseteq Ids /\ Roles \subseteq Ids
        /\ SystemRoles \subseteq Roles /\ CustomRoles \subseteq Roles /\ Requests \subseteq Roles
        /\ Seeded \cap Roles = {} /\ Seeded \subseteq Emails /\ Emails \cap Roles = {}
    BY KeysAssumption DEF Ids, Keys, Roles
  <1>3. SystemRoles \cap CustomRoles = {} /\ (SystemRoles \cup CustomRoles) \cap Requests = {}
    BY KeysAssumption
  <1>4. \A x \in Seeded : row[x] = [flag |-> TRUE, grants |-> CustomRoles]
    BY <1>1, <1>2
  <1>5. \A x \in SystemRoles : row[x] = [flag |-> TRUE, grants |-> Permissions]
    BY <1>1, <1>2, <1>3
  <1>6. \A x \in CustomRoles : row[x] = [flag |-> FALSE, grants |-> Permissions]
    BY <1>1, <1>2, <1>3
  <1>7. \A x \in Ids : x \notin Seeded \cup SystemRoles \cup CustomRoles => row[x] = None
    BY <1>1
  <1>8. /\ [flag |-> TRUE, grants |-> CustomRoles] \in Row
        /\ [flag |-> TRUE, grants |-> Permissions] \in Row
        /\ [flag |-> FALSE, grants |-> Permissions] \in Row
    BY <1>2 DEF Row
  <1>9. \A u \in Row : u # None
    BY NoneAssumption
  <1>10. \A x \in Ids : row[x] \in Row \cup {None}
    BY <1>4, <1>5, <1>6, <1>7, <1>8
  <1>11. row \in [Ids -> Row \cup {None}]
    BY <1>1, <1>10
  <1>12. CustomRoles \subseteq Present
    BY <1>2, <1>6, <1>8, <1>9 DEF Present
  <1>13. \A e \in Accounts : row[e].grants \subseteq Present
    BY <1>2, <1>4, <1>7, <1>12 DEF Accounts
  <1>14. \A x \in Present : row[x].grants \subseteq Permissions
    BY <1>2, <1>5, <1>6, <1>7 DEF Present
  <1>15. \A q \in Requests : row[q] = None
    BY <1>2, <1>3, <1>7
  <1>16. \A x \in SystemRoles : row[x] # None /\ row[x].flag
    BY <1>5, <1>8, <1>9
  <1> QED
    BY <1>11, <1>13, <1>14, <1>15, <1>16

LEMMA InitImport ==
  ASSUME Init
  PROVE  ImportInv
  <1>1. AccessInit /\ file = [r \in Requests |-> None] /\ at = [r \in Requests |-> 0]
        /\ created = [r \in Requests |-> {}] /\ errors = [r \in Requests |-> {}]
        /\ creator = [x \in Ids |-> None]
    BY DEF Init
  <1>2. /\ pc = [r \in Requests |-> "idle"] /\ call = [r \in Requests |-> None]
        /\ entity = [r \in Requests |-> None] /\ diff = [r \in Requests |-> NoDiff]
        /\ token = [r \in Requests |-> None] /\ clock = 0 /\ asked = {} /\ before = {}
        /\ lost = [h \in Seeded \X Permissions |-> IF Holds(h[1], h[2]) THEN None ELSE 0]
    BY <1>1 DEF AccessInit
  <1>3. 0 \in 0..MaxTime /\ 0 # None
    BY NoneAssumption, TimeAssumption
  <1>4. AccessTypeOK
    <2>1. /\ row \in [Ids -> Row \cup {None}]
          /\ \A e \in Accounts : row[e].grants \subseteq Present
          /\ \A x \in Present : row[x].grants \subseteq Permissions
      BY <1>1, InitRows
    <2>2. NoDiff \in [insert : BOOLEAN, flag : BOOLEAN, add : SUBSET (Roles \cup Permissions),
                      drop : SUBSET (Ids \cup Permissions)]
      BY DEF NoDiff
    <2>3. lost \in [Seeded \X Permissions -> 0..MaxTime \cup {None}]
      BY <1>2, <1>3
    <2> QED
      BY <1>2, <1>3, <2>1, <2>2, <2>3 DEF AccessTypeOK, Stage
  <1>5. TypeOK
    <2>1. Cardinality({}) = 0
      BY FS_EmptySet
    <2>2. 0 \in 0..(Cardinality({}) + 1)
      BY <2>1
    <2> QED
      BY <1>1, <1>4, <2>2 DEF TypeOK
  <1>6. CallInv /\ StageInv /\ EntityInv /\ BeforeInv /\ TokenInv
    BY <1>1, <1>2 DEF CallInv, StageInv, EntityInv, BeforeInv, TokenInv, Holding, InFlight
  <1>7. RowsInv
    BY <1>1, <1>2, InitRows DEF RowsInv
  <1>8. LostInv
    BY <1>2, <1>3 DEF LostInv
  <1>9. UploadInv /\ AloneInv
    BY <1>1 DEF UploadInv, AloneInv, Uploads
  <1>10. CreatorInv
    BY <1>1 DEF CreatorInv, Uploads, Keys, Ids
  <1>11. AssignInv /\ DeactivateInv /\ DeleteInv
    BY <1>2 DEF AssignInv, DeactivateInv, DeleteInv
  <1> QED
    BY <1>5, <1>6, <1>7, <1>8, <1>9, <1>10, <1>11 DEF ImportInv

\* What says nothing about the time.
Timeless ==
  /\ CallInv /\ StageInv /\ EntityInv /\ RowsInv /\ BeforeInv
  /\ UploadInv /\ CreatorInv /\ AloneInv
  /\ AssignInv /\ DeactivateInv /\ DeleteInv

LEMMA TimelessStays ==
  ASSUME Timeless, UNCHANGED <<row, pc, locals, token, histories, importVars>>
  PROVE  Timeless'
  <1>1. UNCHANGED <<row, pc, call, entity, diff, token, asked, before,
                    file, at, created, errors, creator>>
    BY DEF locals, histories, importVars
  <1>2. (CallInv /\ StageInv /\ EntityInv /\ RowsInv /\ BeforeInv)'
    <2>1. CallInv'
      BY <1>1 DEF Timeless, CallInv, Asked
    <2>2. StageInv' /\ BeforeInv'
      BY <1>1 DEF Timeless, StageInv, BeforeInv, Ended
    <2>3. EntityInv'
      <3>1. \A r \in Requests : Holding(r)' <=> Holding(r)
        BY <1>1 DEF Holding
      <3> QED
        BY <1>1, <3>1 DEF Timeless, EntityInv, Accounts
    <2>4. RowsInv'
      BY <1>1 DEF Timeless, RowsInv
    <2> QED
      BY <2>1, <2>2, <2>3, <2>4
  <1>3. (UploadInv /\ CreatorInv)'
    BY <1>1 DEF Timeless, UploadInv, CreatorInv, Uploads, Accounted, RolesOf
  <1>4. AloneInv'
    BY <1>1 DEF Timeless, AloneInv, Uploads, Solo, Alone, Present, RolesOf
  <1>5. (AssignInv /\ DeactivateInv /\ DeleteInv)'
    <2>1. \A q \in Requests : Holding(q)' <=> Holding(q)
      BY <1>1 DEF Holding
    <2>2. ASSUME NEW r \in Requests
          PROVE  /\ Later(r)' = Later(r) /\ Beside(r)' = Beside(r) /\ Saved(r)' = Saved(r)
                 /\ Followers(r)' = Followers(r) /\ Excess(r)' = Excess(r)
      <3>1. Later(r)' = Later(r)
        BY <1>1 DEF Later
      <3>2. Beside(r)' = Beside(r)
        BY <1>1, <3>1 DEF Beside
      <3>3. Saved(r)' = Saved(r)
        BY <1>1, <3>2 DEF Saved
      <3>4. Followers(r)' = Followers(r)
        BY <1>1, <2>1 DEF Followers
      <3> QED
        BY <1>1, <3>1, <3>2, <3>3, <3>4 DEF Excess
    <2>3. ASSUME NEW r \in Requests
          PROVE  /\ \A g : Regranted(r, g) => Regranted(r, g)'
                 /\ Reactivated(r) => Reactivated(r)'
      BY <1>1, <2>2 DEF Regranted, Reactivated, Reseeded
    <2>4. AssignInv'
      BY <1>1, <2>2, <2>3 DEF Timeless, AssignInv
    <2>5. DeactivateInv'
      BY <1>1, <2>2, <2>3 DEF Timeless, DeactivateInv
    <2>6. DeleteInv'
      BY <1>1, <2>1, <2>2 DEF Timeless, DeleteInv
    <2> QED
      BY <2>4, <2>5, <2>6
  <1> QED
    BY <1>2, <1>3, <1>4, <1>5 DEF Timeless

LEMMA TickStep ==
  ASSUME ImportInv, Tick, UNCHANGED importVars, Observe
  PROVE  ImportInv'
  <1>1. /\ clock' = clock + 1 /\ clock < MaxTime
        /\ UNCHANGED <<row, pc, locals, token, histories, importVars>>
    BY DEF Tick
  <1>2. Timeless'
    BY <1>1, TimelessStays DEF ImportInv, Timeless
  <1>3. clock \in 0..MaxTime /\ clock \in Nat /\ clock' \in 0..MaxTime
    BY <1>1, TimeAssumption DEF ImportInv, TypeOK, AccessTypeOK
  <1>4. TypeOK'
    <2>1. lost' \in [Seeded \X Permissions -> 0..MaxTime \cup {None}]
      BY <1>3 DEF Observe, ImportInv, TypeOK, AccessTypeOK
    <2>2. UNCHANGED <<row, pc, call, entity, diff, token, asked, before,
                      file, at, created, errors, creator>>
      BY <1>1 DEF locals, histories, importVars
    <2>3. AccessTypeOK'
      BY <1>3, <2>1, <2>2 DEF ImportInv, TypeOK, AccessTypeOK, Accounts, Present
    <2> QED
      BY <2>2, <2>3 DEF ImportInv, TypeOK
  <1>5. LostInv'
    BY <1>1, <1>3, LostStep DEF ImportInv
  <1>6. TokenInv'
    <2>1. SUFFICES ASSUME NEW r \in Requests, token[r] # None
                   PROVE  /\ token[r].user \in Seeded /\ token[r].readAt <= clock'
                          /\ \A p \in token[r].claims :
                               lost'[<<token[r].user, p>>] # None =>
                                 token[r].readAt <= lost'[<<token[r].user, p>>]
      BY <1>1 DEF TokenInv
    <2>2. token[r].readAt \in Nat /\ token[r].claims \subseteq Permissions
      BY <2>1 DEF ImportInv, TypeOK, AccessTypeOK, Token
    <2>3. /\ token[r].user \in Seeded /\ token[r].readAt <= clock
          /\ \A p \in token[r].claims :
               lost[<<token[r].user, p>>] # None => token[r].readAt <= lost[<<token[r].user, p>>]
      BY <2>1 DEF ImportInv, TokenInv
    <2>4. ASSUME NEW p \in token[r].claims, lost'[<<token[r].user, p>>] # None
          PROVE  token[r].readAt <= lost'[<<token[r].user, p>>]
      <3>1. <<token[r].user, p>> \in Seeded \X Permissions
        BY <2>2, <2>3
      <3> QED
        BY <2>2, <2>3, <2>4, <3>1, LostLater DEF ImportInv
    <2> QED
      BY <1>1, <1>3, <2>2, <2>3, <2>4
  <1> QED
    BY <1>2, <1>4, <1>5, <1>6 DEF ImportInv, Timeless

LEMMA StutterStep ==
  ASSUME ImportInv, UNCHANGED vars
  PROVE  ImportInv'
  <1>1. UNCHANGED <<row, pc, locals, token, histories, importVars>> /\ clock' = clock /\ lost' = lost
    BY DEF vars, accessVars
  <1>2. Timeless'
    BY <1>1, TimelessStays DEF ImportInv, Timeless
  <1>3. UNCHANGED <<row, pc, call, entity, diff, token, clock, lost, asked, before,
                    file, at, created, errors, creator>>
    BY <1>1 DEF locals, histories, importVars
  <1>4. TypeOK'
    BY <1>3 DEF ImportInv, TypeOK, AccessTypeOK, Accounts, Present
  <1>5. (LostInv /\ TokenInv)'
    BY <1>3 DEF ImportInv, LostInv, TokenInv, Holds, Accounts, Claims
  <1> QED
    BY <1>2, <1>4, <1>5 DEF ImportInv, Timeless

LEMMA ImportStep ==
  ASSUME ImportInv, [Next]_vars
  PROVE  ImportInv'
  <1>1. CASE \E r \in Requests : Acts(r) /\ Observe
    <2>1. PICK r \in Requests : Acts(r) /\ Observe
      BY <1>1
    <2>2. Before /\ BeforeInv /\ LostInv /\ TokenInv /\ UploadInv /\ CreatorInv /\ AloneInv
          /\ AssignInv /\ DeactivateInv /\ DeleteInv
      BY DEF ImportInv, Before
    <2>3. TypeOK' /\ CallInv' /\ StageInv' /\ EntityInv' /\ RowsInv' /\ BeforeInv'
      BY <2>1, <2>2, TypeStep, CallStep, StageStep, EntityStep, RowsStep, BeforeStep DEF Before
    <2>4. LostInv' /\ TokenInv'
      <3>1. clock' = clock /\ clock \in Nat
        BY <2>1, <2>2, Frame DEF Before, TypeOK, AccessTypeOK
      <3>2. clock' \in Nat /\ clock' >= clock
        BY <3>1
      <3> QED
        BY <2>1, <2>2, <3>2, LostStep, TokenStep DEF Before
    <2>5. UploadInv' /\ CreatorInv' /\ AloneInv'
      BY <2>1, <2>2, UploadKept, CreatorKept, AloneKept
    <2>6. AssignInv' /\ DeactivateInv' /\ DeleteInv'
      BY <2>1, <2>2, AssignKept, DeactivateKept, DeleteKept
    <2> QED
      BY <2>3, <2>4, <2>5, <2>6 DEF ImportInv
  <1>2. CASE Tick /\ UNCHANGED importVars /\ Observe
    BY <1>2, TickStep
  <1>3. CASE UNCHANGED vars
    BY <1>3, StutterStep
  <1> QED
    BY <1>1, <1>2, <1>3, NextEffect

LEMMA ImportInvariant == Spec => []ImportInv
  <1>1. Init => ImportInv
    BY InitImport
  <1>2. ImportInv /\ [Next]_vars => ImportInv'
    BY ImportStep
  <1> QED
    BY <1>1, <1>2, PTL DEF Spec

-----------------------------------------------------------------------------
(* What follows.                                                            *)

\* Requests, rows, tokens, uploads and histories stay what they are declared to
\* be, whoever interleaves with whom.
THEOREM TypeCorrect == Spec => []TypeOK
  <1>1. ImportInv => TypeOK
    BY DEF ImportInv
  <1> QED
    BY <1>1, ImportInvariant, PTL

\* The answer of an upload accounts for every row of its file: what
\* bulkUpload reports as created is there by this row, with its roles unless
\* other requests came by, and no row is left out or reported twice.
THEOREM UploadsAreAccounted == Spec => []UploadAccounted
  <1>1. ASSUME ImportInv PROVE UploadAccounted
    <2>1. TypeOK /\ UploadInv /\ CreatorInv /\ AloneInv
      BY <1>1 DEF ImportInv
    <2>2. SUFFICES ASSUME NEW r \in Uploads, pc[r] = "done"
                   PROVE  /\ created[r] \cup errors[r] = Accounted(r)
                          /\ created[r] \cap errors[r] = {}
                          /\ \A i \in created[r] :
                               LET k == file[r][i].key
                               IN  /\ creator[k] = <<r, i>>
                                   /\ Alone(r, k) =>
                                        row[k].grants = IF file[r][i].roles = None THEN {}
                                                        ELSE file[r][i].roles
                          /\ \A k \in Keys :
                               (creator[k] # None /\ creator[k][1] = r) =>
                                 creator[k][2] \in DOMAIN file[r] /\ file[r][creator[k][2]].key = k
      BY DEF UploadAccounted
    <2>3. Accounted(r) = {i \in Accounted(r) : i < at[r]}
      <3>1. file[r] \in Files /\ at[r] \in Nat /\ at[r] > Len(file[r])
        BY <2>1, <2>2, RowsOf DEF UploadInv, TypeOK, Uploads
      <3>2. \A i \in DOMAIN file[r] : i < at[r]
        BY <3>1, FileFacts
      <3> QED
        BY <3>2 DEF Accounted
    <2>4. created[r] \cup errors[r] = Accounted(r) /\ created[r] \cap errors[r] = {}
      BY <2>1, <2>3 DEF UploadInv
    <2>5. ASSUME NEW i \in created[r]
          PROVE  /\ creator[file[r][i].key] = <<r, i>>
                 /\ Alone(r, file[r][i].key) =>
                      row[file[r][i].key].grants = IF file[r][i].roles = None THEN {}
                                                   ELSE file[r][i].roles
      <3>1. file[r][i].key \in Keys /\ creator[file[r][i].key] = <<r, i>>
        BY <2>1 DEF CreatorInv
      <3>2. Alone(r, file[r][i].key) => file[r][i].key \in Solo(r)
        BY <3>1 DEF Solo, Ids
      <3> QED
        BY <2>1, <3>1, <3>2 DEF AloneInv, RolesOf
    <2>6. ASSUME NEW k \in Keys, creator[k] # None, creator[k][1] = r
          PROVE  creator[k][2] \in DOMAIN file[r] /\ file[r][creator[k][2]].key = k
      BY <2>1, <2>6 DEF CreatorInv
    <2> QED
      BY <2>4, <2>5, <2>6
  <1> QED
    BY <1>1, ImportInvariant, PTL

\* What assignRoles, an update of a role, deactivate and the removal of a role
\* have taken away comes back only with a later grant, or by a save() that was
\* in flight at the same time.
THEOREM RevocationsStay == Spec => []RevokedStaysRevoked
  <1>1. ASSUME ImportInv PROVE RevokedStaysRevoked
    <2>1. AssignInv /\ DeactivateInv /\ DeleteInv
      BY <1>1 DEF ImportInv
    <2>2. ASSUME NEW r \in Requests
          PROVE  Saved(r) = {a \in Beside(r) : a.on = call[r].on /\ a.op \in {"assign", "touch", "create"}}
      BY DEF Saved, Saving
    <2>3. ASSUME NEW r \in Requests, pc[r] = "done", call[r] # None, call[r].op = "assign",
                 row[call[r].on] # None, NEW g \in row[call[r].on].grants \ call[r].wanted
          PROVE  Regranted(r, g)
      BY <2>1, <2>3 DEF AssignInv, Excess
    <2>4. ASSUME NEW r \in Requests, pc[r] = "done", call[r] # None, call[r].op = "deactivate",
                 row[call[r].on].flag
          PROVE  Reactivated(r)
      BY <2>1, <2>4 DEF DeactivateInv
    <2>5. ASSUME NEW r \in Requests, pc[r] = "done", call[r] # None, call[r].op = "delete",
                 row[call[r].on] # None
          PROVE  Saved(r) # {}
      BY <2>1, <2>5 DEF DeleteInv
    <2> QED
      BY <2>2, <2>3, <2>4, <2>5 DEF RevokedStaysRevoked, Regranted, Reactivated
  <1> QED
    BY <1>1, ImportInvariant, PTL

\* A permission that an account has lost opens nothing for longer than an access
\* token lives, unless the token was being issued when it was lost.
THEOREM StaleAccessIsBounded == Spec => StaleAccessBounded
  <1> DEFINE Bounded(r) ==
        (pc[r] = "idle" /\ pc'[r] = "done" /\ call'[r].op = "use") =>
          \A p \in call'[r].wanted :
            lost[<<token'[r].user, p>>] # None =>
              \/ clock < lost[<<token'[r].user, p>>] + Lifetime
              \/ /\ token'[r].readAt <= lost[<<token'[r].user, p>>]
                 /\ lost[<<token'[r].user, p>>] <= token'[r].issuedAt
  <1>1. ASSUME ImportInv, [Next]_vars, NEW r \in Requests, pc[r] = "idle", pc'[r] = "done",
               call'[r].op = "use"
        PROVE  UseToken(r)
    <2>1. TypeOK
      BY <1>1 DEF ImportInv
    <2>2. Acts(r)
      <3>1. ~(Tick /\ UNCHANGED importVars /\ Observe) /\ ~(UNCHANGED vars)
        BY <1>1 DEF Tick, vars, accessVars
      <3>2. PICK s \in Requests : Acts(s)
        BY <1>1, <3>1, NextEffect
      <3>3. s = r
        BY <1>1, <2>1, <3>2, Frame DEF OthersStay
      <3> QED
        BY <3>2, <3>3
    <2>3. Start(r)
      <3>1. ~Proceed(r) /\ ~LogAudit(r) /\ ~Fail(r)
        BY <1>1 DEF Proceed, Insert, LookUp, Merge, Save, MergeDelete, RemoveRole, WriteActive,
                    Issue, CommitSeed, LogAudit, Fail, InFlight
      <3>2. StartUpload(r) => pc'[r] = "row"
        BY <2>1 DEF StartUpload, Goto, TypeOK, AccessTypeOK
      <3>3. ~UploadStep(r)
        BY <1>1, <3>2 DEF UploadStep, SkipBlank, Abort, RejectRow, CreateRow, RowCreated, RowFailed,
                          Answer, AtRow, Creating, InFlight
      <3> QED
        BY <2>2, <3>1, <3>3 DEF Acts
    <2>4. ASSUME NEW op, NEW x, NEW wanted, NEW stage, NEW e, Begin(r, op, x, wanted, stage, e)
          PROVE  op = "use"
      <3>1. call'[r] = [op |-> op, on |-> x, wanted |-> wanted]
        BY <2>1, <2>4 DEF Begin, Enter, TypeOK, AccessTypeOK
      <3> QED
        BY <1>1, <3>1
    <2>5. ~Refuse(r)
      BY <1>1, <2>1 DEF Refuse, Goto, TypeOK, AccessTypeOK
    <2>6. ~Assign(r) /\ ~SetActive(r) /\ ~CreateRole(r) /\ ~DeleteRole(r) /\ ~Sign(r) /\ ~Seed(r)
      BY <2>4 DEF Assign, SetActive, CreateRole, DeleteRole, Sign, Seed
    <2>7. ~Touch(r) /\ ~UpdateOfficer(r) /\ ~UpdateStation(r)
      BY <2>4 DEF Touch, UpdateOfficer, UpdateStation, TouchOne
    <2>8. ~CreateUser(r) /\ ~CreateOfficer(r) /\ ~CreateStation(r)
      BY <2>4 DEF CreateUser, CreateOfficer, CreateStation, CreateOne
    <2> QED
      BY <2>3, <2>5, <2>6, <2>7, <2>8 DEF Start
  <1>2. ASSUME ImportInv, [Next]_vars, NEW r \in Requests
        PROVE  Bounded(r)
    <2>1. SUFFICES ASSUME pc[r] = "idle", pc'[r] = "done", call'[r].op = "use",
                          NEW p \in call'[r].wanted, lost[<<token'[r].user, p>>] # None
                   PROVE  \/ clock < lost[<<token'[r].user, p>>] + Lifetime
                          \/ /\ token'[r].readAt <= lost[<<token'[r].user, p>>]
                             /\ lost[<<token'[r].user, p>>] <= token'[r].issuedAt
      OBVIOUS
    <2>2. TypeOK /\ AccessTypeOK /\ LostInv /\ TokenInv
      BY <1>2 DEF ImportInv, TypeOK
    <2>3. UseToken(r)
      BY <1>1, <1>2, <2>1
    <2>4. PICK q \in Requests :
            /\ Live(token[q])
            /\ \E x \in token[q].claims : Begin(r, "use", token[q].user, {x}, "done", None)
            /\ token' = [token EXCEPT ![r] = token[q]]
      BY <2>3 DEF UseToken
    <2>5. PICK x \in token[q].claims : Begin(r, "use", token[q].user, {x}, "done", None)
      BY <2>4
    <2>6. p \in token[q].claims
      <3>1. call'[r] = [op |-> "use", on |-> token[q].user, wanted |-> {x}]
        BY <2>2, <2>5 DEF Begin, Enter, AccessTypeOK
      <3> QED
        BY <2>1, <2>5, <3>1
    <2>7. token'[r] = token[q] /\ token[q] # None
      BY <2>2, <2>4 DEF Live, AccessTypeOK
    <2>8. /\ token[q].readAt \in Nat /\ token[q].issuedAt \in Nat /\ token[q].claims \subseteq Permissions
          /\ clock < token[q].issuedAt + Lifetime
      BY <2>2, <2>4 DEF Live, AccessTypeOK, Token
    <2> DEFINE since == lost[<<token[q].user, p>>]
    <2>9. token[q].user \in Seeded /\ since # None /\ token[q].readAt <= since
      BY <2>1, <2>2, <2>6, <2>7 DEF TokenInv
    <2>10. since \in Nat
      <3>1. <<token[q].user, p>> \in Seeded \X Permissions
        BY <2>6, <2>8, <2>9
      <3> QED
        BY <2>2, <2>9, <3>1 DEF AccessTypeOK
    <2>11. clock \in Nat /\ Lifetime \in Nat
      BY <2>2, TimeAssumption DEF AccessTypeOK
    <2> HIDE DEF since
    <2>12. clock < since + Lifetime \/ (token[q].readAt <= since /\ since <= token[q].issuedAt)
      BY <2>8, <2>9, <2>10, <2>11
    <2> QED
      BY <2>7, <2>12 DEF since
  <1> HIDE DEF Bounded
  <1>3. ImportInv /\ [Next]_vars => [\A r \in Requests : Bounded(r)]_accessVars
    BY <1>2
  <1>4. (\A r \in Requests : Bounded(r)) =>
          \A r \in Requests :
            (pc[r] = "idle" /\ pc'[r] = "done" /\ call'[r].op = "use") =>
              LET k == token'[r]
              IN  \A p \in call'[r].wanted :
                    LET since == lost[<<k.user, p>>]
                    IN  since # None =>
                          \/ clock < since + Lifetime
                          \/ k.readAt <= since /\ since <= k.issuedAt
    BY DEF Bounded
  <1> QED
    BY <1>3, <1>4, ImportInvariant, PTL DEF Spec, StaleAccessBounded

=============================================================================

----------------------------- MODULE UserImport -----------------------------
(***************************************************************************)
(* Bulk upload of accounts, officers and stations from CSV files, next to   *)
(* the single requests of AccessControl: bulkUpload of UsersService,        *)
(* OfficersService and PoliceStationsService.  A file is handled row by row *)
(* with the create of its service and nothing around it: an upload that     *)
(* stops leaves the rows before, and what create saved of a row that fails. *)
(*                                                                          *)
(* How the text of a file becomes rows is the business of CsvFile.          *)
(***************************************************************************)
EXTENDS AccessControl, Sequences

CONSTANTS
  Files,        \* the files: sequences of rows
  UpperCased,   \* roles whose stored name is in upper case: none of the seed script
  MaxEffort     \* bound: see Light

\* A row names what it creates: its key, or that all its cells are blank or
\* that validation refuses them.  roles is None if the file has no such column:
\* only the file of accounts has one.
FileRow == [key : Keys \cup {"blank", "invalid"}, roles : {None} \cup SUBSET (SystemRoles \cup CustomRoles)]

ASSUME FilesAssumption ==
  /\ \A f \in Files :
       /\ f \in Seq(FileRow)
       /\ \A i, j \in DOMAIN f : f[i].roles = None <=> f[j].roles = None
       /\ \A i \in DOMAIN f : f[i].key \in Badges \cup Codes => f[i].roles = None
  /\ None \notin Files \cup (Requests \X Nat) /\ {"blank", "invalid"} \cap Keys = {}
  /\ UpperCased \subseteq CustomRoles /\ MaxEffort \in Nat

VARIABLES
  file,         \* the file of an upload, or None
  at,           \* the row that an upload is at
  created,      \* rows reported as created
  errors,       \* rows reported with an error
  creator       \* history: request and row that inserted a key, or None

importVars == <<file, at, created, errors, creator>>

vars == <<accessVars, importVars>>

Uploads == {r \in Requests : file[r] # None}

TypeOK ==
  /\ AccessTypeOK
  /\ file \in [Requests -> Files \cup {None}] /\ at \in [Requests -> Nat]
  /\ created \in [Requests -> SUBSET Nat] /\ errors \in [Requests -> SUBSET Nat]
  /\ \A r \in Requests :
       LET rows == IF file[r] = None THEN {} ELSE DOMAIN file[r]
       IN  /\ at[r] \in 0..(Cardinality(rows) + 1)
           /\ created[r] \subseteq rows /\ errors[r] \subseteq rows
  /\ creator \in [Ids -> (Requests \X Nat) \cup {None}]

Init ==
  /\ AccessInit
  /\ file = [r \in Requests |-> None]
  /\ at = [r \in Requests |-> 0]
  /\ created = [r \in Requests |-> {}]
  /\ errors = [r \in Requests |-> {}]
  /\ creator = [x \in Ids |-> None]

-----------------------------------------------------------------------------
(* Uploads.                                                                 *)

\* The file is there, not empty, and has the columns required.
StartUpload(r) ==
  /\ pc[r] = "idle" /\ Goto(r, "row")
  /\ \E f \in Files : file' = [file EXCEPT ![r] = f]
  /\ at' = [at EXCEPT ![r] = 1]
  /\ before' = before \cup {<<q, r>> : q \in {p \in Requests : Ended(p) /\ call[p] # None}}
  /\ UNCHANGED <<row, locals, token, clock, asked, created, errors, creator>>

AtRow(r, i) == pc[r] = "row" /\ i = at[r] /\ i \in DOMAIN file[r]

\* The names of roles in a cell are put in upper case before they are looked
\* for, and an empty cell is one empty name.
RolesKnown(roles) == roles # None => roles # {} /\ roles \subseteq UpperCased \cap Present

NextRow(r, stage) ==
  /\ Goto(r, stage)
  /\ at' = [at EXCEPT ![r] = @ + 1]

Report(r, i, ok) ==
  /\ NextRow(r, "row")
  /\ created' = IF ok THEN [created EXCEPT ![r] = @ \cup {i}] ELSE created
  /\ errors' = IF ok THEN errors ELSE [errors EXCEPT ![r] = @ \cup {i}]

UploadUnchanged == UNCHANGED <<row, token, clock, file>>

SkipBlank(r) ==
  \E i \in {at[r]} :
    /\ AtRow(r, i) /\ file[r][i].key = "blank"
    /\ NextRow(r, "row")
    /\ UNCHANGED <<locals, histories, created, errors, creator>> /\ UploadUnchanged

\* The roles are resolved outside the try of the row: an unknown name ends the
\* whole upload.
Abort(r) ==
  \E i \in {at[r]} :
    /\ AtRow(r, i) /\ file[r][i].key # "blank" /\ ~RolesKnown(file[r][i].roles)
    /\ Finish(r, "failed")
    /\ UNCHANGED <<histories, at, created, errors, creator>> /\ UploadUnchanged

\* Validation refuses the row, or findOne finds the key taken.
RejectRow(r) ==
  \E i \in {at[r]} :
    /\ AtRow(r, i) /\ RolesKnown(file[r][i].roles)
    /\ LET k == file[r][i].key
       IN  k = "invalid" \/ (k \in Keys /\ row[k] # None)
    /\ Report(r, i, FALSE)
    /\ UNCHANGED <<locals, histories, creator>> /\ UploadUnchanged

\* create finds no such key and goes on with Insert, LookUp, Merge and Save.
CreateRow(r) ==
  \E i \in {at[r]} :
    /\ AtRow(r, i) /\ RolesKnown(file[r][i].roles)
    /\ LET k == file[r][i].key
           roles == IF file[r][i].roles = None THEN {} ELSE file[r][i].roles
       IN  /\ k \in Keys /\ row[k] = None
           /\ Enter(r, [op |-> "create", on |-> k, wanted |-> roles], "new", New)
    /\ UNCHANGED <<row, token, before, importVars>>

Creating(r) == r \in Uploads /\ pc[r] \in InFlight \ {"row"}

\* The audit insert, and the response of create is collected.
RowCreated(r) ==
  /\ Creating(r) /\ pc[r] = "saved"
  /\ Report(r, at[r], TRUE)
  /\ entity' = [entity EXCEPT ![r] = None] /\ diff' = [diff EXCEPT ![r] = NoDiff]
  /\ UNCHANGED <<call, histories, creator>> /\ UploadUnchanged

\* Some statement of create fails - the unique index among them - and what it
\* saved stays.
RowFailed(r) ==
  /\ Creating(r)
  /\ Report(r, at[r], FALSE)
  /\ entity' = [entity EXCEPT ![r] = None] /\ diff' = [diff EXCEPT ![r] = NoDiff]
  /\ UNCHANGED <<call, histories, creator>> /\ UploadUnchanged

\* Faulty variant of Answer: the file is answered before its last row.
AnswerEarly(r) ==
  /\ pc[r] = "row" /\ at[r] >= Len(file[r])
  /\ Finish(r, "done")
  /\ UNCHANGED <<histories, at, created, errors, creator>> /\ UploadUnchanged

\* Every row was handled.
Answer(r) ==
  /\ pc[r] = "row" /\ at[r] > Len(file[r])
  /\ Finish(r, "done")
  /\ UNCHANGED <<histories, at, created, errors, creator>> /\ UploadUnchanged

UploadStep(r) ==
  \/ StartUpload(r)
  \/ SkipBlank(r)
  \/ Abort(r)
  \/ RejectRow(r)
  \/ CreateRow(r)
  \/ RowCreated(r)
  \/ RowFailed(r)
  \/ Answer(r)

\* Who inserted what.
Credit(r) ==
  creator' = IF pc[r] = "new" /\ row' # row
             THEN [creator EXCEPT ![call[r].on] = <<r, at[r]>>] ELSE creator

-----------------------------------------------------------------------------

\* Bound: requests that read or write accounts count for two, those that are
\* about tokens for one.
Light ==
  LET tokens == {r \in Requests : call[r] # None /\ call[r].op \in {"sign", "use"}}
  IN  2 * Cardinality({r \in Requests : pc[r] # "idle"}) - Cardinality(tokens) <= MaxEffort

\* Nothing is in flight and nothing else comes.
Quiescent ==
  /\ \A r \in Requests : pc[r] \notin InFlight
  /\ UNCHANGED vars

Next ==
  \/ \E r \in Requests : Start(r) /\ UNCHANGED importVars /\ Observe /\ Light'
  \/ \E r \in Requests :
       Proceed(r) /\ UNCHANGED <<file, at, created, errors>> /\ Credit(r) /\ Observe
  \/ \E r \in Requests : r \notin Uploads /\ LogAudit(r) /\ UNCHANGED importVars /\ Observe
  \/ \E r \in Requests : Fail(r) /\ UNCHANGED importVars /\ Observe
  \/ \E r \in Requests : UploadStep(r) /\ Observe /\ Light'
  \/ Tick /\ UNCHANGED importVars /\ Observe
  \/ Quiescent

Spec == Init /\ [][Next]_vars

-----------------------------------------------------------------------------
(* Properties.                                                              *)

Accounted(r) == {i \in DOMAIN file[r] : file[r][i].key # "blank"}

\* No other call was about k or could take away a role.
Alone(r, k) ==
  \A a \in asked : (a.by = r /\ a.on = k) \/ (a.by # r /\ a.op \in {"sign", "use"})

\* An upload that is answered has reported every row that is not blank, once:
\* as created, if this row and none else inserted its key - with the roles of
\* the row, unless other requests came by - or with an error.  An account that a
\* row did insert is never left out, but may be reported with an error.
UploadAccounted ==
  \A r \in Uploads :
    pc[r] = "done" =>
      /\ created[r] \cup errors[r] = Accounted(r)
      /\ created[r] \cap errors[r] = {}
      /\ \A i \in created[r] :
           LET k == file[r][i].key
           IN  /\ creator[k] = <<r, i>>
               /\ Alone(r, k) => row[k].grants = IF file[r][i].roles = None THEN {} ELSE file[r][i].roles
      /\ \A k \in Keys :
           (creator[k] # None /\ creator[k][1] = r) =>
             creator[k][2] \in DOMAIN file[r] /\ file[r][creator[k][2]].key = k

=============================================================================

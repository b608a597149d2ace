------------------------------ MODULE Casework ------------------------------
(***************************************************************************)
(* The records kept around a complaint, worked on by concurrent requests:   *)
(*                                                                          *)
(*   Reassign        ComplaintAssignmentsService.reassign   (transaction)   *)
(*   UpdateStatus    ComplaintAssignmentsService.updateStatus               *)
(*   Review          OversightService.review, AiService.reviewAnalysis      *)
(*   Upload          EvidenceService.create                 (transaction)   *)
(*   Access          EvidenceController.findById                            *)
(*   Analyse         AiService.requestAnalysis                              *)
(*   AddNote         ComplaintsService.addNote                              *)
(*                                                                          *)
(* As in ComplaintWorkflow, a handler that changes a row reads it, changes  *)
(* the entity and saves the columns that differ from a second reading; an   *)
(* UPDATE waits for the row lock of an open transaction; the audit row goes *)
(* through a connection of its own.                                         *)
(***************************************************************************)
EXTENDS Naturals, FiniteSets

CONSTANTS
  Requests,     \* HTTP requests; each calls one handler once
  Targets,      \* the statuses that callers of UpdateStatus ask for
  Verdicts,     \* the statuses that reviewers give
  Reviewers,    \* the actors whom a row can name as its reviewer
  Remarks,      \* the remarks that reviewers can make
  Moments,      \* what a clock can show
  None          \* SQL NULL, and "nobody"

AssignmentStatus ==
  {"pending", "accepted", "in_progress", "completed", "reassigned", "declined"}

ASSUME TargetsAssumption == Targets \subseteq AssignmentStatus

\* The assignments that the list of an investigator's complaints leaves out.
Inactive == {"completed", "reassigned", "declined"}

RowKind == {"assignment", "escalation", "analysis", "evidence", "note"}

\* Rows that exist from the start, one of each kind that no handler here can
\* make from nothing, and a piece of evidence.
Existing == {"assignment", "escalation", "evidence"}

ASSUME RequestsAssumption == Requests \cap Existing = {}

\* A row is named by the request that inserts it.
Ids == Existing \cup Requests

\* The id of no row, as a caller may send it.
Nowhere == "nowhere"

ASSUME NowhereAssumption == Nowhere \notin Ids

VARIABLES
  row,          \* committed row of each id, or None
  custody,      \* evidence_chain_of_custody rows
  auditLog,     \* audit_logs rows
  lock,         \* the request whose open transaction has updated the row
  pc,           \* where each request is
  call,         \* the handler a request runs, and what it was sent
  entity,       \* the entity that a request has read and changed
  columns,      \* the columns that a request's UPDATE will set
  overlaps      \* the pairs of requests that worked on one row at a time

database == <<row, custody, lock>>
locals == <<call, entity, columns, overlaps>>
caseworkVars == <<database, auditLog, pc, locals>>

-----------------------------------------------------------------------------
(* Rows.  One actor may review a row again and again, two requests may be    *)
(* stamped with one moment, and a remark may be repeated: what a request    *)
(* gives can equal what the row has.                                        *)

Row == [kind : RowKind,
        status : AssignmentStatus \cup Verdicts \cup {None},
        completedAt : Moments \cup {None},      \* assignments
        previous : Ids \cup {None},             \* assignments
        reviewedBy : Reviewers \cup {None},     \* escalations and analyses
        remark : Remarks \cup {None}]

\* NULL is the id of no row, and no row.
ASSUME NoneAssumption ==
  None \notin Ids \cup {Nowhere} \cup Moments /\ None \notin Row

Column == {"status", "completedAt", "reviewedBy", "remark"}

NewRow(kind, previous) ==
  [kind |-> kind,
   status |-> IF kind \in {"evidence", "note"} THEN None ELSE "pending",
   completedAt |-> None, previous |-> previous, reviewedBy |-> None,
   remark |-> None]

Operation == {"reassign", "updateStatus", "review", "upload", "access",
              "analyse", "note"}

Call == [op : Operation, on : Ids \cup {Nowhere, None}]

NoCall == [op |-> "none", on |-> None]

Transactional(r) == call[r].op \in {"reassign", "upload"}

Changing(r) == call[r].op \in {"reassign", "updateStatus", "review"}

\* The kind of row that each inserting handler adds.
KindOf == [reassign |-> "assignment", upload |-> "evidence",
           analyse |-> "analysis", note |-> "note"]

Stage == {"idle", "found", "merged", "saved", "audited", "done", "failed"}

InFlight == {"found", "merged", "saved", "audited"}

CaseworkTypeOK ==
  /\ row \in [Ids -> Row \cup {None}]
  /\ custody \subseteq [evidence : Ids \cup {Nowhere}, by : Requests,
                        action : {"uploaded", "accessed"}]
  /\ auditLog \subseteq [by : Requests, op : Operation, on : Ids \cup {Nowhere}]
  /\ lock \in [Ids -> Requests \cup {None}]
  /\ pc \in [Requests -> Stage]
  /\ call \in [Requests -> Call \cup {NoCall}]
  /\ entity \in [Requests -> Row \cup {None}]
  /\ columns \in [Requests -> SUBSET Column]
  /\ \A o \in overlaps : o \subseteq Requests /\ Cardinality(o) = 2

CaseworkInit ==
  /\ row = [i \in Ids |-> IF i \in Existing THEN NewRow(i, None) ELSE None]
  /\ custody = {} /\ auditLog = {} /\ overlaps = {}
  /\ lock = [i \in Ids |-> None]
  /\ pc = [r \in Requests |-> "idle"]
  /\ call = [r \in Requests |-> NoCall]
  /\ entity = [r \in Requests |-> None]
  /\ columns = [r \in Requests |-> {}]

-----------------------------------------------------------------------------
(* What every handler reads first.                                          *)

Goto(r, stage) == pc' = [pc EXCEPT ![r] = stage]

\* Request r runs op on a row and holds e: the row it has read, changed.
Begin(r, op, id, e) ==
  /\ pc[r] = "idle"
  /\ Goto(r, "found")
  /\ call' = [call EXCEPT ![r] = [op |-> op, on |-> id]]
  /\ entity' = [entity EXCEPT ![r] = e]
  /\ overlaps' = overlaps \cup
       {{r, q} : q \in {p \in Requests : pc[p] \in InFlight /\ call[p].on = id}}
  /\ UNCHANGED <<database, auditLog, columns>>

Rows(kinds) == {i \in Ids : row[i] # None /\ row[i].kind \in kinds}

Reassign(r) ==
  \E i \in Rows({"assignment"}) :
    Begin(r, "reassign", i, [row[i] EXCEPT !.status = "reassigned"])

\* Faulty variant of UpdateStatus: another status takes the completion back.
UpdateStatusClearing(r) ==
  \E i \in Rows({"assignment"}), s \in Targets, now \in Moments :
    Begin(r, "updateStatus", i,
          [row[i] EXCEPT !.status = s,
                         !.completedAt = IF s = "completed" THEN now ELSE None])

\* completedAt is stamped by a completion and never reset.
UpdateStatus(r) ==
  \E i \in Rows({"assignment"}), s \in Targets, now \in Moments :
    Begin(r, "updateStatus", i,
          [row[i] EXCEPT !.status = s,
                         !.completedAt = IF s = "completed" THEN now ELSE @])

\* The remark is the disciplinary recommendation of an escalation and the
\* reason of an override: the caller may leave it out, and null is stored.
Review(r) ==
  \E i \in Rows({"escalation", "analysis"}), s \in Verdicts,
     by \in Reviewers, remark \in Remarks \cup {None} :
    Begin(r, "review", i,
          [row[i] EXCEPT !.status = s, !.reviewedBy = by, !.remark = remark])

\* A transaction begins once the type, the size and the name are accepted.
Upload(r) == Begin(r, "upload", None, None)

\* Any id may be sent.
Access(r) ==
  \E i \in Rows({"evidence"}) \cup {Nowhere} : Begin(r, "access", i, None)

Analyse(r) == Begin(r, "analyse", None, None)

AddNote(r) == Begin(r, "note", None, None)

\* The complaint or the row is not there, or the file is refused: 404 or 400.
Refuse(r) ==
  /\ pc[r] = "idle"
  /\ Goto(r, "failed")
  /\ UNCHANGED <<database, auditLog, locals>>

-----------------------------------------------------------------------------
(* Writing.                                                                 *)

\* Faulty variant of Merge: a column set to null is left as it is.
MergeSkippingNulls(r) ==
  /\ pc[r] = "found" /\ Changing(r)
  /\ columns' = [columns EXCEPT ![r] =
                   {k \in Column : entity[r][k] \notin {None, row[call[r].on][k]}}]
  /\ Goto(r, "merged")
  /\ UNCHANGED <<database, auditLog, call, entity, overlaps>>

\* save() reads the row again and keeps the columns that differ from it.
Merge(r) ==
  /\ pc[r] = "found" /\ Changing(r)
  /\ columns' = [columns EXCEPT ![r] =
                   {k \in Column : entity[r][k] # row[call[r].on][k]}]
  /\ Goto(r, "merged")
  /\ UNCHANGED <<database, auditLog, call, entity, overlaps>>

\* The row after UPDATE ... SET the chosen columns.
Overlaid(r) ==
  [k \in DOMAIN entity[r] |->
     IF k \in columns[r] THEN entity[r][k] ELSE row[call[r].on][k]]

\* The autocommitted UPDATE.  Only a review has an audit row to write after it.
Save(r) ==
  /\ pc[r] = "merged" /\ ~Transactional(r)
  /\ lock[call[r].on] = None
  /\ row' = [row EXCEPT ![call[r].on] = Overlaid(r)]
  /\ Goto(r, IF call[r].op = "review" THEN "saved" ELSE "done")
  /\ UNCHANGED <<custody, lock, auditLog, locals>>

\* Faulty variant of SaveInTransaction: the UPDATE commits by itself.
SaveOutsideTransaction(r) ==
  /\ pc[r] = "merged" /\ Transactional(r)
  /\ lock[call[r].on] = None
  /\ row' = [row EXCEPT ![call[r].on] = Overlaid(r)]
  /\ Goto(r, "saved")
  /\ UNCHANGED <<custody, lock, auditLog, locals>>

\* UPDATE of the old assignment and INSERT of its successor, unseen by others.
SaveInTransaction(r) ==
  /\ pc[r] = "merged" /\ Transactional(r)
  /\ \/ /\ lock[call[r].on] = None
        /\ lock' = [lock EXCEPT ![call[r].on] = r]
     \/ columns[r] = {} /\ UNCHANGED lock
  /\ Goto(r, "saved")
  /\ UNCHANGED <<row, custody, auditLog, locals>>

\* INSERT of the evidence row and of its custody row, unseen by others.
InsertInTransaction(r) ==
  /\ pc[r] = "found" /\ call[r].op = "upload"
  /\ Goto(r, "saved")
  /\ UNCHANGED <<database, auditLog, locals>>

\* The autocommitted INSERT of an analysis or of a note.
Insert(r) ==
  /\ pc[r] = "found" /\ call[r].op \in {"analyse", "note"}
  /\ row' = [row EXCEPT ![r] = NewRow(KindOf[call[r].op], None)]
  /\ Goto(r, IF call[r].op = "note" THEN "done" ELSE "saved")
  /\ UNCHANGED <<custody, lock, auditLog, locals>>

\* Faulty variant of RecordAccess: the evidence is looked up first, and only
\* the audit row is written.
RecordAccessLate(r) ==
  /\ pc[r] = "found" /\ call[r].op = "access"
  /\ Goto(r, "saved")
  /\ UNCHANGED <<database, auditLog, locals>>

\* The custody row of an access, before the evidence is looked up.
RecordAccess(r) ==
  /\ pc[r] = "found" /\ call[r].op = "access"
  /\ custody' = custody \cup
       {[evidence |-> call[r].on, by |-> r, action |-> "accessed"]}
  /\ Goto(r, "saved")
  /\ UNCHANGED <<row, lock, auditLog, locals>>

\* Faulty variant of LogAudit: the audit row names the id that was sent, which
\* a request that inserts a row does not have.
LogAuditSent(r) ==
  /\ pc[r] = "saved"
  /\ auditLog' = auditLog \cup {[by |-> r, op |-> call[r].op, on |-> call[r].on]}
  /\ Goto(r, IF Transactional(r) \/ call[r].op = "access" THEN "audited" ELSE "done")
  /\ UNCHANGED <<database, locals>>

\* The audit row names the row inserted, or else the row worked on.
LogAudit(r) ==
  /\ pc[r] = "saved"
  /\ auditLog' = auditLog \cup
       {[by |-> r, op |-> call[r].op,
         on |-> IF call[r].op \in DOMAIN KindOf THEN r ELSE call[r].on]}
  /\ Goto(r, IF Transactional(r) \/ call[r].op = "access" THEN "audited" ELSE "done")
  /\ UNCHANGED <<database, locals>>

Released(r) == [i \in Ids |-> IF lock[i] = r THEN None ELSE lock[i]]

\* COMMIT of a reassignment or of an upload.
Commit(r) ==
  /\ pc[r] = "audited" /\ Transactional(r)
  /\ LET new == NewRow(KindOf[call[r].op], call[r].on)
     IN  row' = [i \in Ids |-> CASE i = r -> new
                                 [] i = call[r].on -> Overlaid(r)
                                 [] OTHER -> row[i]]
  /\ custody' = IF call[r].op = "upload"
                THEN custody \cup {[evidence |-> r, by |-> r, action |-> "uploaded"]}
                ELSE custody
  /\ lock' = Released(r)
  /\ Goto(r, "done")
  /\ UNCHANGED <<auditLog, locals>>

\* The evidence is looked up: shown, or 404.
Open(r) ==
  /\ pc[r] = "audited" /\ call[r].op = "access"
  /\ Goto(r, IF call[r].on \in Rows({"evidence"}) THEN "done" ELSE "failed")
  /\ UNCHANGED <<database, auditLog, locals>>

\* A statement fails (so does the UPDATE of an analysis to a status outside
\* its enum), or the process: ROLLBACK.  What was autocommitted stays.
Fail(r) ==
  /\ pc[r] \in InFlight
  /\ lock' = Released(r)
  /\ Goto(r, "failed")
  /\ UNCHANGED <<row, custody, auditLog, locals>>

Start(r) ==
  \/ Reassign(r)
  \/ UpdateStatus(r)
  \/ Review(r)
  \/ Upload(r)
  \/ Access(r)
  \/ Analyse(r)
  \/ AddNote(r)
  \/ Refuse(r)

Proceed(r) ==
  \/ Merge(r)
  \/ Save(r)
  \/ SaveInTransaction(r)
  \/ InsertInTransaction(r)
  \/ Insert(r)
  \/ RecordAccess(r)
  \/ LogAudit(r)
  \/ Commit(r)
  \/ Open(r)

CaseworkStep(r) == Start(r) \/ Proceed(r) \/ Fail(r)

CaseworkSpec ==
  CaseworkInit /\ [][\E r \in Requests : CaseworkStep(r)]_caseworkVars

-----------------------------------------------------------------------------
(* Properties.                                                              *)

Successors(i) == {s \in Rows({"assignment"}) : row[s].previous = i}

Overlapping(r) == {q \in Requests : {r, q} \in overlaps}

\* A reassignment is whole or absent: an assignment that shows as reassigned
\* has the successor that carries the work on, unless a caller of updateStatus
\* has called it so, and every successor has its audit row.
ReassignmentWhole ==
  /\ \A i \in Rows({"assignment"}) :
       row[i].status = "reassigned" =>
         \/ Successors(i) # {}
         \/ \E r \in Requests : /\ call[r] = [op |-> "updateStatus", on |-> i]
                                /\ entity[r].status = "reassigned"
  /\ \A i \in Ids : \A s \in Successors(i) :
       \E a \in auditLog : a.op = "reassign" /\ a.on = s

\* The completion time of an assignment outlives every later change of its
\* status, and only a request that worked on the row at the same time as the
\* completion can have lost it.
CompletionSurvives ==
  \A r \in Requests :
    (pc[r] = "done" /\ call[r].op = "updateStatus" /\ entity[r].status = "completed") =>
      \/ row[call[r].on].completedAt # None
      \/ Overlapping(r) # {}

\* Whoever has opened a piece of evidence by its id is in its chain of custody
\* and in the audit log, every uploaded one has its first custody row, and a
\* custody row of evidence that does not exist comes from a request that was not
\* answered.  Evidence is shown on other routes too, which leave no such rows.
CustodyKept ==
  /\ \A r \in Requests :
       (pc[r] = "done" /\ call[r].op = "access") =>
         /\ [evidence |-> call[r].on, by |-> r, action |-> "accessed"] \in custody
         /\ [by |-> r, op |-> "access", on |-> call[r].on] \in auditLog
  /\ \A i \in Rows({"evidence"}) \ Existing :
       /\ [evidence |-> i, by |-> i, action |-> "uploaded"] \in custody
       /\ [by |-> i, op |-> "upload", on |-> i] \in auditLog
  /\ \A k \in custody : k.evidence \in Rows({"evidence"}) \/ pc[k.by] # "done"

\* A request whose save is behind it, one that failed before or after it included.
HasSaved(r) == pc[r] \notin {"idle", "found", "merged"}

\* A request and those that were at work with it, as far as they have done the
\* same to the same row and have saved.
Together(r) ==
  {q \in Overlapping(r) \cup {r} : call[q] = call[r] /\ HasSaved(q)}

\* What a reviewed row shows is of one review, or of reviews that were at work
\* together with it: the verdict, the name or the remark of an older review is
\* never left standing.  Reviews that overlap can leave the remark of the one
\* under the name of the other, even if the other made one too.
ReviewAttributed ==
  \A i \in Rows({"escalation", "analysis"}) :
    row[i].reviewedBy # None =>
      \E r \in Requests :
        /\ call[r] = [op |-> "review", on |-> i] /\ HasSaved(r)
        /\ \A k \in {"status", "reviewedBy", "remark"} :
             row[i][k] \in {entity[q][k] : q \in Together(r)}

=============================================================================

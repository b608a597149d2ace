-------------------------- MODULE ComplaintWorkflow --------------------------
(***************************************************************************)
(* The life of a complaint row once it exists: the four handlers that       *)
(* change it, run by concurrent HTTP requests against one PostgreSQL        *)
(* database at READ COMMITTED.                                              *)
(*                                                                          *)
(*   Update        ComplaintsService.update          (no transaction)       *)
(*   UpdateStatus  ComplaintsService.updateStatus    (transaction)          *)
(*   Assign        ComplaintAssignmentsService.create (transaction)         *)
(*   Escalate      OversightService.escalate         (transaction)          *)
(*                                                                          *)
(* Every handler reads the row with a plain SELECT, changes the entity in   *)
(* memory and hands it to TypeORM's save, which SELECTs the row again and   *)
(* issues an UPDATE of the columns in which the entity and that second row  *)
(* differ.  The UPDATE takes the row lock, which is held to the end of the  *)
(* transaction.  The audit row goes through another connection: it is       *)
(* visible at once and survives a rollback.  That a connection is to be had *)
(* when one is asked for is taken for granted here: see ConnectionPool.     *)
(***************************************************************************)
EXTENDS Naturals, FiniteSets

CONSTANTS
  Requests,     \* HTTP requests; each calls one handler once
  Complaints,   \* complaint rows that exist
  Targets,      \* the statuses that callers of updateStatus ask for
  None,         \* SQL NULL, and "nobody"
  Serialized    \* TRUE: at most one request in flight per complaint

ComplaintStatus ==
  {"draft", "submitted", "acknowledged", "under_review", "assigned",
   "under_investigation", "awaiting_response", "escalated", "resolved",
   "closed", "rejected", "withdrawn"}

ASSUME TargetsAssumption == Targets \subseteq ComplaintStatus
ASSUME NoneAssumption == None \notin Requests /\ None \notin ComplaintStatus
ASSUME SerializedAssumption == Serialized \in BOOLEAN

\* The statuses in which update() accepts an edit.
Editable == {"submitted", "acknowledged", "under_review"}

\* The statuses that make updateStatus() stamp closedAt.
Closing == {"closed", "resolved"}

VARIABLES
  complaint,    \* committed row of each complaint
  lock,         \* the request whose open transaction has updated the row
  history,      \* committed complaint_status_history rows
  assignments,  \* committed complaint_assignments rows
  escalations,  \* committed escalation_records rows
  auditLog,     \* audit_logs rows
  jobs,         \* jobs added to the notification queue
  begun,        \* transactions begun so far: the database clock
  pc,           \* where each request is
  call,         \* the handler a request runs, on which complaint
  entity,       \* the request's in-memory ComplaintEntity
  previous,     \* the request's local previousStatus
  startedAt,    \* now() of the request's transaction
  columns       \* columns the request's UPDATE will set

database == <<complaint, lock, history, assignments, escalations>>
locals == <<call, entity, previous, startedAt>>
vars == <<database, auditLog, jobs, begun, pc, locals, columns>>

-----------------------------------------------------------------------------
(* Rows.  closedAt holds the request that stamped it and details the request *)
(* that last edited the descriptive columns (title, description, severity,  *)
(* location, station): two timestamps, and two edits, never compare equal.  *)

Row == [status : ComplaintStatus, closedAt : Requests \cup {None},
        details : Requests \cup {None}]

Column == {"status", "closedAt", "details"}

Operation == {"update", "updateStatus", "assign", "escalate"}

Call == [op : Operation, complaint : Complaints, status : ComplaintStatus]

\* The call of a request that has not started.
NoCall == [op |-> "none", complaint |-> None, status |-> "submitted"]

HistoryRow == [complaint : Complaints, by : Requests, at : Nat,
               previousStatus : ComplaintStatus, newStatus : ComplaintStatus]

AuditRow == [complaint : Complaints, by : Requests, op : Operation,
             before : ComplaintStatus \cup {None},
             after : ComplaintStatus \cup {None}]

CaseRow == [complaint : Complaints, by : Requests]

Job == [complaint : Complaints, by : Requests,
        previousStatus : ComplaintStatus, newStatus : ComplaintStatus]

Stage == {"idle", "found", "merged", "written", "audited", "ready",
          "done", "failed"}

InFlight == {"found", "merged", "written", "audited", "ready"}

Transactional(r) == call[r].op # "update"

\* A fresh complaint, as ComplaintsService.create leaves it.
SubmittedRow == [status |-> "submitted", closedAt |-> None, details |-> None]

TypeOK ==
  /\ complaint \in [Complaints -> Row]
  /\ lock \in [Complaints -> Requests \cup {None}]
  /\ history \subseteq HistoryRow
  /\ assignments \subseteq CaseRow
  /\ escalations \subseteq CaseRow
  /\ auditLog \subseteq AuditRow
  /\ jobs \subseteq Job
  /\ begun \in Nat
  /\ pc \in [Requests -> Stage]
  /\ call \in [Requests -> Call \cup {NoCall}]
  /\ entity \in [Requests -> Row]
  /\ previous \in [Requests -> ComplaintStatus]
  /\ startedAt \in [Requests -> Nat]
  /\ columns \in [Requests -> SUBSET Column]
  /\ \A r \in Requests : pc[r] \in InFlight => call[r] \in Call

Init ==
  /\ complaint = [c \in Complaints |-> SubmittedRow]
  /\ lock = [c \in Complaints |-> None]
  /\ history = {} /\ assignments = {} /\ escalations = {}
  /\ auditLog = {} /\ jobs = {}
  /\ begun = 0
  /\ pc = [r \in Requests |-> "idle"]
  /\ call = [r \in Requests |-> NoCall]
  /\ entity = [r \in Requests |-> SubmittedRow]
  /\ previous = [r \in Requests |-> "submitted"]
  /\ startedAt = [r \in Requests |-> 0]
  /\ columns = [r \in Requests |-> {}]

-----------------------------------------------------------------------------
(* Reading the row and changing the entity in memory.                       *)

Admitted(r, c) ==
  Serialized => \A q \in Requests \ {r} :
                  pc[q] \in InFlight => call[q].complaint # c

\* What the handler assigns to the entity it has read.
Mutated(row, r, op, s) ==
  [row EXCEPT
     !.status = IF op = "update" THEN @ ELSE s,
     !.closedAt = IF op = "updateStatus" /\ s \in Closing THEN r ELSE @,
     !.details = IF op = "update" THEN r ELSE @]

\* SELECT of complaint c by request r, which runs op towards status s.  A
\* transaction has begun just before; its now() stays the same to the end.
Find(r, op, c, s) ==
  /\ pc[r] = "idle" /\ Admitted(r, c)
  /\ pc' = [pc EXCEPT ![r] = "found"]
  /\ call' = [call EXCEPT ![r] = [op |-> op, complaint |-> c, status |-> s]]
  /\ entity' = [entity EXCEPT ![r] = Mutated(complaint[c], r, op, s)]
  /\ previous' = [previous EXCEPT ![r] = complaint[c].status]
  /\ IF op = "update"
     THEN UNCHANGED <<begun, startedAt>>
     ELSE /\ begun' = begun + 1
          /\ startedAt' = [startedAt EXCEPT ![r] = begun + 1]
  /\ UNCHANGED <<database, auditLog, jobs, columns>>

\* Faulty variant of Update: the status is not looked at.
UpdateUnguarded(r, c) == Find(r, "update", c, complaint[c].status)

\* update() of a complaint in an editable status.
Update(r, c) ==
  /\ complaint[c].status \in Editable
  /\ Find(r, "update", c, complaint[c].status)

\* update() of any other complaint throws before anything is written.
RejectUpdate(r, c) ==
  /\ pc[r] = "idle" /\ Admitted(r, c)
  /\ complaint[c].status \notin Editable
  /\ pc' = [pc EXCEPT ![r] = "failed"]
  /\ UNCHANGED <<database, auditLog, jobs, begun, locals, columns>>

UpdateStatus(r, c, s) == Find(r, "updateStatus", c, s)

\* Faulty variant of Assign: a status of the assignment, not of the complaint.
AssignPending(r, c) == Find(r, "assign", c, "pending")

Assign(r, c) == Find(r, "assign", c, "assigned")

Escalate(r, c) == Find(r, "escalate", c, "escalated")

\* findOne returns null: the handler throws NotFoundException.
NotFound(r) ==
  /\ pc[r] = "idle"
  /\ pc' = [pc EXCEPT ![r] = "failed"]
  /\ UNCHANGED <<database, auditLog, jobs, begun, locals, columns>>

-----------------------------------------------------------------------------
(* Saving the entity.                                                       *)

\* save() reads the row again and keeps the columns that differ from it.
Merge(r) ==
  /\ pc[r] = "found"
  /\ columns' = [columns EXCEPT ![r] =
                   {k \in Column : entity[r][k] # complaint[call[r].complaint][k]}]
  /\ pc' = [pc EXCEPT ![r] = "merged"]
  /\ UNCHANGED <<database, auditLog, jobs, begun, locals>>

\* UPDATE complaints SET the chosen columns, applied to the committed row.
Overlay(row, r) ==
  LET from(k) == IF k \in columns[r] THEN entity[r] ELSE row
  IN  [status |-> from("status").status, closedAt |-> from("closedAt").closedAt,
       details |-> from("details").details]

\* The autocommitted UPDATE of update(): it waits for the row lock, and the
\* row is changed as soon as the statement ends.
SaveUpdate(r) ==
  /\ pc[r] = "merged" /\ ~Transactional(r)
  /\ lock[call[r].complaint] = None
  /\ complaint' = [complaint EXCEPT ![call[r].complaint] = Overlay(@, r)]
  /\ pc' = [pc EXCEPT ![r] = "written"]
  /\ UNCHANGED <<lock, history, assignments, escalations, auditLog, jobs,
                 begun, locals, columns>>

\* Faulty variant of SaveInTransaction: repositories instead of qr.manager, so
\* that the UPDATE commits by itself.
SaveOutsideTransaction(r) ==
  /\ pc[r] = "merged" /\ Transactional(r)
  /\ lock[call[r].complaint] = None
  /\ complaint' = [complaint EXCEPT ![call[r].complaint] = Overlay(@, r)]
  /\ pc' = [pc EXCEPT ![r] = "written"]
  /\ UNCHANGED <<lock, history, assignments, escalations, auditLog, jobs,
                 begun, locals, columns>>

\* The UPDATE and the INSERTs of a transaction: nobody else sees them before
\* the commit, so what they leave behind here is the row lock.  With no
\* differing column TypeORM issues no UPDATE, unless updatedBy differs.
SaveInTransaction(r) ==
  /\ pc[r] = "merged" /\ Transactional(r)
  /\ \/ /\ lock[call[r].complaint] = None
        /\ lock' = [lock EXCEPT ![call[r].complaint] = r]
     \/ columns[r] = {} /\ UNCHANGED lock
  /\ pc' = [pc EXCEPT ![r] = "written"]
  /\ UNCHANGED <<complaint, history, assignments, escalations, auditLog, jobs,
                 begun, locals, columns>>

-----------------------------------------------------------------------------
(* Audit, notification, and the end of the request.                         *)

\* Only updateStatus() puts the status before and after into its audit row.
AuditRowOf(r) ==
  LET status == call[r].op = "updateStatus"
  IN  [complaint |-> call[r].complaint, by |-> r, op |-> call[r].op,
       before |-> IF status THEN previous[r] ELSE None,
       after |-> IF status THEN call[r].status ELSE None]

LogAudit(r) ==
  /\ pc[r] = "written"
  /\ auditLog' = auditLog \cup {AuditRowOf(r)}
  /\ pc' = [pc EXCEPT ![r] = CASE call[r].op = "update" -> "done"
                               [] call[r].op = "updateStatus" -> "audited"
                               [] OTHER -> "ready"]
  /\ UNCHANGED <<database, jobs, begun, locals, columns>>

Notify(r) ==
  /\ pc[r] = "audited"
  /\ jobs' = jobs \cup {[complaint |-> call[r].complaint, by |-> r,
                         previousStatus |-> previous[r],
                         newStatus |-> call[r].status]}
  /\ pc' = [pc EXCEPT ![r] = "ready"]
  /\ UNCHANGED <<database, auditLog, begun, locals, columns>>

\* Faulty variants of HistoryRowOf: the statuses swapped, and previousStatus
\* read after the entity was changed.
HistoryRowSwapped(r) ==
  [complaint |-> call[r].complaint, by |-> r, at |-> startedAt[r],
   previousStatus |-> call[r].status, newStatus |-> previous[r]]

HistoryRowLate(r) ==
  [complaint |-> call[r].complaint, by |-> r, at |-> startedAt[r],
   previousStatus |-> entity[r].status, newStatus |-> call[r].status]

HistoryRowOf(r) ==
  [complaint |-> call[r].complaint, by |-> r, at |-> startedAt[r],
   previousStatus |-> previous[r], newStatus |-> call[r].status]

\* The rows of the case file that request r inserts if its handler is op.
Inserted(r, op) ==
  IF call[r].op = op THEN {[complaint |-> call[r].complaint, by |-> r]} ELSE {}

Released(r) == [c \in Complaints |-> IF lock[c] = r THEN None ELSE lock[c]]

\* Faulty variants of Commit: before the audit row, and without a history row.
CommitUnaudited(r) ==
  /\ pc[r] \in {"written", "ready"} /\ Transactional(r)
  /\ complaint' = [complaint EXCEPT ![call[r].complaint] = Overlay(@, r)]
  /\ history' = history \cup {HistoryRowOf(r)}
  /\ lock' = Released(r)
  /\ pc' = [pc EXCEPT ![r] = "done"]
  /\ UNCHANGED <<assignments, escalations, auditLog, jobs, begun, locals, columns>>

CommitUnrecorded(r) ==
  /\ pc[r] = "ready"
  /\ complaint' = [complaint EXCEPT ![call[r].complaint] = Overlay(@, r)]
  /\ lock' = Released(r)
  /\ pc' = [pc EXCEPT ![r] = "done"]
  /\ UNCHANGED <<history, assignments, escalations, auditLog, jobs, begun, locals, columns>>

\* COMMIT: the row, the history row and the assignment or escalation appear.
\* These handlers do nothing after COMMIT, so "done" stands for a committed
\* request whether or not the reply to its COMMIT arrives.
Commit(r) ==
  /\ pc[r] = "ready"
  /\ complaint' = [complaint EXCEPT ![call[r].complaint] = Overlay(@, r)]
  /\ history' = history \cup {HistoryRowOf(r)}
  /\ assignments' = assignments \cup Inserted(r, "assign")
  /\ escalations' = escalations \cup Inserted(r, "escalate")
  /\ lock' = Released(r)
  /\ pc' = [pc EXCEPT ![r] = "done"]
  /\ UNCHANGED <<auditLog, jobs, begun, locals, columns>>

\* A statement, the audit insert, the queue or the process fails: ROLLBACK.
\* What update() has saved, what the audit log and the queue hold, stays.
Fail(r) ==
  /\ pc[r] \in InFlight
  /\ lock' = Released(r)
  /\ pc' = [pc EXCEPT ![r] = "failed"]
  /\ UNCHANGED <<complaint, history, assignments, escalations, auditLog, jobs,
                 begun, locals, columns>>

Start(r) ==
  \/ NotFound(r)
  \/ \E c \in Complaints :
       \/ Update(r, c)
       \/ RejectUpdate(r, c)
       \/ \E s \in Targets : UpdateStatus(r, c, s)
       \/ Assign(r, c)
       \/ Escalate(r, c)

\* What a request does by itself once it has started.
Proceed(r) ==
  \/ Merge(r)
  \/ SaveUpdate(r)
  \/ SaveInTransaction(r)
  \/ LogAudit(r)
  \/ Notify(r)
  \/ Commit(r)

AllDone == \A r \in Requests : pc[r] \in {"done", "failed"}

\* Every request has been answered and no other comes.
Quiescent == AllDone /\ UNCHANGED vars

Next ==
  \/ \E r \in Requests : Start(r) \/ Proceed(r) \/ Fail(r)
  \/ Quiescent

Spec == Init /\ [][Next]_vars

-----------------------------------------------------------------------------
(* Properties.                                                              *)

\* Every committed history row has its audit row, with the same status before
\* and after when updateStatus() wrote it: the audit insert, on its own
\* connection, precedes the commit.
HistoryAudited ==
  \A h \in history :
    \E a \in auditLog :
      /\ a.by = h.by /\ a.complaint = h.complaint
      /\ a.op = "updateStatus" =>
           a.before = h.previousStatus /\ a.after = h.newStatus

Reached(c, s, rows) ==
  s = "submitted" \/ \E h \in rows : h.complaint = c /\ h.newStatus = s

\* The status a complaint shows is the first one or the new status of one of
\* its history rows, also after the stale writes of update(): no status comes
\* out of a transaction that was rolled back.
StatusReached == \A c \in Complaints : Reached(c, complaint[c].status, history)

\* A history row's previousStatus was established by another row: a handler
\* never records a status it had not read from a committed row.
HistoryConnected ==
  \A h \in history : Reached(h.complaint, h.previousStatus, history \ {h})

\* Nothing that a rolled back transaction wrote is seen in the row or in the
\* entity of any other request: no dirty read, also across stale writes.
RollbackLeavesNoTrace ==
  \A r \in Requests :
    pc[r] = "failed" =>
      /\ \A h \in history \cup assignments \cup escalations : h.by # r
      /\ \A c \in Complaints : complaint[c].closedAt # r
      /\ \A q \in Requests \ {r} : entity[q].closedAt # r

\* A step that changes a status commits a history row that says so, or is the
\* write of an update() of that complaint that read the status before.
StatusChangeRecorded ==
  [][\A c \in Complaints :
       complaint'[c].status # complaint[c].status =>
         \/ \E h \in history' \ history :
              h.complaint = c /\ h.newStatus = complaint'[c].status
         \/ \E r \in Requests :
              /\ call[r].op = "update" /\ call[r].complaint = c
              /\ pc[r] = "merged" /\ complaint'[c].status = previous[r]]_vars

\* Every change of a complaint's status is in the audit log, with the status
\* before and after.
EveryStatusChangeLogged ==
  [][\A c \in Complaints :
       complaint'[c].status # complaint[c].status =>
         \E a \in auditLog' :
           /\ a.complaint = c
           /\ \/ a.op \in {"assign", "escalate"}
              \/ a.before = complaint[c].status /\ a.after = complaint'[c].status]_vars

=============================================================================

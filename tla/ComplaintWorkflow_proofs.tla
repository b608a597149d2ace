---------------------- MODULE ComplaintWorkflow_proofs ----------------------
(***************************************************************************)
(* Type correctness of ComplaintWorkflow and its safety invariants, for any *)
(* set of requests and complaints, serialized or not.                       *)
(***************************************************************************)
EXTENDS ComplaintWorkflow, TLAPS

USE TargetsAssumption, NoneAssumption

-----------------------------------------------------------------------------
(* Values.                                                                  *)

\* A complaint as create() leaves it is a well-typed row.
LEMMA SubmittedIsRow == SubmittedRow \in Row
  BY DEF SubmittedRow, Row, ComplaintStatus

\* What a handler assigns to an entity keeps it a row.
LEMMA MutatedIsRow ==
  ASSUME NEW row \in Row, NEW r \in Requests, NEW op, NEW s \in ComplaintStatus
  PROVE  Mutated(row, r, op, s) \in Row
  BY DEF Mutated, Row

\* An UPDATE of some columns keeps the row a row.
LEMMA OverlayIsRow ==
  ASSUME TypeOK, NEW row \in Row, NEW r \in Requests
  PROVE  Overlay(row, r) \in Row
  BY DEF TypeOK, Overlay, Row

\* Giving up row locks leaves each with a request or with nobody.
LEMMA ReleasedIsLock ==
  ASSUME TypeOK, NEW r \in Requests
  PROVE  Released(r) \in [Complaints -> Requests \cup {None}]
  BY DEF TypeOK, Released

-----------------------------------------------------------------------------
(* Type correctness.                                                        *)

\* Reading a complaint keeps the types, whichever handler reads it.
LEMMA FindType ==
  ASSUME TypeOK, NEW r \in Requests, NEW op \in Operation,
         NEW c \in Complaints, NEW s \in ComplaintStatus, Find(r, op, c, s)
  PROVE  TypeOK'
  <1>1. /\ complaint[c] \in Row
        /\ complaint[c].status \in ComplaintStatus
        /\ [op |-> op, complaint |-> c, status |-> s] \in Call
    BY DEF TypeOK, Row, Call
  <1>2. Mutated(complaint[c], r, op, s) \in Row
    BY <1>1, MutatedIsRow
  <1>3. begun' \in Nat /\ startedAt' \in [Requests -> Nat]
    BY DEF TypeOK, Find
  <1>4. call' \in [Requests -> Call \cup {NoCall}] /\ call'[r] \in Call
    BY <1>1 DEF TypeOK, Find
  <1>5. entity' \in [Requests -> Row] /\ previous' \in [Requests -> ComplaintStatus]
    BY <1>1, <1>2 DEF TypeOK, Find
  <1>6. pc' \in [Requests -> Stage]
    BY DEF TypeOK, Find, Stage
  <1>7. \A q \in Requests : pc'[q] \in InFlight => call'[q] \in Call
    BY <1>1 DEF TypeOK, Find
  <1>8. UNCHANGED <<complaint, lock, history, assignments, escalations,
                    auditLog, jobs, columns>>
    BY DEF Find, database
  <1> QED
    BY <1>3, <1>4, <1>5, <1>6, <1>7, <1>8 DEF TypeOK

\* The first step of a handler keeps the types.
LEMMA StartType ==
  ASSUME TypeOK, NEW r \in Requests, Start(r)
  PROVE  TypeOK'
  <1>1. CASE NotFound(r)
    BY <1>1 DEF NotFound, TypeOK, database, locals, Stage, InFlight
  <1>2. ASSUME NEW c \in Complaints, Update(r, c)
        PROVE  TypeOK'
    <2>1. complaint[c].status \in ComplaintStatus
      BY DEF TypeOK, Row
    <2> QED
      BY <1>2, <2>1, FindType DEF Update, Operation
  <1>3. ASSUME NEW c \in Complaints, RejectUpdate(r, c)
        PROVE  TypeOK'
    BY <1>3 DEF RejectUpdate, TypeOK, database, locals, Stage, InFlight
  <1>4. ASSUME NEW c \in Complaints, NEW s \in Targets, UpdateStatus(r, c, s)
        PROVE  TypeOK'
    BY <1>4, FindType DEF UpdateStatus, Operation
  <1>5. ASSUME NEW c \in Complaints, Assign(r, c) \/ Escalate(r, c)
        PROVE  TypeOK'
    <2>1. "assigned" \in ComplaintStatus /\ "escalated" \in ComplaintStatus
      BY DEF ComplaintStatus
    <2> QED
      BY <1>5, <2>1, FindType DEF Assign, Escalate, Operation
  <1> QED
    BY <1>1, <1>2, <1>3, <1>4, <1>5 DEF Start

\* So does each later step of a handler,
LEMMA ProceedType ==
  ASSUME TypeOK, NEW r \in Requests, Proceed(r)
  PROVE  TypeOK'
  <1>1. CASE Merge(r)
    <2>1. columns' \in [Requests -> SUBSET Column]
      BY <1>1 DEF Merge, TypeOK
    <2> QED
      BY <1>1, <2>1 DEF Merge, TypeOK, database, locals, Stage, InFlight
  <1>2. CASE SaveUpdate(r)
    <2>1. call[r].complaint \in Complaints
      BY <1>2 DEF SaveUpdate, TypeOK, InFlight, Call
    <2>2. complaint' \in [Complaints -> Row]
      BY <1>2, <2>1, OverlayIsRow DEF SaveUpdate, TypeOK
    <2> QED
      BY <1>2, <2>2 DEF SaveUpdate, TypeOK, locals, Stage, InFlight
  <1>3. CASE SaveInTransaction(r)
    BY <1>3 DEF SaveInTransaction, TypeOK, locals, Stage, InFlight, Call
  <1>4. CASE LogAudit(r)
    <2>1. AuditRowOf(r) \in AuditRow
      BY <1>4 DEF LogAudit, AuditRowOf, AuditRow, TypeOK, InFlight, Call
    <2>2. pc' \in [Requests -> Stage]
      BY <1>4 DEF LogAudit, TypeOK, Stage
    <2>3. \A q \in Requests : pc'[q] \in InFlight => call[q] \in Call
      BY <1>4 DEF LogAudit, TypeOK, InFlight
    <2> QED
      BY <1>4, <2>1, <2>2, <2>3 DEF LogAudit, TypeOK, database, locals
  <1>5. CASE Notify(r)
    <2>1. call[r] \in Call /\ previous[r] \in ComplaintStatus
      BY <1>5 DEF Notify, TypeOK, InFlight
    <2>2. jobs' \subseteq Job
      BY <1>5, <2>1 DEF Notify, TypeOK, Job, Call
    <2> QED
      BY <1>5, <2>2 DEF Notify, TypeOK, database, locals, Stage, InFlight
  <1>6. CASE Commit(r)
    <2>1. /\ call[r] \in Call /\ previous[r] \in ComplaintStatus
          /\ startedAt[r] \in Nat
      BY <1>6 DEF Commit, TypeOK, InFlight
    <2>2. complaint' \in [Complaints -> Row]
      BY <1>6, <2>1, OverlayIsRow DEF Commit, TypeOK, Call
    <2>3. HistoryRowOf(r) \in HistoryRow
      BY <2>1 DEF HistoryRowOf, HistoryRow, Call
    <2>4. \A op \in Operation : Inserted(r, op) \subseteq CaseRow
      BY <2>1 DEF Inserted, CaseRow, Call
    <2>5. assignments' \subseteq CaseRow /\ escalations' \subseteq CaseRow
      BY <1>6, <2>4 DEF Commit, TypeOK, Operation
    <2> QED
      BY <1>6, <2>2, <2>3, <2>5, ReleasedIsLock
      DEF Commit, TypeOK, locals, Stage, InFlight
  <1> QED
    BY <1>1, <1>2, <1>3, <1>4, <1>5, <1>6 DEF Proceed

\* and a rollback.
LEMMA FailType ==
  ASSUME TypeOK, NEW r \in Requests, Fail(r)
  PROVE  TypeOK'
  BY ReleasedIsLock DEF Fail, TypeOK, locals, Stage, InFlight

\* The tables are well typed before the first request.
LEMMA InitType == Init => TypeOK
  BY SubmittedIsRow DEF Init, TypeOK, Stage, InFlight, ComplaintStatus

\* No step of the system breaks a type.
LEMMA NextType == TypeOK /\ [Next]_vars => TypeOK'
  <1> SUFFICES ASSUME TypeOK, [Next]_vars PROVE TypeOK'
    OBVIOUS
  <1>1. CASE UNCHANGED vars
    BY <1>1 DEF vars, database, locals, TypeOK
  <1>2. CASE Next
    BY <1>1, <1>2, StartType, ProceedType, FailType DEF Next, Quiescent
  <1> QED
    BY <1>1, <1>2

\* Every variable keeps its type: the handlers store complaint statuses and
\* only those, and a request that is under way has a call.
THEOREM TypeCorrect == Spec => []TypeOK
  <1>1. QED
    BY InitType, NextType, PTL DEF Spec

-----------------------------------------------------------------------------
(* HistoryAudited: the audit row of a transaction that has passed its audit *)
(* insert stays, whatever becomes of the transaction.                       *)

AuditedBeforeCommit ==
  \A r \in Requests :
    pc[r] \in {"audited", "ready"} => AuditRowOf(r) \in auditLog

AuditInv == AuditedBeforeCommit /\ HistoryAudited

\* Every step keeps the audit row ahead of the commit.
LEMMA AuditStep ==
  ASSUME TypeOK, AuditInv, [Next]_vars
  PROVE  AuditInv'
  <1> USE DEF AuditInv
  <1>1. auditLog \subseteq auditLog'
    BY DEF vars, Next, Quiescent, Start, Proceed, Fail, NotFound, Update,
           RejectUpdate, UpdateStatus, Assign, Escalate, Find, Merge, SaveUpdate,
           SaveInTransaction, LogAudit, Notify, Commit
  <1>2. CASE history' = history /\ UNCHANGED <<call, previous>>
             /\ \E r \in Requests :
                  \/ LogAudit(r)
                  \/ /\ pc[r] \in {"audited", "ready"} \/ pc'[r] \notin {"audited", "ready"}
                     /\ \A q \in Requests \ {r} : pc'[q] = pc[q]
    <2> PICK r \in Requests :
               \/ LogAudit(r)
               \/ /\ pc[r] \in {"audited", "ready"} \/ pc'[r] \notin {"audited", "ready"}
                  /\ \A q \in Requests \ {r} : pc'[q] = pc[q]
      BY <1>2
    <2>1. \A q \in Requests : AuditRowOf(q)' = AuditRowOf(q)
      BY <1>2 DEF AuditRowOf
    <2>2. AuditedBeforeCommit'
      BY <1>1, <2>1 DEF AuditedBeforeCommit, LogAudit, TypeOK
    <2> QED
      BY <1>1, <1>2, <2>2 DEF HistoryAudited
  <1>3. ASSUME NEW r \in Requests, NEW op, NEW c, NEW s, Find(r, op, c, s)
        PROVE  AuditInv'
    <2>1. \A q \in Requests : pc'[q] \in {"audited", "ready"} =>
            pc[q] = pc'[q] /\ AuditRowOf(q)' = AuditRowOf(q)
      BY <1>3 DEF Find, AuditRowOf, TypeOK
    <2> QED
      BY <1>3, <2>1 DEF Find, AuditedBeforeCommit, HistoryAudited, database
  <1>4. ASSUME NEW r \in Requests, Commit(r)
        PROVE  AuditInv'
    <2>1. \A q \in Requests : AuditRowOf(q)' = AuditRowOf(q)
      BY <1>4 DEF Commit, AuditRowOf, locals
    <2>2. AuditedBeforeCommit'
      BY <1>4, <2>1 DEF Commit, AuditedBeforeCommit, TypeOK
    <2>3. AuditRowOf(r) \in auditLog
      BY <1>4 DEF Commit, AuditedBeforeCommit
    <2>4. HistoryAudited'
      BY <1>4, <2>3 DEF Commit, HistoryAudited, HistoryRowOf, AuditRowOf
    <2> QED
      BY <2>2, <2>4
  <1>5. CASE UNCHANGED vars
    BY <1>5 DEF vars, database, locals, AuditedBeforeCommit, AuditRowOf, HistoryAudited
  <1>6. ASSUME NEW r \in Requests, Start(r) PROVE AuditInv'
    <2>1. ASSUME NEW c \in Complaints, RejectUpdate(r, c) PROVE AuditInv'
      BY <1>2, <2>1 DEF RejectUpdate, database, locals, TypeOK
    <2>2. CASE NotFound(r)
      BY <1>2, <2>2 DEF NotFound, database, locals, TypeOK
    <2> QED
      BY <1>3, <1>6, <2>1, <2>2 DEF Start, Update, UpdateStatus, Assign, Escalate
  <1>7. ASSUME NEW r \in Requests, Proceed(r) PROVE AuditInv'
    <2>1. CASE Merge(r)
      BY <1>2, <2>1 DEF Merge, database, locals, TypeOK
    <2>2. CASE SaveUpdate(r) \/ SaveInTransaction(r)
      BY <1>2, <2>2 DEF SaveUpdate, SaveInTransaction, locals, TypeOK
    <2>3. CASE LogAudit(r)
      BY <1>2, <2>3 DEF LogAudit, database, locals
    <2>4. CASE Notify(r)
      BY <1>2, <2>4 DEF Notify, database, locals, TypeOK
    <2> QED
      BY <1>4, <1>7, <2>1, <2>2, <2>3, <2>4 DEF Proceed
  <1>8. ASSUME NEW r \in Requests, Fail(r) PROVE AuditInv'
    BY <1>2, <1>8 DEF Fail, locals, TypeOK
  <1> QED
    BY <1>5, <1>6, <1>7, <1>8 DEF Next, Quiescent

\* No status is committed to the timeline that the audit log does not hold:
\* the transaction's audit row is durable before its COMMIT is issued.
THEOREM HistoryIsAudited == Spec => []HistoryAudited
  <1>1. Init => AuditInv
    BY DEF Init, AuditInv, AuditedBeforeCommit, HistoryAudited
  <1>2. TypeOK /\ AuditInv /\ [Next]_vars => AuditInv'
    BY AuditStep
  <1>3. AuditInv => HistoryAudited
    BY DEF AuditInv
  <1> QED
    BY <1>1, <1>2, <1>3, TypeCorrect, PTL DEF Spec

-----------------------------------------------------------------------------
(* StatusReached and HistoryConnected.  A status travels from a committed   *)
(* row into a request's entity and previousStatus and back into the row or  *)
(* into the timeline, possibly long after the row has moved on; since the   *)
(* timeline only grows, a status once reached stays reached.                *)

\* The rows a transaction inserts appear only when its request is done.
RowsOfDone ==
  \A h \in history \cup assignments \cup escalations : pc[h.by] = "done"

\* What a request in flight has read and is about to write.
PreviousReached ==
  \A r \in Requests : pc[r] \in InFlight =>
    /\ Reached(call[r].complaint, previous[r], history)
    /\ entity[r].status = IF Transactional(r) THEN call[r].status ELSE previous[r]

\* update() never comes near the COMMIT of a transaction.
CommitsAreTransactional ==
  \A r \in Requests : pc[r] \in {"audited", "ready"} => Transactional(r)

TimelineInv ==
  RowsOfDone /\ CommitsAreTransactional /\ PreviousReached /\ StatusReached /\ HistoryConnected

\* A timeline that grows reaches what it had reached.
LEMMA ReachedMonotone ==
  ASSUME NEW c, NEW s, NEW R, NEW S, R \subseteq S, Reached(c, s, R)
  PROVE  Reached(c, s, S)
  BY DEF Reached

\* Steps that commit nothing and leave the calls, entities and rows alone.
LEMMA TimelineKept ==
  ASSUME TypeOK, TimelineInv, NEW r \in Requests,
         UNCHANGED <<complaint, history, assignments, escalations, locals>>,
         pc[r] # "done",
         pc'[r] \in InFlight => pc[r] \in InFlight,
         pc'[r] \in {"audited", "ready"} => Transactional(r),
         \A q \in Requests \ {r} : pc'[q] = pc[q]
  PROVE  TimelineInv'
  BY DEF TimelineInv, RowsOfDone, PreviousReached, StatusReached, HistoryConnected,
         CommitsAreTransactional, Reached, Transactional, locals, TypeOK, HistoryRow, CaseRow

\* A request reads a status that the timeline has reached.
LEMMA TimelineFind ==
  ASSUME TypeOK, TimelineInv, NEW r \in Requests, NEW op \in Operation,
         NEW c \in Complaints, NEW s \in ComplaintStatus, Find(r, op, c, s)
  PROVE  TimelineInv'
  <1>1. /\ UNCHANGED <<complaint, history, assignments, escalations>>
        /\ pc[r] = "idle" /\ \A q \in Requests \ {r} : pc'[q] = pc[q]
        /\ \A q \in Requests \ {r} :
             call'[q] = call[q] /\ entity'[q] = entity[q] /\ previous'[q] = previous[q]
        /\ call'[r] = [op |-> op, complaint |-> c, status |-> s]
        /\ previous'[r] = complaint[c].status
        /\ entity'[r] = Mutated(complaint[c], r, op, s)
    BY DEF Find, TypeOK, database
  <1>2. RowsOfDone'
    BY <1>1 DEF TimelineInv, RowsOfDone, TypeOK, HistoryRow, CaseRow
  <1>3. entity'[r].status = IF op # "update" THEN s ELSE complaint[c].status
    BY <1>1 DEF Mutated, TypeOK, Row
  <1>4. PreviousReached' /\ CommitsAreTransactional'
    <2>1. pc'[r] = "found" /\ Transactional(r)' = (op # "update")
      BY <1>1 DEF Find, TypeOK, Transactional
    <2>2. \A q \in Requests \ {r} : Transactional(q)' = Transactional(q)
      BY <1>1 DEF Transactional
    <2>3. CommitsAreTransactional'
      BY <1>1, <2>1, <2>2 DEF TimelineInv, CommitsAreTransactional
    <2>4. ASSUME NEW q \in Requests, pc'[q] \in InFlight
          PROVE  /\ Reached(call'[q].complaint, previous'[q], history)
                 /\ entity'[q].status =
                      IF call'[q].op # "update" THEN call'[q].status ELSE previous'[q]
      <3>1. CASE q = r
        <4>1. call'[r].op = op /\ call'[r].complaint = c /\ call'[r].status = s
          BY <1>1
        <4>2. Reached(c, complaint[c].status, history)
          BY DEF TimelineInv, StatusReached
        <4> QED
          BY <1>1, <1>3, <3>1, <4>1, <4>2
      <3>2. CASE q # r
        BY <1>1, <2>4, <3>2 DEF TimelineInv, PreviousReached, Transactional
      <3> QED
        BY <3>1, <3>2
    <2> QED
      BY <1>1, <2>3, <2>4 DEF PreviousReached, Transactional
  <1> QED
    BY <1>1, <1>2, <1>4 DEF TimelineInv, StatusReached, HistoryConnected, Reached

\* The stale write of update() puts back a status that had been reached.
LEMMA TimelineSaveUpdate ==
  ASSUME TypeOK, TimelineInv, NEW r \in Requests, SaveUpdate(r)
  PROVE  TimelineInv'
  <1>1. /\ pc[r] = "merged" /\ pc'[r] = "written" /\ ~Transactional(r)
        /\ \A q \in Requests \ {r} : pc'[q] = pc[q]
        /\ UNCHANGED <<history, assignments, escalations, locals>>
    BY DEF SaveUpdate, TypeOK
  <1>2. /\ RowsOfDone' /\ CommitsAreTransactional'
        /\ PreviousReached' /\ HistoryConnected'
    BY <1>1 DEF TimelineInv, RowsOfDone, CommitsAreTransactional, PreviousReached, HistoryConnected, Reached,
                Transactional, locals, InFlight, TypeOK, HistoryRow, CaseRow
  <1>3. ASSUME NEW c \in Complaints
        PROVE  Reached(c, complaint'[c].status, history)
    <2>1. CASE c = call[r].complaint
      <3>1. complaint'[c] = Overlay(complaint[c], r)
        BY <2>1 DEF SaveUpdate, TypeOK
      <3>2. complaint'[c].status \in {complaint[c].status, previous[r]}
        BY <1>1, <3>1 DEF Overlay, TimelineInv, PreviousReached, InFlight
      <3> QED
        BY <1>1, <2>1, <3>2 DEF TimelineInv, PreviousReached, StatusReached, InFlight
    <2>2. CASE c # call[r].complaint
      BY <2>2 DEF SaveUpdate, TypeOK, TimelineInv, StatusReached
    <2> QED
      BY <2>1, <2>2
  <1> QED
    BY <1>1, <1>2, <1>3 DEF TimelineInv, StatusReached

\* A commit enters a row that links to what was reached before.
LEMMA TimelineCommit ==
  ASSUME TypeOK, TimelineInv, NEW r \in Requests, Commit(r)
  PROVE  TimelineInv'
  <1> DEFINE h == HistoryRowOf(r)
  <1>1. /\ pc[r] = "ready" /\ pc'[r] = "done"
        /\ \A q \in Requests \ {r} : pc'[q] = pc[q]
        /\ history' = history \cup {h} /\ UNCHANGED locals
        /\ call[r] \in Call /\ Transactional(r)
    BY DEF Commit, TypeOK, InFlight, TimelineInv, CommitsAreTransactional
  <1>2. /\ h.by = r /\ h.complaint = call[r].complaint
        /\ h.previousStatus = previous[r] /\ h.newStatus = call[r].status
    BY DEF HistoryRowOf
  <1>3. RowsOfDone'
    <2>1. \A i \in assignments' \cup escalations' :
            i \in assignments \cup escalations \/ i.by = r
      BY DEF Commit, Inserted
    <2> QED
      BY <1>1, <1>2, <2>1 DEF TimelineInv, RowsOfDone, TypeOK, HistoryRow, CaseRow
  <1>4. PreviousReached' /\ CommitsAreTransactional'
    BY <1>1, ReachedMonotone
    DEF TimelineInv, PreviousReached, CommitsAreTransactional, Transactional,
        locals, InFlight
  <1>5. ASSUME NEW c \in Complaints
        PROVE  Reached(c, complaint'[c].status, history')
    <2>1. CASE c = call[r].complaint
      <3>1. complaint'[c] = Overlay(complaint[c], r)
        BY <2>1 DEF Commit, TypeOK
      <3>2. complaint'[c].status \in {complaint[c].status, call[r].status}
        BY <1>1, <3>1 DEF Overlay, TimelineInv, PreviousReached, InFlight
      <3>3. Reached(c, call[r].status, history')
        BY <1>1, <1>2, <2>1 DEF Reached
      <3> QED
        BY <1>1, <3>2, <3>3, ReachedMonotone DEF TimelineInv, StatusReached
    <2>2. CASE c # call[r].complaint
      BY <1>1, <2>2, ReachedMonotone DEF Commit, TypeOK, TimelineInv, StatusReached
    <2> QED
      BY <2>1, <2>2
  <1>6. h \notin history
    BY <1>1, <1>2 DEF TimelineInv, RowsOfDone
  <1>7. HistoryConnected'
    <2>1. ASSUME NEW g \in history'
          PROVE  Reached(g.complaint, g.previousStatus, history' \ {g})
      <3>1. CASE g = h
        <4>1. history' \ {g} = history
          BY <1>1, <1>6, <3>1
        <4>2. Reached(h.complaint, h.previousStatus, history)
          BY <1>1, <1>2 DEF TimelineInv, PreviousReached, InFlight
        <4> QED
          BY <3>1, <4>1, <4>2
      <3>2. CASE g # h
        <4>1. g \in history /\ history \ {g} \subseteq history' \ {g}
          BY <1>1, <2>1, <3>2
        <4> QED
          BY <4>1, ReachedMonotone DEF TimelineInv, HistoryConnected
      <3> QED
        BY <3>1, <3>2
    <2> QED
      BY <2>1 DEF HistoryConnected
  <1> QED
    BY <1>3, <1>4, <1>5, <1>7 DEF TimelineInv, StatusReached

\* Every step keeps the timeline invariant.
LEMMA TimelineStep ==
  ASSUME TypeOK, TimelineInv, [Next]_vars
  PROVE  TimelineInv'
  <1>1. CASE UNCHANGED vars
    BY <1>1 DEF vars, database, locals, TimelineInv, RowsOfDone, PreviousReached,
                CommitsAreTransactional, StatusReached, HistoryConnected, Reached,
                Transactional
  <1>2. ASSUME NEW r \in Requests, Start(r) PROVE TimelineInv'
    <2>1. CASE NotFound(r)
      BY <2>1, TimelineKept DEF NotFound, database, TypeOK, InFlight
    <2>2. ASSUME NEW c \in Complaints, Update(r, c) PROVE TimelineInv'
      <3>1. complaint[c].status \in ComplaintStatus
        BY DEF TypeOK, Row
      <3> QED
        BY <2>2, <3>1, TimelineFind DEF Update, Operation
    <2>3. ASSUME NEW c \in Complaints, RejectUpdate(r, c) PROVE TimelineInv'
      BY <2>3, TimelineKept DEF RejectUpdate, database, TypeOK, InFlight
    <2>4. ASSUME NEW c \in Complaints, NEW s \in Targets, UpdateStatus(r, c, s)
          PROVE  TimelineInv'
      BY <2>4, TimelineFind DEF UpdateStatus, Operation
    <2>5. ASSUME NEW c \in Complaints, Assign(r, c) \/ Escalate(r, c)
          PROVE  TimelineInv'
      <3>1. "assigned" \in ComplaintStatus /\ "escalated" \in ComplaintStatus
        BY DEF ComplaintStatus
      <3> QED
        BY <2>5, <3>1, TimelineFind DEF Assign, Escalate, Operation
    <2> QED
      BY <1>2, <2>1, <2>2, <2>3, <2>4, <2>5 DEF Start
  <1>3. ASSUME NEW r \in Requests, Proceed(r) PROVE TimelineInv'
    <2>1. CASE Merge(r)
      BY <2>1, TimelineKept DEF Merge, database, TypeOK, InFlight
    <2>2. CASE SaveInTransaction(r)
      BY <2>2, TimelineKept DEF SaveInTransaction, TypeOK, InFlight
    <2>3. CASE LogAudit(r)
      <3>1. pc[r] = "written" /\ pc'[r] \in {"done", "audited", "ready"}
        BY <2>3 DEF LogAudit, TypeOK
      <3>2. pc'[r] \in {"audited", "ready"} => Transactional(r)
        BY <2>3 DEF LogAudit, TypeOK, Transactional
      <3> QED
        BY <2>3, <3>1, <3>2, TimelineKept DEF LogAudit, database, TypeOK, InFlight
    <2>4. CASE Notify(r)
      <3>1. Transactional(r)
        BY <2>4 DEF Notify, TimelineInv, CommitsAreTransactional
      <3> QED
        BY <2>4, <3>1, TimelineKept DEF Notify, database, TypeOK, InFlight
    <2> QED
      BY <1>3, <2>1, <2>2, <2>3, <2>4, TimelineSaveUpdate, TimelineCommit DEF Proceed
  <1>4. ASSUME NEW r \in Requests, Fail(r) PROVE TimelineInv'
    BY <1>4, TimelineKept DEF Fail, TypeOK, InFlight
  <1> QED
    BY <1>1, <1>2, <1>3, <1>4 DEF Next, Quiescent

\* It holds of a database in which nothing has happened yet.
LEMMA TimelineInit == Init => TimelineInv
  BY DEF Init, TimelineInv, RowsOfDone, CommitsAreTransactional, PreviousReached,
         StatusReached, HistoryConnected, Reached, SubmittedRow, InFlight

\* The statuses in rows, in entities and in history rows have all been reached by
\* committed history rows: the inductive invariant behind the next two theorems.
THEOREM TimelineInvariant == Spec => []TimelineInv
  <1>1. TypeOK /\ TimelineInv /\ [Next]_vars => TimelineInv'
    BY TimelineStep
  <1> QED
    BY <1>1, TimelineInit, TypeCorrect, PTL DEF Spec

\* Whatever the interleaving, a complaint shows a status that its timeline
\* reached: stale writes bring back old statuses, never uncommitted ones.
THEOREM StatusIsReached == Spec => []StatusReached
  <1>1. TimelineInv => StatusReached
    BY DEF TimelineInv
  <1> QED
    BY <1>1, TimelineInvariant, PTL

\* Every entry of a timeline starts from a status that another entry, or the
\* submission, had established.
THEOREM HistoryIsConnected == Spec => []HistoryConnected
  <1>1. TimelineInv => HistoryConnected
    BY DEF TimelineInv
  <1> QED
    BY <1>1, TimelineInvariant, PTL

-----------------------------------------------------------------------------
(* RollbackLeavesNoTrace: a closing stamp in a committed row, or read into  *)
(* another request's entity, belongs to a request that committed.           *)

StampOfDone(stamp) == stamp = None \/ pc[stamp] = "done"

StampsOfDone ==
  /\ \A c \in Complaints : StampOfDone(complaint[c].closedAt)
  /\ \A q \in Requests :
       \/ StampOfDone(entity[q].closedAt)
       \/ /\ entity[q].closedAt = q
          /\ pc[q] \in InFlight => Transactional(q)

\* Steps that change neither rows nor entities, nor end in a commit.
LEMMA StampsKept ==
  ASSUME TypeOK, StampsOfDone, NEW r \in Requests,
         UNCHANGED <<complaint, locals>>, pc[r] # "done",
         pc'[r] \in InFlight => pc[r] \in InFlight,
         \A q \in Requests \ {r} : pc'[q] = pc[q]
  PROVE  StampsOfDone'
  BY DEF StampsOfDone, StampOfDone, Transactional, locals, TypeOK, Row

\* A request that reads a row finds no stamp of an unfinished transaction.
LEMMA StampsFind ==
  ASSUME TypeOK, StampsOfDone, NEW r \in Requests, NEW op \in Operation,
         NEW c \in Complaints, NEW s \in ComplaintStatus, Find(r, op, c, s)
  PROVE  StampsOfDone'
  <1>1. /\ UNCHANGED complaint
        /\ pc[r] = "idle" /\ \A q \in Requests \ {r} : pc'[q] = pc[q]
        /\ \A q \in Requests \ {r} : call'[q] = call[q] /\ entity'[q] = entity[q]
        /\ call'[r] = [op |-> op, complaint |-> c, status |-> s]
        /\ entity'[r] = Mutated(complaint[c], r, op, s)
        /\ pc'[r] = "found"
    BY DEF Find, TypeOK, database
  <1>2. call'[r].op = op
    BY <1>1
  <1>3. \/ entity'[r].closedAt = complaint[c].closedAt
        \/ entity'[r].closedAt = r /\ op = "updateStatus"
    BY <1>1 DEF Mutated, TypeOK, Row
  <1>4. \A d \in Complaints : StampOfDone(complaint[d].closedAt)'
    BY <1>1 DEF StampsOfDone, StampOfDone, TypeOK, Row
  <1>5. ASSUME NEW q \in Requests
        PROVE  \/ StampOfDone(entity[q].closedAt)'
               \/ /\ entity'[q].closedAt = q
                  /\ pc'[q] \in InFlight => call'[q].op # "update"
    <2>1. CASE q = r
      BY <1>1, <1>2, <1>3, <1>4, <2>1 DEF StampOfDone
    <2>2. CASE q # r
      BY <1>1, <2>2 DEF StampsOfDone, StampOfDone, Transactional, TypeOK, Row
    <2> QED
      BY <2>1, <2>2
  <1> QED
    BY <1>4, <1>5 DEF StampsOfDone, Transactional

\* The two steps that put a request's entity into the committed row.
LEMMA StampsWritten ==
  ASSUME TypeOK, StampsOfDone, NEW r \in Requests,
         pc[r] \in InFlight, call[r] \in Call,
         complaint' = [complaint EXCEPT ![call[r].complaint] = Overlay(@, r)],
         UNCHANGED locals, pc'[r] \in {"written", "done"},
         pc'[r] = "written" => ~Transactional(r),
         \A q \in Requests \ {r} : pc'[q] = pc[q]
  PROVE  StampsOfDone'
  <1>1. \A c \in Complaints :
          complaint'[c].closedAt \in {complaint[c].closedAt, entity[r].closedAt}
    BY DEF Overlay, TypeOK, Row, Call
  <1>2. \A q \in Requests : StampOfDone(entity[q].closedAt)
                             => StampOfDone(entity[q].closedAt)'
    BY DEF StampOfDone, locals, TypeOK, Row, InFlight
  <1>3. \A c \in Complaints : StampOfDone(complaint[c].closedAt)
                               => complaint[c].closedAt = None
                                  \/ pc'[complaint[c].closedAt] = "done"
    BY DEF StampOfDone, TypeOK, Row, InFlight
  <1>4. entity[r].closedAt = None \/ pc'[entity[r].closedAt] = "done"
    BY <1>2 DEF StampsOfDone, StampOfDone, locals, TypeOK, Row
  <1>5. \A c \in Complaints : StampOfDone(complaint[c].closedAt)'
    BY <1>1, <1>3, <1>4 DEF StampsOfDone, StampOfDone
  <1>6. \A q \in Requests : Transactional(q)' = Transactional(q)
    BY DEF Transactional, locals
  <1> QED
    BY <1>2, <1>4, <1>5, <1>6 DEF StampsOfDone, StampOfDone, locals, InFlight

\* Every step keeps the stamps in rows those of finished transactions.
LEMMA StampsStep ==
  ASSUME TypeOK, StampsOfDone, TimelineInv, [Next]_vars
  PROVE  StampsOfDone'
  <1>1. CASE UNCHANGED vars
    BY <1>1 DEF vars, database, locals, StampsOfDone, StampOfDone, Transactional
  <1>2. ASSUME NEW r \in Requests, Start(r) PROVE StampsOfDone'
    <2>1. CASE NotFound(r)
      BY <2>1, StampsKept DEF NotFound, database, TypeOK, InFlight
    <2>2. ASSUME NEW c \in Complaints, Update(r, c) PROVE StampsOfDone'
      <3>1. complaint[c].status \in ComplaintStatus
        BY DEF TypeOK, Row
      <3> QED
        BY <2>2, <3>1, StampsFind DEF Update, Operation
    <2>3. ASSUME NEW c \in Complaints, RejectUpdate(r, c) PROVE StampsOfDone'
      BY <2>3, StampsKept DEF RejectUpdate, database, TypeOK, InFlight
    <2>4. ASSUME NEW c \in Complaints, NEW s \in Targets, UpdateStatus(r, c, s)
          PROVE  StampsOfDone'
      BY <2>4, StampsFind DEF UpdateStatus, Operation
    <2>5. ASSUME NEW c \in Complaints, Assign(r, c) \/ Escalate(r, c)
          PROVE  StampsOfDone'
      <3>1. "assigned" \in ComplaintStatus /\ "escalated" \in ComplaintStatus
        BY DEF ComplaintStatus
      <3> QED
        BY <2>5, <3>1, StampsFind DEF Assign, Escalate, Operation
    <2> QED
      BY <1>2, <2>1, <2>2, <2>3, <2>4, <2>5 DEF Start
  <1>3. ASSUME NEW r \in Requests, Proceed(r) PROVE StampsOfDone'
    <2>1. CASE Merge(r)
      BY <2>1, StampsKept DEF Merge, database, TypeOK, InFlight
    <2>2. CASE SaveInTransaction(r)
      BY <2>2, StampsKept DEF SaveInTransaction, TypeOK, InFlight
    <2>3. CASE LogAudit(r)
      BY <2>3, StampsKept DEF LogAudit, database, TypeOK, InFlight
    <2>4. CASE Notify(r)
      BY <2>4, StampsKept DEF Notify, database, TypeOK, InFlight
    <2>5. CASE SaveUpdate(r)
      <3>1. pc[r] \in InFlight /\ call[r] \in Call
        BY <2>5 DEF SaveUpdate, TypeOK, InFlight
      <3> QED
        BY <2>5, <3>1, StampsWritten DEF SaveUpdate, TypeOK
    <2>6. CASE Commit(r)
      <3>1. pc[r] \in InFlight /\ call[r] \in Call
        BY <2>6 DEF Commit, TypeOK, InFlight
      <3> QED
        BY <2>6, <3>1, StampsWritten DEF Commit, TypeOK
    <2> QED
      BY <1>3, <2>1, <2>2, <2>3, <2>4, <2>5, <2>6 DEF Proceed
  <1>4. ASSUME NEW r \in Requests, Fail(r) PROVE StampsOfDone'
    BY <1>4, StampsKept DEF Fail, TypeOK, InFlight
  <1> QED
    BY <1>1, <1>2, <1>3, <1>4 DEF Next, Quiescent

\* A transaction that was rolled back is seen nowhere, neither in a row nor in
\* what any other request carries in memory.
THEOREM NoTraceOfRollback == Spec => []RollbackLeavesNoTrace
  <1>1. Init => StampsOfDone
    BY DEF Init, StampsOfDone, StampOfDone, SubmittedRow
  <1>2. TypeOK /\ TimelineInv /\ StampsOfDone /\ [Next]_vars => StampsOfDone'
    BY StampsStep
  <1>3. TypeOK /\ TimelineInv /\ StampsOfDone => RollbackLeavesNoTrace
    <2> SUFFICES ASSUME TypeOK, TimelineInv, StampsOfDone,
                        NEW r \in Requests, pc[r] = "failed"
                 PROVE  /\ \A h \in history \cup assignments \cup escalations : h.by # r
                        /\ \A c \in Complaints : complaint[c].closedAt # r
                        /\ \A q \in Requests \ {r} : entity[q].closedAt # r
      BY DEF RollbackLeavesNoTrace
    <2>1. ~StampOfDone(r)
      BY DEF StampOfDone
    <2> QED
      BY <2>1 DEF TimelineInv, RowsOfDone, StampsOfDone
  <1> QED
    BY <1>1, <1>2, <1>3, TimelineInvariant, TypeCorrect, PTL DEF Spec

-----------------------------------------------------------------------------
(* StatusChangeRecorded, from the part of TimelineInv that says what a      *)
(* request's entity holds.                                                  *)

StatusRecorded ==
  \A c \in Complaints :
    complaint'[c].status # complaint[c].status =>
      \/ \E h \in history' \ history :
           h.complaint = c /\ h.newStatus = complaint'[c].status
      \/ \E r \in Requests :
           /\ call[r].op = "update" /\ call[r].complaint = c
           /\ pc[r] = "merged" /\ complaint'[c].status = previous[r]

\* One step that changes a status is recorded as the action property says.
LEMMA ChangeIsRecorded ==
  ASSUME TypeOK, TimelineInv, [Next]_vars
  PROVE  StatusRecorded
  <1>1. CASE UNCHANGED complaint
    BY <1>1 DEF StatusRecorded
  <1>2. ASSUME NEW r \in Requests, Commit(r) PROVE StatusRecorded
    <2> SUFFICES ASSUME NEW c \in Complaints,
                        complaint'[c].status # complaint[c].status
                 PROVE  \E h \in history' \ history :
                          h.complaint = c /\ h.newStatus = complaint'[c].status
      BY DEF StatusRecorded
    <2> DEFINE h == HistoryRowOf(r)
    <2>1. /\ pc[r] = "ready" /\ Transactional(r)
          /\ entity[r].status = call[r].status
      BY <1>2 DEF Commit, TimelineInv, CommitsAreTransactional, PreviousReached, InFlight
    <2>2. c = call[r].complaint /\ complaint'[c] = Overlay(complaint[c], r)
      BY <1>2 DEF Commit, TypeOK
    <2>3. complaint'[c].status = call[r].status
      BY <2>1, <2>2 DEF Overlay
    <2>4. h \in history' /\ h.complaint = c /\ h.newStatus = complaint'[c].status
      BY <1>2, <2>2, <2>3 DEF Commit, HistoryRowOf
    <2>5. h \notin history
      BY <2>1 DEF HistoryRowOf, TimelineInv, RowsOfDone
    <2> QED
      BY <2>4, <2>5
  <1>3. ASSUME NEW r \in Requests, SaveUpdate(r) PROVE StatusRecorded
    <2> SUFFICES ASSUME NEW c \in Complaints,
                        complaint'[c].status # complaint[c].status
                 PROVE  /\ call[r].op = "update" /\ call[r].complaint = c
                        /\ pc[r] = "merged" /\ complaint'[c].status = previous[r]
      BY DEF StatusRecorded
    <2>1. pc[r] = "merged" /\ ~Transactional(r) /\ entity[r].status = previous[r]
      BY <1>3 DEF SaveUpdate, TimelineInv, PreviousReached, InFlight
    <2>2. call[r].complaint = c /\ complaint'[c] = Overlay(complaint[c], r)
      BY <1>3 DEF SaveUpdate, TypeOK
    <2> QED
      BY <2>1, <2>2 DEF Overlay, Transactional
  <1> QED
    BY <1>1, <1>2, <1>3
    DEF vars, database, Next, Quiescent, Start, Proceed, Fail, NotFound, Update,
        RejectUpdate, UpdateStatus, Assign, Escalate, Find, Merge,
        SaveInTransaction, LogAudit, Notify

\* No status changes silently, except by the stale write of an update(), which
\* brings back the status it had read.
THEOREM StatusChangesAreRecorded == Spec => StatusChangeRecorded
  <1>1. TypeOK /\ TimelineInv /\ [Next]_vars => [StatusRecorded]_vars
    BY ChangeIsRecorded
  <1>2. [][StatusRecorded]_vars => StatusChangeRecorded
    BY DEF StatusRecorded, StatusChangeRecorded
  <1> QED
    BY <1>1, <1>2, TimelineInvariant, TypeCorrect, PTL DEF Spec

=============================================================================

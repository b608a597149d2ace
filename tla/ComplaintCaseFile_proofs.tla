---------------------- MODULE ComplaintCaseFile_proofs ----------------------
(***************************************************************************)
(* For any set of requests and complaints, ComplaintWorkflow implements     *)
(* CaseRecord, and CaseFile when requests on one complaint take turns.      *)
(***************************************************************************)
EXTENDS ComplaintCaseFile, ComplaintWorkflow_proofs

-----------------------------------------------------------------------------
(* A transaction whose UPDATE leaves the status column alone - the row had  *)
(* the status wanted when save() read it again - still commits a history    *)
(* row for that status, perhaps after the row has moved on.  It is no news  *)
(* to the timeline, which is what MergedReached says.                       *)

Past == {"merged", "written", "audited", "ready"}

MergedReached ==
  \A r \in Requests : pc[r] \in Past =>
    "status" \in columns[r] \/ Reached(call[r].complaint, entity[r].status, history)

RecordInv == TypeOK /\ TimelineInv /\ MergedReached

\* Steps that leave what requests hold alone, while the timeline may grow.
LEMMA MergedKept ==
  ASSUME MergedReached, NEW r \in Requests, history \subseteq history',
         UNCHANGED <<locals, columns>>,
         pc'[r] \in Past => pc[r] \in Past,
         \A q \in Requests \ {r} : pc'[q] = pc[q]
  PROVE  MergedReached'
  <1> SUFFICES ASSUME NEW q \in Requests, pc'[q] \in Past, "status" \notin columns'[q]
               PROVE  Reached(call'[q].complaint, entity'[q].status, history')
    BY DEF MergedReached
  <1>1. pc[q] \in Past /\ columns'[q] = columns[q]
        /\ call'[q] = call[q] /\ entity'[q] = entity[q]
    BY DEF locals
  <1>2. Reached(call[q].complaint, entity[q].status, history)
    BY <1>1 DEF MergedReached
  <1> QED
    BY <1>1, <1>2, ReachedMonotone

\* Reading a complaint says nothing of a merge.
LEMMA MergedFind ==
  ASSUME TypeOK, MergedReached, NEW r \in Requests, NEW op, NEW c, NEW s, Find(r, op, c, s)
  PROVE  MergedReached'
  <1>1. /\ pc'[r] = "found" /\ history' = history /\ columns' = columns
        /\ \A q \in Requests \ {r} :
             pc'[q] = pc[q] /\ call'[q] = call[q] /\ entity'[q] = entity[q]
    BY DEF Find, TypeOK, database
  <1> QED
    BY <1>1 DEF MergedReached, Past

\* The second SELECT of save() finds the status that the row shows.
LEMMA MergedMerge ==
  ASSUME TypeOK, TimelineInv, MergedReached, NEW r \in Requests, Merge(r)
  PROVE  MergedReached'
  <1>1. /\ history' = history /\ call' = call /\ entity' = entity
        /\ \A q \in Requests \ {r} : pc'[q] = pc[q] /\ columns'[q] = columns[q]
        /\ columns'[r] = {k \in Column : entity[r][k] # complaint[call[r].complaint][k]}
    BY DEF Merge, TypeOK, database, locals
  <1>2. ASSUME "status" \notin columns'[r]
        PROVE  Reached(call[r].complaint, entity[r].status, history)
    <2>1. entity[r].status = complaint[call[r].complaint].status
      BY <1>1, <1>2 DEF Column
    <2>2. call[r].complaint \in Complaints
      BY DEF Merge, TypeOK, InFlight, Call
    <2> QED
      BY <2>1, <2>2 DEF TimelineInv, StatusReached
  <1> QED
    BY <1>1, <1>2 DEF MergedReached

\* Every step keeps it.
LEMMA MergedStep ==
  ASSUME RecordInv, [Next]_vars
  PROVE  MergedReached'
  <1> USE DEF RecordInv
  <1>1. CASE UNCHANGED vars
    BY <1>1 DEF vars, database, locals, MergedReached, Reached
  <1>2. ASSUME NEW r \in Requests, Start(r) PROVE MergedReached'
    <2>1. CASE NotFound(r) \/ \E c \in Complaints : RejectUpdate(r, c)
      BY <2>1, MergedKept DEF NotFound, RejectUpdate, database, TypeOK, Past
    <2> QED
      BY <1>2, <2>1, MergedFind DEF Start, Update, UpdateStatus, Assign, Escalate
  <1>3. ASSUME NEW r \in Requests, Proceed(r) PROVE MergedReached'
    <2>1. CASE SaveUpdate(r) \/ SaveInTransaction(r)
      BY <2>1, MergedKept DEF SaveUpdate, SaveInTransaction, TypeOK, Past
    <2>2. CASE LogAudit(r) \/ Notify(r)
      BY <2>2, MergedKept DEF LogAudit, Notify, database, TypeOK, Past
    <2>3. CASE Commit(r)
      BY <2>3, MergedKept DEF Commit, TypeOK, Past
    <2> QED
      BY <1>3, <2>1, <2>2, <2>3, MergedMerge DEF Proceed
  <1>4. ASSUME NEW r \in Requests, Fail(r) PROVE MergedReached'
    BY <1>4, MergedKept DEF Fail, TypeOK, Past
  <1> QED
    BY <1>1, <1>2, <1>3, <1>4 DEF Next, Quiescent

\* Types, timeline and merges together are inductive.
LEMMA RecordStep == RecordInv /\ [Next]_vars => RecordInv'
  BY NextType, TimelineStep, MergedStep DEF RecordInv

LEMMA RecordInit == Init => RecordInv
  <1>1. Init => MergedReached
    BY DEF Init, MergedReached, Past
  <1> QED
    BY <1>1, InitType, TimelineInit DEF RecordInv

-----------------------------------------------------------------------------
(* The refinement.                                                          *)

\* A status is in the timeline if and only if it was reached.
LEMMA StatusesAreReached ==
  ASSUME NEW c, NEW s
  PROVE  s \in Statuses(c) <=> Reached(c, s, history)
  BY DEF Statuses, Reached

\* The handlers start where the case record does.
LEMMA RecordStarts == Init => CR!Init
  <1> SUFFICES ASSUME Init PROVE CR!Init
    OBVIOUS
  <1>1. \A c \in Complaints : complaint[c].status = "submitted"
    BY DEF Init, SubmittedRow
  <1>2. "submitted" # None
    BY NoneAssumption DEF ComplaintStatus
  <1>3. \A c : Statuses(c) = {"submitted"}
    BY DEF Init, Statuses
  <1> QED
    BY <1>1, <1>2, <1>3 DEF CR!Init

\* The stale write of update(): an earlier status comes back.
LEMMA SaveRestores ==
  ASSUME RecordInv, NEW r \in Requests, SaveUpdate(r)
  PROVE  CR!Next
  <1> DEFINE c == call[r].complaint
             s == complaint'[c].status
  <1>1. /\ c \in Complaints /\ complaint' = [complaint EXCEPT ![c] = Overlay(@, r)]
        /\ complaint \in [Complaints -> Row] /\ history' = history
    BY DEF SaveUpdate, RecordInv, TypeOK, InFlight, Call
  <1>2. s \in Statuses(c)
    <2>1. s \in {complaint[c].status, entity[r].status}
      BY <1>1 DEF Overlay
    <2>2. Reached(c, complaint[c].status, history)
      BY <1>1 DEF RecordInv, TimelineInv, StatusReached
    <2>3. Reached(c, entity[r].status, history)
      BY DEF SaveUpdate, RecordInv, TimelineInv, PreviousReached, InFlight
    <2> QED
      BY <2>1, <2>2, <2>3, StatusesAreReached
  <1>3. CR!Enter(c, s)
    <2>1. \A d : Statuses(d)' = Statuses(d)
      BY <1>1 DEF Statuses
    <2>2. \A d \in Complaints \ {c} : complaint'[d] = complaint[d]
      BY <1>1
    <2> QED
      BY <1>1, <1>2, <2>1, <2>2 DEF CR!Enter
  <1>4. s \in [d \in Complaints |-> Statuses(d)][c]
    BY <1>1, <1>2
  <1>5. CR!Restore(c)
    BY <1>3, <1>4 DEF CR!Restore, CR!Enter
  <1> QED
    BY <1>1, <1>5 DEF CR!Next, CR!Change

\* A COMMIT: the status moves with its entry, or neither changes.
LEMMA CommitMoves ==
  ASSUME RecordInv, NEW r \in Requests, Commit(r)
  PROVE  CR!Next \/ UNCHANGED CR!vars
  <1> DEFINE c == call[r].complaint
             s == call[r].status
  <1>1. /\ c \in Complaints /\ complaint' = [complaint EXCEPT ![c] = Overlay(@, r)]
        /\ complaint \in [Complaints -> Row] /\ s \in ComplaintStatus
        /\ history' = history \cup {HistoryRowOf(r)}
    BY DEF Commit, RecordInv, TypeOK, InFlight, Call
  <1>2. entity[r].status = s
    BY DEF Commit, RecordInv, TimelineInv, PreviousReached, CommitsAreTransactional, InFlight
  <1>3. \A d \in Complaints : Statuses(d)' = IF d = c THEN Statuses(d) \cup {s} ELSE Statuses(d)
    <2> DEFINE h == HistoryRowOf(r)
    <2>1. h.complaint = c /\ h.newStatus = s
      BY DEF HistoryRowOf
    <2> HIDE DEF h
    <2>2. ASSUME NEW d \in Complaints, NEW x
          PROVE  x \in Statuses(d)' <=> x \in Statuses(d) \/ (d = c /\ x = s)
      BY <1>1, <2>1 DEF Statuses, h
    <2> QED
      BY <2>2
  <1>4. \A d \in Complaints \ {c} : complaint'[d] = complaint[d]
    BY <1>1
  <1>5. CASE "status" \in columns[r]
    <2>1. complaint'[c].status = s
      BY <1>1, <1>2, <1>5 DEF Overlay
    <2>2. CR!Enter(c, s)
      BY <1>1, <1>3, <1>4, <2>1 DEF CR!Enter
    <2>3. complaint[c].status # None
      BY <1>1, NoneAssumption DEF Row
    <2>4. CR!Move(c, s)
      BY <1>1, <2>2, <2>3 DEF CR!Move
    <2> QED
      BY <1>1, <2>4 DEF CR!Next, CR!Change, CR!Move, CR!Enter
  <1>6. CASE "status" \notin columns[r]
    <2>1. complaint'[c].status = complaint[c].status
      BY <1>1, <1>6 DEF Overlay
    <2>2. s \in Statuses(c)
      BY <1>2, <1>6, StatusesAreReached DEF RecordInv, MergedReached, Commit, Past
    <2>3. \A d \in Complaints : complaint'[d].status = complaint[d].status
                                /\ Statuses(d)' = Statuses(d)
      BY <1>3, <1>4, <2>1, <2>2
    <2> QED
      BY <2>3 DEF CR!vars
  <1> QED
    BY <1>5, <1>6

\* Every step of the handlers is a step of the case record or a stutter.
LEMMA RecordSimulates ==
  ASSUME RecordInv, [Next]_vars
  PROVE  [CR!Next]_(CR!vars)
  <1>1. CASE UNCHANGED <<complaint, history>>
    BY <1>1 DEF CR!vars, Statuses
  <1> QED
    BY <1>1, SaveRestores, CommitMoves
    DEF vars, database, Next, Quiescent, Start, Proceed, Fail, NotFound, Update,
        RejectUpdate, UpdateStatus, Assign, Escalate, Find, Merge,
        SaveInTransaction, LogAudit, Notify

\* However many requests interleave on however many complaints, what their
\* handlers do to status and timeline is a case record.
THEOREM CaseRecordIsImplemented == Spec => ImplementsCaseRecord
  <1>1. RecordInv /\ [Next]_vars => [CR!Next]_(CR!vars)
    BY RecordSimulates
  <1> QED
    BY <1>1, RecordInit, RecordStep, RecordStarts, PTL DEF Spec, ImplementsCaseRecord, CR!Spec

-----------------------------------------------------------------------------
(* The case file, when requests for one complaint take turns.  A request    *)
(* that has yet to write its row is then the only one that works on it: the *)
(* row is still the one it read, and the last history row of the complaint  *)
(* is older than its transaction.                                           *)

\* The request has read its row and has still to write it.
Unsaved(r) ==
  \/ pc[r] \in {"found", "merged"}
  \/ pc[r] \in {"written", "audited", "ready"} /\ Transactional(r)

OneAtATime ==
  \A q, r \in Requests :
    pc[q] \in InFlight /\ pc[r] \in InFlight /\ q # r
      => call[q].complaint # call[r].complaint

\* Only an editable complaint is edited; only updateStatus() can close.
CallsGuarded ==
  \A r \in Requests :
    /\ call[r].op = "update" => previous[r] \in Editable
    /\ call[r].op \in {"assign", "escalate"} => call[r].status \notin Closing

RowAsRead ==
  \A r \in Requests : Unsaved(r) =>
    /\ previous[r] = complaint[call[r].complaint].status
    /\ entity[r] = Mutated(complaint[call[r].complaint], r, call[r].op, call[r].status)
    /\ pc[r] # "found" =>
         columns[r] = {k \in Column : entity[r][k] # complaint[call[r].complaint][k]}

StartedLater ==
  /\ \A h \in history : h.at <= begun
  /\ \A r \in Requests : Unsaved(r) /\ Transactional(r) =>
       /\ startedAt[r] <= begun
       /\ \A h \in history : h.complaint = call[r].complaint => h.at < startedAt[r]

SerialInv == OneAtATime /\ CallsGuarded /\ RowAsRead /\ StartedLater

\* Nothing is in flight at the start.
LEMMA SerialInit == Init => SerialInv
  BY DEF Init, SerialInv, OneAtATime, CallsGuarded, RowAsRead, StartedLater, Unsaved,
         InFlight, NoCall

\* Steps that touch neither rows nor timeline nor what requests hold, and let
\* no request come nearer to its write unless it was on its way.
LEMMA SerialKept ==
  ASSUME TypeOK, SerialInv, NEW r \in Requests,
         UNCHANGED <<complaint, history, begun, locals, columns>>,
         pc'[r] \in InFlight => pc[r] \in InFlight /\ pc[r] # "found" /\ pc'[r] # "found",
         Unsaved(r)' => Unsaved(r),
         \A q \in Requests \ {r} : pc'[q] = pc[q]
  PROVE  SerialInv'
  <1>1. \A q \in Requests : pc'[q] \in InFlight =>
          pc[q] \in InFlight /\ (pc[q] = "found" <=> pc'[q] = "found")
    OBVIOUS
  <1>2. ASSUME NEW q \in Requests, Unsaved(q)'
        PROVE  Unsaved(q) /\ (pc[q] = "found" <=> pc'[q] = "found")
    BY <1>1, <1>2 DEF Unsaved, Transactional, locals, InFlight
  <1>3. OneAtATime' /\ CallsGuarded'
    BY <1>1 DEF SerialInv, OneAtATime, CallsGuarded, locals
  <1>4. RowAsRead'
    BY <1>2 DEF SerialInv, RowAsRead, Mutated, locals
  <1>5. StartedLater'
    BY <1>2 DEF SerialInv, StartedLater, Transactional, locals
  <1> QED
    BY <1>3, <1>4, <1>5 DEF SerialInv

\* A request that is admitted finds its complaint free and starts later than
\* any history row was written.
LEMMA SerialFind ==
  ASSUME Serialized, TypeOK, SerialInv, NEW r \in Requests, NEW op \in Operation,
         NEW c \in Complaints, NEW s \in ComplaintStatus, Find(r, op, c, s),
         op = "update" => complaint[c].status \in Editable,
         op \in {"assign", "escalate"} => s \notin Closing
  PROVE  SerialInv'
  <1>1. /\ UNCHANGED <<complaint, history, columns>>
        /\ pc'[r] = "found" /\ \A q \in Requests \ {r} : pc'[q] = pc[q]
        /\ \A q \in Requests \ {r} : /\ call'[q] = call[q] /\ entity'[q] = entity[q]
                                     /\ previous'[q] = previous[q]
                                     /\ startedAt'[q] = startedAt[q]
        /\ call'[r] = [op |-> op, complaint |-> c, status |-> s]
        /\ entity'[r] = Mutated(complaint[c], r, op, s)
        /\ previous'[r] = complaint[c].status
    BY DEF Find, TypeOK, database
  <1>2. call'[r].op = op /\ call'[r].complaint = c /\ call'[r].status = s
    BY <1>1
  <1>3. \A q \in Requests \ {r} : pc[q] \in InFlight => call[q].complaint # c
    BY DEF Find, Admitted
  <1>4. OneAtATime' /\ CallsGuarded'
    BY <1>1, <1>2, <1>3 DEF SerialInv, OneAtATime, CallsGuarded
  <1>5. \A q \in Requests \ {r} : /\ Unsaved(q)' = Unsaved(q)
                                  /\ Transactional(q)' = Transactional(q)
    BY <1>1 DEF Unsaved, Transactional
  <1>6. RowAsRead'
    <2>1. ASSUME NEW q \in Requests, q # r, Unsaved(q)'
          PROVE  /\ previous'[q] = complaint'[call'[q].complaint].status
                 /\ entity'[q] = Mutated(complaint'[call'[q].complaint], q,
                                         call'[q].op, call'[q].status)
                 /\ pc'[q] # "found" =>
                      columns'[q] = {k \in Column :
                                       entity'[q][k] # complaint'[call'[q].complaint][k]}
      BY <1>1, <1>5, <2>1 DEF SerialInv, RowAsRead
    <2>2. /\ previous'[r] = complaint'[call'[r].complaint].status
          /\ entity'[r] = Mutated(complaint'[call'[r].complaint], r,
                                  call'[r].op, call'[r].status)
          /\ pc'[r] = "found"
      BY <1>1, <1>2
    <2> QED
      BY <2>1, <2>2 DEF RowAsRead, Mutated
  <1>7. StartedLater'
    <2>1. /\ begun \in Nat /\ begun' \in Nat /\ begun <= begun'
          /\ op # "update" => begun' = begun + 1 /\ startedAt'[r] = begun'
      BY DEF Find, TypeOK
    <2>2. \A h \in history : h.at \in Nat
      BY DEF TypeOK, HistoryRow
    <2>3. \A h \in history' : h.at <= begun'
      BY <1>1, <2>1, <2>2 DEF SerialInv, StartedLater
    <2>4. ASSUME NEW q \in Requests, Unsaved(q)', Transactional(q)'
          PROVE  /\ startedAt'[q] <= begun'
                 /\ \A h \in history' : h.complaint = call'[q].complaint => h.at < startedAt'[q]
      <3>1. CASE q = r
        BY <1>1, <1>2, <2>1, <2>2, <2>4, <3>1 DEF Transactional, SerialInv, StartedLater
      <3>2. CASE q # r
        <4>1. startedAt[q] \in Nat
          BY DEF TypeOK
        <4> QED
          BY <1>1, <1>5, <2>1, <2>4, <3>2, <4>1 DEF SerialInv, StartedLater
      <3> QED
        BY <3>1, <3>2
    <2> QED
      BY <2>3, <2>4 DEF StartedLater
  <1> QED
    BY <1>4, <1>6, <1>7 DEF SerialInv

\* The second SELECT of save() sees the row that the first one saw.
LEMMA SerialMerge ==
  ASSUME TypeOK, SerialInv, NEW r \in Requests, Merge(r)
  PROVE  SerialInv'
  <1>1. /\ UNCHANGED <<complaint, history, begun, locals>>
        /\ pc[r] = "found" /\ pc'[r] = "merged"
        /\ columns'[r] = {k \in Column : entity[r][k] # complaint[call[r].complaint][k]}
        /\ \A q \in Requests \ {r} : pc'[q] = pc[q] /\ columns'[q] = columns[q]
    BY DEF Merge, TypeOK, database
  <1>2. \A q \in Requests : /\ pc'[q] \in InFlight => pc[q] \in InFlight
                            /\ Unsaved(q)' => Unsaved(q)
                            /\ q # r => pc'[q] = pc[q] /\ columns'[q] = columns[q]
    BY <1>1 DEF Unsaved, Transactional, locals, InFlight
  <1>3. OneAtATime' /\ CallsGuarded'
    BY <1>1, <1>2 DEF SerialInv, OneAtATime, CallsGuarded, locals
  <1>4. RowAsRead'
    <2>1. ASSUME NEW q \in Requests, Unsaved(q)'
          PROVE  /\ previous[q] = complaint[call[q].complaint].status
                 /\ entity[q] = Mutated(complaint[call[q].complaint], q,
                                        call[q].op, call[q].status)
                 /\ pc'[q] # "found" =>
                      columns'[q] = {k \in Column :
                                       entity[q][k] # complaint[call[q].complaint][k]}
      <3>1. Unsaved(q)
        BY <1>2, <2>1
      <3>2. CASE q = r
        BY <1>1, <3>1, <3>2 DEF SerialInv, RowAsRead
      <3>3. CASE q # r
        BY <1>2, <3>1, <3>3 DEF SerialInv, RowAsRead
      <3> QED
        BY <3>2, <3>3
    <2> QED
      BY <1>1, <2>1 DEF RowAsRead, Mutated, locals
  <1>5. StartedLater'
    BY <1>1, <1>2 DEF SerialInv, StartedLater, Transactional, locals
  <1> QED
    BY <1>3, <1>4, <1>5 DEF SerialInv

\* The write itself concerns no other request.
LEMMA SerialWritten ==
  ASSUME TypeOK, SerialInv, NEW r \in Requests, pc[r] \in InFlight, Unsaved(r),
         complaint' = [complaint EXCEPT ![call[r].complaint] = Overlay(@, r)],
         \/ history' = history
         \/ Transactional(r) /\ history' = history \cup {HistoryRowOf(r)},
         UNCHANGED <<begun, locals, columns>>,
         pc'[r] \in InFlight => pc'[r] = "written" /\ ~Transactional(r),
         \A q \in Requests \ {r} : pc'[q] = pc[q]
  PROVE  SerialInv'
  <1>1. ~Unsaved(r)'
    BY DEF Unsaved, Transactional, locals, InFlight
  <1>2. ASSUME NEW q \in Requests, Unsaved(q)'
        PROVE  /\ q # r /\ Unsaved(q) /\ pc'[q] = pc[q]
               /\ call[q].complaint \in Complaints /\ call[q].complaint # call[r].complaint
               /\ complaint'[call[q].complaint] = complaint[call[q].complaint]
    <2>1. q # r /\ pc'[q] = pc[q]
      BY <1>1, <1>2
    <2>2. Unsaved(q) /\ pc[q] \in InFlight
      BY <1>2, <2>1 DEF Unsaved, Transactional, locals, InFlight
    <2>3. call[q].complaint # call[r].complaint /\ call[q].complaint \in Complaints
      BY <2>1, <2>2 DEF SerialInv, OneAtATime, TypeOK, Call
    <2> QED
      BY <2>1, <2>2, <2>3 DEF TypeOK
  <1>3. OneAtATime' /\ CallsGuarded'
    BY DEF SerialInv, OneAtATime, CallsGuarded, locals
  <1>4. RowAsRead'
    <2> SUFFICES ASSUME NEW q \in Requests, Unsaved(q)'
                 PROVE  /\ previous'[q] = complaint'[call'[q].complaint].status
                        /\ entity'[q] = Mutated(complaint'[call'[q].complaint], q,
                                                call'[q].op, call'[q].status)
                        /\ pc'[q] # "found" =>
                             columns'[q] = {k \in Column :
                               entity'[q][k] # complaint'[call'[q].complaint][k]}
      BY DEF RowAsRead, Mutated
    <2> QED
      BY <1>2 DEF SerialInv, RowAsRead, locals
  <1>5. StartedLater'
    <2>1. \A h \in history' : h \in history \/ (Transactional(r) /\ h = HistoryRowOf(r))
      OBVIOUS
    <2>2. HistoryRowOf(r).at = startedAt[r] /\ HistoryRowOf(r).complaint = call[r].complaint
      BY DEF HistoryRowOf
    <2>3. \A h \in history' : h.at <= begun'
      <3>1. Transactional(r) => startedAt[r] <= begun
        BY DEF SerialInv, StartedLater
      <3>2. \A h \in history : h.at <= begun
        BY DEF SerialInv, StartedLater
      <3> QED
        BY <2>1, <2>2, <3>1, <3>2
    <2> QED
      BY <1>2, <2>1, <2>2, <2>3 DEF SerialInv, StartedLater, Transactional, locals
  <1> QED
    BY <1>3, <1>4, <1>5 DEF SerialInv

\* Taking turns is kept by every step.
LEMMA SerialStep ==
  ASSUME Serialized, TypeOK, TimelineInv, SerialInv, [Next]_vars
  PROVE  SerialInv'
  <1>1. CASE UNCHANGED vars
    BY <1>1 DEF vars, database, locals, SerialInv, OneAtATime, CallsGuarded, RowAsRead,
                StartedLater, Unsaved, Transactional, Mutated
  <1>2. ASSUME NEW r \in Requests, Start(r) PROVE SerialInv'
    <2>1. CASE NotFound(r) \/ \E c \in Complaints : RejectUpdate(r, c)
      BY <2>1, SerialKept DEF NotFound, RejectUpdate, database, TypeOK, InFlight, Unsaved
    <2>2. ASSUME NEW c \in Complaints, Update(r, c) PROVE SerialInv'
      <3>1. complaint[c].status \in ComplaintStatus
        BY DEF TypeOK, Row
      <3> QED
        BY <2>2, <3>1, SerialFind DEF Update, Operation
    <2>3. ASSUME NEW c \in Complaints, NEW s \in Targets, UpdateStatus(r, c, s)
          PROVE  SerialInv'
      BY <2>3, SerialFind, TargetsAssumption DEF UpdateStatus, Operation
    <2>4. ASSUME NEW c \in Complaints, Assign(r, c) \/ Escalate(r, c)
          PROVE  SerialInv'
      <3>1. {"assigned", "escalated"} \subseteq ComplaintStatus \ Closing
        BY DEF ComplaintStatus, Closing
      <3> QED
        BY <2>4, <3>1, SerialFind DEF Assign, Escalate, Operation
    <2> QED
      BY <1>2, <2>1, <2>2, <2>3, <2>4 DEF Start
  <1>3. ASSUME NEW r \in Requests, Proceed(r) PROVE SerialInv'
    <2>1. CASE SaveInTransaction(r)
      BY <2>1, SerialKept DEF SaveInTransaction, TypeOK, InFlight, Unsaved
    <2>2. CASE LogAudit(r) \/ Notify(r)
      <3>1. pc[r] \in {"written", "audited"} /\ pc'[r] \in {"audited", "ready", "done"}
        BY <2>2 DEF LogAudit, Notify, TypeOK
      <3>2. /\ UNCHANGED <<complaint, history, begun, locals, columns>>
            /\ \A q \in Requests \ {r} : pc'[q] = pc[q]
        BY <2>2 DEF LogAudit, Notify, TypeOK, database
      <3>3. Unsaved(r)' => Unsaved(r)
        BY <3>1, <3>2 DEF Unsaved, Transactional, locals
      <3> QED
        BY <3>1, <3>2, <3>3, SerialKept DEF InFlight
    <2>3. CASE SaveUpdate(r)
      BY <2>3, SerialWritten DEF SaveUpdate, TypeOK, InFlight, Unsaved
    <2>4. CASE Commit(r)
      <3>1. Transactional(r)
        BY <2>4 DEF Commit, TimelineInv, CommitsAreTransactional
      <3> QED
        BY <2>4, <3>1, SerialWritten DEF Commit, TypeOK, InFlight, Unsaved
    <2> QED
      BY <1>3, <2>1, <2>2, <2>3, <2>4, SerialMerge DEF Proceed
  <1>4. ASSUME NEW r \in Requests, Fail(r) PROVE SerialInv'
    BY <1>4, SerialKept DEF Fail, TypeOK, InFlight, Unsaved
  <1> QED
    BY <1>1, <1>2, <1>3, <1>4 DEF Next, Quiescent

-----------------------------------------------------------------------------
(* The refinement of the case file.                                         *)

\* What is written is the row as the handler meant it: nothing is lost, and
\* nothing stale comes back.
LEMMA SavedAsMeant ==
  ASSUME TypeOK, SerialInv, NEW r \in Requests, Unsaved(r), pc[r] # "found", call[r] \in Call
  PROVE  Overlay(complaint[call[r].complaint], r)
           = Mutated(complaint[call[r].complaint], r, call[r].op, call[r].status)
  <1> DEFINE row == complaint[call[r].complaint]
  <1>1. row \in Row /\ entity[r] \in Row
    BY DEF TypeOK, Call
  <1>2. columns[r] = {k \in Column : entity[r][k] # row[k]}
    BY DEF SerialInv, RowAsRead
  <1>3. entity[r] = Mutated(row, r, call[r].op, call[r].status)
    BY DEF SerialInv, RowAsRead
  <1> HIDE DEF row
  <1>4. /\ "status" \notin columns[r] => row.status = entity[r].status
        /\ "closedAt" \notin columns[r] => row.closedAt = entity[r].closedAt
        /\ "details" \notin columns[r] => row.details = entity[r].details
    BY <1>2 DEF Column
  <1>5. Overlay(row, r) = [status |-> entity[r].status, closedAt |-> entity[r].closedAt,
                           details |-> entity[r].details]
    BY <1>4 DEF Overlay
  <1>6. Overlay(row, r) = entity[r]
    BY <1>1, <1>5 DEF Row
  <1> QED
    BY <1>3, <1>6 DEF row

\* The handlers start where the case file does.
LEMMA CaseFileStarts == Init => CF!Init
  <1> SUFFICES ASSUME Init PROVE CF!Init
    OBVIOUS
  <1>1. \A c \in Complaints : complaint[c].status = "submitted" /\ Entries(c) = {}
    BY DEF Init, SubmittedRow, Entries
  <1> QED
    BY <1>1 DEF CF!Init

\* update() edits the description, and nothing else.
LEMMA SaveEdits ==
  ASSUME TypeOK, SerialInv, NEW r \in Requests, SaveUpdate(r)
  PROVE  CF!Next
  <1> PICK c \in Complaints : c = call[r].complaint
    BY DEF SaveUpdate, TypeOK, InFlight, Call
  <1> DEFINE row == complaint[c]
  <1>1. /\ pc[r] = "merged" /\ Unsaved(r) /\ call[r] \in Call
        /\ call[r].op = "update" /\ row \in Row
    BY DEF SaveUpdate, TypeOK, InFlight, Unsaved, Transactional, Call
  <1>2. /\ complaint' = [complaint EXCEPT ![c] = Overlay(@, r)]
        /\ history' = history
    BY DEF SaveUpdate
  <1>3. Overlay(row, r) = Mutated(row, r, "update", call[r].status)
    BY <1>1, SavedAsMeant
  <1>4. complaint'[c].status = row.status /\ complaint'[c].closedAt = row.closedAt
    BY <1>1, <1>2, <1>3 DEF Mutated, TypeOK, Row
  <1>5. \A d \in Complaints \ {c} : complaint'[d] = complaint[d]
    BY <1>1, <1>2 DEF TypeOK
  <1>6. \A d \in Complaints : /\ complaint'[d].status = complaint[d].status
                              /\ complaint'[d].closedAt = complaint[d].closedAt
    BY <1>4, <1>5
  <1>7. \A d \in Complaints : Entries(d)' = Entries(d)
    BY <1>2 DEF Entries
  <1>8. row.status \in Editable
    BY <1>1 DEF SerialInv, CallsGuarded, RowAsRead
  <1>9. CF!Edit(c)
    BY <1>1, <1>5, <1>6, <1>7, <1>8 DEF CF!Edit
  <1> QED
    BY <1>1, <1>9 DEF CF!Next

\* A COMMIT moves the status under its entry, the latest of the timeline, and
\* stamps a closing anew.
LEMMA CommitMovesFile ==
  ASSUME TypeOK, TimelineInv, StampsOfDone, SerialInv, NEW r \in Requests, Commit(r)
  PROVE  CF!Next
  <1> PICK c \in Complaints : c = call[r].complaint
    BY DEF Commit, TypeOK, InFlight, Call
  <1> DEFINE row == complaint[c]
             h == HistoryRowOf(r)
             e == [at |-> h.at, previousStatus |-> h.previousStatus, newStatus |-> h.newStatus]
  <1>1. /\ pc[r] = "ready" /\ Transactional(r) /\ Unsaved(r)
        /\ call[r] \in Call /\ row \in Row
    BY DEF Commit, TimelineInv, CommitsAreTransactional, TypeOK, InFlight, Unsaved, Call
  <1>2. /\ complaint' = [complaint EXCEPT ![c] = Overlay(@, r)]
        /\ history' = history \cup {h}
    BY DEF Commit
  <1>3. complaint'[c] = Mutated(row, r, call[r].op, call[r].status)
    BY <1>1, <1>2, SavedAsMeant DEF TypeOK
  <1>4. \A d \in Complaints \ {c} : complaint'[d] = complaint[d]
    BY <1>1, <1>2 DEF TypeOK
  <1>5. /\ complaint'[c].status = call[r].status
        /\ complaint'[c].details = row.details
        /\ complaint'[c].closedAt =
             IF call[r].op = "updateStatus" /\ call[r].status \in Closing THEN r ELSE row.closedAt
    BY <1>1, <1>3 DEF Mutated, Transactional, Row
  <1>6. /\ h.complaint = c /\ e.at = startedAt[r]
        /\ e.previousStatus = row.status /\ e.newStatus = call[r].status
    BY <1>1 DEF HistoryRowOf, SerialInv, RowAsRead
  <1>7. \A d \in Complaints : Entries(d)' = IF d = c THEN Entries(d) \cup {e} ELSE Entries(d)
    <2> HIDE DEF h
    <2>1. ASSUME NEW d \in Complaints, NEW x
          PROVE  x \in Entries(d)' <=> x \in Entries(d) \/ (d = c /\ x = e)
      BY <1>2, <1>6 DEF Entries
    <2> QED
      BY <2>1
  <1>8. \A d \in Entries(c) : d.at < e.at
    BY <1>1, <1>6 DEF Entries, SerialInv, StartedLater
  <1>9. IF complaint'[c].status \in Closing
        THEN complaint'[c].closedAt # row.closedAt
        ELSE complaint'[c].closedAt = row.closedAt
    <2>1. row.closedAt # r
      BY <1>1, NoneAssumption DEF StampsOfDone, StampOfDone
    <2>2. call[r].status \in Closing => call[r].op = "updateStatus"
      BY <1>1 DEF SerialInv, CallsGuarded, Call, Operation, Transactional
    <2> QED
      BY <1>5, <2>1, <2>2
  <1> HIDE DEF e, h, row
  <1>10. CF!Move(c)
    BY <1>1, <1>4, <1>5, <1>6, <1>7, <1>8, <1>9 DEF CF!Move, row
  <1> QED
    BY <1>1, <1>10 DEF CF!Next

\* Every step of the handlers is a step of the case file or a stutter.
LEMMA CaseFileSimulates ==
  ASSUME TypeOK, TimelineInv, StampsOfDone, SerialInv, [Next]_vars
  PROVE  [CF!Next]_(CF!vars)
  <1>1. CASE UNCHANGED <<complaint, history>>
    BY <1>1 DEF CF!vars, Entries
  <1> QED
    BY <1>1, SaveEdits, CommitMovesFile
    DEF vars, database, Next, Quiescent, Start, Proceed, Fail, NotFound, Update,
        RejectUpdate, UpdateStatus, Assign, Escalate, Find, Merge,
        SaveInTransaction, LogAudit, Notify

\* As long as the requests for one complaint take turns, whatever they do and
\* however often they fail, what they leave in the tables is a case file: one
\* entry per move, linked to the one before and later than it, no edit outside
\* the editable statuses and none that undoes a move.
THEOREM CaseFileIsImplemented ==
  ASSUME Serialized
  PROVE  Spec => ImplementsCaseFile
  <1>1. TypeOK /\ TimelineInv /\ SerialInv /\ [Next]_vars => SerialInv'
    BY SerialStep
  <1>2. TypeOK /\ TimelineInv /\ StampsOfDone /\ [Next]_vars => StampsOfDone'
    BY StampsStep
  <1>3. Init => StampsOfDone
    BY DEF Init, StampsOfDone, StampOfDone, SubmittedRow
  <1>4. TypeOK /\ TimelineInv /\ StampsOfDone /\ SerialInv /\ [Next]_vars
          => [CF!Next]_(CF!vars)
    BY CaseFileSimulates
  <1> QED
    BY <1>1, <1>2, <1>3, <1>4, SerialInit, CaseFileStarts, TypeCorrect, TimelineInvariant, PTL
    DEF Spec, ImplementsCaseFile, CF!Spec

-----------------------------------------------------------------------------
(* What the audit log leaves out, it leaves out because of a request that   *)
(* overlapped another: taking turns, every change of a status is logged.    *)

\* A step that changes a status leaves an audit row that says so.
LEMMA ChangeIsLogged ==
  ASSUME TypeOK, TimelineInv, AuditInv, SerialInv, [Next]_vars,
         NEW c \in Complaints, complaint'[c].status # complaint[c].status
  PROVE  \E a \in auditLog' :
           /\ a.complaint = c
           /\ \/ a.op \in {"assign", "escalate"}
              \/ a.before = complaint[c].status /\ a.after = complaint'[c].status
  <1>1. ASSUME NEW r \in Requests, SaveUpdate(r)
        PROVE  FALSE
    <2>1. /\ pc[r] = "merged" /\ Unsaved(r) /\ call[r] \in Call /\ call[r].op = "update"
          /\ c = call[r].complaint /\ complaint'[c] = Overlay(complaint[c], r)
          /\ complaint[c] \in Row
      BY <1>1 DEF SaveUpdate, TypeOK, InFlight, Unsaved, Transactional
    <2> QED
      BY <2>1, SavedAsMeant DEF Mutated, Row
  <1>2. ASSUME NEW r \in Requests, Commit(r)
        PROVE  \E a \in auditLog' :
                 /\ a.complaint = c
                 /\ \/ a.op \in {"assign", "escalate"}
                    \/ a.before = complaint[c].status /\ a.after = complaint'[c].status
    <2>1. /\ pc[r] = "ready" /\ Transactional(r) /\ Unsaved(r) /\ call[r] \in Call
          /\ c = call[r].complaint /\ complaint'[c] = Overlay(complaint[c], r)
          /\ complaint[c] \in Row /\ auditLog' = auditLog
      BY <1>2 DEF Commit, TimelineInv, CommitsAreTransactional, TypeOK, InFlight, Unsaved
    <2>2. AuditRowOf(r) \in auditLog'
      BY <2>1 DEF AuditInv, AuditedBeforeCommit
    <2>3. complaint'[c].status = call[r].status
      <3>1. complaint'[c] = Mutated(complaint[c], r, call[r].op, call[r].status)
        BY <2>1, SavedAsMeant
      <3> QED
        BY <2>1, <3>1 DEF Mutated, Row, Transactional
    <2>4. previous[r] = complaint[c].status
      BY <2>1 DEF SerialInv, RowAsRead
    <2>5. call[r].op \in {"assign", "escalate", "updateStatus"}
      BY <2>1 DEF Transactional, Call, Operation
    <2>6. /\ AuditRowOf(r).complaint = c /\ AuditRowOf(r).op = call[r].op
          /\ call[r].op = "updateStatus" =>
               AuditRowOf(r).before = previous[r] /\ AuditRowOf(r).after = call[r].status
      BY <2>1 DEF AuditRowOf
    <2> QED
      BY <2>2, <2>3, <2>4, <2>5, <2>6
  <1> QED
    BY <1>1, <1>2
    DEF vars, database, Next, Quiescent, Start, Proceed, Fail, NotFound, Update,
        RejectUpdate, UpdateStatus, Assign, Escalate, Find, Merge,
        SaveInTransaction, LogAudit, Notify

\* The action property that concurrent requests violate holds when the requests
\* for one complaint take turns: it needs no more than that.
THEOREM SerialChangesAreLogged ==
  ASSUME Serialized
  PROVE  Spec => EveryStatusChangeLogged
  <1> DEFINE Logged ==
        \A c \in Complaints :
          complaint'[c].status # complaint[c].status =>
            \E a \in auditLog' :
              /\ a.complaint = c
              /\ \/ a.op \in {"assign", "escalate"}
                 \/ a.before = complaint[c].status /\ a.after = complaint'[c].status
  <1>1. TypeOK /\ TimelineInv /\ AuditInv /\ SerialInv /\ [Next]_vars => [Logged]_vars
    BY ChangeIsLogged
  <1>2. [][Logged]_vars => EveryStatusChangeLogged
    BY DEF EveryStatusChangeLogged
  <1>3. TypeOK /\ TimelineInv /\ SerialInv /\ [Next]_vars => SerialInv'
    BY SerialStep
  <1>4. TypeOK /\ AuditInv /\ [Next]_vars => AuditInv'
    BY AuditStep
  <1>5. Init => AuditInv
    BY DEF Init, AuditInv, AuditedBeforeCommit, HistoryAudited
  <1> HIDE DEF Logged
  <1> QED
    BY <1>1, <1>2, <1>3, <1>4, <1>5, SerialInit, TypeCorrect, TimelineInvariant, PTL DEF Spec

=============================================================================

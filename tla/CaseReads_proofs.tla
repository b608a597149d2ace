-------------------------- MODULE CaseReads_proofs --------------------------
(***************************************************************************)
(* For any set of requests, readers, complaints and statuses, and any number *)
(* of changes between the SELECTs:                                          *)
(*   - what a tracked complaint shows is explained by its history           *)
(*     (TrackInv);                                                          *)
(*   - the casework of an officer is whole, logged and attributed           *)
(*     (CaseworkInv);                                                       *)
(*   - the figures of one answer agree (FiguresInv).                        *)
(***************************************************************************)
EXTENDS CaseReads, FiniteSetTheorems, TLAPS

-----------------------------------------------------------------------------
(* Complaints: a timeline only grows, and holds the status.                 *)

StatusInTimeline ==
  /\ status \in [Complaints -> Statuses \cup {"submitted", None}]
  /\ timeline \in [Complaints -> SUBSET (Statuses \cup {"submitted"})]
  /\ \A c \in Submitted : status[c] \in timeline[c]

\* No step of the case record takes an entry away or leaves a status without.
LEMMA ChangeGrows ==
  ASSUME StatusInTimeline, NEW c \in Complaints, Cases!Change(c)
  PROVE  /\ StatusInTimeline'
         /\ \A d \in Complaints : timeline[d] \subseteq timeline'[d]
  <1>1. PICK s \in Statuses \cup {"submitted"} :
               /\ status' = [status EXCEPT ![c] = s]
               /\ timeline' = [timeline EXCEPT ![c] = @ \cup {s}]
    BY DEF Cases!Change, Cases!Submit, Cases!Restore, Cases!Move, Cases!Enter, StatusInTimeline
  <1>2. status' \in [Complaints -> Statuses \cup {"submitted", None}]
        /\ timeline' \in [Complaints -> SUBSET (Statuses \cup {"submitted"})]
    BY <1>1 DEF StatusInTimeline
  <1>3. \A d \in Complaints : timeline[d] \subseteq timeline'[d]
    BY <1>1 DEF StatusInTimeline
  <1>4. ASSUME NEW d \in Complaints, status'[d] # None
        PROVE  status'[d] \in timeline'[d]
    BY <1>1, <1>4 DEF StatusInTimeline, Submitted
  <1> QED
    BY <1>2, <1>3, <1>4 DEF StatusInTimeline, Submitted

-----------------------------------------------------------------------------
(* Readers.                                                                 *)

AnswersOK ==
  /\ DOMAIN answer = Readers
  /\ \A q \in Readers : DOMAIN answer[q] = Part
  /\ reading \in [Readers -> {"idle", "asked", "done", "failed"}]
  /\ DOMAIN query = Readers
  /\ \A q \in Readers :
       IF reading[q] = "idle"
       THEN \A p \in Part : answer[q][p] = None
       ELSE query[q] \in Query

Tracking(q) == reading[q] # "idle" /\ query[q].kind = "track"

\* The status that a tracker holds is in the timeline by now, and in the
\* history that the tracker holds if it has read that: it has read it later.
Explained(q) ==
  /\ answer[q]["status"] # None => answer[q]["status"] \in timeline[query[q].complaint]
  /\ answer[q]["history"] # None =>
       answer[q]["status"] # None /\ answer[q]["status"] \in answer[q]["history"]
  /\ reading[q] = "done" => answer[q]["history"] # None

TrackInv == /\ StatusInTimeline
            /\ AnswersOK
            /\ \A q \in Readers : Tracking(q) => Explained(q)

\* The SELECTs of a tracker are answered in the order of the plan: the status
\* first, and the history before it responds.
LEMMA TrackOrder ==
  ASSUME TrackInv, NEW q \in Readers, Tracking(q)
  PROVE  /\ "status" \in Pending(q) <=> answer[q]["status"] = None
         /\ "history" \in Pending(q) => answer[q]["status"] # None
         /\ Pending(q) = {} => answer[q]["history"] # None
  <1>1. Plan[query[q].kind] = << {"status"}, {"history"}, {"attachments"} >>
    BY DEF Tracking, Plan, Track
  <1> DEFINE plan == << {"status"}, {"history"}, {"attachments"} >>
             left(i) == {p \in plan[i] : answer[q][p] = None}
  <1>2. Pending(q) = {p \in Part : \E i \in 1..3 : p \in left(i) /\ \A j \in 1..(i - 1) : left(j) = {}}
    BY <1>1 DEF Pending
  <1>3. /\ left(1) = IF answer[q]["status"] = None THEN {"status"} ELSE {}
        /\ left(2) = IF answer[q]["history"] = None THEN {"history"} ELSE {}
        /\ left(3) \subseteq {"attachments"}
    OBVIOUS
  <1> HIDE DEF left
  <1>4. "status" \in Part /\ "history" \in Part
    BY DEF Part
  <1>5. "status" \in Pending(q) <=> answer[q]["status"] = None
    BY <1>2, <1>3, <1>4
  <1>6. "history" \in Pending(q) => answer[q]["status"] # None
    BY <1>2, <1>3, <1>4
  <1>7. answer[q]["status"] # None /\ answer[q]["history"] = None => "history" \in Pending(q)
    BY <1>2, <1>3, <1>4
  <1> QED
    BY <1>5, <1>6, <1>7

\* The writers leave the readers alone, and a timeline that grows explains
\* what it explained.
LEMMA TrackWritten ==
  ASSUME TrackInv, StatusInTimeline',
         \A d \in Complaints : timeline[d] \subseteq timeline'[d],
         UNCHANGED <<reading, query, answer>>
  PROVE  TrackInv'
  <1>1. AnswersOK'
    BY DEF TrackInv, AnswersOK
  <1>2. ASSUME NEW q \in Readers, Tracking(q)' PROVE Explained(q)'
    <2>1. Tracking(q) /\ Explained(q) /\ query[q].complaint \in Complaints
      BY <1>2 DEF TrackInv, Tracking, AnswersOK, Query
    <2> QED
      BY <2>1 DEF Explained
  <1> QED
    BY <1>1, <1>2 DEF TrackInv

\* One SELECT: what it returns is committed now.
LEMMA TrackSelect ==
  ASSUME TrackInv, NEW q \in Readers, Select(q)
  PROVE  TrackInv'
  <1> DEFINE c == query[q].complaint
  <1>1. PICK p \in Pending(q) :
               /\ p = "status" => c \in Submitted
               /\ answer' = [answer EXCEPT ![q][p] = Selected(p, query[q])]
    BY DEF Select
  <1>2. /\ reading[q] = "asked" /\ p \in Part
        /\ UNCHANGED <<status, timeline, reading, query>>
    BY <1>1 DEF Select, Pending
  <1>3. /\ answer'[q][p] = Selected(p, query[q])
        /\ \A x \in Part \ {p} : answer'[q][x] = answer[q][x]
        /\ \A r \in Readers \ {q} : answer'[r] = answer[r]
        /\ DOMAIN answer' = Readers /\ \A r \in Readers : DOMAIN answer'[r] = Part
    BY <1>1, <1>2 DEF TrackInv, AnswersOK
  <1>4. StatusInTimeline' /\ AnswersOK'
    BY <1>2, <1>3 DEF TrackInv, AnswersOK, StatusInTimeline, Submitted
  <1>5. ASSUME Tracking(q) PROVE Explained(q)'
    <2>1. /\ Explained(q) /\ c \in Complaints
          /\ p = "status" => answer[q]["status"] = None
          /\ p = "history" => answer[q]["status"] # None
      BY <1>1, <1>2, <1>5, TrackOrder DEF TrackInv, AnswersOK, Query
    <2>2. "status" \in Part /\ "history" \in Part
      BY DEF Part
    <2>3. CASE p = "status"
      <3>1. Selected(p, query[q]) = status[c] /\ status[c] # None /\ status[c] \in timeline[c]
        BY <1>1, <2>3 DEF Selected, TrackInv, StatusInTimeline, Submitted
      <3>2. answer'[q]["history"] = None
        BY <1>3, <2>1, <2>2, <2>3 DEF Explained
      <3> QED
        BY <1>2, <1>3, <2>3, <3>1, <3>2 DEF Explained
    <2>4. CASE p = "history"
      <3>1. Selected(p, query[q]) = timeline[c]
        BY <2>4 DEF Selected
      <3> QED
        BY <1>2, <1>3, <2>1, <2>2, <2>4, <3>1 DEF Explained
    <2>5. CASE p \notin {"status", "history"}
      BY <1>2, <1>3, <2>1, <2>2, <2>5 DEF Explained
    <2> QED
      BY <2>3, <2>4, <2>5
  <1>6. ASSUME NEW r \in Readers, Tracking(r)' PROVE Explained(r)'
    <2>1. Tracking(r)
      BY <1>2, <1>6 DEF Tracking
    <2>2. CASE r # q
      BY <1>2, <1>3, <2>1, <2>2 DEF Explained, TrackInv
    <2> QED
      BY <1>5, <2>1, <2>2
  <1> QED
    BY <1>4, <1>6 DEF TrackInv

\* The other steps of a reader: it is asked, it answers, or it gives up.
LEMMA TrackTurn ==
  ASSUME TrackInv, NEW q \in Readers, Ask(q) \/ NotFound(q) \/ Respond(q) \/ FailRead(q)
  PROVE  TrackInv'
  <1>1. UNCHANGED <<status, timeline, answer>>
    BY DEF Ask, NotFound, Respond, FailRead
  <1>2. /\ \A r \in Readers \ {q} : reading'[r] = reading[r] /\ query'[r] = query[r]
        /\ reading'[q] \in {"asked", "done", "failed"}
        /\ reading' \in [Readers -> {"idle", "asked", "done", "failed"}]
        /\ DOMAIN query' = Readers
        /\ query'[q] \in Query
    BY DEF Ask, NotFound, Respond, FailRead, TrackInv, AnswersOK
  <1>3. StatusInTimeline' /\ AnswersOK'
    BY <1>1, <1>2 DEF TrackInv, AnswersOK, StatusInTimeline, Submitted
  <1>4. ASSUME NEW r \in Readers, Tracking(r)' PROVE Explained(r)'
    <2>1. CASE r # q
      BY <1>1, <1>2, <1>4, <2>1 DEF Tracking, Explained, TrackInv
    <2>2. CASE r = q /\ Ask(q)
      <3>1. answer[q]["status"] = None /\ answer[q]["history"] = None /\ reading'[q] = "asked"
        BY <2>2 DEF Ask, TrackInv, AnswersOK, Part
      <3> QED
        BY <1>1, <2>2, <3>1 DEF Explained
    <2>3. CASE r = q /\ ~Ask(q)
      <3>1. /\ reading[q] = "asked" /\ query' = query
            /\ reading'[q] = "done" => Pending(q) = {}
        BY <2>3 DEF NotFound, Respond, FailRead, TrackInv, AnswersOK
      <3>2. Tracking(q)
        BY <1>4, <2>3, <3>1 DEF Tracking
      <3> QED
        BY <1>1, <2>3, <3>1, <3>2, TrackOrder DEF Explained, TrackInv
    <2> QED
      BY <2>1, <2>2, <2>3
  <1> QED
    BY <1>3, <1>4 DEF TrackInv

\* Every step keeps the invariant.
LEMMA TrackStep ==
  ASSUME TrackInv, [Next]_vars
  PROVE  TrackInv'
  <1>1. CASE UNCHANGED <<status, timeline, reading, query, answer>>
    BY <1>1, TrackWritten DEF TrackInv, StatusInTimeline, Submitted
  <1>2. CASE Write
    BY <1>2, ChangeGrows, TrackWritten DEF Write, TrackInv
  <1>3. CASE Elapse
    BY <1>1, <1>3 DEF Elapse
  <1>4. ASSUME NEW q \in Readers, ReadStep(q) PROVE TrackInv'
    BY <1>4, TrackSelect, TrackTurn DEF ReadStep
  <1> QED
    BY <1>1, <1>2, <1>3, <1>4 DEF Next, Quiescent, vars, readVars

LEMMA TrackInit == Init => TrackInv
  <1> SUFFICES ASSUME Init PROVE TrackInv
    OBVIOUS
  <1>1. StatusInTimeline
    BY DEF Init, Cases!Init, StatusInTimeline, Submitted
  <1>2. AnswersOK /\ \A q \in Readers : ~Tracking(q)
    BY DEF Init, AnswersOK, Tracking
  <1> QED
    BY <1>1, <1>2 DEF TrackInv

\* Whatever is committed between the SELECTs of a tracker, the status it shows
\* is in the history it shows.
THEOREM TrackingIsExplained == Spec => []TrackedStatusExplained
  <1>1. TrackInv => TrackedStatusExplained
    BY DEF TrackInv, TrackedStatusExplained, Answered, Tracking, Explained
  <1>2. TrackInv /\ [Next]_vars => TrackInv'
    BY TrackStep
  <1> QED
    BY <1>1, <1>2, TrackInit, PTL DEF Spec

-----------------------------------------------------------------------------
(* Casework: rows and their types.                                          *)

Field == {"kind", "status", "completedAt", "previous", "reviewedBy", "remark"}

\* What an UPDATE leaves is a row, with each column from the one or the other.
LEMMA OverlaidIsRow ==
  ASSUME NEW r \in Requests, entity[r] \in Row, row[call[r].on] \in Row
  PROVE  /\ Overlaid(r) \in Row
         /\ \A k \in Field :
              Overlaid(r)[k] = IF k \in columns[r] THEN entity[r][k] ELSE row[call[r].on][k]
  <1>1. DOMAIN entity[r] = Field
    BY DEF Row, Field
  <1>2. Overlaid(r) = [k \in Field |-> IF k \in columns[r] THEN entity[r][k] ELSE row[call[r].on][k]]
    BY <1>1 DEF Overlaid
  <1> QED
    BY <1>2 DEF Row, Field

-----------------------------------------------------------------------------
(* Casework: the invariant, in parts.                                       *)

Working(r) == pc[r] \in InFlight \cup {"done"}

\* What a handler at work was sent, and what it has read and changed: the row
\* was there, and is of the kind that the handler changes.
Sent(r) ==
  /\ pc[r] = "idle" => call[r] = NoCall
  /\ Working(r) =>
       /\ call[r] \in Call /\ call[r].on # r
       /\ call[r].op \in {"reassign", "updateStatus"} => call[r].on \in Rows({"assignment"})
       /\ call[r].op = "review" => call[r].on \in Rows({"escalation", "analysis"})
       /\ call[r].op \in DOMAIN KindOf \ {"reassign"} => call[r].on = None
       /\ call[r].op = "access" => call[r].on \in Ids \cup {Nowhere}
       /\ Changing(r) => entity[r] \in Row
       /\ call[r].op = "updateStatus" /\ entity[r].status = "completed" =>
            entity[r].completedAt # None
       /\ pc[r] = "merged" => Changing(r)
       /\ pc[r] = "saved" => call[r].op \notin {"updateStatus", "note"}
       /\ pc[r] = "audited" => Transactional(r) \/ call[r].op = "access"

SentInv == \A r \in Requests : Sent(r)

\* The row that a request inserts is there from its INSERT or its COMMIT on.
Born(r) ==
  row[r] # None =>
    \/ /\ Transactional(r) /\ pc[r] = "done"
       /\ row[r].kind = KindOf[call[r].op] /\ row[r].previous = call[r].on
    \/ /\ call[r].op \in {"analyse", "note"} /\ pc[r] \in {"saved", "done", "failed"}
       /\ row[r].kind = KindOf[call[r].op] /\ row[r].previous = None

BornInv ==
  /\ \A r \in Requests : Born(r)
  /\ \A i \in Existing : row[i] # None /\ row[i].kind = i /\ row[i].previous = None

\* The audit row of a reassignment, of an upload and of an access.
LoggedInv ==
  \A r \in Requests :
    pc[r] \in {"audited", "done"} /\ (Transactional(r) \/ call[r].op = "access") =>
      [by |-> r, op |-> call[r].op, on |-> IF Transactional(r) THEN r ELSE call[r].on]
        \in auditLog

ReassignedInv ==
  \A i \in Rows({"assignment"}) :
    row[i].status = "reassigned" =>
      \/ Successors(i) # {}
      \/ \E r \in Requests : /\ call[r] = [op |-> "updateStatus", on |-> i]
                             /\ entity[r].status = "reassigned"

CustodyInv ==
  /\ \A r \in Requests :
       pc[r] \in {"saved", "audited", "done"} /\ call[r].op = "access" =>
         [evidence |-> call[r].on, by |-> r, action |-> "accessed"] \in custody
  /\ \A r \in Requests :
       pc[r] = "done" /\ call[r].op = "upload" =>
         [evidence |-> r, by |-> r, action |-> "uploaded"] \in custody
  /\ \A k \in custody :
       \/ k.evidence = k.by /\ k.by \in Rows({"evidence"})
       \/ /\ call[k.by].op = "access" /\ call[k.by].on = k.evidence /\ pc[k.by] # "idle"
          /\ pc[k.by] = "done" => k.evidence \in Rows({"evidence"})

\* Two requests that are in flight on one row have met, and only those that
\* have begun meet.
OverlapInv ==
  /\ \A q, r \in Requests :
       q # r /\ pc[q] \in InFlight /\ pc[r] \in InFlight /\ call[q].on = call[r].on =>
         {q, r} \in overlaps
  /\ \A o \in overlaps : \A q \in o : pc[q] # "idle"

Completing(r) == call[r].op = "updateStatus" /\ entity[r].status = "completed"

\* A completion sets its time, or leaves it out of its UPDATE because the row has
\* it: only a handler that it has met can take it out of the row then.  After a
\* completion that nobody overlaps no handler holds a reading of the row without
\* a completion time.
CompletionInv ==
  \A r \in Requests : Completing(r) =>
    /\ pc[r] = "merged" =>
         \/ "completedAt" \in columns[r]
         \/ row[call[r].on].completedAt # None
         \/ Overlapping(r) # {}
    /\ pc[r] = "done" /\ Overlapping(r) = {} =>
         /\ row[call[r].on].completedAt # None
         /\ \A q \in Requests :
              pc[q] \in InFlight /\ Changing(q) /\ call[q].on = call[r].on =>
                entity[q].completedAt # None

ReviewColumn == {"status", "reviewedBy", "remark"}

\* A column of the row that r reviews, as r or those at work with it gave it.
Given(r, k) == row[call[r].on][k] \in {entity[q][k] : q \in Together(r)}

\* What the UPDATE of a review leaves out is in the row, from the same reviewer
\* or from one that the reviewer has met.
Reviewing(r) ==
  \A k \in ReviewColumn \ columns[r] : row[call[r].on][k] = entity[r][k] \/ Given(r, k)

ReviewInv ==
  /\ ReviewAttributed
  /\ \A r \in Requests : pc[r] = "merged" /\ call[r].op = "review" => Reviewing(r)

CaseworkInv ==
  /\ CaseworkTypeOK /\ SentInv /\ BornInv /\ LoggedInv /\ ReassignedInv /\ CustodyInv
  /\ OverlapInv /\ CompletionInv /\ ReviewInv

-----------------------------------------------------------------------------
(* Casework: what a step does.                                              *)

\* A handler that begins: what it was sent is there, and what it holds is the
\* row with its own changes.
Begun(r, op, id, e) ==
  /\ Begin(r, op, id, e)
  /\ op \in Operation /\ id \in Ids \cup {Nowhere, None} /\ id # r /\ e \in Row \cup {None}
  /\ op \in {"reassign", "updateStatus"} => id \in Rows({"assignment"})
  /\ op = "review" => id \in Rows({"escalation", "analysis"})
  /\ op \in {"upload", "analyse", "note"} => id = None
  /\ op = "access" => id \in Ids \cup {Nowhere}
  /\ op \in {"reassign", "updateStatus", "review"} =>
       /\ e \in Row /\ row[id] \in Row
       /\ row[id].completedAt # None => e.completedAt # None
  /\ op = "updateStatus" /\ e.status = "completed" => e.completedAt # None

LEMMA StartBegins ==
  ASSUME CaseworkTypeOK, BornInv, NEW r \in Requests, Start(r), ~Refuse(r)
  PROVE  \E op, id, e : Begun(r, op, id, e)
  <1>1. pc[r] = "idle"
    BY DEF Start, Reassign, UpdateStatus, Review, Upload, Access, Analyse, AddNote, Begin
  <1>2. row[r] = None /\ r \in Ids
    BY <1>1 DEF BornInv, Born, Ids
  <1>3. \A kinds : \A i \in Rows(kinds) : i \in Ids /\ i # r /\ row[i] \in Row
    BY <1>2 DEF Rows, CaseworkTypeOK
  <1>4. r # None /\ r # Nowhere
    BY NoneAssumption, NowhereAssumption DEF Ids
  <1>5. CASE Reassign(r)
    <2>1. PICK i \in Rows({"assignment"}) :
            Begin(r, "reassign", i, [row[i] EXCEPT !.status = "reassigned"])
      BY <1>5 DEF Reassign
    <2> DEFINE e == [row[i] EXCEPT !.status = "reassigned"]
    <2>2. row[i] \in Row /\ i \in Ids /\ i # r
      BY <1>3, <2>1
    <2>3. e \in Row /\ e.completedAt = row[i].completedAt
      BY <2>2 DEF Row, AssignmentStatus
    <2>4. Begun(r, "reassign", i, e)
      BY <2>1, <2>2, <2>3 DEF Begun, Operation
    <2> QED
      BY <2>4
  <1>6. CASE UpdateStatus(r)
    <2>1. PICK i \in Rows({"assignment"}), s \in Targets, now \in Moments :
            Begin(r, "updateStatus", i,
                  [row[i] EXCEPT !.status = s,
                                 !.completedAt = IF s = "completed" THEN now ELSE @])
      BY <1>6 DEF UpdateStatus
    <2> DEFINE e == [row[i] EXCEPT !.status = s,
                                   !.completedAt = IF s = "completed" THEN now ELSE @]
    <2>2. row[i] \in Row /\ i \in Ids /\ i # r
      BY <1>3, <2>1
    <2>3. /\ e \in Row /\ e.status = s
          /\ e.completedAt = IF s = "completed" THEN now ELSE row[i].completedAt
          /\ now # None
      BY <2>2, TargetsAssumption, NoneAssumption DEF Row
    <2>4. Begun(r, "updateStatus", i, e)
      BY <2>1, <2>2, <2>3 DEF Begun, Operation
    <2> QED
      BY <2>4
  <1>7. CASE Review(r)
    <2>1. PICK i \in Rows({"escalation", "analysis"}), s \in Verdicts,
               by \in Reviewers, remark \in Remarks \cup {None} :
            Begin(r, "review", i,
                  [row[i] EXCEPT !.status = s, !.reviewedBy = by, !.remark = remark])
      BY <1>7 DEF Review
    <2> DEFINE e == [row[i] EXCEPT !.status = s, !.reviewedBy = by, !.remark = remark]
    <2>2. row[i] \in Row /\ i \in Ids /\ i # r
      BY <1>3, <2>1
    <2>3. e \in Row /\ e.completedAt = row[i].completedAt
      BY <2>2 DEF Row
    <2>4. Begun(r, "review", i, e)
      BY <2>1, <2>2, <2>3 DEF Begun, Operation
    <2> QED
      BY <2>4
  <1>8. CASE Access(r)
    <2>1. PICK i \in Rows({"evidence"}) \cup {Nowhere} : Begin(r, "access", i, None)
      BY <1>8 DEF Access
    <2>2. i \in Ids \cup {Nowhere} /\ i # r
      BY <1>3, <1>4, <2>1
    <2>3. Begun(r, "access", i, None)
      BY <2>1, <2>2 DEF Begun, Operation
    <2> QED
      BY <2>3
  <1>9. CASE Upload(r) \/ Analyse(r) \/ AddNote(r)
    <2>1. PICK op \in {"upload", "analyse", "note"} : Begin(r, op, None, None)
      BY <1>9 DEF Upload, Analyse, AddNote
    <2>2. Begun(r, op, None, None)
      BY <1>4, <2>1 DEF Begun, Operation
    <2> QED
      BY <2>2
  <1> QED
    BY <1>5, <1>6, <1>7, <1>8, <1>9 DEF Start

\* A step of one handler leaves what the others hold alone, and what is written
\* to the logs stays.
LEMMA CaseworkElsewhere ==
  ASSUME CaseworkTypeOK, NEW r \in Requests, CaseworkStep(r)
  PROVE  /\ \A q \in Requests \ {r} :
              /\ pc'[q] = pc[q] /\ call'[q] = call[q]
              /\ entity'[q] = entity[q] /\ columns'[q] = columns[q]
         /\ overlaps \subseteq overlaps' /\ auditLog \subseteq auditLog'
         /\ custody \subseteq custody'
  BY DEF CaseworkStep, Start, Reassign, UpdateStatus, Review, Upload, Access, Analyse, AddNote,
         Begin, Refuse, Proceed, Merge, Save, SaveInTransaction, InsertInTransaction, Insert,
         RecordAccess, LogAudit, Commit, Open, Fail, Goto, database, locals, CaseworkTypeOK

\* Once a handler has read its row, it keeps what it was sent and what it holds.
LEMMA CaseworkHolds ==
  ASSUME CaseworkTypeOK, NEW r \in Requests, Proceed(r) \/ Fail(r) \/ Refuse(r)
  PROVE  /\ call' = call /\ entity' = entity /\ overlaps' = overlaps
         /\ ~Merge(r) => columns' = columns
         /\ Refuse(r) \/ pc[r] \in InFlight
         /\ Fail(r) \/ Refuse(r) => pc'[r] = "failed" /\ UNCHANGED <<row, custody, auditLog>>
  BY DEF Refuse, Proceed, Merge, Save, SaveInTransaction, InsertInTransaction, Insert,
         RecordAccess, LogAudit, Commit, Open, Fail, Goto, database, locals, CaseworkTypeOK,
         InFlight

LEMMA NewRowIsRow ==
  ASSUME NEW kind \in RowKind, NEW previous \in Ids \cup {None}
  PROVE  /\ NewRow(kind, previous) \in Row
         /\ NewRow(kind, previous).kind = kind
         /\ NewRow(kind, previous).previous = previous
         /\ NewRow(kind, previous).status \in {"pending", None}
         /\ NewRow(kind, previous).completedAt = None
         /\ NewRow(kind, previous).reviewedBy = None
         /\ NewRow(kind, previous).remark = None
  BY DEF NewRow, Row, AssignmentStatus

\* The row after an UPDATE: of the same kind, and with each other column from
\* the handler or from the row.
Updates(r, x) ==
  LET i == call[r].on
  IN  /\ i \in Ids /\ i # r /\ row[i] \in Row /\ entity[r] \in Row
      /\ x \in Row /\ x.kind = row[i].kind /\ x.previous = row[i].previous
      /\ x.status = IF "status" \in columns[r] THEN entity[r].status ELSE row[i].status
      /\ x.completedAt = IF "completedAt" \in columns[r]
                         THEN entity[r].completedAt ELSE row[i].completedAt
      /\ x.reviewedBy = IF "reviewedBy" \in columns[r]
                        THEN entity[r].reviewedBy ELSE row[i].reviewedBy
      /\ x.remark = IF "remark" \in columns[r] THEN entity[r].remark ELSE row[i].remark

LEMMA OverlaidUpdates ==
  ASSUME CaseworkTypeOK, SentInv, NEW r \in Requests, pc[r] \in InFlight, Changing(r)
  PROVE  Updates(r, Overlaid(r))
  <1>1. /\ call[r].on \in Ids /\ call[r].on # r /\ row[call[r].on] \in Row /\ entity[r] \in Row
    BY DEF SentInv, Sent, Working, Changing, Rows, CaseworkTypeOK
  <1>2. "kind" \notin columns[r] /\ "previous" \notin columns[r]
    BY DEF CaseworkTypeOK, Column
  <1> QED
    BY <1>1, <1>2, OverlaidIsRow DEF Updates, Field

LEMMA SaveUpdates ==
  ASSUME CaseworkTypeOK, SentInv, NEW r \in Requests, Save(r)
  PROVE  /\ call[r].op \in {"updateStatus", "review"}
         /\ pc[r] = "merged"
         /\ pc'[r] = IF call[r].op = "review" THEN "saved" ELSE "done"
         /\ Updates(r, row'[call[r].on])
         /\ \A i \in Ids \ {call[r].on} : row'[i] = row[i]
         /\ UNCHANGED <<custody, lock, auditLog, call, entity, columns, overlaps>>
  <1>1. /\ pc[r] = "merged" /\ ~Transactional(r)
        /\ row' = [row EXCEPT ![call[r].on] = Overlaid(r)]
        /\ UNCHANGED <<custody, lock, auditLog, call, entity, columns, overlaps>>
        /\ pc'[r] = IF call[r].op = "review" THEN "saved" ELSE "done"
    BY DEF Save, Goto, locals, CaseworkTypeOK
  <1>2. Changing(r) /\ pc[r] \in InFlight
    BY <1>1 DEF SentInv, Sent, Working, InFlight
  <1>3. Updates(r, Overlaid(r))
    BY <1>2, OverlaidUpdates
  <1>4. row'[call[r].on] = Overlaid(r)
    BY <1>1, <1>3 DEF Updates, CaseworkTypeOK
  <1> QED
    BY <1>1, <1>2, <1>3, <1>4 DEF Changing, Transactional, CaseworkTypeOK

\* A COMMIT: the row inserted appears, and the old assignment is updated.
LEMMA CommitInserts ==
  ASSUME CaseworkTypeOK, SentInv, BornInv, NEW r \in Requests, Commit(r)
  PROVE  /\ pc[r] = "audited" /\ pc'[r] = "done" /\ Transactional(r)
         /\ row[r] = None
         /\ row'[r] = NewRow(KindOf[call[r].op], call[r].on) /\ row'[r] \in Row
         /\ call[r].op = "reassign" => Updates(r, row'[call[r].on])
         /\ \A i \in Ids : i # r /\ (call[r].op = "reassign" => i # call[r].on) => row'[i] = row[i]
         /\ DOMAIN row' = Ids
         /\ UNCHANGED <<auditLog, call, entity, columns, overlaps>>
  <1> DEFINE new == NewRow(KindOf[call[r].op], call[r].on)
  <1>1. /\ pc[r] = "audited" /\ pc'[r] = "done" /\ Transactional(r)
        /\ UNCHANGED <<auditLog, call, entity, columns, overlaps>>
        /\ row' = [i \in Ids |-> CASE i = r -> new
                                   [] i = call[r].on -> Overlaid(r)
                                   [] OTHER -> row[i]]
    BY DEF Commit, Goto, locals, CaseworkTypeOK
  <1> HIDE DEF new
  <1>2. /\ call[r].on # r /\ KindOf[call[r].op] \in RowKind
        /\ call[r].op = "upload" => call[r].on = None
        /\ call[r].op # "upload" => call[r].op = "reassign" /\ call[r].on \in Ids
    BY <1>1 DEF SentInv, Sent, Working, InFlight, KindOf, RowKind, Transactional, Rows
  <1>3. row'[r] = new
    <2>1. r \in Ids
      BY DEF Ids
    <2> QED
      BY <1>1, <1>2, <2>1
  <1>4. \A i \in Ids : i # r /\ i # call[r].on => row'[i] = row[i]
    BY <1>1
  <1>5. call[r].on \in Ids /\ call[r].on # r => row'[call[r].on] = Overlaid(r)
    BY <1>1
  <1>6. new \in Row
    BY <1>2, NewRowIsRow DEF new
  <1>7. call[r].op = "reassign" => Updates(r, Overlaid(r))
    BY <1>1, OverlaidUpdates DEF InFlight, Changing
  <1>8. row[r] = None
    BY <1>1 DEF BornInv, Born, Transactional
  <1>9. None \notin Ids
    BY NoneAssumption
  <1> QED
    BY <1>1, <1>2, <1>3, <1>4, <1>5, <1>6, <1>7, <1>8, <1>9 DEF new

LEMMA InsertInserts ==
  ASSUME CaseworkTypeOK, SentInv, BornInv, NEW r \in Requests, Insert(r)
  PROVE  /\ pc[r] = "found" /\ call[r].op \in {"analyse", "note"}
         /\ pc'[r] = IF call[r].op = "note" THEN "done" ELSE "saved"
         /\ row[r] = None /\ row'[r] = NewRow(KindOf[call[r].op], None) /\ row'[r] \in Row
         /\ \A i \in Ids \ {r} : row'[i] = row[i]
         /\ UNCHANGED <<custody, lock, auditLog, call, entity, columns, overlaps>>
  <1>1. /\ pc[r] = "found" /\ call[r].op \in {"analyse", "note"}
        /\ row' = [row EXCEPT ![r] = NewRow(KindOf[call[r].op], None)]
        /\ UNCHANGED <<custody, lock, auditLog, call, entity, columns, overlaps>>
        /\ pc'[r] = IF call[r].op = "note" THEN "done" ELSE "saved"
    BY DEF Insert, Goto, locals, CaseworkTypeOK
  <1>2. KindOf[call[r].op] \in RowKind
    BY <1>1 DEF KindOf, RowKind
  <1>3. row[r] = None
    BY <1>1 DEF BornInv, Born, Transactional
  <1> QED
    BY <1>1, <1>2, <1>3, NewRowIsRow DEF CaseworkTypeOK, Ids

\* Rows are never removed and keep their kind and their predecessor.
LEMMA RowsKept ==
  ASSUME CaseworkTypeOK, SentInv, BornInv, NEW r \in Requests, CaseworkStep(r),
         NEW i \in Ids, row[i] # None
  PROVE  row'[i] # None /\ row'[i].kind = row[i].kind /\ row'[i].previous = row[i].previous
  <1>0. None \notin Row
    BY NoneAssumption
  <1>1. CASE Save(r)
    BY <1>0, <1>1, SaveUpdates DEF Updates
  <1>2. CASE Commit(r)
    BY <1>0, <1>2, CommitInserts DEF Updates
  <1>3. CASE Insert(r)
    BY <1>3, InsertInserts
  <1>4. CASE ~Save(r) /\ ~Commit(r) /\ ~Insert(r)
    BY <1>4 DEF CaseworkStep, Start, Reassign, UpdateStatus, Review, Upload, Access, Analyse,
                AddNote, Begin, Refuse, Proceed, Merge, SaveInTransaction, InsertInTransaction,
                RecordAccess, LogAudit, Open, Fail, database
  <1> QED
    BY <1>1, <1>2, <1>3, <1>4

\* and only the handler that inserts a row makes one.
LEMMA RowsAdded ==
  ASSUME CaseworkTypeOK, SentInv, BornInv, NEW r \in Requests, CaseworkStep(r),
         NEW i \in Ids, row[i] = None, row'[i] # None
  PROVE  i = r /\ (Commit(r) \/ Insert(r))
  <1>0. None \notin Row
    BY NoneAssumption
  <1>1. CASE Save(r)
    BY <1>0, <1>1, SaveUpdates DEF Updates
  <1>2. CASE Commit(r)
    BY <1>0, <1>2, CommitInserts DEF Updates
  <1>3. CASE Insert(r)
    BY <1>3, InsertInserts
  <1>4. CASE ~Save(r) /\ ~Commit(r) /\ ~Insert(r)
    BY <1>4 DEF CaseworkStep, Start, Reassign, UpdateStatus, Review, Upload, Access, Analyse,
                AddNote, Begin, Refuse, Proceed, Merge, SaveInTransaction, InsertInTransaction,
                RecordAccess, LogAudit, Open, Fail, database
  <1> QED
    BY <1>1, <1>2, <1>3, <1>4

-----------------------------------------------------------------------------
(* Casework: each part of the invariant is kept.                            *)

LEMMA PairCardinality ==
  ASSUME NEW a, NEW b, a # b
  PROVE  Cardinality({a, b}) = 2
  <1>1. IsFiniteSet({a}) /\ Cardinality({a}) = 1
    BY FS_Singleton
  <1>2. Cardinality({a} \cup {b}) = 2
    BY <1>1, FS_AddElement
  <1>3. {a} \cup {b} = {a, b}
    OBVIOUS
  <1> QED
    BY <1>2, <1>3

LEMMA CaseworkStepType ==
  ASSUME CaseworkTypeOK, SentInv, BornInv, NEW r \in Requests, CaseworkStep(r)
  PROVE  CaseworkTypeOK'
  <1>1. ASSUME NEW op, NEW id, NEW e, Begun(r, op, id, e) PROVE CaseworkTypeOK'
    <2>1. \A o \in overlaps' : o \subseteq Requests /\ Cardinality(o) = 2
      <3>1. ASSUME NEW q \in Requests, pc[q] \in InFlight
            PROVE  {r, q} \subseteq Requests /\ Cardinality({r, q}) = 2
        BY <1>1, <3>1, PairCardinality DEF Begun, Begin, InFlight
      <3> QED
        BY <1>1, <3>1 DEF Begun, Begin, CaseworkTypeOK
    <2>2. [op |-> op, on |-> id] \in Call
      BY <1>1 DEF Begun, Call
    <2> QED
      BY <1>1, <2>1, <2>2 DEF Begun, Begin, Goto, database, CaseworkTypeOK, Stage
  <1>2. CASE Save(r)
    <2>1. row' \in [Ids -> Row \cup {None}]
      BY <1>2, SaveUpdates DEF Updates, Save, CaseworkTypeOK
    <2> QED
      BY <1>2, <2>1 DEF Save, Goto, locals, CaseworkTypeOK, Stage
  <1>3. CASE Commit(r)
    <2>1. row' \in [Ids -> Row \cup {None}]
      <3>1. \A i \in Ids : row'[i] \in Row \cup {None}
        BY <1>3, CommitInserts DEF Updates, CaseworkTypeOK
      <3>2. row' = [i \in Ids |-> row'[i]]
        BY <1>3 DEF Commit
      <3> QED
        BY <3>1, <3>2
    <2>2. Released(r) \in [Ids -> Requests \cup {None}]
      BY DEF Released, CaseworkTypeOK
    <2>3. [evidence |-> r, by |-> r, action |-> "uploaded"] \in
            [evidence : Ids \cup {Nowhere}, by : Requests, action : {"uploaded", "accessed"}]
      BY DEF Ids
    <2> QED
      BY <1>3, <2>1, <2>2, <2>3 DEF Commit, Goto, locals, CaseworkTypeOK, Stage
  <1>4. CASE Insert(r)
    <2>1. row' \in [Ids -> Row \cup {None}]
      BY <1>4, InsertInserts DEF Insert, CaseworkTypeOK
    <2> QED
      BY <1>4, <2>1 DEF Insert, Goto, locals, CaseworkTypeOK, Stage
  <1>5. CASE Refuse(r) \/ Merge(r) \/ InsertInTransaction(r) \/ Open(r)
    BY <1>5 DEF Refuse, Merge, InsertInTransaction, Open, Goto, database, locals,
                CaseworkTypeOK, Stage
  <1>6. CASE SaveInTransaction(r)
    BY <1>6 DEF SaveInTransaction, Goto, locals, CaseworkTypeOK, Stage
  <1>7. CASE RecordAccess(r)
    <2>1. [evidence |-> call[r].on, by |-> r, action |-> "accessed"] \in
            [evidence : Ids \cup {Nowhere}, by : Requests, action : {"uploaded", "accessed"}]
      BY <1>7 DEF RecordAccess, SentInv, Sent, Working, InFlight
    <2> QED
      BY <1>7, <2>1 DEF RecordAccess, Goto, locals, CaseworkTypeOK, Stage
  <1>8. CASE LogAudit(r)
    <2>1. /\ call[r].op \in Operation
          /\ (IF call[r].op \in DOMAIN KindOf THEN r ELSE call[r].on) \in Ids \cup {Nowhere}
      BY <1>8 DEF LogAudit, SentInv, Sent, Working, InFlight, Call, KindOf, Operation, Ids, Rows
    <2> QED
      BY <1>8, <2>1 DEF LogAudit, Goto, database, locals, CaseworkTypeOK, Stage
  <1>9. CASE Fail(r)
    <2>1. Released(r) \in [Ids -> Requests \cup {None}]
      BY DEF Released, CaseworkTypeOK
    <2> QED
      BY <1>9, <2>1 DEF Fail, Goto, locals, CaseworkTypeOK, Stage
  <1> QED
    BY <1>1, <1>2, <1>3, <1>4, <1>5, <1>6, <1>7, <1>8, <1>9, StartBegins
    DEF CaseworkStep, Proceed

LEMMA SentStep ==
  ASSUME CaseworkTypeOK, SentInv, BornInv, NEW r \in Requests, CaseworkStep(r)
  PROVE  SentInv'
  <1>1. \A kinds : Rows(kinds) \subseteq Rows(kinds)'
    BY RowsKept DEF Rows
  <1>2. ASSUME NEW q \in Requests \ {r} PROVE Sent(q)'
    <2>1. Sent(q) /\ pc'[q] = pc[q] /\ call'[q] = call[q] /\ entity'[q] = entity[q]
      BY CaseworkElsewhere DEF SentInv
    <2> QED
      BY <1>1, <2>1 DEF Sent, Working, Changing, Transactional
  <1>3. Sent(r)'
    <2>1. CASE Refuse(r) \/ Fail(r)
      BY <2>1, CaseworkHolds DEF Sent, Working, InFlight
    <2>2. CASE Proceed(r)
      <3>1. Sent(r) /\ call' = call /\ entity' = entity /\ pc[r] \in InFlight
        BY <2>2, CaseworkHolds DEF SentInv, Refuse, Proceed, Merge, Save, SaveInTransaction,
           InsertInTransaction, Insert, RecordAccess, LogAudit, Commit, Open, InFlight
      <3>2. /\ pc'[r] = "merged" => Changing(r)
            /\ pc'[r] = "saved" => call[r].op \notin {"updateStatus", "note"}
            /\ pc'[r] = "audited" => Transactional(r) \/ call[r].op = "access"
            /\ pc'[r] # "idle"
        BY <2>2, <3>1 DEF Proceed, Merge, Save, SaveInTransaction, InsertInTransaction, Insert,
           RecordAccess, LogAudit, Commit, Open, Goto, CaseworkTypeOK, Sent, Transactional
      <3> QED
        BY <1>1, <3>1, <3>2 DEF Sent, Working, Changing, Transactional
    <2>3. ASSUME NEW op, NEW id, NEW e, Begun(r, op, id, e) PROVE Sent(r)'
      <3>1. /\ call'[r] = [op |-> op, on |-> id] /\ entity'[r] = e /\ pc'[r] = "found"
            /\ op \in Operation /\ id \in Ids \cup {Nowhere, None} /\ id # r
        BY <2>3 DEF Begun, Begin, Goto, CaseworkTypeOK
      <3>2. call'[r] \in Call
        BY <3>1 DEF Call
      <3>3. /\ op \in {"reassign", "updateStatus"} => id \in Rows({"assignment"})'
            /\ op = "review" => id \in Rows({"escalation", "analysis"})'
        BY <1>1, <2>3 DEF Begun
      <3>4. /\ op \in DOMAIN KindOf \ {"reassign"} => id = None
            /\ op = "access" => id \in Ids \cup {Nowhere}
            /\ op \in {"reassign", "updateStatus", "review"} => e \in Row
            /\ op = "updateStatus" /\ e.status = "completed" => e.completedAt # None
        BY <2>3 DEF Begun, KindOf
      <3> QED
        BY <3>1, <3>2, <3>3, <3>4 DEF Sent, Changing, Transactional
    <2> QED
      BY <2>1, <2>2, <2>3, StartBegins DEF CaseworkStep
  <1> QED
    BY <1>2, <1>3 DEF SentInv

LEMMA BornStep ==
  ASSUME CaseworkTypeOK, SentInv, BornInv, NEW r \in Requests, CaseworkStep(r)
  PROVE  BornInv'
  <1>1. \A i \in Existing : row'[i] # None /\ row'[i].kind = i /\ row'[i].previous = None
    BY RowsKept DEF BornInv, Ids
  <1>2. ASSUME NEW q \in Requests \ {r}, row'[q] # None PROVE Born(q)'
    <2>1. /\ row[q] # None /\ pc'[q] = pc[q] /\ call'[q] = call[q]
          /\ row'[q].kind = row[q].kind /\ row'[q].previous = row[q].previous
      BY <1>2, RowsAdded, RowsKept, CaseworkElsewhere DEF Ids
    <2> QED
      BY <2>1 DEF BornInv, Born, Transactional
  <1>3. ASSUME row'[r] # None PROVE Born(r)'
    <2>1. CASE row[r] = None
      <3>1. r \in Ids
        BY DEF Ids
      <3>2. CASE Commit(r)
        <4>1. /\ pc'[r] = "done" /\ Transactional(r) /\ call' = call
              /\ row'[r] = NewRow(KindOf[call[r].op], call[r].on)
          BY <3>2, CommitInserts
        <4> QED
          BY <4>1 DEF Born, NewRow, Transactional
      <3>3. CASE Insert(r)
        <4>1. /\ call[r].op \in {"analyse", "note"} /\ call' = call
              /\ pc'[r] \in {"saved", "done"} /\ row'[r] = NewRow(KindOf[call[r].op], None)
          BY <3>3, InsertInserts
        <4> QED
          BY <4>1 DEF Born, NewRow, Transactional
      <3> QED
        BY <1>3, <2>1, <3>1, <3>2, <3>3, RowsAdded
    <2>2. CASE row[r] # None
      <3>1. /\ Born(r) /\ row'[r].kind = row[r].kind /\ row'[r].previous = row[r].previous
        BY <2>2, RowsKept DEF BornInv, Ids
      <3>2. pc[r] \in {"saved", "done", "failed"} /\ (pc[r] # "done" => ~Transactional(r))
        BY <2>2, <3>1 DEF Born, Transactional
      <3>3. (LogAudit(r) \/ Fail(r)) /\ pc[r] = "saved"
        BY <3>2 DEF CaseworkStep, Start, Reassign, UpdateStatus, Review, Upload, Access, Analyse,
           AddNote, Begin, Refuse, Proceed, Merge, Save, SaveInTransaction, InsertInTransaction,
           Insert, RecordAccess, LogAudit, Commit, Open, Fail, InFlight
      <3>4. call' = call /\ pc'[r] \in {"done", "failed"}
        BY <2>2, <3>1, <3>3 DEF LogAudit, Fail, Goto, locals, CaseworkTypeOK, Born, Transactional
      <3> QED
        BY <2>2, <3>1, <3>3, <3>4 DEF Born, Transactional
    <2> QED
      BY <2>1, <2>2
  <1> QED
    BY <1>1, <1>2, <1>3 DEF BornInv, Born

LEMMA LoggedStep ==
  ASSUME CaseworkTypeOK, SentInv, LoggedInv, NEW r \in Requests, CaseworkStep(r)
  PROVE  LoggedInv'
  <1> DEFINE Logged(q) == [by |-> q, op |-> call[q].op,
                           on |-> IF Transactional(q) THEN q ELSE call[q].on] \in auditLog
  <1>1. ASSUME NEW q \in Requests \ {r}, pc'[q] \in {"audited", "done"},
               (Transactional(q) \/ call[q].op = "access")'
        PROVE  Logged(q)'
    BY <1>1, CaseworkElsewhere DEF LoggedInv, Transactional
  <1>2. ASSUME pc'[r] \in {"audited", "done"}, (Transactional(r) \/ call[r].op = "access")'
        PROVE  Logged(r)'
    <2>1. CASE LogAudit(r)
      <3>1. call' = call /\ (call[r].op = "access" => call[r].op \notin DOMAIN KindOf)
            /\ (Transactional(r) => call[r].op \in DOMAIN KindOf)
        BY <2>1 DEF LogAudit, locals, KindOf, Transactional
      <3> QED
        BY <1>2, <2>1, <3>1 DEF LogAudit, Transactional
    <2>2. CASE Commit(r) \/ Open(r)
      <3>1. pc[r] = "audited" /\ UNCHANGED <<call, auditLog>>
        BY <2>2 DEF Commit, Open, database, locals
      <3> QED
        BY <1>2, <3>1 DEF LoggedInv, Transactional
    <2>3. CASE Save(r)
      BY <1>2, <2>3, SaveUpdates DEF Transactional
    <2>4. CASE Insert(r)
      BY <1>2, <2>4 DEF Insert, locals, Transactional
    <2>5. CASE ~LogAudit(r) /\ ~Commit(r) /\ ~Open(r) /\ ~Save(r) /\ ~Insert(r)
      BY <1>2, <2>5 DEF CaseworkStep, Start, Reassign, UpdateStatus, Review, Upload, Access,
         Analyse, AddNote, Begin, Refuse, Proceed, Merge, SaveInTransaction,
         InsertInTransaction, RecordAccess, Fail, Goto, CaseworkTypeOK
    <2> QED
      BY <2>1, <2>2, <2>3, <2>4, <2>5
  <1> QED
    BY <1>1, <1>2 DEF LoggedInv

LEMMA ReassignedStep ==
  ASSUME CaseworkTypeOK, SentInv, BornInv, ReassignedInv, NEW r \in Requests, CaseworkStep(r)
  PROVE  ReassignedInv'
  <1> SUFFICES ASSUME NEW i \in Rows({"assignment"})', row'[i].status = "reassigned"
               PROVE  \/ Successors(i)' # {}
                      \/ \E q \in Requests : /\ call'[q] = [op |-> "updateStatus", on |-> i]
                                             /\ entity'[q].status = "reassigned"
    BY DEF ReassignedInv
  <1>0. i \in Ids /\ row'[i] # None /\ row'[i].kind = "assignment"
    BY DEF Rows
  <1>1. \A j \in Ids : Successors(j) \subseteq Successors(j)'
    BY RowsKept DEF Successors, Rows
  <1>2. CASE i \in Rows({"assignment"}) /\ row[i].status = "reassigned"
    <2>1. CASE Successors(i) # {}
      BY <1>0, <1>1, <2>1
    <2>2. ASSUME NEW q \in Requests, call[q] = [op |-> "updateStatus", on |-> i],
                 entity[q].status = "reassigned"
          PROVE  \E p \in Requests : /\ call'[p] = [op |-> "updateStatus", on |-> i]
                                     /\ entity'[p].status = "reassigned"
      <3>1. call'[q] = call[q] /\ entity'[q] = entity[q]
        <4>1. CASE q # r
          BY <4>1, CaseworkElsewhere
        <4>2. CASE q = r /\ (Proceed(r) \/ Fail(r) \/ Refuse(r))
          BY <4>2, CaseworkHolds
        <4>3. CASE q = r /\ Start(r) /\ ~Refuse(r)
          <5>1. pc[r] = "idle"
            BY <4>3 DEF Start, Reassign, UpdateStatus, Review, Upload, Access, Analyse,
                        AddNote, Begin
          <5> QED
            BY <2>2, <4>3, <5>1 DEF SentInv, Sent, NoCall
        <4> QED
          BY <4>1, <4>2, <4>3 DEF CaseworkStep
      <3> QED
        BY <2>2, <3>1
    <2> QED
      BY <1>2, <2>1, <2>2 DEF ReassignedInv
  <1>3. CASE row[i] = None
    <2>1. i = r /\ (Commit(r) \/ Insert(r))
      BY <1>0, <1>3, RowsAdded
    <2>2. \E previous : row'[r] = NewRow(KindOf[call[r].op], previous)
      BY <2>1, CommitInserts, InsertInserts
    <2> QED
      BY <1>0, <2>1, <2>2 DEF NewRow
  <1>4. CASE row[i] # None /\ ~(i \in Rows({"assignment"}) /\ row[i].status = "reassigned")
    <2>1. row[i].kind = "assignment" /\ row'[i] # row[i] /\ i \in Rows({"assignment"})
      BY <1>0, <1>4, RowsKept DEF Rows
    <2>2. CASE Save(r)
      <3>1. call[r].on = i /\ call[r].op \in {"updateStatus", "review"} /\ Working(r)
        BY <1>0, <2>1, <2>2, SaveUpdates DEF Working, InFlight
      <3>2. call[r].op = "updateStatus" /\ call[r] \in Call
        BY <2>1, <3>1 DEF SentInv, Sent, Rows
      <3>3. call'[r] = [op |-> "updateStatus", on |-> i] /\ entity'[r].status = "reassigned"
        BY <1>4, <2>1, <2>2, <3>1, <3>2, SaveUpdates DEF Updates, Call
      <3> QED
        BY <3>3
    <2>3. CASE Commit(r)
      <3>1. /\ call[r].op = "reassign" /\ call[r].on = i
            /\ row'[r] = NewRow(KindOf[call[r].op], call[r].on) /\ row'[r] \in Row
        BY <1>0, <1>4, <2>1, <2>3, CommitInserts
      <3>2. row'[r].kind = "assignment" /\ row'[r].previous = i /\ row'[r] # None /\ r \in Ids
        BY <3>1, NoneAssumption DEF NewRow, KindOf, Ids
      <3>3. r \in Successors(i)'
        BY <3>2 DEF Successors, Rows
      <3> QED
        BY <3>3
    <2>4. CASE Insert(r)
      BY <1>0, <1>4, <2>1, <2>4, InsertInserts
    <2>5. CASE ~Save(r) /\ ~Commit(r) /\ ~Insert(r)
      BY <2>1, <2>5 DEF CaseworkStep, Start, Reassign, UpdateStatus, Review, Upload, Access,
         Analyse, AddNote, Begin, Refuse, Proceed, Merge, SaveInTransaction,
         InsertInTransaction, RecordAccess, LogAudit, Open, Fail, database
    <2> QED
      BY <2>2, <2>3, <2>4, <2>5
  <1> QED
    BY <1>2, <1>3, <1>4

LEMMA CustodyStep ==
  ASSUME CaseworkTypeOK, SentInv, BornInv, CustodyInv, NEW r \in Requests, CaseworkStep(r)
  PROVE  CustodyInv'
  <1>0. Rows({"evidence"}) \subseteq Rows({"evidence"})'
    BY RowsKept DEF Rows
  <1>1. ASSUME NEW q \in Requests,
               pc'[q] \in {"saved", "audited", "done"}, call'[q].op = "access"
        PROVE  [evidence |-> call'[q].on, by |-> q, action |-> "accessed"] \in custody'
    <2>1. CASE q # r
      BY <1>1, <2>1, CaseworkElsewhere DEF CustodyInv
    <2>2. CASE q = r /\ RecordAccess(r)
      BY <2>2 DEF RecordAccess, locals
    <2>3. CASE q = r /\ (LogAudit(r) \/ Open(r))
      BY <1>1, <2>3 DEF LogAudit, Open, database, locals, CustodyInv
    <2>4. CASE q = r /\ Save(r)
      BY <1>1, <2>4, SaveUpdates
    <2>5. CASE q = r /\ (SaveInTransaction(r) \/ InsertInTransaction(r) \/ Insert(r) \/ Commit(r))
      BY <1>1, <2>5 DEF SaveInTransaction, InsertInTransaction, Insert, Commit, locals,
                        Transactional
    <2>6. CASE q = r /\ (Start(r) \/ Merge(r) \/ Fail(r))
      BY <1>1, <2>6 DEF Start, Reassign, UpdateStatus, Review, Upload, Access, Analyse, AddNote,
         Begin, Refuse, Merge, Fail, Goto, CaseworkTypeOK
    <2> QED
      BY <2>1, <2>2, <2>3, <2>4, <2>5, <2>6 DEF CaseworkStep, Proceed
  <1>2. ASSUME NEW q \in Requests, pc'[q] = "done", call'[q].op = "upload"
        PROVE  [evidence |-> q, by |-> q, action |-> "uploaded"] \in custody'
    <2>1. CASE q # r
      BY <1>2, <2>1, CaseworkElsewhere DEF CustodyInv
    <2>2. CASE q = r /\ Commit(r)
      BY <1>2, <2>2 DEF Commit, locals
    <2>3. CASE q = r /\ ~Commit(r)
      <3>1. CASE Save(r)
        BY <1>2, <2>3, <3>1, SaveUpdates
      <3>2. CASE LogAudit(r) \/ Insert(r) \/ Open(r)
        BY <1>2, <2>3, <3>2 DEF LogAudit, Insert, Open, Goto, locals, Transactional, CaseworkTypeOK
      <3> QED
        BY <1>2, <2>3, <3>1, <3>2 DEF CaseworkStep, Proceed, Start, Reassign, UpdateStatus,
           Review, Upload, Access, Analyse, AddNote, Begin, Refuse, Merge, SaveInTransaction,
           InsertInTransaction, RecordAccess, Fail, Goto, CaseworkTypeOK
    <2> QED
      BY <2>1, <2>2, <2>3
  <1>3. ASSUME NEW k \in custody'
        PROVE  \/ k.evidence = k.by /\ k.by \in Rows({"evidence"})'
               \/ /\ call'[k.by].op = "access" /\ call'[k.by].on = k.evidence
                  /\ pc'[k.by] # "idle"
                  /\ pc'[k.by] = "done" => k.evidence \in Rows({"evidence"})'
    <2>1. CASE k \in custody /\ k.by \in Rows({"evidence"}) /\ k.evidence = k.by
      BY <1>0, <2>1
    <2>2. CASE k \in custody /\ ~(k.by \in Rows({"evidence"}) /\ k.evidence = k.by)
      <3>1. /\ k.by \in Requests /\ call[k.by].op = "access" /\ call[k.by].on = k.evidence
            /\ pc[k.by] # "idle"
            /\ pc[k.by] = "done" => k.evidence \in Rows({"evidence"})
        BY <2>2 DEF CustodyInv, CaseworkTypeOK
      <3>2. CASE k.by # r
        BY <1>0, <3>1, <3>2, CaseworkElsewhere
      <3>3. CASE k.by = r
        <4>1. Proceed(r) \/ Fail(r)
          BY <3>1, <3>3 DEF CaseworkStep, Start, Reassign, UpdateStatus, Review, Upload, Access,
             Analyse, AddNote, Begin, Refuse
        <4>2. call' = call
          BY <4>1, CaseworkHolds
        <4>3. pc'[r] # "idle" /\ (pc'[r] = "done" => Open(r))
          <5>1. ~Save(r)
            BY <3>1, <3>3, SaveUpdates
          <5> QED
            BY <3>1, <3>3, <4>1, <5>1 DEF Proceed, Merge, SaveInTransaction, InsertInTransaction,
               Insert, RecordAccess, LogAudit, Commit, Open, Fail, Goto, CaseworkTypeOK,
               Transactional
        <4>4. Open(r) /\ pc'[r] = "done" => k.evidence \in Rows({"evidence"})
          BY <3>1, <3>3 DEF Open, Goto, CaseworkTypeOK
        <4> QED
          BY <1>0, <3>1, <3>3, <4>2, <4>3, <4>4
      <3> QED
        BY <3>2, <3>3
    <2>3. CASE k \notin custody
      <3>1. CASE RecordAccess(r)
        BY <2>3, <3>1 DEF RecordAccess, Goto, locals, CaseworkTypeOK
      <3>2. CASE Commit(r)
        <4>1. k = [evidence |-> r, by |-> r, action |-> "uploaded"] /\ call[r].op = "upload"
          BY <2>3, <3>2 DEF Commit
        <4>2. row'[r] = NewRow("evidence", call[r].on) /\ row'[r] \in Row
          BY <3>2, <4>1, CommitInserts DEF KindOf
        <4>3. r \in Rows({"evidence"})'
          BY <4>2, NoneAssumption DEF Rows, NewRow, Ids
        <4> QED
          BY <4>1, <4>3
      <3> QED
        BY <2>3, <3>1, <3>2 DEF CaseworkStep, Proceed, Start, Reassign, UpdateStatus, Review,
           Upload, Access, Analyse, AddNote, Begin, Refuse, Merge, Save, SaveInTransaction,
           InsertInTransaction, Insert, LogAudit, Open, Fail, database
    <2> QED
      BY <2>1, <2>2, <2>3
  <1> QED
    BY <1>1, <1>2, <1>3 DEF CustodyInv

\* A request that has begun holds what it has read and was sent.
LEMMA HeldKept ==
  ASSUME CaseworkTypeOK, NEW r \in Requests, CaseworkStep(r), NEW q \in Requests, pc[q] # "idle"
  PROVE  entity'[q] = entity[q] /\ call'[q] = call[q] /\ pc'[q] # "idle"
  <1>1. CASE q # r
    BY <1>1, CaseworkElsewhere
  <1>2. CASE q = r
    <2>1. Proceed(r) \/ Fail(r)
      BY <1>2 DEF CaseworkStep, Start, Reassign, UpdateStatus, Review, Upload, Access, Analyse,
                  AddNote, Begin, Refuse
    <2>2. pc'[r] # "idle"
      BY <2>1 DEF Proceed, Merge, Save, SaveInTransaction, InsertInTransaction, Insert,
                  RecordAccess, LogAudit, Commit, Open, Fail, Goto, CaseworkTypeOK
    <2> QED
      BY <1>2, <2>1, <2>2, CaseworkHolds
  <1> QED
    BY <1>1, <1>2

\* Nobody reads or merges twice.
LEMMA SavedKept ==
  ASSUME CaseworkTypeOK, NEW r \in Requests, CaseworkStep(r), NEW q \in Requests, HasSaved(q)
  PROVE  HasSaved(q)'
  <1>1. CASE q # r
    BY <1>1, CaseworkElsewhere DEF HasSaved
  <1>2. CASE q = r
    BY <1>2 DEF CaseworkStep, Start, Reassign, UpdateStatus, Review, Upload, Access,
       Analyse, AddNote, Begin, Refuse, Proceed, Merge, Save, SaveInTransaction,
       InsertInTransaction, Insert, RecordAccess, LogAudit, Commit, Open, Fail, Goto,
       CaseworkTypeOK, HasSaved
  <1> QED
    BY <1>1, <1>2

\* The requests that a request has met stay so, and keep what they hold.
LEMMA OverlapStep ==
  ASSUME CaseworkTypeOK, OverlapInv, NEW r \in Requests, CaseworkStep(r)
  PROVE  OverlapInv'
  <1>1. ASSUME NEW q \in Requests, q # r, pc'[q] \in InFlight, pc'[r] \in InFlight,
               call'[q].on = call'[r].on
        PROVE  {q, r} \in overlaps'
    <2>1. pc[q] \in InFlight /\ call'[q] = call[q]
      BY <1>1, CaseworkElsewhere
    <2>2. CASE Proceed(r)
      <3>1. pc[r] \in InFlight /\ call'[r] = call[r] /\ overlaps' = overlaps
        BY <2>2, CaseworkHolds DEF Proceed, Refuse, Merge, Save, SaveInTransaction,
           InsertInTransaction, Insert, RecordAccess, LogAudit, Commit, Open, InFlight
      <3> QED
        BY <1>1, <2>1, <3>1 DEF OverlapInv
    <2>3. CASE Fail(r) \/ Refuse(r)
      BY <1>1, <2>3 DEF Fail, Refuse, Goto, InFlight, CaseworkTypeOK
    <2>4. CASE Start(r) /\ ~Refuse(r)
      <3>1. PICK op, id, e : Begin(r, op, id, e)
        BY <2>4 DEF Start, Reassign, UpdateStatus, Review, Upload, Access, Analyse, AddNote
      <3>2. call'[r].on = id
        BY <3>1 DEF Begin, CaseworkTypeOK
      <3>3. {r, q} \in overlaps'
        BY <1>1, <2>1, <3>1, <3>2 DEF Begin
      <3>4. {r, q} = {q, r}
        OBVIOUS
      <3> QED
        BY <3>3, <3>4
    <2> QED
      BY <2>2, <2>3, <2>4 DEF CaseworkStep
  <1>2. ASSUME NEW q \in Requests, NEW p \in Requests, q # p, pc'[q] \in InFlight,
               pc'[p] \in InFlight, call'[q].on = call'[p].on
        PROVE  {q, p} \in overlaps'
    <2>1. CASE q # r /\ p # r
      BY <1>2, <2>1, CaseworkElsewhere DEF OverlapInv
    <2>2. {q, p} = {p, q}
      OBVIOUS
    <2> QED
      BY <1>1, <1>2, <2>1, <2>2
  <1>3. ASSUME NEW o \in overlaps', NEW q \in o PROVE pc'[q] # "idle"
    <2>1. CASE o \in overlaps
      BY <2>1, HeldKept DEF OverlapInv, CaseworkTypeOK
    <2>2. CASE o \notin overlaps
      <3>1. ~(Proceed(r) \/ Fail(r) \/ Refuse(r))
        BY <1>3, <2>2, CaseworkHolds
      <3>2. PICK op, id, e : Begin(r, op, id, e)
        BY <3>1 DEF CaseworkStep, Start, Reassign, UpdateStatus, Review, Upload, Access, Analyse,
                    AddNote
      <3>3. pc'[r] = "found" /\ \A p \in Requests : pc[p] \in InFlight => pc'[p] # "idle"
        BY <3>2, HeldKept DEF Begin, Goto, CaseworkTypeOK, InFlight
      <3> QED
        BY <1>3, <2>2, <3>2, <3>3 DEF Begin
    <2> QED
      BY <2>1, <2>2
  <1> QED
    BY <1>2, <1>3 DEF OverlapInv

\* The columns that save() finds different.
LEMMA MergeFinds ==
  ASSUME CaseworkTypeOK, NEW r \in Requests, Merge(r)
  PROVE  /\ pc[r] = "found" /\ pc'[r] = "merged" /\ Changing(r)
         /\ \A k \in Column : k \in columns'[r] <=> entity[r][k] # row[call[r].on][k]
         /\ row' = row /\ call' = call /\ entity' = entity /\ overlaps' = overlaps
  BY DEF Merge, Goto, database, CaseworkTypeOK

\* A handler about to write has met whoever writes the row before it.
LEMMA MergedHasMet ==
  ASSUME CaseworkTypeOK, SentInv, BornInv, OverlapInv, NEW r \in Requests, CaseworkStep(r),
         NEW c \in Requests \ {r}, pc[c] = "merged", row'[call[c].on] # row[call[c].on]
  PROVE  r \in Overlapping(c)
  <1> DEFINE i == call[c].on
  <1>1. i \in Ids /\ row[i] # None
    BY DEF SentInv, Sent, Working, InFlight, Changing, Rows
  <1>2. CASE Save(r)
    <2>1. call[r].on = i /\ pc[r] = "merged"
      BY <1>1, <1>2, SaveUpdates
    <2> QED
      BY <2>1 DEF OverlapInv, Overlapping, InFlight
  <1>3. CASE Commit(r)
    <2>1. call[r].on = i /\ pc[r] = "audited"
      BY <1>1, <1>3, CommitInserts
    <2> QED
      BY <2>1 DEF OverlapInv, Overlapping, InFlight
  <1>4. CASE Insert(r)
    BY <1>1, <1>4, InsertInserts
  <1>5. CASE ~Save(r) /\ ~Commit(r) /\ ~Insert(r)
    BY <1>5 DEF CaseworkStep, Start, Reassign, UpdateStatus, Review, Upload, Access, Analyse,
       AddNote, Begin, Refuse, Proceed, Merge, SaveInTransaction, InsertInTransaction,
       RecordAccess, LogAudit, Open, Fail, database
  <1> QED
    BY <1>2, <1>3, <1>4, <1>5

LEMMA CompletionStep ==
  ASSUME CaseworkTypeOK, SentInv, BornInv, OverlapInv, CompletionInv,
         NEW r \in Requests, CaseworkStep(r)
  PROVE  CompletionInv'
  <1>0. /\ \A q \in Requests : Overlapping(q) \subseteq Overlapping(q)'
        /\ None \notin Row
    BY CaseworkElsewhere, NoneAssumption DEF Overlapping, Ids
  \* What a completion is about to set, or finds set.
  <1>1. ASSUME NEW c \in Requests, Completing(c)', pc'[c] = "merged"
        PROVE  \/ "completedAt" \in columns'[c]
               \/ row'[call'[c].on].completedAt # None
               \/ Overlapping(c)' # {}
    <2>1. CASE c # r
      <3>1. pc[c] = "merged" /\ call'[c] = call[c] /\ columns'[c] = columns[c] /\ Completing(c)
        BY <1>1, <2>1, CaseworkElsewhere DEF Completing
      <3>2. CASE row'[call[c].on] = row[call[c].on]
        BY <1>0, <3>1, <3>2 DEF CompletionInv
      <3>3. CASE row'[call[c].on] # row[call[c].on]
        BY <1>0, <2>1, <3>1, <3>3, MergedHasMet
      <3> QED
        BY <3>2, <3>3
    <2>2. CASE c = r
      <3>1. Merge(r)
        BY <1>1, <2>2 DEF CaseworkStep, Start, Reassign, UpdateStatus, Review, Upload, Access,
           Analyse, AddNote, Begin, Refuse, Proceed, Save, SaveInTransaction,
           InsertInTransaction, Insert, RecordAccess, LogAudit, Commit, Open, Fail, Goto,
           CaseworkTypeOK
      <3>2. entity[r].completedAt # None
        BY <1>1, <2>2, <3>1, MergeFinds DEF Completing, SentInv, Sent, Working, InFlight
      <3> QED
        BY <2>2, <3>1, <3>2, MergeFinds DEF Column
    <2> QED
      BY <2>1, <2>2
  \* The row of a completion that nobody overlaps.
  <1>2. ASSUME NEW c \in Requests, Completing(c)', pc'[c] = "done", Overlapping(c)' = {}
        PROVE  /\ row'[call'[c].on].completedAt # None
               /\ \A q \in Requests :
                    pc'[q] \in InFlight /\ Changing(q)' /\ call'[q].on = call'[c].on =>
                      entity'[q].completedAt # None
    <2>1. Overlapping(c) = {}
      BY <1>0, <1>2
    <2>2. CASE c # r \/ pc[r] = "done"
      <3> DEFINE i == call[c].on
      <3>1. Completing(c) /\ pc[c] = "done" /\ call'[c] = call[c]
        BY <1>2, <2>2, CaseworkElsewhere, HeldKept DEF Completing
      <3>2. /\ row[i].completedAt # None
            /\ \A q \in Requests :
                 pc[q] \in InFlight /\ Changing(q) /\ call[q].on = i => entity[q].completedAt # None
        BY <2>1, <3>1 DEF CompletionInv
      <3>3. i \in Ids /\ row[i] # None
        BY <3>1 DEF SentInv, Sent, Working, Completing, Rows
      <3>4. row'[i].completedAt # None
        <4>1. CASE Save(r)
          BY <3>2, <3>3, <4>1, SaveUpdates DEF Updates, Changing, InFlight
        <4>2. CASE Commit(r)
          <5>1. i # r
            BY <3>3, <4>2, CommitInserts
          <5> QED
            BY <3>2, <3>3, <4>2, <5>1, CommitInserts DEF Updates, Changing, InFlight
        <4>3. CASE Insert(r)
          BY <3>2, <3>3, <4>3, InsertInserts
        <4>4. CASE ~Save(r) /\ ~Commit(r) /\ ~Insert(r)
          BY <3>2, <4>4 DEF CaseworkStep, Start, Reassign, UpdateStatus, Review, Upload, Access,
             Analyse, AddNote, Begin, Refuse, Proceed, Merge, SaveInTransaction,
             InsertInTransaction, RecordAccess, LogAudit, Open, Fail, database
        <4> QED
          BY <4>1, <4>2, <4>3, <4>4
      <3>5. ASSUME NEW q \in Requests, pc'[q] \in InFlight, Changing(q)', call'[q].on = i
            PROVE  entity'[q].completedAt # None
        <4>1. CASE q # r
          BY <3>2, <3>5, <4>1, CaseworkElsewhere DEF Changing
        <4>2. CASE q = r /\ Proceed(r)
          <5>1. pc[r] \in InFlight /\ call' = call /\ entity' = entity
            BY <4>2, CaseworkHolds DEF Proceed, Refuse, Merge, Save, SaveInTransaction,
               InsertInTransaction, Insert, RecordAccess, LogAudit, Commit, Open, InFlight
          <5> QED
            BY <3>2, <3>5, <4>2, <5>1 DEF Changing
        <4>3. CASE q = r /\ (Fail(r) \/ Refuse(r))
          BY <3>5, <4>3 DEF Fail, Refuse, Goto, InFlight, CaseworkTypeOK
        <4>4. CASE q = r /\ Start(r) /\ ~Refuse(r)
          <5>1. PICK op, id, e : Begun(r, op, id, e)
            BY <4>4, StartBegins
          <5>2. call'[r] = [op |-> op, on |-> id] /\ entity'[r] = e
            BY <5>1 DEF Begun, Begin, CaseworkTypeOK
          <5>3. op \in {"reassign", "updateStatus", "review"} /\ id = i
            BY <3>5, <4>4, <5>2 DEF Changing
          <5> QED
            BY <1>0, <3>2, <4>4, <5>1, <5>2, <5>3 DEF Begun
        <4> QED
          BY <4>1, <4>2, <4>3, <4>4 DEF CaseworkStep
      <3> QED
        BY <3>1, <3>4, <3>5
    <2>3. CASE c = r /\ pc[r] # "done"
      <3>1. Save(r)
        <4>1. Proceed(r)
          BY <1>2, <2>3 DEF CaseworkStep, Start, Reassign, UpdateStatus, Review, Upload, Access,
             Analyse, AddNote, Begin, Refuse, Fail, Goto, CaseworkTypeOK
        <4>2. call' = call /\ call[r].op = "updateStatus"
          BY <1>2, <2>3, <4>1, CaseworkHolds DEF Completing
        <4>3. pc[r] = "saved" => call[r].op \notin {"updateStatus", "note"}
          BY DEF SentInv, Sent, Working, InFlight
        <4> QED
          BY <1>2, <2>3, <4>1, <4>2, <4>3 DEF Proceed, Merge, SaveInTransaction,
             InsertInTransaction, Insert, RecordAccess, LogAudit, Commit, Open, Goto,
             CaseworkTypeOK, Transactional
      <3>2. /\ call' = call /\ entity' = entity /\ pc[r] = "merged" /\ Completing(r)
            /\ overlaps' = overlaps /\ Updates(r, row'[call[r].on])
        BY <1>2, <2>3, <3>1, SaveUpdates DEF Completing
      <3>3. /\ entity[r].completedAt # None
            /\ "completedAt" \in columns[r] \/ row[call[r].on].completedAt # None
        BY <2>1, <2>3, <3>2 DEF CompletionInv, SentInv, Sent, Working, InFlight, Completing
      <3>4. row'[call[r].on].completedAt # None
        BY <1>0, <3>2, <3>3 DEF Updates
      <3>5. \A q \in Requests : ~(pc'[q] \in InFlight /\ call'[q].on = call'[r].on)
        <4>1. SUFFICES ASSUME NEW q \in Requests, pc'[q] \in InFlight, call[q].on = call[r].on
                       PROVE  FALSE
          BY <3>2
        <4>2. q # r /\ pc[q] \in InFlight
          BY <1>2, <2>3, <4>1, CaseworkElsewhere DEF InFlight
        <4>3. {r, q} \in overlaps
          BY <3>2, <4>1, <4>2 DEF OverlapInv, InFlight
        <4> QED
          BY <2>1, <2>3, <4>3 DEF Overlapping
      <3> QED
        BY <2>3, <3>2, <3>4, <3>5
    <2> QED
      BY <2>2, <2>3
  <1> QED
    BY <1>1, <1>2 DEF CompletionInv

\* What reviewers at work together have given stays theirs.
LEMMA TogetherKept ==
  ASSUME CaseworkTypeOK, NEW r \in Requests, CaseworkStep(r),
         NEW q \in Requests, pc[q] # "idle", NEW p \in Together(q)
  PROVE  p \in Together(q)' /\ entity'[p] = entity[p]
  <1>1. p \in Requests /\ HasSaved(p) /\ pc[p] # "idle" /\ call[p] = call[q]
    BY DEF Together, Overlapping, HasSaved
  <1>2. HasSaved(p)' /\ entity'[p] = entity[p] /\ call'[p] = call[p] /\ call'[q] = call[q]
    BY <1>1, SavedKept, HeldKept
  <1>3. Overlapping(q) \subseteq Overlapping(q)'
    BY CaseworkElsewhere DEF Overlapping
  <1> QED
    BY <1>1, <1>2, <1>3 DEF Together

LEMMA GivenKept ==
  ASSUME CaseworkTypeOK, NEW r \in Requests, CaseworkStep(r),
         NEW q \in Requests, pc[q] # "idle", NEW k, Given(q, k),
         row'[call[q].on][k] = row[call[q].on][k]
  PROVE  Given(q, k)'
  <1>1. PICK p \in Together(q) : row[call[q].on][k] = entity[p][k]
    BY DEF Given
  <1>2. p \in Together(q)' /\ entity'[p] = entity[p] /\ call'[q] = call[q]
    BY TogetherKept, HeldKept
  <1> QED
    BY <1>1, <1>2 DEF Given

\* A row that is reviewed is changed by reviews.
LEMMA ReviewedBySave ==
  ASSUME CaseworkTypeOK, SentInv, BornInv, NEW r \in Requests, CaseworkStep(r),
         NEW i \in Rows({"escalation", "analysis"}), row'[i] # row[i]
  PROVE  Save(r) /\ call[r].op = "review" /\ call[r].on = i
  <1>1. i \in Ids /\ row[i] # None
    BY DEF Rows
  <1>2. CASE Save(r)
    <2>1. call[r].on = i /\ call[r].op \in {"updateStatus", "review"} /\ Working(r)
      BY <1>1, <1>2, SaveUpdates DEF Working, InFlight
    <2> QED
      BY <1>2, <2>1 DEF SentInv, Sent, Rows
  <1>3. CASE Commit(r)
    <2>1. call[r].on = i /\ call[r].op = "reassign" /\ Working(r)
      BY <1>1, <1>3, CommitInserts DEF Working, InFlight
    <2> QED
      BY <2>1 DEF SentInv, Sent, Rows
  <1>4. CASE Insert(r)
    BY <1>1, <1>4, InsertInserts
  <1>5. CASE ~Save(r) /\ ~Commit(r) /\ ~Insert(r)
    BY <1>5 DEF CaseworkStep, Start, Reassign, UpdateStatus, Review, Upload, Access, Analyse,
       AddNote, Begin, Refuse, Proceed, Merge, SaveInTransaction, InsertInTransaction,
       RecordAccess, LogAudit, Open, Fail, database
  <1> QED
    BY <1>2, <1>3, <1>4, <1>5

\* A review that saves, and reviewers at work together with it, have given what
\* the row shows then.
LEMMA ReviewSaves ==
  ASSUME CaseworkTypeOK, SentInv, BornInv, ReviewInv,
         NEW r \in Requests, CaseworkStep(r), Save(r), call[r].op = "review",
         NEW k \in ReviewColumn
  PROVE  Given(r, k)'
  <1> DEFINE i == call[r].on
  <1>1. /\ pc[r] = "merged" /\ pc'[r] = "saved" /\ Updates(r, row'[i])
        /\ call' = call /\ entity' = entity /\ Reviewing(r)
    BY SaveUpdates DEF ReviewInv
  <1>2. r \in Together(r)'
    BY <1>1 DEF Together, HasSaved
  <1>3. row'[i][k] = IF k \in columns[r] THEN entity[r][k] ELSE row[i][k]
    BY <1>1 DEF Updates, ReviewColumn
  <1>4. CASE row'[i][k] = entity[r][k]
    BY <1>1, <1>2, <1>4 DEF Given
  <1>5. CASE row'[i][k] # entity[r][k]
    <2>1. row'[i][k] = row[i][k] /\ Given(r, k)
      BY <1>1, <1>3, <1>5 DEF Reviewing
    <2> QED
      BY <1>1, <2>1, GivenKept
  <1> QED
    BY <1>4, <1>5

LEMMA ReviewStep ==
  ASSUME CaseworkTypeOK, SentInv, BornInv, OverlapInv, ReviewInv,
         NEW r \in Requests, CaseworkStep(r)
  PROVE  ReviewInv'
  \* What a row shows.
  <1>1. ASSUME NEW i \in Rows({"escalation", "analysis"})', row'[i].reviewedBy # None
        PROVE  \E q \in Requests :
                 /\ call'[q] = [op |-> "review", on |-> i] /\ HasSaved(q)'
                 /\ \A k \in ReviewColumn : Given(q, k)'
    <2>0. i \in Ids /\ row'[i] # None /\ row'[i].kind \in {"escalation", "analysis"}
      BY DEF Rows
    <2>1. CASE row[i] = None
      <3>1. \E kind, previous : row'[i] = NewRow(kind, previous)
        BY <2>0, <2>1, RowsAdded, CommitInserts, InsertInserts
      <3> QED
        BY <1>1, <3>1 DEF NewRow
    <2>2. CASE row[i] # None /\ row'[i] = row[i]
      <3>1. i \in Rows({"escalation", "analysis"})
        BY <2>0, <2>2 DEF Rows
      <3>2. PICK q \in Requests :
              /\ call[q] = [op |-> "review", on |-> i] /\ HasSaved(q)
              /\ \A k \in ReviewColumn : Given(q, k)
        BY <1>1, <2>2, <3>1 DEF ReviewInv, ReviewAttributed, Given, ReviewColumn
      <3>3. pc[q] # "idle" /\ call[q].on = i
        BY <3>2 DEF HasSaved
      <3>4. \A k \in ReviewColumn : Given(q, k)'
        BY <2>2, <3>2, <3>3, GivenKept
      <3> QED
        BY <3>2, <3>3, <3>4, HeldKept, SavedKept
    <2>3. CASE row[i] # None /\ row'[i] # row[i]
      <3>1. Save(r) /\ call[r].op = "review" /\ call[r].on = i
        BY <2>0, <2>3, RowsKept, ReviewedBySave DEF Rows
      <3>2. call'[r] = call[r] /\ HasSaved(r)' /\ call[r] \in Call
        BY <3>1, SaveUpdates DEF HasSaved, SentInv, Sent, Working, InFlight
      <3>3. call[r] = [op |-> "review", on |-> i]
        BY <3>1, <3>2 DEF Call
      <3> QED
        BY <3>1, <3>2, <3>3, ReviewSaves
    <2> QED
      BY <2>1, <2>2, <2>3
  <1>2. ReviewAttributed'
    <2> SUFFICES ASSUME NEW i \in Rows({"escalation", "analysis"})', row'[i].reviewedBy # None
                 PROVE  \E q \in Requests :
                          /\ call'[q] = [op |-> "review", on |-> i] /\ HasSaved(q)'
                          /\ \A k \in {"status", "reviewedBy", "remark"} :
                               row'[i][k] \in {entity'[p][k] : p \in Together(q)'}
      BY DEF ReviewAttributed
    <2>1. PICK q \in Requests :
            /\ call'[q] = [op |-> "review", on |-> i] /\ HasSaved(q)'
            /\ \A k \in ReviewColumn : Given(q, k)'
      BY <1>1
    <2> QED
      BY <2>1 DEF Given, ReviewColumn
  \* What an UPDATE that is still to come leaves out.
  <1>3. ASSUME NEW q \in Requests, pc'[q] = "merged", call'[q].op = "review"
        PROVE  Reviewing(q)'
    <2>1. CASE q # r
      <3> DEFINE i == call[q].on
      <3>1. /\ pc[q] = "merged" /\ call'[q] = call[q] /\ call[q].op = "review"
            /\ columns'[q] = columns[q] /\ entity'[q] = entity[q]
            /\ i \in Rows({"escalation", "analysis"}) /\ Reviewing(q)
        BY <1>3, <2>1, CaseworkElsewhere DEF SentInv, Sent, Working, InFlight, ReviewInv
      <3>2. ASSUME NEW k \in ReviewColumn \ columns[q]
            PROVE  row'[i][k] = entity[q][k] \/ Given(q, k)'
        <4>1. CASE row'[i][k] = row[i][k]
          BY <3>1, <4>1, GivenKept DEF Reviewing
        <4>2. CASE row'[i][k] # row[i][k]
          <5>1. Save(r) /\ call[r].op = "review" /\ call[r].on = i
            BY <3>1, <4>2, ReviewedBySave
          <5>2. /\ pc[r] = "merged" /\ pc'[r] = "saved" /\ Updates(r, row'[i])
                /\ call' = call /\ entity' = entity /\ overlaps' = overlaps
                /\ call[r] \in Call /\ call[q] \in Call
            BY <3>1, <5>1, SaveUpdates DEF SentInv, Sent, Working, InFlight
          <5>3. row'[i][k] = entity[r][k]
            BY <4>2, <5>1, <5>2 DEF Updates, ReviewColumn
          <5>4. r \in Overlapping(q)
            BY <2>1, <3>1, <5>1, <5>2 DEF OverlapInv, Overlapping, InFlight
          <5>5. call[r] = call[q]
            BY <3>1, <5>1, <5>2 DEF Call
          <5>6. r \in Together(q)'
            BY <5>2, <5>4, <5>5 DEF Together, Overlapping, HasSaved
          <5> QED
            BY <5>2, <5>3, <5>6 DEF Given
        <4> QED
          BY <4>1, <4>2
      <3> QED
        BY <3>1, <3>2 DEF Reviewing
    <2>2. CASE q = r
      <3>1. Merge(r)
        BY <1>3, <2>2 DEF CaseworkStep, Start, Reassign, UpdateStatus, Review, Upload, Access,
           Analyse, AddNote, Begin, Refuse, Proceed, Save, SaveInTransaction,
           InsertInTransaction, Insert, RecordAccess, LogAudit, Commit, Open, Fail, Goto,
           CaseworkTypeOK
      <3> QED
        BY <2>2, <3>1, MergeFinds DEF Reviewing, ReviewColumn, Column
    <2> QED
      BY <2>1, <2>2
  <1> QED
    BY <1>2, <1>3 DEF ReviewInv

-----------------------------------------------------------------------------
(* Casework: the invariant, and what it says of the properties.             *)

LEMMA CaseworkInvInit == CaseworkInit => CaseworkInv
  <1> SUFFICES ASSUME CaseworkInit PROVE CaseworkInv
    OBVIOUS
  <1>0. Requests \subseteq Ids /\ Existing \subseteq Ids /\ None \notin Row
        /\ \A r \in Requests : r \notin Existing
    BY RequestsAssumption, NoneAssumption DEF Ids
  <1>1. \A i \in Existing : NewRow(i, None) \in Row /\ NewRow(i, None).kind = i
                            /\ NewRow(i, None).previous = None
                            /\ NewRow(i, None).status \in {"pending", None}
                            /\ NewRow(i, None).reviewedBy = None
    BY NewRowIsRow DEF Existing, RowKind
  <1>2. CaseworkTypeOK
    BY <1>1 DEF CaseworkInit, CaseworkTypeOK, Stage
  <1>3. \A r \in Requests : pc[r] = "idle" /\ call[r] = NoCall /\ row[r] = None
    BY <1>0 DEF CaseworkInit
  <1>4. \A i \in Ids : row[i] # None => i \in Existing /\ row[i] = NewRow(i, None)
    BY DEF CaseworkInit
  <1>5. SentInv /\ LoggedInv /\ CustodyInv /\ OverlapInv
    BY <1>3 DEF SentInv, Sent, Working, InFlight, LoggedInv, CustodyInv, OverlapInv, CaseworkInit
  <1>6. BornInv
    BY <1>0, <1>1, <1>3 DEF BornInv, Born, CaseworkInit
  <1>8. ReassignedInv
    <2>1. \A i \in Existing : i = "assignment" => row[i].status = "pending"
      BY <1>0 DEF CaseworkInit, NewRow
    <2>2. \A i \in Rows({"assignment"}) : i = "assignment"
      BY <1>1, <1>4 DEF Rows
    <2> QED
      BY <2>1, <2>2, <1>4 DEF ReassignedInv, Rows
  <1>9. CompletionInv
    BY <1>3 DEF CompletionInv, Completing, NoCall
  <1>10. ReviewInv
    <2>1. \A i \in Rows({"escalation", "analysis"}) : row[i].reviewedBy = None
      BY <1>1, <1>4 DEF Rows
    <2> QED
      BY <1>3, <2>1 DEF ReviewInv, ReviewAttributed
  <1> QED
    BY <1>2, <1>5, <1>6, <1>8, <1>9, <1>10 DEF CaseworkInv

\* The readers and the writers of complaints leave casework alone.
LEMMA CaseworkStutters ==
  ASSUME CaseworkInv, UNCHANGED caseworkVars
  PROVE  CaseworkInv'
  <1> USE DEF CaseworkInv, caseworkVars, database, locals
  <1>1. CaseworkTypeOK' /\ LoggedInv' /\ CustodyInv'
    BY DEF CaseworkTypeOK, LoggedInv, Transactional, CustodyInv, Rows
  <1>2. SentInv' /\ BornInv'
    BY DEF SentInv, Sent, Working, Changing, Transactional, Rows, BornInv, Born
  <1>3. ReassignedInv' /\ OverlapInv'
    BY DEF ReassignedInv, Successors, Rows, OverlapInv
  <1>4. CompletionInv'
    BY DEF CompletionInv, Completing, Overlapping, Changing
  <1>5. ReviewInv'
    <2>1. /\ \A r \in Requests : /\ Together(r)' = Together(r)
                                 /\ HasSaved(r)' <=> HasSaved(r)
          /\ Rows({"escalation", "analysis"})' = Rows({"escalation", "analysis"})
      BY DEF Overlapping, Together, HasSaved, Rows
    <2>2. ReviewAttributed'
      <3> SUFFICES ASSUME NEW i \in Rows({"escalation", "analysis"})', row'[i].reviewedBy # None
                   PROVE  \E q \in Requests :
                            /\ call'[q] = [op |-> "review", on |-> i] /\ HasSaved(q)'
                            /\ \A k \in {"status", "reviewedBy", "remark"} :
                                 row'[i][k] \in {entity'[p][k] : p \in Together(q)'}
        BY DEF ReviewAttributed
      <3>1. PICK q \in Requests :
              /\ call[q] = [op |-> "review", on |-> i] /\ HasSaved(q)
              /\ \A k \in {"status", "reviewedBy", "remark"} :
                   row[i][k] \in {entity[p][k] : p \in Together(q)}
        BY <2>1 DEF ReviewInv, ReviewAttributed
      <3> QED
        BY <2>1, <3>1
    <2>3. ASSUME NEW r \in Requests, Reviewing(r) PROVE Reviewing(r)'
      BY <2>1, <2>3 DEF Reviewing, Given
    <2> QED
      BY <2>2, <2>3 DEF ReviewInv
  <1> QED
    BY <1>1, <1>2, <1>3, <1>4, <1>5

LEMMA CaseworkInvStep == CaseworkInv /\ [Next]_vars => CaseworkInv'
  <1>1. ASSUME CaseworkInv, NEW r \in Requests, CaseworkStep(r) PROVE CaseworkInv'
    BY <1>1, CaseworkStepType, SentStep, BornStep, LoggedStep, ReassignedStep, CustodyStep,
       OverlapStep, CompletionStep, ReviewStep DEF CaseworkInv
  <1>2. [Next]_vars => UNCHANGED caseworkVars \/ \E r \in Requests : CaseworkStep(r)
    BY DEF Next, Quiescent, vars
  <1> QED
    BY <1>1, <1>2, CaseworkStutters

LEMMA CaseworkInvariant == Spec => []CaseworkInv
  <1>1. Init => CaseworkInv
    BY CaseworkInvInit DEF Init
  <1> QED
    BY <1>1, CaseworkInvStep, PTL DEF Spec

\* A reassignment shows whole or not at all, and each has its audit row: no
\* assignment is lost between the UPDATE and the INSERT of its successor.
THEOREM ReassignmentsAreWhole == Spec => []ReassignmentWhole
  <1>1. ASSUME CaseworkInv PROVE ReassignmentWhole
    <2>1. ASSUME NEW i \in Ids, NEW s \in Successors(i)
          PROVE  \E a \in auditLog : a.op = "reassign" /\ a.on = s
      <3>1. s \in Ids /\ row[s] # None /\ row[s].kind = "assignment" /\ row[s].previous # None
        BY <2>1, NoneAssumption DEF Successors, Rows
      <3>2. s \in Requests /\ Born(s)
        BY <1>1, <3>1 DEF CaseworkInv, BornInv, Ids
      <3>3. call[s].op = "reassign" /\ pc[s] = "done"
        BY <3>1, <3>2 DEF Born, Transactional, KindOf
      <3> QED
        BY <1>1, <3>2, <3>3 DEF CaseworkInv, LoggedInv, Transactional
    <2> QED
      BY <1>1, <2>1 DEF CaseworkInv, ReassignedInv, ReassignmentWhole
  <1> QED
    BY <1>1, CaseworkInvariant, PTL

\* A completion time is lost, if at all, to a request that was at work on the
\* assignment together with the completion.
THEOREM CompletionsSurvive == Spec => []CompletionSurvives
  <1>1. CaseworkInv => CompletionSurvives
    BY DEF CaseworkInv, CompletionInv, Completing, CompletionSurvives
  <1> QED
    BY <1>1, CaseworkInvariant, PTL

\* Nobody opens evidence by its id or adds any without leaving a custody row and
\* an audit row.
THEOREM CustodyIsKept == Spec => []CustodyKept
  <1>1. ASSUME CaseworkInv PROVE CustodyKept
    <2>1. \A r \in Requests : pc[r] = "done" /\ call[r].op = "access" =>
            /\ [evidence |-> call[r].on, by |-> r, action |-> "accessed"] \in custody
            /\ [by |-> r, op |-> "access", on |-> call[r].on] \in auditLog
      BY <1>1 DEF CaseworkInv, CustodyInv, LoggedInv, Transactional
    <2>2. ASSUME NEW i \in Rows({"evidence"}) \ Existing
          PROVE  /\ [evidence |-> i, by |-> i, action |-> "uploaded"] \in custody
                 /\ [by |-> i, op |-> "upload", on |-> i] \in auditLog
      <3>1. i \in Requests /\ Born(i) /\ row[i] # None /\ row[i].kind = "evidence"
        BY <1>1, <2>2 DEF CaseworkInv, BornInv, Rows, Ids
      <3>2. call[i].op = "upload" /\ pc[i] = "done"
        BY <3>1 DEF Born, Transactional, KindOf
      <3> QED
        BY <1>1, <3>1, <3>2 DEF CaseworkInv, CustodyInv, LoggedInv, Transactional
    <2>3. \A k \in custody : k.evidence \in Rows({"evidence"}) \/ pc[k.by] # "done"
      BY <1>1 DEF CaseworkInv, CustodyInv
    <2> QED
      BY <2>1, <2>2, <2>3 DEF CustodyKept
  <1> QED
    BY <1>1, CaseworkInvariant, PTL

\* What a reviewed row shows is of one review, or of reviews at work together
\* with it, whoever reviews and however often.
THEOREM ReviewsAreAttributed == Spec => []ReviewAttributed
  <1>1. CaseworkInv => ReviewAttributed
    BY DEF CaseworkInv, ReviewInv
  <1> QED
    BY <1>1, CaseworkInvariant, PTL

\* Every variable of the handlers and of the readers keeps its type.
THEOREM CaseReadsTypeCorrect == Spec => []TypeOK
  <1> DEFINE Reads == /\ due \subseteq Complaints /\ changes \in 0..MaxChanges
                      /\ since \in [Readers -> 0..MaxChanges]
                      /\ query \in [Readers -> Query \cup {None}]
             Inv == CaseworkInv /\ TrackInv /\ Reads
  <1>1. Init => Inv
    BY TrackInit, CaseworkInvInit, BoundsAssumption DEF Init
  <1>2. Inv /\ [Next]_vars => Inv'
    <2> SUFFICES ASSUME Inv, [Next]_vars PROVE Reads'
      BY TrackStep, CaseworkInvStep
    <2>1. CASE Write \/ Elapse
      BY <2>1, BoundsAssumption DEF Write, Elapse, Submitted
    <2>2. ASSUME NEW q \in Readers, ReadStep(q) PROVE Reads'
      <3>1. UNCHANGED <<due, changes>>
        BY <2>2 DEF ReadStep, Ask, Select, NotFound, Respond, FailRead
      <3>2. since' \in [Readers -> 0..MaxChanges]
        BY <2>2 DEF ReadStep, Ask, Select, NotFound, Respond, FailRead
      <3>3. query' \in [Readers -> Query \cup {None}]
        BY <2>2 DEF ReadStep, Ask, Select, NotFound, Respond, FailRead
      <3> QED
        BY <3>1, <3>2, <3>3
    <2>3. CASE UNCHANGED readVars
      BY <2>3 DEF readVars
    <2> QED
      BY <2>1, <2>2, <2>3 DEF Next, Quiescent, vars
  <1>3. Inv => TypeOK
    BY DEF CaseworkInv, TrackInv, StatusInTimeline, AnswersOK, TypeOK
  <1> QED
    BY <1>1, <1>2, <1>3, PTL DEF Spec

-----------------------------------------------------------------------------
(* Figures: what one change does to a count.                                *)

Total == Cardinality(Submitted)

\* A set that gains one element at most.
LEMMA OneMore ==
  ASSUME NEW A, NEW B, NEW c, IsFiniteSet(A), B \subseteq A \cup {c}
  PROVE  IsFiniteSet(B) /\ Cardinality(B) <= Cardinality(A) + 1
  <1>1. /\ IsFiniteSet(A \cup {c}) /\ Cardinality(A) \in Nat
        /\ Cardinality(A \cup {c}) \in Nat /\ Cardinality(A \cup {c}) <= Cardinality(A) + 1
    BY FS_AddElement, FS_CardinalityType
  <1>2. IsFiniteSet(B) /\ Cardinality(B) <= Cardinality(A \cup {c}) /\ Cardinality(B) \in Nat
    BY <1>1, FS_Subset, FS_CardinalityType
  <1> QED
    BY <1>1, <1>2

\* The complaints counted are finitely many.
LEMMA CountsAreNumbers ==
  ASSUME NEW C \in SUBSET Complaints
  PROVE  IsFiniteSet(C) /\ Cardinality(C) \in Nat
  BY ComplaintsAssumption, FS_Subset, FS_CardinalityType

\* The complaints in a status of S.
In(S) == {c \in Submitted : status[c] \in S}

Late == {c \in Submitted \cap due : status[c] \notin Terminal}

\* A change or the passing of a due date concerns one complaint.
LEMMA ChangeCounts ==
  ASSUME StatusInTimeline, Write \/ Elapse
  PROVE  /\ Submitted \subseteq Submitted'
         /\ \E c \in Complaints :
              /\ Submitted' \subseteq Submitted \cup {c}
              /\ \A S : In(S)' \subseteq In(S) \cup {c} /\ In(S) \subseteq In(S)' \cup {c}
              /\ Late' \subseteq Late \cup {c} /\ Late \subseteq Late' \cup {c}
  <1>1. CASE Write
    <2>1. PICK c \in Complaints :
                 Cases!Change(c) /\ due' \in {due, due \cup {c}, due \ {c}}
      BY <1>1 DEF Write
    <2>2. PICK s \in Statuses \cup {"submitted"} : status' = [status EXCEPT ![c] = s]
      BY <2>1 DEF Cases!Change, Cases!Submit, Cases!Restore, Cases!Move, Cases!Enter,
                  StatusInTimeline
    <2>3. /\ status'[c] # None
          /\ \A d \in Complaints \ {c} : status'[d] = status[d] /\ (d \in due' <=> d \in due)
      BY <2>1, <2>2, NullAssumption DEF StatusInTimeline
    <2> QED
      BY <2>3 DEF Submitted, In, Late
  <1>2. CASE Elapse
    <2>1. PICK c \in Complaints : due' = due \cup {c} /\ status' = status
      BY <1>2 DEF Elapse, Submitted
    <2> QED
      BY <2>1 DEF Submitted, In, Late
  <1> QED
    BY <1>1, <1>2

\* No count of complaints shrinks or grows by more than one, but for that of
\* all complaints, which never shrinks.
LEMMA CountsChange ==
  ASSUME StatusInTimeline, Write \/ Elapse
  PROVE  /\ Total \in Nat /\ Total' \in Nat /\ Total <= Total' /\ Total' <= Total + 1
         /\ \A S : /\ InStatus(S) \in Nat /\ InStatus(S)' \in Nat
                   /\ InStatus(S)' <= InStatus(S) + 1 /\ InStatus(S) <= InStatus(S)' + 1
         /\ Overdue \in Nat /\ Overdue' \in Nat /\ Overdue' <= Overdue + 1 /\ Overdue <= Overdue' + 1
  <1>1. PICK c \in Complaints :
              /\ Submitted \subseteq Submitted' /\ Submitted' \subseteq Submitted \cup {c}
              /\ \A S : In(S)' \subseteq In(S) \cup {c} /\ In(S) \subseteq In(S)' \cup {c}
              /\ Late' \subseteq Late \cup {c} /\ Late \subseteq Late' \cup {c}
    BY ChangeCounts
  <1>2. /\ Submitted \subseteq Complaints /\ Submitted' \subseteq Complaints
        /\ Late \subseteq Complaints /\ Late' \subseteq Complaints
        /\ \A S : In(S) \subseteq Complaints /\ In(S)' \subseteq Complaints
    BY DEF Submitted, Late, In
  <1>3. Total \in Nat /\ Total' \in Nat /\ Total <= Total' /\ Total' <= Total + 1
    <2>1. IsFiniteSet(Submitted) /\ IsFiniteSet(Submitted')
      BY <1>2, CountsAreNumbers
    <2>2. Cardinality(Submitted) <= Cardinality(Submitted')
      BY <1>1, <2>1, FS_Subset
    <2> QED
      BY <1>1, <1>2, <2>1, <2>2, CountsAreNumbers, OneMore DEF Total
  <1>4. ASSUME NEW S
        PROVE  /\ InStatus(S) \in Nat /\ InStatus(S)' \in Nat
               /\ InStatus(S)' <= InStatus(S) + 1 /\ InStatus(S) <= InStatus(S)' + 1
    <2>1. InStatus(S) = Cardinality(In(S)) /\ InStatus(S)' = Cardinality(In(S)')
      BY DEF InStatus, In
    <2> QED
      BY <1>1, <1>2, <2>1, CountsAreNumbers, OneMore
  <1>5. Overdue \in Nat /\ Overdue' \in Nat /\ Overdue' <= Overdue + 1 /\ Overdue <= Overdue' + 1
    <2>1. Overdue = Cardinality(Late) /\ Overdue' = Cardinality(Late')
      BY DEF Overdue, Late
    <2> QED
      BY <1>1, <1>2, <2>1, CountsAreNumbers, OneMore
  <1> QED
    BY <1>3, <1>4, <1>5

LEMMA StillLess ==
  ASSUME NEW a \in Nat, NEW b \in Nat, a <= b
  PROVE  a <= b + 1
  OBVIOUS

\* Nor does the count of those that pass a filter.
LEMMA MatchingIs ==
  \A f : Matching(f) = IF f = None THEN Total ELSE InStatus({f})
  <1>1. ASSUME NEW f, f = None PROVE Matching(f) = Total
    <2>1. {c \in Submitted : f \in {None, status[c]}} = Submitted
      BY <1>1
    <2> QED
      BY <2>1 DEF Matching, Total
  <1>2. ASSUME NEW f, f # None PROVE Matching(f) = InStatus({f})
    <2>1. {c \in Submitted : f \in {None, status[c]}} = {c \in Submitted : status[c] \in {f}}
      BY <1>2
    <2> QED
      BY <2>1 DEF Matching, InStatus
  <1> QED
    BY <1>1, <1>2

LEMMA MatchingAfter ==
  ASSUME NEW f
  PROVE  Matching(f)' = IF f = None THEN Total' ELSE InStatus({f})'
  <1>1. CASE f = None
    <2>1. {c \in Submitted' : f \in {None, status'[c]}} = Submitted'
      BY <1>1
    <2> QED
      BY <1>1, <2>1 DEF Matching, Total
  <1>2. CASE f # None
    <2>1. {c \in Submitted' : f \in {None, status'[c]}} = {c \in Submitted' : status'[c] \in {f}}
      BY <1>2
    <2> QED
      BY <1>2, <2>1 DEF Matching, InStatus
  <1> QED
    BY <1>1, <1>2

LEMMA MatchingChange ==
  ASSUME StatusInTimeline, Write \/ Elapse, NEW f
  PROVE  /\ Matching(f) \in Nat /\ Matching(f)' \in Nat
         /\ Matching(f)' <= Matching(f) + 1 /\ Matching(f) <= Matching(f)' + 1
  <1>1. PICK S : S = {f}
    OBVIOUS
  <1>2. CASE f = None
    <2>1. Matching(f) = Total /\ Matching(f)' = Total'
      BY <1>2, MatchingAfter, MatchingIs
    <2>2. Total \in Nat /\ Total' \in Nat /\ Total <= Total' /\ Total' <= Total + 1
      BY CountsChange
    <2>3. Total <= Total' + 1
      BY <2>2, StillLess
    <2> QED
      BY <2>1, <2>2, <2>3
  <1>3. CASE f # None
    <2>1. Matching(f) = InStatus(S) /\ Matching(f)' = InStatus(S)'
      BY <1>1, <1>3, MatchingAfter, MatchingIs
    <2>2. /\ InStatus(S) \in Nat /\ InStatus(S)' \in Nat
          /\ InStatus(S)' <= InStatus(S) + 1 /\ InStatus(S) <= InStatus(S)' + 1
      BY CountsChange
    <2> QED
      BY <2>1, <2>2
  <1> QED
    BY <1>2, <1>3

\* Two sets with no common element, counted apart and together.
LEMMA CountedApart ==
  ASSUME NEW A \in SUBSET Complaints, NEW B \in SUBSET Complaints, NEW C \in SUBSET Complaints,
         A \cap B = {}, A \cup B \subseteq C
  PROVE  /\ Cardinality(A) + Cardinality(B) = Cardinality(A \cup B)
         /\ Cardinality(A \cup B) <= Cardinality(C)
  <1>1. /\ IsFiniteSet(A) /\ Cardinality(A) \in Nat
        /\ IsFiniteSet(B) /\ Cardinality(B) \in Nat
        /\ IsFiniteSet(C)
    BY CountsAreNumbers
  <1>2. Cardinality(A \cap B) = 0
    BY FS_EmptySet
  <1>3. Cardinality(A \cup B) = Cardinality(A) + Cardinality(B) - Cardinality(A \cap B)
    BY <1>1, FS_Union
  <1> QED
    BY <1>1, <1>2, <1>3, FS_Subset

\* Open and resolved complaints are different ones.
LEMMA OpenOrResolved ==
  /\ InStatus(OpenStatus) + InStatus(ResolvedStatus) = InStatus(OpenStatus \cup ResolvedStatus)
  /\ InStatus(OpenStatus \cup ResolvedStatus) <= Total
  /\ InStatus(OpenStatus) \in Nat /\ InStatus(ResolvedStatus) \in Nat /\ Total \in Nat
  /\ Overdue \in Nat
  <1>1. /\ In(OpenStatus) \cup In(ResolvedStatus) = In(OpenStatus \cup ResolvedStatus)
        /\ In(OpenStatus) \cap In(ResolvedStatus) = {}
        /\ In(OpenStatus \cup ResolvedStatus) \subseteq Submitted
    BY DEF In, OpenStatus, ResolvedStatus
  <1>2. /\ Submitted \subseteq Complaints /\ \A S : In(S) \subseteq Complaints
        /\ Late \subseteq Complaints
    BY DEF Submitted, In, Late
  <1>3. \A S : InStatus(S) = Cardinality(In(S)) /\ IsFiniteSet(In(S)) /\ Cardinality(In(S)) \in Nat
    BY <1>2, CountsAreNumbers DEF InStatus, In
  <1>4. Cardinality(In(OpenStatus) \cup In(ResolvedStatus)) =
          Cardinality(In(OpenStatus)) + Cardinality(In(ResolvedStatus))
    <2>1. Cardinality(In(OpenStatus) \cap In(ResolvedStatus)) = 0
      BY <1>1, FS_EmptySet
    <2>2. /\ IsFiniteSet(In(OpenStatus)) /\ Cardinality(In(OpenStatus)) \in Nat
          /\ IsFiniteSet(In(ResolvedStatus)) /\ Cardinality(In(ResolvedStatus)) \in Nat
      BY <1>3
    <2>3. Cardinality(In(OpenStatus) \cup In(ResolvedStatus)) =
            Cardinality(In(OpenStatus)) + Cardinality(In(ResolvedStatus))
              - Cardinality(In(OpenStatus) \cap In(ResolvedStatus))
      BY <2>2, FS_Union
    <2> QED
      BY <2>1, <2>2, <2>3
  <1>5. IsFiniteSet(Submitted) /\ Total \in Nat
    BY <1>2, CountsAreNumbers DEF Total
  <1>6. Cardinality(In(OpenStatus \cup ResolvedStatus)) <= Total
    BY <1>1, <1>5, FS_Subset DEF Total
  <1>7. Overdue \in Nat
    BY <1>2, CountsAreNumbers DEF Overdue, Late
  <1> QED
    BY <1>1, <1>3, <1>4, <1>5, <1>6, <1>7

-----------------------------------------------------------------------------
(* Figures: what a reader has been given.                                   *)

\* The SELECTs that count complaints.
Counted == {"total", "byStatus", "byCategory", "bySeverity", "listed", "open", "resolved",
            "overdue", "overdueByCategory"}

\* A figure as the reader has it, or as a SELECT would give it now.
Count(q, p) == CASE p = "open" -> InStatus(OpenStatus)
                 [] p = "resolved" -> InStatus(ResolvedStatus)
                 [] p \in {"overdue", "overdueByCategory"} -> Overdue
                 [] p \in {"listed", "total"} -> Matching(query[q].filter)
                 [] OTHER -> Total

Figure(q, p) == IF answer[q][p] = None THEN Count(q, p) ELSE answer[q][p]

Has(q, p) == answer[q][p] # None

Drift(q) == changes - since[q]

\* Figures counted one after the other grow, but for those of a filtered list;
\* figures counted together differ by the changes since the reader was asked.
Consistent(q) ==
  LET n(p) == Figure(q, p)
      of(k) == query[q].kind = k
  IN  /\ of("summary") =>
           /\ n("total") <= n("byStatus") /\ n("byStatus") <= n("byCategory")
           /\ n("byCategory") <= n("bySeverity") /\ n("bySeverity") <= Total
           /\ Has(q, "byStatus") => Has(q, "total")
           /\ Has(q, "byCategory") => Has(q, "byStatus")
           /\ Has(q, "bySeverity") => Has(q, "byCategory")
      /\ of("list") =>
           /\ n("listed") <= n("total") + Drift(q)
           /\ query[q].filter = None => n("listed") <= n("total") /\ n("total") <= Total
           /\ Has(q, "total") => Has(q, "listed")
      /\ of("dashboard") => n("open") + n("resolved") <= n("total") + Drift(q)
      /\ of("overdue") => /\ n("overdue") <= n("overdueByCategory") + Drift(q)
                          /\ n("overdueByCategory") <= n("overdue") + Drift(q)

\* The figures of each report; a reader that responds has them all.
Report == [summary |-> {"total", "byStatus", "byCategory", "bySeverity"},
           list |-> {"listed", "total"},
           dashboard |-> {"open", "resolved", "total"},
           overdue |-> {"overdue", "overdueByCategory"}]

Full(q) ==
  reading[q] = "done" /\ query[q].kind \in DOMAIN Report =>
    \A p \in Report[query[q].kind] : Has(q, p)

FiguresInv ==
  /\ changes \in Nat /\ DOMAIN since = Readers
  /\ \A q \in Readers :
       /\ \A p \in Counted : answer[q][p] \in Nat \cup {None}
       /\ since[q] \in 0..changes
       /\ reading[q] # "idle" => Consistent(q) /\ Full(q)

\* SELECTs are answered batch by batch.
LEMMA SummaryOrder ==
  ASSUME NEW q \in Readers, query[q].kind = "summary"
  PROVE  /\ "byStatus" \in Pending(q) => Has(q, "total")
         /\ "byCategory" \in Pending(q) => Has(q, "byStatus")
         /\ "bySeverity" \in Pending(q) => Has(q, "byCategory")
         /\ Pending(q) = {} => \A p \in Report["summary"] : Has(q, p)
  <1>1. Plan[query[q].kind] = <<{"total"}, {"byStatus"}, {"byCategory"}, {"bySeverity"}>>
    BY DEF Plan, Summary
  <1> DEFINE plan == <<{"total"}, {"byStatus"}, {"byCategory"}, {"bySeverity"}>>
             left(i) == {p \in plan[i] : answer[q][p] = None}
  <1>2. Pending(q) = {p \in Part : \E i \in 1..4 : p \in left(i) /\ \A j \in 1..(i - 1) : left(j) = {}}
    BY <1>1 DEF Pending
  <1>3. /\ left(1) = IF Has(q, "total") THEN {} ELSE {"total"}
        /\ left(2) = IF Has(q, "byStatus") THEN {} ELSE {"byStatus"}
        /\ left(3) = IF Has(q, "byCategory") THEN {} ELSE {"byCategory"}
        /\ left(4) = IF Has(q, "bySeverity") THEN {} ELSE {"bySeverity"}
    BY DEF Has
  <1> HIDE DEF left
  <1>4. {"total", "byStatus", "byCategory", "bySeverity"} \subseteq Part
    BY DEF Part
  <1>5. "byStatus" \in Pending(q) => Has(q, "total")
    BY <1>2, <1>3, <1>4
  <1>6. "byCategory" \in Pending(q) => Has(q, "byStatus")
    BY <1>2, <1>3, <1>4
  <1>7. "bySeverity" \in Pending(q) => Has(q, "byCategory")
    BY <1>2, <1>3, <1>4
  <1>8. ASSUME Pending(q) = {}
        PROVE  left(1) = {} /\ left(2) = {} /\ left(3) = {} /\ left(4) = {}
    <2>1. left(1) = {}
      BY <1>2, <1>3, <1>4, <1>8
    <2>2. left(2) = {}
      BY <1>2, <1>3, <1>4, <1>8, <2>1
    <2>3. left(3) = {}
      BY <1>2, <1>3, <1>4, <1>8, <2>1, <2>2
    <2>4. left(4) = {}
      BY <1>2, <1>3, <1>4, <1>8, <2>1, <2>2, <2>3
    <2> QED
      BY <2>1, <2>2, <2>3, <2>4
  <1> QED
    BY <1>3, <1>5, <1>6, <1>7, <1>8 DEF Report

LEMMA PairOrder ==
  ASSUME NEW q \in Readers, NEW a \in Counted, NEW b \in Counted, a # b,
         Plan[query[q].kind] = <<{a}, {b}>>
  PROVE  /\ b \in Pending(q) => Has(q, a)
         /\ Pending(q) = {} => Has(q, a) /\ Has(q, b)
  <1> DEFINE plan == <<{a}, {b}>>
             left(i) == {p \in plan[i] : answer[q][p] = None}
  <1>1. Pending(q) = {p \in Part : \E i \in 1..2 : p \in left(i) /\ \A j \in 1..(i - 1) : left(j) = {}}
    BY DEF Pending
  <1>2. /\ left(1) = IF Has(q, a) THEN {} ELSE {a}
        /\ left(2) = IF Has(q, b) THEN {} ELSE {b}
    BY DEF Has
  <1> HIDE DEF left
  <1>3. a \in Part /\ b \in Part
    BY DEF Part, Counted
  <1>4. b \in Pending(q) => Has(q, a)
    BY <1>1, <1>2, <1>3
  <1>5. ASSUME Pending(q) = {} PROVE Has(q, a) /\ Has(q, b)
    <2>1. Has(q, a)
      BY <1>1, <1>2, <1>3, <1>5
    <2> QED
      BY <1>1, <1>2, <1>3, <1>5, <2>1
  <1> QED
    BY <1>4, <1>5

LEMMA DashboardOrder ==
  ASSUME NEW q \in Readers, query[q].kind = "dashboard", Pending(q) = {}
  PROVE  \A p \in Report["dashboard"] : Has(q, p)
  <1>1. Plan[query[q].kind] =
          <<{"total", "open", "resolved", "pendingEscalations"}, {"overdue"}, {"listed"}>>
    BY DEF Plan, Dashboard
  <1> DEFINE plan == <<{"total", "open", "resolved", "pendingEscalations"}, {"overdue"}, {"listed"}>>
             left(i) == {p \in plan[i] : answer[q][p] = None}
  <1>2. Pending(q) = {p \in Part : \E i \in 1..3 : p \in left(i) /\ \A j \in 1..(i - 1) : left(j) = {}}
    BY <1>1 DEF Pending
  <1>3. \A p \in left(1) : p \in Pending(q)
    <2>1. left(1) \subseteq Part
      BY DEF Part
    <2> HIDE DEF left
    <2> QED
      BY <1>2, <2>1
  <1> QED
    BY <1>3 DEF Report, Has

\* The figures of a reader that has just been answered are those of now.
LEMMA SelectedIsCount ==
  ASSUME NEW q, NEW p \in Counted
  PROVE  Selected(p, query[q]) = Count(q, p)
  <1>1. CASE p = "open"
    BY <1>1 DEF Selected, Count
  <1>2. CASE p = "resolved"
    BY <1>2 DEF Selected, Count
  <1>3. CASE p = "overdue"
    BY <1>3 DEF Selected, Count
  <1>4. CASE p = "overdueByCategory"
    BY <1>4 DEF Selected, Count
  <1>5. CASE p = "total"
    BY <1>5 DEF Selected, Count
  <1>6. CASE p = "byStatus"
    BY <1>6 DEF Selected, Count, Total
  <1>7. CASE p = "byCategory"
    BY <1>7 DEF Selected, Count, Total
  <1>8. CASE p = "bySeverity"
    BY <1>8 DEF Selected, Count, Total
  <1>9. CASE p = "listed"
    BY <1>9 DEF Selected, Count
  <1> QED
    BY <1>1, <1>2, <1>3, <1>4, <1>5, <1>6, <1>7, <1>8, <1>9 DEF Counted

\* Only a list has a filter.
LEMMA CountIs ==
  ASSUME AnswersOK, NEW q \in Readers, reading[q] # "idle"
  PROVE  /\ Count(q, "open") = InStatus(OpenStatus)
         /\ Count(q, "resolved") = InStatus(ResolvedStatus)
         /\ Count(q, "overdue") = Overdue /\ Count(q, "overdueByCategory") = Overdue
         /\ \A p \in {"byStatus", "byCategory", "bySeverity"} : Count(q, p) = Total
         /\ \A p \in {"listed", "total"} : Count(q, p) = Matching(query[q].filter)
         /\ query[q].kind # "list" => query[q].filter = None
         /\ query[q].filter = None => Matching(query[q].filter) = Total
         /\ \A p \in Counted : Count(q, p) \in Nat
  <1>1. Count(q, "open") = InStatus(OpenStatus) /\ Count(q, "resolved") = InStatus(ResolvedStatus)
    BY DEF Count
  <1>2. Count(q, "overdue") = Overdue /\ Count(q, "overdueByCategory") = Overdue
    BY DEF Count
  <1>3. /\ Count(q, "byStatus") = Total /\ Count(q, "byCategory") = Total
        /\ Count(q, "bySeverity") = Total
    BY DEF Count
  <1>4. /\ Count(q, "listed") = Matching(query[q].filter)
        /\ Count(q, "total") = Matching(query[q].filter)
    BY DEF Count
  <1>5. query[q].kind # "list" => query[q].filter = None
    BY DEF AnswersOK, Query
  <1>6. Matching(query[q].filter) \in Nat
    <2>1. {c \in Submitted : query[q].filter \in {None, status[c]}} \subseteq Complaints
      BY DEF Submitted
    <2> QED
      BY <2>1, CountsAreNumbers DEF Matching
  <1> QED
    BY <1>1, <1>2, <1>3, <1>4, <1>5, <1>6, OpenOrResolved, MatchingIs DEF Counted

\* Consistent says no more than the figures, and the parts had, determine.
LEMMA ConsistentKept ==
  ASSUME NEW q \in Readers, Consistent(q), UNCHANGED <<query, changes, since, status, due>>,
         \A p \in Counted : Figure(q, p)' = Figure(q, p),
         \A p \in Counted : Has(q, p) => Has(q, p)',
         query[q].kind = "summary" =>
           /\ Has(q, "byStatus")' => Has(q, "byStatus") \/ Has(q, "total")
           /\ Has(q, "byCategory")' => Has(q, "byCategory") \/ Has(q, "byStatus")
           /\ Has(q, "bySeverity")' => Has(q, "bySeverity") \/ Has(q, "byCategory"),
         query[q].kind = "list" => (Has(q, "total")' => Has(q, "total") \/ Has(q, "listed"))
  PROVE  Consistent(q)'
  <1>1. Total' = Total /\ Drift(q)' = Drift(q)
    BY DEF Total, Submitted, Drift
  <1> QED
    BY <1>1 DEF Consistent, Counted

\* Two parts and their total after a change that adds one to the parts.
LEMMA PartsAndTotal ==
  ASSUME NEW o \in Nat, NEW r \in Nat, NEW t \in Nat, NEW d \in Nat,
         NEW o2 \in Nat, NEW r2 \in Nat, NEW t2 \in Nat, NEW d2 \in Nat,
         o + r <= t + d, d2 = d + 1, t <= t2, o2 + r2 <= o + r + 1
  PROVE  o2 + r2 <= t2 + d2
  OBVIOUS

LEMMA TwoCounts ==
  ASSUME NEW a \in Nat, NEW b \in Nat, NEW d \in Nat,
         NEW a2 \in Nat, NEW b2 \in Nat, NEW d2 \in Nat,
         a <= b + d, d2 = d + 1,
         (a2 <= a + 1 /\ b <= b2) \/ (a2 <= a /\ b <= b2 + 1) \/ a2 <= b2
  PROVE  a2 <= b2 + d2
  OBVIOUS

LEMMA OneLess ==
  ASSUME NEW a \in Nat, NEW b \in Nat, NEW d \in Nat, NEW b2 \in Nat, NEW d2 \in Nat,
         a <= b + d, b <= b2 + 1, d2 = d + 1
  PROVE  a <= b2 + d2
  OBVIOUS

\* A change of a complaint.
LEMMA FiguresWritten ==
  ASSUME StatusInTimeline, AnswersOK, FiguresInv, Write \/ Elapse
  PROVE  FiguresInv'
  <1>1. /\ UNCHANGED <<reading, query, since, answer>> /\ changes' = changes + 1
        /\ changes \in Nat /\ changes' \in Nat
    BY DEF Write, Elapse, FiguresInv
  <1>2. \A q \in Readers : /\ since'[q] \in 0..changes'
                           /\ Drift(q) \in Nat /\ Drift(q)' = Drift(q) + 1
    BY <1>1 DEF FiguresInv, Drift
  <1> DEFINE O == InStatus(OpenStatus)
             R == InStatus(ResolvedStatus)
  <1>3. /\ Total \in Nat /\ Total' \in Nat /\ Total <= Total'
        /\ O \in Nat /\ O' \in Nat /\ O' <= O + 1
        /\ R \in Nat /\ R' \in Nat /\ R' <= R + 1
        /\ O' + R' <= O + R + 1 /\ O' + R' <= Total'
        /\ Overdue \in Nat /\ Overdue' \in Nat /\ Overdue' <= Overdue + 1 /\ Overdue <= Overdue' + 1
    <2> DEFINE both == OpenStatus \cup ResolvedStatus
    <2>1. O + R = InStatus(both)
      BY OpenOrResolved
    <2>2. /\ O' = Cardinality(In(OpenStatus)') /\ R' = Cardinality(In(ResolvedStatus)')
          /\ InStatus(both)' = Cardinality(In(both)') /\ Total' = Cardinality(Submitted')
      BY DEF InStatus, In, Total
    <2>3. /\ In(OpenStatus)' \cap In(ResolvedStatus)' = {}
          /\ In(both)' = In(OpenStatus)' \cup In(ResolvedStatus)'
          /\ In(both)' \subseteq Submitted' /\ Submitted' \subseteq Complaints
      BY DEF In, OpenStatus, ResolvedStatus, Submitted
    <2>4. O' + R' = InStatus(both)' /\ InStatus(both)' <= Total'
      <3> HIDE DEF both
      <3> QED
        BY <2>2, <2>3, CountedApart
    <2>5. InStatus(both)' <= InStatus(both) + 1 /\ InStatus(both) \in Nat /\ InStatus(both)' \in Nat
      BY CountsChange
    <2> QED
      BY <2>1, <2>4, <2>5, CountsChange
  <1>4. ASSUME NEW q \in Readers, reading[q] # "idle" PROVE Consistent(q)'
    <2> DEFINE n(p) == answer[q][p]
    <2>1. Consistent(q) /\ \A p \in Counted : n(p) \in Nat \cup {None}
      BY <1>4 DEF FiguresInv
    <2>2. \A p \in Counted : Has(q, p)' <=> Has(q, p)
      BY <1>1 DEF Has
    <2>3. \A p \in Counted : /\ Figure(q, p) = IF Has(q, p) THEN n(p) ELSE Count(q, p)
                             /\ Figure(q, p)' = IF Has(q, p) THEN n(p) ELSE Count(q, p)'
                             /\ Has(q, p) => n(p) \in Nat
      BY <1>1, <2>1 DEF Figure, Has
    <2> DEFINE M == Matching(query[q].filter)
    <2>4. /\ Count(q, "open") = O /\ Count(q, "resolved") = R
          /\ Count(q, "open")' = O' /\ Count(q, "resolved")' = R'
          /\ Count(q, "overdue") = Overdue /\ Count(q, "overdueByCategory") = Overdue
          /\ Count(q, "overdue")' = Overdue' /\ Count(q, "overdueByCategory")' = Overdue'
          /\ \A p \in {"byStatus", "byCategory", "bySeverity"} :
               Count(q, p) = Total /\ Count(q, p)' = Total'
          /\ \A p \in {"listed", "total"} : Count(q, p) = M /\ Count(q, p)' = M'
      BY DEF Count
    <2>9. /\ M \in Nat /\ M' \in Nat /\ M' <= M + 1 /\ M <= M' + 1
          /\ query[q].filter = None => M = Total /\ M' = Total'
          /\ query[q].kind # "list" => query[q].filter = None
      <3>1. PICK f : f = query[q].filter
        OBVIOUS
      <3>2. M = Matching(f) /\ M' = Matching(f)'
        BY <1>1, <3>1 DEF Matching
      <3>4. f = None => Matching(f) = Total /\ Matching(f)' = Total'
        BY MatchingAfter, MatchingIs
      <3>5. /\ Matching(f) \in Nat /\ Matching(f)' \in Nat
            /\ Matching(f)' <= Matching(f) + 1 /\ Matching(f) <= Matching(f)' + 1
        BY MatchingChange
      <3>6. query[q].kind # "list" => query[q].filter = None
        BY <1>4, CountIs
      <3> QED
        BY <3>1, <3>2, <3>4, <3>5, <3>6
    <2> HIDE DEF n, O, R, M
    <2>5. query[q].kind = "summary" =>
            /\ Figure(q, "total")' <= Figure(q, "byStatus")'
            /\ Figure(q, "byStatus")' <= Figure(q, "byCategory")'
            /\ Figure(q, "byCategory")' <= Figure(q, "bySeverity")'
            /\ Figure(q, "bySeverity")' <= Total'
      BY <1>3, <2>1, <2>3, <2>4, <2>9 DEF Consistent, Counted
    <2>6. query[q].kind = "list" =>
            /\ Figure(q, "listed")' <= Figure(q, "total")' + Drift(q)'
            /\ query[q].filter = None =>
                 Figure(q, "listed")' <= Figure(q, "total")' /\ Figure(q, "total")' <= Total'
      <3>1. SUFFICES ASSUME query[q].kind = "list"
                     PROVE  /\ Figure(q, "listed")' <= Figure(q, "total")' + Drift(q)'
                            /\ query[q].filter = None =>
                                 /\ Figure(q, "listed")' <= Figure(q, "total")'
                                 /\ Figure(q, "total")' <= Total'
        OBVIOUS
      <3>2. /\ Figure(q, "listed") = IF Has(q, "listed") THEN n("listed") ELSE M
            /\ Figure(q, "listed")' = IF Has(q, "listed") THEN n("listed") ELSE M'
            /\ Has(q, "listed") => n("listed") \in Nat
        BY <2>3, <2>4 DEF Counted
      <3>3. /\ Figure(q, "total") = IF Has(q, "total") THEN n("total") ELSE M
            /\ Figure(q, "total")' = IF Has(q, "total") THEN n("total") ELSE M'
            /\ Has(q, "total") => n("total") \in Nat
        BY <2>3, <2>4 DEF Counted
      <3>4. /\ Figure(q, "listed") <= Figure(q, "total") + Drift(q)
            /\ query[q].filter = None =>
                 Figure(q, "listed") <= Figure(q, "total") /\ Figure(q, "total") <= Total
        BY <2>1, <3>1 DEF Consistent
      <3>5. Drift(q) \in Nat /\ Drift(q)' = Drift(q) + 1 /\ Drift(q)' \in Nat
        BY <1>2
      <3>6. Figure(q, "listed")' <= Figure(q, "total")' + Drift(q)'
        <4>1. CASE ~Has(q, "listed") /\ ~Has(q, "total")
          BY <2>9, <3>2, <3>3, <3>5, <4>1
        <4>2. CASE Has(q, "listed") /\ ~Has(q, "total")
          <5>1. /\ Figure(q, "listed")' = Figure(q, "listed") /\ Figure(q, "listed") \in Nat
                /\ Figure(q, "total") = M /\ Figure(q, "total")' = M'
            BY <3>2, <3>3, <4>2
          <5>2. M \in Nat /\ M' \in Nat /\ M <= M' + 1
            BY <2>9
          <5>3. Figure(q, "listed") <= M + Drift(q)
            BY <3>4, <5>1
          <5>4. Figure(q, "listed") <= M' + Drift(q)'
            BY <3>5, <5>1, <5>2, <5>3, OneLess
          <5> QED
            BY <5>1, <5>4
        <4>3. CASE Has(q, "total")
          <5>1. Has(q, "listed") /\ Figure(q, "listed")' \in Nat /\ Figure(q, "total")' \in Nat
            BY <2>1, <3>1, <3>2, <3>3, <4>3 DEF Consistent
          <5> QED
            BY <3>2, <3>3, <3>4, <3>5, <4>3, <5>1
        <4> QED
          BY <4>1, <4>2, <4>3
      <3>7. ASSUME query[q].filter = None
            PROVE  /\ Figure(q, "listed")' <= Figure(q, "total")'
                   /\ Figure(q, "total")' <= Total'
        <4>1. M = Total /\ M' = Total' /\ Total <= Total' /\ Total \in Nat /\ Total' \in Nat
          BY <1>3, <2>9, <3>7
        <4>2. Has(q, "total") => Has(q, "listed")
          BY <2>1, <3>1 DEF Consistent
        <4> QED
          BY <3>2, <3>3, <3>4, <3>7, <4>1, <4>2
      <3> QED
        BY <3>6, <3>7
    <2>7. query[q].kind = "dashboard" =>
            Figure(q, "open")' + Figure(q, "resolved")' <= Figure(q, "total")' + Drift(q)'
      <3>1. SUFFICES ASSUME query[q].kind = "dashboard"
                     PROVE  Figure(q, "open")' + Figure(q, "resolved")'
                              <= Figure(q, "total")' + Drift(q)'
        OBVIOUS
      <3>2. Figure(q, "open") + Figure(q, "resolved") <= Figure(q, "total") + Drift(q)
        BY <2>1, <3>1 DEF Consistent
      <3>3. /\ Figure(q, "open") = IF Has(q, "open") THEN n("open") ELSE O
            /\ Figure(q, "open")' = IF Has(q, "open") THEN n("open") ELSE O'
            /\ Has(q, "open") => n("open") \in Nat
        BY <2>3, <2>4 DEF Counted
      <3>4. /\ Figure(q, "resolved") = IF Has(q, "resolved") THEN n("resolved") ELSE R
            /\ Figure(q, "resolved")' = IF Has(q, "resolved") THEN n("resolved") ELSE R'
            /\ Has(q, "resolved") => n("resolved") \in Nat
        BY <2>3, <2>4 DEF Counted
      <3>5. /\ Figure(q, "total") = IF Has(q, "total") THEN n("total") ELSE Total
            /\ Figure(q, "total")' = IF Has(q, "total") THEN n("total") ELSE Total'
            /\ Has(q, "total") => n("total") \in Nat
        BY <2>3, <2>4, <2>9, <3>1 DEF Counted
      <3>6. Drift(q) \in Nat /\ Drift(q)' = Drift(q) + 1 /\ Drift(q)' \in Nat
        BY <1>2
      <3> DEFINE x(p) == Figure(q, p)
      <3>7. /\ x("open") \in Nat /\ x("open")' \in Nat
            /\ x("resolved") \in Nat /\ x("resolved")' \in Nat
            /\ x("total") \in Nat /\ x("total")' \in Nat /\ x("total") <= x("total")'
        BY <1>3, <3>3, <3>4, <3>5
      <3>8. x("open")' + x("resolved")' <= x("open") + x("resolved") + 1
        <4>1. CASE Has(q, "open") /\ Has(q, "resolved")
          BY <1>3, <3>3, <3>4, <3>7, <4>1
        <4>2. CASE Has(q, "open") /\ ~Has(q, "resolved")
          BY <1>3, <3>3, <3>4, <3>7, <4>2
        <4>3. CASE ~Has(q, "open") /\ Has(q, "resolved")
          BY <1>3, <3>3, <3>4, <3>7, <4>3
        <4>4. CASE ~Has(q, "open") /\ ~Has(q, "resolved")
          BY <1>3, <3>3, <3>4, <3>7, <4>4
        <4> QED
          BY <4>1, <4>2, <4>3, <4>4
      <3> QED
        BY <3>2, <3>6, <3>7, <3>8, PartsAndTotal
    <2>8. query[q].kind = "overdue" =>
            /\ Figure(q, "overdue")' <= Figure(q, "overdueByCategory")' + Drift(q)'
            /\ Figure(q, "overdueByCategory")' <= Figure(q, "overdue")' + Drift(q)'
      <3>1. SUFFICES ASSUME query[q].kind = "overdue"
                     PROVE  /\ Figure(q, "overdue")' <= Figure(q, "overdueByCategory")' + Drift(q)'
                            /\ Figure(q, "overdueByCategory")' <= Figure(q, "overdue")' + Drift(q)'
        OBVIOUS
      <3>2. /\ Figure(q, "overdue") <= Figure(q, "overdueByCategory") + Drift(q)
            /\ Figure(q, "overdueByCategory") <= Figure(q, "overdue") + Drift(q)
        BY <2>1, <3>1 DEF Consistent
      <3>3. /\ Figure(q, "overdue") = IF Has(q, "overdue") THEN n("overdue") ELSE Overdue
            /\ Figure(q, "overdue")' = IF Has(q, "overdue") THEN n("overdue") ELSE Overdue'
            /\ Has(q, "overdue") => n("overdue") \in Nat
        BY <2>3, <2>4 DEF Counted
      <3> DEFINE p == "overdueByCategory"
      <3>4. /\ Figure(q, p) = IF Has(q, p) THEN n(p) ELSE Overdue
            /\ Figure(q, p)' = IF Has(q, p) THEN n(p) ELSE Overdue'
            /\ Has(q, p) => n(p) \in Nat
        BY <2>3, <2>4 DEF Counted
      <3>5. Drift(q) \in Nat /\ Drift(q)' = Drift(q) + 1 /\ Drift(q)' \in Nat
        BY <1>2
      <3> DEFINE a == Figure(q, "overdue")
                 b == Figure(q, p)
      <3>6. /\ a \in Nat /\ a' \in Nat /\ a' <= a + 1 /\ a <= a' + 1
            /\ b \in Nat /\ b' \in Nat /\ b' <= b + 1 /\ b <= b' + 1
        <4>1. CASE Has(q, "overdue")
          <5>1. a' = a /\ a \in Nat
            BY <3>3, <4>1
          <5> HIDE DEF a
          <5>2. a' <= a + 1 /\ a <= a' + 1
            BY <5>1
          <5>3. CASE Has(q, p)
            <6>1. b' = b /\ b \in Nat
              BY <3>4, <5>3
            <6> HIDE DEF b
            <6> QED
              BY <5>1, <5>2, <6>1
          <5>4. CASE ~Has(q, p)
            <6>1. b = Overdue /\ b' = Overdue'
              BY <3>4, <5>4
            <6> QED
              BY <1>3, <5>1, <5>2, <6>1
          <5> QED
            BY <5>3, <5>4
        <4>2. CASE ~Has(q, "overdue")
          <5>1. a = Overdue /\ a' = Overdue'
            BY <3>3, <4>2
          <5>3. CASE Has(q, p)
            <6>1. b' = b /\ b \in Nat
              BY <3>4, <5>3
            <6>2. /\ Overdue \in Nat /\ Overdue' \in Nat
                  /\ Overdue' <= Overdue + 1 /\ Overdue <= Overdue' + 1
              BY <1>3
            <6> HIDE DEF a, b
            <6>3. a \in Nat /\ a' \in Nat /\ a' <= a + 1 /\ a <= a' + 1
              BY <5>1, <6>2
            <6>4. b' \in Nat /\ b' <= b + 1 /\ b <= b' + 1
              BY <6>1
            <6> QED
              BY <6>1, <6>3, <6>4
          <5>4. CASE ~Has(q, p)
            <6>1. b = Overdue /\ b' = Overdue'
              BY <3>4, <5>4
            <6>2. /\ Overdue \in Nat /\ Overdue' \in Nat
                  /\ Overdue' <= Overdue + 1 /\ Overdue <= Overdue' + 1
              BY <1>3
            <6> HIDE DEF a, b
            <6> QED
              BY <5>1, <6>1, <6>2
          <5> QED
            BY <5>3, <5>4
        <4> QED
          BY <4>1, <4>2
      <3>7. \/ a' = a \/ b' = b \/ a' = b'
        BY <3>3, <3>4
      <3> HIDE DEF a, b
      <3>8. a' <= b' + Drift(q)'
        BY <3>2, <3>5, <3>6, <3>7, TwoCounts DEF a, b
      <3>9. b' <= a' + Drift(q)'
        BY <3>2, <3>5, <3>6, <3>7, TwoCounts DEF a, b
      <3> QED
        BY <3>8, <3>9 DEF a, b
    <2> QED
      BY <1>1, <2>1, <2>2, <2>5, <2>6, <2>7, <2>8 DEF Consistent, Counted
  <1>5. ASSUME NEW q \in Readers, Full(q) PROVE Full(q)'
    BY <1>1, <1>5 DEF Full, Has
  <1> QED
    BY <1>1, <1>2, <1>4, <1>5 DEF FiguresInv

\* Counts of complaints depend on the complaints alone.
LEMMA CountKept ==
  ASSUME UNCHANGED <<status, due>>
  PROVE  /\ Total' = Total
         /\ \A q, p : query'[q] = query[q] => Count(q, p)' = Count(q, p)
  <1>1. Submitted' = Submitted
    BY DEF Submitted
  <1>2. Total' = Total /\ Overdue' = Overdue /\ \A S : InStatus(S)' = InStatus(S)
    BY <1>1 DEF Total, Overdue, InStatus
  <1>3. ASSUME NEW q, query'[q] = query[q]
        PROVE  Matching(query[q].filter)' = Matching(query[q].filter)
    BY <1>1, <1>3 DEF Matching
  <1>4. ASSUME NEW q, query'[q] = query[q], NEW p
        PROVE  Count(q, p)' = Count(q, p)
    BY <1>2, <1>3, <1>4 DEF Count
  <1> QED
    BY <1>2, <1>4

\* A reader that has asked or been answered does not disturb the others.
LEMMA FiguresOfOthers ==
  ASSUME FiguresInv, NEW q \in Readers, UNCHANGED <<status, due, changes>>,
         DOMAIN since' = Readers,
         \A r \in Readers \ {q} : /\ reading'[r] = reading[r] /\ query'[r] = query[r]
                                  /\ since'[r] = since[r] /\ answer'[r] = answer[r],
         \A p \in Counted : answer'[q][p] \in Nat \cup {None},
         since'[q] \in 0..changes,
         reading'[q] # "idle" => Consistent(q)' /\ Full(q)'
  PROVE  FiguresInv'
  <1>1. ASSUME NEW r \in Readers \ {q}, reading[r] # "idle", Consistent(r) PROVE Consistent(r)'
    <2>1. \A p : Figure(r, p)' = Figure(r, p) /\ (Has(r, p)' <=> Has(r, p))
      BY CountKept DEF Figure, Has
    <2>2. Total' = Total /\ Drift(r)' = Drift(r) /\ query'[r] = query[r]
      BY CountKept DEF Drift
    <2> QED
      BY <1>1, <2>1, <2>2 DEF Consistent
  <1>2. ASSUME NEW r \in Readers \ {q}, Full(r) PROVE Full(r)'
    BY <1>2 DEF Full, Has
  <1>3. ASSUME NEW r \in Readers
        PROVE  /\ \A p \in Counted : answer'[r][p] \in Nat \cup {None}
               /\ since'[r] \in 0..changes'
               /\ reading'[r] # "idle" => Consistent(r)' /\ Full(r)'
    <2>1. CASE r = q
      BY <2>1
    <2>2. CASE r # q
      BY <1>1, <1>2, <2>2 DEF FiguresInv
    <2> QED
      BY <2>1, <2>2
  <1> QED
    BY <1>3 DEF FiguresInv

\* What has been counted is what a count now would give, until the next change.
LEMMA FiguresSelect ==
  ASSUME AnswersOK, FiguresInv, NEW q \in Readers, Select(q)
  PROVE  FiguresInv'
  <1>1. PICK p \in Pending(q) :
               answer' = [answer EXCEPT ![q][p] = Selected(p, query[q])]
    BY DEF Select
  <1>2. /\ reading[q] = "asked" /\ p \in Part
        /\ UNCHANGED <<status, due, changes, reading, query, since>>
    BY <1>1 DEF Select, Pending
  <1>3. answer[q][p] = None
    BY <1>1 DEF Pending
  <1>4. /\ answer'[q][p] = Selected(p, query[q])
        /\ \A x \in Part \ {p} : answer'[q][x] = answer[q][x]
        /\ \A r \in Readers \ {q} : answer'[r] = answer[r]
    BY <1>1, <1>2 DEF AnswersOK
  <1>5. Counted \subseteq Part
    BY DEF Counted, Part
  <1>6. p \in Counted =>
          answer'[q][p] = Count(q, p) /\ Count(q, p) \in Nat /\ Count(q, p) # None
    BY <1>2, <1>4, SelectedIsCount, CountIs, NullAssumption
  <1>7. ASSUME NEW x \in Counted
        PROVE  /\ Figure(q, x)' = Figure(q, x)
               /\ Has(q, x) => Has(q, x)'
               /\ Has(q, x)' => Has(q, x) \/ x \in Pending(q)
               /\ answer'[q][x] \in Nat \cup {None}
    <2>1. Count(q, x)' = Count(q, x)
      BY <1>2, CountKept
    <2>2. CASE x = p
      BY <1>3, <1>4, <1>6, <2>1, <2>2 DEF Figure, Has
    <2>3. CASE x # p
      BY <1>4, <1>5, <2>1, <2>3 DEF Figure, Has, FiguresInv
    <2> QED
      BY <2>2, <2>3
  <1>8. Consistent(q)'
    <2>1. query[q].kind = "summary" =>
           /\ Has(q, "byStatus")' => Has(q, "byStatus") \/ Has(q, "total")
           /\ Has(q, "byCategory")' => Has(q, "byCategory") \/ Has(q, "byStatus")
           /\ Has(q, "bySeverity")' => Has(q, "bySeverity") \/ Has(q, "byCategory")
      BY <1>7, SummaryOrder DEF Counted
    <2>2. query[q].kind = "list" => (Has(q, "total")' => Has(q, "total") \/ Has(q, "listed"))
      <3>1. query[q].kind = "list" => Plan[query[q].kind] = <<{"listed"}, {"total"}>>
        BY DEF Plan, List
      <3>2. "listed" \in Counted /\ "total" \in Counted
        BY DEF Counted
      <3> QED
        BY <1>7, <3>1, <3>2, PairOrder
    <2>3. Consistent(q)
      BY <1>2 DEF FiguresInv
    <2> QED
      BY <1>2, <1>7, <2>1, <2>2, <2>3, ConsistentKept
  <1>9. Full(q)'
    BY <1>2 DEF Full
  <1> QED
    BY <1>2, <1>4, <1>7, <1>8, <1>9, FiguresOfOthers DEF FiguresInv

\* A reader that has just asked has no figure; one that responds has them all.
LEMMA FiguresTurn ==
  ASSUME AnswersOK, FiguresInv, NEW q \in Readers,
         Ask(q) \/ NotFound(q) \/ Respond(q) \/ FailRead(q)
  PROVE  FiguresInv'
  <1>1. UNCHANGED <<status, due, changes, answer>>
    BY DEF Ask, NotFound, Respond, FailRead
  <1>2. Counted \subseteq Part
    BY DEF Counted, Part
  <1>3. CASE Ask(q)
    <2>1. /\ reading[q] = "idle" /\ reading'[q] = "asked" /\ since'[q] = changes
          /\ \A r \in Readers \ {q} : reading'[r] = reading[r] /\ query'[r] = query[r]
      BY <1>3 DEF Ask, AnswersOK, FiguresInv
    <2>2. DOMAIN since' = Readers /\ \A r \in Readers \ {q} : since'[r] = since[r]
      BY <1>3 DEF Ask, FiguresInv
    <2> DEFINE M == Matching(query[q].filter)
    <2>3. \A x \in Counted : Figure(q, x)' = Count(q, x)' /\ ~Has(q, x)'
      BY <1>1, <1>2, <2>1 DEF AnswersOK, Figure, Has
    <2>4. Total' = Total /\ Drift(q)' = 0
      BY <1>1, <2>1, CountKept DEF Drift, FiguresInv
    <2>5. /\ Figure(q, "open")' = InStatus(OpenStatus)
          /\ Figure(q, "resolved")' = InStatus(ResolvedStatus)
          /\ Figure(q, "overdue")' = Overdue /\ Figure(q, "overdueByCategory")' = Overdue
          /\ \A x \in {"byStatus", "byCategory", "bySeverity"} :
               Figure(q, x)' = Total /\ ~Has(q, x)'
          /\ \A x \in {"listed", "total"} : Figure(q, x)' = M' /\ ~Has(q, x)'
      <3>1. Submitted' = Submitted
        BY <1>1 DEF Submitted
      <3>2. Overdue' = Overdue /\ \A S : InStatus(S)' = InStatus(S)
        BY <1>1, <3>1 DEF Overdue, InStatus
      <3>3. /\ Count(q, "open")' = InStatus(OpenStatus)'
            /\ Count(q, "resolved")' = InStatus(ResolvedStatus)'
            /\ Count(q, "overdue")' = Overdue' /\ Count(q, "overdueByCategory")' = Overdue'
            /\ \A x \in {"byStatus", "byCategory", "bySeverity"} : Count(q, x)' = Total'
            /\ \A x \in {"listed", "total"} : Count(q, x)' = M'
        BY DEF Count
      <3> HIDE DEF M
      <3> QED
        BY <2>3, <2>4, <3>2, <3>3 DEF Counted
    <2>8. /\ M' \in Nat /\ (query'[q].filter = None => M' = Total)
          /\ query'[q].kind # "list" => query'[q].filter = None
      <3>1. PICK x \in Query : query'[q] = x
        BY <1>3 DEF Ask, AnswersOK
      <3>2. M' = Matching(x.filter)
        BY <1>1, <3>1 DEF Matching, Submitted
      <3>3. Matching(x.filter) \in Nat
        <4>1. {c \in Submitted : x.filter \in {None, status[c]}} \subseteq Complaints
          BY DEF Submitted
        <4> QED
          BY <4>1, CountsAreNumbers DEF Matching
      <3> QED
        BY <3>1, <3>2, <3>3, MatchingIs DEF Query
    <2> HIDE DEF M
    <2>6. Consistent(q)'
      BY <2>4, <2>5, <2>8, OpenOrResolved DEF Consistent
    <2>7. Full(q)'
      BY <2>1 DEF Full
    <2> QED
      BY <1>1, <2>1, <2>2, <2>6, <2>7, FiguresOfOthers DEF FiguresInv
  <1>4. CASE NotFound(q) \/ Respond(q) \/ FailRead(q)
    <2>1. /\ reading[q] = "asked" /\ reading'[q] \in {"done", "failed"}
          /\ reading'[q] = "done" => Pending(q) = {}
          /\ UNCHANGED <<query, since>>
          /\ \A r \in Readers \ {q} : reading'[r] = reading[r]
      BY <1>4 DEF NotFound, Respond, FailRead, AnswersOK
    <2>2. Consistent(q) /\ \A x : Figure(q, x)' = Figure(q, x) /\ (Has(q, x)' <=> Has(q, x))
      BY <1>1, <2>1, CountKept DEF Figure, Has, FiguresInv
    <2>3. Consistent(q)'
      BY <1>1, <2>1, <2>2, ConsistentKept
    <2>4. ASSUME Pending(q) = {}, query[q].kind \in DOMAIN Report
          PROVE  \A x \in Report[query[q].kind] : Has(q, x)
      <3>1. CASE query[q].kind = "summary"
        BY <2>4, <3>1, SummaryOrder
      <3>2. CASE query[q].kind = "list"
        <4>1. Plan[query[q].kind] = <<{"listed"}, {"total"}>>
          BY <3>2 DEF Plan, List
        <4>2. "listed" \in Counted /\ "total" \in Counted
          BY DEF Counted
        <4>3. Has(q, "listed") /\ Has(q, "total")
          BY <2>4, <4>1, <4>2, PairOrder
        <4> QED
          BY <3>2, <4>3 DEF Report
      <3>3. CASE query[q].kind = "dashboard"
        BY <2>4, <3>3, DashboardOrder
      <3>4. CASE query[q].kind = "overdue"
        <4>1. Plan[query[q].kind] = <<{"overdue"}, {"overdueByCategory"}>>
          BY <3>4 DEF Plan, OverdueReport
        <4>2. "overdue" \in Counted /\ "overdueByCategory" \in Counted
          BY DEF Counted
        <4>3. Has(q, "overdue") /\ Has(q, "overdueByCategory")
          BY <2>4, <4>1, <4>2, PairOrder
        <4> QED
          BY <3>4, <4>3 DEF Report
      <3> QED
        BY <2>4, <3>1, <3>2, <3>3, <3>4 DEF Report
    <2>5. Full(q)'
      BY <2>1, <2>2, <2>4 DEF Full
    <2> QED
      BY <1>1, <2>1, <2>3, <2>5, FiguresOfOthers DEF FiguresInv
  <1> QED
    BY <1>3, <1>4

LEMMA FiguresStep ==
  ASSUME StatusInTimeline, AnswersOK, FiguresInv, [Next]_vars
  PROVE  FiguresInv'
  <1>1. CASE Write \/ Elapse
    BY <1>1, FiguresWritten
  <1>2. ASSUME NEW q \in Readers, ReadStep(q) PROVE FiguresInv'
    BY <1>2, FiguresSelect, FiguresTurn DEF ReadStep
  <1>3. CASE UNCHANGED readVars
    <2>1. UNCHANGED <<status, due, changes, reading, query, since, answer>>
      BY <1>3 DEF readVars
    <2>2. \A q \in Readers, p \in Counted : Figure(q, p)' = Figure(q, p) /\ (Has(q, p)' <=> Has(q, p))
      BY <2>1, CountKept DEF Figure, Has
    <2>3. ASSUME NEW q \in Readers, Consistent(q) PROVE Consistent(q)'
      <3>1. Total' = Total /\ Drift(q)' = Drift(q)
        BY <2>1, CountKept DEF Drift
      <3> QED
        BY <2>1, <2>2, <2>3, <3>1 DEF Consistent, Counted
    <2>4. \A q \in Readers : Full(q) => Full(q)'
      BY <2>1 DEF Full, Has
    <2> QED
      BY <2>1, <2>3, <2>4 DEF FiguresInv
  <1> QED
    BY <1>1, <1>2, <1>3 DEF Next, Quiescent, vars

\* The figures of one answer differ by no more than the changes since it was
\* asked for, and those that are counted one after the other do not shrink.
THEOREM ReportsAgree == Spec => []ReportsAddUp
  <1> DEFINE Inv == TrackInv /\ FiguresInv
  <1>1. Init => Inv
    <2> SUFFICES ASSUME Init PROVE FiguresInv
      BY TrackInit
    <2>1. Counted \subseteq Part
      BY DEF Counted, Part
    <2> QED
      BY <2>1 DEF Init, FiguresInv
  <1>2. Inv /\ [Next]_vars => Inv'
    BY TrackStep, FiguresStep DEF TrackInv
  <1>3. Inv => ReportsAddUp
    <2> SUFFICES ASSUME Inv, NEW q \in Readers
                 PROVE  LET n == answer[q]
                            drift == changes - since[q]
                        IN  /\ Answered(q, "summary") =>
                                 /\ n["total"] <= n["byStatus"]
                                 /\ n["byStatus"] <= n["byCategory"]
                                 /\ n["byCategory"] <= n["bySeverity"]
                            /\ Answered(q, "list") =>
                                 /\ n["listed"] <= n["total"] + drift
                                 /\ query[q].filter = None => n["listed"] <= n["total"]
                            /\ Answered(q, "dashboard") =>
                                 n["open"] + n["resolved"] <= n["total"] + drift
                            /\ Answered(q, "overdue") =>
                                 /\ n["overdue"] <= n["overdueByCategory"] + drift
                                 /\ n["overdueByCategory"] <= n["overdue"] + drift
      BY DEF ReportsAddUp
    <2>1. /\ reading[q] = "done" => Consistent(q) /\ Full(q)
          /\ \A p : Has(q, p) => Figure(q, p) = answer[q][p]
      BY DEF FiguresInv, Figure, Has
    <2>2. CASE Answered(q, "summary")
      BY <2>1, <2>2 DEF Answered, Full, Report, Consistent, Has
    <2>3. CASE Answered(q, "list")
      BY <2>1, <2>3 DEF Answered, Full, Report, Consistent, Drift
    <2>4. CASE Answered(q, "dashboard")
      BY <2>1, <2>4 DEF Answered, Full, Report, Consistent, Drift
    <2>5. CASE Answered(q, "overdue")
      BY <2>1, <2>5 DEF Answered, Full, Report, Consistent, Drift
    <2> QED
      BY <2>2, <2>3, <2>4, <2>5 DEF Answered
  <1> QED
    BY <1>1, <1>2, <1>3, PTL DEF Spec

=============================================================================

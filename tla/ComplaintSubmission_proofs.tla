--------------------- MODULE ComplaintSubmission_proofs ---------------------
(***************************************************************************)
(* The safety properties of ComplaintSubmission, for any number of          *)
(* submissions, idempotency keys and attachments.                           *)
(***************************************************************************)
EXTENDS ComplaintSubmission, FiniteSetTheorems, TLAPS

-----------------------------------------------------------------------------
(* The invariant, in parts.                                                 *)

\* The stages after the last file, and those before the transaction.
Filled == {"logged", "classified", "ready", "done"}
Unopened == {"idle", "looked", "returned"}

\* The loop of attachEvidenceFiles: the rows recorded are those of the files
\* before the next one, the paths noted are theirs and that of a file written.
Attached(r) ==
  /\ NextFile(r) \in 1 .. (form[r].files + 1)
  /\ filed[r] = 1 .. (NextFile(r) - 1)
  /\ pc[r] \in Unopened => filed[r] = {} /\ uploaded[r] = {}
  /\ pc[r] \in Open \cup {"done"} =>
       uploaded[r] = IF pc[r] = "stored" THEN filed[r] \cup {NextFile(r)} ELSE filed[r]
  /\ pc[r] = "stored" => NextFile(r) <= form[r].files
  /\ pc[r] \in Filled => NextFile(r) = form[r].files + 1

AttachedInv == \A r \in Requests : Attached(r)

\* What a request has written outside its transaction by each stage.
Written(r) ==
  /\ pc[r] \in Open \cup {"done"} =>
       /\ \A i \in uploaded[r] : <<r, i>> \in disk
       /\ \A i \in filed[r] :
            <<r, i>> \in auditLog \/ (pc[r] = "recorded" /\ i = NextFile(r) - 1)
  /\ pc[r] \in Filled => <<r, 0>> \in auditLog
  /\ pc[r] \in {"classified", "ready", "done"} => <<"classify-complaint", r>> \in queue
  /\ pc[r] \in {"ready", "done"} => <<"complaint-submitted", r>> \in queue

WrittenInv == \A r \in Requests : Written(r)

\* What is committed belongs to a request that has left its transaction, and
\* keeps each file until that request's clean-up comes to it.
CommittedInv ==
  /\ \A r \in complaints : pc[r] \in {"done", "cleaning", "failed", "crashed"}
  /\ \A r \in Requests : pc[r] = "done" =>
       r \in complaints /\ \A i \in filed[r] : <<r, i>> \in evidence
  /\ \A r \in Requests, i \in File : <<r, i>> \in evidence =>
       /\ pc[r] \in {"done", "cleaning", "failed", "crashed"}
       /\ <<r, i>> \in auditLog
       /\ \/ <<r, i>> \in disk
          \/ pc[r] \in {"cleaning", "failed", "crashed"} /\ i \notin uploaded[r]

\* A file on disk is noted by its request, or is known to be left over.
DiskInv ==
  \A r \in Requests, i \in File : <<r, i>> \in disk =>
    /\ i \in uploaded[r] \/ <<r, i>> \in leaked
    /\ pc[r] \in Ended \ {"crashed"} => <<r, i>> \in evidence \cup leaked

SameKey(q, r) == form[q].key = form[r].key /\ form[r].key # None

\* Among the committed complaints and the open transactions a key occurs once,
\* and an answer is the committed complaint under the key of the request.
KeyInv ==
  /\ \A q, r \in Requests :
       /\ q \in complaints \/ pc[q] \in Open
       /\ r \in complaints \/ pc[r] \in Open
       /\ SameKey(q, r)
       => q = r
  /\ \A r \in Requests : Answered(r) =>
       /\ answer[r] \in complaints
       /\ form[answer[r]].key = form[r].key
       /\ pc[r] = "returned" => form[r].key # None

SubmissionInv ==
  TypeOK /\ AttachedInv /\ WrittenInv /\ CommittedInv /\ DiskInv /\ KeyInv

-----------------------------------------------------------------------------
(* Types.                                                                   *)

\* The next file's number counts the rows recorded.
LEMMA NextFileAfter ==
  ASSUME NEW r \in Requests, NEW n \in Nat, filed[r] = 1 .. n
  PROVE  NextFile(r) = n + 1
  <1>1. Cardinality(1 .. n) = n
    BY FS_Interval
  <1> QED
    BY <1>1 DEF NextFile

\* What the loop still has to write is one of the form's files.
LEMMA NextIsFile ==
  ASSUME TypeOK, NEW r \in Requests, NextFile(r) \in 1 .. (form[r].files + 1),
         NextFile(r) <= form[r].files
  PROVE  NextFile(r) \in File
  <1>1. form[r].files \in Nat /\ form[r].files <= MaxFiles
    BY MaxFilesAssumption DEF TypeOK, Form
  <1> QED
    BY <1>1, MaxFilesAssumption DEF File

LEMMA InitType == Init => TypeOK
  BY MaxFilesAssumption DEF Init, TypeOK, Form, File

LEMMA NextType ==
  ASSUME TypeOK, AttachedInv, [Next]_vars
  PROVE  TypeOK'
  <1>1. CASE UNCHANGED vars
    BY <1>1 DEF vars, stores, TypeOK
  <1>2. ASSUME NEW r \in Requests, NEW f \in Form, LookUp(r, f) PROVE TypeOK'
    BY <1>2 DEF LookUp, Keyed, Goto, TypeOK, stores, InFlight, Ended
  <1>3. ASSUME NEW r \in Requests, Insert(r) \/ DuplicateKey(r) \/ Fail(r) PROVE TypeOK'
    BY <1>3 DEF Insert, DuplicateKey, Fail, Goto, TypeOK, stores, InFlight, Open
  <1>4. ASSUME NEW r \in Requests, Upload(r) \/ UploadBreaks(r) PROVE TypeOK'
    <2>1. NextFile(r) \in File
      BY <1>4, NextIsFile DEF AttachedInv, Attached, Upload, UploadBreaks
    <2> QED
      BY <1>4, <2>1 DEF Upload, UploadBreaks, Goto, TypeOK, InFlight, Open
  <1>5. ASSUME NEW r \in Requests, RecordEvidence(r) PROVE TypeOK'
    <2>1. NextFile(r) \in File
      BY <1>5, NextIsFile DEF AttachedInv, Attached, RecordEvidence
    <2> QED
      BY <1>5, <2>1 DEF RecordEvidence, Goto, TypeOK, stores, InFlight, Open
  <1>6. ASSUME NEW r \in Requests, AuditEvidence(r) PROVE TypeOK'
    <2>1. Cardinality(filed[r]) \in 0 .. MaxFiles
      <3>1. /\ form[r].files \in Nat /\ form[r].files <= MaxFiles
            /\ NextFile(r) \in 1 .. (form[r].files + 1)
            /\ filed[r] = 1 .. (NextFile(r) - 1)
        BY MaxFilesAssumption DEF TypeOK, Form, AttachedInv, Attached
      <3>2. NextFile(r) - 1 \in 0 .. MaxFiles
        BY <3>1, MaxFilesAssumption
      <3>3. Cardinality(filed[r]) = NextFile(r) - 1
        BY <3>1, <3>2, FS_Interval
      <3> QED
        BY <3>2, <3>3
    <2> QED
      BY <1>6, <2>1 DEF AuditEvidence, Goto, TypeOK, InFlight, Open
  <1>7. ASSUME NEW r \in Requests, AuditComplaint(r) PROVE TypeOK'
    BY <1>7, MaxFilesAssumption DEF AuditComplaint, Goto, TypeOK, InFlight, Open
  <1>8. ASSUME NEW r \in Requests, Enqueue(r) PROVE TypeOK'
    BY <1>8 DEF Enqueue, Goto, TypeOK, InFlight, Open
  <1>9. ASSUME NEW r \in Requests, Commit(r) \/ CommitUnanswered(r) PROVE TypeOK'
    BY <1>9 DEF Commit, CommitUnanswered, Publish, Goto, TypeOK, InFlight, Ended
  <1>10. ASSUME NEW r \in Requests, CleanUp(r) \/ Rethrow(r) PROVE TypeOK'
    BY <1>10 DEF CleanUp, Rethrow, Goto, TypeOK, stores, InFlight, Ended
  <1>11. CASE Crash
    BY <1>11 DEF Crash, TypeOK, stores, Ended
  <1> QED
    BY <1>1, <1>2, <1>3, <1>4, <1>5, <1>6, <1>7, <1>8, <1>9, <1>10, <1>11
    DEF Next, Proceed, Quiescent

-----------------------------------------------------------------------------
(* The loop over the files.                                                 *)

\* A request whose files stay as they are may only move on in stage.
LEMMA AttachedKept ==
  ASSUME NEW r \in Requests, TypeOK, Attached(r),
         form'[r] = form[r], uploaded'[r] = uploaded[r], filed'[r] = filed[r],
         pc'[r] # pc[r] =>
           \/ pc'[r] \in {"cleaning", "failed", "crashed"}
           \/ pc[r] = "looked" /\ pc'[r] = "inserted"
           \/ pc[r] = "recorded" /\ pc'[r] = "inserted"
           \/ pc[r] \in Filled /\ pc'[r] \in Filled
           \/ pc[r] = "inserted" /\ pc'[r] = "logged" /\ NextFile(r) > form[r].files
  PROVE  Attached(r)'
  <1>1. NextFile(r)' = NextFile(r)
    BY DEF NextFile
  <1>2. NextFile(r) > form[r].files => NextFile(r) = form[r].files + 1
    <2>1. form[r].files \in Nat
      BY MaxFilesAssumption DEF TypeOK, Form
    <2> QED
      BY <2>1 DEF Attached
  <1> QED
    BY <1>1, <1>2 DEF Attached, Unopened, Filled, Open

\* A row recorded is that of the next file, and the loop goes on to the one after.
LEMMA RecordAdvances ==
  ASSUME TypeOK, NEW r \in Requests, Attached(r), RecordEvidence(r)
  PROVE  filed'[r] = 1 .. NextFile(r) /\ NextFile(r)' = NextFile(r) + 1
  <1> DEFINE n == NextFile(r)
  <1>1. n \in Nat \ {0} /\ filed[r] = 1 .. (n - 1) /\ filed'[r] = filed[r] \cup {n}
    <2>1. form[r].files \in Nat
      BY MaxFilesAssumption DEF TypeOK, Form
    <2> QED
      BY <2>1 DEF RecordEvidence, Attached, TypeOK
  <1> HIDE DEF n
  <1>2. filed'[r] = 1 .. n
    BY <1>1
  <1>3. Cardinality(1 .. n) = n
    BY <1>1, FS_Interval
  <1> QED
    BY <1>2, <1>3 DEF NextFile, n

LEMMA AttachedStep ==
  ASSUME TypeOK, AttachedInv, [Next]_vars
  PROVE  AttachedInv'
  <1>1. CASE UNCHANGED vars
    BY <1>1 DEF vars, AttachedInv, Attached, NextFile
  <1>2. ASSUME NEW r \in Requests, NEW f \in Form, LookUp(r, f) PROVE AttachedInv'
    <2>1. \A q \in Requests \ {r} : Attached(q)'
      BY <1>2, AttachedKept DEF LookUp, Goto, TypeOK, AttachedInv
    <2>2. NextFile(r) = 1 /\ NextFile(r)' = 1
      <3>1. filed[r] = {} /\ filed'[r] = {}
        BY <1>2 DEF LookUp, AttachedInv, Attached, Unopened
      <3> QED
        BY <3>1, FS_EmptySet DEF NextFile
    <2>3. form'[r] = f /\ f.files \in Nat
      BY <1>2, MaxFilesAssumption DEF LookUp, TypeOK, Form
    <2>4. filed'[r] = {} /\ uploaded'[r] = {} /\ pc'[r] \in {"looked", "returned"}
      BY <1>2 DEF LookUp, Goto, TypeOK, AttachedInv, Attached, Unopened
    <2>5. Attached(r)'
      BY <2>2, <2>3, <2>4 DEF Attached, Unopened, Open, Filled
    <2> QED
      BY <2>1, <2>5 DEF AttachedInv
  <1>3. ASSUME NEW r \in Requests,
               \/ Insert(r) \/ DuplicateKey(r) \/ Fail(r) \/ UploadBreaks(r)
               \/ AuditEvidence(r) \/ AuditComplaint(r) \/ Enqueue(r)
               \/ Commit(r) \/ CommitUnanswered(r) \/ Rethrow(r)
        PROVE  AttachedInv'
    <2>1. /\ form' = form /\ uploaded' = uploaded /\ filed' = filed
          /\ \A q \in Requests \ {r} : pc'[q] = pc[q]
      BY <1>3 DEF Insert, DuplicateKey, Fail, UploadBreaks, AuditEvidence, AuditComplaint,
                  Enqueue, Commit, CommitUnanswered, Publish, Rethrow, Goto, TypeOK, stores
    <2>2. \/ pc'[r] \in {"cleaning", "failed"}
          \/ pc[r] = "looked" /\ pc'[r] = "inserted"
          \/ pc[r] = "recorded" /\ pc'[r] = "inserted"
          \/ pc[r] \in Filled /\ pc'[r] \in Filled
          \/ pc[r] = "inserted" /\ pc'[r] = "logged" /\ NextFile(r) > form[r].files
      BY <1>3 DEF Insert, DuplicateKey, Fail, UploadBreaks, AuditEvidence, AuditComplaint,
                  Enqueue, Commit, CommitUnanswered, Publish, Rethrow, Goto, TypeOK, Filled
    <2> QED
      BY <2>1, <2>2, AttachedKept DEF AttachedInv
  <1>4. ASSUME NEW r \in Requests, Upload(r) PROVE AttachedInv'
    <2>1. \A q \in Requests \ {r} : Attached(q)'
      BY <1>4, AttachedKept DEF Upload, Goto, TypeOK, AttachedInv
    <2>2. NextFile(r)' = NextFile(r)
      BY <1>4 DEF Upload, NextFile
    <2>3. Attached(r)'
      BY <1>4, <2>2 DEF Upload, Goto, TypeOK, AttachedInv, Attached, Unopened, Open, Filled
    <2> QED
      BY <2>1, <2>3 DEF AttachedInv
  <1>5. ASSUME NEW r \in Requests, RecordEvidence(r) PROVE AttachedInv'
    <2>1. \A q \in Requests \ {r} : Attached(q)'
      BY <1>5, AttachedKept DEF RecordEvidence, Goto, TypeOK, AttachedInv
    <2>2. /\ NextFile(r) \in Nat \ {0} /\ NextFile(r) <= form[r].files
          /\ form[r].files \in Nat /\ uploaded[r] = filed[r] \cup {NextFile(r)}
      BY <1>5, MaxFilesAssumption
      DEF RecordEvidence, AttachedInv, Attached, Open, TypeOK, Form
    <2>3. /\ filed'[r] = filed[r] \cup {NextFile(r)} /\ uploaded'[r] = uploaded[r]
          /\ form'[r] = form[r] /\ pc'[r] = "recorded"
      BY <1>5 DEF RecordEvidence, Goto, TypeOK
    <2>4. NextFile(r)' = NextFile(r) + 1 /\ filed'[r] = 1 .. NextFile(r)
      BY <1>5, RecordAdvances DEF AttachedInv
    <2>5. /\ NextFile(r) + 1 \in 1 .. (form[r].files + 1)
          /\ (NextFile(r) + 1) - 1 = NextFile(r)
      BY <2>2
    <2>6. Attached(r)'
      BY <2>2, <2>3, <2>4, <2>5 DEF Attached, Unopened, Filled
    <2> QED
      BY <2>1, <2>6 DEF AttachedInv
  <1>6. CASE Crash
    BY <1>6, AttachedKept DEF Crash, TypeOK, AttachedInv
  <1>7. ASSUME NEW r \in Requests, CleanUp(r) PROVE AttachedInv'
    <2>1. \A q \in Requests \ {r} : Attached(q)'
      BY <1>7, AttachedKept DEF CleanUp, TypeOK, AttachedInv
    <2>2. NextFile(r)' = NextFile(r)
      BY <1>7 DEF CleanUp, NextFile
    <2>3. Attached(r)'
      BY <1>7, <2>2 DEF CleanUp, AttachedInv, Attached, Unopened, Open, Filled
    <2> QED
      BY <2>1, <2>3 DEF AttachedInv
  <1> QED
    BY <1>1, <1>2, <1>3, <1>4, <1>5, <1>6, <1>7 DEF Next, Proceed, Quiescent

-----------------------------------------------------------------------------
(* The writes outside the transaction.                                      *)

\* A request that stays, or leaves its transaction, while the stores grow.
LEMMA WrittenKept ==
  ASSUME NEW r \in Requests, Written(r),
         uploaded'[r] = uploaded[r], filed'[r] = filed[r],
         auditLog \subseteq auditLog', queue \subseteq queue',
         \A i : <<r, i>> \in disk => <<r, i>> \in disk',
         pc'[r] = pc[r] \/ pc'[r] \notin Open \cup {"done"}
  PROVE  Written(r)'
  <1>1. NextFile(r)' = NextFile(r)
    BY DEF NextFile
  <1> QED
    BY <1>1 DEF Written, Open, Filled

\* Nobody writes for, or deletes a file of, another request.
LEMMA WrittenElsewhere ==
  ASSUME TypeOK, WrittenInv, NEW r \in Requests,
         \/ \E f \in Form : LookUp(r, f)
         \/ Proceed(r) \/ UploadBreaks(r) \/ CommitUnanswered(r) \/ Fail(r),
         NEW q \in Requests \ {r}
  PROVE  Written(q)'
  <1>1. /\ pc'[q] = pc[q] /\ uploaded'[q] = uploaded[q] /\ filed'[q] = filed[q]
        /\ auditLog \subseteq auditLog' /\ queue \subseteq queue'
    BY DEF Proceed, LookUp, Insert, DuplicateKey, Upload, UploadBreaks, RecordEvidence,
           AuditEvidence, AuditComplaint, Enqueue, Commit, CommitUnanswered, Publish,
           Fail, CleanUp, Rethrow, Goto, TypeOK, stores
  <1>2. ASSUME NEW i, <<q, i>> \in disk PROVE <<q, i>> \in disk'
    BY <1>2 DEF Proceed, LookUp, Insert, DuplicateKey, Upload, UploadBreaks, RecordEvidence,
           AuditEvidence, AuditComplaint, Enqueue, Commit, CommitUnanswered, Publish,
           Fail, CleanUp, Rethrow, stores
  <1> QED
    BY <1>1, <1>2, WrittenKept DEF WrittenInv

LEMMA WrittenStep ==
  ASSUME TypeOK, AttachedInv, WrittenInv, [Next]_vars
  PROVE  WrittenInv'
  <1>1. CASE UNCHANGED vars
    BY <1>1 DEF vars, stores, WrittenInv, Written, NextFile
  <1>2. CASE Crash
    BY <1>2, WrittenKept DEF Crash, TypeOK, stores, WrittenInv, Open
  <1>3. ASSUME NEW r \in Requests,
               \/ \E f \in Form : LookUp(r, f)
               \/ Proceed(r) \/ UploadBreaks(r) \/ CommitUnanswered(r) \/ Fail(r)
        PROVE  WrittenInv'
    <2> SUFFICES Written(r)'
      BY <1>3, WrittenElsewhere DEF WrittenInv
    <2>0. Written(r) /\ Attached(r)
      BY DEF WrittenInv, AttachedInv
    <2>1. CASE (\E f \in Form : LookUp(r, f)) \/ DuplicateKey(r) \/ Fail(r)
               \/ UploadBreaks(r) \/ CommitUnanswered(r)
      BY <2>0, <2>1, WrittenKept
      DEF LookUp, DuplicateKey, Fail, UploadBreaks, CommitUnanswered, Publish, Goto, TypeOK,
          stores, Open
    <2>2. CASE CleanUp(r) \/ Rethrow(r)
      BY <2>2 DEF CleanUp, Rethrow, Goto, TypeOK, Written, Open, Filled
    <2>3. CASE Insert(r)
      BY <2>0, <2>3 DEF Insert, Goto, TypeOK, stores, Written, Attached, Unopened, Open, Filled
    <2>4. CASE Upload(r)
      BY <2>0, <2>4 DEF Upload, Goto, TypeOK, Written, Attached, Open, Filled
    <2>5. CASE RecordEvidence(r)
      <3>1. NextFile(r)' = NextFile(r) + 1
        BY <2>0, <2>5, RecordAdvances
      <3>2. /\ disk' = disk /\ auditLog' = auditLog /\ uploaded'[r] = uploaded[r]
            /\ filed'[r] = filed[r] \cup {NextFile(r)} /\ pc[r] = "stored" /\ pc'[r] = "recorded"
        BY <2>5 DEF RecordEvidence, Goto, TypeOK, stores
      <3>3. (NextFile(r) + 1) - 1 = NextFile(r)
        BY <2>0, MaxFilesAssumption DEF Attached, TypeOK, Form
      <3> QED
        BY <2>0, <3>1, <3>2, <3>3 DEF Written, Open, Filled
    <2>6. CASE AuditEvidence(r)
      <3>1. NextFile(r)' = NextFile(r) /\ Cardinality(filed[r]) = NextFile(r) - 1
        <4>1. NextFile(r) \in Nat \ {0} /\ filed[r] = 1 .. (NextFile(r) - 1)
          BY <2>0, MaxFilesAssumption DEF Attached, TypeOK, Form
        <4> QED
          BY <2>6, <4>1, FS_Interval DEF AuditEvidence, NextFile
      <3> QED
        BY <2>0, <2>6, <3>1 DEF AuditEvidence, Goto, TypeOK, Written, Open, Filled
    <2>7. CASE AuditComplaint(r)
      BY <2>0, <2>7 DEF AuditComplaint, Goto, TypeOK, Written, NextFile, Open, Filled
    <2>8. CASE Enqueue(r)
      BY <2>0, <2>8 DEF Enqueue, Goto, TypeOK, Written, NextFile, Open, Filled
    <2>9. CASE Commit(r)
      BY <2>0, <2>9 DEF Commit, Publish, Goto, TypeOK, Written, NextFile, Open, Filled
    <2> QED
      BY <1>3, <2>1, <2>2, <2>3, <2>4, <2>5, <2>6, <2>7, <2>8, <2>9 DEF Proceed
  <1> QED
    BY <1>1, <1>2, <1>3 DEF Next, Quiescent

-----------------------------------------------------------------------------
(* What is committed, and what is on disk.                                  *)

LEMMA CommittedStep ==
  ASSUME TypeOK, AttachedInv, WrittenInv, CommittedInv, [Next]_vars
  PROVE  CommittedInv'
  <1>1. CASE UNCHANGED vars
    BY <1>1 DEF vars, stores, CommittedInv
  <1>2. CASE Crash
    BY <1>2 DEF Crash, stores, TypeOK, CommittedInv, InFlight, Open
  <1>3. ASSUME NEW r \in Requests,
               \/ \E f \in Form : LookUp(r, f)
               \/ Proceed(r) \/ UploadBreaks(r) \/ CommitUnanswered(r) \/ Fail(r)
        PROVE  CommittedInv'
    <2>1. CASE (\E f \in Form : LookUp(r, f)) \/ Insert(r) \/ DuplicateKey(r) \/ Fail(r)
               \/ RecordEvidence(r) \/ AuditEvidence(r) \/ AuditComplaint(r) \/ Enqueue(r)
               \/ Upload(r) \/ UploadBreaks(r)
      <3>1. /\ auditLog \subseteq auditLog' /\ disk \subseteq disk'
            /\ complaints' = complaints /\ evidence' = evidence
            /\ \A q \in Requests \ {r} :
                 pc'[q] = pc[q] /\ filed'[q] = filed[q] /\ uploaded'[q] = uploaded[q]
        BY <2>1 DEF LookUp, Insert, DuplicateKey, Fail, RecordEvidence, AuditEvidence,
                AuditComplaint, Enqueue, Upload, UploadBreaks, Goto, TypeOK, stores
      <3>2. pc[r] \in Open \cup {"idle", "looked"} /\ pc'[r] \in {"looked", "returned", "cleaning"} \cup Open
        BY <2>1 DEF LookUp, Insert, DuplicateKey, Fail, RecordEvidence, AuditEvidence,
                AuditComplaint, Enqueue, Upload, UploadBreaks, Goto, TypeOK, Open
      <3> QED
        BY <3>1, <3>2 DEF CommittedInv, Open, TypeOK
    <2>2. CASE Commit(r) \/ CommitUnanswered(r)
      <3>1. /\ disk' = disk /\ auditLog' = auditLog /\ pc[r] = "ready"
            /\ filed' = filed /\ uploaded' = uploaded
            /\ complaints' = complaints \cup {r} /\ evidence' = evidence \cup ({r} \X filed[r])
            /\ pc'[r] \in {"done", "cleaning"} /\ \A q \in Requests \ {r} : pc'[q] = pc[q]
        BY <2>2 DEF Commit, CommitUnanswered, Publish, Goto, TypeOK
      <3>2. \A i \in filed[r] : <<r, i>> \in disk /\ <<r, i>> \in auditLog
        BY <3>1 DEF WrittenInv, Written, AttachedInv, Attached, Open
      <3> QED
        BY <3>1, <3>2 DEF CommittedInv, TypeOK
    <2>3. CASE CleanUp(r)
      <3>1. /\ auditLog' = auditLog /\ filed' = filed /\ complaints' = complaints
            /\ evidence' = evidence /\ pc' = pc /\ pc[r] = "cleaning"
            /\ \A q \in Requests \ {r} : uploaded'[q] = uploaded[q]
        BY <2>3 DEF CleanUp, TypeOK
      <3>2. PICK j \in File : /\ uploaded'[r] = uploaded[r] \ {j}
                              /\ disk \ {<<r, j>>} \subseteq disk'
        BY <2>3 DEF CleanUp, TypeOK
      <3> QED
        BY <3>1, <3>2 DEF CommittedInv, TypeOK
    <2>4. CASE Rethrow(r)
      <3>1. /\ auditLog' = auditLog /\ filed' = filed /\ complaints' = complaints
            /\ evidence' = evidence /\ disk' = disk /\ uploaded' = uploaded
            /\ pc[r] = "cleaning" /\ pc'[r] = "failed"
            /\ \A q \in Requests \ {r} : pc'[q] = pc[q]
        BY <2>4 DEF Rethrow, Goto, TypeOK, stores
      <3> QED
        BY <3>1 DEF CommittedInv, TypeOK
    <2> QED
      BY <1>3, <2>1, <2>2, <2>3, <2>4 DEF Proceed
  <1> QED
    BY <1>1, <1>2, <1>3 DEF Next, Quiescent

LEMMA DiskStep ==
  ASSUME TypeOK, AttachedInv, CommittedInv, DiskInv, [Next]_vars
  PROVE  DiskInv'
  <1>1. CASE UNCHANGED vars
    BY <1>1 DEF vars, stores, DiskInv
  <1>2. CASE Crash
    BY <1>2 DEF Crash, stores, TypeOK, DiskInv, Ended
  <1>3. ASSUME NEW r \in Requests, NEW f \in Form, LookUp(r, f) PROVE DiskInv'
    <2>1. uploaded[r] = {}
      BY <1>3 DEF LookUp, AttachedInv, Attached, Unopened
    <2> QED
      BY <1>3, <2>1 DEF LookUp, stores, Goto, TypeOK, DiskInv
  <1>4. ASSUME NEW r \in Requests,
               \/ Insert(r) \/ DuplicateKey(r) \/ Fail(r)
               \/ RecordEvidence(r) \/ AuditEvidence(r) \/ AuditComplaint(r) \/ Enqueue(r)
        PROVE  DiskInv'
    BY <1>4 DEF Insert, DuplicateKey, Fail, RecordEvidence, AuditEvidence, AuditComplaint,
                Enqueue, Goto, stores, TypeOK, DiskInv, Ended
  <1>5. ASSUME NEW r \in Requests, Upload(r) PROVE DiskInv'
    BY <1>5 DEF Upload, Goto, TypeOK, DiskInv, Ended
  <1>6. ASSUME NEW r \in Requests, UploadBreaks(r) PROVE DiskInv'
    BY <1>6 DEF UploadBreaks, Goto, TypeOK, DiskInv, Ended
  <1>7. ASSUME NEW r \in Requests, Commit(r) \/ CommitUnanswered(r) PROVE DiskInv'
    <2>1. uploaded[r] = filed[r]
      BY <1>7 DEF Commit, CommitUnanswered, AttachedInv, Attached, Open
    <2> QED
      BY <1>7, <2>1 DEF Commit, CommitUnanswered, Publish, Goto, TypeOK, DiskInv, Ended
  <1>8. ASSUME NEW r \in Requests, CleanUp(r) PROVE DiskInv'
    <2>1. PICK j \in File :
          /\ evidence' = evidence /\ pc' = pc /\ pc[r] = "cleaning"
          /\ uploaded'[r] = uploaded[r] \ {j}
          /\ \A q \in Requests \ {r} : uploaded'[q] = uploaded[q]
          /\ disk' \subseteq disk /\ leaked \subseteq leaked'
          /\ <<r, j>> \in disk' => <<r, j>> \in leaked'
      BY <1>8 DEF CleanUp, TypeOK
    <2> QED
      BY <2>1 DEF DiskInv, Ended
  <1>9. ASSUME NEW r \in Requests, Rethrow(r) PROVE DiskInv'
    BY <1>9 DEF Rethrow, Goto, TypeOK, stores, DiskInv, Ended
  <1> QED
    BY <1>1, <1>2, <1>3, <1>4, <1>5, <1>6, <1>7, <1>8, <1>9 DEF Next, Proceed, Quiescent

-----------------------------------------------------------------------------
(* Keys and answers.                                                        *)

LEMMA KeyStep ==
  ASSUME TypeOK, CommittedInv, KeyInv, [Next]_vars
  PROVE  KeyInv'
  <1>1. CASE UNCHANGED vars
    BY <1>1 DEF vars, stores, KeyInv, SameKey, Answered
  <1>2. CASE Crash
    BY <1>2 DEF Crash, stores, TypeOK, KeyInv, SameKey, Answered, InFlight, Open
  <1>3. ASSUME NEW r \in Requests, NEW f \in Form, LookUp(r, f) PROVE KeyInv'
    <2>1. /\ complaints' = complaints /\ pc[r] = "idle" /\ pc'[r] \in {"looked", "returned"}
          /\ form'[r] = f
          /\ \A q \in Requests \ {r} :
               pc'[q] = pc[q] /\ form'[q] = form[q] /\ answer'[q] = answer[q]
      BY <1>3 DEF LookUp, Goto, stores, TypeOK
    <2>2. r \notin complaints /\ complaints \subseteq Requests
      BY <2>1 DEF CommittedInv, TypeOK
    <2>3. pc'[r] = "returned" =>
            answer'[r] \in complaints /\ form[answer'[r]].key = f.key /\ f.key # None
      BY <1>3 DEF LookUp, Goto, TypeOK, Keyed
    <2>4. \A q, p \in Requests :
            (q \in complaints' \/ pc'[q] \in Open) /\ (p \in complaints' \/ pc'[p] \in Open)
            /\ SameKey(q, p)' => q = p
      BY <2>1, <2>2 DEF KeyInv, SameKey, Open
    <2>5. ASSUME NEW q \in Requests, Answered(q)'
          PROVE  /\ answer'[q] \in complaints' /\ form'[answer'[q]].key = form'[q].key
                 /\ pc'[q] = "returned" => form'[q].key # None
      <3>1. CASE q = r
        BY <2>1, <2>2, <2>3, <2>5, <3>1 DEF Answered
      <3>2. CASE q # r
        BY <2>1, <2>2, <2>5, <3>2 DEF KeyInv, Answered
      <3> QED
        BY <3>1, <3>2
    <2> QED
      BY <2>4, <2>5 DEF KeyInv
  <1>4. ASSUME NEW r \in Requests, Insert(r) PROVE KeyInv'
    <2>1. /\ complaints' = complaints /\ form' = form /\ answer' = answer
          /\ pc[r] = "looked" /\ pc'[r] = "inserted"
          /\ \A q \in Requests \ {r} : pc'[q] = pc[q]
      BY <1>4 DEF Insert, Goto, stores, TypeOK
    <2>2. \A q \in Requests \ {r} : q \in complaints \/ pc[q] \in Open => ~SameKey(q, r)
      BY <1>4 DEF Insert, KeyIsHeld, Keyed, SameKey
    <2> QED
      BY <2>1, <2>2 DEF KeyInv, SameKey, Answered, TypeOK
  <1>5. ASSUME NEW r \in Requests,
               \/ DuplicateKey(r) \/ Fail(r) \/ Upload(r) \/ UploadBreaks(r)
               \/ RecordEvidence(r) \/ AuditEvidence(r) \/ AuditComplaint(r) \/ Enqueue(r)
               \/ CleanUp(r) \/ Rethrow(r)
        PROVE  KeyInv'
    <2>1. /\ complaints' = complaints /\ form' = form /\ answer' = answer
          /\ ~Answered(r)'
          /\ pc'[r] \in Open => pc[r] \in Open
          /\ \A q \in Requests \ {r} : pc'[q] = pc[q]
      BY <1>5 DEF DuplicateKey, Fail, Upload, UploadBreaks, RecordEvidence, AuditEvidence,
                  AuditComplaint, Enqueue, CleanUp, Rethrow, Goto, stores, TypeOK, Answered, Open
    <2> QED
      BY <2>1 DEF KeyInv, SameKey, Answered, TypeOK
  <1>6. ASSUME NEW r \in Requests, Commit(r) \/ CommitUnanswered(r) PROVE KeyInv'
    <2>1. /\ complaints' = complaints \cup {r} /\ form' = form
          /\ pc[r] \in Open /\ pc'[r] \in {"done", "cleaning"}
          /\ pc'[r] = "done" => answer'[r] = r
          /\ \A q \in Requests \ {r} : pc'[q] = pc[q] /\ answer'[q] = answer[q]
      BY <1>6 DEF Commit, CommitUnanswered, Publish, Goto, TypeOK, Open
    <2> QED
      BY <2>1 DEF KeyInv, SameKey, Answered, TypeOK, Open
  <1> QED
    BY <1>1, <1>2, <1>3, <1>4, <1>5, <1>6 DEF Next, Proceed, Quiescent

-----------------------------------------------------------------------------
(* The invariant, and what it says of the properties.                       *)

LEMMA SubmissionInit == Init => SubmissionInv
  <1> SUFFICES ASSUME Init PROVE SubmissionInv
    OBVIOUS
  <1>1. \A r \in Requests : NextFile(r) = 1
    BY FS_EmptySet DEF Init, NextFile
  <1>2. AttachedInv
    BY <1>1 DEF Init, AttachedInv, Attached, Unopened, Open, Filled
  <1>3. WrittenInv
    BY DEF Init, WrittenInv, Written, Open, Filled
  <1> QED
    BY <1>2, <1>3, InitType
    DEF Init, SubmissionInv, CommittedInv, DiskInv, KeyInv, Answered, Open

LEMMA SubmissionStep == SubmissionInv /\ [Next]_vars => SubmissionInv'
  BY NextType, AttachedStep, WrittenStep, CommittedStep, DiskStep, KeyStep DEF SubmissionInv

LEMMA SubmissionInvariant == Spec => []SubmissionInv
  BY SubmissionInit, SubmissionStep, PTL DEF Spec

\* Every variable of a submission keeps its type: no file beyond MaxFiles, no
\* stage outside create()'s.
THEOREM TypeCorrect == Spec => []TypeOK
  <1>1. SubmissionInv => TypeOK
    BY DEF SubmissionInv
  <1> QED
    BY <1>1, SubmissionInvariant, PTL

\* Submissions under one idempotency key that are answered, in whatever
\* overlap of create(), get the same complaint.
THEOREM OneAnswerPerKey == Spec => []SameKeySameAnswer
  <1>1. SubmissionInv => SameKeySameAnswer
    BY DEF SubmissionInv, KeyInv, SameKey, SameKeySameAnswer, TypeOK
  <1> QED
    BY <1>1, SubmissionInvariant, PTL

\* A complaint whose creator was answered is committed with every file of the
\* form, and its audit rows and jobs are there.
THEOREM AnswerIsComplete == Spec => []AcknowledgedComplete
  <1>1. ASSUME SubmissionInv PROVE AcknowledgedComplete
    <2> SUFFICES ASSUME NEW r \in Requests, pc[r] = "done"
                 PROVE  /\ r \in complaints
                        /\ \A i \in 1 .. form[r].files :
                             <<r, i>> \in evidence \cap disk \cap auditLog
                        /\ <<r, 0>> \in auditLog
                        /\ {"classify-complaint", "complaint-submitted"} \X {r} \subseteq queue
      BY DEF AcknowledgedComplete
    <2>1. Attached(r) /\ Written(r)
      BY <1>1 DEF SubmissionInv, AttachedInv, WrittenInv
    <2>2. filed[r] = 1 .. form[r].files /\ uploaded[r] = filed[r]
      <3>1. form[r].files \in Nat /\ NextFile(r) = form[r].files + 1
        BY <1>1, <2>1, MaxFilesAssumption DEF SubmissionInv, TypeOK, Form, Attached, Filled
      <3> QED
        BY <2>1, <3>1 DEF Attached
    <2>3. r \in complaints /\ \A i \in filed[r] : <<r, i>> \in evidence
      BY <1>1 DEF SubmissionInv, CommittedInv
    <2> QED
      BY <2>1, <2>2, <2>3 DEF Written, Filled
  <1> QED
    BY <1>1, SubmissionInvariant, PTL

\* A committed evidence row has its audit row, and its file until the loop of
\* cleanupUploadedFiles, run after an unanswered COMMIT, has come to that file.
THEOREM EvidenceIsBacked == Spec => []EvidenceHasFile
  <1>1. SubmissionInv => EvidenceHasFile
    BY DEF SubmissionInv, CommittedInv, TypeOK, EvidenceHasFile
  <1> QED
    BY <1>1, SubmissionInvariant, PTL

\* cleanupUploadedFiles leaves no file that neither a row, nor a request at
\* work, nor a failed write or delete explains.
THEOREM NoOrphanFiles == Spec => []FilesAccounted
  <1>1. SubmissionInv => FilesAccounted
    <2> SUFFICES ASSUME SubmissionInv, NEW r \in Requests, NEW i \in File, <<r, i>> \in disk
                 PROVE  <<r, i>> \in evidence \cup leaked \/ pc[r] \in InFlight \cup {"crashed"}
      BY DEF SubmissionInv, TypeOK, FilesAccounted
    <2>1. pc[r] # "idle" \/ <<r, i>> \in leaked
      BY DEF SubmissionInv, DiskInv, AttachedInv, Attached, Unopened
    <2> QED
      BY <2>1 DEF SubmissionInv, DiskInv, TypeOK, Ended
  <1> QED
    BY <1>1, SubmissionInvariant, PTL

-----------------------------------------------------------------------------
(* When a retry is safe: as long as every COMMIT that takes effect is        *)
(* answered, or the process dies before it could go on.                     *)

Replied == Next /\ \A r \in Requests : ~CommitUnanswered(r)

\* Whoever has committed evidence has been answered, and never cleans up.
LEMMA CommittedEndsStep ==
  ASSUME TypeOK, \A e \in evidence : pc[e[1]] = "done", [Replied]_vars
  PROVE  (\A e \in evidence : pc[e[1]] = "done")'
  <1>1. CASE UNCHANGED vars
    BY <1>1 DEF vars, stores
  <1>2. CASE Crash
    BY <1>2 DEF Crash, stores, TypeOK, InFlight, Open
  <1>3. ASSUME NEW r \in Requests,
               \/ \E f \in Form : LookUp(r, f)
               \/ Insert(r) \/ DuplicateKey(r) \/ Fail(r) \/ Upload(r) \/ UploadBreaks(r)
               \/ RecordEvidence(r) \/ AuditEvidence(r) \/ AuditComplaint(r) \/ Enqueue(r)
               \/ CleanUp(r) \/ Rethrow(r)
        PROVE  (\A e \in evidence : pc[e[1]] = "done")'
    <2>1. /\ evidence' = evidence /\ pc[r] # "done"
          /\ \A q \in Requests \ {r} : pc'[q] = pc[q]
      BY <1>3 DEF LookUp, Insert, DuplicateKey, Fail, Upload, UploadBreaks, RecordEvidence,
              AuditEvidence, AuditComplaint, Enqueue, CleanUp, Rethrow, Goto, stores, TypeOK,
              Open
    <2> QED
      BY <2>1 DEF TypeOK
  <1>4. ASSUME NEW r \in Requests, Commit(r)
        PROVE  (\A e \in evidence : pc[e[1]] = "done")'
    <2>1. /\ evidence' = evidence \cup ({r} \X filed[r])
          /\ pc'[r] = "done" /\ \A q \in Requests \ {r} : pc'[q] = pc[q]
      BY <1>4 DEF Commit, Publish, Goto, TypeOK
    <2>2. \A e \in evidence' : e \in evidence \/ e[1] = r
      BY <2>1
    <2> QED
      BY <2>1, <2>2 DEF TypeOK
  <1> QED
    BY <1>1, <1>2, <1>3, <1>4 DEF Replied, Next, Proceed, Quiescent

\* Crashes, failures at every statement and overlaps under one key do a retry no
\* harm: the evidence of the complaint it is answered with is there, unless a
\* COMMIT took effect without its reply.
THEOREM RetryIsSafeWhenReplied == Init /\ [][Replied]_vars => []SafeRetry
  <1> DEFINE Committed == \A e \in evidence : pc[e[1]] = "done"
  <1>1. Init => Committed
    BY DEF Init
  <1>2. TypeOK /\ Committed /\ [Replied]_vars => Committed'
    BY CommittedEndsStep
  <1>3. [Replied]_vars => [Next]_vars
    BY DEF Replied
  <1>4. TypeOK /\ EvidenceHasFile /\ Committed => SafeRetry
    BY DEF EvidenceHasFile, SafeRetry, TypeOK
  <1>5. Init /\ [][Replied]_vars => Spec
    BY <1>3, PTL DEF Spec
  <1> HIDE DEF Committed
  <1> QED
    BY <1>1, <1>2, <1>4, <1>5, TypeCorrect, EvidenceIsBacked, PTL

=============================================================================

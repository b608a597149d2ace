------------------------- MODULE ComplaintSubmission -------------------------
(***************************************************************************)
(* ComplaintsService.create: one request stores a complaint, its first      *)
(* history row and its evidence in a transaction, while files go to the     *)
(* disk, audit rows through another connection and jobs to Redis at once.   *)
(* The transaction may fail anywhere, the reply to its COMMIT may be lost,  *)
(* and the process may die; the client may submit again under the same      *)
(* idempotency key.                                                         *)
(***************************************************************************)
EXTENDS Naturals, FiniteSets

CONSTANTS
  Requests,   \* submissions; a complaint is named by the one that created it
  Keys,       \* idempotency keys
  None,       \* no key, no answer
  MaxFiles    \* attachments of one submission, at most

ASSUME NoneAssumption == None \notin Keys /\ None \notin Requests
ASSUME MaxFilesAssumption == MaxFiles \in Nat

VARIABLES
  complaints,  \* committed complaints, each with its first history row
  evidence,    \* committed evidence rows, each with its "uploaded" custody row
  disk,        \* files in the storage directory
  auditLog,    \* audit rows: <<complaint, 0>>, and <<complaint, file>>
  queue,       \* jobs added to the two queues
  pc,          \* where each request is
  form,        \* what each request submits
  uploaded,    \* the request's uploadedPaths, less those cleaned up
  filed,       \* files whose evidence row the open transaction holds
  answer,      \* the complaint a request was answered with
  leaked       \* files a failed write or a failed delete has left (history)

stores == <<complaints, evidence, disk, auditLog, queue>>
vars == <<stores, pc, form, uploaded, filed, answer, leaked>>

-----------------------------------------------------------------------------

File == 1 .. MaxFiles
Form == [key : Keys \cup {None}, files : 0 .. MaxFiles]

\* Stages in which the request's transaction is open and holds its key.
Open == {"inserted", "stored", "recorded", "logged", "classified", "ready"}
InFlight == Open \cup {"looked", "cleaning"}
Ended == {"done", "returned", "failed", "crashed"}

TypeOK ==
  /\ complaints \subseteq Requests
  /\ evidence \subseteq Requests \X File
  /\ disk \subseteq Requests \X File
  /\ auditLog \subseteq Requests \X (0 .. MaxFiles)
  /\ queue \subseteq {"classify-complaint", "complaint-submitted"} \X Requests
  /\ pc \in [Requests -> {"idle"} \cup InFlight \cup Ended]
  /\ form \in [Requests -> Form]
  /\ uploaded \in [Requests -> SUBSET File]
  /\ filed \in [Requests -> SUBSET File]
  /\ answer \in [Requests -> Requests \cup {None}]
  /\ leaked \subseteq Requests \X File

Init ==
  /\ complaints = {} /\ evidence = {} /\ disk = {} /\ auditLog = {} /\ queue = {}
  /\ pc = [r \in Requests |-> "idle"]
  /\ form = [r \in Requests |-> [key |-> None, files |-> 0]]
  /\ uploaded = [r \in Requests |-> {}]
  /\ filed = [r \in Requests |-> {}]
  /\ answer = [r \in Requests |-> None]
  /\ leaked = {}

Goto(r, stage) == pc' = [pc EXCEPT ![r] = stage]

\* The committed complaints that carry key k.
Keyed(k) == {c \in complaints : k # None /\ form[c].key = k}

-----------------------------------------------------------------------------
(* The idempotency check and the first INSERT.                              *)

\* findOne by key: a complaint that is there is the answer.
LookUp(r, f) ==
  /\ pc[r] = "idle"
  /\ form' = [form EXCEPT ![r] = f]
  /\ \/ /\ Keyed(f.key) = {}
        /\ Goto(r, "looked")
        /\ UNCHANGED answer
     \/ \E c \in Keyed(f.key) :
          /\ answer' = [answer EXCEPT ![r] = c]
          /\ Goto(r, "returned")
  /\ UNCHANGED <<stores, uploaded, filed, leaked>>

\* Another open transaction has inserted the same key.
KeyIsHeld(r) ==
  \E q \in Requests \ {r} :
    pc[q] \in Open /\ form[r].key # None /\ form[q].key = form[r].key

\* Faulty variant of Insert: the key column has no unique index.
InsertAnyway(r) ==
  /\ pc[r] = "looked"
  /\ Goto(r, "inserted")
  /\ UNCHANGED <<stores, form, uploaded, filed, answer, leaked>>

\* BEGIN, and the INSERT of the complaint, its history row and its officer
\* links; the unique index makes it wait for another holder of the key.
Insert(r) ==
  /\ pc[r] = "looked"
  /\ ~KeyIsHeld(r) /\ Keyed(form[r].key) = {}
  /\ Goto(r, "inserted")
  /\ UNCHANGED <<stores, form, uploaded, filed, answer, leaked>>

\* Faulty variant of DuplicateKey: no error, so the INSERT waits on.
DuplicateKeyWaits(r) ==
  /\ pc[r] = "looked" /\ Keyed(form[r].key) # {}
  /\ UNCHANGED vars

\* The unique index rejects the INSERT: the error reaches the client.
DuplicateKey(r) ==
  /\ pc[r] = "looked" /\ Keyed(form[r].key) # {}
  /\ Goto(r, "cleaning")
  /\ UNCHANGED <<stores, form, uploaded, filed, answer, leaked>>

-----------------------------------------------------------------------------
(* attachEvidenceFiles: one file after the other.                           *)

NextFile(r) == Cardinality(filed[r]) + 1

\* Faulty variant of Upload: the loop runs once too often.
UploadOneMore(r) ==
  /\ pc[r] = "inserted" /\ NextFile(r) <= form[r].files + 1
  /\ disk' = disk \cup {<<r, NextFile(r)>>}
  /\ uploaded' = [uploaded EXCEPT ![r] = @ \cup {NextFile(r)}]
  /\ Goto(r, "stored")
  /\ UNCHANGED <<complaints, evidence, auditLog, queue, form, filed, answer, leaked>>

\* The file passes validateUploadedFile, is written and noted for clean-up.
Upload(r) ==
  /\ pc[r] = "inserted" /\ NextFile(r) <= form[r].files
  /\ disk' = disk \cup {<<r, NextFile(r)>>}
  /\ uploaded' = [uploaded EXCEPT ![r] = @ \cup {NextFile(r)}]
  /\ Goto(r, "stored")
  /\ UNCHANGED <<complaints, evidence, auditLog, queue, form, filed, answer, leaked>>

\* writeFileSync throws part-way: the path is not noted, the part stays.
UploadBreaks(r) ==
  /\ pc[r] = "inserted" /\ NextFile(r) <= form[r].files
  /\ disk' = disk \cup {<<r, NextFile(r)>>}
  /\ leaked' = leaked \cup {<<r, NextFile(r)>>}
  /\ Goto(r, "cleaning")
  /\ UNCHANGED <<complaints, evidence, auditLog, queue, form, uploaded, filed, answer>>

\* The evidence row and its custody row join the transaction.
RecordEvidence(r) ==
  /\ pc[r] = "stored"
  /\ filed' = [filed EXCEPT ![r] = @ \cup {NextFile(r)}]
  /\ Goto(r, "recorded")
  /\ UNCHANGED <<stores, form, uploaded, answer, leaked>>

\* The audit row of the file, autocommitted on its own connection.
AuditEvidence(r) ==
  /\ pc[r] = "recorded"
  /\ auditLog' = auditLog \cup {<<r, Cardinality(filed[r])>>}
  /\ Goto(r, "inserted")
  /\ UNCHANGED <<complaints, evidence, disk, queue, form, uploaded, filed, answer, leaked>>

-----------------------------------------------------------------------------
(* Audit row, jobs, and the end of the transaction.                         *)

\* Faulty variant of AuditComplaint: a file is still to be attached.
AuditComplaintEarly(r) ==
  /\ pc[r] = "inserted"
  /\ auditLog' = auditLog \cup {<<r, 0>>}
  /\ Goto(r, "logged")
  /\ UNCHANGED <<complaints, evidence, disk, queue, form, uploaded, filed, answer, leaked>>

AuditComplaint(r) ==
  /\ pc[r] = "inserted" /\ NextFile(r) > form[r].files
  /\ auditLog' = auditLog \cup {<<r, 0>>}
  /\ Goto(r, "logged")
  /\ UNCHANGED <<complaints, evidence, disk, queue, form, uploaded, filed, answer, leaked>>

\* aiQueue.add, then notificationQueue.add.
Enqueue(r) ==
  \E step \in {<<"logged", "classify-complaint", "classified">>,
               <<"classified", "complaint-submitted", "ready">>} :
    /\ pc[r] = step[1]
    /\ queue' = queue \cup {<<step[2], r>>}
    /\ Goto(r, step[3])
    /\ UNCHANGED <<complaints, evidence, disk, auditLog, form, uploaded, filed,
                   answer, leaked>>

\* What a COMMIT makes visible.
Publish(r) ==
  /\ complaints' = complaints \cup {r}
  /\ evidence' = evidence \cup ({r} \X filed[r])
  /\ UNCHANGED <<disk, auditLog, queue, form, uploaded, filed, leaked>>

\* Faulty variant of Commit: the clean-up stands in a finally, and runs always.
CommitThenCleanUp(r) ==
  /\ pc[r] = "ready"
  /\ complaints' = complaints \cup {r}
  /\ evidence' = evidence \cup ({r} \X filed[r])
  /\ disk' = disk \ ({r} \X uploaded[r])
  /\ answer' = [answer EXCEPT ![r] = r]
  /\ Goto(r, "done")
  /\ UNCHANGED <<auditLog, queue, form, uploaded, filed, leaked>>

Commit(r) ==
  /\ pc[r] = "ready"
  /\ Publish(r)
  /\ answer' = [answer EXCEPT ![r] = r]
  /\ Goto(r, "done")

\* The COMMIT took effect, but its reply never arrives: create() sees an
\* error like any other.
CommitUnanswered(r) ==
  /\ pc[r] = "ready"
  /\ Publish(r)
  /\ Goto(r, "cleaning")
  /\ UNCHANGED answer

\* A file is refused, a statement, the audit insert or the queue fails: the
\* transaction is rolled back before the files are cleaned up.
Fail(r) ==
  /\ pc[r] \in Open \cup {"looked"}
  /\ Goto(r, "cleaning")
  /\ UNCHANGED <<stores, form, uploaded, filed, answer, leaked>>

\* The path noted first among those the clean-up has still to come to.
NotedFirst(r, i) == i \in uploaded[r] /\ \A j \in uploaded[r] : i <= j

\* Faulty variant of CleanUp: the path is passed over.
CleanUpNothing(r) ==
  /\ pc[r] = "cleaning"
  /\ \E i \in File : NotedFirst(r, i) /\ uploaded' = [uploaded EXCEPT ![r] = @ \ {i}]
  /\ UNCHANGED <<stores, pc, form, filed, answer, leaked>>

\* One turn of the loop of cleanupUploadedFiles: the first path still noted is
\* deleted, or cannot be, which is only logged. A request that is cleaning up
\* notes in uploaded what the loop has still to come to.
CleanUp(r) ==
  /\ pc[r] = "cleaning"
  /\ \E i \in File :
       /\ NotedFirst(r, i)
       /\ uploaded' = [uploaded EXCEPT ![r] = @ \ {i}]
       /\ \/ disk' = disk \ {<<r, i>>} /\ UNCHANGED leaked
          \/ leaked' = leaked \cup {<<r, i>>} /\ UNCHANGED disk
  /\ UNCHANGED <<complaints, evidence, auditLog, queue, pc, form, filed, answer>>

\* After the last path the error is thrown again, and reaches the client.
Rethrow(r) ==
  /\ pc[r] = "cleaning" /\ uploaded[r] = {}
  /\ Goto(r, "failed")
  /\ UNCHANGED <<stores, form, uploaded, filed, answer, leaked>>

\* The process dies with every request in it; PostgreSQL rolls back.
Crash ==
  /\ \E r \in Requests : pc[r] \in InFlight
  /\ pc' = [r \in Requests |-> IF pc[r] \in InFlight THEN "crashed" ELSE pc[r]]
  /\ UNCHANGED <<stores, form, uploaded, filed, answer, leaked>>

Proceed(r) ==
  \/ Insert(r) \/ DuplicateKey(r)
  \/ Upload(r) \/ RecordEvidence(r) \/ AuditEvidence(r)
  \/ AuditComplaint(r) \/ Enqueue(r) \/ Commit(r) \/ CleanUp(r) \/ Rethrow(r)

Quiescent == (\A r \in Requests : pc[r] \in Ended) /\ UNCHANGED vars

Next ==
  \/ \E r \in Requests :
       \/ \E f \in Form : LookUp(r, f)
       \/ Proceed(r)
       \/ UploadBreaks(r) \/ CommitUnanswered(r) \/ Fail(r)
  \/ Crash
  \/ Quiescent

Spec == Init /\ [][Next]_vars
FairSpec == Spec /\ \A r \in Requests : WF_vars(Proceed(r))

-----------------------------------------------------------------------------
(* Properties.                                                              *)

Answered(r) == pc[r] \in {"done", "returned"}

\* Two submissions under one key that are both answered get the same complaint,
\* however they overlap, fail and are repeated.
SameKeySameAnswer ==
  \A q, r \in Requests :
    Answered(q) /\ Answered(r) /\ form[q].key = form[r].key /\ form[r].key # None
      => answer[q] = answer[r]

\* What the creator of a complaint was told is true: the complaint is committed
\* with every file of the form, each on disk, audited, and both jobs queued.
AcknowledgedComplete ==
  \A r \in Requests : pc[r] = "done" =>
    /\ r \in complaints
    /\ \A i \in 1 .. form[r].files :
         <<r, i>> \in evidence \cap disk \cap auditLog
    /\ <<r, 0>> \in auditLog
    /\ {"classify-complaint", "complaint-submitted"} \X {r} \subseteq queue

\* A file on disk belongs to an evidence row or to a request still at work;
\* only a crash, a broken write or a failed delete leaves one behind.
FilesAccounted ==
  \A f \in disk :
    \/ f \in evidence \cup leaked
    \/ pc[f[1]] \in InFlight \cup {"crashed"}

\* Every evidence row has its audit row, and its file until the clean-up after an
\* error has come to just that file: whatever fails before, and wherever the
\* process dies, no other step takes a committed row's file away.
EvidenceHasFile ==
  \A e \in evidence :
    /\ e \in auditLog
    /\ \/ e \in disk
       \/ pc[e[1]] \in {"cleaning", "failed", "crashed"} /\ e[2] \notin uploaded[e[1]]

\* Every submission is answered, or dies with the process: waiting for another
\* holder of the key ends.
EverySubmissionEnds == \A r \in Requests : pc[r] \in InFlight ~> pc[r] \in Ended

\* A submission repeated under its key and answered with a complaint finds that
\* complaint with its evidence.
SafeRetry ==
  \A q \in Requests : pc[q] = "returned" =>
    \A e \in evidence : e[1] = answer[q] => e \in disk

=============================================================================

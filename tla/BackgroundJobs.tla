--------------------------- MODULE BackgroundJobs ---------------------------
(***************************************************************************)
(* The two queues that ComplaintsService feeds and their workers:           *)
(* NotificationProcessor, and AiAnalysisProcessor for the job that create() *)
(* adds.  A job is added while its complaint's transaction is open; BullMQ  *)
(* hands it to the worker of its queue, one at a time, retries it with a    *)
(* delay while attempts are left, and takes it back when the process dies   *)
(* under it.  (OVERDUE_CHECK has a worker, but nothing adds a job to it.)   *)
(***************************************************************************)
EXTENDS Naturals, FiniteSets

CONSTANTS
  Jobs,        \* one job of one complaint each
  Attempts,    \* defaultJobOptions.attempts
  MaxStalled   \* BullMQ's maxStalledCount

ASSUME AttemptsAssumption == Attempts \in Nat \ {0}
ASSUME MaxStalledAssumption == MaxStalled \in Nat

VARIABLES
  complaint,  \* the transaction of the job's complaint
  kind,       \* the job's name
  state,      \* where BullMQ has the job
  attempts,   \* attemptsMade
  stalls,     \* its stalled counter
  step,       \* where its worker is
  rows,       \* rows of notifications: <<job, run>>
  sent        \* those with status SENT

vars == <<complaint, kind, state, attempts, stalls, step, rows, sent>>
outcome == <<rows, sent>>

-----------------------------------------------------------------------------

State == {"none", "waiting", "active", "stalled", "delayed", "completed", "failed"}
Finished == {"completed", "failed"}
Kind == {"notification", "classify-complaint"}

\* The run a job is in: it is handed out again after an attempt or a stall.
Run(j) == attempts[j] + stalls[j]

Runs == 0 .. (Attempts + MaxStalled)

TypeOK ==
  /\ complaint \in [Jobs -> {"open", "committed", "rolled back"}]
  /\ kind \in [Jobs -> Kind]
  /\ state \in [Jobs -> State]
  /\ attempts \in [Jobs -> 0 .. Attempts]
  /\ stalls \in [Jobs -> 0 .. (MaxStalled + 1)]
  /\ step \in [Jobs -> {"start", "created", "returned", "thrown"}]
  /\ rows \subseteq Jobs \X Runs
  /\ sent \subseteq rows

Init ==
  /\ complaint = [j \in Jobs |-> "open"]
  /\ kind \in [Jobs -> Kind]
  /\ state = [j \in Jobs |-> "none"]
  /\ attempts = [j \in Jobs |-> 0]
  /\ stalls = [j \in Jobs |-> 0]
  /\ step = [j \in Jobs |-> "start"]
  /\ rows = {} /\ sent = {}

-----------------------------------------------------------------------------
(* The transaction that adds a job.                                         *)

\* queue.add, inside the transaction.
Add(j) ==
  /\ state[j] = "none" /\ complaint[j] = "open"
  /\ state' = [state EXCEPT ![j] = "waiting"]
  /\ UNCHANGED <<complaint, kind, attempts, stalls, step, outcome>>

\* COMMIT comes after the job was added, ROLLBACK at any time.
EndTransaction(j) ==
  /\ complaint[j] = "open"
  /\ \/ complaint' = [complaint EXCEPT ![j] = "rolled back"]
     \/ /\ state[j] # "none"
        /\ complaint' = [complaint EXCEPT ![j] = "committed"]
  /\ UNCHANGED <<kind, state, attempts, stalls, step, outcome>>

-----------------------------------------------------------------------------
(* The workers.                                                             *)

\* A worker runs one job at a time.
Take(j) ==
  /\ state[j] = "waiting"
  /\ \A i \in Jobs : kind[i] = kind[j] => state[i] # "active"
  /\ state' = [state EXCEPT ![j] = "active"]
  /\ step' = [step EXCEPT ![j] = "start"]
  /\ UNCHANGED <<complaint, kind, attempts, stalls, outcome>>

At(j, k, s) == state[j] = "active" /\ kind[j] = k /\ step[j] = s

\* NotificationsService.create: a pending row, whatever became of earlier runs.
Create(j) ==
  /\ At(j, "notification", "start")
  /\ rows' = rows \cup {<<j, Run(j)>>}
  /\ step' = [step EXCEPT ![j] = "created"]
  /\ UNCHANGED <<complaint, kind, state, attempts, stalls, sent>>

\* NotificationsService.markSent.
MarkSent(j) ==
  /\ At(j, "notification", "created")
  /\ sent' = sent \cup {<<j, Run(j)>>}
  /\ step' = [step EXCEPT ![j] = "returned"]
  /\ UNCHANGED <<complaint, kind, state, attempts, stalls, rows>>

\* Faulty variant of Throw: the error is logged and swallowed.
Swallow(j) ==
  /\ state[j] = "active" /\ kind[j] = "notification"
  /\ step[j] \in {"start", "created"}
  /\ step' = [step EXCEPT ![j] = "returned"]
  /\ UNCHANGED <<complaint, kind, state, attempts, stalls, outcome>>

\* A statement of the worker fails, before or after it took effect: the error
\* is logged and thrown on to BullMQ.
Throw(j) ==
  /\ state[j] = "active" /\ step[j] \in {"start", "created"}
  /\ \/ UNCHANGED outcome
     \/ /\ kind[j] = "notification" /\ step[j] = "start"
        /\ rows' = rows \cup {<<j, Run(j)>>} /\ UNCHANGED sent
     \/ /\ kind[j] = "notification" /\ step[j] = "created"
        /\ sent' = sent \cup {<<j, Run(j)>>} /\ UNCHANGED rows
  /\ step' = [step EXCEPT ![j] = "thrown"]
  /\ UNCHANGED <<complaint, kind, state, attempts, stalls>>

\* AiAnalysisProcessor: a complaint that cannot be read (yet) is skipped; for
\* one that can, iterating over the analysisTypes that create() did not send
\* throws a TypeError.
Classify(j) ==
  /\ At(j, "classify-complaint", "start")
  /\ step' = [step EXCEPT ![j] =
                IF complaint[j] = "committed" THEN "thrown" ELSE "returned"]
  /\ UNCHANGED <<complaint, kind, state, attempts, stalls, outcome>>

-----------------------------------------------------------------------------
(* BullMQ.                                                                  *)

Complete(j) ==
  /\ state[j] = "active" /\ step[j] = "returned"
  /\ state' = [state EXCEPT ![j] = "completed"]
  /\ UNCHANGED <<complaint, kind, attempts, stalls, step, outcome>>

\* Faulty variants of Retry: one attempt too many, and attempts not counted.
RetryOnceMore(j) ==
  /\ state[j] = "active" /\ step[j] = "thrown"
  /\ attempts' = [attempts EXCEPT ![j] = @ + 1]
  /\ state' = [state EXCEPT ![j] =
                 IF attempts[j] + 1 <= Attempts THEN "delayed" ELSE "failed"]
  /\ UNCHANGED <<complaint, kind, stalls, step, outcome>>

RetryForEver(j) ==
  /\ state[j] = "active" /\ step[j] = "thrown"
  /\ state' = [state EXCEPT ![j] = "delayed"]
  /\ UNCHANGED <<complaint, kind, attempts, stalls, step, outcome>>

\* An attempt has failed: the job is delayed, or failed with its last one.
Retry(j) ==
  /\ state[j] = "active" /\ step[j] = "thrown"
  /\ attempts' = [attempts EXCEPT ![j] = @ + 1]
  /\ state' = [state EXCEPT ![j] =
                 IF attempts[j] + 1 < Attempts THEN "delayed" ELSE "failed"]
  /\ UNCHANGED <<complaint, kind, stalls, step, outcome>>

\* The delay is over.
Promote(j) ==
  /\ state[j] = "delayed"
  /\ state' = [state EXCEPT ![j] = "waiting"]
  /\ UNCHANGED <<complaint, kind, attempts, stalls, step, outcome>>

\* The process dies, with it every open transaction, and is started again.
Crash ==
  /\ \E j \in Jobs : state[j] = "active"
  /\ complaint' = [j \in Jobs |->
       IF complaint[j] = "open" THEN "rolled back" ELSE complaint[j]]
  /\ state' = [j \in Jobs |-> IF state[j] = "active" THEN "stalled" ELSE state[j]]
  /\ UNCHANGED <<kind, attempts, stalls, step, outcome>>

\* The lock of a job whose worker is gone has expired.
Recover(j) ==
  /\ state[j] = "stalled"
  /\ stalls' = [stalls EXCEPT ![j] = @ + 1]
  /\ state' = [state EXCEPT ![j] =
                 IF stalls[j] + 1 > MaxStalled THEN "failed" ELSE "waiting"]
  /\ UNCHANGED <<complaint, kind, attempts, step, outcome>>

Proceed(j) ==
  \/ Create(j) \/ MarkSent(j) \/ Classify(j)
  \/ Complete(j) \/ Retry(j) \/ Promote(j) \/ Recover(j)

Quiescent ==
  /\ \A j \in Jobs : state[j] \in Finished \cup {"none"} /\ complaint[j] # "open"
  /\ UNCHANGED vars

Next ==
  \/ \E j \in Jobs :
       Add(j) \/ EndTransaction(j) \/ Take(j) \/ Proceed(j) \/ Throw(j)
  \/ Crash
  \/ Quiescent

Spec == Init /\ [][Next]_vars

\* The process is restarted when it dies, BullMQ's timers run, and a worker
\* that is free again and again takes every job at last (the list is FIFO).
FairSpec ==
  /\ Spec
  /\ \A j \in Jobs : WF_vars(Proceed(j)) /\ SF_vars(Take(j))

-----------------------------------------------------------------------------
(* Properties.                                                              *)

\* A completed notification job has told the citizen: the run that BullMQ took
\* for the last one left a row that is SENT.
CompletedSent ==
  \A j \in Jobs :
    state[j] = "completed" /\ kind[j] = "notification" => <<j, Run(j)>> \in sent

\* Retries and stalls repeat a notification a bounded number of times: no two
\* runs share a row, and each run but the last was thrown or died.
BoundedRepetition ==
  \A j \in Jobs : Cardinality({n \in rows : n[1] = j}) <= Attempts + MaxStalled

\* A row left PENDING belongs to a run that is still under way, or to one that
\* was thrown or died: it is never the last word on a completed job.
PendingExplained ==
  \A n \in rows \ sent :
    \/ n[2] < Run(n[1])
    \/ state[n[1]] \in {"active", "stalled"}

\* Every job that is in the queue is completed or failed at last.
EveryJobFinishes ==
  \A j \in Jobs : state[j] = "waiting" ~> state[j] \in Finished

=============================================================================

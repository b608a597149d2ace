------------------------ MODULE BackgroundJobs_proofs ------------------------
(***************************************************************************)
(* The queues and their notifications, for any number of jobs, attempts and *)
(* stalls.                                                                  *)
(***************************************************************************)
EXTENDS BackgroundJobs, FiniteSetTheorems, TLAPS

-----------------------------------------------------------------------------
(* The invariant.                                                           *)

\* A job that is not finished has an attempt and a stall left.
CountersInv ==
  \A j \in Jobs : state[j] \notin Finished => attempts[j] < Attempts /\ stalls[j] <= MaxStalled

\* A row is a notification's, and neither of a run to come nor of one after the
\* last.
RowsInv ==
  \A n \in rows : /\ kind[n[1]] = "notification"
                  /\ n[2] <= Run(n[1]) /\ n[2] < Attempts + MaxStalled

\* A run that has created its row has one; one that has returned, or completed its job, has sent it.
Returned(j) == state[j] = "completed" \/ (state[j] = "active" /\ step[j] = "returned")

ReturnedInv ==
  \A j \in Jobs :
    /\ state[j] = "active" /\ step[j] = "created" => <<j, Run(j)>> \in rows
    /\ kind[j] = "notification" /\ Returned(j) => <<j, Run(j)>> \in sent

JobsInv == TypeOK /\ CountersInv /\ RowsInv /\ ReturnedInv /\ PendingExplained

\* A job in work: its run is a number, and not one after the last.
LEMMA RunInWork ==
  ASSUME TypeOK, CountersInv, NEW j \in Jobs
  PROVE  /\ attempts[j] \in Nat /\ stalls[j] \in Nat /\ Run(j) \in Nat
         /\ state[j] \notin Finished =>
              /\ attempts[j] < Attempts /\ stalls[j] <= MaxStalled
              /\ Run(j) \in Runs /\ Run(j) < Attempts + MaxStalled
  <1>1. attempts[j] \in Nat /\ stalls[j] \in Nat /\ Attempts \in Nat /\ MaxStalled \in Nat
    <2>1. attempts[j] \in 0 .. Attempts /\ stalls[j] \in 0 .. (MaxStalled + 1)
      BY DEF TypeOK
    <2> QED
      BY <2>1, AttemptsAssumption, MaxStalledAssumption
  <1>2. Run(j) \in Nat
    BY <1>1 DEF Run
  <1>3. ASSUME state[j] \notin Finished
        PROVE  /\ attempts[j] < Attempts /\ stalls[j] <= MaxStalled
               /\ Run(j) \in Runs /\ Run(j) < Attempts + MaxStalled
    <2>1. attempts[j] < Attempts /\ stalls[j] <= MaxStalled
      BY <1>3 DEF CountersInv
    <2>2. Run(j) < Attempts + MaxStalled
      BY <1>1, <2>1 DEF Run
    <2> QED
      BY <1>1, <1>2, <2>1, <2>2 DEF Runs
  <1> QED
    BY <1>1, <1>2, <1>3

LEMMA RowIsPair ==
  ASSUME TypeOK, NEW n \in rows
  PROVE  n[1] \in Jobs /\ n[2] \in Nat /\ n = <<n[1], n[2]>>
  <1>1. n \in Jobs \X Runs
    BY DEF TypeOK
  <1>2. PICK j \in Jobs, k \in Runs : n = <<j, k>>
    BY <1>1
  <1>3. k \in Nat
    BY DEF Runs
  <1> QED
    BY <1>2, <1>3

-----------------------------------------------------------------------------
(* Each part is kept by every step.                                         *)

JobStep(j) == Add(j) \/ EndTransaction(j) \/ Take(j) \/ Proceed(j) \/ Throw(j)

LEMMA TypeStep ==
  ASSUME TypeOK, CountersInv, ReturnedInv, NEW j \in Jobs, JobStep(j)
  PROVE  TypeOK'
  <1>1. CASE Add(j) \/ EndTransaction(j) \/ Take(j) \/ Classify(j) \/ Complete(j) \/ Promote(j)
    BY <1>1 DEF Add, EndTransaction, Take, Classify, Complete, Promote, TypeOK, State, outcome
  <1>2. CASE Create(j) \/ MarkSent(j) \/ Throw(j)
    <2>1. state[j] = "active" /\ Run(j) \in Runs
      BY <1>2, RunInWork DEF Create, MarkSent, Throw, At, Finished
    <2>2. <<j, Run(j)>> \in Jobs \X Runs /\ rows \subseteq Jobs \X Runs /\ sent \subseteq rows
      BY <2>1 DEF TypeOK
    <2>3. CASE Create(j)
      <3>1. rows' \subseteq Jobs \X Runs /\ sent' \subseteq rows'
        BY <2>3, <2>2 DEF Create
      <3> QED
        BY <2>3, <3>1 DEF Create, TypeOK
    <2>4. CASE MarkSent(j)
      <3>1. <<j, Run(j)>> \in rows
        BY <2>4 DEF MarkSent, At, ReturnedInv
      <3> QED
        BY <2>1, <2>4, <3>1 DEF MarkSent, TypeOK
    <2>5. CASE Throw(j)
      <3>1. step[j] = "created" => <<j, Run(j)>> \in rows
        BY <2>1 DEF ReturnedInv
      <3>2. rows' \subseteq Jobs \X Runs /\ sent' \subseteq rows'
        BY <2>5, <2>2, <3>1 DEF Throw, outcome
      <3> QED
        BY <2>5, <3>2 DEF Throw, TypeOK
    <2> QED
      BY <1>2, <2>3, <2>4, <2>5
  <1>3. CASE Retry(j)
    <2>1. attempts[j] \in 0 .. Attempts /\ attempts[j] < Attempts
      BY <1>3, RunInWork DEF Retry, Finished, TypeOK
    <2>2. attempts[j] + 1 \in 0 .. Attempts
      BY <2>1, AttemptsAssumption
    <2>3. attempts' \in [Jobs -> 0 .. Attempts]
      BY <1>3, <2>2 DEF Retry, TypeOK
    <2>4. state' \in [Jobs -> State]
      BY <1>3 DEF Retry, TypeOK, State
    <2> QED
      BY <1>3, <2>3, <2>4 DEF Retry, TypeOK, outcome
  <1>4. CASE Recover(j)
    <2>1. stalls[j] \in Nat /\ stalls[j] <= MaxStalled
      BY <1>4, RunInWork DEF Recover, Finished, TypeOK
    <2>2. stalls[j] + 1 \in 0 .. (MaxStalled + 1)
      BY <2>1, MaxStalledAssumption
    <2>3. stalls' \in [Jobs -> 0 .. (MaxStalled + 1)]
      BY <1>4, <2>2 DEF Recover, TypeOK
    <2>4. state' \in [Jobs -> State]
      BY <1>4 DEF Recover, TypeOK, State
    <2> QED
      BY <1>4, <2>3, <2>4 DEF Recover, TypeOK, outcome
  <1> QED
    BY <1>1, <1>2, <1>3, <1>4 DEF JobStep, Proceed

LEMMA CountersStep ==
  ASSUME TypeOK, CountersInv, NEW j \in Jobs, JobStep(j)
  PROVE  CountersInv'
  <1>1. CASE \/ Add(j) \/ EndTransaction(j) \/ Take(j) \/ Classify(j) \/ Complete(j) \/ Promote(j)
             \/ Create(j) \/ MarkSent(j) \/ Throw(j)
    BY <1>1 DEF Add, EndTransaction, Take, Classify, Complete, Promote, Create, MarkSent, Throw,
                At, TypeOK, CountersInv, Finished
  <1>2. CASE Retry(j)
    <2>1. attempts[j] \in Nat /\ Attempts \in Nat
      BY RunInWork, AttemptsAssumption
    <2>2. /\ attempts'[j] = attempts[j] + 1 /\ stalls' = stalls
          /\ state'[j] = IF attempts[j] + 1 < Attempts THEN "delayed" ELSE "failed"
          /\ \A i \in Jobs \ {j} : attempts'[i] = attempts[i] /\ state'[i] = state[i]
          /\ state[j] = "active"
      BY <1>2 DEF Retry, TypeOK
    <2> QED
      BY <2>1, <2>2 DEF CountersInv, Finished
  <1>3. CASE Recover(j)
    <2>1. stalls[j] \in Nat /\ MaxStalled \in Nat
      BY RunInWork, MaxStalledAssumption
    <2>2. /\ stalls'[j] = stalls[j] + 1 /\ attempts' = attempts
          /\ state'[j] = IF stalls[j] + 1 > MaxStalled THEN "failed" ELSE "waiting"
          /\ \A i \in Jobs \ {j} : stalls'[i] = stalls[i] /\ state'[i] = state[i]
          /\ state[j] = "stalled"
      BY <1>3 DEF Recover, TypeOK
    <2> QED
      BY <2>1, <2>2 DEF CountersInv, Finished
  <1> QED
    BY <1>1, <1>2, <1>3 DEF JobStep, Proceed

\* A row at most comes, of the job's present run; its counters only grow.
LEMMA RowsGrow ==
  ASSUME TypeOK, CountersInv, NEW j \in Jobs, JobStep(j)
  PROVE  /\ rows \subseteq rows' /\ sent \subseteq sent' /\ kind' = kind
         /\ \/ rows' = rows
            \/ /\ rows' = rows \cup {<<j, Run(j)>>} /\ kind[j] = "notification"
               /\ state[j] = "active" /\ UNCHANGED <<state, attempts, stalls>>
         /\ \A i \in Jobs : Run(i)' \in Nat /\ Run(i) <= Run(i)'
         /\ \A i \in Jobs \ {j} : Run(i)' = Run(i) /\ state'[i] = state[i] /\ step'[i] = step[i]
         /\ ~(Retry(j) \/ Recover(j)) => Run(j)' = Run(j)
  <1>1. CASE \/ Add(j) \/ EndTransaction(j) \/ Take(j) \/ Classify(j) \/ Complete(j) \/ Promote(j)
             \/ Create(j) \/ MarkSent(j) \/ Throw(j)
    <2>1. UNCHANGED <<attempts, stalls, kind>>
      BY <1>1 DEF Add, EndTransaction, Take, Classify, Complete, Promote, Create, MarkSent, Throw
    <2>2. \A i \in Jobs : Run(i)' = Run(i) /\ Run(i) \in Nat
      BY <2>1, RunInWork DEF Run
    <2>3. /\ rows \subseteq rows' /\ sent \subseteq sent'
          /\ \/ rows' = rows
             \/ /\ rows' = rows \cup {<<j, Run(j)>>} /\ kind[j] = "notification"
                /\ state[j] = "active" /\ UNCHANGED state
      BY <1>1 DEF Add, EndTransaction, Take, Classify, Complete, Promote, Create, MarkSent, Throw,
                  At, outcome
    <2>4. \A i \in Jobs \ {j} : state'[i] = state[i] /\ step'[i] = step[i]
      BY <1>1 DEF Add, EndTransaction, Take, Classify, Complete, Promote, Create, MarkSent, Throw,
                  TypeOK
    <2> QED
      BY <2>1, <2>2, <2>3, <2>4
  <1>2. CASE Retry(j) \/ Recover(j)
    <2>1. \A i \in Jobs : attempts[i] \in Nat /\ stalls[i] \in Nat
      BY RunInWork
    <2>2. \/ attempts'[j] = attempts[j] + 1 /\ stalls' = stalls
          \/ stalls'[j] = stalls[j] + 1 /\ attempts' = attempts
      BY <1>2 DEF Retry, Recover, TypeOK
    <2>3. \A i \in Jobs \ {j} : /\ attempts'[i] = attempts[i] /\ stalls'[i] = stalls[i]
                                /\ state'[i] = state[i] /\ step'[i] = step[i]
      BY <1>2 DEF Retry, Recover, TypeOK
    <2>4. UNCHANGED <<kind, rows, sent>>
      BY <1>2 DEF Retry, Recover, outcome
    <2>5. ASSUME NEW i \in Jobs PROVE Run(i)' \in Nat /\ Run(i) <= Run(i)'
      BY <2>1, <2>2, <2>3 DEF Run
    <2>6. ASSUME NEW i \in Jobs \ {j} PROVE Run(i)' = Run(i)
      BY <2>3 DEF Run
    <2> QED
      BY <1>2, <2>3, <2>4, <2>5, <2>6
  <1> QED
    BY <1>1, <1>2 DEF JobStep, Proceed

LEMMA RowsStep ==
  ASSUME TypeOK, CountersInv, RowsInv, NEW j \in Jobs, JobStep(j)
  PROVE  RowsInv'
  <1> SUFFICES ASSUME NEW n \in rows'
               PROVE  /\ kind'[n[1]] = "notification"
                      /\ n[2] <= Run(n[1])' /\ n[2] < Attempts + MaxStalled
    BY DEF RowsInv
  <1>1. CASE n \in rows
    <2>1. n[1] \in Jobs /\ n[2] \in Nat /\ Run(n[1]) \in Nat /\ n[2] <= Run(n[1])
      BY <1>1, RowIsPair, RunInWork DEF RowsInv
    <2>2. Run(n[1])' \in Nat /\ Run(n[1]) <= Run(n[1])'
      BY <2>1, RowsGrow
    <2> QED
      BY <1>1, <2>1, <2>2, RowsGrow DEF RowsInv
  <1>2. CASE n \notin rows
    <2>1. n = <<j, Run(j)>> /\ kind[j] = "notification" /\ kind' = kind
          /\ state[j] = "active" /\ UNCHANGED <<attempts, stalls>>
      BY <1>2, RowsGrow
    <2>2. n[1] = j /\ n[2] = Run(j) /\ Run(j)' = Run(j)
      BY <2>1 DEF Run
    <2> QED
      BY <2>1, <2>2, RunInWork DEF Finished
  <1> QED
    BY <1>1, <1>2

LEMMA ReturnedStep ==
  ASSUME TypeOK, CountersInv, ReturnedInv, NEW j \in Jobs, JobStep(j)
  PROVE  ReturnedInv'
  <1>1. ASSUME NEW i \in Jobs \ {j}
        PROVE  /\ state'[i] = "active" /\ step'[i] = "created" => <<i, Run(i)'>> \in rows'
               /\ kind'[i] = "notification" /\ Returned(i)' => <<i, Run(i)'>> \in sent'
    BY RowsGrow DEF ReturnedInv, Returned
  <1>2. ASSUME state'[j] = "active", step'[j] = "created" PROVE <<j, Run(j)'>> \in rows'
    <2>1. CASE Create(j)
      BY <2>1 DEF Create, Run
    <2>2. CASE EndTransaction(j)
      BY <1>2, <2>2 DEF EndTransaction, ReturnedInv, Run, outcome
    <2>3. CASE ~Create(j) /\ ~EndTransaction(j)
      BY <1>2, <2>3 DEF JobStep, Proceed, Add, Take, Promote, Throw, Classify, MarkSent, Complete,
           Retry, Recover, TypeOK
    <2> QED
      BY <2>1, <2>2, <2>3
  <1>3. ASSUME kind'[j] = "notification", Returned(j)' PROVE <<j, Run(j)'>> \in sent'
    <2>1. CASE Add(j) \/ Take(j) \/ Promote(j) \/ Create(j) \/ Throw(j) \/ Classify(j)
      BY <1>3, <2>1 DEF Returned, Add, Take, Promote, Create, Throw, Classify, At, TypeOK
    <2>2. CASE EndTransaction(j) \/ Complete(j)
      <3>1. kind[j] = "notification" /\ Returned(j)
        BY <1>3, <2>2 DEF Returned, EndTransaction, Complete, TypeOK
      <3>2. UNCHANGED <<attempts, stalls, sent>>
        BY <2>2 DEF EndTransaction, Complete, outcome
      <3> QED
        BY <3>1, <3>2 DEF ReturnedInv, Run
    <2>3. CASE MarkSent(j)
      BY <2>3 DEF MarkSent, Run
    <2>4. CASE Retry(j) \/ Recover(j)
      BY <1>3, <2>4 DEF Returned, Retry, Recover, TypeOK
    <2> QED
      BY <2>1, <2>2, <2>3, <2>4 DEF JobStep, Proceed
  <1> QED
    BY <1>1, <1>2, <1>3 DEF ReturnedInv

LEMMA PendingStep ==
  ASSUME TypeOK, CountersInv, RowsInv, ReturnedInv, PendingExplained, NEW j \in Jobs, JobStep(j)
  PROVE  PendingExplained'
  <1> SUFFICES ASSUME NEW n \in rows', n \notin sent'
               PROVE  n[2] < Run(n[1])' \/ state'[n[1]] \in {"active", "stalled"}
    BY DEF PendingExplained
  <1>1. CASE n \notin rows
    BY <1>1, RowsGrow
  <1>2. CASE n \in rows
    <2>1. /\ n \notin sent /\ n[1] \in Jobs /\ n[2] \in Nat /\ n = <<n[1], n[2]>>
          /\ Run(n[1]) \in Nat /\ n[2] <= Run(n[1]) /\ kind[n[1]] = "notification"
          /\ n[2] < Run(n[1]) \/ state[n[1]] \in {"active", "stalled"}
      BY <1>2, RowIsPair, RunInWork, RowsGrow DEF PendingExplained, RowsInv
    <2>2. Run(n[1])' \in Nat /\ Run(n[1]) <= Run(n[1])'
      BY <2>1, RowsGrow
    <2>3. CASE n[1] # j
      BY <2>1, <2>3, RowsGrow
    <2>4. CASE n[1] = j
      <3>1. CASE Retry(j) \/ Recover(j)
        <4>1. attempts[j] \in Nat /\ stalls[j] \in Nat
          BY RunInWork
        <4>2. Run(j)' = Run(j) + 1
          <5>1. CASE Retry(j)
            <6>1. attempts'[j] = attempts[j] + 1 /\ stalls' = stalls
              BY <5>1 DEF Retry, TypeOK
            <6> QED
              BY <4>1, <6>1 DEF Run
          <5>2. CASE Recover(j)
            <6>1. stalls'[j] = stalls[j] + 1 /\ attempts' = attempts
              BY <5>2 DEF Recover, TypeOK
            <6> QED
              BY <4>1, <6>1 DEF Run
          <5> QED
            BY <3>1, <5>1, <5>2
        <4> QED
          BY <2>1, <2>4, <4>2
      <3>2. CASE Complete(j)
        <4>1. <<j, Run(j)>> \in sent
          BY <2>1, <2>4, <3>2 DEF Complete, ReturnedInv, Returned
        <4>2. n[2] < Run(j)
          BY <2>1, <2>4, <4>1
        <4> QED
          BY <2>1, <2>2, <2>4, <4>2
      <3>3. CASE \/ Add(j) \/ EndTransaction(j) \/ Take(j) \/ Promote(j) \/ Create(j) \/ MarkSent(j)
                 \/ Classify(j) \/ Throw(j)
        <4>1. state[j] \in {"active", "stalled"} => state'[j] = state[j]
          BY <3>3 DEF Add, EndTransaction, Take, Promote, Create, MarkSent, Classify, Throw
        <4> QED
          BY <2>1, <2>2, <2>4, <4>1
      <3> QED
        BY <3>1, <3>2, <3>3 DEF JobStep, Proceed
    <2> QED
      BY <2>3, <2>4
  <1> QED
    BY <1>1, <1>2

\* The process dies under its jobs, and takes none of their outcome along.
LEMMA CrashStep ==
  ASSUME JobsInv, Crash
  PROVE  JobsInv'
  <1>1. /\ UNCHANGED <<kind, attempts, stalls, step, rows, sent>>
        /\ state' = [j \in Jobs |-> IF state[j] = "active" THEN "stalled" ELSE state[j]]
    BY DEF Crash, outcome
  <1>2. \A j : Run(j)' = Run(j)
    BY <1>1 DEF Run
  <1>3. TypeOK'
    <2>1. state' \in [Jobs -> State]
      BY <1>1 DEF JobsInv, TypeOK, State
    <2>2. complaint' \in [Jobs -> {"open", "committed", "rolled back"}]
      BY DEF Crash, JobsInv, TypeOK
    <2> QED
      BY <1>1, <2>1, <2>2 DEF JobsInv, TypeOK
  <1>4. CountersInv' /\ RowsInv' /\ ReturnedInv'
    BY <1>1, <1>2 DEF JobsInv, CountersInv, RowsInv, ReturnedInv, Returned, Finished
  <1>5. PendingExplained'
    BY <1>1, <1>2, RowIsPair DEF JobsInv, PendingExplained
  <1> QED
    BY <1>3, <1>4, <1>5 DEF JobsInv

-----------------------------------------------------------------------------
(* The theorems.                                                            *)

LEMMA JobsInvariant == Spec => []JobsInv
  <1>1. Init => JobsInv
    <2> SUFFICES ASSUME Init PROVE JobsInv
      OBVIOUS
    <2>1. 0 \in 0 .. Attempts /\ 0 \in 0 .. (MaxStalled + 1) /\ 0 < Attempts /\ 0 <= MaxStalled
      BY AttemptsAssumption, MaxStalledAssumption
    <2>2. TypeOK
      BY <2>1 DEF Init, TypeOK, State
    <2>3. CountersInv
      BY <2>1 DEF Init, CountersInv
    <2>4. RowsInv /\ ReturnedInv /\ PendingExplained
      BY DEF Init, RowsInv, ReturnedInv, Returned, PendingExplained
    <2> QED
      BY <2>2, <2>3, <2>4 DEF JobsInv
  <1>2. JobsInv /\ [Next]_vars => JobsInv'
    <2> SUFFICES ASSUME JobsInv, [Next]_vars PROVE JobsInv'
      OBVIOUS
    <2>1. ASSUME NEW j \in Jobs, JobStep(j) PROVE JobsInv'
      BY <2>1, TypeStep, CountersStep, RowsStep, ReturnedStep, PendingStep DEF JobsInv
    <2>2. CASE UNCHANGED vars
      <3>1. \A j : Run(j)' = Run(j)
        BY <2>2 DEF Run, vars
      <3>2. TypeOK' /\ CountersInv'
        BY <2>2 DEF JobsInv, TypeOK, CountersInv, vars, outcome
      <3>3. RowsInv' /\ ReturnedInv' /\ PendingExplained'
        BY <2>2, <3>1 DEF JobsInv, RowsInv, ReturnedInv, Returned, PendingExplained, vars, outcome
      <3> QED
        BY <3>2, <3>3 DEF JobsInv
    <2> QED
      BY <2>1, <2>2, CrashStep DEF Next, Quiescent, JobStep
  <1> QED
    BY <1>1, <1>2, PTL DEF Spec

\* Jobs, counters and rows have their types.
THEOREM TypeCorrect == Spec => []TypeOK
  <1>1. JobsInv => TypeOK
    BY DEF JobsInv
  <1> QED
    BY JobsInvariant, <1>1, PTL

\* A completed notification job has left a row that is SENT.
THEOREM CompletedIsSent == Spec => []CompletedSent
  <1>1. JobsInv => CompletedSent
    BY DEF JobsInv, ReturnedInv, Returned, CompletedSent
  <1> QED
    BY JobsInvariant, <1>1, PTL

\* A row left PENDING is of a run under way, or of one that was thrown or died.
THEOREM PendingIsExplained == Spec => []PendingExplained
  <1>1. JobsInv => PendingExplained
    BY DEF JobsInv
  <1> QED
    BY JobsInvariant, <1>1, PTL

\* Retries and stalls repeat a notification a bounded number of times: every
\* run has a row of its own, and there are so many runs.
THEOREM RepetitionIsBounded == Spec => []BoundedRepetition
  <1>1. ASSUME JobsInv, NEW j \in Jobs
        PROVE  Cardinality({n \in rows : n[1] = j}) <= Attempts + MaxStalled
    <2> DEFINE mine == {n \in rows : n[1] = j}
               last == Attempts + MaxStalled - 1
               f == [n \in mine |-> n[2]]
    <2>1. last \in Nat /\ last + 1 = Attempts + MaxStalled
      BY AttemptsAssumption, MaxStalledAssumption
    <2>2. ASSUME NEW n \in mine PROVE n[2] \in 0 .. last /\ n = <<j, n[2]>>
      <3>1. n[2] \in Nat /\ n = <<j, n[2]>> /\ n[2] < Attempts + MaxStalled
        BY <1>1, RowIsPair DEF JobsInv, RowsInv
      <3> QED
        BY <2>1, <3>1
    <2> HIDE DEF mine, last
    <2>3. f \in Injection(mine, 0 .. last)
      <3>1. f \in [mine -> 0 .. last]
        BY <2>2
      <3>2. \A m, n \in mine : f[m] = f[n] => m = n
        BY <2>2
      <3> QED
        BY <3>1, <3>2 DEF Injection, IsInjective
    <2>4. IsFiniteSet(0 .. last) /\ Cardinality(0 .. last) = last + 1
      BY <2>1, FS_Interval
    <2>5. Cardinality(mine) <= last + 1
      BY <2>3, <2>4, FS_Injection
    <2> QED
      BY <2>1, <2>5 DEF mine
  <1>2. JobsInv => BoundedRepetition
    BY <1>1 DEF BoundedRepetition
  <1> QED
    BY JobsInvariant, <1>2, PTL

=============================================================================

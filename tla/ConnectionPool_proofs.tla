------------------------ MODULE ConnectionPool_proofs ------------------------
(***************************************************************************)
(* What holds of the pool for any number of clients, requests, rows and     *)
(* keys: only a BEGIN that fails makes a request that has ended keep a       *)
(* client, and a pool that is once exhausted is exhausted for ever.         *)
(***************************************************************************)
EXTENDS ConnectionPool, TLAPS

USE NoneAssumption

-----------------------------------------------------------------------------
(* The inductive invariant: the stage of a request says what it holds, and  *)
(* whom the pool may serve next.                                            *)

Holding ==
  {"beginning", "working", "updating", "locked", "waiting", "auditing", "unreleased"}
Queued == {"connecting", "waiting"}

ClientOfStage ==
  \A r \in Requests :
    /\ work[r] # None <=> pc[r] \in Holding
    /\ second[r] # None <=> pc[r] = "auditing"

OneHolder ==
  \A q, r \in Requests, c \in Clients :
    c \in {work[q], second[q]} \cap {work[r], second[r]} => q = r

LockOfStage ==
  \A w \in Lockable, r \in Requests :
    lock[w] = r => pc[r] \in {"locked", "waiting", "auditing"}

\* Nobody is in the queue twice, or without having asked for a client.
QueueOnce ==
  /\ \A i \in 1 .. Len(queue) : pc[queue[i]] \in Queued
  /\ \A i, j \in 1 .. Len(queue) : queue[i] = queue[j] => i = j

\* Whoever is in the queue still has a use for a client, and whoever is in
\* flight has a call.
CallOfStage ==
  \A r \in Requests :
    /\ pc[r] \in Queued => left[r] > 0
    /\ pc[r] \in InFlight => call[r] \in Call

PoolInv ==
  TypeOK /\ ClientOfStage /\ OneHolder /\ LockOfStage /\ QueueOnce /\ CallOfStage

\* An idle pool satisfies the invariant.
LEMMA PoolInit == Init => PoolInv
  BY DEF Init, PoolInv, TypeOK, ClientOfStage, OneHolder, LockOfStage, QueueOnce,
         CallOfStage, Holding, Queued, InFlight, Ended, Lockable

\* A request that joins the queue, with its stage set accordingly, is there once.
LEMMA JoinQueue ==
  ASSUME TypeOK, QueueOnce, NEW r \in Requests, NEW stage \in Queued,
         pc[r] \notin Queued, queue' = Append(queue, r), Goto(r, stage)
  PROVE  QueueOnce'
  <1>1. queue' \in Seq(Requests) /\ Len(queue') = Len(queue) + 1
    BY DEF TypeOK
  <1>2. \A i \in 1 .. Len(queue) : queue[i] \in Requests /\ queue'[i] = queue[i] /\ queue[i] # r
    BY DEF TypeOK, QueueOnce
  <1>3. queue'[Len(queue) + 1] = r
    BY DEF TypeOK
  <1>4. pc' = [pc EXCEPT ![r] = stage] /\ pc'[r] = stage
    BY DEF Goto, TypeOK
  <1>5. \A i \in 1 .. Len(queue') : i \in 1 .. Len(queue) \/ i = Len(queue) + 1
    BY <1>1 DEF TypeOK
  <1>6. \A i \in 1 .. Len(queue') : pc'[queue'[i]] \in Queued
    BY <1>2, <1>3, <1>4, <1>5 DEF TypeOK, QueueOnce
  <1>7. \A i, j \in 1 .. Len(queue') : queue'[i] = queue'[j] => i = j
    BY <1>2, <1>3, <1>5 DEF QueueOnce
  <1> QED
    BY <1>6, <1>7 DEF QueueOnce

\* The head of the queue leaves it: the others are where they were.
LEMMA LeaveQueue ==
  ASSUME TypeOK, QueueOnce, queue # <<>>, queue' = Tail(queue),
         \A q \in Requests \ {Head(queue)} : pc'[q] = pc[q]
  PROVE  Head(queue) \in Requests /\ queue' \in Seq(Requests) /\ QueueOnce'
  <1>1. /\ queue \in Seq(Requests) /\ Head(queue) = queue[1] /\ 1 \in 1 .. Len(queue)
        /\ Head(queue) \in Requests /\ queue' \in Seq(Requests)
    BY DEF TypeOK
  <1>2. /\ Len(queue') = Len(queue) - 1
        /\ \A i \in 1 .. Len(queue') : queue'[i] = queue[i + 1] /\ i + 1 \in 1 .. Len(queue)
    BY <1>1
  <1>3. \A i \in 1 .. Len(queue') :
          queue'[i] \in Requests /\ queue'[i] # queue[1] /\ pc[queue'[i]] \in Queued
    <2> SUFFICES ASSUME NEW i \in 1 .. Len(queue')
                 PROVE  queue'[i] \in Requests /\ queue'[i] # queue[1] /\ pc[queue'[i]] \in Queued
      OBVIOUS
    <2>1. queue'[i] = queue[i + 1] /\ i + 1 \in 1 .. Len(queue) /\ i + 1 # 1
      BY <1>1, <1>2
    <2> QED
      BY <1>1, <2>1 DEF QueueOnce
  <1>4. \A i, j \in 1 .. Len(queue') : queue'[i] = queue'[j] => i = j
    <2> SUFFICES ASSUME NEW i \in 1 .. Len(queue'), NEW j \in 1 .. Len(queue'),
                        queue'[i] = queue'[j]
                 PROVE  i = j
      OBVIOUS
    <2>1. /\ queue'[i] = queue[i + 1] /\ i + 1 \in 1 .. Len(queue)
          /\ queue'[j] = queue[j + 1] /\ j + 1 \in 1 .. Len(queue)
      BY <1>2
    <2>2. i + 1 = j + 1
      BY <2>1 DEF QueueOnce
    <2> QED
      BY <2>2
  <1>5. \A i \in 1 .. Len(queue') : pc'[queue'[i]] \in Queued
    BY <1>1, <1>3
  <1> QED
    BY <1>1, <1>4, <1>5 DEF QueueOnce

\* A step that moves a request that is not in the queue leaves the queue right.
LEMMA QueueKept ==
  ASSUME TypeOK, QueueOnce, NEW r \in Requests, NEW stage, pc[r] \notin Queued,
         queue' = queue, Goto(r, stage)
  PROVE  QueueOnce'
  <1>1. \A i \in 1 .. Len(queue) : queue[i] \in Requests /\ queue[i] # r
    BY DEF TypeOK, QueueOnce
  <1> QED
    BY <1>1 DEF QueueOnce, Goto, TypeOK

\* Asking for the first client.
LEMMA ArriveInv ==
  ASSUME PoolInv, NEW r \in Requests, NEW c \in Call, Arrive(r, c)
  PROVE  PoolInv'
  <1> USE DEF PoolInv
  <1>1. c.asks \in 1 .. 3
    BY DEF Call
  <1>2. QueueOnce'
    BY JoinQueue DEF Arrive, Queued
  <1>3. TypeOK'
    BY <1>1 DEF Arrive, Goto, TypeOK, InFlight, Ended
  <1>4. ClientOfStage' /\ OneHolder' /\ LockOfStage'
    BY DEF Arrive, Goto, TypeOK, ClientOfStage, OneHolder, LockOfStage, Holding
  <1>5. CallOfStage'
    BY <1>1 DEF Arrive, Goto, TypeOK, CallOfStage, Queued, InFlight
  <1> QED
    BY <1>2, <1>3, <1>4, <1>5

\* Being served: the client was free, so it has no other holder.
LEMMA GrantInv ==
  ASSUME PoolInv, Grant
  PROVE  PoolInv'
  <1> USE DEF PoolInv
  <1> DEFINE r == Head(queue)
             stage == Served(r)
  <1>1. /\ r \in Requests /\ r = queue[1] /\ 1 \in 1 .. Len(queue)
        /\ pc[r] \in Queued /\ left[r] > 0 /\ call[r] \in Call
    BY DEF Grant, TypeOK, QueueOnce, CallOfStage, Queued, InFlight
  <1>2. PICK c \in Free :
          IF pc[r] = "connecting"
          THEN work' = [work EXCEPT ![r] = c] /\ UNCHANGED second
          ELSE second' = [second EXCEPT ![r] = c] /\ UNCHANGED work
    BY DEF Grant
  <1>3. c \in Clients /\ c # None /\ \A q \in Requests : work[q] # c /\ second[q] # c
    BY <1>2 DEF Free
  <1>4. /\ left' = [left EXCEPT ![r] = @ - 1] /\ pc' = [pc EXCEPT ![r] = stage]
        /\ queue' = Tail(queue) /\ UNCHANGED <<call, lock>>
    BY DEF Grant, Goto
  <1> HIDE DEF r, stage
  <1>5. /\ stage \in {"beginning", "working", "auditing"}
        /\ stage = "auditing" <=> pc[r] = "waiting"
    BY DEF stage, Served
  <1>6. TypeOK'
    <2>1. queue' \in Seq(Requests)
      BY <1>1, <1>4 DEF TypeOK
    <2>2. left' \in [Requests -> 0 .. 3]
      BY <1>1, <1>4 DEF TypeOK
    <2>3. /\ work' \in [Requests -> Clients \cup {None}]
          /\ second' \in [Requests -> Clients \cup {None}]
      BY <1>1, <1>2, <1>3 DEF TypeOK
    <2> QED
      BY <1>4, <1>5, <2>1, <2>2, <2>3 DEF TypeOK, InFlight
  <1>7. ClientOfStage'
    BY <1>1, <1>2, <1>3, <1>4, <1>5 DEF TypeOK, ClientOfStage, Holding, Queued
  <1>8. OneHolder'
    BY <1>1, <1>2, <1>3 DEF TypeOK, OneHolder
  <1>9. LockOfStage'
    BY <1>1, <1>4, <1>5 DEF TypeOK, LockOfStage, Queued
  <1>10. CallOfStage'
    BY <1>1, <1>4, <1>5 DEF TypeOK, CallOfStage, Queued, InFlight
  <1>11. QueueOnce'
    <2>1. \A q \in Requests \ {r} : pc'[q] = pc[q]
      BY <1>4 DEF TypeOK
    <2> QED
      BY <1>4, <2>1, LeaveQueue DEF Grant, r
  <1> QED
    BY <1>6, <1>7, <1>8, <1>9, <1>10, <1>11

\* The steps of a request between being served and giving its client back.
LEMMA WorkInv ==
  ASSUME PoolInv, NEW r \in Requests,
         Begin(r) \/ Reach(r) \/ Write(r) \/ AskSecond(r) \/ Audited(r)
  PROVE  PoolInv'
  <1> USE DEF PoolInv
  <1>1. CASE Begin(r) \/ Reach(r)
    <2>1. QueueOnce'
      BY <1>1, QueueKept DEF Begin, Reach, Queued
    <2>2. TypeOK' /\ ClientOfStage' /\ OneHolder' /\ LockOfStage' /\ CallOfStage'
      BY <1>1 DEF Begin, Reach, Goto, TypeOK, ClientOfStage, OneHolder, LockOfStage,
                  CallOfStage, Holding, Queued, InFlight
    <2> QED
      BY <2>1, <2>2
  <1>2. CASE Write(r)
    <2>1. pc[r] \in {"working", "updating"}
      BY <1>2 DEF Write, Passes
    <2>2. QueueOnce'
      BY <1>2, <2>1, QueueKept DEF Write, Queued
    <2>3. TypeOK' /\ ClientOfStage' /\ OneHolder' /\ LockOfStage' /\ CallOfStage'
      BY <1>2, <2>1 DEF Write, Lockable, Goto, TypeOK, ClientOfStage, OneHolder, LockOfStage,
                  CallOfStage, Holding, Queued, InFlight
    <2> QED
      BY <2>2, <2>3
  <1>3. CASE AskSecond(r)
    <2>1. QueueOnce'
      BY <1>3, JoinQueue DEF AskSecond, Queued
    <2>2. TypeOK'
      BY <1>3 DEF AskSecond, Goto, TypeOK, InFlight
    <2>3. ClientOfStage' /\ OneHolder' /\ LockOfStage' /\ CallOfStage'
      BY <1>3 DEF AskSecond, Goto, TypeOK, ClientOfStage, OneHolder, LockOfStage,
                  CallOfStage, Holding, Queued, InFlight
    <2> QED
      BY <2>1, <2>2, <2>3
  <1>4. CASE Audited(r)
    <2>1. QueueOnce'
      BY <1>4, QueueKept DEF Audited, Queued
    <2>2. TypeOK' /\ ClientOfStage' /\ OneHolder' /\ LockOfStage' /\ CallOfStage'
      BY <1>4 DEF Audited, Goto, TypeOK, ClientOfStage, OneHolder, LockOfStage,
                  CallOfStage, Holding, Queued, InFlight
    <2> QED
      BY <2>1, <2>2
  <1> QED
    BY <1>1, <1>2, <1>3, <1>4

\* A request that is over, its queue entry aside.
LEMMA EndInv ==
  ASSUME PoolInv, NEW r \in Requests, NEW stage \in Ended, End(r, stage),
         \/ GiveBack(r) /\ stage # "unreleased"
         \/ UNCHANGED <<work, second, lock>> /\ pc[r] = "beginning" /\ stage = "unreleased",
         queue' \in Seq(Requests), QueueOnce'
  PROVE  PoolInv'
  <1> USE DEF PoolInv
  <1>0. /\ pc' = [pc EXCEPT ![r] = stage] /\ call' = [call EXCEPT ![r] = NoCall]
        /\ left' = [left EXCEPT ![r] = 0]
    BY DEF End, Goto
  <1>1. TypeOK'
    <2>1. /\ work' \in [Requests -> Clients \cup {None}]
          /\ second' \in [Requests -> Clients \cup {None}]
          /\ lock' \in [Lockable -> Requests \cup {None}]
      BY DEF GiveBack, TypeOK
    <2>2. pc' \in [Requests -> {"idle"} \cup InFlight \cup Ended]
      BY <1>0 DEF TypeOK
    <2>3. call' \in [Requests -> Call \cup {NoCall}] /\ left' \in [Requests -> 0 .. 3]
      BY <1>0 DEF TypeOK
    <2> QED
      BY <2>1, <2>2, <2>3 DEF TypeOK
  <1>2. ASSUME GiveBack(r) /\ stage # "unreleased"
        PROVE  ClientOfStage' /\ OneHolder' /\ LockOfStage'
    <2>1. /\ work' = [work EXCEPT ![r] = None] /\ second' = [second EXCEPT ![r] = None]
          /\ lock' = [w \in Lockable |-> IF lock[w] = r THEN None ELSE lock[w]]
      BY <1>2 DEF GiveBack
    <2>2. stage \notin Holding
      BY <1>2 DEF Holding, Ended
    <2>3. ClientOfStage'
      BY <1>0, <2>1, <2>2 DEF TypeOK, ClientOfStage, Ended
    <2>4. OneHolder'
      BY <2>1 DEF TypeOK, OneHolder
    <2>5. LockOfStage'
      BY <1>0, <2>1 DEF TypeOK, LockOfStage
    <2> QED
      BY <2>3, <2>4, <2>5
  <1>3. ASSUME UNCHANGED <<work, second, lock>> /\ pc[r] = "beginning" /\ stage = "unreleased"
        PROVE  ClientOfStage' /\ OneHolder' /\ LockOfStage'
    BY <1>0, <1>3 DEF TypeOK, ClientOfStage, OneHolder, LockOfStage, Holding
  <1>4. CallOfStage'
    BY DEF End, Goto, TypeOK, CallOfStage, Queued, InFlight, Ended
  <1> QED
    BY <1>1, <1>2, <1>3, <1>4

\* The head of the queue leaves it with an error.
LEMMA ConnectFailsInv ==
  ASSUME PoolInv, ConnectFails
  PROVE  PoolInv'
  <1>1. /\ queue # <<>> /\ queue' = Tail(queue)
        /\ GiveBack(Head(queue)) /\ End(Head(queue), "failed")
    BY DEF ConnectFails
  <1>2. \A q \in Requests \ {Head(queue)} : pc'[q] = pc[q]
    BY <1>1 DEF End, Goto, PoolInv, TypeOK
  <1>3. Head(queue) \in Requests /\ queue' \in Seq(Requests) /\ QueueOnce'
    BY <1>1, <1>2, LeaveQueue DEF PoolInv
  <1> QED
    <2>1. PICK r \in Requests : r = Head(queue)
      BY <1>3
    <2>2. GiveBack(r) /\ End(r, "failed") /\ "failed" \in Ended /\ "failed" # "unreleased"
      BY <1>1, <2>1 DEF Ended
    <2> QED
      BY <1>3, <2>2, EndInv

\* The end of a request that does not wait for a client, and the return of one
\* between two statements.
LEMMA GiveBackInv ==
  ASSUME PoolInv, NEW r \in Requests,
         Commit(r) \/ Statement(r) \/ Fail(r) \/ BeginFails(r)
  PROVE  PoolInv'
  <1>1. pc[r] \in Holding \ {"waiting", "unreleased"} /\ pc[r] \notin Queued
    BY DEF Commit, Statement, Fail, BeginFails, Passes, Holding, Queued
  <1>2. CASE Commit(r) \/ Fail(r) \/ BeginFails(r) \/ (Statement(r) /\ left[r] = 0)
    <2>1. PICK stage \in Ended :
            /\ End(r, stage) /\ UNCHANGED queue
            /\ \/ GiveBack(r) /\ stage # "unreleased"
               \/ UNCHANGED <<work, second, lock>> /\ pc[r] = "beginning" /\ stage = "unreleased"
      BY <1>2 DEF Commit, Statement, Fail, BeginFails, Ended
    <2>2. QueueOnce'
      BY <1>1, <2>1, QueueKept DEF End, PoolInv
    <2> QED
      BY <2>1, <2>2, EndInv DEF PoolInv, TypeOK
  <1>3. CASE Statement(r) /\ left[r] # 0
    <2> USE DEF PoolInv
    <2>1. /\ GiveBack(r) /\ Goto(r, "connecting") /\ queue' = Append(queue, r)
          /\ UNCHANGED <<call, left>> /\ left[r] > 0
      BY <1>3 DEF Statement, TypeOK
    <2>2. QueueOnce'
      BY <1>1, <2>1, JoinQueue DEF Queued
    <2>3. TypeOK'
      BY <2>1 DEF GiveBack, Goto, TypeOK, InFlight, Lockable
    <2>4. ClientOfStage' /\ OneHolder' /\ LockOfStage'
      BY <1>1, <2>1 DEF GiveBack, Goto, TypeOK, ClientOfStage, OneHolder, LockOfStage, Holding
    <2>5. CallOfStage'
      BY <1>1, <2>1 DEF Goto, TypeOK, CallOfStage, Queued, InFlight, Holding
    <2> QED
      BY <2>2, <2>3, <2>4, <2>5
  <1> QED
    BY <1>2, <1>3

\* No step breaks the invariant.
LEMMA PoolStep == PoolInv /\ [Next]_vars => PoolInv'
  <1> SUFFICES ASSUME PoolInv, [Next]_vars PROVE PoolInv'
    OBVIOUS
  <1>1. CASE UNCHANGED vars
    BY <1>1 DEF vars, PoolInv, TypeOK, ClientOfStage, OneHolder, LockOfStage, QueueOnce,
                CallOfStage
  <1>2. CASE \E r \in Requests, c \in Call : Arrive(r, c)
    BY <1>2, ArriveInv
  <1>3. CASE \E r \in Requests : Proceed(r) \/ BeginFails(r) \/ Fail(r)
    BY <1>3, WorkInv, GiveBackInv DEF Proceed
  <1>4. CASE Grant \/ ConnectFails
    BY <1>4, GrantInv, ConnectFailsInv
  <1> QED
    BY <1>1, <1>2, <1>3, <1>4 DEF Next, Quiescent

\* What a request holds is what its stage says, at any time.
THEOREM PoolInvariant == Spec => []PoolInv
  <1> QED
    BY PoolInit, PoolStep, PTL DEF Spec

\* Every variable of the pool keeps its type; none of the counters of a request
\* runs below zero.
THEOREM PoolTypeCorrect == Spec => []TypeOK
  <1>1. PoolInv => TypeOK
    BY DEF PoolInv
  <1> QED
    BY <1>1, PoolInvariant, PTL

\* However a handler ends, by COMMIT, by an error of a statement after BEGIN, of
\* the audit insert or of the connection to be opened, its clients and its row
\* lock are given back; a BEGIN that fails keeps one client, and no lock.
THEOREM ClientsAreReturned == Spec => []ClientsReturned
  <1>1. PoolInv => ClientsReturned
    BY DEF PoolInv, TypeOK, ClientOfStage, OneHolder, LockOfStage, ClientsReturned,
           Holding, InFlight, Lockable
  <1> QED
    BY <1>1, PoolInvariant, PTL

-----------------------------------------------------------------------------
(* A pool that is exhausted: every client is held by someone who cannot     *)
(* move, so the pool has none to hand out and nobody comes to give one back. *)

\* In an exhausted pool whoever holds a client waits.
LEMMA HoldersWait ==
  ASSUME PoolInv, Exhausted, NEW r \in Requests, pc[r] \in Holding
  PROVE  Starved(r) \/ Blocked(r) \/ pc[r] = "unreleased"
  <1>1. work[r] \in Clients
    BY DEF PoolInv, TypeOK, ClientOfStage
  <1>2. PICK q \in Requests : work[q] = work[r] /\ (Starved(q) \/ Blocked(q) \/ pc[q] = "unreleased")
    BY <1>1 DEF Exhausted
  <1>3. q = r
    BY <1>1, <1>2 DEF PoolInv, OneHolder
  <1> QED
    BY <1>2, <1>3

\* So no request can take a step but to arrive.
LEMMA NobodyMoves ==
  ASSUME PoolInv, Exhausted, NEW r \in Requests
  PROVE  ~Proceed(r) /\ ~BeginFails(r) /\ ~Fail(r)
  <1>1. pc[r] \notin {"beginning", "working", "locked", "auditing"}
    BY HoldersWait DEF Holding, Starved, Blocked
  <1>2. ~Passes(r)
    <2> SUFFICES ASSUME Passes(r) PROVE FALSE
      OBVIOUS
    <2>1. pc[r] = "updating" /\ lock[Wanted(r)] = None
      BY <1>1 DEF Passes
    <2>2. PICK q \in Requests : lock[Wanted(r)] = q
      BY <2>1, HoldersWait DEF Holding, Starved, Blocked
    <2> QED
      BY <2>1, <2>2
  <1> QED
    BY <1>1, <1>2 DEF Proceed, Begin, BeginFails, Fail, Reach, Write, AskSecond, Audited, Commit, Statement

\* One step out of an exhausted pool leads into an exhausted pool.
LEMMA ExhaustedStep ==
  ASSUME PoolInv, Exhausted, [Next]_vars
  PROVE  Exhausted'
  <1>1. ~Grant /\ ~ConnectFails
    <2>1. Free = {}
      BY DEF Exhausted, Free
    <2> QED
      BY <2>1 DEF Grant, ConnectFails
  <1>2. CASE UNCHANGED vars
    BY <1>2 DEF vars, Exhausted, Starved, Blocked, Wanted, Transactional
  <1>3. CASE \E r \in Requests, c \in Call : Arrive(r, c)
    <2>1. PICK r \in Requests, c \in Call : Arrive(r, c)
      BY <1>3
    <2>2. \A q \in Requests : Starved(q) => Starved(q)'
      BY <2>1 DEF Arrive, Goto, Starved, PoolInv, TypeOK
    <2>3. \A q \in Requests : Blocked(q) => Blocked(q)'
      BY <2>1, <2>2 DEF Arrive, Goto, Blocked, Wanted, Transactional, PoolInv, TypeOK
    <2>4. \A q \in Requests : pc[q] = "unreleased" => pc'[q] = "unreleased"
      BY <2>1 DEF Arrive, Goto, PoolInv, TypeOK
    <2> QED
      BY <2>1, <2>2, <2>3, <2>4 DEF Arrive, Exhausted
  <1> QED
    BY <1>1, <1>2, <1>3, NobodyMoves DEF Next, Quiescent

\* Once every client is held by a transaction that waits for a second one, by a
\* statement that waits for the row of one, or by nobody since its BEGIN failed,
\* that is the end: the code has no timeout that would break the circle.
THEOREM ExhaustedForEver == Spec => ExhaustionLasts
  <1>1. PoolInv /\ [Next]_vars => [Exhausted => Exhausted']_vars
    BY ExhaustedStep
  <1> QED
    BY <1>1, PoolInvariant, PTL DEF Spec, ExhaustionLasts

=============================================================================

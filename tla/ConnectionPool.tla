---------------------------- MODULE ConnectionPool ----------------------------
(***************************************************************************)
(* The pool of PostgreSQL clients that all requests share.  A handler that  *)
(* runs in TransactionHelper.run keeps a client from BEGIN to COMMIT, and   *)
(* AuditLogService.log, which it awaits in between, takes a second client   *)
(* from the same pool.  Every other statement takes a client and gives it   *)
(* back.  app.module.ts sets no limit on the time a request waits for a     *)
(* client, and none on the time a statement waits for a row lock.  connect() *)
(* and BEGIN stand before the try whose finally releases the client, so a   *)
(* BEGIN that fails keeps it.                                               *)
(***************************************************************************)
EXTENDS Sequences, Naturals

CONSTANTS
  Requests,  \* HTTP requests and jobs, as far as they need the database
  Clients,   \* the clients of the pool
  Rows,      \* complaint rows
  Keys,      \* idempotency keys, each an entry of a unique index
  None

ASSUME NoneAssumption == None \notin Requests \cup Clients \cup Rows \cup Keys
ASSUME ClientsAssumption == Clients # {}

VARIABLES
  pc,     \* where each request is
  call,   \* what it does
  work,   \* the client that its transaction or its statement runs on
  second, \* the client of its audit row, inside a transaction
  left,   \* how often it will still ask for a client
  queue,  \* requests that wait for a client, first come first served
  lock    \* the transaction that has updated a row, or inserted a key

vars == <<pc, call, work, second, left, queue, lock>>

-----------------------------------------------------------------------------

\* The requests told apart: create(), and the upload of evidence, insert fresh
\* rows, create() perhaps with a key, and write one audit row or, for create()
\* with a file, two; updateStatus(), assign and escalate lock the complaint's row
\* before their audit row; update() reads, saves and audits in three statements;
\* the rest reads, and so does create() in a statement of its own before its
\* transaction.
Call ==
  [kind : {"insert"}, row : Keys \cup {None}, asks : 2 .. 3]
    \cup [kind : {"change"}, row : Rows, asks : {2}]
    \cup [kind : {"edit"}, row : Rows, asks : {3}]
    \cup [kind : {"read"}, row : {None}, asks : {1}]

NoCall == [kind |-> "none", row |-> None, asks |-> 0]

\* What a transaction may lock.
Lockable == Rows \cup Keys

Transactional(r) == call[r].kind \in {"insert", "change"}

InFlight == {"connecting", "beginning", "working", "updating", "locked", "waiting", "auditing"}

\* An "unreleased" request has failed as well, but kept its client.
Ended == {"done", "failed", "unreleased"}

TypeOK ==
  /\ pc \in [Requests -> {"idle"} \cup InFlight \cup Ended]
  /\ call \in [Requests -> Call \cup {NoCall}]
  /\ work \in [Requests -> Clients \cup {None}]
  /\ second \in [Requests -> Clients \cup {None}]
  /\ left \in [Requests -> 0 .. 3]
  /\ queue \in Seq(Requests)
  /\ lock \in [Lockable -> Requests \cup {None}]

Init ==
  /\ pc = [r \in Requests |-> "idle"]
  /\ call = [r \in Requests |-> NoCall]
  /\ work = [r \in Requests |-> None]
  /\ second = [r \in Requests |-> None]
  /\ left = [r \in Requests |-> 0]
  /\ queue = <<>>
  /\ lock = [w \in Lockable |-> None]

Goto(r, stage) == pc' = [pc EXCEPT ![r] = stage]

\* The request is over, and what it was about forgotten.
End(r, stage) ==
  /\ Goto(r, stage)
  /\ call' = [call EXCEPT ![r] = NoCall]
  /\ left' = [left EXCEPT ![r] = 0]

Free == {c \in Clients : \A r \in Requests : work[r] # c /\ second[r] # c}

-----------------------------------------------------------------------------

\* A request arrives and asks for its first client.
Arrive(r, c) ==
  /\ pc[r] = "idle"
  /\ call' = [call EXCEPT ![r] = c]
  /\ left' = [left EXCEPT ![r] = c.asks]
  /\ queue' = Append(queue, r)
  /\ Goto(r, "connecting")
  /\ UNCHANGED <<work, second, lock>>

\* Where a request goes on with the client it is handed: to its audit row, to
\* BEGIN, or to its one statement.
Served(r) ==
  IF pc[r] = "waiting" THEN "auditing"
  ELSE IF Transactional(r) THEN "beginning" ELSE "working"

\* Faulty variant of Grant: the pool keeps one client back.
GrantReserving ==
  /\ queue # <<>>
  /\ \E c, d \in Free :
       /\ c # d
       /\ work' = [work EXCEPT ![Head(queue)] =
                     IF pc[Head(queue)] = "connecting" THEN c ELSE @]
       /\ second' = [second EXCEPT ![Head(queue)] =
                       IF pc[Head(queue)] = "waiting" THEN c ELSE @]
  /\ left' = [left EXCEPT ![Head(queue)] = @ - 1]
  /\ Goto(Head(queue), Served(Head(queue)))
  /\ queue' = Tail(queue)
  /\ UNCHANGED <<call, lock>>

\* The pool hands a free client to the request that has waited longest.
Grant ==
  /\ queue # <<>>
  /\ \E c \in Free :
       IF pc[Head(queue)] = "connecting"
       THEN work' = [work EXCEPT ![Head(queue)] = c] /\ UNCHANGED second
       ELSE second' = [second EXCEPT ![Head(queue)] = c] /\ UNCHANGED work
  /\ left' = [left EXCEPT ![Head(queue)] = @ - 1]
  /\ Goto(Head(queue), Served(Head(queue)))
  /\ queue' = Tail(queue)
  /\ UNCHANGED <<call, lock>>

\* What the finally of TransactionHelper.run gives back.
GiveBack(r) ==
  /\ work' = [work EXCEPT ![r] = None]
  /\ second' = [second EXCEPT ![r] = None]
  /\ lock' = [w \in Lockable |-> IF lock[w] = r THEN None ELSE lock[w]]

\* The client has to be opened first, and cannot be: who waited longest gets the
\* error, and gives back the client of its transaction, if it has one.
ConnectFails ==
  /\ queue # <<>> /\ Free # {}
  /\ GiveBack(Head(queue))
  /\ End(Head(queue), "failed")
  /\ queue' = Tail(queue)

\* startTransaction.
Begin(r) ==
  /\ pc[r] = "beginning"
  /\ Goto(r, "working")
  /\ UNCHANGED <<call, work, second, left, queue, lock>>

\* BEGIN fails before the try is entered: nothing calls release().
BeginFails(r) ==
  /\ pc[r] = "beginning"
  /\ End(r, "unreleased")
  /\ UNCHANGED <<work, second, queue, lock>>

\* The row or key that the statement r has come to will lock.
Wanted(r) ==
  IF Transactional(r) \/ (call[r].kind = "edit" /\ left[r] = 1)
  THEN call[r].row ELSE None

\* The statement is sent; it waits while the row is locked or the key is held.
Reach(r) ==
  /\ pc[r] = "working" /\ Wanted(r) # None
  /\ Goto(r, "updating")
  /\ UNCHANGED <<call, work, second, left, queue, lock>>

\* The row is there for r, or r wants none.
Passes(r) ==
  \/ pc[r] = "working" /\ Wanted(r) = None
  \/ pc[r] = "updating" /\ lock[Wanted(r)] = None

\* The statements of a transaction up to its audit row; what they lock is kept
\* to the end.
Write(r) ==
  /\ Transactional(r) /\ Passes(r)
  /\ lock' = [w \in Lockable |-> IF w = Wanted(r) THEN r ELSE lock[w]]
  /\ Goto(r, "locked")
  /\ UNCHANGED <<call, work, second, left, queue>>

\* Faulty variant of AskSecond: once more than there are audit rows.
AskSecondAgain(r) ==
  /\ pc[r] = "locked"
  /\ queue' = Append(queue, r)
  /\ Goto(r, "waiting")
  /\ UNCHANGED <<call, work, second, left, lock>>

\* auditLogRepository.save asks for a client while the transaction keeps its own.
AskSecond(r) ==
  /\ pc[r] = "locked" /\ left[r] > 0
  /\ queue' = Append(queue, r)
  /\ Goto(r, "waiting")
  /\ UNCHANGED <<call, work, second, left, lock>>

\* The audit row is committed and its client given back.
Audited(r) ==
  /\ pc[r] = "auditing"
  /\ second' = [second EXCEPT ![r] = None]
  /\ Goto(r, "locked")
  /\ UNCHANGED <<call, work, left, queue, lock>>

\* Faulty variant of Commit: the query runner is not released.
CommitKeeping(r) ==
  /\ pc[r] = "locked" /\ left[r] = 0
  /\ lock' = [w \in Lockable |-> IF lock[w] = r THEN None ELSE lock[w]]
  /\ End(r, "done")
  /\ UNCHANGED <<work, second, queue>>

Commit(r) ==
  /\ pc[r] = "locked" /\ left[r] = 0
  /\ GiveBack(r)
  /\ End(r, "done")
  /\ UNCHANGED queue

\* A statement outside a transaction ends, and the client goes back before the
\* request asks for the next one.
Statement(r) ==
  /\ ~Transactional(r) /\ Passes(r)
  /\ GiveBack(r)
  /\ IF left[r] = 0
     THEN End(r, "done") /\ UNCHANGED queue
     ELSE Goto(r, "connecting") /\ queue' = Append(queue, r) /\ UNCHANGED <<call, left>>

\* Faulty variant of Fail: waiting for a client ends in an error as well, as it
\* would with a connection timeout.
FailWaiting(r) ==
  /\ pc[r] \in InFlight
  /\ GiveBack(r)
  /\ queue' = SelectSeq(queue, LAMBDA q : q # r)
  /\ End(r, "failed")

\* A statement after BEGIN fails, for instance because the key it waited for is
\* taken by now: everything is given back.  One that waits for a client or a lock goes on
\* waiting.
Fail(r) ==
  /\ pc[r] \in {"working", "locked", "auditing"} \/ Passes(r)
  /\ GiveBack(r)
  /\ End(r, "failed")
  /\ UNCHANGED queue

Proceed(r) ==
  \/ Begin(r)
  \/ Reach(r) \/ Write(r) \/ AskSecond(r) \/ Audited(r) \/ Commit(r) \/ Statement(r)

-----------------------------------------------------------------------------
(* The state in which the pool is stuck.                                    *)

\* A transaction that waits for its second client, and a request that waits,
\* client in hand, for the row that such a transaction has locked.
Starved(r) == pc[r] = "waiting"

Blocked(r) ==
  /\ pc[r] = "updating"
  /\ \E q \in Requests : lock[Wanted(r)] = q /\ Starved(q)

\* Every client is held by one of these, or by a request whose BEGIN failed.
Exhausted ==
  \A c \in Clients : \E r \in Requests :
    work[r] = c /\ (Starved(r) \/ Blocked(r) \/ pc[r] = "unreleased")

Quiescent ==
  /\ (\A r \in Requests : pc[r] \in Ended) \/ Exhausted
  /\ UNCHANGED vars

Next ==
  \/ \E r \in Requests :
       \/ \E c \in Call : Arrive(r, c)
       \/ Proceed(r) \/ BeginFails(r) \/ Fail(r)
  \/ Grant \/ ConnectFails
  \/ Quiescent

Spec == Init /\ [][Next]_vars

\* The pool serves its queue, and PostgreSQL the statements it is given.
FairSpec == Spec /\ WF_vars(Grant) /\ \A r \in Requests : WF_vars(Proceed(r))

-----------------------------------------------------------------------------
(* Properties.                                                              *)

\* Whoever waits is served, unless each client is held by a transaction that
\* waits for a second one, by who waits for the row of such a one, or by a
\* request that ended at its BEGIN.
ServedOrExhausted ==
  \A r \in Requests : pc[r] \in InFlight ~> pc[r] \in Ended \/ Exhausted

\* A pool that is exhausted stays so: as long as the connections last, no timeout
\* and no other request gives a client back.
ExhaustionLasts == [][Exhausted => Exhausted']_vars

\* A client that is taken is in the hands of one request in flight, and so is a
\* row lock. Whatever way a request ends, it keeps neither, but for the client of
\* a BEGIN that failed: that one is lost to the pool.
ClientsReturned ==
  /\ \A q, r \in Requests, c \in Clients :
       /\ c \in {work[q], second[q]} =>
            pc[q] \in InFlight \/ (pc[q] = "unreleased" /\ c = work[q])
       /\ c \in {work[q], second[q]} \cap {work[r], second[r]} => q = r
  /\ \A w \in Lockable, r \in Requests : lock[w] = r => pc[r] \in InFlight /\ work[r] # None

=============================================================================

------------------------------ MODULE CaseFile ------------------------------
(***************************************************************************)
(* What a complaint's case file promises, free of requests, transactions    *)
(* and locks: the status moves in single steps, every move is entered in    *)
(* the timeline under the status it left, the entries are in the order of   *)
(* the moves, and the description is edited only while that is allowed.     *)
(***************************************************************************)
EXTENDS Naturals

CONSTANTS
  Complaints,
  Initial,      \* the status of a new complaint
  Editable,     \* the statuses in which the description may be edited
  Closing       \* the statuses that stamp the closing time

VARIABLES
  status,       \* status of each complaint
  closedAt,     \* stamp of the latest closing of each complaint
  details,      \* description of each complaint
  timeline      \* entries [at, previousStatus, newStatus] of each complaint

vars == <<status, closedAt, details, timeline>>

Init ==
  /\ status = [c \in Complaints |-> Initial]
  /\ timeline = [c \in Complaints |-> {}]

\* The status of c moves, and an entry later than all others says so.
Move(c) ==
  /\ \E e \in timeline'[c] :
       /\ e.previousStatus = status[c]
       /\ status' = [status EXCEPT ![c] = e.newStatus]
       /\ \A d \in timeline[c] : d.at < e.at
       /\ timeline' = [timeline EXCEPT ![c] = @ \cup {e}]
  /\ IF status'[c] \in Closing
     THEN /\ closedAt'[c] # closedAt[c]
          /\ closedAt' = [closedAt EXCEPT ![c] = closedAt'[c]]
     ELSE UNCHANGED closedAt
  /\ UNCHANGED details

\* The description of c changes.
Edit(c) ==
  /\ status[c] \in Editable
  /\ details' = [details EXCEPT ![c] = details'[c]]
  /\ UNCHANGED <<status, closedAt, timeline>>

Next == \E c \in Complaints : Move(c) \/ Edit(c)

Spec == Init /\ [][Next]_vars

=============================================================================

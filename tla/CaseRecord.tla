----------------------------- MODULE CaseRecord -----------------------------
(***************************************************************************)
(* What the status of a complaint promises to everybody who reads it, how   *)
(* many requests ever work on it at a time: a complaint appears once, as    *)
(* submitted, and is never removed; its status moves with an entry in the   *)
(* timeline, or falls back to one that the timeline already holds.          *)
(***************************************************************************)
CONSTANTS
  Complaints,
  ComplaintStatus,
  Initial,      \* the status of a new complaint
  None          \* the status of a complaint that is not submitted yet

VARIABLES
  status,       \* status of each complaint
  timeline      \* the statuses that the timeline of each complaint names

vars == <<status, timeline>>

Init ==
  /\ status \in [Complaints -> {Initial, None}]
  /\ timeline = [c \in Complaints |-> {status[c]} \ {None}]

\* The status of c becomes s, with or without an entry that says so.
Enter(c, s) ==
  /\ status' = [status EXCEPT ![c] = s]
  /\ timeline' = [timeline EXCEPT ![c] = @ \cup {s}]

\* A new complaint.
Submit(c) == status[c] = None /\ Enter(c, Initial)

\* A change of status, recorded.
Move(c, s) == status[c] # None /\ Enter(c, s)

\* The late write of a reader: an earlier status comes back, unrecorded.
Restore(c) == \E s \in timeline[c] : Enter(c, s)

Change(c) == Submit(c) \/ Restore(c) \/ \E s \in ComplaintStatus : Move(c, s)

Next == \E c \in Complaints : Change(c)

Spec == Init /\ [][Next]_vars

=============================================================================

-------------------------- MODULE ComplaintCaseFile --------------------------
(***************************************************************************)
(* ComplaintWorkflow against its two abstract specifications.  The tables   *)
(* hold a CaseFile as long as no two requests work on the same complaint at *)
(* a time, and a CaseRecord whatever the requests do.                       *)
(***************************************************************************)
EXTENDS ComplaintWorkflow

Entries(c) ==
  {[at |-> h.at, previousStatus |-> h.previousStatus, newStatus |-> h.newStatus] :
     h \in {g \in history : g.complaint = c}}

CF == INSTANCE CaseFile WITH
        Initial <- "submitted",
        status <- [c \in Complaints |-> complaint[c].status],
        closedAt <- [c \in Complaints |-> complaint[c].closedAt],
        details <- [c \in Complaints |-> complaint[c].details],
        timeline <- [c \in Complaints |-> Entries(c)]

\* One request at a time per complaint, the handlers implement the case file:
\* the timeline is linked and ordered, and its last entry is the status.
ImplementsCaseFile == CF!Spec

Statuses(c) == {"submitted"} \cup {h.newStatus : h \in {g \in history : g.complaint = c}}

CR == INSTANCE CaseRecord WITH
        Initial <- "submitted",
        status <- [c \in Complaints |-> complaint[c].status],
        timeline <- [c \in Complaints |-> Statuses(c)]

\* However the requests interleave, the handlers implement the case record: a
\* status is new only together with its history row, and a stale write of
\* update() brings back only what the history already names.
ImplementsCaseRecord == CR!Spec

=============================================================================

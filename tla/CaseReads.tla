----------------------------- MODULE CaseReads ------------------------------
(***************************************************************************)
(* What the reading handlers show while others write.  A complaint is       *)
(* tracked, shown in detail or listed, and the reports and the dashboard    *)
(* count complaints, each with several SELECTs outside any transaction: at  *)
(* READ COMMITTED every SELECT sees what is committed when it runs.         *)
(*                                                                          *)
(* The status of a complaint is written as CaseRecord says, which is what   *)
(* ComplaintWorkflow implements (see ComplaintCaseFile); the rows around it *)
(* are those of Casework.                                                   *)
(***************************************************************************)
EXTENDS Casework, Sequences

CONSTANTS
  Readers,      \* reading requests
  Complaints,
  Statuses,     \* the statuses that writers give
  MaxChanges    \* bound: changes of complaints

ASSUME BoundsAssumption == MaxChanges \in Nat
ASSUME ComplaintsAssumption == IsFiniteSet(Complaints)
ASSUME NullAssumption == None \notin Nat /\ None \notin Statuses \cup {"submitted"}

VARIABLES
  status,       \* status of each complaint, None before it is submitted
  timeline,     \* the statuses that its history rows name
  due,          \* complaints whose slaDueDate has passed
  changes,      \* number of changes of complaints so far
  reading,      \* where each reader is
  query,        \* what it was asked
  since,        \* number of changes before it was asked
  answer        \* what its SELECTs have returned so far

readVars == <<status, timeline, due, changes, reading, query, since, answer>>
vars == <<caseworkVars, readVars>>

Cases == INSTANCE CaseRecord WITH
           ComplaintStatus <- Statuses, Initial <- "submitted"

\* The statuses that the dashboard and the reports tell apart.
OpenStatus == {"submitted", "under_review", "under_investigation", "assigned"}
ResolvedStatus == {"resolved", "closed"}
Terminal == {"resolved", "closed", "withdrawn"}

-----------------------------------------------------------------------------
(* The SELECTs of each reading handler: a sequence of batches; those of a    *)
(* batch are issued together and answered in any order.                     *)

\* Faulty variant of Track: the history is read first.
TrackReversed == <<{"history"}, {"status"}, {"attachments"}>>

Track == <<{"status"}, {"history"}, {"attachments"}>>

\* Faulty variant of Summary: the total is counted last.
SummaryReversed == <<{"byStatus"}, {"byCategory"}, {"bySeverity"}, {"total"}>>

Summary == <<{"total"}, {"byStatus"}, {"byCategory"}, {"bySeverity"}>>

\* The complaint with its people; its files; its assignments.
Detail == <<{"status"}, {"attachments"}, {"assignments"}>>

\* getManyAndCount: the page, then the count.
List == <<{"listed"}, {"total"}>>

OverdueReport == <<{"overdue"}, {"overdueByCategory"}>>

EscalationReport == <<{"escalations"}, {"byReason"}>>

\* The counts are asked for together.
Dashboard ==
  <<{"total", "open", "resolved", "pendingEscalations"}, {"overdue"}, {"listed"}>>

Resolution == <<{"resolved"}>>

Trend == <<{"byPeriod"}>>

Plan ==
  [track |-> Track, detail |-> Detail, list |-> List,
   timeline |-> <<{"history"}>>, notes |-> <<{"notes"}>>, custody |-> <<{"custody"}>>,
   summary |-> Summary, resolution |-> Resolution, trend |-> Trend,
   overdue |-> OverdueReport, escalations |-> EscalationReport,
   dashboard |-> Dashboard]

Kind == DOMAIN Plan

\* A list may be filtered.  The filter by status stands for those by any column
\* that changes; None is a list of all complaints, and no list.
Query ==
  {x \in [kind : Kind, complaint : Complaints, filter : Statuses \cup {"submitted", None}] :
     x.filter # None => x.kind = "list"}

Part == {"status", "history", "attachments", "assignments", "listed", "total",
         "notes", "custody", "byStatus", "byCategory", "bySeverity", "byPeriod",
         "resolved", "open", "overdue", "overdueByCategory", "escalations",
         "byReason", "pendingEscalations"}

Submitted == {c \in Complaints : status[c] # None}

InStatus(S) == Cardinality({c \in Submitted : status[c] \in S})

\* The complaints that pass a filter.
Matching(filter) == Cardinality({c \in Submitted : filter \in {None, status[c]}})

Overdue == Cardinality({c \in Submitted \cap due : status[c] \notin Terminal})

\* What a SELECT of a query returns now.  The groups of a GROUP BY are taken together.
\* The dashboard asks for escalations in status PENDING, in capitals.
Selected(part, asked) ==
  CASE part = "status" -> status[asked.complaint]
    [] part = "history" -> timeline[asked.complaint]
    [] part = "attachments" -> Rows({"evidence"})
    [] part = "assignments" -> Rows({"assignment"})
    [] part = "notes" -> Rows({"note"})
    [] part = "custody" -> custody
    [] part \in {"listed", "total"} -> Matching(asked.filter)
    [] part = "open" -> InStatus(OpenStatus)
    [] part = "resolved" -> InStatus(ResolvedStatus)
    [] part \in {"overdue", "overdueByCategory"} -> Overdue
    [] part \in {"escalations", "byReason"} -> Cardinality(Rows({"escalation"}))
    [] part = "pendingEscalations" ->
         Cardinality({i \in Rows({"escalation"}) : row[i].status = "PENDING"})
    [] OTHER -> Cardinality(Submitted)

TypeOK ==
  /\ CaseworkTypeOK
  /\ status \in [Complaints -> Statuses \cup {"submitted", None}]
  /\ timeline \in [Complaints -> SUBSET (Statuses \cup {"submitted"})]
  /\ due \subseteq Complaints
  /\ changes \in 0..MaxChanges
  /\ reading \in [Readers -> {"idle", "asked", "done", "failed"}]
  /\ query \in [Readers -> Query \cup {None}]
  /\ since \in [Readers -> 0..MaxChanges]

Init ==
  /\ CaseworkInit
  /\ Cases!Init /\ status = [c \in Complaints |-> None]
  /\ due = {}
  /\ changes = 0
  /\ reading = [q \in Readers |-> "idle"]
  /\ query = [q \in Readers |-> None]
  /\ since = [q \in Readers |-> 0]
  /\ answer = [q \in Readers |-> [p \in Part |-> None]]

-----------------------------------------------------------------------------
(* Writers.                                                                 *)

\* A complaint changes, in one step of the case record.  An assignment may give
\* it another due date, and a stale save bring back the one before.
Write ==
  /\ changes < MaxChanges /\ changes' = changes + 1
  /\ \E c \in Complaints :
       /\ Cases!Change(c)
       /\ \/ UNCHANGED due
          \/ c \in Submitted /\ due' \in {due \cup {c}, due \ {c}}
  /\ UNCHANGED <<reading, query, since, answer>>

\* The due date of a complaint passes.
Elapse ==
  /\ changes < MaxChanges /\ changes' = changes + 1
  /\ \E c \in Submitted \ due : due' = due \cup {c}
  /\ UNCHANGED <<status, timeline, reading, query, since, answer>>

-----------------------------------------------------------------------------
(* Readers.                                                                 *)

Ask(q) ==
  /\ reading[q] = "idle"
  /\ \E x \in Query : query' = [query EXCEPT ![q] = x]
  /\ reading' = [reading EXCEPT ![q] = "asked"]
  /\ since' = [since EXCEPT ![q] = changes]
  /\ UNCHANGED <<status, timeline, due, changes, answer>>

\* The SELECTs that reader q may see answered next: the rest of the first
\* batch that is not answered in full.
Pending(q) ==
  LET plan == Plan[query[q].kind]
      left(i) == {p \in plan[i] : answer[q][p] = None}
  IN  {p \in Part : \E i \in 1..Len(plan) :
                      p \in left(i) /\ \A j \in 1..(i - 1) : left(j) = {}}

Select(q) ==
  /\ reading[q] = "asked"
  /\ \E p \in Pending(q) :
       /\ p = "status" => query[q].complaint \in Submitted
       /\ answer' = [answer EXCEPT ![q][p] = Selected(p, query[q])]
  /\ UNCHANGED <<status, timeline, due, changes, reading, query, since>>

\* The complaint tracked or shown does not exist: 404.
NotFound(q) ==
  /\ reading[q] = "asked"
  /\ "status" \in Pending(q) /\ query[q].complaint \notin Submitted
  /\ reading' = [reading EXCEPT ![q] = "failed"]
  /\ UNCHANGED <<status, timeline, due, changes, query, since, answer>>

Respond(q) ==
  /\ reading[q] = "asked" /\ Pending(q) = {}
  /\ reading' = [reading EXCEPT ![q] = "done"]
  /\ UNCHANGED <<status, timeline, due, changes, query, since, answer>>

\* A SELECT, the decryption of a name or the signing of a file URL fails.
FailRead(q) ==
  /\ reading[q] = "asked"
  /\ reading' = [reading EXCEPT ![q] = "failed"]
  /\ UNCHANGED <<status, timeline, due, changes, query, since, answer>>

ReadStep(q) == Ask(q) \/ Select(q) \/ NotFound(q) \/ Respond(q) \/ FailRead(q)

\* Bound: once somebody reads or changes a complaint, a request on casework
\* counts for two of the changes.
Light ==
  \/ changes = 0 /\ \A q \in Readers : reading[q] = "idle"
  \/ changes + 2 * Cardinality({r \in Requests : pc[r] # "idle"}) <= MaxChanges

\* Nothing is in flight and nothing else comes.
Quiescent ==
  /\ \A r \in Requests : pc[r] \notin InFlight
  /\ \A q \in Readers : reading[q] # "asked"
  /\ UNCHANGED vars

Next ==
  \/ \E r \in Requests : CaseworkStep(r) /\ UNCHANGED readVars /\ Light'
  \/ \E q \in Readers : ReadStep(q) /\ UNCHANGED caseworkVars /\ Light'
  \/ (Write \/ Elapse) /\ UNCHANGED caseworkVars /\ Light'
  \/ Quiescent

Spec == Init /\ [][Next]_vars

-----------------------------------------------------------------------------
(* Properties.                                                              *)

Answered(q, k) == reading[q] = "done" /\ query[q].kind = k

\* Whoever tracks a complaint sees the status it shows explained by the history
\* shown below it, whatever was committed between the two SELECTs: the history
\* is read second, and a status that falls back has its entry already.
TrackedStatusExplained ==
  \A q \in Readers :
    Answered(q, "track") => answer[q]["status"] \in answer[q]["history"]

\* Figures counted by different SELECTs differ by no more than what happened
\* in between: a later count of all complaints is never smaller than an earlier
\* one, and a filtered page, the open and the resolved complaints, or the two
\* overdue counts contradict the total or each other by at most one per change.
ReportsAddUp ==
  \A q \in Readers :
    LET n == answer[q]
        drift == changes - since[q]
    IN  /\ Answered(q, "summary") =>
             /\ n["total"] <= n["byStatus"]
             /\ n["byStatus"] <= n["byCategory"]
             /\ n["byCategory"] <= n["bySeverity"]
        /\ Answered(q, "list") =>
             /\ n["listed"] <= n["total"] + drift
             /\ query[q].filter = None => n["listed"] <= n["total"]
        /\ Answered(q, "dashboard") => n["open"] + n["resolved"] <= n["total"] + drift
        /\ Answered(q, "overdue") =>
             /\ n["overdue"] <= n["overdueByCategory"] + drift
             /\ n["overdueByCategory"] <= n["overdue"] + drift

=============================================================================

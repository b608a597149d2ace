# Smart Police Complaint and Accountability Portal: verification project

TLA+ modules, TLC configurations and TLAPS proofs about the NestJS backend in
`src/`. The backend is one Node.js process (`ecosystem.config.js`: `instances: 1`)
in front of PostgreSQL (TypeORM, READ COMMITTED), Redis (BullMQ) and a directory
of uploaded files. Requests run concurrently: whenever a handler awaits a statement,
another handler may run. That, and the failure of any statement in between, is
what the modules are about.

    tlc -workers 2 -config workflow.cfg MCComplaintWorkflow
    tlapm ComplaintCaseFile_proofs.tla

## 1. The system

| component | state it keeps | operations | talks to |
|---|---|---|---|
| Complaint workflow (`complaints`, `complaint-assignments`, `oversight`, `complaint-status-history`) | a row of `complaints`; rows of `complaint_status_history`, `complaint_assignments`, `escalation_records` | `update`, `updateStatus`, assign, escalate; `addNote` | audit log, notification queue |
| Complaint submission (`complaints.create`) | complaint, first history row, officer links, evidence and custody rows | `create` with idempotency key and files | storage, audit log, both queues |
| Accounts and sessions (`auth`, `users`) | `users`, `refresh_tokens` | login, refresh, logout, changePassword; create, update, roles, activate, deactivate | audit log |
| Transactions and connection pool (`shared/database`, `app.module.ts`) | clients of the pool, who holds and who waits | `TransactionHelper.run`, every statement | PostgreSQL |
| Audit log (`audit-logs`) | rows that are never changed | `log`, queries | called by all others, on a connection of its own |
| Background jobs (`jobs`, `notifications`) | jobs in Redis, rows of `notifications` | notification, classification and overdue workers; `create`, `markSent`, `markFailed` | complaints |
| Casework (`complaint-assignments`, `evidence`, `oversight`, `ai`, notes) | assignments, chain of custody, escalations, analyses | reassign, `updateStatus` of an assignment, evidence upload and access, `review`, `requestAnalysis`, `addNote` | audit log, storage, mock AI provider |
| File storage (`integrations/storage`, `file-access`) | files on disk | upload, delete, signed URLs | - |
| Accounts, officers, stations (`users`, `officers`, `police-stations`) | their tables | create, update, CSV parser, row-by-row import | audit log |
| Roles, permissions, guards (`roles`, `common/guards`, `seeds`) | `roles`, junction tables, claims in access tokens | CRUD of roles, `assignRoles`, checks per request, seed script | users |
| Reports, dashboard, tracking (`reports`, `admin`, the reading routes) | none | several SELECTs per answer | all tables |
| Health, configuration, filters, payload encryption, idempotency interceptor | none | pure functions, start-up | - |

**What is hard about it.** There is no row lock before a decision and no version column:
every handler reads an entity, awaits, and saves it, and `save` reads the row a second
time and writes the columns that differ. `update`, all of `auth`, `users` and `roles`,
reviews and imports run without a transaction. The audit row is written on a connection
other than the transaction's, files and jobs are outside any transaction, and the COMMIT
itself can fail or go unanswered. Jobs are retried and taken back when their process
dies. Tokens are compared by a hash that depends on the second in which they were
signed.

**What makes it correct**, component by component:

- workflow: the timeline records every status, the audit log every entry of the
  timeline, and nothing that was rolled back is ever seen;
- submission: one answer per idempotency key; an acknowledged complaint is
  complete; no evidence row without its file, no file without a reason;
- sessions: a session has one live token, logged-out and revoked ones stay dead,
  and what is in flight is the only exception; nobody is locked out without the
  failures to show for it;
- pool: whoever waits for a connection gets one, and gives it back;
- jobs: a completed job has done its work, retries are bounded, every job ends;
- casework: a reassignment is whole, a completion is not lost, a review is the
  reviewer's own, and evidence is opened by its id only after that is on record;
- reads: what one answer puts together from several SELECTs is coherent up to
  what happened in between;
- accounts and roles: what was taken away stays away, and access that was lost
  ends with the lifetime of a token;
- import: an upload reports what it did, and the parser reads what the file says.

The hazards are listed one by one, at their lines, in `PROJECT.json`.

## 2. The modules

| module | models | extends / composes |
|---|---|---|
| `ComplaintWorkflow` | the four handlers that change a complaint | - |
| `CaseFile` | abstract: what a complaint's case file promises | - |
| `CaseRecord` | abstract: what a status promises whatever runs at the same time | - |
| `ComplaintCaseFile` | the two refinement mappings | `ComplaintWorkflow`, `INSTANCE CaseFile`, `INSTANCE CaseRecord` |
| `ComplaintWorkflow_proofs` | theorems about `ComplaintWorkflow` | `ComplaintWorkflow` |
| `ComplaintCaseFile_proofs` | the refinements of `CaseRecord` and `CaseFile`, proved | `ComplaintCaseFile`, `ComplaintWorkflow_proofs` |
| `ComplaintSubmission` | `ComplaintsService.create` | - |
| `ComplaintSubmission_proofs` | theorems about it | `ComplaintSubmission` |
| `AccountSessions` | one account and its refresh tokens | - |
| `AccountSessions_proofs` | theorems about it | `AccountSessions` |
| `BackgroundJobs` | the two queues `create` feeds, and their workers | - |
| `BackgroundJobs_proofs` | theorems about it | `BackgroundJobs` |
| `ConnectionPool` | who holds which PostgreSQL client | - |
| `ConnectionPool_proofs` | theorems about `ConnectionPool` | `ConnectionPool` |
| `Casework` | the rows around a complaint and their seven handlers | - |
| `CaseReads` | readers next to the writers of casework and of complaints | `Casework`, `INSTANCE CaseRecord` |
| `CaseReads_proofs` | theorems about casework and its readers | `CaseReads` |
| `AccessControl` | accounts, roles, officers, stations, access tokens, the seed script | - |
| `UserImport` | the three bulk uploads, next to single requests | `AccessControl` |
| `UserImport_proofs` | theorems about accounts, roles, tokens and uploads | `UserImport` |
| `CsvFile` | `parseCsv`, and what a file means | - |
| `MC...` | symmetry sets for TLC; `MCUserImport` also the files uploaded | the module of the same name (and `CsvFile`) |

In every module a request (or job) has a `pc` that says where it is; each action is
the code between two awaits that others can interleave with. A step `Fail` stands
for any statement that throws. Operators called "Faulty variant of ..." are not
part of the specification: each is the operator after it with a plausible bug, and
is there to show that the properties notice.

### ComplaintWorkflow

| variable | in the code |
|---|---|
| `complaint` | committed row: `status`, `closed_at` (named by the request that stamped it), `details` (the columns `update` edits, named by the last editor) |
| `lock` | the PostgreSQL row lock an UPDATE holds until the end of its transaction |
| `history`, `assignments`, `escalations` | committed rows of those tables |
| `auditLog`, `jobs` | audit rows and notification jobs: visible at once, never rolled back |
| `call`, `entity`, `previous`, `startedAt`, `columns` | what a request holds in memory: arguments, entity, `previousStatus`, `now()` of the transaction, and the columns `save` has found to differ |
| `begun` | counter of transactions; orders `created_at` |

`Update`, `UpdateStatus`, `Assign`, `Escalate` are the `findOne` and the assignments
to the entity; `Merge` is the second SELECT of `save`; `SaveUpdate` the
autocommitted UPDATE; `SaveInTransaction` the UPDATE and INSERTs of a transaction;
`LogAudit`, `Notify`, `Commit`, `Fail` the rest. `RejectUpdate` and `NotFound` are
the early errors. A transaction's writes are invisible until `Commit`, which
overlays the chosen columns on the row as committed by then.

`Mutated` sets `closedAt` when the status becomes closed or resolved, and nothing
resets it, as in the code. Columns no decision depends on (`slaDueDate`,
`updatedBy`, `resolutionSummary`) are left out; that `updatedBy` may differ when
nothing else does is why `SaveInTransaction` may lock a row without columns to set.

### ComplaintSubmission

`LookUp` is the check of the key, `Insert` BEGIN with the inserts up to the officer
links, `Upload` / `RecordEvidence` / `AuditEvidence` one turn of
`attachEvidenceFiles`, `AuditComplaint` and `Enqueue` what follows. In the catch
block, `CleanUp` is one turn of the loop of `cleanupUploadedFiles` (a file is
deleted, or the deletion fails and is logged), and `Rethrow` the error after it;
the process may die between any two turns. `DuplicateKey` is the unique index, `UploadBreaks` a
`writeFileSync` that throws half-way, `CommitUnanswered` a COMMIT that took effect
though its reply was lost, `Crash` the end of the process. A complaint is named by the
request that created it; `leaked` is a history variable with the files a broken
write or failed delete has left. The code's order of ROLLBACK and clean-up (rollback
first) is kept by one stage `cleaning` that no longer holds the key.

### AccountSessions

`user` is the row (active flag, password, failed attempts, `lockedUntil`), `issued` and
`revoked` the refresh tokens, `now` a clock in seconds. A token is the pair of its
session and the second it was signed in: `generateTokenPair` puts no other claim that
varies into it, and `tokenHash` is unique, so `DuplicateToken` is the error that a
second token of the same session and second runs into. `Login` to `Issue`, `Refresh` to
`Issue`, `Logout`, `ChangePassword` and `RevokeAllUserTokens`, `Edit` to `SaveUser`,
`SetActive` and `WriteActive` follow the handlers statement by statement. `lineage`,
`ended`, `during` and `earlier` are history variables: the requests a token descends
from, the sessions a `revokeAllUserTokens` met, the requests then in flight, and the
requests that were over when a request arrived. `lastLoginAt` and `lastLoginIp` are not
modelled; a login under an unknown address touches no account.

### BackgroundJobs

A job belongs to a complaint whose transaction may still be open (`Add` happens inside
it), is taken by the one worker of its queue, and is retried (`attempts`) or taken
back after a crash (`stalls`). `Create` and `MarkSent` are the two statements of
`NotificationProcessor`; a statement may also take effect and still throw.
`Classify` is `AiAnalysisProcessor` on the job that `create` adds: it has no
`analysisTypes`, so the worker throws whenever the complaint can be read, and
completes without a result when it cannot. BullMQ is external: its states are
modelled from the options in `queue.config.ts` and its documented life cycle.

### ConnectionPool

A request is reduced to how often it asks for a client and what it locks. `Arrive`,
`Grant` and `Statement` are a statement outside a transaction; `Write`, `AskSecond`,
`Audited` and `Commit` a transaction, which keeps its client while `AuditLogService.log`
asks for a second - twice, one after the other, if `create` stores a complaint with a
file. `create` with an idempotency key locks the key as well. `Begin` is
`startTransaction`, which stands before the `try` of `TransactionHelper.run`: if it
fails (`BeginFails`), nothing calls `release`, and the request ends `unreleased`, its
client kept. `ConnectFails` is a client that cannot be opened. `app.module.ts` sets
neither a pool size nor a connection timeout (`database.config.ts` is not what it passes
on), so the pool has pg's default of ten clients and waits without limit; no
`lock_timeout` is set either. `GiveBack` is the `finally` of `TransactionHelper.run`.

### Casework

`row` holds the rows that exist from the start (an assignment, an escalation, a piece of
evidence) and one per inserting request; `custody` and `auditLog` are tables, `lock` the
row locks of open transactions, `overlaps` a history variable: which requests worked on
one row at a time. `Begin` is the `findOne` and the assignments to the entity, `Merge`
and `Save` the two halves of `save`, as in `ComplaintWorkflow`. `Reassign`, `Merge`,
`SaveInTransaction`, `LogAudit`, `Commit` is `reassign`; `Upload`,
`InsertInTransaction`, `LogAudit`, `Commit` is `EvidenceService.create`. `RecordAccess`
comes before `Open`, as in `EvidenceController.findById`: the custody row and the audit
row are written first, then the evidence is looked up. A remark is the recommendation of
an escalation or the reason of an override. Who reviews, with which verdict and which
remark, is any choice of `Reviewers`, `Verdicts` and `Remarks` (or no remark): what is
given may equal what the row holds, and then drops out of the columns that `save`
writes.

### CaseReads

`Plan` lists, for every reading handler, its SELECTs in batches: those of a
`Promise.all` are answered in any order, others one after the other. `Selected` is
what a SELECT returns at the moment it runs. Complaints are written by
`CaseRecord!Change`, the abstract specification that `ComplaintWorkflow` is shown to
implement, so the readers are checked against all the writers of that module, stale
saves included; with the status, the due date may change, as in an assignment.
`Elapse` is the passing of an `slaDueDate`. A list may be filtered: the filter by status
stands for all of `findAll`'s filters by a column that changes.

### AccessControl

`row[x].grants` is a many-to-many relation: the roles of an account, the permissions
of a role. `Merge` and `Save` are `save` with its relation: it reads the junction rows
again, inserts what the entity has more and deletes what it has less, and inserts
the whole row if it is gone. `LookUp` is `findByIds`, which drops unknown ids.
`MergeDelete` and `RemoveRole` are `remove`: the accounts are found first; an account
that is given the role in between makes the DELETE fail on its foreign key.
`Sign` and `Issue` are `login` or `refreshTokens` as far as claims are concerned,
`UseToken` the two guards, which look at nothing but the token; `CommitSeed` is the
transaction of `initial-seed.ts`. `asked`, `before` and `lost` are history variables:
the calls, their order in real time, and since when an account lacks a permission.
`Observe` keeps `lost` up to date in every step.

### UserImport and CsvFile

`StartUpload` to `Answer` are one `bulkUpload`, `at` its loop index. `SkipBlank` and
`RejectRow` are the two `continue`s and the conflict that `create` finds, `Abort` the
exception of `resolveBulkUploadRoleIds` outside the `try`, `CreateRow` the
beginning of `create`, which goes on with `Insert`, `LookUp`, `Merge` and `Save` of
`AccessControl`; `RowCreated` and `RowFailed` are the two ends of the `try`.
`creator` remembers which request and row inserted a key. Officers and stations have no
roles column: `roles` is `None`.

`Parsed` is `parseCsv`, one character at a time with one character of look-ahead;
`Meaning` says without a parser which rows and cells the quotes, commas and newlines
of a text delimit. The headers are a row like any other; finding a column by its
header is left out.

## 3. What the runs check

| run | instance | checks | result |
|---|---|---|---|
| `workflow` | 3 requests, 1 complaint, 3 target statuses | `TypeOK`, `HistoryAudited`, `HistoryConnected`, `RollbackLeavesNoTrace`, `StatusChangeRecorded`, `ImplementsCaseRecord` | hold |
| `workflow_serial` | 4 requests, one at a time per complaint | `ImplementsCaseFile` | holds |
| `workflow_unlogged` | 2 requests | `EveryStatusChangeLogged` | violated |
| `submission` | 3 requests, 1 key, up to 1 file | `TypeOK`, `SameKeySameAnswer`, `AcknowledgedComplete` | hold |
| `submission_files` | 2 requests, 1 key, up to 2 files | `FilesAccounted`, `EvidenceHasFile`, `EverySubmissionEnds` | hold |
| `submission_retry` | 3 requests, up to 2 files | `SafeRetry` | violated |
| `sessions` | 3 requests, 2 attempts, 4 seconds | `TypeOK`, `NoEarlyLockout`, `OneTokenUnlessRaced`, `SessionsEnded`, `OldPasswordOut`, `LoggedOut` | hold |
| `sessions_reuse` | 3 requests, 3 seconds | `AllSessionsTerminated` | violated |
| `jobs` | 2 jobs, 2 attempts, 1 stall | `TypeOK`, `CompletedSent`, `BoundedRepetition`, `PendingExplained`, `EveryJobFinishes` | hold |
| `pool` | 3 requests, 2 clients, 1 row, 1 key | `TypeOK`, `ClientsReturned`, `ServedOrExhausted`, `ExhaustionLasts` | hold |
| `casework` | 3 requests on casework (2 reviewers, 1 remark), or 1 reader with 2 complaints and 3 changes, or both | `TypeOK`, `ReassignmentWhole`, `CompletionSurvives`, `CustodyKept`, `ReviewAttributed`, `TrackedStatusExplained`, `ReportsAddUp` | hold |
| `administration` | 3 requests (see the bounds), 2 addresses, 2 roles, 1 permission, 1 badge, 1 station, 5 files | `TypeOK`, `RevokedStaysRevoked`, `StaleAccessBounded`, `UploadAccounted`, `ParserAgrees` | hold |

Each passing property fails for at least one of the faulty variants
(`PROJECT.json`, "mutants"). Deadlock is checked in every run; the steps called
`Quiescent` are the states in which the system may stop.

### What holds

- **The timeline survives stale writes.** `update` can bring an old status back, but
  only one the timeline had reached, and every other change of a status enters its
  history row in the same step, audited before the commit.
- **However requests interleave, a complaint has a case record**
  (`ImplementsCaseRecord`): it appears once, as submitted, and its status is new only
  together with its history row, or else an old one that comes back. This is
  also the interface on which `CaseReads` stands.
- **One request at a time per complaint, the tables are a case file**: linked, ordered,
  ending in the status shown, edited only while that is allowed. With
  `Serialized = FALSE` this is not so (two changes can start from the same
  status), which is why the run fixes it to `TRUE`: it is the promise the code
  keeps under that assumption, and the run names the assumption.
- **A key has one answer**, and what was acknowledged is there with files, audit
  rows and jobs. A committed evidence row is audited, and has its file unless the
  clean-up loop after an unanswered COMMIT has come to it; that stays so when the
  process dies in the middle of that loop (`EvidenceHasFile`).
- **Only a race forks a session** (`OneTokenUnlessRaced`). Two refreshes of one token
  that overlap can both succeed, in different seconds, and leave two live tokens; a
  refresh that begins when the other is over cannot. So rotation alone does not keep a
  session to one token.
- **Revocation is final except for what is in flight.** `SessionsEnded` and
  `OldPasswordOut` say exactly that: a live token that should be dead descends from a
  request that was under way when the tokens were revoked.
- **Lost updates on the attempt counter only err in the user's favour**: stale
  counts and the stale saves of `UsersService.update` never lock out early (they can
  lift a lock).
- **Casework is attributed as far as concurrency allows.** A reassignment is whole
  although its audit row and its rows go through different connections; a completion
  time can only be lost to a request that worked on the row at the same time; the
  verdict, the name and the remark of a reviewed row are of one review or of reviews
  that overlapped, never of an older one. Overlapping reviews do mix: of a reviewer who
  is named already, `save` writes the new remark only, and that remark can end up under
  the name of somebody who reviewed at the same time, even if they made one of their own.
- **Evidence is opened by its id, or uploaded, only on record** (`CustodyKept`): custody row
  and audit row come first - at the price of custody rows for ids that do not exist. The
  other routes that show evidence leave no such rows (see below).
- **Tracking is coherent by the order of its SELECTs.** `findByReference` reads the
  complaint first and the history second, and a status has its entry by then. The other
  way round, `TrackedStatusExplained` fails. Figures from different SELECTs
  differ by no more than what changed in between (`ReportsAddUp`): a page of all
  complaints is never longer than its total, a filtered one is longer by at most one for
  each change.
- **Revoked rights come back only through a request in flight** (or somebody who grants
  them). `save` of an account read earlier restores its roles and its active flag; an
  update of a role that is being deleted inserts it again under its old id. Whatever
  happens, no account refers to a role that is gone (`TypeOK`).
- **Access ends with the token.** `StaleAccessBounded`: a permission lost at a time
  opens nothing one lifetime later, unless a login was between reading the account
  and signing just then.
- **An answered upload reports each row once**, and what it calls created was created
  by that row. The converse does not hold: an account whose roles could not be saved, or
  whose audit row failed, is reported with an error and exists.
- **The pool is the one place where requests can wait for ever.**
  `ServedOrExhausted`: whoever waits is served unless all clients are held by
  transactions that wait for a second client, by statements that wait for what
  such a transaction has locked, or by requests whose BEGIN failed, which never give
  theirs back. `ExhaustionLasts`: then nothing moves again until
  the process is restarted. Ten concurrent status changes are enough; so are one
  status change and nine concurrent `update`s of the same complaint. All other
  liveness properties here take a connection for granted.

### Where code and documents disagree

1. `workflow_unlogged`: README.md:138 promises "every state change logged"; the stale
   save of `update` changes a status without history or audit row.
2. `submission_retry`: the key is "for safe retries" (`complaint.dto.ts:162`), but when
   the reply to the COMMIT is lost the files of the committed complaint are
   deleted, and the retry is answered with it.
3. `sessions_reuse`: "All sessions terminated" (`auth.service.ts:198`), "reuse
   detection revokes entire family" (README.md:134): a refresh in flight then
   inserts a live token for that session.

Met while modelling, without a run of their own, since one look at the code settles them:

- README.md:144 promises "access logging" for evidence. Only `GET /evidence/:id` writes a
  custody row and an audit row; the list of evidence (`evidence.controller.ts:41`) and the
  attachments on the detail and tracking pages of a complaint
  (`complaints.service.ts:288`, `:389`) show evidence without either.
- A BEGIN that fails leaves its query runner unreleased (`transaction.helper.ts:9`).
- `updateStatus` of an assignment, `addNote`, and creating or editing a station write
  no audit row (README.md:138: "every state change logged").
- The confirmation "Your complaint has been submitted successfully" is queued
  before the COMMIT, and is sent also when that fails.
- The dead-letter list of notifications (README.md:173) stays empty: nothing sets
  the status it looks for.
- `ReviewAnalysisDto` documents `ACCEPTED`, `REJECTED` and `MODIFIED`; the enum of the
  column is in lower case, so that such a review fails in the database.
- `findById` and `findAll` of AI analyses, and the overdue check, name relations that
  their entities do not have.
- The dashboard counts escalations in status `PENDING`; they are stored as `pending`, so
  `pendingEscalations` is always 0. `openComplaints` leaves out acknowledged,
  awaiting-response and escalated ones.
- `getComplaintSummary` filters its total differently from its groups;
  `getResolutionMetrics` measures to `updatedAt`, which later edits move.
- `resolveBulkUploadRoleIds` puts names in upper case before it looks for them. The
  seeded roles are in lower case, so a file that has the column `roles` that
  `users.controller.ts` describes is given up at its first row.
- Accounts made by `UsersService.create` have no password, and nothing gives them one.
- `ComplaintsService.findById` lists reassigned officers with the current ones.

### Bounds, and why they are enough

- *workflow*: a stale write needs a reader, a writer in between and a later observer:
  three requests. Complaints do not interact, so one is checked. `Targets` has a
  status that allows edits, one that closes, and `submitted`, which makes a return
  to the start possible. The serial run needs one more request, for an entry with a
  neighbour on either side.
- *submission*: a holder of a key, one that waits for it, one that comes later. The
  second file is needed for a failure between two files, and a crash between the
  deletion of the one and of the other, and is checked with two requests; the
  complaints have no other contact than the key.
- *sessions*: two refreshes and a revocation, or a chain of two rotations after a login;
  four seconds hold a lock's end, an expiry and both sides of each; `MaxAttempts`
  2 has a count below the limit, at it, and (with a third failure) above it.
- *jobs*: two jobs compete for a worker, or run on two; two attempts have a retry and a
  last failure, one stall a recovery and the failure after it. The code has three
  attempts.
- *pool*: two clients and three requests have the exhausted pool, the request left
  outside, a row lock across both, and a client lost to a BEGIN next to one in use.
- *casework*: three requests on one row (two that meet, one that looks afterwards). Two
  reviewers are enough for one that is named already and another; one remark, or none,
  for a remark that is new, repeated or missing. One `Moment` makes every completion
  time equal to every other, so that `save` may leave the column out.
  Readers and writers of complaints touch casework only by counting its rows, so `Light`
  lets them in when the rest is quiet: `MaxChanges` = 3 is the sum of changes of
  complaints and twice the requests on casework. Three changes fit a change before,
  between and after two SELECTs; two complaints make a count that is neither none nor
  all.
- *administration*: `Light` with `MaxEffort` = 4 admits two requests that read or write
  rows, or one and two that sign or use a token, or three of the latter; a race here is
  between two, and a
  use needs a token and a revocation. The same run with `MaxEffort` = 5 (two requests
  and a token; 2 million states) holds as well. `Lifetime` = `MaxTime` = 1 has a token
  that is live, one that has expired and one that was signed later. One permission
  and two roles (one of the system, one not) are enough, as permissions are compared
  with nothing but themselves. The files have a key twice, a row refused, a role not
  found, no column of roles, and a blank row.
- *parser*: all texts of up to 6 of the characters it tells apart, and of up to 4 with a
  return or a byte order mark. It looks ahead one character, and six have room for an
  opened cell, a doubled quote and what follows.

`MaxTime` bounds the clocks of `AccountSessions` and `AccessControl`; apart from the two
`Light` nothing else is cut off: requests call one handler each, which bounds every
other counter.

### Fairness

`submission_files`, `jobs` and `pool` check liveness. Weak fairness of each request's
`Proceed` says that Node's event loop resumes a handler whose statement has
returned and that PostgreSQL answers; starting a request, failing and crashing
are never fair. In `jobs`, BullMQ's timers run and the process is restarted
(`docker-compose.yml`: `restart: unless-stopped`; `ecosystem.config.js`:
`autorestart`), and `Take` is strongly fair, because the waiting list is first in,
first out and a worker that is free again and again comes to each job. In `pool`,
`Grant` is weakly fair: pg's pool serves its pending queue whenever a client is free.
The liveness runs use no symmetry.

## 4. What is proved

TLAPS checks the modules of proofs for arbitrary sets of requests, complaints, keys,
files, accounts, roles, jobs, rows and clients, and for arbitrary limits. Every safety
property that a passing run checks is a theorem, but for `ParserAgrees`; so is, for each
of the three that a run finds violated, what it takes to make it hold.

| theorem | states | rests on |
|---|---|---|
| *ComplaintWorkflow_proofs* | | |
| `TypeCorrect` | `[]TypeOK` | `TypeOK` is inductive |
| `HistoryIsAudited` | `[]HistoryAudited` | `AuditInv`: a request past its audit step has its audit row; audit rows stay |
| `TimelineInvariant` | `[]TimelineInv` | `TypeOK` |
| `StatusIsReached`, `HistoryIsConnected` | `[]StatusReached`, `[]HistoryConnected` | `TimelineInv`; the run checks the former as part of `ImplementsCaseRecord` |
| `NoTraceOfRollback` | `[]RollbackLeavesNoTrace` | `StampsOfDone`, `TimelineInv` |
| `StatusChangesAreRecorded` | `StatusChangeRecorded` | `TimelineInv` |
| *ComplaintCaseFile_proofs* | | |
| `CaseRecordIsImplemented` | `ImplementsCaseRecord` | `RecordInv` |
| `CaseFileIsImplemented` | `ImplementsCaseFile`, if `Serialized` | `SerialInv`, `StampsOfDone`, `TimelineInv`, `AuditInv` |
| `SerialChangesAreLogged` | `EveryStatusChangeLogged`, if `Serialized` | `SerialInv`, `AuditInv` |
| *ComplaintSubmission_proofs* | | |
| `TypeCorrect` | `[]TypeOK` | `SubmissionInv` |
| `OneAnswerPerKey` | `[]SameKeySameAnswer` | `KeyInv` |
| `AnswerIsComplete` | `[]AcknowledgedComplete` | `AttachedInv`, `WrittenInv`, `CommittedInv`, `KeyInv` |
| `EvidenceIsBacked` | `[]EvidenceHasFile` | `CommittedInv` |
| `NoOrphanFiles` | `[]FilesAccounted` | `DiskInv` |
| `RetryIsSafeWhenReplied` | `[]SafeRetry`, if each COMMIT is answered (`Replied`) | `EvidenceHasFile`, `CommittedEndsStep` |
| *AccountSessions_proofs* | | |
| `TypeCorrect` | `[]TypeOK` | `SessionsInv` |
| `LogoutIsFinal` | `[]LoggedOut` | `ConsumedInv` |
| `OnlyRacesFork` | `[]OneTokenUnlessRaced` | `RaceInv`, `TreeInv`, `DescentInv` |
| `LockoutIsEarned` | `[]NoEarlyLockout` | `FailureInv` |
| `RevocationEnds`, `PasswordIsOut` | `[]SessionsEnded`, `[]OldPasswordOut` | `CutInv`, `PasswordInv`, `SessionInv` |
| `ReuseTerminates` | `[]TerminatedButForRefreshes` | `DescentInv`, `PresentedInv`, `CutInv` |
| *BackgroundJobs_proofs* | | |
| `TypeCorrect` | `[]TypeOK` | `JobsInv` |
| `CompletedIsSent` | `[]CompletedSent` | `ReturnedInv` |
| `PendingIsExplained` | `[]PendingExplained` | is inductive with the rest of `JobsInv` |
| `RepetitionIsBounded` | `[]BoundedRepetition` | `CountersInv`, `RowsInv` |
| *ConnectionPool_proofs* | | |
| `PoolInvariant`, `PoolTypeCorrect`, `ClientsAreReturned` | `[]PoolInv`, `[]TypeOK`, `[]ClientsReturned` | `PoolInv` is inductive |
| `ExhaustedForEver` | `ExhaustionLasts` | `PoolInv` |
| *CaseReads_proofs* | | |
| `TrackingIsExplained` | `[]TrackedStatusExplained` | `TrackInv` |
| `CaseReadsTypeCorrect` | `[]TypeOK` | `CaseworkInv`, `TrackInv` |
| `ReassignmentsAreWhole` | `[]ReassignmentWhole` | `ReassignedInv`, `BornInv`, `LoggedInv` |
| `CompletionsSurvive` | `[]CompletionSurvives` | `CompletionInv`, `OverlapInv` |
| `CustodyIsKept` | `[]CustodyKept` | `CustodyInv`, `LoggedInv` |
| `ReviewsAreAttributed` | `[]ReviewAttributed` | `ReviewInv`, `OverlapInv` |
| `ReportsAgree` | `[]ReportsAddUp` | `FiguresInv`, `TrackInv` |
| *UserImport_proofs* | | |
| `TypeCorrect` | `[]TypeOK` | `ImportInv` |
| `RevocationsStay` | `[]RevokedStaysRevoked` | `AssignInv`, `DeactivateInv`, `DeleteInv` |
| `StaleAccessIsBounded` | `StaleAccessBounded` | `TokenInv`, `LostInv` |
| `UploadsAreAccounted` | `[]UploadAccounted` | `UploadInv`, `CreatorInv`, `AloneInv` |

### Assumptions on the constants

The modules name them, and TLC evaluates them in the runs. Most say that a value
which marks an absence is not one of the values it stands in for (`None`, the initial
password `"first"`, the id `Nowhere`), that names of one kind are not names of another
(`KeysAssumption`: accounts, badges, stations, the roles of the seed script, other
roles and those that a request makes), and that limits and times are numbers. Three
carry more: `Complaints` is finite, as figures are counts; the requests of
`AccountSessions` are finitely many, as failures are counted; and only a file of
accounts has a column of roles (`FilesAssumption`), as in the DTOs. `Lifetime` may be any
number: the proofs use neither that a token lives for a while nor that `MaxTime` is
ever reached. `ClientsAssumption` is not used in a proof.

The proofs found one thing to correct in a model: in `AccountSessions`, `Login` and
`Refresh` chose their next stage by a `CASE` whose guards overlapped, where the code
has early returns one after the other. They are now nested conditions in that order.

### The arguments

**Timeline.** `StatusReached` is not inductive: the status that `update` writes comes
from its memory, read when the row was different. `TimelineInv` therefore also says
that what a request in flight has read (`previous`) was reached, and what its
entity holds; since the timeline only grows (`ReachedMonotone`), a status
once reached stays reached, however late it is written. `HistoryConnected` asks for
*another* row, so `TimelineInv` also knows that a row belongs to a request that is
done: a new row can never be the one that justifies itself.

**Case record.** A write of `update` maps to `Restore`, a COMMIT to `Move`, everything
else to a stutter. One COMMIT is special: when `save` found the wanted status in the
row already, the UPDATE leaves that column alone, and the history row is added
although the row may have moved on since. `MergedReached` says that the entry is then
one the timeline has, so that nothing changes; `TypeOK`, `TimelineInv` and
`MergedReached` (`RecordInv`) are inductive together.

**Case file.** With `Serialized`, `SerialInv` says what taking turns means for a request
that waits for a statement: it is alone at its complaint (`OneAtATime`), its row is as it
read it (`RowAsRead`), the guards of its handler have been passed (`CallsGuarded`), and it
started after every request that has a history row there (`StartedLater`). The columns
that `save` writes are then those the handler meant (`SavedAsMeant`), `previous` is the
status in the row, and the new entry goes to the end of the history. That it is one entry
more and not an old one is again that rows belong to requests that are done, and that the
closing stamp is new is `StampsOfDone`. TLC checked `SerialInv` on the instance of
`workflow_serial` before it was proved.

**What the findings need.** Each of the three disagreements above has a theorem that
says it is due to nothing else. Changes go unlogged only if requests on one
complaint overlap (`SerialChangesAreLogged`). A retry misses its files only after a
COMMIT that took effect unanswered: `Replied` excludes just that step, and leaves in every
other failure, a crash between two statements and a file that breaks included
(`RetryIsSafeWhenReplied`). A session outlives a detected reuse only through a
refresh of that session in flight at that moment, never through a login or through a
refresh that begins later (`ReuseTerminates`): `DescentInv` says that a token descends
from the login of its session and from refreshes of that session, and `PresentedInv` that
whoever is behind a token that is presented was answered before, so that the refresh which
detects the reuse was not in flight together with the login.

**Tracking.** `TrackInv`: the timeline holds the status (`StatusInTimeline`), what a
tracker holds as status is in the timeline by now, and the history it holds was read
after it. The order of the SELECTs enters through `TrackOrder`, the fact that the
history is not pending before the status is answered.

**Rollback.** A closing stamp in a row or in an entity read from it must belong to a
committed request (`StampsOfDone`). The entity of the request itself is the
exception, and it must be a transaction: were it `update`, its save would publish it.

**Submission.** What a request has written depends on its stage (`WrittenInv`) and on how
far its loop over the files has come (`AttachedInv`: the rows recorded are `1..n`). The
unique index is used in one place: a key occurs once among the committed complaints
*and* the open transactions (`KeyInv`), so that an INSERT that waits for its holder is
either refused or alone. Files are split between those that their request has noted and
those known to be left over (`DiskInv`); a committed row loses its file only by
a turn of the clean-up loop after an unanswered COMMIT, and then the file is off the
request's list as well (`CommittedInv`), wherever the request ends.

**Sessions.** `SessionsEnded` speaks of live tokens, but the token that would violate it
may not be signed yet. `CutInv` says the same of everybody who is going to sign one: a
login past its check of the password, or a refresh past its check of the token, for a
session that a revocation has met, was in flight when that revocation ran or descends
from somebody who was. For a changed password this needs that no other request writes
the replaced one back (`PasswordInv`): `passwordHash` is not among the columns that
`update` loads, and each change sets a password of its own. `NoEarlyLockout` needs
the bound not only for the row but for every copy a request has read (`FailureInv`):
stale counters are smaller, never larger.

**One token.** The tokens of a session form a tree: of any two that were issued, the one
was redeemed on the way to the other, or they descend from two refreshes that raced for
one token (`TreeInv`). What was redeemed is revoked, so two live tokens leave only the
race. That a refresh which comes after another one of its token is over never signs
anything is `RaceInv`: it finds the token revoked, as every refresh that is behind an
issued token has revoked the one it was given.

**Jobs.** Each run of a job has a number (attempts and stalls so far), rows are
named by it, and a job that is not finished has an attempt and a stall left. So there
are at most `Attempts + MaxStalled` rows, by an injection into an interval.

**Casework.** The parts of `CaseworkInv` are one per fact about two requests that share
a row. `OverlapInv` says that two requests in flight on one row have met; with it,
`CompletionInv` has, after a completion that met nobody, no handler left that holds
the row without a completion time, and `ReviewInv` knows of each column that a
review is *not* going to write that the row holds the review's own value, or that of a
review it has met. `ReassignedInv` needs the exception of
`updateStatus`, whose status may be `reassigned` by the caller's choice.

**Figures.** `FiguresInv` compares what an answer holds with what the SELECTs still to
come would give now (`Figure`): counted one after the other, totals only grow; counted
together, figures differ by no more than the changes since the reader was asked. One
change moves a count by at most one (`ChangeCounts`), and a count is answered as it is at
that moment (`SelectedIsCount`), so neither kind of step disturbs this.

**Accounts and roles.** That a request answered long ago is not undone depends on whoever
holds an entity. `AssignInv` and its two siblings say of a request `r`: what its row has
beyond what `r` left there is explained (granted later, reseeded, or saved by a
request in flight together with `r`), and so is what the *followers* hold, those who
began after `r` had ended and will save what they read. Explanations
never go away (`LaterKept`), a follower reads a row that is explained already, and who has
not ended was in flight with `r` or follows it (`Company`). For a deleted role there are
no followers, as nobody can begin with a row that is gone. That no account refers to
such a role is part of `TypeOK`, and rests on the foreign key: `RemoveRole` fails if
an account was given the role since.

**Tokens.** `TokenInv`: none of a token's claims had been lost when they were read. With
`LostInv` (`lost` is `None` exactly as long as the account has the permission) the bound
follows by arithmetic from `clock < issuedAt + Lifetime`.

**Uploads.** What is reported are the rows before `at` that are not blank (`UploadInv`),
each as one or the other. What an upload inserted carries its name in `creator`, which only
`Insert` sets and only where there is no row, so no second request can take it over
(`CreatorInv`). Alone with its key, it goes through the stages with nothing in the row but
what it wrote (`AloneInv`).

**Pool.** The stage of a request determines what it holds, a failed BEGIN included, no
client has two holders, and nobody is queued twice (`PoolInv`). In an exhausted pool
each holder waits (`HoldersWait`, from the uniqueness of holders), so nobody can give
anything back (`NobodyMoves`) and `Grant` finds no free client.

**Only model-checked:** liveness (`EverySubmissionEnds`, `EveryJobFinishes`,
`ServedOrExhausted`), as liveness under fairness is out of the prover's reach; and
`ParserAgrees`: what the folds of `CsvFile` compute for every text needs induction over
data, which the provers at hand cannot instantiate.

## 5. What is not modelled

- `idempotency.interceptor.ts` is registered nowhere; `verifyIntegrity` of evidence,
  `markFailed` and `cleanupExpiredTokens` have no caller; nothing adds a job for the
  overdue check.
- Field and payload encryption: pure functions over cryptographic primitives.
- Health, configuration, logging, exception filters: start-up, wording and probes.
- The text of notifications, validation of DTOs beyond "refused", reference numbers
  and tracking tokens (taken to be fresh), the pages of the lists, and filters by columns
  that never change.
- Connections of the pool that break while they are idle or in use: in
  `ConnectionPool` a connection lasts, and `ExhaustionLasts` says no more than that.
- Soft deletion: the lists exclude deleted rows, but no handler deletes one.

## 6. What could come next

All parts of the system whose state depends on an order of events are modelled, and
their safety is proved. No module reaches a RECURSIVE operator. One composition is
argued and not checked: a module that runs the readers of `CaseReads` next to
`ComplaintWorkflow` itself, with `TrackedStatusExplained` carried over from `CaseRecord` by
`CaseRecordIsImplemented`.

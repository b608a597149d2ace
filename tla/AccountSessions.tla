--------------------------- MODULE AccountSessions ---------------------------
(***************************************************************************)
(* One user account: its row in users, its refresh tokens, and the requests *)
(* that work on them - AuthService.login, refreshTokens, logout and         *)
(* changePassword, UsersService.update (and assignRoles, which saves the    *)
(* entity in the same way), activate and deactivate.  None of them opens a  *)
(* transaction: each statement commits by itself, any statement may fail,   *)
(* and what the earlier ones wrote stays.                                   *)
(*                                                                          *)
(* A refresh token is a JWT over the user, the session and the second it    *)
(* was signed in, and carries no identifier of its own: two tokens signed   *)
(* for one session in the same second are the same string, with the same    *)
(* hash, which the unique index on token_hash admits once.                  *)
(***************************************************************************)
EXTENDS Naturals, FiniteSets

CONSTANTS
  Requests,     \* each calls one handler; a session is named by its login
  None,         \* SQL NULL
  MaxAttempts,  \* APP_CONSTANTS.MAX_LOGIN_ATTEMPTS
  LockFor,      \* the lockout, in seconds of the model's clock
  Lifetime,     \* of a refresh token, in the same seconds
  MaxTime       \* bound of the clock

ASSUME RequestsAssumption == IsFiniteSet(Requests) /\ "first" \notin Requests
ASSUME NoneAssumption == None \notin Requests /\ None \notin Nat
ASSUME MaxAttemptsAssumption == MaxAttempts \in Nat \ {0}
ASSUME TimesAssumption == LockFor \in Nat /\ Lifetime \in Nat /\ MaxTime \in Nat

VARIABLES
  user,      \* the account's row
  issued,    \* rows of refresh_tokens
  revoked,   \* those with isRevoked set
  auditLog,  \* audit rows: <<action, request>>
  now,       \* the clock
  pc,        \* where each request is
  call,      \* the handler it runs and its argument
  seen,      \* the user row it has read
  columns,   \* the columns its save() will write
  since,     \* when it began to sign its tokens
  lineage,   \* the requests that led to a token (history)
  ended,     \* sessions that a request's revokeAllUserTokens met (history)
  during,    \* requests in flight when it ran (history)
  earlier    \* refreshes that were over when this one arrived (history)

vars == <<user, issued, revoked, auditLog, now, pc, call, seen, columns, since,
          lineage, ended, during, earlier>>
tables == <<user, issued, revoked, auditLog>>
past == <<lineage, ended, during, earlier>>

-----------------------------------------------------------------------------

Time == 0 .. MaxTime
Token == [session : Requests, iat : Time]

\* A password is named by the request that set it.
Password == Requests \cup {"first", None}

User == [isActive : BOOLEAN, password : Password, attempts : Nat,
         lockedUntil : Nat \cup {None}]

\* Columns of the entity that update() loads; passwordHash is not selected.
Column == {"isActive", "attempts", "lockedUntil"}

Call == [op : {"login", "changePassword"}, right : BOOLEAN]
          \cup [op : {"refresh", "logout"}, token : Token]
          \cup [op : {"setActive"}, value : BOOLEAN]
          \cup [op : {"update", "none"}]

InFlight == {"refused", "counted", "accepted", "signing", "reused", "found",
             "rotating", "leaving", "changing", "changed", "editing",
             "merged", "switching", "logging"}
Ended == {"done", "rejected", "terminated", "failed"}

TypeOK ==
  /\ user \in User
  /\ issued \subseteq Token /\ revoked \subseteq issued
  /\ auditLog \subseteq {"login", "refresh", "logout", "changePassword",
                         "setActive", "update", "login_failed"} \X Requests
  /\ now \in Time
  /\ pc \in [Requests -> {"idle"} \cup InFlight \cup Ended]
  /\ call \in [Requests -> Call]
  /\ seen \in [Requests -> User]
  /\ columns \in [Requests -> SUBSET Column]
  /\ since \in [Requests -> Time]
  /\ lineage \in [Token -> SUBSET Requests]
  /\ ended \in [Requests -> SUBSET Requests]
  /\ during \in [Requests -> SUBSET Requests]
  /\ earlier \in [Requests -> SUBSET Requests]

Init ==
  /\ \E password \in {"first", None} :
       user = [isActive |-> TRUE, password |-> password, attempts |-> 0,
               lockedUntil |-> None]
  /\ issued = {} /\ revoked = {} /\ auditLog = {}
  /\ now = 0
  /\ pc = [r \in Requests |-> "idle"]
  /\ call = [r \in Requests |-> [op |-> "none"]]
  /\ seen = [r \in Requests |-> user]
  /\ columns = [r \in Requests |-> {}]
  /\ since = [r \in Requests |-> 0]
  /\ lineage = [t \in Token |-> {}]
  /\ ended = [r \in Requests |-> {}]
  /\ during = [r \in Requests |-> {}]
  /\ earlier = [r \in Requests |-> {}]

Goto(r, stage) == pc' = [pc EXCEPT ![r] = stage]

\* Request r arrives and, where its handler does, reads the account's row.
Begin(r, c) ==
  /\ pc[r] = "idle"
  /\ call' = [call EXCEPT ![r] = c]
  /\ seen' = [seen EXCEPT ![r] =
                IF c.op \in {"login", "changePassword", "update"} THEN user ELSE @]
  /\ since' = [since EXCEPT ![r] = IF c.op = "login" THEN now ELSE @]
  /\ earlier' = [earlier EXCEPT ![r] =
                   {q \in Requests : c.op = "refresh" /\ call[q].op = "refresh" /\ pc[q] \in Ended}]
  /\ UNCHANGED <<tables, now, columns, lineage, ended, during>>

Live == issued \ revoked

-----------------------------------------------------------------------------
(* login                                                                     *)

Locked == user.lockedUntil # None /\ user.lockedUntil > now

\* The row is read and judged: deactivated, locked, without a password, or
\* the password is wrong or right for the hash that was read.
Login(r, right) ==
  /\ Begin(r, [op |-> "login", right |-> right])
  /\ Goto(r, IF ~user.isActive \/ Locked THEN "rejected"
             ELSE IF user.password = None THEN "counted"
             ELSE IF ~right THEN "refused"
             ELSE IF user.attempts > 0 THEN "accepted"
             ELSE "signing")

\* Faulty variant of HandleFailedLogin: one attempt less.
HandleFailedLoginEarly(r) ==
  LET attempts == seen[r].attempts + 1
  IN  /\ pc[r] = "refused"
      /\ user' = [user EXCEPT !.attempts = attempts,
                    !.lockedUntil = IF attempts >= MaxAttempts - 1
                                    THEN now + LockFor ELSE @]
      /\ Goto(r, "counted")
      /\ UNCHANGED <<issued, revoked, auditLog, now, call, seen, columns, since, past>>

\* The count that was read plus one; the account is locked at the limit.
HandleFailedLogin(r) ==
  LET attempts == seen[r].attempts + 1
  IN  /\ pc[r] = "refused"
      /\ user' = [user EXCEPT !.attempts = attempts,
                    !.lockedUntil = IF attempts >= MaxAttempts
                                    THEN now + LockFor ELSE @]
      /\ Goto(r, "counted")
      /\ UNCHANGED <<issued, revoked, auditLog, now, call, seen, columns, since, past>>

ResetAttempts(r) ==
  /\ pc[r] = "accepted"
  /\ user' = [user EXCEPT !.attempts = 0, !.lockedUntil = None]
  /\ Goto(r, "signing")
  /\ since' = [since EXCEPT ![r] = now]
  /\ UNCHANGED <<issued, revoked, auditLog, now, call, seen, columns, past>>

\* The session of the tokens that r signs.
SessionOf(r) == IF call[r].op = "login" THEN r ELSE call[r].token.session

\* Faulty variant of Signed: the expiry for the signing time.
SignedAhead(r, i) == [session |-> SessionOf(r), iat |-> i + Lifetime]

\* The token that r signs in second i.
Signed(r, i) == [session |-> SessionOf(r), iat |-> i]

\* generateTokenPair and the INSERT of the new refresh token.
Issue(r) ==
  /\ pc[r] = "signing"
  /\ \E i \in since[r] .. now :
       /\ Signed(r, i) \notin issued
       /\ issued' = issued \cup {Signed(r, i)}
       /\ lineage' = [lineage EXCEPT ![Signed(r, i)] =
                        {r} \cup IF call[r].op = "login" THEN {}
                                 ELSE lineage[call[r].token]]
  /\ Goto(r, "logging")
  /\ UNCHANGED <<user, revoked, auditLog, now, call, seen, columns, since, ended, during,
                 earlier>>

\* The same string was issued before: the unique index rejects the INSERT.
DuplicateToken(r) ==
  /\ pc[r] = "signing"
  /\ \E i \in since[r] .. now : Signed(r, i) \in issued
  /\ Goto(r, "failed")
  /\ UNCHANGED <<tables, now, call, seen, columns, since, past>>

-----------------------------------------------------------------------------
(* refreshTokens and logout                                                  *)

\* A client can present the tokens that it was answered with.
Handed(t) == t \in issued /\ \A q \in lineage[t] : pc[q] = "done"

\* findOne by hash: the token's flag and expiry are judged as they were read.
Refresh(r, t) ==
  /\ Handed(t)
  /\ Begin(r, [op |-> "refresh", token |-> t])
  /\ Goto(r, IF t \in revoked THEN "reused"
             ELSE IF t.iat + Lifetime < now THEN "rejected"
             ELSE "found")

\* Any other string: "Invalid refresh token".
RefreshUnknown(r) ==
  /\ Begin(r, [op |-> "none"])
  /\ Goto(r, "rejected")

LoadUser(r) ==
  /\ pc[r] = "found"
  /\ Goto(r, IF user.isActive THEN "rotating" ELSE "rejected")
  /\ UNCHANGED <<tables, now, call, seen, columns, since, past>>

\* Faulty variant of Rotate: the presented token stays valid.
RotateKeeping(r) ==
  /\ pc[r] = "rotating"
  /\ Goto(r, "signing")
  /\ since' = [since EXCEPT ![r] = now]
  /\ UNCHANGED <<tables, now, call, seen, columns, past>>

\* UPDATE by id, whatever the flag says by now.
Rotate(r) ==
  /\ pc[r] = "rotating"
  /\ revoked' = revoked \cup {call[r].token}
  /\ Goto(r, "signing")
  /\ since' = [since EXCEPT ![r] = now]
  /\ UNCHANGED <<user, issued, auditLog, now, call, seen, columns, past>>

\* A token that is unknown or revoked is left alone.
Logout(r, t) ==
  /\ Handed(t)
  /\ Begin(r, [op |-> "logout", token |-> t])
  /\ Goto(r, IF t \in revoked THEN "logging" ELSE "leaving")

\* Faulty variant of LogoutRevoke: it revokes nothing.
LogoutForget(r) ==
  /\ pc[r] = "leaving"
  /\ Goto(r, "logging")
  /\ UNCHANGED <<tables, now, call, seen, columns, since, past>>

LogoutRevoke(r) ==
  /\ pc[r] = "leaving"
  /\ revoked' = revoked \cup {call[r].token}
  /\ Goto(r, "logging")
  /\ UNCHANGED <<user, issued, auditLog, now, call, seen, columns, since, past>>

-----------------------------------------------------------------------------
(* changePassword, and revokeAllUserTokens                                   *)

\* The caller has been handed an access token, which no revocation reaches.
ChangePassword(r, right) ==
  /\ \E t \in issued : Handed(t)
  /\ Begin(r, [op |-> "changePassword", right |-> right])
  /\ Goto(r, IF right /\ user.password # None THEN "changing" ELSE "rejected")

WritePassword(r) ==
  /\ pc[r] = "changing"
  /\ user' = [user EXCEPT !.password = r]
  /\ Goto(r, "changed")
  /\ UNCHANGED <<issued, revoked, auditLog, now, call, seen, columns, since, past>>

\* What revokeAllUserTokens meets.
Noted(r) ==
  /\ ended' = [ended EXCEPT ![r] = {t.session : t \in issued}]
  /\ during' = [during EXCEPT ![r] = {q \in Requests : pc[q] \in InFlight}]
  /\ UNCHANGED <<lineage, earlier>>

\* Faulty variants of RevokeAllUserTokens: a reuse revokes the one token, a
\* change of password none.
RevokePresented(r) ==
  /\ pc[r] \in {"reused", "changed"}
  /\ revoked' = IF pc[r] = "changed" THEN issued ELSE revoked
  /\ Goto(r, IF pc[r] = "reused" THEN "terminated" ELSE "logging")
  /\ Noted(r)
  /\ UNCHANGED <<user, issued, auditLog, now, call, seen, columns, since>>

RevokeOnReuseOnly(r) ==
  /\ pc[r] \in {"reused", "changed"}
  /\ revoked' = IF pc[r] = "reused" THEN issued ELSE revoked
  /\ Goto(r, IF pc[r] = "reused" THEN "terminated" ELSE "logging")
  /\ Noted(r)
  /\ UNCHANGED <<user, issued, auditLog, now, call, seen, columns, since>>

\* One UPDATE of all live tokens; a reuse is answered right after it.
RevokeAllUserTokens(r) ==
  /\ pc[r] \in {"reused", "changed"}
  /\ revoked' = issued
  /\ Goto(r, IF pc[r] = "reused" THEN "terminated" ELSE "logging")
  /\ Noted(r)
  /\ UNCHANGED <<user, issued, auditLog, now, call, seen, columns, since>>

-----------------------------------------------------------------------------
(* Administration of the account                                             *)

\* findOne, for update() and assignRoles(), which later save the entity.
Edit(r) ==
  /\ Begin(r, [op |-> "update"])
  /\ Goto(r, "editing")

\* save() reads the row again and keeps the columns that differ from it, also
\* those that someone else has changed in between.
Merge(r) ==
  /\ pc[r] = "editing"
  /\ columns' = [columns EXCEPT ![r] = {k \in Column : seen[r][k] # user[k]}]
  /\ Goto(r, "merged")
  /\ UNCHANGED <<tables, now, call, seen, since, past>>

SaveUser(r) ==
  /\ pc[r] = "merged"
  /\ user' = [k \in DOMAIN user |->
                IF k \in columns[r] THEN seen[r][k] ELSE user[k]]
  /\ Goto(r, "logging")
  /\ UNCHANGED <<issued, revoked, auditLog, now, call, seen, columns, since, past>>

\* activate() and deactivate(): findOne, then an UPDATE of the one column.
SetActive(r, value) ==
  /\ Begin(r, [op |-> "setActive", value |-> value])
  /\ Goto(r, "switching")

WriteActive(r) ==
  /\ pc[r] = "switching"
  /\ user' = [user EXCEPT !.isActive = call[r].value]
  /\ Goto(r, "logging")
  /\ UNCHANGED <<issued, revoked, auditLog, now, call, seen, columns, since, past>>

-----------------------------------------------------------------------------
(* The end of a request                                                      *)

LogAudit(r) ==
  /\ pc[r] \in {"logging", "counted"}
  /\ auditLog' = auditLog \cup
       {<<IF pc[r] = "logging" THEN call[r].op ELSE "login_failed", r>>}
  /\ Goto(r, IF pc[r] = "logging" THEN "done" ELSE "rejected")
  /\ UNCHANGED <<user, issued, revoked, now, call, seen, columns, since, past>>

\* A statement fails, or the process dies.
Fail(r) ==
  /\ pc[r] \in InFlight
  /\ Goto(r, "failed")
  /\ UNCHANGED <<tables, now, call, seen, columns, since, past>>

Tick ==
  /\ now < MaxTime
  /\ now' = now + 1
  /\ UNCHANGED <<tables, pc, call, seen, columns, since, past>>

Start(r) ==
  \/ \E right \in BOOLEAN : Login(r, right) \/ ChangePassword(r, right)
  \/ \E t \in issued : Refresh(r, t) \/ Logout(r, t)
  \/ RefreshUnknown(r)
  \/ Edit(r)
  \/ \E value \in BOOLEAN : SetActive(r, value)

Proceed(r) ==
  \/ HandleFailedLogin(r) \/ ResetAttempts(r) \/ Issue(r) \/ DuplicateToken(r)
  \/ LoadUser(r) \/ Rotate(r) \/ LogoutRevoke(r)
  \/ WritePassword(r) \/ RevokeAllUserTokens(r)
  \/ Merge(r) \/ SaveUser(r) \/ WriteActive(r)
  \/ LogAudit(r)

Quiescent == (\A r \in Requests : pc[r] \in Ended) /\ UNCHANGED vars

Next ==
  \/ \E r \in Requests : Start(r) \/ Proceed(r) \/ Fail(r)
  \/ Tick
  \/ Quiescent

Spec == Init /\ [][Next]_vars

-----------------------------------------------------------------------------
(* Properties.                                                              *)

\* The failed logins on record: audited, or interrupted before that.
Failures ==
  {r \in Requests :
     \/ <<"login_failed", r>> \in auditLog
     \/ call[r] = [op |-> "login", right |-> FALSE] /\ pc[r] \in {"counted", "failed"}}

\* No attempt is counted, and no account locked, without as many failed logins
\* on record: neither stale counters nor the stale saves of update() make one up.
NoEarlyLockout ==
  /\ user.attempts <= Cardinality(Failures)
  /\ user.lockedUntil # None => Cardinality(Failures) >= MaxAttempts

\* Two refreshes of one token, neither of which was over when the other arrived.
Raced(q, r) ==
  /\ q # r /\ q \notin earlier[r] /\ r \notin earlier[q]
  /\ call[q].op = "refresh" /\ call[r].op = "refresh" /\ call[q].token = call[r].token

\* A session has one valid token. Where it has two, they come from two refreshes
\* that raced for one token, both finding it valid before either revoked it: no
\* refresh that waits for the answer to the one before ever forks a session.
OneTokenUnlessRaced ==
  \A t, u \in Live :
    t # u /\ t.session = u.session => \E q \in lineage[t], r \in lineage[u] : Raced(q, r)

\* When revokeAllUserTokens has run, a session that existed then lives on only
\* through a refresh or login that was in flight while it ran.
SessionsEnded ==
  \A r \in Requests, t \in Live :
    t.session \in ended[r] => lineage[t] \cap during[r] # {}

\* A live token obtained with a password that has since been changed descends
\* from a request that was in flight when the change revoked the tokens.
OldPasswordOut ==
  \A r \in Requests, t \in Live :
    /\ call[r].op = "changePassword" /\ pc[r] = "done"
    /\ seen[t.session].password = seen[r].password
    => lineage[t] \cap during[r] # {}

\* A token handed in at a logout that was answered is not valid again, though
\* refreshes and other logouts of the same token run at the same time.
LoggedOut ==
  \A r \in Requests :
    call[r].op = "logout" /\ pc[r] = "done" => call[r].token \in revoked

\* A request told "All sessions terminated" leaves no valid token of the
\* session behind.
AllSessionsTerminated ==
  \A r \in Requests :
    pc[r] = "terminated" =>
      \A t \in Live : t.session # call[r].token.session

=============================================================================

------------------------ MODULE AccountSessions_proofs ------------------------
(***************************************************************************)
(* The account, its sessions and its lockout, for any number of requests    *)
(* and any limits.                                                          *)
(***************************************************************************)
EXTENDS AccountSessions, FiniteSetTheorems, TLAPS

-----------------------------------------------------------------------------
(* Which handler is where.                                                  *)

StageInv ==
  \A r \in Requests :
    /\ pc[r] = "idle" => call[r].op = "none"
    /\ pc[r] = "refused" => call[r] = [op |-> "login", right |-> FALSE]
    /\ pc[r] \in {"counted", "accepted"} => call[r].op = "login"
    /\ pc[r] = "signing" => call[r].op \in {"login", "refresh"}
    /\ pc[r] \in {"reused", "found", "rotating"} => call[r].op = "refresh"
    /\ pc[r] = "leaving" => call[r].op = "logout"
    /\ pc[r] \in {"changing", "changed"} => call[r].op = "changePassword"
    /\ pc[r] \in {"editing", "merged"} => call[r].op = "update"
    /\ pc[r] = "switching" => call[r].op = "setActive"
    /\ pc[r] = "logging" => call[r].op \notin {"none"}
    /\ call[r].op \in {"refresh", "logout"} => call[r].token \in issued

-----------------------------------------------------------------------------
(* The parts of the invariant.                                              *)

\* A refresh has consumed its token before it signs another; a logout that
\* logs has revoked its token.
ConsumedInv ==
  \A r \in Requests :
    \/ call[r].op = "refresh" /\ pc[r] \in {"signing", "logging", "done"}
    \/ call[r].op = "logout" /\ pc[r] \in {"logging", "done"}
    => call[r].token \in revoked

\* No counter, stored or read, exceeds the failures on record, and a failed
\* login is on record from its write on, not before.
Fits(u) ==
  /\ u.attempts <= Cardinality(Failures)
  /\ u.lockedUntil # None => Cardinality(Failures) >= MaxAttempts

FailureInv ==
  /\ \A entry \in auditLog : pc[entry[2]] \in {"done", "rejected"}
  /\ Fits(user) /\ \A r \in Requests : Fits(seen[r])

\* A session that has tokens is that of a login which is over.
LoggedIn ==
  {s \in Requests : call[s].op = "login" /\ pc[s] \in {"logging", "done", "failed"}}

SessionInv ==
  /\ \A t \in issued : t.session \in LoggedIn
  /\ \A r \in Requests : ended[r] \subseteq LoggedIn

\* Whoever's password is, or was when a request looked, has written it; and
\* the password that a change replaced does not come back.
Writers == {r \in Requests : pc[r] \notin {"idle", "changing"}}

PasswordInv ==
  /\ user.password \in Requests => user.password \in Writers
  /\ \A r \in Requests :
       /\ seen[r].password \in Requests => seen[r].password \in Writers
       /\ call[r].op = "changePassword" /\ pc[r] \in {"changed", "logging", "done"} =>
            user.password # seen[r].password

\* The sessions that request r was to end: those it met, and those of a
\* password that it has changed.
Revoking(r) == call[r].op = "changePassword" /\ pc[r] \in {"logging", "done"}

Barred(r, s) ==
  \/ s \in ended[r]
  \/ Revoking(r) /\ seen[s].password = seen[r].password

\* Whatever gives such a session a valid token, or will, was under way when r
\* revoked the tokens.
CutInv ==
  \A r \in Requests :
    /\ \A t \in Live : Barred(r, t.session) => lineage[t] \cap during[r] # {}
    /\ \A q \in Requests :
         /\ pc[q] \in {"accepted", "signing"} /\ call[q].op = "login" /\ Barred(r, q) =>
              q \in during[r]
         /\ pc[q] \in {"found", "rotating", "signing"} /\ call[q].op = "refresh"
              /\ Barred(r, call[q].token.session) =>
              q \in during[r] \/ lineage[call[q].token] \cap during[r] # {}

SessionsInv ==
  TypeOK /\ StageInv /\ ConsumedInv /\ FailureInv /\ SessionInv /\ PasswordInv /\ CutInv

-----------------------------------------------------------------------------
(* What a step changes.                                                     *)

\* What a request that arrives changes: itself.
LEMMA StartEffect ==
  ASSUME TypeOK, NEW r \in Requests, Start(r)
  PROVE  /\ pc[r] = "idle"
         /\ UNCHANGED <<tables, now, columns, lineage, ended, during>>
         /\ earlier' \in [Requests -> SUBSET Requests]
         /\ \A q \in Requests \ {r} : earlier'[q] = earlier[q]
         /\ \A q \in earlier'[r] : pc[q] \in Ended
         /\ pc' \in [Requests -> {"idle"} \cup InFlight \cup Ended]
         /\ call' \in [Requests -> Call]
         /\ seen' \in [Requests -> User] /\ seen'[r] \in {seen[r], user}
         /\ since' \in [Requests -> Time]
         /\ \A q \in Requests \ {r} : /\ pc'[q] = pc[q] /\ call'[q] = call[q]
                                      /\ seen'[q] = seen[q] /\ since'[q] = since[q]
         /\ \/ /\ call'[r].op = "login" /\ seen'[r] = user
               /\ pc'[r] \in {"rejected", "counted", "refused", "accepted", "signing"}
               /\ pc'[r] = "refused" => call'[r] = [op |-> "login", right |-> FALSE]
            \/ /\ call'[r].op = "refresh" /\ call'[r].token \in issued
               /\ \/ pc'[r] = "reused" /\ call'[r].token \in revoked
                  \/ pc'[r] \in {"rejected", "found"} /\ call'[r].token \notin revoked
            \/ call'[r].op = "none" /\ pc'[r] = "rejected"
            \/ /\ call'[r].op = "logout" /\ call'[r].token \in issued
               /\ \/ pc'[r] = "logging" /\ call'[r].token \in revoked
                  \/ pc'[r] = "leaving" /\ call'[r].token \notin revoked
            \/ /\ call'[r].op = "changePassword" /\ seen'[r] = user
               /\ pc'[r] \in {"rejected", "changing"}
            \/ /\ call'[r].op = "update" /\ seen'[r] = user /\ pc'[r] = "editing"
            \/ /\ call'[r].op = "setActive" /\ pc'[r] = "switching"
  <1>1. ASSUME NEW c \in Call, Begin(r, c)
        PROVE  /\ pc[r] = "idle"
               /\ UNCHANGED <<tables, now, columns, lineage, ended, during>>
               /\ earlier' \in [Requests -> SUBSET Requests]
               /\ \A q \in Requests \ {r} : earlier'[q] = earlier[q]
               /\ \A q \in earlier'[r] : pc[q] \in Ended
               /\ call' \in [Requests -> Call] /\ call'[r] = c
               /\ seen' \in [Requests -> User] /\ seen'[r] \in {seen[r], user}
               /\ c.op \in {"login", "changePassword", "update"} => seen'[r] = user
               /\ since' \in [Requests -> Time]
               /\ \A q \in Requests \ {r} : /\ call'[q] = call[q]
                                            /\ seen'[q] = seen[q] /\ since'[q] = since[q]
    BY <1>1 DEF Begin, TypeOK
  <1>2. ASSUME NEW stage \in InFlight \cup Ended, Goto(r, stage)
        PROVE  /\ pc' \in [Requests -> {"idle"} \cup InFlight \cup Ended] /\ pc'[r] = stage
               /\ \A q \in Requests \ {r} : pc'[q] = pc[q]
    BY <1>2 DEF Goto, TypeOK
  <1>3. CASE \E right \in BOOLEAN : Login(r, right)
    <2>1. PICK right \in BOOLEAN : Login(r, right)
      BY <1>3
    <2>2. [op |-> "login", right |-> right] \in Call
      BY DEF Call
    <2> DEFINE stage == IF ~user.isActive \/ Locked THEN "rejected"
                        ELSE IF user.password = None THEN "counted"
                        ELSE IF ~right THEN "refused"
                        ELSE IF user.attempts > 0 THEN "accepted"
                        ELSE "signing"
    <2>3. /\ stage \in {"rejected", "counted", "refused", "accepted", "signing"}
          /\ stage = "refused" => right = FALSE
      OBVIOUS
    <2>4. Begin(r, [op |-> "login", right |-> right]) /\ Goto(r, stage)
      BY <2>1 DEF Login
    <2> HIDE DEF stage
    <2>5. stage \in InFlight \cup Ended
      BY <2>3 DEF InFlight, Ended
    <2> DEFINE c == [op |-> "login", right |-> right]
    <2>6. c.op = "login" /\ (stage = "refused" => c = [op |-> "login", right |-> FALSE])
      BY <2>3
    <2>7. c \in Call /\ Begin(r, c)
      BY <2>2, <2>4
    <2> HIDE DEF c
    <2> QED
      BY <1>1, <1>2, <2>3, <2>4, <2>5, <2>6, <2>7
  <1>4. CASE \E right \in BOOLEAN : ChangePassword(r, right)
    <2>1. PICK right \in BOOLEAN : ChangePassword(r, right)
      BY <1>4
    <2>2. [op |-> "changePassword", right |-> right] \in Call
      BY DEF Call
    <2> DEFINE stage == IF right /\ user.password # None THEN "changing" ELSE "rejected"
    <2>3. stage \in InFlight \cup Ended /\ stage \in {"rejected", "changing"}
      BY DEF InFlight, Ended
    <2>4. Begin(r, [op |-> "changePassword", right |-> right]) /\ Goto(r, stage)
      BY <2>1 DEF ChangePassword
    <2> HIDE DEF stage
    <2> QED
      BY <1>1, <1>2, <2>2, <2>3, <2>4
  <1>5. CASE \E t \in issued : Refresh(r, t)
    <2>1. PICK t \in issued : Refresh(r, t)
      BY <1>5
    <2>2. [op |-> "refresh", token |-> t] \in Call
      BY DEF Call, TypeOK
    <2> DEFINE stage == IF t \in revoked THEN "reused"
                        ELSE IF t.iat + Lifetime < now THEN "rejected"
                        ELSE "found"
    <2>3. \/ stage = "reused" /\ t \in revoked
          \/ stage \in {"rejected", "found"} /\ t \notin revoked
      OBVIOUS
    <2>4. Begin(r, [op |-> "refresh", token |-> t]) /\ Goto(r, stage)
      BY <2>1 DEF Refresh
    <2> HIDE DEF stage
    <2>5. stage \in InFlight \cup Ended
      BY <2>3 DEF InFlight, Ended
    <2> QED
      BY <1>1, <1>2, <2>2, <2>3, <2>4, <2>5
  <1>6. CASE \E t \in issued : Logout(r, t)
    <2>1. PICK t \in issued : Logout(r, t)
      BY <1>6
    <2>2. [op |-> "logout", token |-> t] \in Call
      BY DEF Call, TypeOK
    <2> DEFINE stage == IF t \in revoked THEN "logging" ELSE "leaving"
    <2>3. /\ stage \in InFlight \cup Ended
          /\ \/ stage = "logging" /\ t \in revoked
             \/ stage = "leaving" /\ t \notin revoked
      BY DEF InFlight, Ended
    <2>4. Begin(r, [op |-> "logout", token |-> t]) /\ Goto(r, stage)
      BY <2>1 DEF Logout
    <2> HIDE DEF stage
    <2> QED
      BY <1>1, <1>2, <2>2, <2>3, <2>4
  <1>7. CASE RefreshUnknown(r)
    <2>1. [op |-> "none"] \in Call /\ "rejected" \in InFlight \cup Ended
      BY DEF Call, InFlight, Ended
    <2> QED
      BY <1>1, <1>2, <1>7, <2>1 DEF RefreshUnknown
  <1>8. CASE Edit(r)
    <2>1. [op |-> "update"] \in Call /\ "editing" \in InFlight \cup Ended
      BY DEF Call, InFlight, Ended
    <2> QED
      BY <1>1, <1>2, <1>8, <2>1 DEF Edit
  <1>9. CASE \E value \in BOOLEAN : SetActive(r, value)
    <2>1. PICK value \in BOOLEAN : SetActive(r, value)
      BY <1>9
    <2>2. [op |-> "setActive", value |-> value] \in Call /\ "switching" \in InFlight \cup Ended
      BY DEF Call, InFlight, Ended
    <2> QED
      BY <1>1, <1>2, <2>1, <2>2 DEF SetActive
  <1> QED
    BY <1>3, <1>4, <1>5, <1>6, <1>7, <1>8, <1>9 DEF Start

\* The stages that a request in flight goes through.
Passes(a, b) ==
  \/ a = "refused" /\ b = "counted"
  \/ a = "counted" /\ b = "rejected"
  \/ a = "accepted" /\ b = "signing"
  \/ a = "signing" /\ b = "logging"
  \/ a = "found" /\ b \in {"rotating", "rejected"}
  \/ a = "rotating" /\ b = "signing"
  \/ a = "leaving" /\ b = "logging"
  \/ a = "changing" /\ b = "changed"
  \/ a = "changed" /\ b = "logging"
  \/ a = "reused" /\ b = "terminated"
  \/ a = "editing" /\ b = "merged"
  \/ a \in {"merged", "switching"} /\ b = "logging"
  \/ a = "logging" /\ b = "done"
  \/ a \in InFlight /\ b = "failed"

LEMMA ProceedEffect ==
  ASSUME TypeOK, NEW r \in Requests, Proceed(r) \/ Fail(r)
  PROVE  /\ pc' \in [Requests -> {"idle"} \cup InFlight \cup Ended]
         /\ \A q \in Requests \ {r} : pc'[q] = pc[q]
         /\ Passes(pc[r], pc'[r]) /\ pc[r] \in InFlight
         /\ UNCHANGED <<now, call, seen>>
  <1>1. ASSUME NEW stage \in InFlight \cup Ended, Goto(r, stage)
        PROVE  /\ pc' \in [Requests -> {"idle"} \cup InFlight \cup Ended] /\ pc'[r] = stage
               /\ \A q \in Requests \ {r} : pc'[q] = pc[q]
    BY <1>1 DEF Goto, TypeOK
  <1>2. CASE HandleFailedLogin(r) \/ ResetAttempts(r) \/ Issue(r) \/ DuplicateToken(r)
    BY <1>1, <1>2 DEF HandleFailedLogin, ResetAttempts, Issue, DuplicateToken, Passes, InFlight, Ended
  <1>3. CASE LoadUser(r) \/ Rotate(r) \/ LogoutRevoke(r)
    BY <1>1, <1>3 DEF LoadUser, Rotate, LogoutRevoke, Passes, InFlight, Ended, tables, past
  <1>4. CASE WritePassword(r) \/ RevokeAllUserTokens(r)
    BY <1>1, <1>4 DEF WritePassword, RevokeAllUserTokens, Passes, InFlight, Ended
  <1>5. CASE Merge(r) \/ SaveUser(r) \/ WriteActive(r)
    BY <1>1, <1>5 DEF Merge, SaveUser, WriteActive, Passes, InFlight, Ended
  <1>6. CASE LogAudit(r) \/ Fail(r)
    BY <1>1, <1>6 DEF LogAudit, Fail, Passes, InFlight, Ended
  <1> QED
    BY <1>2, <1>3, <1>4, <1>5, <1>6 DEF Proceed

\* What a step does to the tokens.
Gained(r) ==
  /\ pc[r] = "signing" /\ pc'[r] = "logging"
  /\ UNCHANGED <<revoked, ended, during, earlier>>
  /\ \E i \in since[r] .. now :
       /\ Signed(r, i) \notin issued
       /\ issued' = issued \cup {Signed(r, i)}
       /\ lineage' = [lineage EXCEPT ![Signed(r, i)] =
                        {r} \cup IF call[r].op = "login" THEN {}
                                 ELSE lineage[call[r].token]]

Consumed(r) ==
  /\ pc[r] \in {"rotating", "leaving"}
  /\ revoked' = revoked \cup {call[r].token}
  /\ UNCHANGED <<issued, past>>

EndedAll(r) ==
  /\ pc[r] \in {"reused", "changed"} /\ pc'[r] = IF pc[r] = "reused" THEN "terminated" ELSE "logging"
  /\ revoked' = issued
  /\ ended' = [ended EXCEPT ![r] = {t.session : t \in issued}]
  /\ during' = [during EXCEPT ![r] = {q \in Requests : pc[q] \in InFlight}]
  /\ UNCHANGED <<issued, lineage, earlier>>

LEMMA TokensEffect ==
  ASSUME TypeOK, NEW r \in Requests, Proceed(r) \/ Fail(r)
  PROVE  /\ \/ Gained(r) \/ Consumed(r) \/ EndedAll(r)
            \/ /\ UNCHANGED <<issued, revoked, past>>
               /\ pc[r] \notin {"rotating", "leaving", "changed"} \/ pc'[r] = "failed"
         /\ issued \subseteq issued' /\ revoked \subseteq revoked'
  <1>1. ASSUME NEW stage, Goto(r, stage) PROVE pc'[r] = stage
    BY <1>1 DEF Goto, TypeOK
  <1>2. CASE Issue(r)
    BY <1>1, <1>2 DEF Issue, Gained
  <1>3. CASE Rotate(r) \/ LogoutRevoke(r)
    BY <1>3 DEF Rotate, LogoutRevoke, Consumed
  <1>4. CASE RevokeAllUserTokens(r)
    BY <1>1, <1>4 DEF RevokeAllUserTokens, Noted, EndedAll, TypeOK
  <1>5. CASE \/ HandleFailedLogin(r) \/ ResetAttempts(r) \/ DuplicateToken(r) \/ LoadUser(r)
             \/ WritePassword(r) \/ Merge(r) \/ SaveUser(r) \/ WriteActive(r) \/ LogAudit(r)
    BY <1>5 DEF HandleFailedLogin, ResetAttempts, DuplicateToken, LoadUser, WritePassword,
                Merge, SaveUser, WriteActive, LogAudit, past, tables
  <1>6. CASE Fail(r)
    BY <1>1, <1>6 DEF Fail, past, tables
  <1> QED
    BY <1>2, <1>3, <1>4, <1>5, <1>6 DEF Proceed, Gained, Consumed, EndedAll, past, TypeOK

\* The account keeps its shape.
LEMMA UserEffect ==
  ASSUME TypeOK, StageInv, NEW r \in Requests, Proceed(r) \/ Fail(r)
  PROVE  /\ user' \in User
         /\ user'.password = IF pc[r] = "changing" /\ pc'[r] = "changed" THEN r ELSE user.password
  <1>1. ASSUME NEW stage, Goto(r, stage) PROVE pc'[r] = stage
    BY <1>1 DEF Goto, TypeOK
  <1>2. /\ user \in User /\ seen[r] \in User /\ now \in Nat /\ LockFor \in Nat
        /\ user.attempts \in Nat /\ seen[r].attempts \in Nat
    BY TimesAssumption DEF TypeOK, Time, User
  <1>3. CASE HandleFailedLogin(r)
    <2>1. now + LockFor \in Nat /\ seen[r].attempts + 1 \in Nat
      BY <1>2
    <2> QED
      BY <1>2, <1>3, <2>1 DEF HandleFailedLogin, User
  <1>4. CASE ResetAttempts(r)
    BY <1>2, <1>4 DEF ResetAttempts, User
  <1>5. CASE WritePassword(r)
    BY <1>1, <1>2, <1>5 DEF WritePassword, User, Password
  <1>6. CASE SaveUser(r)
    <2>1. DOMAIN user = {"isActive", "password", "attempts", "lockedUntil"}
      BY <1>2 DEF User
    <2>2. user' = [k \in {"isActive", "password", "attempts", "lockedUntil"} |->
                     IF k \in columns[r] THEN seen[r][k] ELSE user[k]]
      BY <1>6, <2>1 DEF SaveUser
    <2>3. "password" \notin columns[r] /\ pc[r] # "changing"
      BY <1>6 DEF SaveUser, TypeOK, Column
    <2>4. user' = [isActive |-> user'.isActive, password |-> user'.password,
                   attempts |-> user'.attempts, lockedUntil |-> user'.lockedUntil]
      BY <2>2
    <2>5. /\ user'.isActive \in BOOLEAN /\ user'.password = user.password
          /\ user'.password \in Password
          /\ user'.attempts \in Nat /\ user'.lockedUntil \in Nat \cup {None}
      BY <1>2, <2>2, <2>3 DEF User
    <2> QED
      BY <2>3, <2>4, <2>5 DEF User
  <1>7. CASE WriteActive(r)
    <2>1. call[r] \in Call /\ pc[r] = "switching" /\ user' = [user EXCEPT !.isActive = call[r].value]
      BY <1>7 DEF WriteActive, TypeOK
    <2>2. call[r].op = "setActive"
      BY <2>1 DEF StageInv
    <2>3. call[r].value \in BOOLEAN
      BY <2>1, <2>2 DEF Call
    <2> QED
      BY <1>2, <2>1, <2>3 DEF User
  <1>8. CASE \/ Issue(r) \/ DuplicateToken(r) \/ LoadUser(r) \/ Rotate(r) \/ LogoutRevoke(r)
             \/ RevokeAllUserTokens(r) \/ Merge(r) \/ LogAudit(r) \/ Fail(r)
    <2>1. user' = user
      BY <1>8 DEF Issue, DuplicateToken, LoadUser, Rotate, LogoutRevoke, RevokeAllUserTokens,
                  Merge, LogAudit, Fail, tables
    <2>2. ~(pc[r] = "changing" /\ pc'[r] = "changed")
      BY <1>1, <1>8 DEF Issue, DuplicateToken, LoadUser, Rotate, LogoutRevoke, RevokeAllUserTokens,
                  Merge, LogAudit, Fail
    <2> QED
      BY <1>2, <2>1, <2>2
  <1> QED
    BY <1>3, <1>4, <1>5, <1>6, <1>7, <1>8 DEF Proceed

\* The token that a request works with exists.
LEMMA TokenOfCall ==
  ASSUME TypeOK, StageInv, NEW r \in Requests, call[r].op \in {"refresh", "logout"}
  PROVE  /\ call[r].token \in issued /\ call[r].token \in Token
         /\ call[r].token.session \in Requests
  <1>1. call[r].token \in issued
    BY DEF StageInv
  <1> QED
    BY <1>1 DEF TypeOK, Token

LEMMA SignedIsToken ==
  ASSUME TypeOK, StageInv, NEW r \in Requests, pc[r] = "signing", NEW i \in since[r] .. now
  PROVE  /\ Signed(r, i) \in Token /\ SessionOf(r) \in Requests
         /\ Signed(r, i).session = SessionOf(r)
         /\ SessionOf(r) = IF call[r].op = "login" THEN r ELSE call[r].token.session
  <1>1. SessionOf(r) \in Requests
    BY TokenOfCall DEF StageInv, SessionOf
  <1>2. i \in Time
    BY TimesAssumption DEF TypeOK, Time
  <1> QED
    BY <1>1, <1>2 DEF Signed, Token, SessionOf

-----------------------------------------------------------------------------
(* Each part is kept by a step of one request.                              *)

RequestStep(r) == Start(r) \/ Proceed(r) \/ Fail(r)

LEMMA StageStep ==
  ASSUME TypeOK, StageInv, NEW r \in Requests, RequestStep(r)
  PROVE  StageInv'
  <1>1. ASSUME NEW q \in Requests \ {r}, pc'[q] = pc[q], call'[q] = call[q], issued \subseteq issued'
        PROVE  StageInv!(q)'
    BY <1>1 DEF StageInv
  <1>2. CASE Start(r)
    <2>1. StageInv!(r)'
      BY <1>2, StartEffect DEF tables
    <2> QED
      BY <1>1, <1>2, <2>1, StartEffect DEF StageInv, tables
  <1>3. CASE Proceed(r) \/ Fail(r)
    <2>1. Passes(pc[r], pc'[r]) /\ call' = call /\ issued \subseteq issued'
      BY <1>3, ProceedEffect, TokensEffect
    <2>2. StageInv!(r)'
      BY <2>1 DEF StageInv, Passes
    <2> QED
      BY <1>1, <1>3, <2>1, <2>2, ProceedEffect DEF StageInv
  <1> QED
    BY <1>2, <1>3 DEF RequestStep

LEMMA TypeStep ==
  ASSUME TypeOK, StageInv, NEW r \in Requests, RequestStep(r)
  PROVE  TypeOK'
  <1>1. CASE Start(r)
    BY <1>1, StartEffect DEF TypeOK, tables, past
  <1>2. CASE Proceed(r) \/ Fail(r)
    <2>1. /\ pc' \in [Requests -> {"idle"} \cup InFlight \cup Ended]
          /\ UNCHANGED <<now, call, seen>> /\ user' \in User
      BY <1>2, ProceedEffect, UserEffect
    <2>2. auditLog' \subseteq {"login", "refresh", "logout", "changePassword",
                               "setActive", "update", "login_failed"} \X Requests
      <3>1. CASE LogAudit(r)
        <4>1. pc[r] = "logging" => call[r].op \in {"login", "refresh", "logout", "changePassword",
                                                   "setActive", "update"}
          BY DEF TypeOK, StageInv, Call
        <4> QED
          BY <3>1, <4>1 DEF LogAudit, TypeOK
      <3>2. CASE ~LogAudit(r)
        <4>1. auditLog' = auditLog
          BY <1>2, <3>2 DEF Proceed, Fail, HandleFailedLogin, ResetAttempts, Issue, DuplicateToken,
               LoadUser, Rotate, LogoutRevoke, WritePassword, RevokeAllUserTokens, Merge, SaveUser,
               WriteActive, tables
        <4> QED
          BY <4>1 DEF TypeOK
      <3> QED
        BY <3>1, <3>2
    <2>3. columns' \in [Requests -> SUBSET Column] /\ since' \in [Requests -> Time]
      BY <1>2 DEF Proceed, Fail, HandleFailedLogin, ResetAttempts, Issue, DuplicateToken,
           LoadUser, Rotate, LogoutRevoke, WritePassword, RevokeAllUserTokens, Merge, SaveUser,
           WriteActive, LogAudit, TypeOK
    <2>4. /\ issued' \subseteq Token /\ revoked' \subseteq issued'
          /\ lineage' \in [Token -> SUBSET Requests]
          /\ ended' \in [Requests -> SUBSET Requests]
          /\ during' \in [Requests -> SUBSET Requests]
          /\ earlier' \in [Requests -> SUBSET Requests]
      <3>1. CASE Gained(r)
        <4>1. PICK i \in since[r] .. now :
                 /\ issued' = issued \cup {Signed(r, i)}
                 /\ lineage' = [lineage EXCEPT ![Signed(r, i)] =
                                  {r} \cup IF call[r].op = "login" THEN {}
                                           ELSE lineage[call[r].token]]
          BY <3>1 DEF Gained
        <4>2. Signed(r, i) \in Token
          BY <3>1, SignedIsToken DEF Gained
        <4>3. call[r].op # "login" => lineage[call[r].token] \subseteq Requests
          BY <3>1, TokenOfCall DEF Gained, StageInv, TypeOK
        <4> QED
          BY <3>1, <4>1, <4>2, <4>3 DEF Gained, TypeOK
      <3>2. CASE Consumed(r)
        BY <3>2, TokenOfCall DEF Consumed, StageInv, TypeOK, past
      <3>3. CASE EndedAll(r)
        BY <3>3 DEF EndedAll, TypeOK, Token
      <3>4. CASE UNCHANGED <<issued, revoked, past>>
        BY <3>4 DEF TypeOK, past
      <3> QED
        BY <1>2, <3>1, <3>2, <3>3, <3>4, TokensEffect
    <2> QED
      BY <2>1, <2>2, <2>3, <2>4 DEF TypeOK
  <1> QED
    BY <1>1, <1>2 DEF RequestStep

LEMMA ConsumedStep ==
  ASSUME TypeOK, StageInv, ConsumedInv, NEW r \in Requests, RequestStep(r)
  PROVE  ConsumedInv'
  <1>1. CASE Start(r)
    BY <1>1, StartEffect DEF ConsumedInv, tables
  <1>2. CASE Proceed(r) \/ Fail(r)
    <2>1. /\ \A q \in Requests \ {r} : pc'[q] = pc[q]
          /\ call' = call /\ revoked \subseteq revoked' /\ Passes(pc[r], pc'[r])
      BY <1>2, ProceedEffect, TokensEffect
    <2>2. ASSUME \/ call[r].op = "refresh" /\ pc'[r] \in {"signing", "logging", "done"}
                 \/ call[r].op = "logout" /\ pc'[r] \in {"logging", "done"}
          PROVE  call[r].token \in revoked'
      <3>1. CASE pc[r] \in {"rotating", "leaving"}
        <4>1. pc'[r] # "failed"
          BY <2>2
        <4>2. Consumed(r)
          BY <1>2, <3>1, <4>1, TokensEffect DEF Gained, EndedAll
        <4> QED
          BY <4>2 DEF Consumed
      <3>2. CASE pc[r] \notin {"rotating", "leaving"}
        BY <2>1, <2>2, <3>2 DEF ConsumedInv, StageInv, Passes
      <3> QED
        BY <3>1, <3>2
    <2> QED
      BY <2>1, <2>2 DEF ConsumedInv
  <1> QED
    BY <1>1, <1>2 DEF RequestStep

\* A failure on record stays on record.
LEMMA FailuresGrow ==
  ASSUME TypeOK, StageInv, FailureInv, NEW r \in Requests, RequestStep(r)
  PROVE  /\ Failures \subseteq Failures' /\ Failures' \subseteq Requests
         /\ \A entry \in auditLog' : pc'[entry[2]] \in {"done", "rejected"}
  <1>1. /\ \A q \in Requests \ {r} : pc'[q] = pc[q] /\ call'[q] = call[q]
        /\ pc[r] \notin {"done", "rejected"}
    BY StartEffect, ProceedEffect DEF RequestStep, InFlight
  <1>2. \A entry \in auditLog : entry[2] \in Requests \ {r}
    BY <1>1 DEF FailureInv, TypeOK
  <1>3. CASE LogAudit(r)
    <2>1. /\ auditLog' = auditLog \cup
                {<<IF pc[r] = "logging" THEN call[r].op ELSE "login_failed", r>>}
          /\ pc[r] \in {"logging", "counted"} /\ call' = call
          /\ pc'[r] = IF pc[r] = "logging" THEN "done" ELSE "rejected"
      BY <1>3 DEF LogAudit, Goto, TypeOK
    <2>2. Failures \subseteq Failures'
      BY <1>1, <2>1 DEF Failures
    <2> QED
      BY <1>1, <1>2, <2>1, <2>2 DEF Failures, FailureInv
  <1>4. CASE ~LogAudit(r)
    <2>1. auditLog' = auditLog
      BY <1>4, StartEffect DEF RequestStep, Proceed, Fail, HandleFailedLogin, ResetAttempts, Issue,
           DuplicateToken, LoadUser, Rotate, LogoutRevoke, WritePassword, RevokeAllUserTokens,
           Merge, SaveUser, WriteActive, tables
    <2>2. pc[r] \in {"counted", "failed"} => pc[r] = "counted" /\ pc'[r] = "failed" /\ call' = call
      <3>1. CASE Start(r)
        BY <3>1, StartEffect
      <3>2. CASE Fail(r)
        BY <3>2 DEF Fail, Goto, TypeOK, InFlight
      <3>3. CASE Proceed(r)
        BY <1>4, <3>3 DEF Proceed, HandleFailedLogin, ResetAttempts, Issue,
             DuplicateToken, LoadUser, Rotate, LogoutRevoke, WritePassword, RevokeAllUserTokens,
             Merge, SaveUser, WriteActive
      <3> QED
        BY <3>1, <3>2, <3>3 DEF RequestStep
    <2>3. Failures \subseteq Failures'
      BY <1>1, <2>1, <2>2 DEF Failures
    <2> QED
      BY <1>1, <1>2, <2>1, <2>3 DEF Failures, FailureInv
  <1> QED
    BY <1>3, <1>4

\* A failed login adds to the failures by its write.
LEMMA FailureAdds ==
  ASSUME TypeOK, StageInv, FailureInv, NEW r \in Requests, HandleFailedLogin(r)
  PROVE  Cardinality(Failures') \in Nat /\ Cardinality(Failures') >= Cardinality(Failures) + 1
  <1>1. Failures \subseteq Failures' /\ Failures' \subseteq Requests
    BY FailuresGrow DEF RequestStep, Proceed
  <1>2. /\ pc[r] = "refused" /\ pc'[r] = "counted" /\ call' = call
        /\ call[r] = [op |-> "login", right |-> FALSE]
    BY DEF HandleFailedLogin, Goto, TypeOK, StageInv
  <1>3. r \notin Failures /\ r \in Failures'
    BY <1>2 DEF Failures, FailureInv
  <1>4. IsFiniteSet(Failures') /\ IsFiniteSet(Failures) /\ IsFiniteSet(Failures \cup {r})
    BY <1>1, RequestsAssumption, FS_Subset, FS_AddElement
  <1>5. Cardinality(Failures \cup {r}) = Cardinality(Failures) + 1
    BY <1>3, <1>4, FS_AddElement
  <1>6. Cardinality(Failures \cup {r}) <= Cardinality(Failures')
    BY <1>1, <1>3, <1>4, FS_Subset
  <1> QED
    BY <1>4, <1>5, <1>6, FS_CardinalityType

LEMMA FailureStep ==
  ASSUME TypeOK, StageInv, FailureInv, NEW r \in Requests, RequestStep(r)
  PROVE  FailureInv'
  <1> DEFINE n == Cardinality(Failures)
             m == Cardinality(Failures')
  <1>1. n \in Nat /\ m \in Nat /\ n <= m /\ MaxAttempts \in Nat \ {0}
    <2>1. Failures \subseteq Failures' /\ Failures' \subseteq Requests
      BY FailuresGrow
    <2> QED
      BY <2>1, RequestsAssumption, MaxAttemptsAssumption, FS_Subset, FS_CardinalityType
  <1>2. \A u \in User : Fits(u) <=> u.attempts <= n /\ (u.lockedUntil # None => n >= MaxAttempts)
    BY DEF Fits
  <1>3. Fits(user) /\ user \in User /\ \A q \in Requests : Fits(seen[q]) /\ seen[q] \in User
    BY DEF FailureInv, TypeOK
  <1> DEFINE Fine(u) == u.attempts <= m /\ (u.lockedUntil # None => m >= MaxAttempts)
  <1>4. /\ Fits(user)' <=> Fine(user')
        /\ \A q \in Requests : Fits(seen[q])' <=> Fine(seen'[q])
    BY DEF Fits
  <1> HIDE DEF n, m
  <1>5. \A u \in User : Fits(u) => Fine(u)
    <2> SUFFICES ASSUME NEW u \in User, Fits(u) PROVE Fine(u)
      OBVIOUS
    <2>1. u.attempts \in Nat
      BY DEF User
    <2> QED
      BY <1>1, <1>2, <2>1
  <1>6. \A q \in Requests : Fine(seen'[q])
    <2>1. \A q \in Requests : seen'[q] \in {seen[q], user}
      BY StartEffect, ProceedEffect DEF RequestStep
    <2> QED
      BY <1>3, <1>5, <2>1
  <1>7. Fine(user')
    <2>1. /\ user.attempts \in Nat /\ seen[r].attempts \in Nat
          /\ user = [isActive |-> user.isActive, password |-> user.password,
                     attempts |-> user.attempts, lockedUntil |-> user.lockedUntil]
      BY <1>3 DEF User
    <2>2. CASE HandleFailedLogin(r)
      <3>1. m >= n + 1
        BY <2>2, FailureAdds DEF n, m
      <3>2. seen[r].attempts <= n /\ (user.lockedUntil # None => n >= MaxAttempts)
        BY <1>2, <1>3
      <3>3. /\ user'.attempts = seen[r].attempts + 1
            /\ user'.lockedUntil # None =>
                 seen[r].attempts + 1 >= MaxAttempts \/ user.lockedUntil # None
        BY <2>1, <2>2 DEF HandleFailedLogin
      <3> QED
        BY <1>1, <2>1, <3>1, <3>2, <3>3
    <2>3. CASE ResetAttempts(r)
      BY <1>1, <2>1, <2>3 DEF ResetAttempts
    <2>4. CASE SaveUser(r)
      <3>1. /\ user'.attempts \in {user.attempts, seen[r].attempts}
            /\ user'.lockedUntil \in {user.lockedUntil, seen[r].lockedUntil}
        BY <2>1, <2>4 DEF SaveUser
      <3> QED
        BY <1>3, <1>5, <3>1
    <2>5. CASE WritePassword(r) \/ WriteActive(r)
      <3>1. user'.attempts = user.attempts /\ user'.lockedUntil = user.lockedUntil
        BY <2>1, <2>5 DEF WritePassword, WriteActive
      <3> QED
        BY <1>3, <1>5, <3>1
    <2>6. CASE \/ Start(r) \/ Fail(r) \/ Issue(r) \/ DuplicateToken(r) \/ LoadUser(r) \/ Rotate(r)
               \/ LogoutRevoke(r) \/ RevokeAllUserTokens(r) \/ Merge(r) \/ LogAudit(r)
      <3>1. user' = user
        BY <2>6, StartEffect DEF Fail, Issue, DuplicateToken, LoadUser, Rotate, LogoutRevoke,
             RevokeAllUserTokens, Merge, LogAudit, tables
      <3> QED
        BY <1>3, <1>5, <3>1
    <2> QED
      BY <2>2, <2>3, <2>4, <2>5, <2>6 DEF RequestStep, Proceed
  <1> QED
    BY <1>4, <1>6, <1>7, FailuresGrow DEF FailureInv

LEMMA SessionStep ==
  ASSUME TypeOK, StageInv, SessionInv, NEW r \in Requests, RequestStep(r)
  PROVE  /\ SessionInv'
         /\ LoggedIn \subseteq LoggedIn' /\ \A s \in LoggedIn : seen'[s] = seen[s]
  <1>1. ASSUME NEW s \in Requests, s \in LoggedIn PROVE s \in LoggedIn' /\ seen'[s] = seen[s]
    <2>1. CASE Start(r)
      BY <1>1, <2>1, StartEffect DEF LoggedIn
    <2>2. CASE Proceed(r) \/ Fail(r)
      BY <1>1, <2>2, ProceedEffect DEF LoggedIn, Passes, InFlight
    <2> QED
      BY <2>1, <2>2 DEF RequestStep
  <1>2. LoggedIn \subseteq LoggedIn' /\ \A s \in LoggedIn : seen'[s] = seen[s]
    <2>1. LoggedIn \subseteq Requests
      BY DEF LoggedIn
    <2> QED
      BY <1>1, <2>1
  <1>3. \A t \in issued : t.session \in Requests
    BY DEF TypeOK, Token
  <1>4. CASE Start(r)
    BY <1>2, <1>3, <1>4, StartEffect DEF SessionInv, tables, past
  <1>5. CASE (Proceed(r) \/ Fail(r)) /\ Gained(r)
    <2>1. PICK i \in since[r] .. now : issued' = issued \cup {Signed(r, i)}
      BY <1>5 DEF Gained
    <2>2. Signed(r, i).session \in LoggedIn'
      <3>1. CASE call[r].op = "login"
        BY <1>5, <3>1, SignedIsToken, ProceedEffect DEF Gained, LoggedIn
      <3>2. CASE call[r].op # "login"
        <4>1. call[r].token \in issued /\ call[r].token.session \in LoggedIn
          BY <1>5, <3>2, TokenOfCall DEF Gained, StageInv, SessionInv
        <4> QED
          BY <1>2, <1>3, <1>5, <3>2, <4>1, SignedIsToken DEF Gained
      <3> QED
        BY <3>1, <3>2
    <2> QED
      BY <1>2, <1>3, <1>5, <2>1, <2>2 DEF SessionInv, Gained
  <1>6. CASE EndedAll(r)
    <2>1. \A q \in Requests : ended'[q] \subseteq LoggedIn
      BY <1>6 DEF EndedAll, SessionInv, TypeOK
    <2> QED
      BY <1>2, <1>3, <1>6, <2>1 DEF SessionInv, EndedAll
  <1>7. CASE UNCHANGED <<issued, ended>>
    BY <1>2, <1>3, <1>7 DEF SessionInv
  <1> QED
    BY <1>2, <1>4, <1>5, <1>6, <1>7, TokensEffect DEF RequestStep, Consumed, past

LEMMA PasswordStep ==
  ASSUME TypeOK, StageInv, PasswordInv, NEW r \in Requests, RequestStep(r)
  PROVE  PasswordInv'
  <1>1. CASE Start(r)
    <2>1. user' = user /\ pc[r] = "idle" /\ pc'[r] \notin {"idle", "changed"}
      BY <1>1, StartEffect DEF tables
    <2>2. Writers \subseteq Writers'
      BY <1>1, <2>1, StartEffect DEF Writers
    <2>3. user'.password \in Requests => user'.password \in Writers'
      BY <2>1, <2>2 DEF PasswordInv
    <2>4. ASSUME NEW q \in Requests
          PROVE  /\ seen'[q].password \in Requests => seen'[q].password \in Writers'
                 /\ call'[q].op = "changePassword" /\ pc'[q] \in {"changed", "logging", "done"} =>
                      user'.password # seen'[q].password
      <3>1. CASE q = r
        <4>1. seen'[r].password \in Requests => seen'[r].password \in Writers
          <5>1. CASE seen'[r] = user
            BY <5>1 DEF PasswordInv
          <5>2. CASE seen'[r] = seen[r]
            BY <5>2 DEF PasswordInv
          <5> QED
            BY <1>1, <5>1, <5>2, StartEffect
        <4> QED
          BY <1>1, <2>2, <3>1, <4>1, StartEffect
      <3>2. CASE q # r
        BY <1>1, <2>1, <2>2, <3>2, StartEffect DEF PasswordInv
      <3> QED
        BY <3>1, <3>2
    <2> QED
      BY <2>3, <2>4 DEF PasswordInv
  <1>2. CASE Proceed(r) \/ Fail(r)
    <2>1. /\ \A q \in Requests \ {r} : pc'[q] = pc[q]
          /\ call' = call /\ seen' = seen /\ Passes(pc[r], pc'[r]) /\ pc[r] # "idle"
          /\ user'.password = IF pc[r] = "changing" /\ pc'[r] = "changed" THEN r ELSE user.password
      BY <1>2, ProceedEffect, UserEffect DEF InFlight
    <2>2. Writers \subseteq Writers'
      BY <2>1 DEF Writers, Passes, InFlight
    <2>3. user'.password \in Requests => user'.password \in Writers'
      BY <2>1, <2>2 DEF PasswordInv, Writers
    <2>4. ASSUME NEW q \in Requests
          PROVE  seen'[q].password \in Requests => seen'[q].password \in Writers'
      BY <2>1, <2>2 DEF PasswordInv, Passes
    <2>5. ASSUME NEW q \in Requests,
                 call'[q].op = "changePassword", pc'[q] \in {"changed", "logging", "done"}
          PROVE  user'.password # seen'[q].password
      <3>1. pc[q] # "idle"
        BY <2>1, <2>5
      <3>2. CASE pc[r] = "changing" /\ pc'[r] = "changed"
        BY <2>1, <3>1, <3>2 DEF PasswordInv, Writers
      <3>3. CASE ~(pc[r] = "changing" /\ pc'[r] = "changed")
        <4>1. pc[q] \in {"changed", "logging", "done"}
          BY <2>1, <2>5, <3>3 DEF Passes, StageInv
        <4> QED
          BY <2>1, <2>5, <3>3, <4>1 DEF PasswordInv
      <3> QED
        BY <3>2, <3>3
    <2> QED
      BY <2>3, <2>4, <2>5 DEF PasswordInv
  <1> QED
    BY <1>1, <1>2 DEF RequestStep

\* Who is barred stays so but by a revocation; nobody else becomes it.
LEMMA CutStart ==
  ASSUME TypeOK, StageInv, SessionInv, PasswordInv, CutInv, NEW z \in Requests, Start(z)
  PROVE  CutInv'
  <1>1. /\ pc[z] = "idle" /\ z \notin LoggedIn /\ LoggedIn \subseteq Requests
        /\ Live' = Live /\ Live \subseteq issued
        /\ UNCHANGED <<issued, lineage, ended, during, user>>
    BY StartEffect DEF LoggedIn, tables, past, Live
  <1>2. \A t \in issued : t.session \in Requests \ {z}
    BY <1>1 DEF SessionInv
  <1>3. ASSUME NEW r \in Requests, Revoking(r)' PROVE Revoking(r) /\ r # z
    BY <1>3, StartEffect DEF Revoking
  <1>4. ASSUME NEW r \in Requests, NEW s \in Requests \ {z}, Barred(r, s)' PROVE Barred(r, s)
    BY <1>1, <1>3, <1>4, StartEffect DEF Barred
  <1>5. ASSUME NEW r \in Requests, NEW q \in Requests,
               pc'[q] \in {"accepted", "signing"}, call'[q].op = "login", Barred(r, q)'
        PROVE  q \in during'[r]
    <2>1. CASE q = z
      <3>1. q \notin ended'[r]
        BY <1>1, <2>1 DEF SessionInv
      <3>2. /\ Revoking(r) /\ r # z /\ seen'[q].password = user.password
            /\ seen'[r].password = seen[r].password /\ seen'[q].password = seen'[r].password
        BY <1>3, <1>5, <2>1, <3>1, StartEffect DEF Barred
      <3> QED
        BY <3>2 DEF PasswordInv, Revoking
    <2>2. CASE q # z
      BY <1>1, <1>4, <1>5, <2>2, StartEffect DEF CutInv
    <2> QED
      BY <2>1, <2>2
  <1>6. ASSUME NEW r \in Requests, NEW q \in Requests,
               pc'[q] \in {"found", "rotating", "signing"}, call'[q].op = "refresh",
               Barred(r, call[q].token.session)'
        PROVE  q \in during'[r] \/ lineage'[call'[q].token] \cap during'[r] # {}
    <2>1. call'[q].token \in issued
      BY <1>1, <1>6, StageStep DEF RequestStep, StageInv
    <2> DEFINE t == call'[q].token
    <2>2. t.session \in Requests \ {z} /\ Barred(r, t.session)
      <3>1. t.session \in Requests \ {z}
        BY <1>2, <2>1
      <3> QED
        BY <1>1, <1>3, <1>6, <3>1, StartEffect DEF Barred
    <2>3. CASE q = z
      <3>1. t \in Live
        BY <1>6, <2>1, <2>3, StartEffect DEF Live
      <3> QED
        BY <1>1, <2>2, <3>1 DEF CutInv
    <2>4. CASE q # z
      <3>1. pc[q] = pc'[q] /\ call[q] = call'[q]
        BY <2>4, StartEffect
      <3> QED
        BY <1>1, <1>6, <2>2, <3>1 DEF CutInv
    <2> QED
      BY <2>3, <2>4
  <1>7. ASSUME NEW r \in Requests, NEW t \in Live', Barred(r, t.session)'
        PROVE  lineage'[t] \cap during'[r] # {}
    BY <1>1, <1>2, <1>4, <1>7 DEF CutInv
  <1>8. ASSUME NEW r \in Requests, NEW q \in Requests
        PROVE  /\ pc'[q] \in {"accepted", "signing"} /\ call'[q].op = "login" /\ Barred(r, q)' =>
                    q \in during'[r]
               /\ pc'[q] \in {"found", "rotating", "signing"} /\ call'[q].op = "refresh"
                    /\ Barred(r, call[q].token.session)' =>
                    q \in during'[r] \/ lineage'[call'[q].token] \cap during'[r] # {}
    BY <1>5, <1>6
  <1> QED
    BY <1>7, <1>8 DEF CutInv

LEMMA CutProceed ==
  ASSUME TypeOK, StageInv, SessionInv, PasswordInv, CutInv,
         NEW z \in Requests, Proceed(z) \/ Fail(z)
  PROVE  CutInv'
  <1>1. /\ call' = call /\ seen' = seen /\ \A q \in Requests \ {z} : pc'[q] = pc[q]
        /\ Passes(pc[z], pc'[z])
    BY ProceedEffect
  <1>2. ASSUME NEW r \in Requests, Revoking(r)', ~(EndedAll(z) /\ r = z)
        PROVE  Revoking(r)
    <2>1. CASE r = z
      <3>1. pc'[z] \in {"logging", "done"} /\ call[z].op = "changePassword"
        BY <1>1, <1>2, <2>1 DEF Revoking
      <3>2. pc[z] \notin {"rotating", "leaving", "changed", "signing"}
        BY <1>2, <2>1, <3>1, TokensEffect DEF Gained, Consumed, StageInv
      <3> QED
        BY <1>1, <2>1, <3>1, <3>2 DEF Revoking, Passes, StageInv
    <2>2. CASE r # z
      BY <1>1, <1>2, <2>2 DEF Revoking
    <2> QED
      BY <2>1, <2>2
  <1>3. ASSUME NEW r \in Requests, NEW s, Barred(r, s)', ended'[r] = ended[r],
               ~(EndedAll(z) /\ r = z)
        PROVE  Barred(r, s)
    BY <1>1, <1>2, <1>3 DEF Barred
  <1>4. ASSUME NEW q \in Requests, pc'[q] \in {"accepted", "signing"}, call[q].op = "login"
        PROVE  pc[q] \in {"accepted", "signing"}
    BY <1>1, <1>4 DEF Passes, StageInv
  <1>5. ASSUME NEW q \in Requests, pc'[q] \in {"found", "rotating", "signing"},
               call[q].op = "refresh"
        PROVE  /\ pc[q] \in {"found", "rotating", "signing"}
               /\ call[q].token \in issued
    BY <1>1, <1>5 DEF Passes, StageInv
  <1>6. CASE Gained(z)
    <2>1. PICK i \in since[z] .. now :
             /\ Signed(z, i) \notin issued
             /\ issued' = issued \cup {Signed(z, i)}
             /\ lineage' = [lineage EXCEPT ![Signed(z, i)] =
                              {z} \cup IF call[z].op = "login" THEN {}
                                       ELSE lineage[call[z].token]]
      BY <1>6 DEF Gained
    <2> DEFINE new == Signed(z, i)
    <2>2. /\ new \in Token /\ new.session = IF call[z].op = "login" THEN z ELSE call[z].token.session
          /\ call[z].op \in {"login", "refresh"} /\ pc[z] = "signing" /\ pc'[z] = "logging"
          /\ UNCHANGED <<revoked, ended, during>> /\ ~EndedAll(z)
      BY <1>6, SignedIsToken DEF Gained, StageInv, EndedAll
    <2>3. /\ lineage'[new] = {z} \cup IF call[z].op = "login" THEN {} ELSE lineage[call[z].token]
          /\ \A t \in issued : lineage'[t] = lineage[t] /\ t # new
          /\ Live' \subseteq Live \cup {new} /\ Live \subseteq issued
      BY <2>1, <2>2 DEF TypeOK, Live
    <2> HIDE DEF new
    <2>4. \A r \in Requests : \A s : Barred(r, s)' => Barred(r, s)
      BY <1>3, <2>2
    <2>5. ASSUME NEW r \in Requests, Barred(r, new.session)
          PROVE  lineage'[new] \cap during'[r] # {}
      <3>1. CASE call[z].op = "login"
        BY <2>2, <2>3, <2>5, <3>1 DEF CutInv
      <3>2. CASE call[z].op = "refresh"
        <4>1. z \in during[r] \/ lineage[call[z].token] \cap during[r] # {}
          BY <2>2, <2>5, <3>2 DEF CutInv
        <4> QED
          BY <2>2, <2>3, <3>2, <4>1
      <3> QED
        BY <2>2, <3>1, <3>2
    <2>6. ASSUME NEW r \in Requests, NEW t \in Live', Barred(r, t.session)'
          PROVE  lineage'[t] \cap during'[r] # {}
      BY <2>2, <2>3, <2>4, <2>5, <2>6 DEF CutInv
    <2>7. ASSUME NEW r \in Requests, NEW q \in Requests
          PROVE  /\ pc'[q] \in {"accepted", "signing"} /\ call'[q].op = "login" /\ Barred(r, q)' =>
                      q \in during'[r]
                 /\ pc'[q] \in {"found", "rotating", "signing"} /\ call'[q].op = "refresh"
                      /\ Barred(r, call[q].token.session)' =>
                      q \in during'[r] \/ lineage'[call'[q].token] \cap during'[r] # {}
      BY <1>1, <1>4, <1>5, <2>2, <2>3, <2>4 DEF CutInv
    <2> QED
      BY <1>1, <2>6, <2>7 DEF CutInv
  <1>7. CASE EndedAll(z)
    <2>1. Live' = {} /\ lineage' = lineage
      BY <1>7 DEF EndedAll, Live
    <2>2. ASSUME NEW q \in Requests, pc'[q] \in {"accepted", "found", "rotating", "signing"}
          PROVE  q \in during'[z]
      BY <1>1, <1>7, <2>2 DEF EndedAll, InFlight, TypeOK
    <2>3. ASSUME NEW r \in Requests, NEW q \in Requests
          PROVE  /\ pc'[q] \in {"accepted", "signing"} /\ call'[q].op = "login" /\ Barred(r, q)' =>
                      q \in during'[r]
                 /\ pc'[q] \in {"found", "rotating", "signing"} /\ call'[q].op = "refresh"
                      /\ Barred(r, call[q].token.session)' =>
                      q \in during'[r] \/ lineage'[call'[q].token] \cap during'[r] # {}
      <3>1. CASE r = z
        BY <2>2, <3>1
      <3>2. CASE r # z
        <4>1. ended'[r] = ended[r] /\ during'[r] = during[r]
          BY <1>7, <3>2 DEF EndedAll, TypeOK
        <4>2. \A s : Barred(r, s)' => Barred(r, s)
          BY <1>3, <3>2, <4>1
        <4> QED
          BY <1>1, <1>4, <1>5, <2>1, <4>1, <4>2 DEF CutInv
      <3> QED
        BY <3>1, <3>2
    <2> QED
      BY <1>1, <2>1, <2>3 DEF CutInv
  <1>8. CASE ~Gained(z) /\ ~EndedAll(z)
    <2>1. UNCHANGED <<issued, lineage, ended, during>> /\ Live' \subseteq Live
      BY <1>8, TokensEffect DEF Consumed, past, Live
    <2>2. \A r \in Requests : \A s : Barred(r, s)' => Barred(r, s)
      BY <1>3, <1>8, <2>1
    <2>3. ASSUME NEW r \in Requests, NEW t \in Live', Barred(r, t.session)'
          PROVE  lineage'[t] \cap during'[r] # {}
      BY <2>1, <2>2, <2>3 DEF CutInv
    <2>4. ASSUME NEW r \in Requests, NEW q \in Requests
          PROVE  /\ pc'[q] \in {"accepted", "signing"} /\ call'[q].op = "login" /\ Barred(r, q)' =>
                      q \in during'[r]
                 /\ pc'[q] \in {"found", "rotating", "signing"} /\ call'[q].op = "refresh"
                      /\ Barred(r, call[q].token.session)' =>
                      q \in during'[r] \/ lineage'[call'[q].token] \cap during'[r] # {}
      BY <1>1, <1>4, <1>5, <2>1, <2>2 DEF CutInv
    <2> QED
      BY <1>1, <2>3, <2>4 DEF CutInv
  <1> QED
    BY <1>6, <1>7, <1>8

-----------------------------------------------------------------------------
(* The theorems.                                                            *)

LEMMA SessionsInit == Init => SessionsInv
  <1> SUFFICES ASSUME Init PROVE SessionsInv
    OBVIOUS
  <1>1. PICK password \in {"first", None} :
           user = [isActive |-> TRUE, password |-> password, attempts |-> 0, lockedUntil |-> None]
    BY DEF Init
  <1>2. TypeOK
    <2>1. user \in User /\ [op |-> "none"] \in Call
      BY <1>1 DEF User, Password, Call
    <2>2. 0 \in Time
      BY TimesAssumption DEF Time
    <2> QED
      BY <2>1, <2>2 DEF Init, TypeOK, Column
  <1>3. FailureInv
    <2>1. Failures = {}
      BY DEF Init, Failures
    <2>2. Cardinality(Failures) = 0
      BY <2>1, FS_EmptySet
    <2> QED
      BY <1>1, <2>2 DEF Init, FailureInv, Fits
  <1>4. StageInv /\ ConsumedInv
    BY DEF Init, StageInv, ConsumedInv
  <1>5. SessionInv
    BY DEF Init, SessionInv
  <1>6. PasswordInv
    BY <1>1, RequestsAssumption, NoneAssumption DEF Init, PasswordInv
  <1>7. CutInv
    BY DEF Init, CutInv, Live
  <1> QED
    BY <1>2, <1>3, <1>4, <1>5, <1>6, <1>7 DEF SessionsInv

\* Time passes, or nothing does.
LEMMA SessionsStutter ==
  ASSUME SessionsInv, Tick \/ UNCHANGED vars
  PROVE  SessionsInv'
  <1>1. UNCHANGED <<user, issued, revoked, auditLog, pc, call, seen, columns, since,
                    lineage, ended, during, earlier>> /\ now' \in Time
    BY TimesAssumption DEF Tick, vars, tables, past, SessionsInv, TypeOK, Time
  <1>2. TypeOK'
    BY <1>1 DEF SessionsInv, TypeOK
  <1>3. StageInv' /\ ConsumedInv'
    BY <1>1 DEF SessionsInv, StageInv, ConsumedInv
  <1>4. FailureInv'
    <2>1. Failures' = Failures
      BY <1>1 DEF Failures
    <2> QED
      BY <1>1, <2>1 DEF SessionsInv, FailureInv, Fits
  <1>5. SessionInv' /\ PasswordInv'
    BY <1>1 DEF SessionsInv, SessionInv, PasswordInv, LoggedIn, Writers
  <1>6. CutInv'
    <2>1. Live' = Live /\ \A r, s : Barred(r, s)' = Barred(r, s)
      BY <1>1 DEF Live, Barred, Revoking
    <2> QED
      BY <1>1, <2>1 DEF SessionsInv, CutInv
  <1> QED
    BY <1>2, <1>3, <1>4, <1>5, <1>6 DEF SessionsInv

LEMMA SessionsInvariant == Spec => []SessionsInv
  <1>1. SessionsInv /\ [Next]_vars => SessionsInv'
    <2> SUFFICES ASSUME SessionsInv, [Next]_vars PROVE SessionsInv'
      OBVIOUS
    <2>1. ASSUME NEW r \in Requests, RequestStep(r) PROVE SessionsInv'
      <3>1. CutInv'
        BY <2>1, CutStart, CutProceed DEF RequestStep, SessionsInv
      <3> QED
        BY <2>1, <3>1, TypeStep, StageStep, ConsumedStep, FailureStep, SessionStep, PasswordStep
           DEF SessionsInv
    <2>2. CASE Tick \/ UNCHANGED vars
      BY <2>2, SessionsStutter
    <2> QED
      BY <2>1, <2>2 DEF Next, Quiescent, RequestStep
  <1> QED
    BY SessionsInit, <1>1, PTL DEF Spec

\* The account, its tokens and its requests have their types.
THEOREM TypeCorrect == Spec => []TypeOK
  <1>1. SessionsInv => TypeOK
    BY DEF SessionsInv
  <1> QED
    BY SessionsInvariant, <1>1, PTL

\* A token handed in at an answered logout is not valid again.
THEOREM LogoutIsFinal == Spec => []LoggedOut
  <1>1. SessionsInv => LoggedOut
    BY DEF SessionsInv, ConsumedInv, LoggedOut
  <1> QED
    BY SessionsInvariant, <1>1, PTL

\* Neither stale counters nor the stale saves of update() lock an account
\* before as many logins have failed.
THEOREM LockoutIsEarned == Spec => []NoEarlyLockout
  <1>1. SessionsInv => NoEarlyLockout
    BY DEF SessionsInv, FailureInv, Fits, NoEarlyLockout
  <1> QED
    BY SessionsInvariant, <1>1, PTL

\* What a revocation met lives on only through requests that were in flight
\* while it ran.
THEOREM RevocationEnds == Spec => []SessionsEnded
  <1>1. SessionsInv => SessionsEnded
    BY DEF SessionsInv, CutInv, Barred, SessionsEnded
  <1> QED
    BY SessionsInvariant, <1>1, PTL

\* A changed password gives no valid token but through such requests.
THEOREM PasswordIsOut == Spec => []OldPasswordOut
  <1>1. SessionsInv => OldPasswordOut
    BY DEF SessionsInv, CutInv, Barred, Revoking, OldPasswordOut
  <1> QED
    BY SessionsInvariant, <1>1, PTL

-----------------------------------------------------------------------------
(* What "All sessions terminated" is worth.  A session that outlives the     *)
(* answer got its token from a refresh of that session which was in flight  *)
(* when the reuse was detected, and from nothing else.                      *)

TerminatedButForRefreshes ==
  \A r \in Requests : pc[r] = "terminated" =>
    \A t \in Live : t.session = call[r].token.session =>
      \E q \in (lineage[t] \cap during[r]) \ {r} :
        call[q].op = "refresh" /\ call[q].token.session = t.session

\* Tokens descend from the login of their session and its refreshes; those of a
\* token that is presented have been answered.
DescentInv ==
  \A t \in issued :
    /\ t.session \in lineage[t]
    /\ \A q \in lineage[t] :
         /\ pc[q] \in {"logging", "done", "failed"}
         /\ call[q].op \in {"login", "refresh"} /\ SessionOf(q) = t.session

PresentedInv ==
  \A r \in Requests :
    /\ pc[r] = "idle" => during[r] = {}
    /\ call[r].op = "refresh" =>
         /\ \A q \in lineage[call[r].token] : pc[q] = "done"
         /\ lineage[call[r].token] \cap during[r] = {}
    /\ pc[r] = "terminated" =>
         call[r].op = "refresh" /\ call[r].token.session \in ended[r]

\* Whoever presents a token was answered with it.
LEMMA RefreshHanded ==
  ASSUME TypeOK, NEW r \in Requests, Start(r), call'[r].op = "refresh"
  PROVE  \A q \in lineage[call'[r].token] : pc[q] = "done"
  <1>1. ASSUME NEW c \in Call, Begin(r, c) PROVE call'[r] = c
    BY <1>1 DEF Begin, TypeOK
  <1>2. ASSUME NEW t \in issued, Refresh(r, t)
        PROVE  \A q \in lineage[call'[r].token] : pc[q] = "done"
    <2>1. call'[r] = [op |-> "refresh", token |-> t]
      BY <1>2 DEF Refresh, Begin, TypeOK
    <2>2. call'[r].token = t
      BY <2>1
    <2> QED
      BY <1>2, <2>2 DEF Refresh, Handed
  <1>3. CASE \E t \in issued : Refresh(r, t)
    BY <1>2, <1>3
  <1>4. CASE \/ \E right \in BOOLEAN : Login(r, right) \/ ChangePassword(r, right)
             \/ \E t \in issued : Logout(r, t)
             \/ RefreshUnknown(r) \/ Edit(r) \/ \E value \in BOOLEAN : SetActive(r, value)
    <2>1. call'[r].op # "refresh"
      BY <1>4 DEF Login, ChangePassword, Logout, RefreshUnknown, Edit, SetActive, Begin, TypeOK
    <2> QED
      BY <2>1
  <1> QED
    BY <1>3, <1>4 DEF Start

\* A request that arrives is in no lineage.
LEMMA DescentStart ==
  ASSUME TypeOK, StageInv, DescentInv, PresentedInv, NEW r \in Requests, Start(r)
  PROVE  DescentInv' /\ PresentedInv'
  <1>1. /\ pc[r] = "idle" /\ UNCHANGED <<issued, lineage, during, ended>>
        /\ \A q \in Requests \ {r} : pc'[q] = pc[q] /\ call'[q] = call[q]
        /\ pc'[r] \notin {"idle", "terminated"}
        /\ call'[r].op = "refresh" => call'[r].token \in issued
    BY StartEffect DEF tables, past
  <1>2. \A t \in issued : lineage[t] \subseteq Requests \ {r}
    BY <1>1 DEF DescentInv, TypeOK
  <1>3. DescentInv'
    BY <1>1, <1>2 DEF DescentInv, SessionOf
  <1>4. \A q \in Requests : call[q].op = "refresh" => call[q].token \in issued
    BY DEF StageInv
  <1>5. during[r] = {} /\ (call'[r].op = "refresh" =>
                             \A q \in lineage[call'[r].token] : pc[q] = "done")
    BY <1>1, RefreshHanded DEF PresentedInv
  <1>6. PresentedInv'
    <2>1. ASSUME NEW q \in Requests
          PROVE  /\ pc'[q] = "idle" => during'[q] = {}
                 /\ call'[q].op = "refresh" =>
                      /\ \A p \in lineage'[call'[q].token] : pc'[p] = "done"
                      /\ lineage'[call'[q].token] \cap during'[q] = {}
                 /\ pc'[q] = "terminated" =>
                      call'[q].op = "refresh" /\ call'[q].token.session \in ended'[q]
      <3>1. CASE q = r
        BY <1>1, <1>2, <1>5, <3>1
      <3>2. CASE q # r
        BY <1>1, <1>2, <1>4, <3>2 DEF PresentedInv
      <3> QED
        BY <3>1, <3>2
    <2> QED
      BY <2>1 DEF PresentedInv
  <1> QED
    BY <1>3, <1>6

\* A request that signs a token joins the lineage of its session.
LEMMA DescentProceed ==
  ASSUME TypeOK, StageInv, DescentInv, PresentedInv,
         NEW r \in Requests, Proceed(r) \/ Fail(r)
  PROVE  DescentInv' /\ PresentedInv'
  <1>1. /\ \A q \in Requests \ {r} : pc'[q] = pc[q]
        /\ Passes(pc[r], pc'[r]) /\ pc[r] \in InFlight /\ UNCHANGED call
    BY ProceedEffect
  <1>2. \A t \in issued : lineage[t] \subseteq Requests
    BY DEF TypeOK
  <1>3. \A q \in Requests : /\ call[q].op = "refresh" => call[q].token \in issued
                            /\ pc[q] \in {"reused", "signing"} =>
                                 call[q].op = "refresh" \/ (call[q].op = "login" /\ pc[q] = "signing")
    BY DEF StageInv
  <1>4. /\ pc[r] \in {"done", "failed"} => FALSE
        /\ pc[r] = "logging" => pc'[r] \in {"done", "failed"}
        /\ pc'[r] = "terminated" => pc[r] = "reused"
        /\ pc'[r] # "idle"
    BY <1>1 DEF Passes, InFlight
  <1>5. CASE UNCHANGED <<issued, lineage>>
    <2>1. DescentInv'
      BY <1>1, <1>2, <1>4, <1>5 DEF DescentInv, SessionOf
    <2>2. ASSUME NEW q \in Requests, call[q].op = "refresh"
          PROVE  \A p \in lineage[call[q].token] : pc'[p] = "done" /\ pc[p] \notin InFlight
      BY <1>1, <1>2, <1>3, <1>4, <2>2 DEF PresentedInv, InFlight
    <2>3. CASE EndedAll(r)
      <3>1. /\ during'[r] = {q \in Requests : pc[q] \in InFlight}
            /\ ended'[r] = {t.session : t \in issued}
            /\ \A q \in Requests \ {r} : during'[q] = during[q] /\ ended'[q] = ended[q]
        BY <2>3 DEF EndedAll, TypeOK
      <3>2. ASSUME NEW q \in Requests
            PROVE  /\ pc'[q] = "idle" => during'[q] = {}
                   /\ call[q].op = "refresh" =>
                        /\ \A p \in lineage[call[q].token] : pc'[p] = "done"
                        /\ lineage[call[q].token] \cap during'[q] = {}
                   /\ pc'[q] = "terminated" =>
                        call[q].op = "refresh" /\ call[q].token.session \in ended'[q]
        <4>1. CASE q = r
          BY <1>3, <1>4, <2>2, <3>1, <4>1
        <4>2. CASE q # r
          BY <1>1, <2>2, <3>1, <4>2 DEF PresentedInv
        <4> QED
          BY <4>1, <4>2
      <3> QED
        BY <1>1, <1>5, <2>1, <3>2 DEF PresentedInv
    <2>4. CASE UNCHANGED <<ended, during>> /\ pc'[r] # "terminated"
      BY <1>1, <1>4, <1>5, <2>1, <2>2, <2>4 DEF PresentedInv
    <2>5. pc'[r] = "terminated" => EndedAll(r)
      <3> SUFFICES ASSUME pc'[r] = "terminated" PROVE EndedAll(r)
        OBVIOUS
      <3>1. pc[r] = "reused"
        BY <1>4
      <3>2. RevokeAllUserTokens(r)
        BY <3>1 DEF Proceed, Fail, HandleFailedLogin, ResetAttempts, Issue, DuplicateToken,
            LoadUser, Rotate, LogoutRevoke, WritePassword, Merge, SaveUser, WriteActive,
            LogAudit, Goto, TypeOK
      <3> QED
        BY <3>1, <3>2 DEF RevokeAllUserTokens, Noted, EndedAll
    <2> QED
      BY <2>3, <2>4, <2>5, TokensEffect DEF Gained, Consumed, past
  <1>6. CASE Gained(r)
    <2>1. PICK i \in since[r] .. now :
            /\ Signed(r, i) \notin issued
            /\ issued' = issued \cup {Signed(r, i)}
            /\ lineage' = [lineage EXCEPT ![Signed(r, i)] =
                             {r} \cup IF call[r].op = "login" THEN {}
                                      ELSE lineage[call[r].token]]
      BY <1>6 DEF Gained
    <2> DEFINE new == Signed(r, i)
               old == IF call[r].op = "login" THEN {} ELSE lineage[call[r].token]
    <2>2. /\ pc[r] = "signing" /\ pc'[r] = "logging" /\ UNCHANGED <<ended, during>>
          /\ call[r].op \in {"login", "refresh"}
      BY <1>3, <1>6 DEF Gained
    <2>3. new \in Token /\ new.session = SessionOf(r)
      BY <2>2, SignedIsToken
    <2>4. /\ new \notin issued /\ issued' = issued \cup {new}
          /\ lineage'[new] = {r} \cup old
          /\ \A t \in issued : lineage'[t] = lineage[t]
      BY <2>1, <2>3 DEF TypeOK
    <2>5. \A q \in Requests : SessionOf(q)' = SessionOf(q)
      BY <1>1 DEF SessionOf
    <2>6. /\ old \subseteq Requests \ {r}
          /\ \A q \in old : pc[q] = "done" /\ call[q].op \in {"login", "refresh"}
                            /\ SessionOf(q) = SessionOf(r)
          /\ SessionOf(r) \in old \/ SessionOf(r) = r
      <3>1. CASE call[r].op = "login"
        BY <3>1 DEF SessionOf
      <3>2. CASE call[r].op # "login"
        <4>1. call[r].op = "refresh" /\ call[r].token \in issued /\ old = lineage[call[r].token]
              /\ SessionOf(r) = call[r].token.session
          BY <1>3, <2>2, <3>2 DEF SessionOf
        <4> QED
          BY <1>2, <2>2, <4>1 DEF DescentInv, PresentedInv
      <3> QED
        BY <3>1, <3>2
    <2> HIDE DEF new, old
    <2>7. DescentInv'
      <3>1. ASSUME NEW t \in issued', NEW q \in lineage'[t]
            PROVE  /\ pc'[q] \in {"logging", "done", "failed"}
                   /\ call[q].op \in {"login", "refresh"} /\ SessionOf(q) = t.session
        <4>1. CASE t = new
          BY <1>1, <2>2, <2>3, <2>4, <2>6, <3>1, <4>1
        <4>2. CASE t # new
          BY <1>1, <1>2, <2>2, <2>4, <3>1, <4>2 DEF DescentInv
        <4> QED
          BY <4>1, <4>2
      <3>2. ASSUME NEW t \in issued' PROVE t.session \in lineage'[t] /\ lineage'[t] \subseteq Requests
        BY <1>2, <2>3, <2>4, <2>6, <3>2 DEF DescentInv
      <3> QED
        BY <1>1, <2>5, <3>1, <3>2 DEF DescentInv
    <2>8. PresentedInv'
      <3>1. \A q \in Requests : call[q].op = "refresh" =>
              /\ lineage'[call[q].token] = lineage[call[q].token]
              /\ \A p \in lineage[call[q].token] : pc'[p] = "done"
        BY <1>1, <1>2, <1>3, <2>2, <2>4 DEF PresentedInv
      <3> QED
        BY <1>1, <2>2, <3>1 DEF PresentedInv
    <2> QED
      BY <2>7, <2>8
  <1> QED
    BY <1>5, <1>6, TokensEffect DEF Consumed, EndedAll, past

\* The two are kept, whatever happens.
LEMMA DescentStep ==
  ASSUME SessionsInv, DescentInv, PresentedInv, [Next]_vars
  PROVE  DescentInv' /\ PresentedInv'
  <1>1. CASE Tick \/ UNCHANGED vars
    BY <1>1 DEF Tick, vars, tables, past, DescentInv, PresentedInv, SessionOf
  <1> QED
    BY <1>1, DescentStart, DescentProceed DEF Next, Quiescent, SessionsInv

\* Only a refresh of the very session that was in flight when the reuse was
\* detected can make "All sessions terminated" untrue.
THEOREM ReuseTerminates == Spec => []TerminatedButForRefreshes
  <1>1. Init => DescentInv /\ PresentedInv
    BY DEF Init, DescentInv, PresentedInv
  <1>2. SessionsInv /\ DescentInv /\ PresentedInv /\ [Next]_vars => DescentInv' /\ PresentedInv'
    BY DescentStep
  <1>3. SessionsInv /\ DescentInv /\ PresentedInv => TerminatedButForRefreshes
    <2> SUFFICES ASSUME SessionsInv, DescentInv, PresentedInv,
                        NEW r \in Requests, pc[r] = "terminated",
                        NEW t \in Live, t.session = call[r].token.session
                 PROVE  \E q \in (lineage[t] \cap during[r]) \ {r} :
                          call[q].op = "refresh" /\ call[q].token.session = t.session
      BY DEF TerminatedButForRefreshes
    <2>1. /\ call[r].op = "refresh" /\ t.session \in ended[r]
          /\ call[r].token \in issued /\ t \in issued
      BY DEF PresentedInv, SessionsInv, StageInv, Live
    <2>2. PICK q \in lineage[t] : q \in during[r]
      BY <2>1 DEF SessionsInv, CutInv, Barred
    <2>3. q # r /\ call[q].op \in {"login", "refresh"} /\ SessionOf(q) = t.session
      BY <2>1 DEF DescentInv
    <2>4. q # t.session
      BY <2>1, <2>2 DEF DescentInv, PresentedInv
    <2> QED
      BY <2>2, <2>3, <2>4 DEF SessionOf
  <1> QED
    BY <1>1, <1>2, <1>3, SessionsInvariant, PTL DEF Spec

-----------------------------------------------------------------------------
(* How a session comes to have two valid tokens.  Its tokens form a tree    *)
(* below its login: of two of them one is above the other, and consumed, or *)
(* two refreshes of one token lead to them; and those have raced, since     *)
(* whoever arrives after a refresh is over finds its token revoked.         *)

\* Token t was redeemed on the way to token u.
Redeemed(t, u) == \E q \in lineage[u] : call[q].op = "refresh" /\ call[q].token = t

Forked(t, u) == \E q \in lineage[t], r \in lineage[u] : Raced(q, r)

Late == {"reused", "terminated", "rejected", "failed"}

RaceInv ==
  /\ \A r \in Requests : \A q \in earlier[r] : pc[q] \in Ended
  /\ \A u \in issued : \A q \in lineage[u] :
       call[q].op = "refresh" => call[q].token \in revoked
  /\ \A u \in issued, r \in Requests : \A q \in lineage[u] \cap earlier[r] :
       /\ call[q].op = "refresh" /\ call[r].op = "refresh" /\ call[q].token = call[r].token
       => pc[r] \in Late

TreeInv ==
  \A t, u \in issued :
    t # u /\ t.session = u.session => Redeemed(t, u) \/ Redeemed(u, t) \/ Forked(t, u)

\* A request that arrives finds redeemed tokens revoked, and is in no lineage.
LEMMA RaceStart ==
  ASSUME TypeOK, StageInv, DescentInv, RaceInv, TreeInv, NEW r \in Requests, Start(r)
  PROVE  RaceInv' /\ TreeInv'
  <1>1. /\ pc[r] = "idle" /\ UNCHANGED <<issued, revoked, lineage>>
        /\ \A q \in Requests \ {r} :
             pc'[q] = pc[q] /\ call'[q] = call[q] /\ earlier'[q] = earlier[q]
        /\ earlier'[r] \subseteq Requests /\ \A q \in earlier'[r] : pc[q] \in Ended
        /\ call'[r].op = "refresh" /\ call'[r].token \in revoked => pc'[r] = "reused"
    <2>1. earlier' \in [Requests -> SUBSET Requests]
      BY StartEffect
    <2> QED
      BY <2>1, StartEffect DEF tables
  <1>2. \A t \in issued : lineage[t] \subseteq Requests \ {r}
    BY <1>1 DEF DescentInv, TypeOK
  <1>3. \A q \in Requests : earlier[q] \subseteq Requests \ {r}
    BY <1>1 DEF RaceInv, TypeOK, Ended
  <1>4. RaceInv'
    <2>1. \A p \in Requests : \A q \in earlier'[p] : pc'[q] \in Ended
      <3>1. r \notin earlier'[r]
        BY <1>1 DEF Ended
      <3> QED
        BY <1>1, <1>3, <3>1 DEF RaceInv
    <2>2. \A u \in issued : \A q \in lineage[u] :
            call'[q].op = "refresh" => call'[q].token \in revoked
      BY <1>1, <1>2 DEF RaceInv
    <2>3. ASSUME NEW u \in issued, NEW p \in Requests, NEW q \in lineage[u] \cap earlier'[p],
                 call'[q].op = "refresh", call'[p].op = "refresh", call'[q].token = call'[p].token
          PROVE  pc'[p] \in Late
      <3>1. CASE p = r
        BY <1>1, <2>2, <2>3, <3>1 DEF Late
      <3>2. CASE p # r
        BY <1>1, <1>2, <2>3, <3>2 DEF RaceInv
      <3> QED
        BY <3>1, <3>2
    <2> QED
      BY <1>1, <2>1, <2>2, <2>3 DEF RaceInv
  <1>5. TreeInv'
    <2>1. \A t, u \in issued : Redeemed(t, u) => Redeemed(t, u)'
      BY <1>1, <1>2 DEF Redeemed
    <2>2. \A t, u \in issued : Forked(t, u) => Forked(t, u)'
      BY <1>1, <1>2 DEF Forked, Raced
    <2> QED
      BY <1>1, <2>1, <2>2 DEF TreeInv
  <1> QED
    BY <1>4, <1>5

\* A refresh that signs adds a leaf: below the token it was given, and forked
\* from whatever another refresh of that token has led to.
LEMMA RaceSigned ==
  ASSUME TypeOK, StageInv, ConsumedInv, SessionInv, DescentInv, RaceInv, TreeInv,
         NEW r \in Requests, Proceed(r) \/ Fail(r), Gained(r)
  PROVE  RaceInv' /\ TreeInv'
  <1>1. /\ \A q \in Requests \ {r} : pc'[q] = pc[q]
        /\ pc[r] = "signing" /\ pc'[r] = "logging" /\ UNCHANGED <<call, revoked, earlier>>
        /\ call[r].op \in {"login", "refresh"}
    BY ProceedEffect DEF Gained, StageInv
  <1>2. PICK i \in since[r] .. now :
          /\ Signed(r, i) \notin issued
          /\ issued' = issued \cup {Signed(r, i)}
          /\ lineage' = [lineage EXCEPT ![Signed(r, i)] =
                           {r} \cup IF call[r].op = "login" THEN {} ELSE lineage[call[r].token]]
    BY DEF Gained
  <1> DEFINE old == IF call[r].op = "login" THEN {} ELSE lineage[call[r].token]
  <1>3. PICK new \in Token : new = Signed(r, i) /\ new.session = SessionOf(r)
    BY <1>1, SignedIsToken
  <1>4. /\ new \notin issued /\ issued' = issued \cup {new}
        /\ lineage'[new] = {r} \cup old
        /\ \A t \in issued : lineage'[t] = lineage[t]
    BY <1>2, <1>3 DEF TypeOK
  <1>5. call[r].op = "refresh" =>
          /\ call[r].token \in issued /\ call[r].token \in revoked
          /\ old = lineage[call[r].token] /\ call[r].token.session = new.session
    BY <1>1, <1>3 DEF StageInv, ConsumedInv, SessionOf
  <1>6. call[r].op = "login" => old = {} /\ \A t \in issued : t.session # new.session
    BY <1>1, <1>3 DEF SessionOf, SessionInv, LoggedIn
  <1> HIDE DEF old
  <1>7. \A t \in issued : \A q \in lineage[t] : q # r /\ q \in Requests
    BY <1>1 DEF DescentInv, TypeOK
  <1>8. \A q \in Requests : r \notin earlier[q]
    BY <1>1 DEF RaceInv, Ended
  <1>9. RaceInv'
    <2>1. \A p \in Requests : \A q \in earlier[p] : pc'[q] \in Ended
      BY <1>1, <1>8 DEF RaceInv, TypeOK
    <2>2. \A u \in issued' : \A q \in lineage'[u] :
            call[q].op = "refresh" => call[q].token \in revoked
      BY <1>1, <1>4, <1>5, <1>6 DEF RaceInv
    <2>3. ASSUME NEW u \in issued', NEW p \in Requests, NEW q \in lineage'[u] \cap earlier[p],
                 call[q].op = "refresh", call[p].op = "refresh", call[q].token = call[p].token
          PROVE  pc'[p] \in Late
      <3>1. q # r
        BY <1>8, <2>3
      <3>2. \E t \in issued : q \in lineage[t]
        BY <1>1, <1>4, <1>5, <1>6, <2>3, <3>1
      <3>3. pc[p] \in Late
        BY <2>3, <3>2 DEF RaceInv
      <3> QED
        BY <1>1, <3>3 DEF Late
    <2> QED
      BY <1>1, <2>1, <2>2, <2>3 DEF RaceInv
  <1>10. /\ \A t, u \in issued : Redeemed(t, u) => Redeemed(t, u)'
         /\ \A t, u \in issued : Forked(t, u) => Forked(t, u)'
    BY <1>1, <1>4 DEF Redeemed, Forked, Raced
  <1>11. ASSUME NEW u \in issued, u.session = new.session
         PROVE  (Redeemed(u, new) \/ Forked(new, u))'
    <2>1. call[r].op = "refresh"
      BY <1>1, <1>6, <1>11
    <2>2. PICK a \in issued :
            a = call[r].token /\ a.session = new.session /\ old = lineage[a]
      BY <1>5, <2>1
    <2>3. CASE u = a
      BY <1>1, <1>4, <2>1, <2>2, <2>3 DEF Redeemed
    <2>4. CASE Redeemed(u, a)
      BY <1>1, <1>4, <2>2, <2>4 DEF Redeemed
    <2>5. CASE Forked(a, u) \/ Forked(u, a)
      BY <1>1, <1>4, <1>11, <2>2, <2>5 DEF Forked, Raced
    <2>6. CASE Redeemed(a, u)
      <3>1. PICK q \in lineage[u] : call[q].op = "refresh" /\ call[q].token = a
        BY <2>6 DEF Redeemed
      <3>2. q # r /\ q \in Requests /\ r \notin earlier[q]
        BY <1>7, <1>8
      <3>3. q \notin earlier[r]
        BY <1>1, <1>11, <2>1, <2>2, <3>1, <3>2 DEF RaceInv, Late
      <3>4. Raced(r, q)'
        BY <1>1, <2>1, <2>2, <3>1, <3>2, <3>3 DEF Raced
      <3> QED
        BY <1>4, <3>4 DEF Forked
    <2> QED
      BY <1>11, <2>2, <2>3, <2>4, <2>5, <2>6 DEF TreeInv
  <1>12. \A t, u \in Token : Forked(t, u)' => Forked(u, t)'
    BY DEF Forked, Raced
  <1>13. TreeInv'
    <2>1. ASSUME NEW t \in issued', NEW u \in issued', t # u, t.session = u.session
          PROVE  (Redeemed(t, u) \/ Redeemed(u, t) \/ Forked(t, u))'
      <3>1. CASE t \in issued /\ u \in issued
        BY <1>10, <2>1, <3>1 DEF TreeInv
      <3>2. CASE t = new /\ u \in issued
        BY <1>11, <2>1, <3>2
      <3>3. CASE t \in issued /\ u = new
        BY <1>3, <1>11, <1>12, <2>1, <3>3 DEF TypeOK
      <3> QED
        BY <1>4, <2>1, <3>1, <3>2, <3>3
    <2> QED
      BY <2>1 DEF TreeInv
  <1> QED
    BY <1>9, <1>13

LEMMA RaceProceed ==
  ASSUME TypeOK, StageInv, ConsumedInv, SessionInv, DescentInv, RaceInv, TreeInv,
         NEW r \in Requests, Proceed(r) \/ Fail(r)
  PROVE  RaceInv' /\ TreeInv'
  <1>1. CASE Gained(r)
    BY <1>1, RaceSigned
  <1>2. CASE UNCHANGED <<issued, lineage, earlier>>
    <2>1. /\ \A q \in Requests \ {r} : pc'[q] = pc[q]
          /\ Passes(pc[r], pc'[r]) /\ pc[r] \in InFlight /\ UNCHANGED call
          /\ revoked \subseteq revoked'
      BY ProceedEffect, TokensEffect
    <2>2. \A q \in Requests : /\ pc[q] \in Ended => pc'[q] \in Ended
                              /\ pc[q] \in Late => pc'[q] \in Late
      BY <2>1 DEF Passes, InFlight, Ended, Late
    <2>3. RaceInv'
      BY <1>2, <2>1, <2>2 DEF RaceInv, TypeOK
    <2>4. TreeInv'
      BY <1>2, <2>1 DEF TreeInv, Redeemed, Forked, Raced
    <2> QED
      BY <2>3, <2>4
  <1> QED
    BY <1>1, <1>2, TokensEffect DEF Consumed, EndedAll, past

LEMMA RaceStep ==
  ASSUME SessionsInv, DescentInv, RaceInv, TreeInv, [Next]_vars
  PROVE  RaceInv' /\ TreeInv'
  <1>1. CASE Tick \/ UNCHANGED vars
    BY <1>1 DEF Tick, vars, tables, past, RaceInv, TreeInv, Redeemed, Forked, Raced
  <1> QED
    BY <1>1, RaceStart, RaceProceed DEF Next, Quiescent, SessionsInv

\* A session has one valid token but where refreshes of one token have raced.
THEOREM OnlyRacesFork == Spec => []OneTokenUnlessRaced
  <1>1. Init => DescentInv /\ PresentedInv /\ RaceInv /\ TreeInv
    BY DEF Init, DescentInv, PresentedInv, RaceInv, TreeInv
  <1>2. /\ SessionsInv /\ DescentInv /\ PresentedInv /\ RaceInv /\ TreeInv /\ [Next]_vars
        => DescentInv' /\ PresentedInv' /\ RaceInv' /\ TreeInv'
    BY DescentStep, RaceStep
  <1>3. RaceInv /\ TreeInv => OneTokenUnlessRaced
    BY DEF RaceInv, TreeInv, Redeemed, Forked, OneTokenUnlessRaced, Live
  <1> QED
    BY <1>1, <1>2, <1>3, SessionsInvariant, PTL DEF Spec

=============================================================================

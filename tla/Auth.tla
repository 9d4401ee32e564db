-------------------------------- MODULE Auth --------------------------------
(***************************************************************************)
(* Accounts, login sessions and password reset tokens                      *)
(* (goalflow/auth/service.py).                                             *)
(*                                                                         *)
(* A request reads what it needs in one transaction, computes or verifies  *)
(* an Argon2 hash outside of any transaction, reads the clock, and then    *)
(* waits for the write lock and confirms in the write transaction what it  *)
(* had read.  Other requests, and the deployer's commands, act in between. *)
(*                                                                         *)
(* A hash is the password it is of and the request that computed it: every *)
(* hash has a salt of its own, so two hashes of one password differ.       *)
(* A session and a reset token are named after the request that created    *)
(* them.  A request that is refused before its write changes nothing and   *)
(* is left out.                                                            *)
(***************************************************************************)
EXTENDS Naturals

CONSTANTS
  Accounts,       \* normalised account identifiers
  Passwords,
  Requests,       \* numbered as they arrive; bound: each does one operation
  NoRequest,
  NoAccount,
  IdleTimeout,    \* SESSION_IDLE_TIMEOUT
  Lifetime,       \* SESSION_ABSOLUTE_LIFETIME
  SeenInterval,   \* LAST_SEEN_WRITE_INTERVAL
  TokenLifetime,  \* RESET_TOKEN_LIFETIME
  MaxTime         \* bound of the clock

ASSUME AuthAssumption ==
  /\ Requests \subseteq Nat \ {0} /\ NoRequest \notin Requests
  /\ NoAccount \notin Accounts /\ Passwords # {}
  /\ IdleTimeout \in Nat \ {0} /\ Lifetime \in Nat \ {0}
  /\ SeenInterval \in Nat \ {0} /\ TokenLifetime \in Nat \ {0}
  /\ MaxTime \in Nat

VARIABLES
  users,       \* users.status of each account; "absent" without a row
  credential,  \* table password_credentials
  session,     \* table sessions
  resetToken,  \* table password_reset_tokens
  request,     \* the requests, and what each has read
  time

authVars == <<users, credential, session, resetToken, request, time>>

Makers == Requests \cup {NoRequest}
Times == 0 .. MaxTime

\* hashed: the request that computed the hash, NoRequest for one whose parameters
\* are outdated.  changed: the request that last set the password (changed_at).
Credentials == [password : Passwords, hashed : Makers, changed : Makers]
Proofs == [hashed : Makers, changed : Makers]

\* under: the change of the password that the session's owner has proved to know.
Sessions == [owner : Accounts \cup {NoAccount}, under : Makers, seen : Times,
             expires : Nat, revoked : BOOLEAN]
ResetTokens == [owner : Accounts \cup {NoAccount}, expires : Nat, consumed : BOOLEAN]

Operations == {"none", "visit", "logout_all", "change", "register", "login", "reset", "issue"}
Steps == {"idle", "due", "known", "read", "dated", "done", "refused"}

\* cookie: the session or reset token that came with the request.  known: which
\* credential it has verified.  password: what it verified (login) or wants to set.
Work == [op : Operations, step : Steps, account : Accounts \cup {NoAccount},
         password : Passwords, known : Proofs, cookie : Makers, now : Times]

AuthTypeOK ==
  /\ users \in [Accounts -> {"absent", "active", "disabled"}]
  /\ credential \in [Accounts -> Credentials]
  /\ session \in [Requests -> Sessions]
  /\ resetToken \in [Requests -> ResetTokens]
  /\ request \in [Requests -> Work]
  /\ time \in Times

NoSession == [owner |-> NoAccount, under |-> NoRequest, seen |-> 0, expires |-> 0, revoked |-> FALSE]
NoProof == [hashed |-> NoRequest, changed |-> NoRequest]
NoToken == [owner |-> NoAccount, expires |-> 0, consumed |-> FALSE]

\* Accounts may exist from before, with hashes of outdated parameters.
AuthInit ==
  LET p == CHOOSE p \in Passwords : TRUE
  IN  /\ users \in [Accounts -> {"absent", "active"}]
      /\ credential = [a \in Accounts |->
           [password |-> p, hashed |-> NoRequest, changed |-> NoRequest]]
      /\ session = [r \in Requests |-> NoSession]
      /\ resetToken = [r \in Requests |-> NoToken]
      /\ request = [r \in Requests |->
           [op |-> "none", step |-> "idle", account |-> NoAccount, password |-> p,
            known |-> NoProof, cookie |-> NoRequest, now |-> 0]]
      /\ time = 0

-----------------------------------------------------------------------------
\* Definitions named X_Y are mutants of X: plausible mistakes that the runs are
\* shown to detect.  No action uses them.

Exists(s) == s \in Requests /\ session[s].owner # NoAccount

\* _is_live()
IsLive(s, now) ==
  /\ Exists(s) /\ ~session[s].revoked
  /\ now < session[s].expires /\ now < session[s].seen + IdleTimeout

\* _open_session(), _revoke_token() and _revoke_all_sessions() on the rows S.
WithSession(S, r, a, change) ==
  [S EXCEPT ![r] = [owner |-> a, under |-> change, seen |-> request[r].now,
                    expires |-> request[r].now + Lifetime, revoked |-> FALSE]]

WithoutToken(S, s) ==
  [x \in Requests |-> IF x = s /\ S[x].owner # NoAccount THEN [S[x] EXCEPT !.revoked = TRUE] ELSE S[x]]

WithoutSessionsOf_KeepsOwn(S, a) == [x \in Requests |->
  IF S[x].owner = a /\ S[x].under # credential[a].changed THEN [S[x] EXCEPT !.revoked = TRUE] ELSE S[x]]

WithoutSessionsOf(S, a) ==
  [x \in Requests |-> IF S[x].owner = a THEN [S[x] EXCEPT !.revoked = TRUE] ELSE S[x]]

Proof(a) == [hashed |-> credential[a].hashed, changed |-> credential[a].changed]

\* The request r has done its first reads.
Begin(r, op, step, a, p, cookie) ==
  /\ request[r].step = "idle"
  /\ \A q \in Requests : q < r => request[q].step # "idle"
  /\ request' = [request EXCEPT ![r] =
       [op |-> op, step |-> step, account |-> a, password |-> p, known |-> Proof(a),
        cookie |-> cookie, now |-> time]]
  /\ UNCHANGED <<users, credential, session, resetToken, time>>

\* The request is over, and forgets what it had read.
End(r, step) ==
  request' = [request EXCEPT ![r].step = step, ![r].known = NoProof, ![r].now = 0]

-----------------------------------------------------------------------------
\* authenticate(), its read: the identity a request keeps from here on, and
\* whether last_seen_at has to be written.
Authenticate(r, s, op) ==
  /\ IsLive(s, time) /\ users[session[s].owner] = "active"
  /\ LET a == session[s].owner
     IN  Begin(r, op, IF time >= session[s].seen + SeenInterval THEN "due" ELSE "known",
               a, credential[a].password, s)

\* authenticate(), its write: not for a session revoked in the meantime.
WriteLastSeen(r) ==
  /\ request[r].step = "due"
  /\ request' = [request EXCEPT ![r].step = "known"]
  /\ session' = [session EXCEPT ![request[r].cookie].seen =
       IF session[request[r].cookie].revoked THEN @ ELSE request[r].now]
  /\ UNCHANGED <<users, credential, resetToken, time>>

\* Any other route: there is nothing more to do with the identity here.
Visited(r) ==
  /\ request[r].step = "known" /\ request[r].op = "visit"
  /\ End(r, "done")
  /\ UNCHANGED <<users, credential, session, resetToken, time>>

\* logout_all()
LogoutAll(r) ==
  /\ request[r].step = "known" /\ request[r].op = "logout_all"
  /\ session' = WithoutSessionsOf(session, request[r].account)
  /\ End(r, "done")
  /\ UNCHANGED <<users, credential, resetToken, time>>

\* logout(): the holder of a session's token ends it.
Logout(s) ==
  /\ Exists(s)
  /\ session' = WithoutToken(session, s)
  /\ UNCHANGED <<users, credential, resetToken, request, time>>

-----------------------------------------------------------------------------
\* register(), its first check.
ReadForRegister(r, a, p, cookie) ==
  /\ users[a] = "absent"
  /\ Begin(r, "register", "read", a, p, cookie)

\* login(), its read, by a user who knows the password.
ReadForLogin(r, a, cookie) ==
  /\ users[a] = "active"
  /\ Begin(r, "login", "read", a, credential[a].password, cookie)

\* change_password(), its read, by a user who knows the current password.
ReadForChange(r, p) ==
  /\ request[r].step = "known" /\ request[r].op = "change"
  /\ request' = [request EXCEPT ![r].step = "read", ![r].password = p,
                                ![r].known = Proof(request[r].account)]
  /\ UNCHANGED <<users, credential, session, resetToken, time>>

\* reset_password_with_token(), its read and checks.
ReadForReset(r, t, p) ==
  LET a == resetToken[t].owner
  IN  /\ a # NoAccount /\ users[a] = "active"
      /\ ~resetToken[t].consumed /\ time < resetToken[t].expires
      /\ Begin(r, "reset", "read", a, p, t)

\* The hash has been computed or verified; now = self._clock().
ReadClock(r) ==
  /\ request[r].step = "read"
  /\ request' = [request EXCEPT ![r].step = "dated", ![r].now = time]
  /\ UNCHANGED <<users, credential, session, resetToken, time>>

\* issue_password_reset_token(), before its transaction.
BeginIssue(r, a) ==
  Begin(r, "issue", "dated", a, credential[a].password, NoRequest)

-----------------------------------------------------------------------------
\* What the write transactions confirm of what was read before.
Unchanged_StatusOnly(r) == users[request[r].account] = "active"

\* login(): the account is active and its hash is the one that was verified.
Unchanged(r) ==
  /\ users[request[r].account] = "active"
  /\ credential[request[r].account].hashed = request[r].known.hashed

\* change_password(): rowcount of the conditional update, then the status.
MayChange(r) == Unchanged(r)

TokenIsUnused_Unchecked(r) == resetToken[request[r].cookie].expires > request[r].now

\* reset_password_with_token(): rowcount of the conditional update.
TokenIsUnused(r) ==
  /\ ~resetToken[request[r].cookie].consumed
  /\ resetToken[request[r].cookie].expires > request[r].now

MayWrite(r) ==
  CASE request[r].op = "register" -> users[request[r].account] = "absent"
    [] request[r].op = "login"    -> Unchanged(r)
    [] request[r].op = "change"   -> MayChange(r)
    [] request[r].op = "reset"    -> TokenIsUnused(r)
    [] OTHER                      -> users[request[r].account] = "active"

NewHash(r) == [password |-> request[r].password, hashed |-> r, changed |-> r]

\* A verified hash of outdated parameters is replaced; that is no change of password.
Rehashed(r, c) ==
  IF request[r].known.hashed = NoRequest
  THEN [c EXCEPT !.password = request[r].password, !.hashed = r] ELSE c

Writes(r, op) == request[r].step = "dated" /\ request[r].op = op /\ MayWrite(r)

\* register(), its transaction.
Register(r) ==
  LET a == request[r].account
  IN  /\ Writes(r, "register")
      /\ users' = [users EXCEPT ![a] = "active"]
      /\ credential' = [credential EXCEPT ![a] = NewHash(r)]
      /\ session' = WithSession(WithoutToken(session, request[r].cookie), r, a, r)
      /\ End(r, "done")
      /\ UNCHANGED <<resetToken, time>>

\* login(), its transaction.
Login(r) ==
  LET a == request[r].account
  IN  /\ Writes(r, "login")
      /\ credential' = [credential EXCEPT ![a] = Rehashed(r, @)]
      /\ session' = WithSession(WithoutToken(session, request[r].cookie), r, a,
                                request[r].known.changed)
      /\ End(r, "done")
      /\ UNCHANGED <<users, resetToken, time>>

\* change_password(), its transaction.
ChangePassword(r) ==
  LET a == request[r].account
  IN  /\ Writes(r, "change")
      /\ credential' = [credential EXCEPT ![a] = NewHash(r)]
      /\ session' = WithSession(WithoutSessionsOf(session, a), r, a, r)
      /\ End(r, "done")
      /\ UNCHANGED <<users, resetToken, time>>

\* reset_password_with_token(), its transaction.  The account's status is not
\* read again.
ResetPassword(r) ==
  LET a == request[r].account
  IN  /\ Writes(r, "reset")
      /\ resetToken' = [resetToken EXCEPT ![request[r].cookie].consumed = TRUE]
      /\ credential' = [credential EXCEPT ![a] = NewHash(r)]
      /\ session' = WithoutSessionsOf(session, a)
      /\ End(r, "done")
      /\ UNCHANGED <<users, time>>

\* The unused tokens of the account end at the moment the new one is issued.
Voided(T, a, now) ==
  [t \in Requests |-> IF T[t].owner = a /\ ~T[t].consumed /\ T[t].expires > now
                      THEN [T[t] EXCEPT !.expires = now] ELSE T[t]]

\* issue_password_reset_token(), its transaction.
IssueResetToken(r) ==
  LET a == request[r].account
  IN  /\ Writes(r, "issue")
      /\ resetToken' = [Voided(resetToken, a, request[r].now) EXCEPT ![r] =
           [owner |-> a, expires |-> request[r].now + TokenLifetime, consumed |-> FALSE]]
      /\ End(r, "done")
      /\ UNCHANGED <<users, credential, session, time>>

\* The write transaction finds that it may not write, and rolls back.
Refuse(r) ==
  /\ request[r].step = "dated" /\ ~MayWrite(r)
  /\ End(r, "refused")
  /\ UNCHANGED <<users, credential, session, resetToken, time>>

\* disable_user()
DisableUser(a) ==
  /\ users[a] # "absent"
  /\ users' = [users EXCEPT ![a] = "disabled"]
  /\ session' = WithoutSessionsOf(session, a)
  /\ UNCHANGED <<credential, resetToken, request, time>>

AuthTick ==
  /\ time < MaxTime
  /\ time' = time + 1
  /\ UNCHANGED <<users, credential, session, resetToken, request>>

-----------------------------------------------------------------------------
AuthNext ==
  \/ \E r \in Requests :
       \/ \E s \in Requests, op \in {"visit", "logout_all", "change"} : Authenticate(r, s, op)
       \/ WriteLastSeen(r) \/ Visited(r) \/ LogoutAll(r) \/ Logout(r)
       \/ \E a \in Accounts, cookie \in {s \in Makers : s = NoRequest \/ Exists(s)} :
            \/ \E p \in Passwords : ReadForRegister(r, a, p, cookie)
            \/ ReadForLogin(r, a, cookie)
       \/ \E p \in Passwords : ReadForChange(r, p) \/ \E t \in Requests : ReadForReset(r, t, p)
       \/ ReadClock(r)
       \/ \E a \in Accounts : BeginIssue(r, a)
       \/ Register(r) \/ Login(r) \/ ChangePassword(r) \/ ResetPassword(r)
       \/ IssueResetToken(r) \/ Refuse(r)
  \/ \E a \in Accounts : DisableUser(a)
  \/ AuthTick

AuthSpec == AuthInit /\ [][AuthNext]_authVars

-----------------------------------------------------------------------------
\* A session that is not revoked is of an active account, and whoever opened it
\* proved to know the password that is in force: no session outlives a change, a
\* reset or the disabling, not even one whose login was under way at that moment.
SessionsFollowThePassword ==
  \A s \in Requests :
    LET a == session[s].owner
    IN  a # NoAccount /\ ~session[s].revoked =>
          users[a] = "active" /\ session[s].under = credential[a].changed

\* The password in force is the one its last change has set.  A login that renews
\* the hash of the password it verified does not bring back an earlier one.
PasswordIsTheLastOneSet ==
  \A a \in Accounts :
    credential[a].changed # NoRequest =>
      credential[a].password = request[credential[a].changed].password

\* A reset token resets a password once, however many requests hold it.
TokenResetsOnce ==
  \A r, q \in Requests :
    /\ request[r].op = "reset" /\ request[r].step = "done"
    /\ request[q].op = "reset" /\ request[q].step = "done"
    /\ request[r].cookie = request[q].cookie
    => r = q
=============================================================================

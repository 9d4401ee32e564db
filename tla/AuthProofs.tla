----------------------------- MODULE AuthProofs -----------------------------
(***************************************************************************)
(* Theorems about Auth, for any accounts, passwords and requests.          *)
(***************************************************************************)
EXTENDS Auth, TLAPS

\* A request that has begun is about an account, and one that resets a password has
\* a token that was issued.
KnowsItsAccount ==
  \A r \in Requests : request[r].step # "idle" =>
    /\ request[r].account \in Accounts
    /\ request[r].op = "reset" =>
         request[r].cookie \in Requests /\ resetToken[request[r].cookie].owner # NoAccount

-----------------------------------------------------------------------------
\* What a step of one request leaves of the others.

LEMMA RequestStep ==
  ASSUME AuthTypeOK, NEW r \in Requests, NEW w \in Work,
         request' = [request EXCEPT ![r] = w]
  PROVE  /\ request' \in [Requests -> Work]
         /\ request'[r] = w
         /\ \A q \in Requests \ {r} : request'[q] = request[q]
  BY DEF AuthTypeOK

LEMMA EndStep ==
  ASSUME AuthTypeOK, NEW r \in Requests, NEW s \in Steps, End(r, s)
  PROVE  /\ request' \in [Requests -> Work]
         /\ request'[r] = [op |-> request[r].op, step |-> s, account |-> request[r].account,
                           password |-> request[r].password, known |-> NoProof,
                           cookie |-> request[r].cookie, now |-> 0]
         /\ \A q \in Requests \ {r} : request'[q] = request[q]
<1>1. request[r] \in Work /\ NoProof \in Proofs /\ 0 \in Times
  BY AuthAssumption DEF AuthTypeOK, NoProof, Proofs, Makers, Times
<1>2. request'[r] = [request[r] EXCEPT !.step = s, !.known = NoProof, !.now = 0]
  BY DEF End, AuthTypeOK
<1>3. request' = [request EXCEPT ![r] = request'[r]]
  BY <1>2 DEF End, AuthTypeOK
<1>4. request'[r] = [op |-> request[r].op, step |-> s, account |-> request[r].account,
                     password |-> request[r].password, known |-> NoProof,
                     cookie |-> request[r].cookie, now |-> 0]
  BY <1>1, <1>2 DEF Work
<1>5. request'[r] \in Work
  BY <1>1, <1>4 DEF Work
<1> QED
  BY <1>3, <1>4, <1>5, RequestStep

LEMMA BeginStep ==
  ASSUME AuthTypeOK, NEW r \in Requests, NEW op \in Operations, NEW s \in Steps,
         NEW a \in Accounts, NEW p \in Passwords, NEW c \in Makers, Begin(r, op, s, a, p, c)
  PROVE  /\ request[r].step = "idle"
         /\ request' \in [Requests -> Work]
         /\ request'[r] = [op |-> op, step |-> s, account |-> a, password |-> p,
                           known |-> Proof(a), cookie |-> c, now |-> time]
         /\ \A q \in Requests \ {r} : request'[q] = request[q]
         /\ UNCHANGED <<users, credential, session, resetToken, time>>
<1>1. Proof(a) \in Proofs /\ time \in Times
  BY DEF AuthTypeOK, Proof, Proofs, Credentials
<1>2. [op |-> op, step |-> s, account |-> a, password |-> p,
       known |-> Proof(a), cookie |-> c, now |-> time] \in Work
  BY <1>1 DEF Work
<1> QED
  BY <1>2, RequestStep DEF Begin

\* The steps of a request between its beginning and its end.
LEMMA ClockStep ==
  ASSUME AuthTypeOK, NEW r \in Requests, ReadClock(r)
  PROVE  /\ request' \in [Requests -> Work]
         /\ request'[r] = [op |-> request[r].op, step |-> "dated", account |-> request[r].account,
                           password |-> request[r].password, known |-> request[r].known,
                           cookie |-> request[r].cookie, now |-> time]
         /\ \A q \in Requests \ {r} : request'[q] = request[q]
<1>1. request[r] \in Work /\ "dated" \in Steps /\ time \in Times
  BY DEF AuthTypeOK, Steps
<1>2. request'[r] = [request[r] EXCEPT !.step = "dated", !.now = time]
  BY DEF ReadClock, AuthTypeOK
<1>3. request' = [request EXCEPT ![r] = request'[r]]
  BY <1>2 DEF ReadClock, AuthTypeOK
<1>4. request'[r] = [op |-> request[r].op, step |-> "dated", account |-> request[r].account,
                     password |-> request[r].password, known |-> request[r].known,
                     cookie |-> request[r].cookie, now |-> time]
  BY <1>1, <1>2 DEF Work
<1>5. request'[r] \in Work
  BY <1>1, <1>4 DEF Work
<1> QED
  BY <1>3, <1>4, <1>5, RequestStep

LEMMA SeenStep ==
  ASSUME AuthTypeOK, NEW r \in Requests, WriteLastSeen(r)
  PROVE  /\ request' \in [Requests -> Work]
         /\ request'[r] = [op |-> request[r].op, step |-> "known", account |-> request[r].account,
                           password |-> request[r].password, known |-> request[r].known,
                           cookie |-> request[r].cookie, now |-> request[r].now]
         /\ \A q \in Requests \ {r} : request'[q] = request[q]
<1>1. request[r] \in Work /\ "known" \in Steps
  BY DEF AuthTypeOK, Steps
<1>2. request'[r] = [request[r] EXCEPT !.step = "known"]
  BY DEF WriteLastSeen, AuthTypeOK
<1>3. request' = [request EXCEPT ![r] = request'[r]]
  BY <1>2 DEF WriteLastSeen, AuthTypeOK
<1>4. request'[r] = [op |-> request[r].op, step |-> "known", account |-> request[r].account,
                     password |-> request[r].password, known |-> request[r].known,
                     cookie |-> request[r].cookie, now |-> request[r].now]
  BY <1>1, <1>2 DEF Work
<1>5. request'[r] \in Work
  BY <1>1, <1>4 DEF Work
<1> QED
  BY <1>3, <1>4, <1>5, RequestStep

LEMMA ReReadStep ==
  ASSUME AuthTypeOK, NEW r \in Requests, NEW p \in Passwords, ReadForChange(r, p),
         request[r].account \in Accounts
  PROVE  /\ request' \in [Requests -> Work]
         /\ request'[r] = [op |-> request[r].op, step |-> "read", account |-> request[r].account,
                           password |-> p, known |-> Proof(request[r].account),
                           cookie |-> request[r].cookie, now |-> request[r].now]
         /\ \A q \in Requests \ {r} : request'[q] = request[q]
<1>1. request[r] \in Work /\ "read" \in Steps /\ Proof(request[r].account) \in Proofs
  BY DEF AuthTypeOK, Steps, Proof, Proofs, Credentials
<1>2. request'[r] = [request[r] EXCEPT !.step = "read", !.password = p,
                                       !.known = Proof(request[r].account)]
  BY DEF ReadForChange, AuthTypeOK
<1>3. request' = [request EXCEPT ![r] = request'[r]]
  BY <1>2 DEF ReadForChange, AuthTypeOK
<1>4. request'[r] = [op |-> request[r].op, step |-> "read", account |-> request[r].account,
                     password |-> p, known |-> Proof(request[r].account),
                     cookie |-> request[r].cookie, now |-> request[r].now]
  BY <1>1, <1>2 DEF Work
<1>5. request'[r] \in Work
  BY <1>1, <1>4 DEF Work
<1> QED
  BY <1>3, <1>4, <1>5, RequestStep

-----------------------------------------------------------------------------
\* What the writes leave in the table of sessions.

LEMMA WithoutAll ==
  ASSUME NEW S \in [Requests -> Sessions], NEW a \in Accounts
  PROVE  /\ WithoutSessionsOf(S, a) \in [Requests -> Sessions]
         /\ \A x \in Requests :
              LET y == WithoutSessionsOf(S, a)[x]
              IN  /\ y.owner = S[x].owner /\ y.under = S[x].under
                  /\ (S[x].revoked => y.revoked)
                  /\ (S[x].owner = a => y.revoked)
<1>1. ASSUME NEW x \in Requests
      PROVE  LET y == WithoutSessionsOf(S, a)[x]
             IN  /\ y \in Sessions
                 /\ y.owner = S[x].owner /\ y.under = S[x].under
                 /\ (S[x].revoked => y.revoked)
                 /\ (S[x].owner = a => y.revoked)
  <2>1. S[x] \in Sessions
    OBVIOUS
  <2> QED
    BY <2>1 DEF WithoutSessionsOf, Sessions
<1> QED
  BY <1>1 DEF WithoutSessionsOf

LEMMA WithoutOne ==
  ASSUME NEW S \in [Requests -> Sessions], NEW s \in Makers
  PROVE  /\ WithoutToken(S, s) \in [Requests -> Sessions]
         /\ \A x \in Requests :
              LET y == WithoutToken(S, s)[x]
              IN  /\ y.owner = S[x].owner /\ y.under = S[x].under
                  /\ (S[x].revoked => y.revoked)
<1>1. ASSUME NEW x \in Requests
      PROVE  LET y == WithoutToken(S, s)[x]
             IN  /\ y \in Sessions
                 /\ y.owner = S[x].owner /\ y.under = S[x].under
                 /\ (S[x].revoked => y.revoked)
  <2>1. S[x] \in Sessions
    OBVIOUS
  <2> QED
    BY <2>1 DEF WithoutToken, Sessions
<1> QED
  BY <1>1 DEF WithoutToken

LEMMA WithNew ==
  ASSUME AuthTypeOK, NEW S \in [Requests -> Sessions], NEW r \in Requests, NEW a \in Accounts,
         NEW k \in Makers
  PROVE  /\ WithSession(S, r, a, k) \in [Requests -> Sessions]
         /\ WithSession(S, r, a, k)[r].owner = a /\ WithSession(S, r, a, k)[r].under = k
         /\ \A x \in Requests \ {r} : WithSession(S, r, a, k)[x] = S[x]
<1>1. request[r].now \in Times /\ request[r].now + Lifetime \in Nat
  BY AuthAssumption DEF AuthTypeOK, Work, Times
<1>2. [owner |-> a, under |-> k, seen |-> request[r].now,
       expires |-> request[r].now + Lifetime, revoked |-> FALSE] \in Sessions
  BY <1>1 DEF Sessions
<1> QED
  BY <1>2 DEF WithSession

-----------------------------------------------------------------------------
\* The things that can happen to one request, and to the tables meanwhile.

Others(r) == \A q \in Requests \ {r} : request'[q] = request[q]

Begins(r) ==
  /\ request[r].step = "idle" /\ request'[r].step \in {"due", "known", "read", "dated"}
  /\ request'[r].account \in Accounts
  /\ request'[r].known = Proof(request'[r].account)
  /\ request'[r].op = "login" => request'[r].password = credential[request'[r].account].password
  /\ request'[r].op = "reset" =>
       request'[r].cookie \in Requests /\ resetToken[request'[r].cookie].owner # NoAccount

SameTask(r) ==
  /\ request'[r].op = request[r].op /\ request'[r].account = request[r].account
  /\ request'[r].cookie = request[r].cookie

GoesOn(r) ==
  /\ request[r].step \in {"due", "known", "read"}
  /\ request'[r].step \in {"known", "read", "dated"}
  /\ SameTask(r)
  /\ \/ /\ request'[r].known = request[r].known /\ request'[r].password = request[r].password
        /\ request'[r].step = "known" \/ request[r].step = "read"
     \/ request'[r].known = Proof(request[r].account) /\ request[r].op = "change"

Ends(r, s) ==
  /\ request[r].step \in {"known", "dated"} /\ request'[r].step = s
  /\ SameTask(r)
  /\ request'[r].password = request[r].password /\ request'[r].known = NoProof

OnlyRevokes ==
  \A s \in Requests :
    /\ session'[s].owner = session[s].owner /\ session'[s].under = session[s].under
    /\ session[s].revoked => session'[s].revoked

Quiet == UNCHANGED <<users, credential, resetToken>> /\ OnlyRevokes

Waits == request' = request /\ Quiet

Reads(r) ==
  /\ Others(r) /\ Quiet
  /\ \/ Begins(r) \/ GoesOn(r) \/ Ends(r, "refused")
     \/ Ends(r, "done") /\ request[r].op \in {"visit", "logout_all"}

WritesIt(r) ==
  /\ Others(r) /\ Ends(r, "done")
  /\ Register(r) \/ Login(r) \/ ChangePassword(r) \/ ResetPassword(r) \/ IssueResetToken(r)

LEMMA BeginKind ==
  ASSUME AuthTypeOK, NEW r \in Requests, NEW op \in Operations,
         NEW s \in {"due", "known", "read", "dated"},
         NEW a \in Accounts, NEW p \in Passwords, NEW c \in Makers, Begin(r, op, s, a, p, c),
         op = "login" => p = credential[a].password,
         op = "reset" => c \in Requests /\ resetToken[c].owner # NoAccount
  PROVE  AuthTypeOK' /\ Reads(r)
<1>1. s \in Steps
  BY DEF Steps
<1>2. /\ request[r].step = "idle"
      /\ request' \in [Requests -> Work]
      /\ request'[r] = [op |-> op, step |-> s, account |-> a, password |-> p,
                        known |-> Proof(a), cookie |-> c, now |-> time]
      /\ \A q \in Requests \ {r} : request'[q] = request[q]
      /\ UNCHANGED <<users, credential, session, resetToken, time>>
  BY <1>1, BeginStep
<1>3. AuthTypeOK'
  BY <1>2 DEF AuthTypeOK
<1>4. Begins(r)
  BY <1>2 DEF Begins
<1> QED
  BY <1>2, <1>3, <1>4 DEF Reads, Others, Quiet, OnlyRevokes

LEMMA EndKind ==
  ASSUME AuthTypeOK, NEW r \in Requests, NEW s \in {"done", "refused"}, End(r, s),
         request[r].step \in {"known", "dated"}
  PROVE  request' \in [Requests -> Work] /\ Others(r) /\ Ends(r, s)
<1>1. s \in Steps
  BY DEF Steps
<1>2. /\ request' \in [Requests -> Work]
      /\ request'[r] = [op |-> request[r].op, step |-> s, account |-> request[r].account,
                        password |-> request[r].password, known |-> NoProof,
                        cookie |-> request[r].cookie, now |-> 0]
      /\ \A q \in Requests \ {r} : request'[q] = request[q]
  BY <1>1, EndStep
<1> QED
  BY <1>2 DEF Others, Ends, SameTask

-----------------------------------------------------------------------------
\* Every step is one of these things, and keeps the types.

LEMMA ReadKinds ==
  ASSUME AuthTypeOK, KnowsItsAccount, NEW r \in Requests,
         \/ \E s \in Requests, op \in {"visit", "logout_all", "change"} : Authenticate(r, s, op)
         \/ \E a \in Accounts, cookie \in {s \in Makers : s = NoRequest \/ Exists(s)} :
              \/ \E p \in Passwords : ReadForRegister(r, a, p, cookie)
              \/ ReadForLogin(r, a, cookie)
         \/ \E p \in Passwords, t \in Requests : ReadForReset(r, t, p)
         \/ \E a \in Accounts : BeginIssue(r, a)
  PROVE  AuthTypeOK' /\ Reads(r)
<1> USE DEF Operations, Makers
<1> DEFINE Begun == {"due", "known", "read", "dated"}
<1>1. \A a \in Accounts : credential[a].password \in Passwords
  BY DEF AuthTypeOK, Credentials
<1>2. ASSUME NEW s \in Requests, NEW op \in {"visit", "logout_all", "change"},
             Authenticate(r, s, op)
      PROVE  AuthTypeOK' /\ Reads(r)
  <2>1. session[s].owner \in Accounts
    BY <1>2 DEF Authenticate, IsLive, Exists, AuthTypeOK, Sessions
  <2>2. PICK a \in Accounts : a = session[s].owner
    BY <2>1
  <2>3. PICK st \in Begun : Begin(r, op, st, a, credential[a].password, s)
    BY <1>2, <2>2 DEF Authenticate
  <2> QED
    BY <1>1, <2>3, BeginKind
<1>3. ASSUME NEW a \in Accounts, NEW c \in Makers, NEW p \in Passwords,
             ReadForRegister(r, a, p, c)
      PROVE  AuthTypeOK' /\ Reads(r)
  BY <1>3, BeginKind DEF ReadForRegister
<1>4. ASSUME NEW a \in Accounts, NEW c \in Makers, ReadForLogin(r, a, c)
      PROVE  AuthTypeOK' /\ Reads(r)
  BY <1>1, <1>4, BeginKind DEF ReadForLogin
<1>5. ASSUME NEW p \in Passwords, NEW t \in Requests, ReadForReset(r, t, p)
      PROVE  AuthTypeOK' /\ Reads(r)
  <2>1. resetToken[t].owner \in Accounts /\ resetToken[t].owner # NoAccount
    BY <1>5 DEF ReadForReset, AuthTypeOK, ResetTokens
  <2>2. PICK a \in Accounts : a = resetToken[t].owner
    BY <2>1
  <2>3. Begin(r, "reset", "read", a, p, t)
    BY <1>5, <2>2 DEF ReadForReset
  <2> QED
    BY <2>1, <2>3, BeginKind
<1>6. ASSUME NEW a \in Accounts, BeginIssue(r, a)
      PROVE  AuthTypeOK' /\ Reads(r)
  BY <1>1, <1>6, BeginKind DEF BeginIssue
<1> QED
  BY <1>2, <1>3, <1>4, <1>5, <1>6

LEMMA OtherKinds ==
  ASSUME AuthTypeOK, KnowsItsAccount, NEW r \in Requests,
         \/ WriteLastSeen(r) \/ Visited(r) \/ LogoutAll(r) \/ Logout(r)
         \/ \E p \in Passwords : ReadForChange(r, p)
         \/ ReadClock(r) \/ Refuse(r)
  PROVE  AuthTypeOK' /\ (Waits \/ Reads(r))
<1>1. session \in [Requests -> Sessions] /\ request \in [Requests -> Work]
  BY DEF AuthTypeOK
<1>2. CASE WriteLastSeen(r)
  <2>1. request[r].cookie \in Makers /\ request[r].now \in Times
    BY <1>1 DEF Work
  <2>2. \A s \in Requests :
          /\ session'[s] \in Sessions /\ session'[s].owner = session[s].owner
          /\ session'[s].under = session[s].under /\ session'[s].revoked = session[s].revoked
    <3> TAKE s \in Requests
    <3>1. session[s] \in Sessions
      BY <1>1
    <3>2. CASE s = request[r].cookie
      <4>1. PICK n : n = IF session[s].revoked THEN session[s].seen ELSE request[r].now
        OBVIOUS
      <4>2. session'[s] = [session[s] EXCEPT !.seen = n]
        BY <1>1, <1>2, <3>2, <4>1 DEF WriteLastSeen
      <4>3. n \in Times
        BY <2>1, <3>1, <4>1 DEF Sessions
      <4> QED
        BY <3>1, <4>2, <4>3 DEF Sessions
    <3>3. CASE s # request[r].cookie
      <4>1. session'[s] = session[s]
        BY <1>1, <1>2, <3>3 DEF WriteLastSeen
      <4> QED
        BY <3>1, <4>1
    <3> QED
      BY <3>2, <3>3
  <2>3. session' \in [Requests -> Sessions]
    BY <1>1, <1>2, <2>2 DEF WriteLastSeen
  <2>4. AuthTypeOK' /\ OnlyRevokes
    BY <1>2, <2>2, <2>3, SeenStep DEF WriteLastSeen, AuthTypeOK, OnlyRevokes
  <2>5. Others(r) /\ GoesOn(r)
    <3>1. request[r].step = "due"
      BY <1>2 DEF WriteLastSeen
    <3>2. /\ request'[r] = [op |-> request[r].op, step |-> "known", account |-> request[r].account,
                            password |-> request[r].password, known |-> request[r].known,
                            cookie |-> request[r].cookie, now |-> request[r].now]
          /\ \A q \in Requests \ {r} : request'[q] = request[q]
      BY <1>2, SeenStep
    <3> QED
      BY <3>1, <3>2 DEF Others, GoesOn, SameTask
  <2> QED
    BY <1>2, <2>4, <2>5 DEF WriteLastSeen, Reads, Quiet
<1>3. CASE Visited(r)
  <2>1. request' \in [Requests -> Work] /\ Others(r) /\ Ends(r, "done")
    BY <1>3, EndKind DEF Visited
  <2> QED
    BY <1>3, <2>1 DEF Visited, AuthTypeOK, Reads, Quiet, OnlyRevokes
<1>4. CASE LogoutAll(r)
  <2>1. request' \in [Requests -> Work] /\ Others(r) /\ Ends(r, "done")
    BY <1>4, EndKind DEF LogoutAll
  <2>2. request[r].account \in Accounts
    BY <1>4 DEF LogoutAll, KnowsItsAccount
  <2>3. session' \in [Requests -> Sessions] /\ OnlyRevokes
    BY <1>1, <1>4, <2>2, WithoutAll DEF LogoutAll, OnlyRevokes
  <2> QED
    BY <1>4, <2>1, <2>3 DEF LogoutAll, AuthTypeOK, Reads, Quiet
<1>5. CASE Logout(r)
  <2>1. session' \in [Requests -> Sessions] /\ OnlyRevokes
    BY <1>1, <1>5, WithoutOne DEF Logout, OnlyRevokes, Makers
  <2> QED
    BY <1>5, <2>1 DEF Logout, AuthTypeOK, Waits, Quiet
<1>6. ASSUME NEW p \in Passwords, ReadForChange(r, p)
      PROVE  AuthTypeOK' /\ Reads(r)
  <2>1. request[r].account \in Accounts
    BY <1>6 DEF ReadForChange, KnowsItsAccount
  <2>2. /\ request' \in [Requests -> Work]
        /\ request'[r] = [op |-> request[r].op, step |-> "read", account |-> request[r].account,
                          password |-> p, known |-> Proof(request[r].account),
                          cookie |-> request[r].cookie, now |-> request[r].now]
        /\ \A q \in Requests \ {r} : request'[q] = request[q]
    BY <1>6, <2>1, ReReadStep
  <2>3. Others(r) /\ GoesOn(r)
    <3>1. request[r].step = "known" /\ request[r].op = "change"
      BY <1>6 DEF ReadForChange
    <3> QED
      BY <2>2, <3>1 DEF Others, GoesOn, SameTask
  <2> QED
    BY <1>6, <2>2, <2>3 DEF ReadForChange, AuthTypeOK, Reads, Quiet, OnlyRevokes
<1>7. CASE ReadClock(r)
  <2>1. Others(r) /\ GoesOn(r)
    <3>1. request[r].step = "read"
      BY <1>7 DEF ReadClock
    <3>2. /\ request'[r] = [op |-> request[r].op, step |-> "dated", account |-> request[r].account,
                            password |-> request[r].password, known |-> request[r].known,
                            cookie |-> request[r].cookie, now |-> time]
          /\ \A q \in Requests \ {r} : request'[q] = request[q]
      BY <1>7, ClockStep
    <3> QED
      BY <3>1, <3>2 DEF Others, GoesOn, SameTask
  <2> QED
    BY <1>7, <2>1, ClockStep DEF ReadClock, AuthTypeOK, Reads, Quiet, OnlyRevokes
<1>8. CASE Refuse(r)
  <2>1. request' \in [Requests -> Work] /\ Others(r) /\ Ends(r, "refused")
    BY <1>8, EndKind DEF Refuse
  <2> QED
    BY <1>8, <2>1 DEF Refuse, AuthTypeOK, Reads, Quiet, OnlyRevokes
<1> QED
  BY <1>2, <1>3, <1>4, <1>5, <1>6, <1>7, <1>8

LEMMA WriteKinds ==
  ASSUME AuthTypeOK, KnowsItsAccount, NEW r \in Requests,
         Register(r) \/ Login(r) \/ ChangePassword(r) \/ ResetPassword(r) \/ IssueResetToken(r)
  PROVE  AuthTypeOK' /\ WritesIt(r)
<1> DEFINE a == request[r].account
           NewUnder(k) == session' = WithSession(session, r, a, k)
<1>1. /\ session \in [Requests -> Sessions] /\ request \in [Requests -> Work]
      /\ credential \in [Accounts -> Credentials] /\ resetToken \in [Requests -> ResetTokens]
      /\ users \in [Accounts -> {"absent", "active", "disabled"}] /\ time \in Times
  BY DEF AuthTypeOK
<1>2. request[r].step = "dated" /\ End(r, "done") /\ time' = time
  BY DEF Register, Login, ChangePassword, ResetPassword, IssueResetToken, Writes
<1>3. request' \in [Requests -> Work] /\ Others(r) /\ Ends(r, "done")
  BY <1>2, EndKind
<1>4. /\ a \in Accounts /\ request[r].password \in Passwords /\ request[r].cookie \in Makers
      /\ request[r].known.changed \in Makers /\ request[r].now \in Times /\ r \in Makers
      /\ request[r].op = "reset" => request[r].cookie \in Requests
  BY <1>1, <1>2 DEF KnowsItsAccount, Work, Proofs, Makers
<1>5. NewHash(r) \in Credentials
  BY <1>4 DEF NewHash, Credentials
<1>6. CASE Register(r)
  <2>1. WithoutToken(session, request[r].cookie) \in [Requests -> Sessions]
    BY <1>1, <1>4, WithoutOne
  <2>2. session' \in [Requests -> Sessions]
    BY <1>4, <1>6, <2>1, WithNew DEF Register
  <2>3. users' \in [Accounts -> {"absent", "active", "disabled"}]
    BY <1>1, <1>6 DEF Register
  <2>4. credential' \in [Accounts -> Credentials] /\ resetToken' = resetToken
    BY <1>1, <1>5, <1>6 DEF Register
  <2> QED
    BY <1>1, <1>2, <1>3, <1>6, <2>2, <2>3, <2>4 DEF AuthTypeOK, WritesIt
<1>7. CASE Login(r)
  <2>1. WithoutToken(session, request[r].cookie) \in [Requests -> Sessions]
    BY <1>1, <1>4, WithoutOne
  <2>2. session' \in [Requests -> Sessions]
    BY <1>4, <1>7, <2>1, WithNew DEF Login
  <2>3. Rehashed(r, credential[a]) \in Credentials
    <3>1. credential[a] \in Credentials
      BY <1>1, <1>4
    <3> QED
      BY <1>4, <3>1 DEF Rehashed, Credentials
  <2>4. credential' \in [Accounts -> Credentials] /\ resetToken' = resetToken /\ users' = users
    BY <1>1, <1>7, <2>3 DEF Login
  <2> QED
    BY <1>1, <1>2, <1>3, <1>7, <2>2, <2>4 DEF AuthTypeOK, WritesIt
<1>8. CASE ChangePassword(r)
  <2>1. WithoutSessionsOf(session, a) \in [Requests -> Sessions]
    BY <1>1, <1>4, WithoutAll
  <2>2. session' \in [Requests -> Sessions]
    BY <1>4, <1>8, <2>1, WithNew DEF ChangePassword
  <2>3. credential' \in [Accounts -> Credentials] /\ resetToken' = resetToken /\ users' = users
    BY <1>1, <1>5, <1>8 DEF ChangePassword
  <2> QED
    BY <1>1, <1>2, <1>3, <1>8, <2>2, <2>3 DEF AuthTypeOK, WritesIt
<1>9. CASE ResetPassword(r)
  <2>1. session' \in [Requests -> Sessions]
    BY <1>1, <1>4, <1>9, WithoutAll DEF ResetPassword
  <2>2. request[r].op = "reset"
    BY <1>9 DEF ResetPassword, Writes
  <2>3. PICK t \in Requests : t = request[r].cookie
    BY <1>4, <2>2
  <2>4. [resetToken[t] EXCEPT !.consumed = TRUE] \in ResetTokens
    BY <1>1 DEF ResetTokens
  <2>5. resetToken' = [resetToken EXCEPT ![t] = [resetToken[t] EXCEPT !.consumed = TRUE]]
    BY <1>9, <2>3 DEF ResetPassword
  <2>6. resetToken' \in [Requests -> ResetTokens]
    BY <1>1, <2>4, <2>5
  <2>7. credential' \in [Accounts -> Credentials] /\ users' = users
    BY <1>1, <1>5, <1>9 DEF ResetPassword
  <2> QED
    BY <1>1, <1>2, <1>3, <1>9, <2>1, <2>6, <2>7 DEF AuthTypeOK, WritesIt
<1>10. CASE IssueResetToken(r)
  <2>1. Voided(resetToken, a, request[r].now) \in [Requests -> ResetTokens]
    <3>1. ASSUME NEW t \in Requests
          PROVE  Voided(resetToken, a, request[r].now)[t] \in ResetTokens
      <4>1. resetToken[t] \in ResetTokens /\ request[r].now \in Nat
        BY <1>1, <1>4 DEF Times
      <4> QED
        BY <4>1 DEF Voided, ResetTokens
    <3> QED
      BY <3>1 DEF Voided
  <2>2. [owner |-> a, expires |-> request[r].now + TokenLifetime, consumed |-> FALSE] \in ResetTokens
    BY <1>4, AuthAssumption DEF ResetTokens, Times
  <2>3. resetToken' \in [Requests -> ResetTokens]
    BY <1>10, <2>1, <2>2 DEF IssueResetToken
  <2>4. credential' = credential /\ users' = users /\ session' = session
    BY <1>10 DEF IssueResetToken
  <2> QED
    BY <1>1, <1>2, <1>3, <1>10, <2>3, <2>4 DEF AuthTypeOK, WritesIt
<1> QED
  BY <1>6, <1>7, <1>8, <1>9, <1>10

LEMMA StepKinds ==
  ASSUME AuthTypeOK, KnowsItsAccount, AuthNext
  PROVE  /\ AuthTypeOK'
         /\ \/ Waits
            \/ \E r \in Requests : Reads(r)
            \/ \E r \in Requests : WritesIt(r)
            \/ \E a \in Accounts : DisableUser(a)
<1>1. ASSUME NEW a \in Accounts, DisableUser(a)
      PROVE  AuthTypeOK'
  <2>1. session' \in [Requests -> Sessions]
    BY <1>1, WithoutAll DEF DisableUser, AuthTypeOK
  <2>2. users' \in [Accounts -> {"absent", "active", "disabled"}]
    BY <1>1 DEF DisableUser, AuthTypeOK
  <2> QED
    BY <1>1, <2>1, <2>2 DEF DisableUser, AuthTypeOK
<1>2. ASSUME AuthTick
      PROVE  AuthTypeOK' /\ Waits
  <2>1. time' \in Times
    BY <1>2, AuthAssumption DEF AuthTick, AuthTypeOK, Times
  <2> QED
    BY <1>2, <2>1 DEF AuthTick, AuthTypeOK, Waits, Quiet, OnlyRevokes
<1>3. CASE \E a \in Accounts : DisableUser(a)
  <2>1. PICK a \in Accounts : DisableUser(a)
    BY <1>3
  <2>2. AuthTypeOK'
    BY <1>1, <2>1
  <2> QED
    BY <1>3, <2>2
<1>4. CASE \E r \in Requests :
             \/ \E s \in Requests, op \in {"visit", "logout_all", "change"} : Authenticate(r, s, op)
             \/ \E a \in Accounts, cookie \in {s \in Makers : s = NoRequest \/ Exists(s)} :
                  \/ \E p \in Passwords : ReadForRegister(r, a, p, cookie)
                  \/ ReadForLogin(r, a, cookie)
             \/ \E p \in Passwords, t \in Requests : ReadForReset(r, t, p)
             \/ \E a \in Accounts : BeginIssue(r, a)
  BY <1>4, ReadKinds
<1>5. CASE \E r \in Requests :
             \/ WriteLastSeen(r) \/ Visited(r) \/ LogoutAll(r) \/ Logout(r)
             \/ \E p \in Passwords : ReadForChange(r, p)
             \/ ReadClock(r) \/ Refuse(r)
  BY <1>5, OtherKinds
<1>6. CASE \E r \in Requests :
             Register(r) \/ Login(r) \/ ChangePassword(r) \/ ResetPassword(r) \/ IssueResetToken(r)
  BY <1>6, WriteKinds
<1> QED
  BY <1>2, <1>3, <1>4, <1>5, <1>6, Zenon DEF AuthNext

-----------------------------------------------------------------------------
\* The inductive invariant.

\* A change of a password, or a hash, is of a request that is over.
Past(x) == x = NoRequest \/ (x \in Requests /\ request[x].step = "done")

PastOnly ==
  /\ \A a \in Accounts : Past(credential[a].hashed) /\ Past(credential[a].changed)
  /\ \A r \in Requests : Past(request[r].known.hashed) /\ Past(request[r].known.changed)

\* While the hash that a request has verified is in force, so is all else that it read.
ReadsFit ==
  \A r \in Requests :
    LET c == credential[request[r].account]
    IN  request[r].step \in {"read", "dated"} /\ request[r].known.hashed = c.hashed =>
          /\ request[r].known.changed = c.changed
          /\ request[r].op = "login" => request[r].password = c.password

\* A token is of a request that is over, and one that has reset a password is used up.
TokensFit ==
  /\ \A t \in Requests : resetToken[t].owner # NoAccount => request[t].step = "done"
  /\ \A r \in Requests : request[r].op = "reset" /\ request[r].step = "done" =>
       resetToken[request[r].cookie].consumed

AuthInv ==
  /\ AuthTypeOK /\ KnowsItsAccount /\ PastOnly /\ ReadsFit /\ TokensFit
  /\ SessionsFollowThePassword /\ PasswordIsTheLastOneSet /\ TokenResetsOnce

LEMMA AuthInitInv == AuthInit => AuthInv
<1> SUFFICES ASSUME AuthInit PROVE AuthInv
  OBVIOUS
<1>1. PICK p \in Passwords : p = CHOOSE q \in Passwords : TRUE
  BY AuthAssumption
<1> DEFINE Idle == [op |-> "none", step |-> "idle", account |-> NoAccount, password |-> p,
                    known |-> NoProof, cookie |-> NoRequest, now |-> 0]
<1>2. /\ users \in [Accounts -> {"absent", "active"}]
      /\ credential = [a \in Accounts |->
           [password |-> p, hashed |-> NoRequest, changed |-> NoRequest]]
      /\ session = [r \in Requests |-> NoSession]
      /\ resetToken = [r \in Requests |-> NoToken]
      /\ request = [r \in Requests |-> Idle]
      /\ time = 0
  BY <1>1 DEF AuthInit
<1>3. NoRequest \in Makers /\ 0 \in Times
  BY AuthAssumption DEF Makers, Times
<1>4. NoSession \in Sessions /\ NoToken \in ResetTokens
  BY <1>3 DEF NoSession, Sessions, NoToken, ResetTokens
<1>5. Idle \in Work
  BY <1>1, <1>3 DEF Work, Operations, Steps, NoProof, Proofs
<1>6. [password |-> p, hashed |-> NoRequest, changed |-> NoRequest] \in Credentials
  BY <1>1, <1>3 DEF Credentials
<1>7. AuthTypeOK
  BY <1>2, <1>3, <1>4, <1>5, <1>6 DEF AuthTypeOK
<1>8. /\ \A r \in Requests : /\ request[r].step = "idle" /\ request[r].op = "none"
                             /\ request[r].known = NoProof
                             /\ session[r] = NoSession /\ resetToken[r] = NoToken
      /\ \A a \in Accounts : credential[a].hashed = NoRequest /\ credential[a].changed = NoRequest
  BY <1>2
<1>9. KnowsItsAccount /\ PastOnly /\ ReadsFit /\ TokensFit
  BY <1>8 DEF KnowsItsAccount, PastOnly, Past, ReadsFit, TokensFit, NoProof, NoToken
<1>10. SessionsFollowThePassword /\ PasswordIsTheLastOneSet /\ TokenResetsOnce
  BY <1>8 DEF SessionsFollowThePassword, PasswordIsTheLastOneSet, TokenResetsOnce, NoSession
<1> QED
  BY <1>7, <1>9, <1>10 DEF AuthInv

\* A step that writes no password and no token.
LEMMA ReadsKeep ==
  ASSUME AuthInv, AuthTypeOK', NEW r \in Requests, Reads(r)
  PROVE  AuthInv'
<1>1. /\ Others(r) /\ users' = users /\ credential' = credential /\ resetToken' = resetToken
      /\ OnlyRevokes
  BY DEF Reads, Quiet
<1>2. \A q \in Requests : q # r => request'[q] = request[q]
  BY <1>1 DEF Others
<1>3. request[r].step \in {"idle", "due", "known", "read", "dated"}
  BY DEF Reads, Begins, GoesOn, Ends
<1> DEFINE StillPast(x) == x = NoRequest \/ (x \in Requests /\ request'[x].step = "done")
<1>4. \A x : Past(x) => StillPast(x)
  BY <1>2, <1>3 DEF Past
<1>5. /\ \/ /\ request[r].step = "idle" /\ request'[r].account \in Accounts
            /\ request'[r].op = "reset" =>
                 request'[r].cookie \in Requests /\ resetToken[request'[r].cookie].owner # NoAccount
         \/ request[r].step # "idle" /\ SameTask(r)
      /\ request'[r].op = "reset" => request'[r].step # "done"
      /\ request'[r].known \in {request[r].known, NoProof, Proof(request'[r].account)}
  BY <1>3 DEF Reads, Begins, GoesOn, Ends, SameTask
<1>6. KnowsItsAccount'
  BY <1>1, <1>2, <1>5 DEF AuthInv, KnowsItsAccount, SameTask
<1>7. PastOnly'
  <2>1. ASSUME NEW a \in Accounts
        PROVE  StillPast(credential'[a].hashed) /\ StillPast(credential'[a].changed)
    BY <1>1, <1>4 DEF AuthInv, PastOnly
  <2>2. ASSUME NEW q \in Requests
        PROVE  StillPast(request'[q].known.hashed) /\ StillPast(request'[q].known.changed)
    <3>1. CASE request'[q].known \in {request[q].known, NoProof}
      BY <1>4, <3>1 DEF AuthInv, PastOnly, Past, NoProof
    <3>2. ASSUME NEW a \in Accounts, request'[q].known = Proof(a)
          PROVE  StillPast(request'[q].known.hashed) /\ StillPast(request'[q].known.changed)
      BY <1>4, <3>2 DEF AuthInv, PastOnly, Proof
    <3>3. request'[r].account \in Accounts
      BY <1>5 DEF AuthInv, KnowsItsAccount, SameTask
    <3> QED
      BY <1>2, <1>5, <3>1, <3>2, <3>3
  <2> QED
    BY <2>1, <2>2 DEF PastOnly, Past
<1>8. ReadsFit'
  <2> SUFFICES ASSUME NEW q \in Requests, request'[q].step \in {"read", "dated"},
                      request'[q].known.hashed = credential[request'[q].account].hashed
               PROVE  /\ request'[q].known.changed = credential[request'[q].account].changed
                      /\ request'[q].op = "login" =>
                           request'[q].password = credential[request'[q].account].password
    BY <1>1 DEF ReadsFit
  <2>1. CASE q # r
    BY <1>2, <2>1 DEF AuthInv, ReadsFit
  <2>2. CASE q = r /\ Begins(r)
    BY <2>2 DEF Begins, Proof
  <2>3. CASE q = r /\ GoesOn(r)
    BY <2>3 DEF GoesOn, SameTask, Proof, AuthInv, ReadsFit
  <2> QED
    BY <2>1, <2>2, <2>3 DEF Reads, Ends
<1>9. TokensFit'
  BY <1>1, <1>2, <1>3, <1>5 DEF AuthInv, TokensFit
<1>10. SessionsFollowThePassword'
  BY <1>1 DEF AuthInv, SessionsFollowThePassword, OnlyRevokes
<1>11. PasswordIsTheLastOneSet'
  <2>1. \A x \in Requests : request[x].step = "done" => request'[x] = request[x]
    BY <1>2, <1>3
  <2> QED
    BY <1>1, <2>1 DEF AuthInv, PasswordIsTheLastOneSet, PastOnly, Past
<1>12. TokenResetsOnce'
  BY <1>2, <1>5 DEF AuthInv, TokenResetsOnce
<1> QED
  BY <1>6, <1>7, <1>8, <1>9, <1>10, <1>11, <1>12 DEF AuthInv

LEMMA WaitsKeeps ==
  ASSUME AuthInv, AuthTypeOK', Waits
  PROVE  AuthInv'
<1>1. /\ request' = request /\ users' = users /\ credential' = credential
      /\ resetToken' = resetToken /\ OnlyRevokes
  BY DEF Waits, Quiet
<1>2. KnowsItsAccount' /\ PastOnly' /\ ReadsFit' /\ TokensFit'
  BY <1>1 DEF AuthInv, KnowsItsAccount, PastOnly, Past, ReadsFit, TokensFit
<1>3. SessionsFollowThePassword'
  BY <1>1 DEF AuthInv, SessionsFollowThePassword, OnlyRevokes
<1>4. PasswordIsTheLastOneSet' /\ TokenResetsOnce'
  BY <1>1 DEF AuthInv, PasswordIsTheLastOneSet, TokenResetsOnce
<1> QED
  BY <1>2, <1>3, <1>4 DEF AuthInv

LEMMA DisableKeeps ==
  ASSUME AuthInv, AuthTypeOK', NEW a \in Accounts, DisableUser(a)
  PROVE  AuthInv'
<1>1. /\ request' = request /\ credential' = credential /\ resetToken' = resetToken
      /\ users' = [users EXCEPT ![a] = "disabled"]
      /\ session' = WithoutSessionsOf(session, a)
  BY DEF DisableUser
<1>2. KnowsItsAccount' /\ PastOnly' /\ ReadsFit' /\ TokensFit'
  BY <1>1 DEF AuthInv, KnowsItsAccount, PastOnly, Past, ReadsFit, TokensFit
<1>3. PasswordIsTheLastOneSet' /\ TokenResetsOnce'
  BY <1>1 DEF AuthInv, PasswordIsTheLastOneSet, TokenResetsOnce
<1>4. \A s \in Requests :
        /\ session'[s].owner = session[s].owner /\ session'[s].under = session[s].under
        /\ session[s].revoked => session'[s].revoked
        /\ session[s].owner = a => session'[s].revoked
  BY <1>1, WithoutAll DEF AuthInv, AuthTypeOK
<1>5. \A b \in Accounts : b # a => users'[b] = users[b]
  BY <1>1 DEF AuthInv, AuthTypeOK
<1>6. \A s \in Requests : session[s].owner \in Accounts \cup {NoAccount}
  BY DEF AuthInv, AuthTypeOK, Sessions
<1>7. SessionsFollowThePassword'
  BY <1>1, <1>4, <1>5, <1>6 DEF AuthInv, SessionsFollowThePassword
<1> QED
  BY <1>2, <1>3, <1>7 DEF AuthInv

-----------------------------------------------------------------------------
\* What a write does to the password of its account, to the tokens and the sessions.

NewPassword(r) ==
  LET a == request[r].account
      c == credential'[a]
  IN  /\ \A b \in Accounts \ {a} : credential'[b] = credential[b]
      /\ c = credential[a] \/ c.hashed = r
      /\ \/ c.changed = r /\ c.password = request[r].password
         \/ c.changed = credential[a].changed /\ c.password = credential[a].password

NewTokens(r) ==
  /\ \A t \in Requests :
       /\ resetToken[t].owner # NoAccount => resetToken'[t].owner # NoAccount
       /\ resetToken'[t].owner # NoAccount => t = r \/ resetToken[t].owner # NoAccount
       /\ t # r /\ resetToken[t].consumed => resetToken'[t].consumed
  /\ request[r].op = "reset" =>
       ~resetToken[request[r].cookie].consumed /\ resetToken'[request[r].cookie].consumed

\* A session that is in force afterwards was already, or is the new one.
NewSessions(r) ==
  \A s \in Requests : session'[s].owner # NoAccount /\ ~session'[s].revoked =>
    \/ /\ session'[s].owner = session[s].owner /\ session'[s].under = session[s].under
       /\ ~session[s].revoked
       /\ session[s].owner = request[r].account =>
            /\ credential'[request[r].account].changed = credential[request[r].account].changed
    \/ /\ session'[s].owner = request[r].account
       /\ session'[s].under = credential'[request[r].account].changed
       /\ users'[request[r].account] = "active"

LEMMA HashEffect ==
  ASSUME AuthInv, NEW r \in Requests, request[r].account \in Accounts,
         credential' = [credential EXCEPT ![request[r].account] = NewHash(r)]
  PROVE  NewPassword(r) /\ credential'[request[r].account].changed = r
<1>1. credential \in [Accounts -> Credentials]
  BY DEF AuthInv, AuthTypeOK
<1>2. credential'[request[r].account] = NewHash(r)
  BY <1>1
<1> QED
  BY <1>1, <1>2 DEF NewPassword, NewHash

LEMMA LoginEffect ==
  ASSUME AuthInv, NEW r \in Requests, request[r].account \in Accounts, Login(r)
  PROVE  /\ NewPassword(r)
         /\ users[request[r].account] = "active"
         /\ credential'[request[r].account].changed = credential[request[r].account].changed
         /\ request[r].known.changed = credential[request[r].account].changed
<1> DEFINE a == request[r].account
<1>1. credential \in [Accounts -> Credentials] /\ credential[a] \in Credentials
  BY DEF AuthInv, AuthTypeOK
<1>2. /\ request[r].step = "dated" /\ request[r].op = "login" /\ users[a] = "active"
      /\ request[r].known.hashed = credential[a].hashed
  BY DEF Login, Writes, MayWrite, Unchanged
<1>3. /\ request[r].known.changed = credential[a].changed
      /\ request[r].password = credential[a].password
  BY <1>2 DEF AuthInv, ReadsFit
<1>4. credential' = [credential EXCEPT ![a] = Rehashed(r, credential[a])]
  BY DEF Login
<1>5. credential'[a] = Rehashed(r, credential[a])
  BY <1>1, <1>4
<1>6. CASE request[r].known.hashed = NoRequest
  <2>1. credential'[a] = [credential[a] EXCEPT !.password = request[r].password, !.hashed = r]
    BY <1>5, <1>6 DEF Rehashed
  <2>2. /\ credential'[a].hashed = r /\ credential'[a].changed = credential[a].changed
        /\ credential'[a].password = request[r].password
    BY <1>1, <2>1 DEF Credentials
  <2> QED
    BY <1>1, <1>2, <1>3, <1>4, <2>2 DEF NewPassword
<1>7. CASE request[r].known.hashed # NoRequest
  <2>1. credential'[a] = credential[a]
    BY <1>5, <1>7 DEF Rehashed
  <2> QED
    BY <1>1, <1>2, <1>3, <1>4, <2>1 DEF NewPassword
<1> QED
  BY <1>6, <1>7

LEMMA TokenEffect ==
  ASSUME AuthInv, NEW r \in Requests, request[r].account \in Accounts,
         request[r].op = "reset" => request[r].cookie \in Requests,
         Register(r) \/ Login(r) \/ ChangePassword(r) \/ ResetPassword(r) \/ IssueResetToken(r)
  PROVE  NewTokens(r)
<1>1. resetToken \in [Requests -> ResetTokens]
  BY DEF AuthInv, AuthTypeOK
<1>2. CASE Register(r) \/ Login(r) \/ ChangePassword(r)
  BY <1>2 DEF Register, Login, ChangePassword, Writes, NewTokens
<1>3. CASE ResetPassword(r)
  <2>1. request[r].op = "reset" /\ ~resetToken[request[r].cookie].consumed
    BY <1>3 DEF ResetPassword, Writes, MayWrite, TokenIsUnused
  <2>2. PICK t \in Requests : t = request[r].cookie
    BY <2>1
  <2>3. resetToken' = [resetToken EXCEPT ![t] = [resetToken[t] EXCEPT !.consumed = TRUE]]
    BY <1>3, <2>2 DEF ResetPassword
  <2>4. resetToken'[t] = [resetToken[t] EXCEPT !.consumed = TRUE]
    BY <1>1, <2>3
  <2>5. resetToken'[t].consumed /\ resetToken'[t].owner = resetToken[t].owner
    BY <1>1, <2>4 DEF ResetTokens
  <2>6. \A x \in Requests : x # t => resetToken'[x] = resetToken[x]
    BY <1>1, <2>3
  <2> QED
    BY <2>1, <2>2, <2>5, <2>6 DEF NewTokens
<1>4. CASE IssueResetToken(r)
  <2> DEFINE V == Voided(resetToken, request[r].account, request[r].now)
  <2>1. request[r].op = "issue"
    BY <1>4 DEF IssueResetToken, Writes
  <2>2. ASSUME NEW t \in Requests
        PROVE  /\ V[t].owner = resetToken[t].owner
               /\ resetToken[t].consumed => V[t].consumed
    <3>1. resetToken[t] \in ResetTokens
      BY <1>1
    <3> QED
      BY <3>1 DEF Voided, ResetTokens
  <2>3. \A t \in Requests : t # r => resetToken'[t] = V[t]
    BY <1>4 DEF IssueResetToken, Voided
  <2>4. resetToken'[r].owner = request[r].account
    BY <1>4 DEF IssueResetToken, Voided
  <2>5. request[r].account # NoAccount
    BY AuthAssumption
  <2> QED
    BY <2>1, <2>2, <2>3, <2>4, <2>5 DEF NewTokens
<1> QED
  BY <1>2, <1>3, <1>4

LEMMA SessionEffect ==
  ASSUME AuthInv, NEW r \in Requests, request[r].account \in Accounts,
         request[r].cookie \in Makers, request[r].known.changed \in Makers,
         Register(r) \/ Login(r) \/ ChangePassword(r) \/ ResetPassword(r) \/ IssueResetToken(r)
  PROVE  /\ NewSessions(r) /\ NewPassword(r)
         /\ \A b \in Accounts : users[b] = "active" => users'[b] = "active"
<1> DEFINE a == request[r].account
<1>1. /\ session \in [Requests -> Sessions] /\ users \in [Accounts -> {"absent", "active", "disabled"}]
      /\ r \in Makers /\ SessionsFollowThePassword
  BY DEF AuthInv, AuthTypeOK, Makers
<1>2. CASE Register(r)
  <2>1. users[a] = "absent" /\ users' = [users EXCEPT ![a] = "active"]
    BY <1>2 DEF Register, Writes, MayWrite
  <2>2. NewPassword(r) /\ credential'[a].changed = r
    BY <1>2, HashEffect DEF Register
  <2>3. PICK S \in [Requests -> Sessions] : S = WithoutToken(session, request[r].cookie)
    BY <1>1, WithoutOne
  <2>4. \A x \in Requests : /\ S[x].owner = session[x].owner /\ S[x].under = session[x].under
                            /\ session[x].revoked => S[x].revoked
    BY <1>1, <2>3, WithoutOne
  <2>5. /\ session'[r].owner = a /\ session'[r].under = r
        /\ \A x \in Requests \ {r} : session'[x] = S[x]
    BY <1>1, <1>2, <2>3, WithNew DEF Register, AuthInv
  <2>6. \A s \in Requests : session[s].owner = a => session[s].revoked
    BY <1>1, <2>1, AuthAssumption DEF SessionsFollowThePassword, Sessions
  <2>7. \A s \in Requests : session'[s].owner # NoAccount /\ ~session'[s].revoked =>
          \/ /\ session'[s].owner = session[s].owner /\ session'[s].under = session[s].under
             /\ ~session[s].revoked /\ session[s].owner # a
          \/ s = r
    BY <2>4, <2>5, <2>6
  <2>8. users'[a] = "active" /\ \A b \in Accounts : users[b] = "active" => users'[b] = "active"
    BY <1>1, <2>1
  <2> QED
    BY <2>2, <2>5, <2>7, <2>8 DEF NewSessions
<1>3. CASE Login(r)
  <2>1. /\ NewPassword(r) /\ users[a] = "active"
        /\ credential'[a].changed = credential[a].changed
        /\ request[r].known.changed = credential[a].changed
    BY <1>3, LoginEffect
  <2>2. users' = users
    BY <1>3 DEF Login
  <2>3. PICK S \in [Requests -> Sessions] : S = WithoutToken(session, request[r].cookie)
    BY <1>1, WithoutOne
  <2>4. \A x \in Requests : /\ S[x].owner = session[x].owner /\ S[x].under = session[x].under
                            /\ session[x].revoked => S[x].revoked
    BY <1>1, <2>3, WithoutOne
  <2>5. /\ session'[r].owner = a /\ session'[r].under = request[r].known.changed
        /\ \A x \in Requests \ {r} : session'[x] = S[x]
    BY <1>1, <1>3, <2>3, WithNew DEF Login, AuthInv
  <2>6. \A s \in Requests : session'[s].owner # NoAccount /\ ~session'[s].revoked =>
          \/ /\ session'[s].owner = session[s].owner /\ session'[s].under = session[s].under
             /\ ~session[s].revoked
          \/ s = r
    BY <2>4, <2>5
  <2> QED
    BY <2>1, <2>2, <2>5, <2>6 DEF NewSessions
<1>4. CASE ChangePassword(r)
  <2>1. users[a] = "active" /\ users' = users
    BY <1>4 DEF ChangePassword, Writes, MayWrite, MayChange, Unchanged
  <2>2. NewPassword(r) /\ credential'[a].changed = r
    BY <1>4, HashEffect DEF ChangePassword
  <2>3. PICK S \in [Requests -> Sessions] : S = WithoutSessionsOf(session, a)
    BY <1>1, WithoutAll
  <2>4. \A x \in Requests : /\ S[x].owner = session[x].owner /\ S[x].under = session[x].under
                            /\ session[x].revoked => S[x].revoked
                            /\ session[x].owner = a => S[x].revoked
    BY <1>1, <2>3, WithoutAll
  <2>5. /\ session'[r].owner = a /\ session'[r].under = r
        /\ \A x \in Requests \ {r} : session'[x] = S[x]
    BY <1>1, <1>4, <2>3, WithNew DEF ChangePassword, AuthInv
  <2>6. \A s \in Requests : session'[s].owner # NoAccount /\ ~session'[s].revoked =>
          \/ /\ session'[s].owner = session[s].owner /\ session'[s].under = session[s].under
             /\ ~session[s].revoked /\ session[s].owner # a
          \/ s = r
    BY <2>4, <2>5
  <2> QED
    BY <2>1, <2>2, <2>5, <2>6 DEF NewSessions
<1>5. CASE ResetPassword(r)
  <2>1. users' = users /\ session' = WithoutSessionsOf(session, a)
    BY <1>5 DEF ResetPassword
  <2>2. NewPassword(r)
    BY <1>5, HashEffect DEF ResetPassword
  <2>3. \A x \in Requests : /\ session'[x].owner = session[x].owner
                            /\ session'[x].under = session[x].under
                            /\ session[x].revoked => session'[x].revoked
                            /\ session[x].owner = a => session'[x].revoked
    BY <1>1, <2>1, WithoutAll
  <2>4. \A s \in Requests : session'[s].owner # NoAccount /\ ~session'[s].revoked =>
          /\ session'[s].owner = session[s].owner /\ session'[s].under = session[s].under
          /\ ~session[s].revoked /\ session[s].owner # a
    BY <2>3
  <2> QED
    BY <2>1, <2>2, <2>4 DEF NewSessions
<1>6. CASE IssueResetToken(r)
  BY <1>6 DEF IssueResetToken, NewSessions, NewPassword
<1> QED
  BY <1>2, <1>3, <1>4, <1>5, <1>6

LEMMA WritesKeep ==
  ASSUME AuthInv, AuthTypeOK', NEW r \in Requests, WritesIt(r)
  PROVE  AuthInv'
<1> DEFINE a == request[r].account
           StillPast(x) == x = NoRequest \/ (x \in Requests /\ request'[x].step = "done")
<1>1. /\ request[r].step = "dated" /\ SameTask(r) /\ request'[r].step = "done"
      /\ request'[r].known = NoProof /\ request'[r].password = request[r].password
      /\ \A q \in Requests : q # r => request'[q] = request[q]
  BY DEF WritesIt, Ends, Others, Register, Login, ChangePassword, ResetPassword,
         IssueResetToken, Writes
<1>2. /\ a \in Accounts /\ request[r].cookie \in Makers /\ request[r].known.changed \in Makers
      /\ request[r].op = "reset" => request[r].cookie \in Requests
  BY <1>1 DEF AuthInv, KnowsItsAccount, AuthTypeOK, Work, Proofs
<1>3. NewTokens(r)
  BY <1>2, TokenEffect DEF WritesIt
<1>4. /\ NewSessions(r) /\ NewPassword(r)
      /\ \A b \in Accounts : users[b] = "active" => users'[b] = "active"
  BY <1>2, SessionEffect DEF WritesIt
<1>5. \A x : Past(x) => StillPast(x) /\ x # r
  BY <1>1, AuthAssumption DEF Past
<1>6. KnowsItsAccount'
  BY <1>1, <1>2, <1>3 DEF AuthInv, KnowsItsAccount, SameTask, NewTokens
<1>7. PastOnly'
  <2>1. StillPast(r)
    BY <1>1
  <2>2. ASSUME NEW b \in Accounts
        PROVE  StillPast(credential'[b].hashed) /\ StillPast(credential'[b].changed)
    <3>1. /\ credential'[b].hashed \in {credential[b].hashed, r}
          /\ credential'[b].changed \in {credential[b].changed, r}
      BY <1>4 DEF NewPassword
    <3> QED
      BY <1>5, <2>1, <3>1 DEF AuthInv, PastOnly
  <2>3. ASSUME NEW q \in Requests
        PROVE  StillPast(request'[q].known.hashed) /\ StillPast(request'[q].known.changed)
    BY <1>1, <1>5 DEF AuthInv, PastOnly, NoProof
  <2> QED
    BY <2>2, <2>3 DEF PastOnly, Past
<1>8. ReadsFit'
  <2> SUFFICES ASSUME NEW q \in Requests, request'[q].step \in {"read", "dated"},
                      request'[q].known.hashed = credential'[request'[q].account].hashed
               PROVE  /\ request'[q].known.changed = credential'[request'[q].account].changed
                      /\ request'[q].op = "login" =>
                           request'[q].password = credential'[request'[q].account].password
    BY DEF ReadsFit
  <2>1. q # r /\ request'[q] = request[q] /\ request[q].account \in Accounts
    BY <1>1 DEF AuthInv, KnowsItsAccount
  <2>2. request[q].known.hashed # r
    BY <1>5 DEF AuthInv, PastOnly
  <2>3. credential'[request[q].account] = credential[request[q].account]
    BY <1>4, <2>1, <2>2 DEF NewPassword
  <2> QED
    BY <2>1, <2>3 DEF AuthInv, ReadsFit
<1>9. TokensFit'
  <2>1. ASSUME NEW t \in Requests, resetToken'[t].owner # NoAccount
        PROVE  request'[t].step = "done"
    BY <1>1, <1>3, <2>1 DEF NewTokens, AuthInv, TokensFit
  <2>2. ASSUME NEW q \in Requests, request'[q].op = "reset", request'[q].step = "done"
        PROVE  resetToken'[request'[q].cookie].consumed
    <3>1. CASE q = r
      BY <1>1, <1>3, <2>2, <3>1 DEF NewTokens, SameTask
    <3>2. CASE q # r
      <4>1. /\ request'[q] = request[q] /\ request[q].cookie \in Requests
            /\ resetToken[request[q].cookie].owner # NoAccount
            /\ resetToken[request[q].cookie].consumed
        BY <1>1, <2>2, <3>2 DEF AuthInv, KnowsItsAccount, TokensFit
      <4>2. request[q].cookie # r
        BY <1>1, <4>1 DEF AuthInv, TokensFit
      <4> QED
        BY <1>3, <4>1, <4>2 DEF NewTokens
    <3> QED
      BY <3>1, <3>2
  <2> QED
    BY <2>1, <2>2 DEF TokensFit
<1>10. SessionsFollowThePassword'
  <2> SUFFICES ASSUME NEW s \in Requests, session'[s].owner # NoAccount, ~session'[s].revoked
               PROVE  /\ users'[session'[s].owner] = "active"
                      /\ session'[s].under = credential'[session'[s].owner].changed
    BY DEF SessionsFollowThePassword
  <2>1. session[s].owner \in Accounts \cup {NoAccount}
    BY DEF AuthInv, AuthTypeOK, Sessions
  <2> QED
    BY <1>4, <2>1 DEF NewSessions, NewPassword, AuthInv, SessionsFollowThePassword
<1>11. PasswordIsTheLastOneSet'
  <2> SUFFICES ASSUME NEW b \in Accounts, credential'[b].changed # NoRequest
               PROVE  credential'[b].password = request'[credential'[b].changed].password
    BY DEF PasswordIsTheLastOneSet
  <2>1. CASE b = a /\ credential'[b].changed = r
    <3>1. credential[a].changed # r
      BY <1>2, <1>5 DEF AuthInv, PastOnly
    <3> QED
      BY <1>1, <1>4, <2>1, <3>1 DEF NewPassword
  <2>2. CASE ~(b = a /\ credential'[b].changed = r)
    <3>1. /\ credential'[b].changed = credential[b].changed
          /\ credential'[b].password = credential[b].password
      BY <1>4, <2>2 DEF NewPassword
    <3>2. credential[b].changed \in Requests /\ credential[b].changed # r
      BY <1>5, <3>1 DEF AuthInv, PastOnly, Past
    <3> QED
      BY <1>1, <3>1, <3>2 DEF AuthInv, PasswordIsTheLastOneSet
  <2> QED
    BY <2>1, <2>2
<1>12. TokenResetsOnce'
  <2> SUFFICES ASSUME NEW p \in Requests, NEW q \in Requests,
                      request'[p].op = "reset", request'[p].step = "done",
                      request'[q].op = "reset", request'[q].step = "done",
                      request'[p].cookie = request'[q].cookie
               PROVE  p = q
    BY DEF TokenResetsOnce
  <2>1. ASSUME NEW x \in Requests, x # r, request[x].op = "reset", request[x].step = "done",
               request[r].op = "reset"
        PROVE  request[x].cookie # request[r].cookie
    BY <1>3, <2>1 DEF NewTokens, AuthInv, TokensFit
  <2> QED
    BY <1>1, <2>1 DEF AuthInv, TokenResetsOnce, SameTask
<1> QED
  BY <1>6, <1>7, <1>8, <1>9, <1>10, <1>11, <1>12 DEF AuthInv

-----------------------------------------------------------------------------
\* The parts of the invariant hold in every reachable state: what a request has
\* read is what is in force as long as the hash it verified is, and a token that
\* has reset a password stays consumed.
THEOREM AuthInvariance == AuthSpec => []AuthInv
<1>1. AuthInv /\ [AuthNext]_authVars => AuthInv'
  <2> SUFFICES ASSUME AuthInv, [AuthNext]_authVars
               PROVE  AuthInv'
    OBVIOUS
  <2>1. CASE AuthNext
    <3>1. /\ AuthTypeOK'
          /\ \/ Waits
             \/ \E r \in Requests : Reads(r)
             \/ \E r \in Requests : WritesIt(r)
             \/ \E a \in Accounts : DisableUser(a)
      BY <2>1, StepKinds DEF AuthInv
    <3> QED
      BY <3>1, WaitsKeeps, ReadsKeep, WritesKeep, DisableKeeps
  <2>2. CASE UNCHANGED authVars
    <3>1. AuthTypeOK' /\ Waits
      BY <2>2 DEF authVars, AuthInv, AuthTypeOK, Waits, Quiet, OnlyRevokes
    <3> QED
      BY <3>1, WaitsKeeps
  <2> QED
    BY <2>1, <2>2
<1> QED
  BY <1>1, AuthInitInv, PTL DEF AuthSpec

\* SessionsFollowThePassword: whatever changes, resets and disablings fall between a
\* login's read and its transaction, no session outlives the password it was opened with.
THEOREM SessionsCorrect == AuthSpec => []SessionsFollowThePassword
<1>1. AuthInv => SessionsFollowThePassword
  BY DEF AuthInv
<1> QED
  BY <1>1, AuthInvariance, PTL

\* PasswordIsTheLastOneSet: a login that renews an outdated hash never undoes a change.
THEOREM PasswordCorrect == AuthSpec => []PasswordIsTheLastOneSet
<1>1. AuthInv => PasswordIsTheLastOneSet
  BY DEF AuthInv
<1> QED
  BY <1>1, AuthInvariance, PTL

\* TokenResetsOnce: of any number of requests that hold a reset token, one resets.
THEOREM ResetOnce == AuthSpec => []TokenResetsOnce
<1>1. AuthInv => TokenResetsOnce
  BY DEF AuthInv
<1> QED
  BY <1>1, AuthInvariance, PTL

=============================================================================

---------------------------- MODULE ConsoleProofs -----------------------------
(***************************************************************************)
(* What the console is promised, by the components behind it.              *)
(*                                                                         *)
(* ConsoleAccess, for any number of accounts, sessions, requests and       *)
(* password changes: an account's own password change ends every session   *)
(* of it, the idle limit is measured from the last use, and wrong guesses  *)
(* are bounded.  Realtime, for any number of gateways and browsers and any *)
(* window: what a browser is shown is what was reported.                   *)
(***************************************************************************)
EXTENDS ConsoleAccess, Realtime, FiniteSetTheorems, TLAPS

-----------------------------------------------------------------------------
(* What the helpers do to a request and to a row. *)

LEMMA FreeIs == Free \in Request /\ Free.step = "free"
BY AccessBounds DEF Free, Request, Steps

LEMMA GotoIs ==
  ASSUME TypeOK, NEW r \in Requests, NEW step \in Steps, Goto(r, step)
  PROVE  /\ req' \in [Requests -> Request]
         /\ req'[r].step = step /\ req'[r].id = req[r].id /\ req'[r].user = req[r].user
         /\ req'[r].session = req[r].session
         /\ req'[r].since = req[r].since /\ req'[r].overtaken = req[r].overtaken
         /\ \A q \in Requests \ {r} : req'[q] = req[q]
<1>1. req \in [Requests -> Request] /\ req[r] \in Request
  BY DEF TypeOK
<1>2. /\ [req[r] EXCEPT !.step = step] \in Request
      /\ [req[r] EXCEPT !.step = step].step = step
      /\ [req[r] EXCEPT !.step = step].id = req[r].id
      /\ [req[r] EXCEPT !.step = step].user = req[r].user
      /\ [req[r] EXCEPT !.step = step].session = req[r].session
      /\ [req[r] EXCEPT !.step = step].since = req[r].since
      /\ [req[r] EXCEPT !.step = step].overtaken = req[r].overtaken
  BY <1>1 DEF Request
<1>3. req' = [req EXCEPT ![r] = [req[r] EXCEPT !.step = step]]
  BY DEF Goto
<1> QED
  BY <1>1, <1>2, <1>3

LEMMA EndIs ==
  ASSUME TypeOK, NEW r \in Requests, End(r)
  PROVE  /\ req' \in [Requests -> Request] /\ req'[r] = Free
         /\ \A q \in Requests \ {r} : req'[q] = req[q]
BY FreeIs DEF TypeOK, End

\* The change that overtakes a login is noted in it, and nothing else of it is touched.
LEMMA OvertakenIs ==
  ASSUME NEW q \in Request, NEW n \in 0 .. MaxChanges
  PROVE  LET p == [q EXCEPT !.overtaken = n]
         IN  /\ p \in Request /\ p.overtaken = n
             /\ p.step = q.step /\ p.id = q.id /\ p.user = q.user /\ p.session = q.session
BY DEF Request

LEMMA OvertakeIs ==
  ASSUME TypeOK, NEW r \in Requests, NEW u, user[u].changed + 1 \in 0 .. MaxChanges, Overtake(r, u)
  PROVE  /\ req' \in [Requests -> Request] /\ req'[r] = Free
         /\ \A q \in Requests \ {r} :
              /\ req'[q].step = req[q].step /\ req'[q].id = req[q].id
              /\ req'[q].user = req[q].user /\ req'[q].session = req[q].session
              /\ IF req[q].step = "login" /\ req[q].user = u THEN req'[q].overtaken = user[u].changed + 1
                 ELSE req'[q] = req[q]
<1> DEFINE n == user[u].changed + 1
<1>0. req \in [Requests -> Request] /\ n \in 0 .. MaxChanges
  BY DEF TypeOK
<1>1. req' = [q \in Requests |->
                IF q = r THEN Free
                ELSE IF req[q].step = "login" /\ req[q].user = u THEN [req[q] EXCEPT !.overtaken = n]
                ELSE req[q]]
  BY DEF Overtake
<1> HIDE DEF n
<1>2. req'[r] = Free
  BY <1>1
<1>3. ASSUME NEW q \in Requests \ {r}
      PROVE  /\ req'[q] \in Request
             /\ req'[q].step = req[q].step /\ req'[q].id = req[q].id
             /\ req'[q].user = req[q].user /\ req'[q].session = req[q].session
             /\ IF req[q].step = "login" /\ req[q].user = u THEN req'[q].overtaken = n
                ELSE req'[q] = req[q]
  <2>1. req[q] \in Request
    BY <1>0
  <2>2. CASE req[q].step = "login" /\ req[q].user = u
    <3>1. req'[q] = [req[q] EXCEPT !.overtaken = n]
      BY <1>1, <2>2
    <3> QED
      BY <1>0, <2>1, <2>2, <3>1, OvertakenIs
  <2>3. CASE ~(req[q].step = "login" /\ req[q].user = u)
    <3>1. req'[q] = req[q]
      BY <1>1, <2>3
    <3> QED
      BY <2>1, <2>3, <3>1
  <2> QED
    BY <2>2, <2>3
<1>4. req' \in [Requests -> Request]
  <2>1. \A q \in Requests : req'[q] \in Request
    BY <1>2, <1>3, FreeIs
  <2> QED
    BY <1>1, <2>1
<1> QED
  BY <1>2, <1>3, <1>4 DEF n

-----------------------------------------------------------------------------
(* The inductive invariant.  A request acts for an account that exists, as *)
(* does every session and access code; and an account's changes of its own *)
(* password are among all changes of it.                                   *)

Known(u) == u \in Users /\ user[u].exists
Accounts ==
  \A u \in Users : user[u].changed <= user[u].password /\ (~user[u].exists => user[u].changed = 0)
ActsFor(r) ==
  /\ req[r].step \in {"login", "touch", "admitted", "change"} => Known(req[r].user)
  /\ req[r].step \in {"refuse", "verify", "failed"} => req[r].id \in Identifiers
Owned ==
  /\ \A r \in Requests : ActsFor(r)
  /\ \A s \in Sessions : session[s].state = "live" => Known(session[s].user)
  /\ \A c \in Codes : code[c].state = "live" => Known(code[c].creator)

Sound == TypeOK /\ Accounts /\ Owned

LEMMA SoundInit == Init => Sound
<1> SUFFICES ASSUME Init PROVE Sound
  OBVIOUS
<1>1. user \in [Users -> User] /\ Accounts
  BY AccessBounds DEF Init, User, Accounts
<1>2. session \in [Sessions -> Session] /\ used \in [Sessions -> IdleAges]
  BY TimesAssumption, AccessBounds DEF Init, Session, NoRow, IdleAges
<1>3. code \in [Codes -> Credential] /\ key \in [Keys -> Credential]
  BY TimesAssumption DEF Init, Credential, NoCredential
<1>4. ledger \in [Identifiers -> [Ages -> Failures]]
  BY TimesAssumption DEF Init, Failures
<1>5. req \in [Requests -> Request] /\ \A r \in Requests : req[r].step = "free"
  BY FreeIs DEF Init
<1>6. uses \in 0 .. MaxUses
  BY AccessBounds DEF Init
<1>7. Owned
  <2>1. \A s \in Sessions : session[s].state = "none"
    BY DEF Init, NoRow
  <2>2. \A c \in Codes : code[c].state = "none"
    BY DEF Init, NoCredential
  <2> QED
    BY <1>5, <2>1, <2>2 DEF Owned, ActsFor
<1> QED
  BY <1>1, <1>2, <1>3, <1>4, <1>5, <1>6, <1>7 DEF Sound, TypeOK

-----------------------------------------------------------------------------
(* Accounts. *)

\* The steps that write to an account.
LEMMA UserMoves ==
  ASSUME [Next]_vars
  PROVE  \/ UNCHANGED user
         \/ \E r \in Requests, c \in Codes, password \in 0 .. 1 : CreateOwner(r, c, password)
         \/ \E r \in Requests : ChangeOwnPassword(r)
         \/ \E r \in Requests, u \in Users : SetPassword(r, u)
         \/ \E u \in Users : Deactivate(u)
<1>1. ASSUME NEW r \in Requests, Proceed(r)
      PROVE  \/ UNCHANGED user
             \/ \E c \in Codes, password \in 0 .. 1 : CreateOwner(r, c, password)
             \/ ChangeOwnPassword(r)
  BY <1>1 DEF Proceed, BootstrapFails, RecordRefused, RecordFailed, VerifyPassword, VerifyCode,
     CreateSession, ExpireIdle, Touch, Answer, Logout
<1>2. ASSUME NEW r \in Requests, Handle(r)
      PROVE  UNCHANGED user \/ \E u \in Users : SetPassword(r, u)
  BY <1>2 DEF Handle, RevokeSessionById, RevokeUserSessions, RotateSession, StartChange,
     CreateAccessCode, RevokeAccessCode, RotateAccessCode, CreateApiKey, RevokeApiKey
<1> QED
  BY <1>1, <1>2 DEF Next, Tick, StartBootstrap, StartLogin, StartRequest, StartLogout, ApiCall, vars

LEMMA CreatedIs ==
  ASSUME NEW a \in User, NEW n \in 0 .. MaxChanges
  PROVE  LET b == [a EXCEPT !.exists = TRUE, !.password = n]
         IN  b \in User /\ b.exists /\ b.password = n /\ b.changed = a.changed
BY DEF User

LEMMA SetIs ==
  ASSUME NEW a \in User, NEW n \in 0 .. MaxChanges
  PROVE  LET b == [a EXCEPT !.password = n]
         IN  b \in User /\ b.exists = a.exists /\ b.password = n /\ b.changed = a.changed
BY DEF User

LEMMA DeactivatedIs ==
  ASSUME NEW a \in User
  PROVE  LET b == [a EXCEPT !.active = FALSE]
         IN  b \in User /\ b.exists = a.exists /\ b.password = a.password /\ b.changed = a.changed
BY DEF User

\* An account that exists stays, and its own changes are counted among all of them.
LEMMA UserNext ==
  ASSUME Sound, [Next]_vars
  PROVE  /\ user' \in [Users -> User] /\ Accounts'
         /\ \A u \in Users : user[u].exists => user'[u].exists
<1>0. /\ user \in [Users -> User]
      /\ \A u \in Users : /\ user[u] \in User /\ user[u].changed \in Nat /\ user[u].password \in Nat
                          /\ user[u].changed <= user[u].password
                          /\ ~user[u].exists => user[u].changed = 0
  BY DEF Sound, TypeOK, User, Accounts
<1>1. CASE UNCHANGED user
  BY <1>0, <1>1 DEF Accounts
<1>2. ASSUME NEW u \in Users, NEW row \in User, user' = [user EXCEPT ![u] = row],
             row.changed <= row.password, user[u].exists => row.exists,
             ~row.exists => row.changed = 0
      PROVE  /\ user' \in [Users -> User] /\ Accounts'
             /\ \A v \in Users : user[v].exists => user'[v].exists
  BY <1>0, <1>2 DEF Accounts
<1>3. ASSUME NEW r \in Requests, NEW c \in Codes, NEW password \in 0 .. 1, CreateOwner(r, c, password)
      PROVE  /\ user' \in [Users -> User] /\ Accounts'
             /\ \A v \in Users : user[v].exists => user'[v].exists
  <2> DEFINE row == [user[Owner] EXCEPT !.exists = TRUE, !.password = password]
  <2>1. user' = [user EXCEPT ![Owner] = row] /\ ~user[Owner].exists /\ Owner \in Users
    BY <1>3, NullAssumption DEF CreateOwner, NameTaken
  <2>2. password \in 0 .. MaxChanges /\ password >= 0
    BY AccessBounds
  <2>3. row \in User /\ row.exists /\ row.password = password /\ row.changed = 0
    <3>1. user[Owner] \in User /\ user[Owner].changed = 0
      BY <1>0, <2>1
    <3> QED
      BY <2>2, <3>1, CreatedIs
  <2> HIDE DEF row
  <2> QED
    BY <1>2, <2>1, <2>2, <2>3
<1>4. ASSUME NEW r \in Requests, ChangeOwnPassword(r)
      PROVE  /\ user' \in [Users -> User] /\ Accounts'
             /\ \A v \in Users : user[v].exists => user'[v].exists
  <2> DEFINE u == req[r].user
             n == user[u].password + 1
             m == user[u].changed + 1
             row == [user[u] EXCEPT !.password = n, !.changed = m]
  <2>1. u \in Users /\ user[u].exists /\ user[u].password < MaxChanges
    BY <1>4 DEF ChangeOwnPassword, Sound, Owned, ActsFor, Known
  <2>2. user' = [user EXCEPT ![u] = row]
    BY <1>0, <1>4, <2>1 DEF ChangeOwnPassword, User
  <2>3. n \in 0 .. MaxChanges /\ m \in 0 .. MaxChanges /\ m <= n
    BY <1>0, <2>1, AccessBounds
  <2>4. row \in User /\ row.exists = user[u].exists /\ row.changed = m /\ row.password = n
    <3>1. user[u] \in User
      BY <1>0, <2>1
    <3> HIDE DEF u, n, m
    <3> QED
      BY <2>3, <3>1 DEF User
  <2> HIDE DEF row, u, n, m
  <2> QED
    BY <1>2, <2>1, <2>2, <2>3, <2>4
<1>5. ASSUME NEW r \in Requests, NEW u \in Users, SetPassword(r, u)
      PROVE  /\ user' \in [Users -> User] /\ Accounts'
             /\ \A v \in Users : user[v].exists => user'[v].exists
  <2> DEFINE n == user[u].password + 1
             row == [user[u] EXCEPT !.password = n]
  <2>1. user[u].exists /\ user[u].password < MaxChanges
    BY <1>5 DEF SetPassword
  <2>2. user' = [user EXCEPT ![u] = row]
    BY <1>0, <1>5 DEF SetPassword
  <2>3. n \in 0 .. MaxChanges /\ user[u].changed <= n
    BY <1>0, <2>1, AccessBounds
  <2>4. row \in User /\ row.exists = user[u].exists /\ row.changed = user[u].changed /\ row.password = n
    BY <1>0, <2>3, SetIs
  <2> HIDE DEF row, n
  <2> QED
    BY <1>2, <2>1, <2>2, <2>3, <2>4
<1>6. ASSUME NEW u \in Users, Deactivate(u)
      PROVE  /\ user' \in [Users -> User] /\ Accounts'
             /\ \A v \in Users : user[v].exists => user'[v].exists
  <2> DEFINE row == [user[u] EXCEPT !.active = FALSE]
  <2>1. user' = [user EXCEPT ![u] = row]
    BY <1>6 DEF Deactivate
  <2>2. row \in User /\ row.exists = user[u].exists /\ row.changed = user[u].changed /\ row.password = user[u].password
    BY <1>0, DeactivatedIs
  <2> HIDE DEF row
  <2> QED
    BY <1>0, <1>2, <2>1, <2>2
<1> QED
  BY <1>1, <1>3, <1>4, <1>5, <1>6, UserMoves

\* Only a change of an account's own password counts as one.
LEMMA ChangedMoves ==
  ASSUME Sound, [Next]_vars, NEW u \in Users, user'[u].changed # user[u].changed
  PROVE  \E r \in Requests : ChangeOwnPassword(r) /\ req[r].user = u
<1>0. user \in [Users -> User] /\ Owner \in Users
  BY NullAssumption DEF Sound, TypeOK
<1>1. ASSUME NEW v \in Users, NEW row, row.changed = user[v].changed, user' = [user EXCEPT ![v] = row]
      PROVE  FALSE
  BY <1>0, <1>1
<1>2. ASSUME NEW r \in Requests, NEW c \in Codes, NEW password \in 0 .. 1, CreateOwner(r, c, password)
      PROVE  FALSE
  <2> DEFINE row == [user[Owner] EXCEPT !.exists = TRUE, !.password = password]
  <2>1. user' = [user EXCEPT ![Owner] = row] /\ user[Owner] \in User
    BY <1>0, <1>2 DEF CreateOwner
  <2>2. row.changed = user[Owner].changed
    BY <2>1 DEF User
  <2> HIDE DEF row
  <2> QED
    BY <1>0, <1>1, <2>1, <2>2
<1>3. ASSUME NEW r \in Requests, NEW v \in Users, SetPassword(r, v) PROVE FALSE
  <2> DEFINE row == [user[v] EXCEPT !.password = user[v].password + 1]
  <2>1. user' = [user EXCEPT ![v] = row] /\ user[v] \in User
    BY <1>0, <1>3 DEF SetPassword
  <2>2. row.changed = user[v].changed
    BY <2>1 DEF User
  <2> HIDE DEF row
  <2> QED
    BY <1>1, <2>1, <2>2
<1>4. ASSUME NEW v \in Users, Deactivate(v) PROVE FALSE
  <2> DEFINE row == [user[v] EXCEPT !.active = FALSE]
  <2>1. user' = [user EXCEPT ![v] = row] /\ user[v] \in User
    BY <1>0, <1>4 DEF Deactivate
  <2>2. row.changed = user[v].changed
    BY <2>1 DEF User
  <2> HIDE DEF row
  <2> QED
    BY <1>1, <2>1, <2>2
<1>5. ASSUME NEW r \in Requests, ChangeOwnPassword(r) PROVE req[r].user = u
  BY <1>0, <1>5 DEF ChangeOwnPassword
<1> QED
  BY <1>2, <1>3, <1>4, <1>5, UserMoves

-----------------------------------------------------------------------------
(* Sessions. *)

\* The writes that leave a session whose it is and what it was created for.
LEMMA SessionIs ==
  ASSUME NEW a \in Session
  PROVE  /\ LET b == [a EXCEPT !.state = "revoked"]
            IN  /\ b \in Session /\ b.state = "revoked"
                /\ b.user = a.user /\ b.since = a.since /\ b.overtaken = a.overtaken /\ b.idle = a.idle
         /\ LET b == [a EXCEPT !.idle = 0]
            IN  /\ b \in Session /\ b.state = a.state
                /\ b.user = a.user /\ b.since = a.since /\ b.overtaken = a.overtaken /\ b.idle = 0
BY TimesAssumption DEF Session, IdleAges

LEMMA RotatedIs ==
  ASSUME NEW a \in Session, a.token < MaxUses
  PROVE  LET b == [a EXCEPT !.token = @ + 1, !.idle = 0]
         IN  /\ b \in Session /\ b.state = a.state
             /\ b.user = a.user /\ b.since = a.since /\ b.overtaken = a.overtaken /\ b.idle = 0
<1>1. a.token + 1 \in 0 .. MaxUses /\ 0 \in IdleAges
  BY AccessBounds, TimesAssumption DEF Session, IdleAges
<1> QED
  BY <1>1 DEF Session

LEMMA OlderIs ==
  ASSUME NEW age \in IdleAges
  PROVE  /\ Older(age, Idle + 1) \in IdleAges
         /\ \A other \in IdleAges : age <= other => Older(age, Idle + 1) <= Older(other, Idle + 1)
BY TimesAssumption DEF Older, IdleAges

LEMMA TickedIs ==
  ASSUME NEW a \in Session
  PROVE  LET b == [a EXCEPT !.idle = Older(@, Idle + 1), !.left = Less(@)]
         IN  /\ b \in Session /\ b.state = a.state
             /\ b.user = a.user /\ b.since = a.since /\ b.overtaken = a.overtaken
             /\ b.idle = Older(a.idle, Idle + 1)
<1>1. Older(a.idle, Idle + 1) \in IdleAges
  BY OlderIs DEF Session
<1>2. Less(a.left) \in 0 .. Absolute
  BY TimesAssumption DEF Session, Less
<1> QED
  BY <1>1, <1>2 DEF Session

\* What becomes of a session in a step that does not create it.
Keeps(old, new) ==
  /\ new \in Session
  /\ new.state = old.state \/ new.state = "revoked"
  /\ new.user = old.user /\ new.since = old.since /\ new.overtaken = old.overtaken
  /\ new.idle \in {old.idle, 0}

LEMMA KeptOnes ==
  ASSUME TypeOK, NEW a \in Session
  PROVE  /\ Keeps(a, a) /\ Keeps(a, [a EXCEPT !.state = "revoked"]) /\ Keeps(a, [a EXCEPT !.idle = 0])
         /\ Keeps(a, Ended(a))
BY SessionIs DEF Keeps, Ended

\* The steps that write to a session.
LEMMA SessionMoves ==
  ASSUME [Next]_vars
  PROVE  \/ UNCHANGED session
         \/ Tick
         \/ \E r \in Requests, s \in Sessions : CreateSession(r, s)
         \/ \E r \in Requests : ExpireIdle(r) \/ Touch(r) \/ Logout(r) \/ ChangeOwnPassword(r)
         \/ \E r \in Requests, s \in Sessions : RevokeSessionById(r, s)
         \/ \E r \in Requests, u \in Users : RevokeUserSessions(r, u)
         \/ \E r \in Requests : RotateSession(r)
<1>1. ASSUME NEW r \in Requests, Proceed(r)
      PROVE  \/ UNCHANGED session
             \/ \E s \in Sessions : CreateSession(r, s)
             \/ ExpireIdle(r) \/ Touch(r) \/ Logout(r) \/ ChangeOwnPassword(r)
  BY <1>1 DEF Proceed, CreateOwner, BootstrapFails, RecordRefused, RecordFailed, VerifyPassword,
     VerifyCode, Answer
<1>2. ASSUME NEW r \in Requests, Handle(r)
      PROVE  \/ UNCHANGED session
             \/ \E s \in Sessions : RevokeSessionById(r, s)
             \/ \E u \in Users : RevokeUserSessions(r, u)
             \/ RotateSession(r)
  BY <1>2 DEF Handle, StartChange, SetPassword, CreateAccessCode, RevokeAccessCode,
     RotateAccessCode, CreateApiKey, RevokeApiKey
<1> QED
  BY <1>1, <1>2 DEF Next, StartBootstrap, StartLogin, StartRequest, StartLogout, Deactivate, ApiCall, vars

LEMMA SessionNext ==
  ASSUME Sound, [Next]_vars
  PROVE  /\ session' \in [Sessions -> Session]
         /\ \A s \in Sessions :
              \/ Keeps(session[s], session'[s])
              \/ Tick
              \/ \E r \in Requests : CreateSession(r, s)
<1>0. TypeOK /\ session \in [Sessions -> Session] /\ \A s \in Sessions : session[s] \in Session
  BY DEF Sound, TypeOK
<1>1. CASE UNCHANGED session
  BY <1>0, <1>1, KeptOnes
<1>2. CASE Tick
  BY <1>0, <1>2, TickedIs DEF Tick
<1>3. ASSUME NEW r \in Requests, NEW s \in Sessions, CreateSession(r, s)
      PROVE  /\ session' \in [Sessions -> Session]
             /\ \A q \in Sessions : Keeps(session[q], session'[q]) \/ q = s
  <2> DEFINE row == [state |-> "live", user |-> req[r].user, token |-> 0, idle |-> 0,
                     left |-> Absolute, since |-> req[r].since, overtaken |-> req[r].overtaken]
  <2>1. /\ req[r].user \in Users
        /\ req[r].since \in 0 .. MaxChanges /\ req[r].overtaken \in 0 .. MaxChanges
    BY <1>3 DEF CreateSession, Sound, Owned, ActsFor, Known, TypeOK, Request
  <2>2. row \in Session
    BY <2>1, TimesAssumption, AccessBounds DEF Session, IdleAges
  <2>3. session' = [session EXCEPT ![s] = row]
    BY <1>3 DEF CreateSession
  <2> HIDE DEF row
  <2> QED
    BY <1>0, <2>2, <2>3, KeptOnes
<1>4. ASSUME NEW s, NEW row, session' = [session EXCEPT ![s] = row],
             s \in Sessions => Keeps(session[s], row)
      PROVE  session' \in [Sessions -> Session] /\ \A q \in Sessions : Keeps(session[q], session'[q])
  <2>1. s \in Sessions => row \in Session
    BY <1>4 DEF Keeps
  <2>2. ASSUME NEW q \in Sessions PROVE Keeps(session[q], session'[q])
    <3>1. CASE q = s
      BY <1>0, <1>4, <3>1
    <3>2. CASE q # s
      <4>1. session'[q] = session[q]
        BY <1>0, <1>4, <3>2
      <4> QED
        BY <1>0, <4>1, KeptOnes
    <3> QED
      BY <3>1, <3>2
  <2> QED
    BY <1>0, <1>4, <2>1, <2>2
<1>5. ASSUME NEW s, Revoked(s)
      PROVE  session' \in [Sessions -> Session] /\ \A q \in Sessions : Keeps(session[q], session'[q])
  <2> DEFINE row == [session[s] EXCEPT !.state = "revoked"]
  <2>1. session' = [session EXCEPT ![s] = row]
    BY <1>5 DEF Revoked
  <2>2. s \in Sessions => Keeps(session[s], row)
    BY <1>0, KeptOnes
  <2> HIDE DEF row
  <2> QED
    BY <1>4, <2>1, <2>2
<1>6. ASSUME NEW r \in Requests, Touch(r)
      PROVE  session' \in [Sessions -> Session] /\ \A q \in Sessions : Keeps(session[q], session'[q])
  <2> DEFINE s == req[r].session
             row == [session[s] EXCEPT !.idle = 0]
  <2>1. session' = [session EXCEPT ![s] = row]
    BY <1>6 DEF Touch
  <2>2. s \in Sessions => Keeps(session[s], row)
    BY <1>0, KeptOnes
  <2> HIDE DEF row, s
  <2> QED
    BY <1>4, <2>1, <2>2
<1>7. ASSUME NEW u, SessionsEnded(u)
      PROVE  session' \in [Sessions -> Session] /\ \A q \in Sessions : Keeps(session[q], session'[q])
  <2>1. \A q \in Sessions : session'[q] \in {session[q], Ended(session[q])} /\ Keeps(session[q], session'[q])
    BY <1>0, <1>7, KeptOnes DEF SessionsEnded
  <2>2. session' = [q \in Sessions |-> session'[q]]
    BY <1>7 DEF SessionsEnded
  <2> QED
    BY <2>1, <2>2 DEF Keeps
<1>8. ASSUME NEW r \in Requests, RotateSession(r)
      PROVE  session' \in [Sessions -> Session] /\ \A q \in Sessions : Keeps(session[q], session'[q])
  <2> DEFINE s == req[r].session
             row == [session[s] EXCEPT !.token = @ + 1, !.idle = 0]
  <2>1. CASE s \in Sessions
    <3>1. session' = [session EXCEPT ![s] = row] /\ session[s].token < MaxUses
      BY <1>0, <1>8, <2>1 DEF RotateSession
    <3>2. Keeps(session[s], row)
      BY <1>0, <2>1, <3>1, RotatedIs DEF Keeps
    <3> HIDE DEF row, s
    <3> QED
      BY <1>4, <3>1, <3>2
  <2>2. CASE s \notin Sessions
    <3>1. session' = session
      BY <1>0, <1>8, <2>2 DEF RotateSession
    <3> QED
      BY <1>0, <3>1, KeptOnes
  <2> QED
    BY <2>1, <2>2
<1>9. ASSUME NEW r \in Requests, ExpireIdle(r) \/ Logout(r) \/ ChangeOwnPassword(r)
      PROVE  session' \in [Sessions -> Session] /\ \A q \in Sessions : Keeps(session[q], session'[q])
  BY <1>5, <1>7, <1>9 DEF ExpireIdle, Logout, ChangeOwnPassword
<1>10. ASSUME NEW r \in Requests, NEW s \in Sessions, RevokeSessionById(r, s)
       PROVE  session' \in [Sessions -> Session] /\ \A q \in Sessions : Keeps(session[q], session'[q])
  BY <1>5, <1>10 DEF RevokeSessionById
<1>11. ASSUME NEW r \in Requests, NEW u \in Users, RevokeUserSessions(r, u)
       PROVE  session' \in [Sessions -> Session] /\ \A q \in Sessions : Keeps(session[q], session'[q])
  BY <1>7, <1>11 DEF RevokeUserSessions
<1> QED
  BY <1>1, <1>2, <1>3, <1>6, <1>8, <1>9, <1>10, <1>11, SessionMoves

-----------------------------------------------------------------------------
(* Access codes, API keys and the ledger of failed attempts. *)

\* The steps that write to an access code.
LEMMA CodeMoves ==
  ASSUME [Next]_vars
  PROVE  \/ UNCHANGED code
         \/ Tick
         \/ \E r \in Requests, c \in Codes, password \in 0 .. 1 : CreateOwner(r, c, password)
         \/ \E r \in Requests, c \in Codes : CreateAccessCode(r, c) \/ RevokeAccessCode(r, c)
         \/ \E r \in Requests, old, new \in Codes : RotateAccessCode(r, old, new)
<1>1. ASSUME NEW r \in Requests, Proceed(r)
      PROVE  UNCHANGED code \/ \E c \in Codes, password \in 0 .. 1 : CreateOwner(r, c, password)
  BY <1>1 DEF Proceed, BootstrapFails, RecordRefused, RecordFailed, VerifyPassword, VerifyCode,
     CreateSession, ExpireIdle, Touch, Answer, Logout, ChangeOwnPassword
<1>2. ASSUME NEW r \in Requests, Handle(r)
      PROVE  \/ UNCHANGED code
             \/ \E c \in Codes : CreateAccessCode(r, c) \/ RevokeAccessCode(r, c)
             \/ \E old, new \in Codes : RotateAccessCode(r, old, new)
  BY <1>2 DEF Handle, RevokeSessionById, RevokeUserSessions, RotateSession, StartChange,
     SetPassword, CreateApiKey, RevokeApiKey
<1> QED
  BY <1>1, <1>2 DEF Next, StartBootstrap, StartLogin, StartRequest, StartLogout, Deactivate, ApiCall, vars

\* The writes to a credential.
LEMMA CredentialIs ==
  ASSUME NEW a \in Credential
  PROVE  /\ LET b == [a EXCEPT !.state = "revoked"]
            IN  b \in Credential /\ b.state = "revoked"
         /\ LET b == [a EXCEPT !.left = Less(@)]
            IN  b \in Credential /\ b.state = a.state /\ b.creator = a.creator
         /\ \A u \in Users : /\ Issued(u) \in Credential /\ Issued(u).creator = u
                            /\ LET b == [Issued(u) EXCEPT !.left = a.left]
                               IN  b \in Credential /\ b.creator = u
<1>1. Less(a.left) \in 0 .. Validity /\ Validity \in 0 .. Validity
  BY TimesAssumption DEF Credential, Less
<1> QED
  BY <1>1 DEF Credential, Issued

LEMMA CodeNext ==
  ASSUME Sound, [Next]_vars
  PROVE  /\ code' \in [Codes -> Credential]
         /\ (\A c \in Codes : code[c].state = "live" => Known(code[c].creator))'
<1>0. /\ code \in [Codes -> Credential] /\ \A c \in Codes : code[c] \in Credential
      /\ \A c \in Codes : code[c].state = "live" => Known(code[c].creator)
  BY DEF Sound, TypeOK, Owned
<1>k. \A u \in Users : user[u].exists => user'[u].exists
  BY UserNext
<1>1. CASE UNCHANGED code
  BY <1>0, <1>1, <1>k DEF Known
<1>2. CASE Tick
  <2>1. \A c \in Codes : /\ code'[c] \in Credential
                         /\ code'[c].state = code[c].state /\ code'[c].creator = code[c].creator
    BY <1>0, <1>2, CredentialIs DEF Tick
  <2>2. code' = [c \in Codes |-> code'[c]]
    BY <1>2 DEF Tick
  <2> QED
    BY <1>0, <1>k, <2>1, <2>2 DEF Known
<1>3. ASSUME NEW c \in Codes, NEW row \in Credential, code' = [code EXCEPT ![c] = row],
             row.state = "live" => row.creator \in Users /\ user'[row.creator].exists
      PROVE  /\ code' \in [Codes -> Credential]
             /\ (\A d \in Codes : code[d].state = "live" => Known(code[d].creator))'
  BY <1>0, <1>3, <1>k DEF Known
<1>4. ASSUME NEW r \in Requests, NEW c \in Codes, NEW password \in 0 .. 1, CreateOwner(r, c, password)
      PROVE  /\ code' \in [Codes -> Credential]
             /\ (\A d \in Codes : code[d].state = "live" => Known(code[d].creator))'
  <2> DEFINE row == [state |-> "live", left |-> Validity, creator |-> Owner]
  <2>1. code' = [code EXCEPT ![c] = row]
    BY <1>4 DEF CreateOwner
  <2>2. row \in Credential /\ row.creator = Owner
    BY NullAssumption, TimesAssumption DEF Credential
  <2>3. Owner \in Users /\ user'[Owner].exists
    <3>1. user \in [Users -> User] /\ Owner \in Users /\ user[Owner] \in User
      BY NullAssumption DEF Sound, TypeOK
    <3>2. user'[Owner] = [user[Owner] EXCEPT !.exists = TRUE, !.password = password]
      BY <1>4, <3>1 DEF CreateOwner
    <3> QED
      BY <3>1, <3>2 DEF User
  <2> HIDE DEF row
  <2> QED
    BY <1>3, <2>1, <2>2, <2>3
<1>5. ASSUME NEW r \in Requests, NEW c \in Codes, CreateAccessCode(r, c)
      PROVE  /\ code' \in [Codes -> Credential]
             /\ (\A d \in Codes : code[d].state = "live" => Known(code[d].creator))'
  <2>1. code' = [code EXCEPT ![c] = Issued(req[r].user)] /\ Known(req[r].user)
    BY <1>5 DEF CreateAccessCode, Admitted, Sound, Owned, ActsFor
  <2>2. Issued(req[r].user) \in Credential /\ Issued(req[r].user).creator = req[r].user
    BY <1>0, <2>1, CredentialIs DEF Known
  <2> QED
    BY <1>3, <1>k, <2>1, <2>2 DEF Known
<1>6. ASSUME NEW r \in Requests, NEW c \in Codes, RevokeAccessCode(r, c)
      PROVE  /\ code' \in [Codes -> Credential]
             /\ (\A d \in Codes : code[d].state = "live" => Known(code[d].creator))'
  <2> DEFINE row == [code[c] EXCEPT !.state = "revoked"]
  <2>1. code' = [code EXCEPT ![c] = row]
    BY <1>6 DEF RevokeAccessCode
  <2>2. row \in Credential /\ row.state = "revoked"
    BY <1>0, CredentialIs
  <2> HIDE DEF row
  <2> QED
    BY <1>3, <2>1, <2>2
<1>7. ASSUME NEW r \in Requests, NEW old \in Codes, NEW new \in Codes, RotateAccessCode(r, old, new)
      PROVE  /\ code' \in [Codes -> Credential]
             /\ (\A d \in Codes : code[d].state = "live" => Known(code[d].creator))'
  <2> DEFINE u == req[r].user
             replaced == [code[old] EXCEPT !.state = "revoked"]
             row == [Issued(u) EXCEPT !.left = code[old].left]
  <2>1. Known(u)
    BY <1>7 DEF RotateAccessCode, Admitted, Sound, Owned, ActsFor
  <2>2. code' = [code EXCEPT ![old] = replaced, ![new] = row] /\ old # new
    BY <1>7 DEF RotateAccessCode
  <2>3. replaced \in Credential /\ replaced.state = "revoked"
    BY <1>0, CredentialIs
  <2>4. row \in Credential /\ row.creator = u
    BY <1>0, <2>1, CredentialIs DEF Known
  <2> HIDE DEF u, replaced, row
  <2>5. /\ code' \in [Codes -> Credential] /\ code'[old] = replaced /\ code'[new] = row
        /\ \A d \in Codes \ {old, new} : code'[d] = code[d]
    BY <1>0, <2>2, <2>3, <2>4
  <2> QED
    BY <1>0, <1>k, <2>1, <2>3, <2>4, <2>5 DEF Known
<1> QED
  BY <1>1, <1>2, <1>4, <1>5, <1>6, <1>7, CodeMoves

\* The steps that write to an API key.
LEMMA KeyMoves ==
  ASSUME [Next]_vars
  PROVE  \/ UNCHANGED key
         \/ Tick
         \/ \E r \in Requests, k \in Keys : CreateApiKey(r, k) \/ RevokeApiKey(r, k)
<1>1. ASSUME NEW r \in Requests, Proceed(r) PROVE UNCHANGED key
  BY <1>1 DEF Proceed, CreateOwner, BootstrapFails, RecordRefused, RecordFailed, VerifyPassword,
     VerifyCode, CreateSession, ExpireIdle, Touch, Answer, Logout, ChangeOwnPassword
<1>2. ASSUME NEW r \in Requests, Handle(r)
      PROVE  UNCHANGED key \/ \E k \in Keys : CreateApiKey(r, k) \/ RevokeApiKey(r, k)
  BY <1>2 DEF Handle, RevokeSessionById, RevokeUserSessions, RotateSession, StartChange,
     SetPassword, CreateAccessCode, RevokeAccessCode, RotateAccessCode
<1> QED
  BY <1>1, <1>2 DEF Next, StartBootstrap, StartLogin, StartRequest, StartLogout, Deactivate, ApiCall, vars

LEMMA KeyNext == Sound /\ [Next]_vars => key' \in [Keys -> Credential]
<1> SUFFICES ASSUME Sound, [Next]_vars PROVE key' \in [Keys -> Credential]
  OBVIOUS
<1>0. key \in [Keys -> Credential] /\ \A k \in Keys : key[k] \in Credential
  BY DEF Sound, TypeOK
<1>1. CASE Tick
  BY <1>0, <1>1, CredentialIs DEF Tick
<1>2. ASSUME NEW r \in Requests, NEW k \in Keys, CreateApiKey(r, k)
      PROVE  key' \in [Keys -> Credential]
  <2>1. key' = [key EXCEPT ![k] = Issued(req[r].user)] /\ req[r].user \in Users
    BY <1>2 DEF CreateApiKey, Admitted, Sound, Owned, ActsFor, Known
  <2> QED
    BY <1>0, <2>1, CredentialIs
<1>3. ASSUME NEW r \in Requests, NEW k \in Keys, RevokeApiKey(r, k)
      PROVE  key' \in [Keys -> Credential]
  <2> DEFINE row == [key[k] EXCEPT !.state = "revoked"]
  <2>1. key' = [key EXCEPT ![k] = row]
    BY <1>3 DEF RevokeApiKey
  <2>2. row \in Credential
    BY <1>0, CredentialIs
  <2> HIDE DEF row
  <2> QED
    BY <1>0, <2>1, <2>2
<1> QED
  BY <1>0, <1>1, <1>2, <1>3, KeyMoves

\* What one attempt more makes of a count.
LEMMA OneMoreIs ==
  ASSUME NEW f \in Failures
  PROVE  /\ OneRefused(f) \in Failures /\ OneRefused(f).bad = f.bad
         /\ OneBad(f) \in Failures /\ OneBad(f).bad = f.bad + 1
<1> DEFINE n == IF f.refused < MaxAttempts THEN f.refused + 1 ELSE f.refused
<1>1. n \in 0 .. MaxAttempts
  BY TimesAssumption DEF Failures
<1>2. OneRefused(f) = [f EXCEPT !.refused = n] /\ OneBad(f) = [f EXCEPT !.bad = f.bad + 1]
  BY DEF OneRefused, OneBad, Failures
<1> HIDE DEF n
<1> QED
  BY <1>1, <1>2 DEF Failures

\* The steps that write to the ledger.
LEMMA LedgerMoves ==
  ASSUME [Next]_vars
  PROVE  UNCHANGED ledger \/ Tick \/ \E r \in Requests : RecordRefused(r) \/ RecordFailed(r)
<1>1. ASSUME NEW r \in Requests, Proceed(r)
      PROVE  UNCHANGED ledger \/ RecordRefused(r) \/ RecordFailed(r)
  BY <1>1 DEF Proceed, CreateOwner, BootstrapFails, VerifyPassword, VerifyCode, CreateSession,
     ExpireIdle, Touch, Answer, Logout, ChangeOwnPassword
<1>2. ASSUME NEW r \in Requests, Handle(r) PROVE UNCHANGED ledger
  BY <1>2 DEF Handle, RevokeSessionById, RevokeUserSessions, RotateSession, StartChange,
     SetPassword, CreateAccessCode, RevokeAccessCode, RotateAccessCode, CreateApiKey, RevokeApiKey
<1> QED
  BY <1>1, <1>2 DEF Next, StartBootstrap, StartLogin, StartRequest, StartLogout, Deactivate, ApiCall, vars

LEMMA LedgerNext == Sound /\ [Next]_vars => ledger' \in [Identifiers -> [Ages -> Failures]]
<1> SUFFICES ASSUME Sound, [Next]_vars PROVE ledger' \in [Identifiers -> [Ages -> Failures]]
  OBVIOUS
<1>0. /\ ledger \in [Identifiers -> [Ages -> Failures]]
      /\ \A i \in Identifiers, a \in Ages : ledger[i][a] \in Failures
  BY DEF Sound, TypeOK
<1>1. CASE Tick
  <2>1. ASSUME NEW i \in Identifiers PROVE Aged(ledger[i]) \in [Ages -> Failures]
    <3>1. [bad |-> 0, refused |-> 0] \in Failures
      BY TimesAssumption DEF Failures
    <3>2. \A a \in Ages : a = 0 \/ a - 1 \in Ages
      BY TimesAssumption DEF Ages
    <3> QED
      BY <1>0, <3>1, <3>2 DEF Aged
  <2> QED
    BY <1>1, <2>1 DEF Tick
<1>2. ASSUME NEW r \in Requests, RecordRefused(r)
      PROVE  ledger' \in [Identifiers -> [Ages -> Failures]]
  <2>1. req[r].id \in Identifiers
    BY <1>2 DEF RecordRefused, Sound, Owned, ActsFor
  <2>2. [a \in Ages |-> OneRefused(ledger[req[r].id][a])] \in [Ages -> Failures]
    BY <1>0, <2>1, OneMoreIs
  <2>3. ledger' = [ledger EXCEPT ![req[r].id] = [a \in Ages |-> OneRefused(ledger[req[r].id][a])]]
    BY <1>2 DEF RecordRefused
  <2> QED
    BY <1>0, <2>2, <2>3
<1>3. ASSUME NEW r \in Requests, RecordFailed(r)
      PROVE  ledger' \in [Identifiers -> [Ages -> Failures]]
  <2>1. req[r].id \in Identifiers
    BY <1>3 DEF RecordFailed, Sound, Owned, ActsFor
  <2>2. [a \in Ages |-> OneBad(ledger[req[r].id][a])] \in [Ages -> Failures]
    BY <1>0, <2>1, OneMoreIs
  <2>3. ledger' = [ledger EXCEPT ![req[r].id] = [a \in Ages |-> OneBad(ledger[req[r].id][a])]]
    BY <1>3 DEF RecordFailed
  <2> QED
    BY <1>0, <2>2, <2>3
<1> QED
  BY <1>0, <1>1, <1>2, <1>3, LedgerMoves

-----------------------------------------------------------------------------
(* Requests, and the remaining variables. *)

\* What each step does to the requests: one of them ends, starts or goes on.
LEMMA ReqMoves ==
  ASSUME [Next]_vars
  PROVE  \/ UNCHANGED req
         \/ \E r \in Requests :
              \/ End(r) /\ req[r].step \notin {"free", "touch"}
              \/ StartBootstrap(r) \/ Touch(r) \/ VerifyCode(r) \/ StartChange(r)
              \/ ChangeOwnPassword(r)
              \/ \E i \in Identifiers : StartLogin(r, i)
              \/ \E right \in BOOLEAN : VerifyPassword(r, right)
              \/ \E s \in Sessions, token \in 0 .. MaxUses : StartRequest(r, s, token)
              \/ \E s \in Sessions : StartLogout(r, s)
<1>1. ASSUME NEW r \in Requests, Proceed(r)
      PROVE  \/ End(r) /\ req[r].step \notin {"free", "touch"}
             \/ Touch(r) \/ VerifyCode(r) \/ ChangeOwnPassword(r)
             \/ \E right \in BOOLEAN : VerifyPassword(r, right)
  BY <1>1 DEF Proceed, CreateOwner, BootstrapFails, RecordRefused, RecordFailed, CreateSession,
     ExpireIdle, Answer, Logout
<1>2. ASSUME NEW r \in Requests, Handle(r)
      PROVE  (End(r) /\ req[r].step \notin {"free", "touch"}) \/ StartChange(r)
  BY <1>2 DEF Handle, Admitted, RevokeSessionById, RevokeUserSessions, RotateSession, SetPassword,
     CreateAccessCode, RevokeAccessCode, RotateAccessCode, CreateApiKey, RevokeApiKey
<1>3. ASSUME NEW r \in Requests, Proceed(r) \/ Handle(r)
      PROVE  \/ End(r) /\ req[r].step \notin {"free", "touch"}
             \/ Touch(r) \/ VerifyCode(r) \/ StartChange(r) \/ ChangeOwnPassword(r)
             \/ \E right \in BOOLEAN : VerifyPassword(r, right)
  BY <1>1, <1>2, <1>3
<1> QED
  BY <1>3 DEF Next, Tick, Deactivate, ApiCall, vars

\* A touch on its way is delivered.
LEMMA TouchStays ==
  ASSUME TypeOK, [Next]_vars, NEW r \in Requests, req[r].step = "touch", req'[r] # req[r]
  PROVE  Touch(r)
<1>0. req \in [Requests -> Request]
  BY DEF TypeOK
<1> QED
  BY ZenonT(60), <1>0, ReqMoves DEF End, Goto, Verified, StartBootstrap, Touch, VerifyCode, StartLogout,
     StartChange, ChangeOwnPassword, Overtake, Admitted, StartLogin, VerifyPassword, StartRequest

\* A change is among the changes that there can be.
LEMMA CountedChange ==
  ASSUME Sound, NEW r \in Requests, ChangeOwnPassword(r)
  PROVE  Known(req[r].user) /\ user[req[r].user].changed + 1 \in 0 .. MaxChanges
<1>1. Known(req[r].user)
  BY DEF ChangeOwnPassword, Sound, Owned, ActsFor
<1>2. user[req[r].user] \in User /\ user[req[r].user].changed <= user[req[r].user].password
  BY <1>1 DEF Known, Sound, TypeOK, Accounts
<1>3. user[req[r].user].password < MaxChanges
  BY DEF ChangeOwnPassword
<1> QED
  BY <1>1, <1>2, <1>3, AccessBounds DEF User

LEMMA ChangeOvertakes ==
  ASSUME Sound, NEW r \in Requests, ChangeOwnPassword(r), NEW u, u = req[r].user
  PROVE  /\ req' \in [Requests -> Request] /\ req'[r] = Free
         /\ \A q \in Requests \ {r} :
              /\ req'[q].step = req[q].step /\ req'[q].id = req[q].id
              /\ req'[q].user = req[q].user /\ req'[q].session = req[q].session
              /\ IF req[q].step = "login" /\ req[q].user = u THEN req'[q].overtaken = user[u].changed + 1
                 ELSE req'[q] = req[q]
<1>1. Overtake(r, u)
  BY DEF ChangeOwnPassword
<1>2. TypeOK /\ user[u].changed + 1 \in 0 .. MaxChanges
  BY CountedChange DEF Sound
<1> QED
  BY <1>1, <1>2, OvertakeIs

LEMMA ReqNext ==
  ASSUME Sound, [Next]_vars
  PROVE  req' \in [Requests -> Request] /\ \A r \in Requests : ActsFor(r)'
<1>0. /\ TypeOK /\ req \in [Requests -> Request]
      /\ \A r \in Requests : req[r] \in Request /\ ActsFor(r)
  BY DEF Sound, TypeOK, Owned
<1>k. \A u \in Users : user[u].exists => user'[u].exists
  BY UserNext
<1>1. CASE UNCHANGED req
  BY <1>0, <1>1, <1>k DEF ActsFor, Known
<1>2. ASSUME NEW r \in Requests, req' \in [Requests -> Request],
             \A q \in Requests \ {r} : req'[q] = req[q],
             req'[r].step \in {"login", "touch", "admitted", "change"} => Known(req'[r].user),
             req'[r].step \in {"refuse", "verify", "failed"} => req'[r].id \in Identifiers
      PROVE  \A q \in Requests : ActsFor(q)'
  BY <1>0, <1>2, <1>k DEF ActsFor, Known
<1>3. ASSUME NEW r \in Requests, End(r)
      PROVE  req' \in [Requests -> Request] /\ \A q \in Requests : ActsFor(q)'
  <2>1. /\ req' \in [Requests -> Request] /\ req'[r] = Free
        /\ \A q \in Requests \ {r} : req'[q] = req[q]
    BY <1>0, <1>3, EndIs
  <2> QED
    BY <1>2, <2>1, FreeIs
<1>4. ASSUME NEW r \in Requests, NEW step \in Steps, Goto(r, step),
             step \in {"login", "touch", "admitted", "change"} => Known(req[r].user),
             step \in {"refuse", "verify", "failed"} => req[r].id \in Identifiers
      PROVE  req' \in [Requests -> Request] /\ \A q \in Requests : ActsFor(q)'
  <2>1. /\ req' \in [Requests -> Request]
        /\ req'[r].step = step /\ req'[r].id = req[r].id /\ req'[r].user = req[r].user
        /\ \A q \in Requests \ {r} : req'[q] = req[q]
    BY <1>0, <1>4, GotoIs
  <2> QED
    BY <1>2, <1>4, <2>1
<1>5. ASSUME NEW r \in Requests, NEW q \in Request, req' = [req EXCEPT ![r] = q],
             q.step \in {"login", "touch", "admitted", "change"} => Known(q.user),
             q.step \in {"refuse", "verify", "failed"} => q.id \in Identifiers
      PROVE  req' \in [Requests -> Request] /\ \A p \in Requests : ActsFor(p)'
  BY <1>0, <1>2, <1>5
<1>6. ASSUME NEW r \in Requests, StartBootstrap(r) \/ Touch(r) \/ StartChange(r)
      PROVE  req' \in [Requests -> Request] /\ \A q \in Requests : ActsFor(q)'
  <2>1. {"bootstrap", "admitted", "change"} \subseteq Steps
    BY DEF Steps
  <2>2. ActsFor(r)
    BY <1>0
  <2> QED
    BY <1>3, <1>4, <1>6, <2>1, <2>2
    DEF StartBootstrap, Touch, StartChange, Admitted, ActsFor
<1>7. ASSUME NEW r \in Requests, NEW i \in Identifiers, StartLogin(r, i)
      PROVE  req' \in [Requests -> Request] /\ \A q \in Requests : ActsFor(q)'
  <2>1. PICK step \in {"refuse", "verify"} : req' = [req EXCEPT ![r] = [Free EXCEPT !.step = step, !.id = i]]
    BY <1>7 DEF StartLogin
  <2> DEFINE q == [Free EXCEPT !.step = step, !.id = i]
  <2>2. step \in Steps
    BY DEF Steps
  <2>3. q \in Request /\ q.step = step /\ q.id = i
    BY <2>2, FreeIs DEF Request
  <2>4. req' = [req EXCEPT ![r] = q]
    BY <2>1
  <2> HIDE DEF q
  <2> QED
    BY <1>5, <2>3, <2>4
<1>8. ASSUME NEW r \in Requests, NEW s \in Sessions, NEW token \in 0 .. MaxUses,
             StartRequest(r, s, token)
      PROVE  req' \in [Requests -> Request] /\ \A q \in Requests : ActsFor(q)'
  <2>1. CASE session[s].idle > Idle
    <3> DEFINE q == [Free EXCEPT !.step = "expire", !.session = s]
    <3>1. req' = [req EXCEPT ![r] = q]
      BY <1>8, <2>1 DEF StartRequest
    <3>2. q \in Request /\ q.step = "expire"
      BY FreeIs DEF Request, Steps
    <3> HIDE DEF q
    <3> QED
      BY <1>5, <3>1, <3>2
  <2>2. CASE ~(session[s].idle > Idle)
    <3>1. PICK step \in {"touch", "admitted"} :
            req' = [req EXCEPT ![r] = [Free EXCEPT !.step = step, !.user = session[s].user, !.session = s]]
      BY <1>8, <2>2 DEF StartRequest
    <3>2. PICK u \in Users : u = session[s].user /\ Known(u)
      BY <1>8 DEF StartRequest, Sound, Owned, Known
    <3> DEFINE q == [Free EXCEPT !.step = step, !.user = u, !.session = s]
    <3>3. step \in Steps
      BY DEF Steps
    <3>4. q \in Request /\ q.step = step /\ q.user = u
      BY <3>3, FreeIs DEF Request
    <3>5. req' = [req EXCEPT ![r] = q]
      BY <3>1, <3>2
    <3> HIDE DEF q
    <3> QED
      BY <1>5, <3>2, <3>4, <3>5
  <2> QED
    BY <2>1, <2>2
<1>9. ASSUME NEW r \in Requests, NEW u, Known(u), req[r].step = "verify",
             Verified(r, u) \/ Goto(r, "failed")
      PROVE  req' \in [Requests -> Request] /\ \A q \in Requests : ActsFor(q)'
  <2>1. CASE Goto(r, "failed")
    BY <1>0, <1>4, <1>9, <2>1 DEF Steps, ActsFor
  <2>2. CASE Verified(r, u)
    <3>2. u \in Users /\ req[r] \in Request
      BY <1>0, <1>9 DEF Known
    <3>4. PICK n \in 0 .. MaxChanges : n = user[u].changed
      BY <1>0, <3>2 DEF TypeOK, User
    <3> DEFINE q == [req[r] EXCEPT !.step = "login", !.user = u, !.since = n]
    <3>1. req' = [req EXCEPT ![r] = q]
      BY <2>2, <3>4 DEF Verified
    <3>3. q \in Request /\ q.step = "login" /\ q.user = u
      BY <3>2 DEF Request, Steps
    <3> HIDE DEF q
    <3> QED
      BY <1>5, <1>9, <3>1, <3>3
  <2> QED
    BY <1>9, <2>1, <2>2
<1>10. ASSUME NEW r \in Requests, NEW right \in BOOLEAN, VerifyPassword(r, right)
       PROVE  req' \in [Requests -> Request] /\ \A q \in Requests : ActsFor(q)'
  <2>1. CASE Goto(r, "failed")
    BY <1>0, <1>4, <1>10, <2>1 DEF VerifyPassword, Steps, ActsFor
  <2>2. CASE ~Goto(r, "failed")
    <3>1. Known(req[r].id) /\ req[r].step = "verify" /\ Verified(r, req[r].id)
      BY <1>10, <2>2 DEF VerifyPassword, Known
    <3> QED
      BY <1>9, <3>1
  <2> QED
    BY <2>1, <2>2
<1>11. ASSUME NEW r \in Requests, VerifyCode(r)
       PROVE  req' \in [Requests -> Request] /\ \A q \in Requests : ActsFor(q)'
  <2>1. CASE Goto(r, "failed")
    BY <1>0, <1>4, <1>11, <2>1 DEF VerifyCode, Steps, ActsFor
  <2>2. CASE ~Goto(r, "failed")
    <3> DEFINE u == code[req[r].id].creator
    <3>1. Known(u) /\ req[r].step = "verify" /\ Verified(r, u)
      BY <1>11, <2>2 DEF VerifyCode, Usable, Sound, Owned
    <3> QED
      BY <1>9, <3>1
  <2> QED
    BY <2>1, <2>2
<1>12. ASSUME NEW r \in Requests, ChangeOwnPassword(r)
       PROVE  req' \in [Requests -> Request] /\ \A q \in Requests : ActsFor(q)'
  <2>2. /\ req' \in [Requests -> Request] /\ req'[r] = Free
        /\ \A q \in Requests \ {r} :
             req'[q].step = req[q].step /\ req'[q].id = req[q].id /\ req'[q].user = req[q].user
    BY <1>12, ChangeOvertakes
  <2> QED
    BY <1>0, <1>k, <2>2, FreeIs DEF ActsFor, Known
<1>13. ASSUME NEW r \in Requests, NEW s \in Sessions, StartLogout(r, s)
       PROVE  req' \in [Requests -> Request] /\ \A q \in Requests : ActsFor(q)'
  <2> DEFINE q == [Free EXCEPT !.step = "logout", !.session = s]
  <2>1. req' = [req EXCEPT ![r] = q]
    BY <1>13 DEF StartLogout
  <2>2. q \in Request /\ q.step = "logout"
    BY FreeIs DEF Request, Steps
  <2> HIDE DEF q
  <2> QED
    BY <1>5, <2>1, <2>2
<1> QED
  BY <1>1, <1>3, <1>6, <1>7, <1>8, <1>10, <1>11, <1>12, <1>13, ReqMoves

\* The steps that write when a session was last used.
LEMMA UsedMoves ==
  ASSUME [Next]_vars
  PROVE  \/ UNCHANGED used
         \/ Tick
         \/ \E r \in Requests, s \in Sessions : CreateSession(r, s)
         \/ \E r \in Requests, s \in Sessions, token \in 0 .. MaxUses : StartRequest(r, s, token)
<1>1. ASSUME NEW r \in Requests, Proceed(r)
      PROVE  UNCHANGED used \/ \E s \in Sessions : CreateSession(r, s)
  BY <1>1 DEF Proceed, CreateOwner, BootstrapFails, RecordRefused, RecordFailed, VerifyPassword,
     VerifyCode, ExpireIdle, Touch, Answer, Logout, ChangeOwnPassword
<1>2. ASSUME NEW r \in Requests, Handle(r) PROVE UNCHANGED used
  BY <1>2 DEF Handle, RevokeSessionById, RevokeUserSessions, RotateSession, StartChange,
     SetPassword, CreateAccessCode, RevokeAccessCode, RotateAccessCode, CreateApiKey, RevokeApiKey
<1> QED
  BY <1>1, <1>2 DEF Next, StartBootstrap, StartLogin, StartLogout, Deactivate, ApiCall, vars

LEMMA UsedNext ==
  Sound /\ [Next]_vars => used' \in [Sessions -> IdleAges] /\ uses' \in 0 .. MaxUses
<1> SUFFICES ASSUME Sound, [Next]_vars
             PROVE  used' \in [Sessions -> IdleAges] /\ uses' \in 0 .. MaxUses
  OBVIOUS
<1>0. used \in [Sessions -> IdleAges] /\ uses \in 0 .. MaxUses /\ 0 \in IdleAges
  BY TimesAssumption DEF Sound, TypeOK, IdleAges
<1>1. used' \in [Sessions -> IdleAges]
  <2>1. CASE Tick
    BY <1>0, <2>1, OlderIs DEF Tick
  <2>2. ASSUME NEW r \in Requests, NEW s \in Sessions, CreateSession(r, s)
        PROVE  used' \in [Sessions -> IdleAges]
    BY <1>0, <2>2 DEF CreateSession
  <2>3. ASSUME NEW r \in Requests, NEW s \in Sessions, NEW token \in 0 .. MaxUses,
               StartRequest(r, s, token)
        PROVE  used' \in [Sessions -> IdleAges]
    BY <1>0, <2>3 DEF StartRequest
  <2> QED
    BY <1>0, <2>1, <2>2, <2>3, UsedMoves
<1>2. uses' = uses \/ (uses < MaxUses /\ uses' = uses + 1)
  <2>1. ASSUME NEW r \in Requests, Proceed(r) PROVE UNCHANGED uses
    BY <2>1 DEF Proceed, CreateOwner, BootstrapFails, RecordRefused, RecordFailed, VerifyPassword,
       VerifyCode, CreateSession, ExpireIdle, Touch, Answer, Logout, ChangeOwnPassword
  <2>2. ASSUME NEW r \in Requests, Handle(r) PROVE UNCHANGED uses
    BY <2>2 DEF Handle, RevokeSessionById, RevokeUserSessions, RotateSession,
       StartChange, SetPassword, CreateAccessCode, RevokeAccessCode, RotateAccessCode,
       CreateApiKey, RevokeApiKey
  <2>3. ASSUME NEW operation, Use(operation) PROVE uses < MaxUses /\ uses' = uses + 1
    BY <2>3 DEF Use
  <2>4. ASSUME NEW r \in Requests, StartBootstrap(r) PROVE UNCHANGED uses
    BY <2>4 DEF StartBootstrap
  <2>5. ASSUME \/ \E r \in Requests, i \in Identifiers : StartLogin(r, i)
               \/ \E r \in Requests, s \in Sessions, token \in 0 .. MaxUses : StartRequest(r, s, token)
               \/ \E r \in Requests, s \in Sessions : StartLogout(r, s)
               \/ \E u \in Users : Deactivate(u)
               \/ \E k \in Keys : ApiCall(k)
        PROVE  uses < MaxUses /\ uses' = uses + 1
    BY <2>3, <2>5 DEF StartLogin, StartRequest, StartLogout, Deactivate, ApiCall
  <2>6. Tick => UNCHANGED uses
    BY DEF Tick
  <2> QED
    BY <2>1, <2>2, <2>4, <2>5, <2>6 DEF Next, vars
<1> QED
  BY <1>0, <1>1, <1>2, AccessBounds

LEMMA SoundNext == Sound /\ [Next]_vars => Sound'
<1> SUFFICES ASSUME Sound, [Next]_vars PROVE Sound'
  OBVIOUS
<1>1. TypeOK'
  BY UserNext, SessionNext, CodeNext, KeyNext, LedgerNext, ReqNext, UsedNext DEF TypeOK
<1>2. ASSUME NEW s \in Sessions, session'[s].state = "live"
      PROVE  session'[s].user \in Users /\ user'[session'[s].user].exists
  <2>0. \A u \in Users : user[u].exists => user'[u].exists
    BY UserNext
  <2>1. CASE Keeps(session[s], session'[s])
    BY <1>2, <2>0, <2>1 DEF Keeps, Sound, Owned, Known
  <2>2. CASE Tick
    <3>1. session[s] \in Session
      BY DEF Sound, TypeOK
    <3>2. session'[s].state = session[s].state /\ session'[s].user = session[s].user
      BY <2>2, <3>1, TickedIs DEF Tick
    <3> QED
      BY <1>2, <2>0, <3>2 DEF Sound, Owned, Known
  <2>3. ASSUME NEW r \in Requests, CreateSession(r, s)
        PROVE  session'[s].user \in Users /\ user'[session'[s].user].exists
    <3>1. Known(req[r].user)
      BY <2>3 DEF CreateSession, Sound, Owned, ActsFor
    <3>2. session'[s].user = req[r].user
      BY <2>3 DEF CreateSession, Sound, TypeOK
    <3> QED
      BY <2>0, <3>1, <3>2 DEF Known
  <2> QED
    BY <2>1, <2>2, <2>3, SessionNext
<1>3. Owned'
  BY <1>2, CodeNext, ReqNext DEF Owned, Known
<1> QED
  BY <1>1, <1>3, UserNext DEF Sound

\* Every row and every request in progress has its shape, for any number of them.
THEOREM TypeCorrect == Spec => []TypeOK
<1>1. Sound => TypeOK
  BY DEF Sound
<1> QED
  BY SoundInit, SoundNext, <1>1, PTL DEF Spec

-----------------------------------------------------------------------------
(* What is alive of the sessions of an account are those that its last     *)
(* password change did not find.                                           *)

\* A login that goes on has seen the last change of its account, or that change has overtaken it.
InFlight ==
  \A r \in Requests :
    req[r].step = "login" => user[req[r].user].changed \in {req[r].since, req[r].overtaken}

LEMMA EntitledInit == Init => InFlight /\ SessionsAreEntitled
<1> SUFFICES ASSUME Init PROVE InFlight /\ SessionsAreEntitled
  OBVIOUS
<1>1. ASSUME NEW s \in Sessions
      PROVE  session[s].state = "none" /\ session[s].idle = 0 /\ used[s] = 0
  BY DEF Init, NoRow
<1>2. ASSUME NEW r \in Requests PROVE req[r].step = "free"
  BY FreeIs DEF Init
<1> QED
  BY <1>1, <1>2 DEF InFlight, SessionsAreEntitled, ChangeEndsSessions, IdleMeansUnused

\* A step leaves the changes of an account alone, or is the change.
LEMMA ChangedOnce ==
  ASSUME Sound, [Next]_vars, NEW u \in Users, ~\E r \in Requests : ChangeOwnPassword(r) /\ req[r].user = u
  PROVE  user'[u].changed = user[u].changed
BY ChangedMoves

LEMMA ChangedBy ==
  ASSUME Sound, NEW r \in Requests, ChangeOwnPassword(r)
  PROVE  user'[req[r].user].changed = user[req[r].user].changed + 1
<1> DEFINE u == req[r].user
<1>1. u \in Users /\ user \in [Users -> User] /\ user[u] \in User
  BY CountedChange DEF Known, Sound, TypeOK
<1>2. user' = [user EXCEPT ![u].password = @ + 1, ![u].changed = @ + 1]
  BY DEF ChangeOwnPassword
<1> HIDE DEF u
<1>3. user'[u].changed = user[u].changed + 1
  BY <1>1, <1>2 DEF User
<1> QED
  BY <1>3 DEF u

\* A request that is found in the step "login" was in it before, or has verified just now.
LEMMA LoginMoves ==
  ASSUME Sound, [Next]_vars, NEW r \in Requests, req'[r].step = "login"
  PROVE  \/ req'[r] = req[r]
         \/ \E u \in Users : Verified(r, u) /\ UNCHANGED user
         \/ \E q \in Requests \ {r} : ChangeOwnPassword(q) /\ req[r].step = "login"
<1>0. TypeOK /\ req \in [Requests -> Request] /\ req[r] \in Request
  BY DEF Sound, TypeOK
<1>1. ASSUME NEW q \in Requests, End(q) PROVE req'[r] = req[r]
  BY <1>0, <1>1, EndIs, FreeIs
<1>2. ASSUME NEW q \in Requests, NEW step \in Steps, Goto(q, step), step # "login" PROVE req'[r] = req[r]
  BY <1>0, <1>2, GotoIs
<1>3. ASSUME NEW q \in Requests, StartBootstrap(q) \/ Touch(q) \/ StartChange(q) PROVE req'[r] = req[r]
  BY <1>2, <1>3 DEF StartBootstrap, Touch, StartChange, Steps
<1>4. ASSUME NEW q \in Requests, NEW row, row.step # "login", req' = [req EXCEPT ![q] = row]
      PROVE  req'[r] = req[r]
  BY <1>0, <1>4
<1>5. ASSUME NEW q \in Requests, NEW i \in Identifiers, StartLogin(q, i) PROVE req'[r] = req[r]
  <2>1. PICK step \in {"refuse", "verify"} : req' = [req EXCEPT ![q] = [Free EXCEPT !.step = step, !.id = i]]
    BY <1>5 DEF StartLogin
  <2>2. [Free EXCEPT !.step = step, !.id = i].step = step
    BY DEF Free
  <2> QED
    BY <1>4, <2>1, <2>2
<1>6. ASSUME NEW q \in Requests, NEW s \in Sessions, NEW token \in 0 .. MaxUses, StartRequest(q, s, token)
      PROVE  req'[r] = req[r]
  <2>1. CASE session[s].idle > Idle
    <3>1. req' = [req EXCEPT ![q] = [Free EXCEPT !.step = "expire", !.session = s]]
      BY <1>6, <2>1 DEF StartRequest
    <3>2. [Free EXCEPT !.step = "expire", !.session = s].step = "expire"
      BY DEF Free
    <3> QED
      BY <1>4, <3>1, <3>2
  <2>2. CASE ~(session[s].idle > Idle)
    <3>1. PICK step \in {"touch", "admitted"} :
            req' = [req EXCEPT ![q] = [Free EXCEPT !.step = step, !.user = session[s].user, !.session = s]]
      BY <1>6, <2>2 DEF StartRequest
    <3>2. [Free EXCEPT !.step = step, !.user = session[s].user, !.session = s].step = step
      BY DEF Free
    <3> QED
      BY <1>4, <3>1, <3>2
  <2> QED
    BY <2>1, <2>2
<1>7. ASSUME NEW q \in Requests, NEW s \in Sessions, StartLogout(q, s) PROVE req'[r] = req[r]
  <2>1. [Free EXCEPT !.step = "logout", !.session = s].step = "logout"
    BY DEF Free
  <2> QED
    BY <1>4, <1>7, <2>1 DEF StartLogout
<1>8. ASSUME NEW q \in Requests, NEW u \in Users, Verified(q, u), UNCHANGED user
      PROVE  req'[r] = req[r] \/ Verified(r, u)
  BY <1>0, <1>8 DEF Verified
<1>9. ASSUME NEW q \in Requests, NEW right \in BOOLEAN, VerifyPassword(q, right)
      PROVE  req'[r] = req[r] \/ \E u \in Users : Verified(r, u) /\ UNCHANGED user
  <2>1. Goto(q, "failed") \/ (req[q].id \in Users /\ Verified(q, req[q].id) /\ UNCHANGED user)
    BY <1>9 DEF VerifyPassword
  <2> QED
    BY <1>2, <1>8, <1>9, <2>1 DEF Steps, VerifyPassword
<1>10. ASSUME NEW q \in Requests, VerifyCode(q)
       PROVE  req'[r] = req[r] \/ \E u \in Users : Verified(r, u) /\ UNCHANGED user
  <2>1. Goto(q, "failed") \/ (code[req[q].id].creator \in Users /\ Verified(q, code[req[q].id].creator))
    BY <1>10 DEF VerifyCode, Usable, Sound, Owned, Known
  <2> QED
    BY <1>2, <1>8, <1>10, <2>1 DEF Steps, VerifyCode
<1>11. ASSUME NEW q \in Requests, ChangeOwnPassword(q)
       PROVE  q # r /\ req[r].step = "login"
  <2>1. /\ req'[q] = Free
        /\ \A p \in Requests \ {q} : req'[p].step = req[p].step
    BY <1>11, ChangeOvertakes
  <2> QED
    BY <2>1, FreeIs
<1> QED
  BY <1>1, <1>3, <1>5, <1>6, <1>7, <1>9, <1>10, <1>11, ReqMoves

LEMMA InFlightNext ==
  ASSUME Sound, InFlight, [Next]_vars
  PROVE  InFlight'
<1> SUFFICES ASSUME NEW r \in Requests, req'[r].step = "login"
             PROVE  user'[req'[r].user].changed \in {req'[r].since, req'[r].overtaken}
  BY DEF InFlight
<1>0. TypeOK /\ user \in [Users -> User] /\ req \in [Requests -> Request] /\ req[r] \in Request
  BY DEF Sound, TypeOK
<1>1. ASSUME NEW u \in Users, Verified(r, u), UNCHANGED user
      PROVE  user'[req'[r].user].changed \in {req'[r].since, req'[r].overtaken}
  <2>1. PICK n \in 0 .. MaxChanges : n = user[u].changed
    BY <1>0 DEF User
  <2>2. req'[r] = [req[r] EXCEPT !.step = "login", !.user = u, !.since = n]
    BY <1>0, <1>1, <2>1 DEF Verified
  <2>3. req'[r].user = u /\ req'[r].since = n
    BY <1>0, <2>2 DEF Request
  <2> QED
    BY <1>1, <2>1, <2>3
<1>2. CASE req'[r] = req[r] \/ \E q \in Requests \ {r} : ChangeOwnPassword(q) /\ req[r].step = "login"
  <2> DEFINE u == req[r].user
  <2>1. req[r].step = "login" /\ u \in Users /\ user[u].changed \in {req[r].since, req[r].overtaken}
    BY <1>2 DEF InFlight, Sound, Owned, ActsFor, Known
  <2>2. ASSUME NEW q \in Requests, ChangeOwnPassword(q), req[q].user = u
        PROVE  req'[r].user = u /\ user'[u].changed = req'[r].overtaken
    <3>1. q # r
      BY <2>1, <2>2 DEF ChangeOwnPassword
    <3>2. req'[r].user = u /\ req'[r].overtaken = user[u].changed + 1
      BY <2>1, <2>2, <3>1, ChangeOvertakes
    <3> QED
      BY <2>2, <3>2, ChangedBy
  <2>3. ASSUME NEW q \in Requests \ {r}, ChangeOwnPassword(q), req[q].user # u
        PROVE  req'[r] = req[r]
    BY <2>3, ChangeOvertakes
  <2>4. CASE ~\E q \in Requests : ChangeOwnPassword(q) /\ req[q].user = u
    <3>1. req'[r] = req[r]
      BY <1>2, <2>3, <2>4
    <3>2. user'[u].changed = user[u].changed
      BY <2>1, <2>4, ChangedOnce
    <3> HIDE DEF u
    <3> QED
      BY <2>1, <3>1, <3>2 DEF u
  <2> QED
    BY <2>2, <2>4
<1> QED
  BY <1>1, <1>2, LoginMoves

\* A session that outlives the step was alive before it, or is of a login that has seen the last
\* change or was overtaken by it; and the step that changes the account's password ends the
\* session instead.
LEMMA ChangeNext ==
  ASSUME Sound, InFlight, ChangeEndsSessions, [Next]_vars
  PROVE  ChangeEndsSessions'
<1> SUFFICES ASSUME NEW s \in Sessions, session'[s].state = "live"
             PROVE  user'[session'[s].user].changed \in {session'[s].since, session'[s].overtaken}
  BY DEF ChangeEndsSessions
<1>0. TypeOK /\ session[s] \in Session
  BY DEF Sound, TypeOK
<1>1. CASE Keeps(session[s], session'[s])
  <2> DEFINE u == session[s].user
  <2>1. /\ session[s].state = "live" /\ session'[s].user = u
        /\ user[u].changed \in {session'[s].since, session'[s].overtaken}
    BY <1>1 DEF Keeps, ChangeEndsSessions
  <2>2. u \in Users
    BY <2>1 DEF Sound, Owned, Known
  <2>3. ASSUME NEW r \in Requests, ChangeOwnPassword(r), req[r].user = u PROVE FALSE
    <3>1. session'[s] = Ended(session[s])
      BY <2>3 DEF ChangeOwnPassword, SessionsEnded
    <3>2. session'[s].state = "revoked"
      BY <1>0, <2>1, <3>1, SessionIs DEF Ended
    <3> QED
      BY <3>2
  <2>4. user'[u].changed = user[u].changed
    BY <2>2, <2>3, ChangedOnce
  <2> QED
    BY <2>1, <2>4
<1>2. CASE Tick
  <2>1. /\ session'[s].state = session[s].state /\ session'[s].user = session[s].user
        /\ session'[s].since = session[s].since /\ session'[s].overtaken = session[s].overtaken
    BY <1>0, <1>2, TickedIs DEF Tick
  <2>2. user' = user
    BY <1>2 DEF Tick
  <2> QED
    BY <2>1, <2>2 DEF ChangeEndsSessions
<1>3. ASSUME NEW r \in Requests, CreateSession(r, s)
      PROVE  user'[session'[s].user].changed \in {session'[s].since, session'[s].overtaken}
  <2>1. /\ session'[s].user = req[r].user /\ session'[s].since = req[r].since
        /\ session'[s].overtaken = req[r].overtaken
    BY <1>3 DEF CreateSession, Sound, TypeOK
  <2> QED
    BY <1>3, <2>1 DEF CreateSession, InFlight
<1> QED
  BY <1>1, <1>2, <1>3, SessionNext

\* Both ages grow by the same minute; a use that is not written at once has a touch on
\* its way, and the touch writes it.
LEMMA IdleNext ==
  ASSUME Sound, IdleMeansUnused, [Next]_vars
  PROVE  IdleMeansUnused'
<1> SUFFICES ASSUME NEW s \in Sessions,
                    ~\E r \in Requests : req'[r].step = "touch" /\ req'[r].session = s
             PROVE  session'[s].idle <= used'[s]
  BY DEF IdleMeansUnused
<1>0. /\ TypeOK /\ session \in [Sessions -> Session] /\ used \in [Sessions -> IdleAges]
      /\ session[s] \in Session /\ session[s].idle \in IdleAges /\ used[s] \in IdleAges
      /\ used'[s] \in IdleAges /\ used'[s] >= 0
  BY UsedNext, TimesAssumption DEF Sound, TypeOK, Session, IdleAges
<1>1. ASSUME NEW r \in Requests, req[r].step = "touch", req[r].session = s
      PROVE  session'[s].idle <= used'[s]
  <2>1. Touch(r)
    BY <1>0, <1>1, TouchStays
  <2>2. session'[s] = [session[s] EXCEPT !.idle = 0]
    BY <1>0, <1>1, <2>1 DEF Touch
  <2>3. session'[s].idle = 0
    BY <1>0, <2>2, SessionIs
  <2> QED
    BY <1>0, <2>3
<1>2. CASE session[s].idle <= used[s]
  <2>1. CASE Tick
    <3>1. session'[s].idle = Older(session[s].idle, Idle + 1) /\ used'[s] = Older(used[s], Idle + 1)
      BY <1>0, <2>1, TickedIs DEF Tick
    <3> QED
      BY <1>0, <1>2, <3>1, OlderIs
  <2>2. ASSUME NEW r \in Requests, CreateSession(r, s) PROVE session'[s].idle <= used'[s]
    BY <1>0, <2>2 DEF CreateSession
  <2>3. CASE Keeps(session[s], session'[s])
    <3>1. session'[s].idle \in {session[s].idle, 0}
      BY <2>3 DEF Keeps
    <3>2. CASE used'[s] = used[s]
      BY <1>0, <1>2, <3>1, <3>2 DEF IdleAges
    <3>3. ASSUME NEW r \in Requests, NEW token \in 0 .. MaxUses, StartRequest(r, s, token)
          PROVE  session'[s].idle <= used'[s]
      <4>1. CASE session[s].idle > Idle
        BY <1>2, <3>3, <4>1 DEF StartRequest
      <4>2. CASE ~(session[s].idle > Idle)
        <5>1. session' = session /\ used'[s] = 0
          BY <1>0, <3>3, <4>2 DEF StartRequest
        <5>2. CASE session[s].idle = 0
          BY <1>0, <5>1, <5>2
        <5>3. CASE session[s].idle > 0
          <6>1. req' = [req EXCEPT ![r] = [Free EXCEPT !.step = "touch", !.user = session[s].user,
                                                       !.session = s]]
            BY <1>0, <3>3, <4>2, <5>3 DEF StartRequest, TouchDue
          <6>2. req'[r].step = "touch" /\ req'[r].session = s
            BY <1>0, <6>1 DEF TypeOK, Free
          <6> QED
            BY <6>2
        <5> QED
          BY <1>0, <5>2, <5>3 DEF IdleAges
      <4> QED
        BY <4>1, <4>2
    <3>4. \/ used'[s] = used[s]
          \/ Tick
          \/ \E r \in Requests : CreateSession(r, s)
          \/ \E r \in Requests, token \in 0 .. MaxUses : StartRequest(r, s, token)
      BY <1>0, UsedMoves DEF CreateSession, StartRequest
    <3> QED
      BY <2>1, <2>2, <3>2, <3>3, <3>4
  <2> QED
    BY <2>1, <2>2, <2>3, SessionNext
<1> QED
  BY <1>1, <1>2 DEF IdleMeansUnused

\* An account's own password change leaves alive none of its sessions, only a login in flight can
\* outlive it, and what the idle limit is measured from is the last use, whatever requests run
\* together.
THEOREM Entitled == Spec => []SessionsAreEntitled
<1>1. Sound /\ InFlight /\ SessionsAreEntitled /\ [Next]_vars => InFlight' /\ SessionsAreEntitled'
  BY InFlightNext, ChangeNext, IdleNext DEF SessionsAreEntitled
<1> QED
  BY SoundInit, SoundNext, EntitledInit, <1>1, PTL DEF Spec

-----------------------------------------------------------------------------
(* Guesses.  Whoever guesses has passed the limiter, and then there were   *)
(* fewer failures than the limit; what each adds later is what it takes    *)
(* from those still guessing.  That failures leave the window with time    *)
(* needs that there are no more of an age than of the next.                *)

Growing ==
  \A i \in Identifiers, a \in Ages : a - 1 \in Ages => ledger[i][a - 1].bad <= ledger[i][a].bad

LEMMA GuessesInit == Init => GuessesBounded /\ Growing
<1> SUFFICES ASSUME Init PROVE GuessesBounded /\ Growing
  OBVIOUS
<1>1. Growing
  BY DEF Init, Growing
<1>2. ASSUME NEW i \in Identifiers PROVE Bad(i) = 0 /\ Guessing(i) = {}
  <2>1. Window - 1 \in Ages
    BY TimesAssumption DEF Ages
  <2> QED
    BY <1>2, <2>1 DEF Init, Bad, Guessing, Free
<1>3. Cardinality({}) = 0 /\ Cardinality(Requests) \in Nat
  BY RequestsAssumption, FS_EmptySet, FS_CardinalityType
<1> QED
  BY <1>1, <1>2, <1>3, TimesAssumption DEF GuessesBounded

\* What is recorded for one identifier leaves the others alone.
LEMMA RecordedIs ==
  ASSUME Sound, NEW r \in Requests, RecordRefused(r) \/ RecordFailed(r), NEW i \in Identifiers, NEW a \in Ages
  PROVE  ledger'[i][a].bad = IF RecordFailed(r) /\ req[r].id = i THEN ledger[i][a].bad + 1
                             ELSE ledger[i][a].bad
<1>0. /\ ledger \in [Identifiers -> [Ages -> Failures]]
      /\ ledger[i][a] \in Failures
  BY DEF Sound, TypeOK
<1>1. CASE req[r].id # i
  BY <1>0, <1>1 DEF RecordRefused, RecordFailed
<1>2. CASE req[r].id = i /\ RecordFailed(r)
  <2>1. ledger'[i] = [b \in Ages |-> OneBad(ledger[i][b])]
    BY <1>0, <1>2 DEF RecordFailed
  <2> QED
    BY <1>0, <1>2, <2>1, OneMoreIs
<1>3. CASE req[r].id = i /\ ~RecordFailed(r)
  <2>1. ledger'[i] = [b \in Ages |-> OneRefused(ledger[i][b])]
    BY <1>0, <1>3 DEF RecordRefused
  <2> QED
    BY <1>0, <1>3, <2>1, OneMoreIs
<1> QED
  BY <1>1, <1>2, <1>3

\* What a tick leaves of the attempts of an age or less.
LEMMA AgedIs ==
  ASSUME Tick, NEW i \in Identifiers, NEW a \in Ages
  PROVE  ledger'[i][a].bad = IF a = 0 THEN 0 ELSE ledger[i][a - 1].bad
BY DEF Tick, Aged

LEMMA GrowingNext == Sound /\ Growing /\ [Next]_vars => Growing'
<1> SUFFICES ASSUME Sound, Growing, [Next]_vars, NEW i \in Identifiers, NEW a \in Ages, a - 1 \in Ages
             PROVE  ledger'[i][a - 1].bad <= ledger'[i][a].bad
  BY DEF Growing
<1>0. /\ \A b \in Ages : ledger[i][b] \in Failures
      /\ ledger[i][a - 1].bad <= ledger[i][a].bad
  BY DEF Sound, TypeOK, Growing
<1>1. CASE Tick
  <2>1. CASE a - 1 = 0
    BY <1>0, <1>1, <2>1, AgedIs, TimesAssumption DEF Failures, Ages
  <2>2. CASE a - 1 # 0
    <3>1. a - 1 - 1 \in Ages /\ a # 0
      BY <2>2, TimesAssumption DEF Ages
    <3>2. ledger[i][a - 1 - 1].bad <= ledger[i][a - 1].bad
      BY <3>1 DEF Growing
    <3> QED
      BY <1>1, <2>2, <3>1, <3>2, AgedIs
  <2> QED
    BY <2>1, <2>2
<1>2. ASSUME NEW r \in Requests, RecordRefused(r) \/ RecordFailed(r)
      PROVE  ledger'[i][a - 1].bad <= ledger'[i][a].bad
  BY <1>0, <1>2, RecordedIs DEF Failures
<1> QED
  BY <1>0, <1>1, <1>2, LedgerMoves

\* Only a failure that is recorded adds to those of its identifier.
LEMMA BadNext ==
  ASSUME Sound, Growing, [Next]_vars, NEW i \in Identifiers
  PROVE  /\ Bad(i) \in Nat /\ Bad(i)' \in Nat
         /\ \/ Bad(i)' <= Bad(i)
            \/ \E r \in Requests : RecordFailed(r) /\ req[r].id = i /\ Bad(i)' = Bad(i) + 1
<1> DEFINE last == Window - 1
<1>0. last \in Ages /\ (last - 1 \in Ages \/ last = 0)
  BY TimesAssumption DEF Ages
<1>1. /\ Bad(i) = ledger[i][last].bad /\ Bad(i)' = ledger'[i][last].bad
      /\ \A a \in Ages : ledger[i][a].bad \in Nat
  BY DEF Bad, Sound, TypeOK, Failures
<1>2. ledger'[i][last].bad \in Nat
  BY <1>0, LedgerNext DEF Failures
<1> HIDE DEF last
<1>3. CASE Tick
  BY <1>0, <1>1, <1>3, AgedIs DEF Growing
<1>4. ASSUME NEW r \in Requests, RecordRefused(r) \/ RecordFailed(r)
      PROVE  \/ Bad(i)' <= Bad(i)
             \/ RecordFailed(r) /\ req[r].id = i /\ Bad(i)' = Bad(i) + 1
  BY <1>0, <1>1, <1>4, RecordedIs
<1>5. CASE UNCHANGED ledger
  BY <1>0, <1>1, <1>5
<1> QED
  BY <1>0, <1>1, <1>2, <1>3, <1>4, <1>5, LedgerMoves

\* Only a login that the limiter lets pass adds to those who guess.
LEMMA GuessingNext ==
  ASSUME Sound, [Next]_vars, NEW i \in Identifiers
  PROVE  \/ Guessing(i)' \subseteq Guessing(i)
         \/ ~Blocked(i) /\ UNCHANGED ledger
<1>0. req \in [Requests -> Request]
  BY DEF Sound, TypeOK
<1>1. ASSUME NEW q \in Requests, q \in Guessing(i)', q \notin Guessing(i)
      PROVE  StartLogin(q, i) /\ ~Blocked(i)
  <2>1. req'[q].step \in {"verify", "failed"} /\ req'[q].id = i /\ req'[q] # req[q]
    BY <1>1 DEF Guessing
  <2>2. ~(req[q].step \in {"verify", "failed"} /\ req[q].id = i)
    BY <1>1 DEF Guessing
  <2>3. ASSUME NEW r \in Requests, End(r) PROVE FALSE
    BY <1>0, <2>1, <2>3 DEF End, Free
  <2>4. ASSUME NEW r \in Requests,
               StartBootstrap(r) \/ Touch(r) \/ VerifyCode(r) \/ StartChange(r)
                 \/ \E right \in BOOLEAN : VerifyPassword(r, right)
        PROVE  FALSE
    <3>1. ASSUME NEW step \in Steps, Goto(r, step), step \in {"verify", "failed"} => req[r].step = "verify"
          PROVE  FALSE
      BY <2>1, <2>2, <3>1, GotoIs DEF Sound
    <3>2. ASSUME NEW u, Verified(r, u) PROVE FALSE
      BY <1>0, <2>1, <3>2 DEF Verified, Request
    <3>3. CASE StartBootstrap(r) \/ Touch(r) \/ StartChange(r)
      BY <2>3, <3>1, <3>3 DEF StartBootstrap, Touch, StartChange, Steps
    <3>4. CASE VerifyCode(r)
      BY <3>1, <3>2, <3>4 DEF VerifyCode, Steps
    <3>5. ASSUME NEW right \in BOOLEAN, VerifyPassword(r, right) PROVE FALSE
      BY <3>1, <3>2, <3>5 DEF VerifyPassword, Steps
    <3> QED
      BY <2>4, <3>3, <3>4, <3>5
  <2>5. ASSUME NEW r \in Requests, NEW s \in Sessions, NEW token \in 0 .. MaxUses, StartRequest(r, s, token)
        PROVE  FALSE
    <3>1. req'[r].step \in {"expire", "touch", "admitted"} /\ \A p \in Requests \ {r} : req'[p] = req[p]
      <4>1. CASE session[s].idle > Idle
        <5> DEFINE row == [Free EXCEPT !.step = "expire", !.session = s]
        <5>1. row.step = "expire"
          BY DEF Free
        <5>2. req' = [req EXCEPT ![r] = row]
          BY <2>5, <4>1 DEF StartRequest
        <5> HIDE DEF row
        <5> QED
          BY <1>0, <5>1, <5>2
      <4>2. CASE ~(session[s].idle > Idle)
        <5> DEFINE step == IF TouchDue(session[s]) THEN "touch" ELSE "admitted"
                   row == [Free EXCEPT !.step = step, !.user = session[s].user, !.session = s]
        <5>1. row.step = step
          BY DEF Free
        <5>2. req' = [req EXCEPT ![r] = row]
          BY <2>5, <4>2 DEF StartRequest
        <5>3. step \in {"touch", "admitted"}
          OBVIOUS
        <5> HIDE DEF row, step
        <5> QED
          BY <1>0, <5>1, <5>2, <5>3
      <4> QED
        BY <4>1, <4>2
    <3> QED
      BY <2>1, <3>1
  <2>6. ASSUME NEW r \in Requests, NEW j \in Identifiers, StartLogin(r, j)
        PROVE  StartLogin(q, i) /\ ~Blocked(i)
    <3>1. /\ req' = [req EXCEPT ![r] = [Free EXCEPT !.step = IF Blocked(j) THEN "refuse" ELSE "verify",
                                                    !.id = j]]
      BY <2>6 DEF StartLogin
    <3>2. q = r
      BY <1>0, <2>1, <3>1
    <3>3. req'[q] = [Free EXCEPT !.step = IF Blocked(j) THEN "refuse" ELSE "verify", !.id = j]
      BY <1>0, <3>1, <3>2
    <3>4. ~Blocked(j) /\ j = i
      BY <2>1, <3>3 DEF Free
    <3> QED
      BY <2>6, <3>2, <3>4
  <2>7. ASSUME NEW r \in Requests, ChangeOwnPassword(r) PROVE FALSE
    <3>1. /\ req'[r] = Free
          /\ \A p \in Requests \ {r} : req'[p].step = req[p].step /\ req'[p].id = req[p].id
      BY <2>7, ChangeOvertakes
    <3> QED
      BY <2>1, <2>2, <3>1, FreeIs
  <2>8. ASSUME NEW r \in Requests, NEW s \in Sessions, StartLogout(r, s) PROVE FALSE
    <3>1. [Free EXCEPT !.step = "logout", !.session = s].step = "logout"
      BY DEF Free
    <3> QED
      BY <1>0, <2>1, <2>8, <3>1 DEF StartLogout
  <2> QED
    BY <2>1, <2>3, <2>4, <2>5, <2>6, <2>7, <2>8, ReqMoves
<1> QED
  BY <1>1 DEF StartLogin, Guessing

LEMMA GuessesNext == Sound /\ Growing /\ GuessesBounded /\ [Next]_vars => GuessesBounded'
<1> SUFFICES ASSUME Sound, Growing, GuessesBounded, [Next]_vars, NEW i \in Identifiers
             PROVE  Bad(i)' + Cardinality(Guessing(i)') < MaxAttempts + Cardinality(Requests)
  BY DEF GuessesBounded
<1>0. /\ Bad(i) + Cardinality(Guessing(i)) < MaxAttempts + Cardinality(Requests)
      /\ Bad(i) \in Nat /\ Bad(i)' \in Nat /\ MaxAttempts \in Nat
  BY BadNext, TimesAssumption DEF GuessesBounded
<1>1. /\ Guessing(i) \subseteq Requests /\ Guessing(i)' \subseteq Requests
      /\ IsFiniteSet(Guessing(i)) /\ IsFiniteSet(Guessing(i)')
      /\ Cardinality(Guessing(i)) \in Nat /\ Cardinality(Guessing(i)') \in Nat
      /\ Cardinality(Requests) \in Nat /\ Cardinality(Guessing(i)') <= Cardinality(Requests)
  <2>1. Guessing(i) \subseteq Requests /\ Guessing(i)' \subseteq Requests
    BY DEF Guessing
  <2> QED
    BY <2>1, RequestsAssumption, FS_Subset, FS_CardinalityType
<1>2. CASE ~Blocked(i) /\ UNCHANGED ledger
  <2>1. Refused(i) \in Nat
    BY TimesAssumption DEF Refused, Sound, TypeOK, Failures, Ages
  <2>2. Bad(i)' = Bad(i) /\ Bad(i) + Refused(i) < MaxAttempts
    BY <1>0, <1>2, <2>1 DEF Blocked, Bad
  <2> QED
    BY <1>0, <1>1, <2>1, <2>2
<1>3. ASSUME Guessing(i)' \subseteq Guessing(i), Bad(i)' <= Bad(i)
      PROVE  Bad(i)' + Cardinality(Guessing(i)') < MaxAttempts + Cardinality(Requests)
  <2>1. Cardinality(Guessing(i)') <= Cardinality(Guessing(i))
    BY <1>1, <1>3, FS_Subset
  <2> QED
    BY <1>0, <1>1, <1>3, <2>1
<1>4. ASSUME Guessing(i)' \subseteq Guessing(i), NEW r \in Requests,
             RecordFailed(r), req[r].id = i, Bad(i)' = Bad(i) + 1
      PROVE  Bad(i)' + Cardinality(Guessing(i)') < MaxAttempts + Cardinality(Requests)
  <2>1. r \in Guessing(i)
    BY <1>4 DEF RecordFailed, Guessing
  <2>2. r \notin Guessing(i)'
    BY <1>4 DEF RecordFailed, End, Free, Guessing, Sound, TypeOK
  <2>3. IsFiniteSet(Guessing(i) \ {r}) /\ Cardinality(Guessing(i) \ {r}) = Cardinality(Guessing(i)) - 1
    BY <1>1, <2>1, FS_RemoveElement
  <2>4. Cardinality(Guessing(i)') <= Cardinality(Guessing(i) \ {r})
    BY <1>4, <2>2, <2>3, FS_Subset
  <2> QED
    BY <1>0, <1>1, <1>4, <2>3, <2>4
<1> QED
  BY <1>2, <1>3, <1>4, BadNext, GuessingNext

\* However many logins pass the limiter together, the window never holds more wrong guesses
\* at an account or code than the limit and the logins in progress allow.
THEOREM GuessesLimited == Spec => []GuessesBounded
BY SoundInit, SoundNext, GuessesInit, GrowingNext, GuessesNext, PTL DEF Spec

-----------------------------------------------------------------------------
(* The live view: what a browser is shown is what was reported. *)

\* A report within the freshness window of this moment, or nothing but the mock gateway.
Seen == (reported # None /\ clock - reported <= StaleAfter) \/ (mockEnabled /\ "real" \notin feeds)

\* A frame of the moment `now` that is not silent has a report behind it.
Earned(at, status, now, seen) == status \in {"live", "idle"} /\ at = now => seen

\* What the hook of a browser shows, and the frame it keeps aside.
View(v, now, seen) ==
  /\ v = [status |-> v.status, feed |-> v.feed, at |-> v.at, chart |-> v.chart,
          paused |-> v.paused, frozen |-> v.frozen, held |-> v.held]
  /\ v.at \in 0 .. now /\ Earned(v.at, v.feed, now, seen)
  /\ v.held # None => v.held.ts \in 0 .. now /\ Earned(v.held.ts, v.held.feed, now, seen)

LiveTyped ==
  /\ clock \in 0 .. MaxClock /\ mockEnabled \in BOOLEAN /\ running \in BOOLEAN
  /\ pendingBy \in [Gateways -> {None} \cup Nat]
  /\ rate \in [Gateways -> {None} \cup [bps : Nat, at : Nat]]
  /\ reported \in {None} \cup 0 .. clock
  /\ DOMAIN view = Browsers

\* Every rate is no younger than the last report, what the last tick resolved had a report
\* behind it, and so had every frame of this moment that is shown or kept aside.
FreshInv ==
  /\ \A g \in Gateways : rate[g] # None => reported # None /\ rate[g].at <= reported
  /\ Earned(clock, feed, clock, Seen)
  /\ ~running => feed = "stale"
  /\ \A b \in Browsers : View(view[b], clock, Seen)

\* The buffer holds the last seconds without a gap, and the seconds before its first one
\* either were shifted out of a full buffer or had nothing to count.
ChartInv ==
  /\ points \in Seq([t : Nat, bps : Nat]) /\ observed \in [Seconds -> Nat]
  /\ Len(points) <= MaxWindow /\ Len(points) <= clock
  /\ \A i \in 1 .. Len(points) :
       points[i].t = clock - Len(points) + i /\ points[i].bps = observed[points[i].t]
  /\ Len(points) < MaxWindow => \A t \in 1 .. clock - Len(points) : observed[t] = 0
  /\ pending = observed[clock + 1]
  /\ \A t \in Seconds : t > clock + 1 => observed[t] = 0
  /\ ~running => points = <<>> /\ \A t \in Seconds : observed[t] = 0

LiveInv == LiveTyped /\ FreshInv /\ ChartInv

\* What holds under the invariant is what the properties say.
LEMMA LiveInvIsEnough == LiveInv => ShownIsReported
<1> SUFFICES ASSUME LiveInv PROVE ShownIsReported
  OBVIOUS
<1> USE NumbersAssumption
<1>1. ShownIsFresh
  BY DEF LiveInv, FreshInv, View, Earned, Seen, ShownIsFresh
<1>2. BytesAreCharted
  <2>1. pending = observed[clock + 1]
    BY DEF LiveInv, ChartInv
  <2>2. DOMAIN points = 1 .. Len(points) /\ Len(points) \in Nat /\ clock \in 0 .. MaxClock
    BY DEF LiveInv, LiveTyped, ChartInv
  <2>6. MaxClock \in Nat /\ Len(points) <= clock
    BY DEF LiveInv, ChartInv
  <2>7. \A i \in DOMAIN points : points[i].t = clock - Len(points) + i /\ points[i].bps = observed[points[i].t]
    BY <2>2 DEF LiveInv, ChartInv
  <2>3. \A i \in DOMAIN points : points[i].t \in Seconds /\ points[i].bps = observed[points[i].t]
    BY <2>2, <2>6, <2>7 DEF Seconds
  <2>4. \A i, j \in DOMAIN points : i < j => points[i].t < points[j].t
    BY <2>2, <2>6, <2>7
  <2>5. ASSUME NEW t \in Seconds, t \in clock - MaxWindow + 1 .. clock, observed[t] # 0
        PROVE  \E i \in DOMAIN points : points[i].t = t
    <3>1. t > clock - Len(points)
      BY SMTT(30), <2>2, <2>5 DEF LiveInv, ChartInv, Seconds
    <3>2. t - (clock - Len(points)) \in DOMAIN points
      BY <2>2, <2>5, <3>1 DEF Seconds
    <3>3. points[t - (clock - Len(points))].t = t
      BY <2>2, <2>6, <2>7, <3>2 DEF Seconds
    <3> QED
      BY <3>2, <3>3
  <2> QED
    BY <2>1, <2>3, <2>4, <2>5 DEF BytesAreCharted
<1> QED
  BY <1>1, <1>2 DEF ShownIsReported

\* What one frame does to what is shown.
LEMMA ViewAged == ASSUME NEW v, NEW now \in Nat, NEW seen \in BOOLEAN, NEW later \in BOOLEAN,
                         View(v, now, seen)
                  PROVE  View(v, now + 1, later)
BY DEF View, Earned

LEMMA ViewKept ==
  ASSUME NEW v, NEW now \in Nat, NEW seen \in BOOLEAN, NEW later \in BOOLEAN,
         View(v, now, seen), seen => later
  PROVE  View(v, now, later)
BY DEF View, Earned

LEMMA ViewApplied ==
  ASSUME NEW v, NEW now \in Nat, NEW seen \in BOOLEAN, NEW bps, NEW status,
         View(v, now, seen), status \in {"live", "idle"} => seen
  PROVE  View(Apply(v, [ts |-> now, bps |-> bps, feed |-> status]), now, seen)
<1> DEFINE tick == [ts |-> now, bps |-> bps, feed |-> status]
           longer == Append(v.chart, bps)
           chart == IF Len(longer) > MaxWindow THEN Tail(longer) ELSE longer
<1>1. CASE v.frozen
  <2>1. Apply(v, tick) = [v EXCEPT !.held = tick]
    BY <1>1 DEF Apply
  <2> QED
    BY <2>1 DEF View, Earned
<1>2. CASE ~v.frozen
  <2>1. Apply(v, tick) = [v EXCEPT !.status = "connected", !.feed = status, !.at = now, !.chart = chart]
    BY <1>2 DEF Apply, View
  <2> HIDE DEF chart
  <2>2. Apply(v, tick) = [status |-> "connected", feed |-> status, at |-> now, chart |-> chart,
                          paused |-> v.paused, frozen |-> v.frozen, held |-> v.held]
    BY <2>1 DEF View
  <2>3. View([status |-> "connected", feed |-> status, at |-> now, chart |-> chart,
              paused |-> v.paused, frozen |-> v.frozen, held |-> v.held], now, seen)
    BY DEF View, Earned
  <2> QED
    BY <2>2, <2>3
<1> QED
  BY <1>1, <1>2

LEMMA ViewStatus == ASSUME NEW v, NEW now, NEW seen, NEW status, View(v, now, seen)
                    PROVE  View([v EXCEPT !.status = status], now, seen)
BY DEF View, Earned

LEMMA ViewPutBack ==
  ASSUME NEW v, NEW now, NEW seen, NEW next, View(v, now, seen), v.held # None
  PROVE  View([v EXCEPT !.paused = next, !.feed = v.held.feed, !.at = v.held.ts, !.held = None], now, seen)
<1> DEFINE w1 == [v EXCEPT !.paused = next]
           w2 == [w1 EXCEPT !.feed = v.held.feed]
           w3 == [w2 EXCEPT !.at = v.held.ts]
           w4 == [w3 EXCEPT !.held = None]
<1>1. w1 = [status |-> v.status, feed |-> v.feed, at |-> v.at, chart |-> v.chart,
            paused |-> next, frozen |-> v.frozen, held |-> v.held]
  BY DEF View
<1>2. w2 = [status |-> v.status, feed |-> v.held.feed, at |-> v.at, chart |-> v.chart,
            paused |-> next, frozen |-> v.frozen, held |-> v.held]
  <2> HIDE DEF w1
  <2> QED
    BY <1>1
<1>3. w3 = [status |-> v.status, feed |-> v.held.feed, at |-> v.held.ts, chart |-> v.chart,
            paused |-> next, frozen |-> v.frozen, held |-> v.held]
  <2> HIDE DEF w2
  <2> QED
    BY <1>2
<1>4. w4 = [status |-> v.status, feed |-> v.held.feed, at |-> v.held.ts, chart |-> v.chart,
            paused |-> next, frozen |-> v.frozen, held |-> None]
  <2> HIDE DEF w3
  <2> QED
    BY <1>3
<1>5. View([status |-> v.status, feed |-> v.held.feed, at |-> v.held.ts, chart |-> v.chart,
            paused |-> next, frozen |-> v.frozen, held |-> None], now, seen)
  BY DEF View, Earned
<1>6. View(w4, now, seen)
  <2> HIDE DEF w4
  <2> QED
    BY <1>4, <1>5
<1> QED
  BY <1>6

LEMMA ViewBlank == ASSUME NEW now \in Nat, NEW seen
                   PROVE  View(Blank, now, seen)
BY NoneAssumption DEF View, Earned, Blank

\* A status that says something is moving has a gateway that is not silent behind it.
LEMMA ResolvedIsEarned ==
  ASSUME LiveInv, ResolveStatus(pending, clock + 1) \in {"live", "idle"}
  PROVE  (reported # None /\ (clock + 1) - reported <= StaleAfter) \/ (mockEnabled /\ "real" \notin feeds)
<1>1. CASE AllSilent(clock + 1)
  BY <1>1 DEF ResolveStatus
<1>2. CASE ~AllSilent(clock + 1)
  <2>1. PICK g \in Reporting : ~((clock + 1) - rate[g].at > StaleAfter)
    BY <1>2 DEF AllSilent
  <2>2. reported # None /\ rate[g].at <= reported /\ rate[g].at \in Nat /\ reported \in Nat /\ clock \in Nat
    BY <2>1 DEF Reporting, LiveInv, LiveTyped, FreshInv
  <2> QED
    BY <2>1, <2>2, NumbersAssumption
<1> QED
  BY <1>1, <1>2

-----------------------------------------------------------------------------
(* Every step keeps the invariant. *)

LEMMA LiveInitially == LiveInit => LiveInv
<1> SUFFICES ASSUME LiveInit PROVE LiveInv
  OBVIOUS
<1>1. LiveTyped
  <2>1. clock \in 0 .. MaxClock
    BY NumbersAssumption DEF LiveInit
  <2> QED
    BY <2>1 DEF LiveInit, Fresh, LiveTyped
<1>2. FreshInv
  <2>1. \A b \in Browsers : view[b] = Blank
    BY DEF LiveInit
  <2>2. \A b \in Browsers : View(view[b], clock, Seen)
    BY <2>1, ViewBlank DEF LiveInit
  <2> QED
    BY <2>2 DEF LiveInit, Fresh, FreshInv, Earned
<1>3. ChartInv
  BY NumbersAssumption DEF LiveInit, Fresh, ChartInv, Seconds
<1> QED
  BY <1>1, <1>2, <1>3 DEF LiveInv

\* A step of the hook or of the stream changes what is shown, and nothing of the aggregator.
LEMMA ShownStep ==
  ASSUME LiveInv, UNCHANGED <<clock, mockEnabled, aggregator, reported, observed>>,
         DOMAIN view' = Browsers, \A b \in Browsers : View(view'[b], clock, Seen)
  PROVE  LiveInv'
<1>1. UNCHANGED <<running, pending, pendingBy, rate, feeds, points, feed>>
  BY DEF aggregator
<1>2. LiveTyped'
  BY <1>1 DEF LiveInv, LiveTyped
<1>3. Seen' = Seen
  BY <1>1 DEF Seen
<1>4. FreshInv'
  BY <1>1, <1>3 DEF LiveInv, FreshInv
<1>5. ChartInv'
  BY <1>1 DEF LiveInv, ChartInv
<1> QED
  BY <1>2, <1>4, <1>5 DEF LiveInv

LEMMA OneShown ==
  ASSUME LiveInv, UNCHANGED <<clock, mockEnabled, aggregator, reported, observed>>,
         NEW b \in Browsers, NEW v, View(v, clock, Seen), view' = [view EXCEPT ![b] = v]
  PROVE  LiveInv'
<1>1. DOMAIN view = Browsers /\ \A c \in Browsers : View(view[c], clock, Seen)
  BY DEF LiveInv, LiveTyped, FreshInv
<1>2. DOMAIN view' = Browsers /\ \A c \in Browsers : view'[c] = IF c = b THEN v ELSE view[c]
  BY <1>1
<1> QED
  BY <1>1, <1>2, ShownStep

LEMMA OneStatus ==
  ASSUME LiveInv, UNCHANGED <<clock, mockEnabled, aggregator, reported, observed>>,
         NEW b \in Browsers, NEW status, view' = [view EXCEPT ![b].status = status]
  PROVE  LiveInv'
<1>1. View(view[b], clock, Seen)
  BY DEF LiveInv, FreshInv
<1>2. View([view[b] EXCEPT !.status = status], clock, Seen)
  BY <1>1, ViewStatus
<1> QED
  BY <1>2, OneShown

LEMMA NothingShown ==
  ASSUME LiveInv, UNCHANGED <<clock, mockEnabled, aggregator, reported, observed, view>>
  PROVE  LiveInv'
BY ShownStep DEF LiveInv, LiveTyped, FreshInv

LEMMA StepMount == ASSUME LiveInv, NEW b \in Browsers, Mount(b) PROVE LiveInv'
BY OneStatus DEF Mount, Show
LEMMA StepRetry == ASSUME LiveInv, NEW b \in Browsers, Retry(b) PROVE LiveInv'
BY OneStatus DEF Retry, Show
LEMMA StepRefuse == ASSUME LiveInv, NEW b \in Browsers, Refuse(b) PROVE LiveInv'
BY OneStatus DEF Refuse, Show
LEMMA StepBreak == ASSUME LiveInv, NEW b \in Browsers, Break(b) PROVE LiveInv'
BY OneStatus DEF Break, Show
LEMMA StepSignInOrOut == ASSUME LiveInv, NEW b \in Browsers, SignInOrOut(b) PROVE LiveInv'
BY NothingShown DEF SignInOrOut, browser
LEMMA StepCancel == ASSUME LiveInv, NEW stream \in listening, Cancel(stream) PROVE LiveInv'
BY NothingShown DEF Cancel, browser

LEMMA StepUnmount == ASSUME LiveInv, NEW b \in Browsers, Unmount(b) PROVE LiveInv'
<1>1. View(Blank, clock, Seen)
  BY ViewBlank DEF LiveInv, LiveTyped
<1>2. CASE view' = [view EXCEPT ![b] = Blank]
  BY <1>1, <1>2, OneShown DEF Unmount
<1>3. CASE Show(b, Connecting, "connecting")
  BY <1>3, OneStatus DEF Unmount, Show
<1> QED
  BY <1>2, <1>3 DEF Unmount

\* Pausing keeps every frame and its moment.
LEMMA StepFreeze == ASSUME LiveInv, NEW b \in Browsers, Freeze(b) PROVE LiveInv'
<1> DEFINE v == [view[b] EXCEPT !.frozen = ~@]
<1>1. View(view[b], clock, Seen)
  BY DEF LiveInv, FreshInv
<1>2. View(v, clock, Seen)
  BY <1>1 DEF View
<1>3. view' = [view EXCEPT ![b] = v]
  BY DEF Freeze
<1> HIDE DEF v
<1> QED
  BY <1>2, <1>3, OneShown DEF Freeze

\* The frame kept aside is put back with the moment it was made in.
LEMMA StepSetPaused == ASSUME LiveInv, NEW b \in Browsers, NEW next \in BOOLEAN, SetPaused(b, next) PROVE LiveInv'
<1> DEFINE old == view[b]
           aside == [old EXCEPT !.paused = next, !.feed = old.held.feed, !.at = old.held.ts, !.held = None]
           plain == [old EXCEPT !.paused = next]
<1>1. View(old, clock, Seen)
  BY DEF LiveInv, FreshInv
<1>2. View(plain, clock, Seen)
  BY <1>1 DEF View, Earned
<1>3. old.held # None => View(aside, clock, Seen)
  BY <1>1, ViewPutBack
<1>4. view' = [view EXCEPT ![b] = plain] \/ (old.held # None /\ view' = [view EXCEPT ![b] = aside])
  BY DEF SetPaused
<1> HIDE DEF old, aside, plain
<1> QED
  BY <1>2, <1>3, <1>4, OneShown DEF SetPaused

\* The first frame of a stream is of this moment, with what the last tick resolved.
LEMMA StepAccept == ASSUME LiveInv, NEW b \in Browsers, Accept(b) PROVE LiveInv'
<1>1. View(view[b], clock, Seen) /\ clock \in Nat /\ Seen \in BOOLEAN /\ (feed \in {"live", "idle"} => Seen)
  BY DEF LiveInv, LiveTyped, FreshInv, Earned, Seen
<1>2. PICK bps : Hello = [ts |-> clock, bps |-> bps, feed |-> feed]
  BY DEF Hello
<1>3. View(Apply(view[b], Hello), clock, Seen)
  BY <1>1, <1>2, ViewApplied
<1>4. view' = [view EXCEPT ![b] = Apply(view[b], Hello)]
  BY DEF Accept
<1> QED
  BY <1>3, <1>4, OneShown DEF Accept

\* A restart forgets the rates and the chart, and what was observed with them.
LEMMA StepRestart == ASSUME LiveInv, Restart PROVE LiveInv'
<1>1. LiveTyped'
  BY DEF LiveInv, LiveTyped, Restart
<1>2. (Seen => Seen') /\ Seen \in BOOLEAN /\ Seen' \in BOOLEAN /\ clock' = clock
  BY DEF Seen, Restart
<1>3. FreshInv'
  <2>1. ASSUME NEW b \in Browsers PROVE View(view'[b], clock, Seen')
    <3>0. clock \in Nat
      BY DEF LiveInv, LiveTyped
    <3>1. View(view[b], clock, Seen')
      BY <1>2, <3>0, ViewKept DEF LiveInv, FreshInv
    <3>2. view'[b] = view[b] \/ view'[b] = [view[b] EXCEPT !.status = "disconnected"]
      BY DEF Restart
    <3> QED
      BY <3>1, <3>2, ViewStatus
  <2>2. feed' = "stale" /\ \A g \in Gateways : rate'[g] = None
    BY DEF Restart
  <2> QED
    BY <1>2, <2>1, <2>2 DEF FreshInv, Earned
<1>4. ChartInv'
  <2>1. /\ points' = <<>> /\ observed' = [t \in Seconds |-> 0] /\ pending' = 0 /\ Seconds' = Seconds
        /\ clock' = clock /\ clock \in Nat /\ MaxClock \in Nat /\ clock <= MaxClock /\ clock + 1 \in Seconds
    BY NumbersAssumption DEF LiveInv, LiveTyped, Restart, Seconds
  <2>2. points' \in Seq([t : Nat, bps : Nat]) /\ Len(points') = 0
    BY <2>1
  <2>3. observed' \in [Seconds -> Nat] /\ \A t \in Seconds : observed'[t] = 0
    BY <2>1
  <2>4. \A t \in 1 .. clock - Len(points') : t \in Seconds
    BY <2>1, <2>2 DEF Seconds
  <2> QED
    BY <2>1, <2>2, <2>3, <2>4, NumbersAssumption DEF ChartInv
<1> QED
  BY <1>1, <1>3, <1>4 DEF LiveInv

\* A report is counted in the second that is running, and is the freshest there is.
LEMMA StepIngest ==
  ASSUME LiveInv, NEW g \in Gateways, NEW bytes \in Amounts, NEW kind, Ingest(g, bytes, kind)
  PROVE  LiveInv'
<1>1. bytes \in Nat /\ clock \in Nat /\ MaxClock \in Nat /\ clock <= MaxClock /\ clock + 1 \in Seconds
  BY NumbersAssumption DEF LiveInv, LiveTyped, Seconds
<1>5. clock' = clock /\ view' = view /\ mockEnabled' = mockEnabled /\ reported' = clock /\ running' = TRUE
  BY DEF Ingest, browser
<1>2. LiveTyped'
  <2>1. (IF pendingBy[g] = None THEN bytes ELSE pendingBy[g] + bytes) \in Nat
    BY <1>1 DEF LiveInv, LiveTyped
  <2>2. pendingBy' \in [Gateways -> {None} \cup Nat]
    BY <2>1 DEF LiveInv, LiveTyped, Ingest
  <2>3. [bps |-> IF rate[g] = None THEN 0 ELSE rate[g].bps, at |-> clock] \in [bps : Nat, at : Nat]
    BY <1>1 DEF LiveInv, LiveTyped
  <2>4. rate' \in [Gateways -> {None} \cup [bps : Nat, at : Nat]]
    BY <2>3 DEF LiveInv, LiveTyped, Ingest
  <2> QED
    BY <1>1, <1>5, <2>2, <2>4 DEF LiveInv, LiveTyped
<1>3. FreshInv'
  <2>1. Seen' /\ Seen' \in BOOLEAN /\ Seen \in BOOLEAN
    <3>1. clock # None /\ clock - clock <= StaleAfter
      BY <1>1, NumbersAssumption, NoneAssumption
    <3> QED
      BY <1>5, <3>1 DEF Seen, LiveInv, LiveTyped
  <2>2. \A b \in Browsers : View(view[b], clock, Seen')
    BY <1>1, <2>1, ViewKept DEF LiveInv, FreshInv
  <2>3. ASSUME NEW h \in Gateways, rate'[h] # None
        PROVE  reported' # None /\ rate'[h].at <= reported'
    <3>1. reported' = clock /\ clock # None
      BY <1>1, NoneAssumption DEF Ingest
    <3>2. CASE h = g
      BY <1>1, <3>1, <3>2 DEF LiveInv, LiveTyped, Ingest
    <3>3. CASE h # g
      <4>1. rate'[h] = rate[h]
        BY <3>3 DEF LiveInv, LiveTyped, Ingest
      <4>2. rate[h].at <= reported /\ reported \in 0 .. clock /\ rate[h].at \in Nat
        BY <2>3, <4>1 DEF LiveInv, LiveTyped, FreshInv
      <4> QED
        BY <1>1, <3>1, <4>1, <4>2
    <3> QED
      BY <3>2, <3>3
  <2> QED
    BY <1>5, <2>1, <2>2, <2>3 DEF FreshInv, Earned
<1>4. ChartInv'
  <2>1. observed' \in [Seconds -> Nat] /\ \A t \in Seconds : observed'[t] = IF t = clock + 1 THEN observed[t] + bytes ELSE observed[t]
    <3>1. observed \in [Seconds -> Nat] /\ bytes \in Nat
      BY <1>1 DEF LiveInv, ChartInv
    <3>2. observed' = [observed EXCEPT ![clock + 1] = @ + bytes]
      BY DEF Ingest
    <3>3. observed[clock + 1] + bytes \in Nat
      BY <1>1, <3>1
    <3> QED
      BY <1>1, <3>1, <3>2, <3>3
  <2>2. /\ points' = points /\ clock' = clock /\ Len(points) \in Nat /\ Len(points) <= clock
        /\ Len(points) <= MaxWindow /\ points \in Seq([t : Nat, bps : Nat])
    BY DEF LiveInv, ChartInv, Ingest
  <2>3. ASSUME NEW i \in 1 .. Len(points)
        PROVE  points[i].t = clock - Len(points) + i /\ points[i].bps = observed'[points[i].t]
    <3>1. points[i].t = clock - Len(points) + i /\ points[i].bps = observed[points[i].t]
      BY DEF LiveInv, ChartInv
    <3>2. clock \in Nat /\ clock <= MaxClock /\ MaxClock \in Nat
      BY <1>1
    <3>3. points[i].t \in 1 .. clock
      BY <2>2, <3>1, <3>2
    <3>4. points[i].t \in Seconds /\ points[i].t # clock + 1
      BY <3>2, <3>3 DEF Seconds
    <3> QED
      BY <2>1, <3>1, <3>4
  <2>4. ASSUME Len(points) < MaxWindow, NEW t \in 1 .. clock - Len(points) PROVE observed'[t] = 0
    <3>1. t \in Seconds /\ t # clock + 1
      BY <1>1, <2>2 DEF Seconds
    <3> QED
      BY <2>1, <2>4, <3>1 DEF LiveInv, ChartInv
  <2>5. pending' = observed'[clock + 1]
    BY <1>1, <2>1 DEF LiveInv, ChartInv, Ingest
  <2>6. \A t \in Seconds : t > clock + 1 => observed'[t] = 0
    BY <1>1, <2>1 DEF LiveInv, ChartInv, Seconds
  <2> QED
    BY <2>1, <2>2, <2>3, <2>4, <2>5, <2>6 DEF ChartInv, Ingest
<1> QED
  BY <1>2, <1>3, <1>4 DEF LiveInv

\* What the buffer holds after a tick: the points it had, but for the first one if it was
\* full, and the point of the tick.
LEMMA BufferShifts ==
  ASSUME NEW Point, NEW old \in Seq(Point), NEW p \in Point, Len(old) <= MaxWindow
  PROVE  LET longer == Append(old, p)
             new == IF Len(longer) > MaxWindow THEN Tail(longer) ELSE longer IN
         \/ /\ Len(old) = MaxWindow /\ new \in Seq(Point) /\ Len(new) = Len(old)
            /\ \A i \in 1 .. Len(new) : new[i] = IF i = Len(old) THEN p ELSE old[i + 1]
         \/ /\ Len(old) < MaxWindow /\ new \in Seq(Point) /\ Len(new) = Len(old) + 1
            /\ \A i \in 1 .. Len(new) : new[i] = IF i = Len(old) + 1 THEN p ELSE old[i]
<1> DEFINE longer == Append(old, p)
           new == IF Len(longer) > MaxWindow THEN Tail(longer) ELSE longer
           Full == /\ Len(old) = MaxWindow /\ new \in Seq(Point) /\ Len(new) = Len(old)
                   /\ \A i \in 1 .. Len(new) : new[i] = IF i = Len(old) THEN p ELSE old[i + 1]
           NotFull == /\ Len(old) < MaxWindow /\ new \in Seq(Point) /\ Len(new) = Len(old) + 1
                      /\ \A i \in 1 .. Len(new) : new[i] = IF i = Len(old) + 1 THEN p ELSE old[i]
<1>1. /\ longer \in Seq(Point) /\ Len(longer) = Len(old) + 1 /\ Len(old) \in Nat /\ MaxWindow \in Nat \ {0}
      /\ \A i \in 1 .. Len(longer) : longer[i] = IF i = Len(old) + 1 THEN p ELSE old[i]
  BY NumbersAssumption
<1>2. ASSUME Len(old) < MaxWindow PROVE NotFull
  <2> HIDE DEF longer
  <2>1. new = longer
    BY <1>1, <1>2
  <2> HIDE DEF new
  <2> QED
    BY <1>1, <1>2, <2>1
<1>3. ASSUME Len(old) = MaxWindow PROVE Full
  <2> HIDE DEF longer
  <2>1. Len(longer) > MaxWindow /\ longer # <<>>
    BY <1>1, <1>3
  <2>2. Tail(longer) \in Seq(Point) /\ Len(Tail(longer)) = Len(old)
    BY <1>1, <2>1
  <2>3. \A i \in 1 .. Len(old) : Tail(longer)[i] = longer[i + 1]
    BY <1>1, <2>1
  <2>4. \A i \in 1 .. Len(old) : Tail(longer)[i] = IF i = Len(old) THEN p ELSE old[i + 1]
    BY <1>1, <2>3
  <2>5. new = Tail(longer)
    BY <2>1
  <2> HIDE DEF new
  <2> QED
    BY <1>3, <2>2, <2>4, <2>5
<1>4. Full \/ NotFull
  <2> HIDE DEF Full, NotFull
  <2> QED
    BY <1>1, <1>2, <1>3
<1> QED
  BY <1>4

\* A second passes: what was counted becomes its point, and every stream that is heard
\* carries a frame of this moment.
LEMMA StepTick == ASSUME LiveInv, AggregatorTick PROVE LiveInv'
<1> DEFINE now == clock + 1
           status == ResolveStatus(pending, now)
           tick == [ts |-> now, bps |-> pending, feed |-> status]
<1>1. /\ clock \in Nat /\ MaxClock \in Nat /\ clock < MaxClock /\ clock' = now
      /\ mockEnabled' = mockEnabled /\ running' = running /\ reported' = reported /\ observed' = observed /\ feeds' = feeds
      /\ mockEnabled \in BOOLEAN /\ running \in BOOLEAN /\ DOMAIN view = Browsers
  BY NumbersAssumption DEF LiveInv, LiveTyped, AggregatorTick
<1>2. LiveTyped'
  <2>1. CASE running
    <3>1. pendingBy' \in [Gateways -> {None} \cup Nat]
      BY <2>1 DEF AggregatorTick
    <3>2. ASSUME NEW g \in Gateways, pendingBy[g] # None, rate[g] # None
          PROVE  [rate[g] EXCEPT !.bps = pendingBy[g]] \in [bps : Nat, at : Nat]
      BY <3>2 DEF LiveInv, LiveTyped
    <3>3. rate' = [g \in Gateways |-> IF pendingBy[g] = None \/ rate[g] = None THEN rate[g]
                                      ELSE [rate[g] EXCEPT !.bps = pendingBy[g]]]
      BY <2>1 DEF AggregatorTick
    <3>4. rate' \in [Gateways -> {None} \cup [bps : Nat, at : Nat]]
      BY <3>2, <3>3 DEF LiveInv, LiveTyped
    <3>5. DOMAIN view' = Browsers
      BY <2>1 DEF AggregatorTick
    <3> QED
      BY <1>1, <3>1, <3>4, <3>5 DEF LiveInv, LiveTyped
  <2>2. CASE ~running
    BY <1>1, <2>2 DEF LiveInv, LiveTyped, AggregatorTick
  <2> QED
    BY <1>1, <2>1, <2>2
<1>3. Seen \in BOOLEAN /\ Seen' \in BOOLEAN
  BY <1>1 DEF Seen
<1>4. \A b \in Browsers : View(view[b], now, Seen')
  BY <1>1, <1>3, ViewAged DEF LiveInv, FreshInv
<1>5. status \in {"live", "idle"} => Seen'
  BY <1>1, ResolvedIsEarned DEF Seen
<1>6. FreshInv'
  <2>1. CASE running
    <3>1. ASSUME NEW g \in Gateways, rate'[g] # None
          PROVE  reported' # None /\ rate'[g].at <= reported'
      <4>1. rate'[g] = IF pendingBy[g] = None \/ rate[g] = None THEN rate[g]
                       ELSE [rate[g] EXCEPT !.bps = pendingBy[g]]
        BY <2>1 DEF AggregatorTick
      <4>2. rate[g] # None /\ rate'[g].at = rate[g].at
        BY <3>1, <4>1 DEF LiveInv, LiveTyped
      <4> QED
        BY <1>1, <4>2 DEF LiveInv, FreshInv
    <3>2. ASSUME NEW b \in Browsers PROVE View(view'[b], now, Seen')
      <4>1. View(Apply(view[b], tick), now, Seen')
        <5> HIDE DEF status
        <5> QED
          BY <1>1, <1>3, <1>4, <1>5, ViewApplied
      <4>2. view'[b] = IF Hears(b) THEN Apply(view[b], tick) ELSE view[b]
        BY <2>1 DEF AggregatorTick
      <4> QED
        BY <1>4, <4>1, <4>2
    <3>3. feed' = status
      BY <2>1 DEF AggregatorTick
    <3> QED
      BY <1>1, <1>5, <2>1, <3>1, <3>2, <3>3 DEF FreshInv, Earned
  <2>2. CASE ~running
    <3>1. feed = "stale" /\ feed' = feed /\ rate' = rate /\ view' = view
      BY <2>2 DEF LiveInv, FreshInv, AggregatorTick
    <3> QED
      BY <1>1, <1>4, <2>2, <3>1 DEF LiveInv, FreshInv, Earned
  <2> QED
    BY <1>1, <2>1, <2>2
<1>7. ChartInv'
  <2>1. CASE running
    <3> DEFINE Point == [t : Nat, bps : Nat]
               new == [t |-> now, bps |-> pending]
    <3>1. /\ points \in Seq(Point) /\ Len(points) \in Nat /\ Len(points) <= MaxWindow /\ Len(points) <= clock
          /\ MaxWindow \in Nat /\ observed \in [Seconds -> Nat] /\ pending = observed[now]
          /\ now \in Seconds /\ now + 1 \in Seconds
      BY SMTT(30), <1>1, NumbersAssumption DEF LiveInv, ChartInv, Seconds
    <3>2. \A i \in 1 .. Len(points) : points[i].t = clock - Len(points) + i /\ points[i].bps = observed[points[i].t]
      BY DEF LiveInv, ChartInv
    <3>3. new \in Point /\ new.t = now /\ new.bps = observed[now]
      BY <1>1, <3>1
    <3> HIDE DEF new, Point
    <3>4. \/ /\ Len(points) = MaxWindow /\ points' \in Seq(Point) /\ Len(points') = Len(points)
             /\ \A i \in 1 .. Len(points') : points'[i] = IF i = Len(points) THEN new ELSE points[i + 1]
          \/ /\ Len(points) < MaxWindow /\ points' \in Seq(Point) /\ Len(points') = Len(points) + 1
             /\ \A i \in 1 .. Len(points') : points'[i] = IF i = Len(points) + 1 THEN new ELSE points[i]
      <4>1. points' = LET longer == Append(points, new) IN IF Len(longer) > MaxWindow THEN Tail(longer) ELSE longer
        BY <2>1 DEF AggregatorTick, new
      <4> QED
        BY <3>1, <3>3, <4>1, BufferShifts
    <3>5. Len(points') <= MaxWindow /\ Len(points') <= now /\ points' \in Seq(Point) /\ Len(points') \in Nat
      BY <1>1, <3>1, <3>4
    <3>6. ASSUME NEW i \in 1 .. Len(points')
          PROVE  points'[i].t = now - Len(points') + i /\ points'[i].bps = observed[points'[i].t]
      <4>1. CASE Len(points') = Len(points) /\ points'[i] = IF i = Len(points) THEN new ELSE points[i + 1]
        <5>1. CASE i = Len(points)
          BY <1>1, <3>1, <3>3, <4>1, <5>1
        <5>2. CASE i # Len(points)
          <6>1. i + 1 \in 1 .. Len(points) /\ points'[i] = points[i + 1]
            BY <3>1, <4>1, <5>2
          <6>2. points[i + 1].t = clock - Len(points) + (i + 1) /\ points[i + 1].bps = observed[points[i + 1].t]
            BY <3>2, <6>1
          <6>3. clock - Len(points) + (i + 1) = now - Len(points) + i
            BY <1>1, <3>1
          <6> QED
            BY <4>1, <6>1, <6>2, <6>3
        <5> QED
          BY <5>1, <5>2
      <4>2. CASE Len(points') = Len(points) + 1 /\ points'[i] = IF i = Len(points) + 1 THEN new ELSE points[i]
        <5>1. CASE i = Len(points) + 1
          BY <1>1, <3>1, <3>3, <4>2, <5>1
        <5>2. CASE i # Len(points) + 1
          <6>1. i \in 1 .. Len(points) /\ points'[i] = points[i]
            BY <3>1, <4>2, <5>2
          <6>2. clock - Len(points) + i = now - (Len(points) + 1) + i
            BY <1>1, <3>1
          <6> QED
            BY <3>2, <4>2, <6>1, <6>2
        <5> QED
          BY <5>1, <5>2
      <4> QED
        BY <3>4, <4>1, <4>2
    <3>7. Len(points') < MaxWindow => \A t \in 1 .. now - Len(points') : observed[t] = 0
      <4> SUFFICES ASSUME Len(points') < MaxWindow PROVE \A t \in 1 .. now - Len(points') : observed[t] = 0
        OBVIOUS
      <4>1. Len(points) < MaxWindow /\ Len(points') = Len(points) + 1
        BY <3>1, <3>4
      <4>2. now - (Len(points) + 1) = clock - Len(points)
        BY <1>1, <3>1
      <4>3. \A t \in 1 .. clock - Len(points) : observed[t] = 0
        BY <4>1 DEF LiveInv, ChartInv
      <4> QED
        BY <4>1, <4>2, <4>3
    <3>8. pending' = observed[now + 1]
      <4>1. pending' = 0
        BY <2>1 DEF AggregatorTick, Counted
      <4> QED
        BY <1>1, <3>1, <4>1 DEF LiveInv, ChartInv
    <3>9. \A t \in Seconds : t > now + 1 => observed[t] = 0
      BY <1>1 DEF LiveInv, ChartInv, Seconds
    <3> QED
      BY <1>1, <2>1, <3>1, <3>5, <3>6, <3>7, <3>8, <3>9 DEF ChartInv, Point
  <2>2. CASE ~running
    <3>1. points' = points /\ pending' = pending /\ points = <<>> /\ \A t \in Seconds : observed[t] = 0
      BY <2>2 DEF LiveInv, ChartInv, AggregatorTick
    <3>2. pending = 0 /\ now \in Seconds /\ now + 1 \in Seconds /\ 1 .. now \subseteq Seconds
      BY <1>1, <3>1 DEF LiveInv, ChartInv, Seconds
    <3> QED
      BY <1>1, <2>2, <3>1, <3>2 DEF LiveInv, ChartInv
  <2> QED
    BY <1>1, <2>1, <2>2
<1> QED
  BY <1>2, <1>6, <1>7 DEF LiveInv

LEMMA LiveStep == LiveInv /\ [LiveNext]_liveVars => LiveInv'
<1> SUFFICES ASSUME LiveInv, [LiveNext]_liveVars PROVE LiveInv'
  OBVIOUS
<1>1. CASE Feed
  BY <1>1, StepIngest DEF Feed
<1>2. CASE AggregatorTick
  BY <1>2, StepTick
<1>3. CASE Restart
  BY <1>3, StepRestart
<1>4. ASSUME NEW b \in Browsers,
             \/ Mount(b) \/ Retry(b) \/ Accept(b) \/ Refuse(b) \/ Break(b) \/ Unmount(b) \/ Freeze(b) \/ SignInOrOut(b)
             \/ \E next \in BOOLEAN : SetPaused(b, next)
      PROVE  LiveInv'
  BY <1>4, StepMount, StepRetry, StepAccept, StepRefuse, StepBreak, StepUnmount, StepFreeze, StepSignInOrOut, StepSetPaused
<1>5. ASSUME NEW stream \in listening, Cancel(stream) PROVE LiveInv'
  BY <1>5, StepCancel
<1>6. CASE UNCHANGED liveVars
  BY <1>6, NothingShown DEF liveVars, browser
<1> QED
  BY <1>1, <1>2, <1>3, <1>4, <1>5, <1>6 DEF LiveNext

\* What a browser is shown as live or idle has a report of the freshness window behind it,
\* and the chart holds what was reported in its seconds, once and without a gap (aggregator.ts).
THEOREM ShownReported == LiveSpec => []ShownIsReported
<1>1. LiveInit => LiveInv
  BY LiveInitially
<1>2. LiveInv /\ [LiveNext]_liveVars => LiveInv'
  BY LiveStep
<1>3. LiveInv => ShownIsReported
  BY LiveInvIsEnough
<1> QED
  BY <1>1, <1>2, <1>3, PTL DEF LiveSpec
=============================================================================

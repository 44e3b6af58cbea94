---------------------------- MODULE ConsoleAccess ----------------------------
(***************************************************************************)
(* Who may use the console: bootstrap of the owner, logins by password and *)
(* by access code against the ledger of failed attempts, sessions with an  *)
(* absolute and an idle limit, password changes, access codes and API keys *)
(* (src/server/auth, src/server/security/api-keys.ts, http/guard.ts).      *)
(*                                                                         *)
(* One tick is the minute within which a session is touched at most once.  *)
(* Expiry times are counted down, other times are ages.                    *)
(***************************************************************************)
EXTENDS Integers, FiniteSets

CONSTANTS
  Users,        \* accounts that the installation may come to have
  Owner,        \* the account that the bootstrap creates
  NoUser,
  Sessions,     \* rows of admin_session
  NoSession,
  Codes,        \* rows of access_code
  Keys,         \* rows of api_key
  Requests,     \* HTTP requests in progress at once
  Window,       \* AUTH_ATTEMPT_WINDOW_MINUTES
  MaxAttempts,  \* AUTH_MAX_ATTEMPTS_PER_WINDOW
  Idle,         \* SESSION_IDLE_TTL_MINUTES
  Absolute,     \* SESSION_ABSOLUTE_TTL_MINUTES
  Validity,     \* of an access code or an API key
  Operations,   \* console operations that the instance explores
  MaxChanges,   \* bound: password changes
  MaxUses       \* bound: times an operator uses a session or a credential

ASSUME NullAssumption == NoUser \notin Users /\ NoSession \notin Sessions /\ Owner \in Users
ASSUME ApartAssumption == Users \cap Codes = {}
ASSUME TimesAssumption == {Window, MaxAttempts, Idle, Absolute, Validity} \subseteq Nat \ {0}
ASSUME RequestsAssumption == IsFiniteSet(Requests)
ASSUME AccessBounds == MaxChanges \in Nat \ {0} /\ MaxUses \in Nat

VARIABLES
  user,       \* [Users -> User]
  session,    \* [Sessions -> Session]
  code, key,  \* access codes and API keys
  ledger,     \* [Identifiers -> [Ages -> Failures]]: auth_attempt rows of an age or less
  req,        \* [Requests -> Request]
  used,       \* [Sessions -> age]: since a request was last let in by the session
  uses

vars == <<user, session, code, key, ledger, req, used, uses>>

Identifiers == Users \cup Codes
Ages == 0 .. Window - 1
IdleAges == 0 .. Idle + 1

User == [exists: BOOLEAN, active: BOOLEAN, password: 0 .. MaxChanges, changed: 0 .. MaxChanges]
Session == [state: {"none", "live", "revoked"}, user: Users \cup {NoUser}, token: 0 .. MaxUses,
            idle: IdleAges, left: 0 .. Absolute, since: 0 .. MaxChanges, overtaken: 0 .. MaxChanges]
Credential == [state: {"none", "live", "revoked"}, left: 0 .. Validity, creator: Users \cup {NoUser}]
Failures == [bad: Nat, refused: 0 .. MaxAttempts]
\* History: `since` is the password change that the login has seen, `overtaken` the one that came
\* between its verification and its session.
Steps == {"free", "bootstrap", "verify", "refuse", "failed", "login", "expire", "touch",
          "admitted", "rotate", "change", "logout"}
Request == [step: Steps, id: Identifiers \cup {NoUser}, user: Users \cup {NoUser},
            session: Sessions \cup {NoSession}, since: 0 .. MaxChanges, overtaken: 0 .. MaxChanges]

Free == [step |-> "free", id |-> NoUser, user |-> NoUser, session |-> NoSession, since |-> 0, overtaken |-> 0]
NoCredential == [state |-> "none", left |-> 0, creator |-> NoUser]
NoRow == [state |-> "none", user |-> NoUser, token |-> 0, idle |-> 0, left |-> 0, since |-> 0, overtaken |-> 0]

Init ==
  /\ user = [u \in Users |-> [exists |-> u # Owner, active |-> TRUE, password |-> 0, changed |-> 0]]
  /\ session = [s \in Sessions |-> NoRow]
  /\ code = [c \in Codes |-> NoCredential]
  /\ key = [k \in Keys |-> NoCredential]
  /\ ledger = [i \in Identifiers |-> [a \in Ages |-> [bad |-> 0, refused |-> 0]]]
  /\ req = [r \in Requests |-> Free]
  /\ used = [s \in Sessions |-> 0]
  /\ uses = 0

Goto(r, step) == req' = [req EXCEPT ![r] = [@ EXCEPT !.step = step]]
End(r) == req' = [req EXCEPT ![r] = Free]

Use(operation) ==
  /\ operation \in Operations
  /\ uses < MaxUses
  /\ uses' = uses + 1

Older(age, limit) == IF age < limit THEN age + 1 ELSE age
Less(left) == IF left > 0 THEN left - 1 ELSE 0

\* Mutant: failed attempts never leave the window.
AgedMutant(attempts) == attempts
\* createdAt >= since: what is older than the window counts no more.
Aged(attempts) ==
  [a \in Ages |-> IF a = 0 THEN [bad |-> 0, refused |-> 0] ELSE attempts[a - 1]]

Tick ==
  /\ session' = [s \in Sessions |-> [session[s] EXCEPT !.idle = Older(@, Idle + 1),
                                                        !.left = Less(@)]]
  /\ used' = [s \in Sessions |-> Older(used[s], Idle + 1)]
  /\ code' = [c \in Codes |-> [code[c] EXCEPT !.left = Less(@)]]
  /\ key' = [k \in Keys |-> [key[k] EXCEPT !.left = Less(@)]]
  /\ ledger' = [i \in Identifiers |-> Aged(ledger[i])]
  /\ UNCHANGED <<user, req, uses>>

-----------------------------------------------------------------------------
(* Bootstrap: count the accounts, then create the owner and its code. *)

StartBootstrap(r) ==
  /\ req[r].step = "free"
  /\ ~\E u \in Users : user[u].exists
  /\ Goto(r, "bootstrap")
  /\ UNCHANGED <<user, session, code, key, ledger, used, uses>>

\* The unique key of admin_user.username.
NameTaken == user[Owner].exists

CreateOwner(r, c, password) ==
  /\ req[r].step = "bootstrap"
  /\ ~NameTaken
  /\ code[c].state = "none"
  /\ user' = [user EXCEPT ![Owner] = [@ EXCEPT !.exists = TRUE, !.password = password]]
  /\ code' = [code EXCEPT ![c] = [state |-> "live", left |-> Validity, creator |-> Owner]]
  /\ End(r)
  /\ UNCHANGED <<session, key, ledger, used, uses>>

BootstrapFails(r) ==
  /\ req[r].step = "bootstrap"
  /\ NameTaken
  /\ End(r)
  /\ UNCHANGED <<user, session, code, key, ledger, used, uses>>

-----------------------------------------------------------------------------
(* Logins. *)

Bad(i) == ledger[i][Window - 1].bad
Refused(i) == ledger[i][Window - 1].refused

\* Mutant: the limiter lets one attempt too many pass.
BlockedMutant(i) == Bad(i) + Refused(i) > MaxAttempts
\* checkAuthRateLimit counts every failed attempt in the window, those it has turned
\* away among them.
Blocked(i) == Bad(i) + Refused(i) >= MaxAttempts

StartLogin(r, i) ==
  /\ Use("login")
  /\ req[r].step = "free"
  /\ \E u \in Users : user[u].exists
  /\ req' = [req EXCEPT ![r] = [Free EXCEPT !.step = IF Blocked(i) THEN "refuse" ELSE "verify",
                                            !.id = i]]
  /\ UNCHANGED <<user, session, code, key, ledger, used>>

\* recordAuthAttempt: a new row is of every age or less.  Refusals beyond the limit make no
\* difference and are not counted.
OneRefused(failures) == [failures EXCEPT !.refused = IF @ < MaxAttempts THEN @ + 1 ELSE @]
OneBad(failures) == [failures EXCEPT !.bad = @ + 1]

\* The attempt was one that the limiter has turned away.
RecordRefused(r) ==
  /\ req[r].step = "refuse"
  /\ ledger' = [ledger EXCEPT ![req[r].id] = [a \in Ages |-> OneRefused(@[a])]]
  /\ End(r)
  /\ UNCHANGED <<user, session, code, key, used, uses>>

RecordFailed(r) ==
  /\ req[r].step = "failed"
  /\ ledger' = [ledger EXCEPT ![req[r].id] = [a \in Ages |-> OneBad(@[a])]]
  /\ End(r)
  /\ UNCHANGED <<user, session, code, key, used, uses>>

\* The login goes on with the account that it read.
Verified(r, u) ==
  req' = [req EXCEPT ![r] = [@ EXCEPT !.step = "login", !.user = u, !.since = user[u].changed]]

\* What a login with the right or a wrong secret is found to be.
VerifyPassword(r, right) ==
  LET u == req[r].id IN
  /\ req[r].step = "verify"
  /\ u \in Users
  /\ IF right /\ user[u].exists /\ user[u].password > 0 /\ user[u].active
     THEN Verified(r, u)
     ELSE Goto(r, "failed")
  /\ UNCHANGED <<user, session, code, key, ledger, used, uses>>

Usable(credential) == credential.state = "live" /\ credential.left > 0

VerifyCode(r) ==
  LET c == req[r].id IN
  /\ req[r].step = "verify"
  /\ c \in Codes
  /\ IF Usable(code[c]) /\ user[code[c].creator].active
     THEN Verified(r, code[c].creator)
     ELSE Goto(r, "failed")
  /\ UNCHANGED <<user, session, code, key, ledger, used, uses>>

\* Nothing of what was verified is looked at again.
CreateSession(r, s) ==
  /\ req[r].step = "login"
  /\ session[s].state = "none"
  /\ session' = [session EXCEPT ![s] =
                   [state |-> "live", user |-> req[r].user, token |-> 0, idle |-> 0,
                    left |-> Absolute, since |-> req[r].since, overtaken |-> req[r].overtaken]]
  /\ used' = [used EXCEPT ![s] = 0]
  /\ End(r)
  /\ UNCHANGED <<user, code, key, ledger, uses>>

-----------------------------------------------------------------------------
(* A console request, and what getSession makes of its cookie. *)

\* More than a minute since the last touch.
TouchDue(row) == row.idle > 0

StartRequest(r, s, token) ==
  /\ Use("request")
  /\ req[r].step = "free"
  /\ session[s].state = "live"
  /\ session[s].token = token
  /\ session[s].left > 0
  /\ IF session[s].idle > Idle
     THEN /\ req' = [req EXCEPT ![r] = [Free EXCEPT !.step = "expire", !.session = s]]
          /\ UNCHANGED used
     ELSE /\ user[session[s].user].active
          /\ req' = [req EXCEPT ![r] =
                       [Free EXCEPT !.step = IF TouchDue(session[s]) THEN "touch" ELSE "admitted",
                                    !.user = session[s].user, !.session = s]]
          /\ used' = [used EXCEPT ![s] = 0]
  /\ UNCHANGED <<user, session, code, key, ledger>>

Revoked(s) == session' = [session EXCEPT ![s] = [@ EXCEPT !.state = "revoked"]]

ExpireIdle(r) ==
  /\ req[r].step = "expire"
  /\ Revoked(req[r].session)
  /\ End(r)
  /\ UNCHANGED <<user, code, key, ledger, used, uses>>

Touch(r) ==
  /\ req[r].step = "touch"
  /\ session' = [session EXCEPT ![req[r].session] = [@ EXCEPT !.idle = 0]]
  /\ Goto(r, "admitted")
  /\ UNCHANGED <<user, code, key, ledger, used, uses>>

\* A handler that changes nothing of what this module is about.
Answer(r) ==
  /\ req[r].step = "admitted"
  /\ End(r)
  /\ UNCHANGED <<user, session, code, key, ledger, used, uses>>

Admitted(r, operation) == req[r].step = "admitted" /\ operation \in Operations

-----------------------------------------------------------------------------
(* Sessions and passwords. *)

\* logout reads the session of the cookie, also one that has expired or of an account that was
\* switched off: no guard comes before it.
StartLogout(r, s) ==
  /\ Use("logout")
  /\ req[r].step = "free"
  /\ session[s].state = "live"
  /\ req' = [req EXCEPT ![r] = [Free EXCEPT !.step = "logout", !.session = s]]
  /\ UNCHANGED <<user, session, code, key, ledger, used>>

Logout(r) ==
  /\ req[r].step = "logout"
  /\ Revoked(req[r].session)
  /\ End(r)
  /\ UNCHANGED <<user, code, key, ledger, used, uses>>

RevokeSessionById(r, s) ==
  /\ Admitted(r, "revokeSession")
  /\ session[s].state # "none"
  /\ Revoked(s)
  /\ End(r)
  /\ UNCHANGED <<user, code, key, ledger, used, uses>>

\* Mutant: the session in use is kept.
EndedMutant(row) == IF row.state = "live" /\ row.idle > 0 THEN [row EXCEPT !.state = "revoked"] ELSE row
Ended(row) == IF row.state = "live" THEN [row EXCEPT !.state = "revoked"] ELSE row

SessionsEnded(u) ==
  session' = [s \in Sessions |-> IF session[s].user = u THEN Ended(session[s]) ELSE session[s]]

RevokeUserSessions(r, u) ==
  /\ Admitted(r, "revokeSession")
  /\ SessionsEnded(u)
  /\ End(r)
  /\ UNCHANGED <<user, code, key, ledger, used, uses>>

\* The row survives, its token changes, whether or not it was revoked meanwhile.
RotateSession(r) ==
  LET s == req[r].session IN
  /\ Admitted(r, "rotateSession")
  /\ session[s].token < MaxUses
  /\ session' = [session EXCEPT ![s].token = @ + 1, ![s].idle = 0]
  /\ End(r)
  /\ UNCHANGED <<user, code, key, ledger, used, uses>>

\* changeOwnPassword reads the account and verifies its password, or, if there is none
\* yet, any usable access code.
StartChange(r) ==
  LET u == req[r].user IN
  /\ Admitted(r, "changePassword")
  /\ user[u].active
  /\ user[u].password = 0 => \E c \in Codes : Usable(code[c])
  /\ Goto(r, "change")
  /\ UNCHANGED <<user, session, code, key, ledger, used, uses>>

\* The request ends, and the change overtakes the logins of the account in flight.
Overtake(r, u) ==
  req' = [q \in Requests |->
            IF q = r THEN Free
            ELSE IF req[q].step = "login" /\ req[q].user = u THEN [req[q] EXCEPT !.overtaken = user[u].changed + 1]
            ELSE req[q]]

ChangeOwnPassword(r) ==
  LET u == req[r].user IN
  /\ req[r].step = "change"
  /\ user[u].password < MaxChanges
  /\ user' = [user EXCEPT ![u].password = @ + 1, ![u].changed = @ + 1]
  /\ SessionsEnded(u)
  /\ Overtake(r, u)
  /\ UNCHANGED <<code, key, ledger, used, uses>>

\* A password set by another operator ends no session.
SetPassword(r, u) ==
  /\ Admitted(r, "setPassword")
  /\ user[u].exists
  /\ user[u].password < MaxChanges
  /\ user' = [user EXCEPT ![u].password = @ + 1]
  /\ End(r)
  /\ UNCHANGED <<session, code, key, ledger, used, uses>>

\* An account is switched off in the database; no handler does.
Deactivate(u) ==
  /\ Use("deactivate")
  /\ user' = [user EXCEPT ![u] = [@ EXCEPT !.active = FALSE]]
  /\ UNCHANGED <<session, code, key, ledger, req, used>>

-----------------------------------------------------------------------------
(* Access codes and API keys. *)

Issued(u) == [state |-> "live", left |-> Validity, creator |-> u]

CreateAccessCode(r, c) ==
  /\ Admitted(r, "codes")
  /\ code[c].state = "none"
  /\ code' = [code EXCEPT ![c] = Issued(req[r].user)]
  /\ End(r)
  /\ UNCHANGED <<user, session, key, ledger, used, uses>>

RevokeAccessCode(r, c) ==
  /\ Admitted(r, "codes")
  /\ code[c].state # "none"
  /\ code' = [code EXCEPT ![c] = [@ EXCEPT !.state = "revoked"]]
  /\ End(r)
  /\ UNCHANGED <<user, session, key, ledger, used, uses>>

\* The new code inherits the expiry of the one it replaces, which may be revoked already.
RotateAccessCode(r, old, new) ==
  /\ Admitted(r, "codes")
  /\ code[old].state # "none"
  /\ code[new].state = "none"
  /\ code' = [code EXCEPT ![old] = [@ EXCEPT !.state = "revoked"],
                          ![new] = [Issued(req[r].user) EXCEPT !.left = code[old].left]]
  /\ End(r)
  /\ UNCHANGED <<user, session, key, ledger, used, uses>>

CreateApiKey(r, k) ==
  /\ Admitted(r, "keys")
  /\ key[k].state = "none"
  /\ key' = [key EXCEPT ![k] = Issued(req[r].user)]
  /\ End(r)
  /\ UNCHANGED <<user, session, code, ledger, used, uses>>

RevokeApiKey(r, k) ==
  /\ Admitted(r, "keys")
  /\ key[k].state # "none"
  /\ key' = [key EXCEPT ![k] = [@ EXCEPT !.state = "revoked"]]
  /\ End(r)
  /\ UNCHANGED <<user, session, code, ledger, used, uses>>

\* lastUsedAt is all that a call with an API key writes.
ApiCall(k) ==
  /\ Use("keys")
  /\ Usable(key[k])
  /\ UNCHANGED <<user, session, code, key, ledger, req, used>>

-----------------------------------------------------------------------------

Proceed(r) ==
  \/ \E c \in Codes, password \in 0 .. 1 : CreateOwner(r, c, password)
  \/ BootstrapFails(r)
  \/ RecordRefused(r)
  \/ RecordFailed(r)
  \/ \E right \in BOOLEAN : VerifyPassword(r, right)
  \/ VerifyCode(r)
  \/ \E s \in Sessions : CreateSession(r, s)
  \/ ExpireIdle(r)
  \/ Touch(r)
  \/ Answer(r)
  \/ Logout(r)
  \/ ChangeOwnPassword(r)

Handle(r) ==
  \/ \E s \in Sessions : RevokeSessionById(r, s)
  \/ \E u \in Users : RevokeUserSessions(r, u)
  \/ RotateSession(r)
  \/ StartChange(r)
  \/ \E u \in Users : SetPassword(r, u)
  \/ \E c \in Codes : CreateAccessCode(r, c)
  \/ \E c \in Codes : RevokeAccessCode(r, c)
  \/ \E old, new \in Codes : RotateAccessCode(r, old, new)
  \/ \E k \in Keys : CreateApiKey(r, k)
  \/ \E k \in Keys : RevokeApiKey(r, k)

Next ==
  \/ Tick
  \/ \E r \in Requests : StartBootstrap(r)
  \/ \E r \in Requests, i \in Identifiers : StartLogin(r, i)
  \/ \E r \in Requests, s \in Sessions, token \in 0 .. MaxUses : StartRequest(r, s, token)
  \/ \E r \in Requests, s \in Sessions : StartLogout(r, s)
  \/ \E r \in Requests : Proceed(r) \/ Handle(r)
  \/ \E u \in Users : Deactivate(u)
  \/ \E k \in Keys : ApiCall(k)

Spec == Init /\ [][Next]_vars
\* Time passes and a request that has been started is carried on with.
FairSpec == Spec /\ WF_vars(Tick) /\ \A r \in Requests : WF_vars(Proceed(r))

-----------------------------------------------------------------------------

\* Every row and every request in progress has its shape.
TypeOK ==
  /\ user \in [Users -> User]
  /\ session \in [Sessions -> Session]
  /\ code \in [Codes -> Credential]
  /\ key \in [Keys -> Credential]
  /\ ledger \in [Identifiers -> [Ages -> Failures]]
  /\ req \in [Requests -> Request]
  /\ used \in [Sessions -> IdleAges]
  /\ uses \in 0 .. MaxUses

\* An account's own password change leaves no session of it alive, whatever other requests do to
\* sessions meanwhile (auth/service.ts:441).  A session that is alive is of a login that verified
\* its secret after the last change, or was between its verification and its session
\* (auth/service.ts:186, 235) at that very change, which it then outlives.
ChangeEndsSessions ==
  \A s \in Sessions :
    session[s].state = "live" => user[session[s].user].changed \in {session[s].since, session[s].overtaken}

\* What the idle limit is measured from is, to the minute, the last use of the session,
\* although uses are seldom written; only a touch on its way may still be missing
\* (auth/service.ts:532, 543).
IdleMeansUnused ==
  \A s \in Sessions :
    \/ session[s].idle <= used[s]
    \/ \E r \in Requests : req[r].step = "touch" /\ req[r].session = s

\* What is alive of the sessions of an account are those that its last password change did not
\* find, and how long they are idle is not lost.
SessionsAreEntitled == ChangeEndsSessions /\ IdleMeansUnused

\* Requests the limiter has let pass whose guess is not in the ledger yet.
Guessing(i) == {r \in Requests : req[r].step \in {"verify", "failed"} /\ req[r].id = i}

\* Requests may pass the limiter together before one of them has recorded its failure,
\* but then each adds one guess: the window never holds more wrong guesses than the
\* limit allows and the requests in progress add (rate-limit.ts:70, service.ts:189).
GuessesBounded ==
  \A i \in Identifiers : Bad(i) + Cardinality(Guessing(i)) < MaxAttempts + Cardinality(Requests)

\* A lockout ends by itself once attempts stop (rate-limit.ts:73).
LockoutEnds == \A i \in Identifiers : Blocked(i) ~> ~Blocked(i)
=============================================================================

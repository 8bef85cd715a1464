---------------------------- MODULE OperatorLogin ----------------------------
(***************************************************************************)
(* The operator's account and sessions (src/identity): the two steps of a  *)
(* login, the sessions, and the changes behind a confirmed password.       *)
(*                                                                         *)
(* A request runs in turns that its awaits separate: reading the form, the *)
(* delay of the throttle, scrypt.  Rows are read in one turn and written   *)
(* in a later one, so the record of a request holds what it read.  The     *)
(* throttle only lengthens a wait that has no bound here, so its counts    *)
(* are left out.  One tick of the clock is one TOTP step.                  *)
(***************************************************************************)
EXTENDS Integers, FiniteSets

CONSTANTS
  Request, Session,        \* what a run of the model handles
  Password, Secret, RecoveryCode,
  NoLoginRow, NoCode,
  IdleTTL, AbsoluteTTL,    \* SESSION_IDLE_TTL_MS, absoluteTtlMs
  ThrottleWindow,                  \* REAUTHENTICATION_WINDOW_MS
  StateTTL,                \* STATE_TTL_MS
  MaxTime,                 \* bound: the clock stops here
  MaxOpen                  \* bound: the requests handled at the same time

ASSUME LoginBounds ==
  {IdleTTL, AbsoluteTTL, ThrottleWindow, StateTTL, MaxTime, MaxOpen} \subseteq Nat \ {0}

Never == -1
Time == 0..MaxTime
\* A six-digit code is one of a secret and a step; no two of them are equal.
Totp == [secret : Secret, step : -1..(MaxTime + 1)]

OperatorRow == [password : Password, weak : BOOLEAN, secret : Secret, lastStep : -1..(MaxTime + 1)]
SessionRow == [createdAt : Time, expiresAt : Nat, confirmedAt : Time \cup {Never}]
Stage == {"new", "password", "rehash", "second", "form", "confirm", "change", "over"}

VARIABLES
  now,       \* Date.now()
  operator,  \* the row of table operators; weak: hashed with older parameters
  unused,    \* table recovery_codes: those with used_at NULL
  sessions,  \* table sessions
  states,    \* the sealed state cookies that say the password was verified
  request,   \* the requests, with what each has read
  chosen,    \* history: the password set last
  opened,    \* history: what opened each session
  keepers,   \* history: the sessions the last change of the password kept
  given,     \* history: the recovery codes and secrets that were drawn
  crossed    \* history: what happened across a login: another one's second step, a change of the password

rows == <<operator, unused, sessions>>
history == <<chosen, opened, keepers, given, crossed>>
vars == <<now, rows, states, request, history>>

Opening == [code : Totp \cup RecoveryCode, password : Password]

\* No row is a row; a code of the authenticator has six digits, a recovery code has not.
ASSUME LoginAssumption ==
  /\ NoLoginRow \notin SessionRow \cup Session \cup Opening
  /\ RecoveryCode \cap Totp = {}

\* A row, a cookie or a request holds values of its columns.
TypeOK ==
  /\ now \in Time
  /\ operator \in OperatorRow
  /\ unused \subseteq RecoveryCode
  /\ sessions \in [Session -> SessionRow \cup {NoLoginRow}]
  /\ states \subseteq [until : Nat, password : Password]
  /\ \A r \in Request :
       /\ request[r].stage \in Stage
       /\ request[r].session \in Session \cup {NoLoginRow}
       /\ request[r].read \in OperatorRow \cup {NoLoginRow}
       /\ request[r].typed \in Password \cup {NoLoginRow}
       /\ request[r].code \in Totp \cup RecoveryCode \cup {NoCode}
       /\ request[r].isConfirmed \in BOOLEAN
  /\ chosen \in Password
  /\ opened \in [Session -> Opening \cup {NoLoginRow}]

Blank == [stage |-> "new", session |-> NoLoginRow, isConfirmed |-> FALSE,
          read |-> NoLoginRow, typed |-> NoLoginRow, code |-> NoCode]
Over == [Blank EXCEPT !.stage = "over"]

\* After the setup: one operator, whose hash may be older than this build.
Init ==
  /\ now = 0
  /\ \E p \in Password, s \in Secret, w \in BOOLEAN, c \in RecoveryCode :
       /\ operator = [password |-> p, weak |-> w, secret |-> s, lastStep |-> Never]
       /\ unused = {c}
       /\ chosen = p
       /\ given = {c, s}
  /\ sessions = [s \in Session |-> NoLoginRow]
  /\ states = {}
  /\ request = [r \in Request |-> Blank]
  /\ opened = [s \in Session |-> NoLoginRow]
  /\ keepers = {}
  /\ crossed = {}

Open == {r \in Request : request[r].stage \notin {"new", "over"}}
CanArrive(r) == request[r].stage = "new" /\ Cardinality(Open) < MaxOpen
Becomes(r, rec) == request' = [request EXCEPT ![r] = rec]

-----------------------------------------------------------------------------
(* Sessions.                                                               *)

Minimum(a, b) == IF a < b THEN a ELSE b

\* nextSessionExpiry().
NextExpiry(created) == Minimum(now + IdleTTL, created + AbsoluteTTL)

Live(s) == sessions[s] # NoLoginRow /\ sessions[s].expiresAt > now

\* Mutant: the row is written back as it was read, whether or not it is there.
TouchUpserts(s) ==
  IF opened[s] = NoLoginRow THEN sessions
  ELSE [sessions EXCEPT ![s] = [createdAt |-> 0, expiresAt |-> now + IdleTTL, confirmedAt |-> Never]]

\* resolve(): an expired row is deleted, any other is refreshed.
Touched(s) ==
  IF Live(s) THEN [sessions EXCEPT ![s].expiresAt = NextExpiry(sessions[s].createdAt)]
  ELSE [sessions EXCEPT ![s] = NoLoginRow]

\* toState(): whether the password was confirmed lately.
Confirmed(s) == /\ sessions[s].confirmedAt # Never
                /\ now - sessions[s].confirmedAt < ThrottleWindow

\* attachSession(), for a request that carries the cookie of a session.  One
\* that is not live is answered with a redirect or a 403.
Arrive(r, s) ==
  /\ CanArrive(r)
  /\ opened[s] # NoLoginRow
  /\ sessions' = Touched(s)
  /\ IF Live(s)
       THEN Becomes(r, [Blank EXCEPT !.stage = "form", !.session = s, !.isConfirmed = Confirmed(s)])
       ELSE Becomes(r, Over)
  /\ UNCHANGED <<now, operator, unused, states, history>>

\* The maintenance rule of sessions.
MaintainSessions ==
  /\ \E s \in Session : sessions[s] # NoLoginRow /\ ~Live(s)
  /\ sessions' = [s \in Session |-> IF Live(s) THEN sessions[s] ELSE NoLoginRow]
  /\ UNCHANGED <<now, operator, unused, states, request, history>>

Ended(s) == [sessions EXCEPT ![s] = NoLoginRow]

-----------------------------------------------------------------------------
(* POST /login.                                                            *)

\* The row is read before the throttle's delay.
Login(r, p) ==
  /\ CanArrive(r)
  /\ Becomes(r, [Blank EXCEPT !.stage = "password", !.typed = p, !.read = operator])
  /\ UNCHANGED <<now, rows, states, history>>

VerifiedState(p) == [until |-> now + StateTTL, password |-> p]

\* scrypt said whether the password is that of the hash that was read.
PasswordChecked(r) ==
  LET q == request[r] IN
  /\ q.stage = "password"
  /\ IF q.typed # q.read.password
       THEN Becomes(r, Over) /\ UNCHANGED states
     ELSE IF q.read.weak
       THEN Becomes(r, [q EXCEPT !.stage = "rehash"]) /\ UNCHANGED states
     ELSE Becomes(r, Over) /\ states' = states \cup {VerifiedState(q.typed)}
  /\ UNCHANGED <<now, rows, history>>

\* The password that was verified is hashed anew and stored.
Rehashed(r) ==
  LET q == request[r] IN
  /\ q.stage = "rehash"
  /\ operator' = [operator EXCEPT !.password = q.typed, !.weak = FALSE]
  /\ states' = states \cup {VerifiedState(q.typed)}
  /\ Becomes(r, Over)
  /\ UNCHANGED <<now, unused, sessions, history>>

-----------------------------------------------------------------------------
(* POST /login/verify.                                                     *)

SecondSteps == {r \in Request : request[r].stage = "second"}
LoginsUnderWay ==
  \/ \E c \in states : c.until > now
  \/ \E r \in Request : request[r].stage \in {"password", "rehash", "second"}

\* The cookie says only that the password was verified; which one it was is
\* kept for the properties.  The request may carry a session's cookie as well.
Verify(r, c, code, s) ==
  /\ CanArrive(r)
  /\ c \in states /\ c.until > now
  /\ s # NoLoginRow => opened[s] # NoLoginRow
  /\ sessions' = IF s = NoLoginRow THEN sessions ELSE Touched(s)
  /\ Becomes(r, [Blank EXCEPT !.stage = "second", !.typed = c.password, !.code = code, !.read = operator,
                              !.session = IF s # NoLoginRow /\ Live(s) THEN s ELSE NoLoginRow])
  /\ crossed' = IF SecondSteps = {} THEN crossed ELSE crossed \cup {"code"}
  /\ UNCHANGED <<now, operator, unused, states, chosen, opened, keepers, given>>

\* verifyTotp(): a step of the window that is later than the last one.
InWindow(code, secret, lastStep) ==
  /\ code.secret = secret
  /\ code.step \in (now - 1)..(now + 1)
  /\ code.step > lastStep

\* The session that takes the place of the one the browser had.
StartSession(r, s) ==
  LET q == request[r] IN
  /\ opened[s] = NoLoginRow
  /\ sessions' = [t \in Session |->
       IF t = s THEN [createdAt |-> now, expiresAt |-> NextExpiry(now), confirmedAt |-> Never]
       ELSE IF t = q.session THEN NoLoginRow
       ELSE sessions[t]]
  /\ opened' = [opened EXCEPT ![s] = [code |-> q.code, password |-> q.typed]]
  /\ UNCHANGED <<chosen, keepers, given, crossed>>

LoginRefused(r) == Becomes(r, Over) /\ UNCHANGED <<now, rows, states, history>>

\* verifySecondFactor() with six digits: against the row that was read, but the
\* step is stored in the row as it is.
TotpAccepted(r, s) ==
  LET q == request[r] IN
  /\ q.stage = "second" /\ q.code \in Totp
  /\ InWindow(q.code, q.read.secret, q.read.lastStep)
  /\ operator' = [operator EXCEPT !.lastStep = q.code.step]
  /\ StartSession(r, s)
  /\ Becomes(r, Over)
  /\ UNCHANGED <<now, unused, states>>

TotpRefused(r) ==
  LET q == request[r] IN
  /\ q.stage = "second" /\ q.code \in Totp
  /\ ~InWindow(q.code, q.read.secret, q.read.lastStep)
  /\ LoginRefused(r)

\* Mutant: consume() does not mark the code.
RecoveryUnmarked(r, s) ==
  LET q == request[r] IN
  /\ q.stage = "second" /\ q.code \in unused
  /\ StartSession(r, s)
  /\ Becomes(r, Over)
  /\ UNCHANGED <<now, operator, unused, states>>

\* verifySecondFactor() with anything else: consume() is one UPDATE.
RecoveryAccepted(r, s) ==
  LET q == request[r] IN
  /\ q.stage = "second" /\ q.code \in unused
  /\ unused' = unused \ {q.code}
  /\ StartSession(r, s)
  /\ Becomes(r, Over)
  /\ UNCHANGED <<now, operator, states>>

RecoveryRefused(r) ==
  /\ request[r].stage = "second" /\ request[r].code \in RecoveryCode \ unused
  /\ LoginRefused(r)

-----------------------------------------------------------------------------
(* POST /account and POST /logout, once the form is read.                  *)

Logout(r) ==
  /\ request[r].stage = "form"
  /\ sessions' = Ended(request[r].session)
  /\ Becomes(r, Over)
  /\ UNCHANGED <<now, operator, unused, states, history>>

\* reauthenticate(): reads the row, then waits for the throttle and scrypt.
ConfirmBegun(r, p) ==
  /\ request[r].stage = "form"
  /\ Becomes(r, [request[r] EXCEPT !.stage = "confirm", !.typed = p, !.read = operator])
  /\ UNCHANGED <<now, rows, states, history>>

\* markReauthenticated() updates the row, if it is still there.
ConfirmAccepted(r) ==
  LET q == request[r] IN
  /\ q.stage = "confirm" /\ q.typed = q.read.password
  /\ sessions' = IF sessions[q.session] = NoLoginRow THEN sessions
                 ELSE [sessions EXCEPT ![q.session].confirmedAt = now]
  /\ Becomes(r, Over)
  /\ UNCHANGED <<now, operator, unused, states, history>>

ConfirmRefused(r) ==
  /\ request[r].stage = "confirm" /\ request[r].typed # request[r].read.password
  /\ LoginRefused(r)

\* requireReauthenticated(): by what the session said when the request came.
Sensitive(r) == request[r].stage = "form" /\ request[r].isConfirmed

ChangeBegun(r, p) ==
  /\ Sensitive(r)
  /\ Becomes(r, [request[r] EXCEPT !.stage = "change", !.typed = p])
  /\ UNCHANGED <<now, rows, states, history>>

\* changePassword(), once the password is hashed.
ChangeDone(r) ==
  LET q == request[r] IN
  /\ q.stage = "change"
  /\ operator' = [operator EXCEPT !.password = q.typed, !.weak = FALSE]
  /\ sessions' = [s \in Session |-> IF s = q.session THEN sessions[s] ELSE NoLoginRow]
  /\ chosen' = q.typed
  /\ keepers' = {q.session}
  /\ crossed' = IF LoginsUnderWay THEN crossed \cup {"change"} ELSE crossed
  /\ Becomes(r, Over)
  /\ UNCHANGED <<now, unused, states, opened, given>>

\* rotateTotp() with the code of the secret that was drawn for the form before.
\* It writes two statements.
RotateTotp(r, secret, step) ==
  /\ Sensitive(r)
  /\ secret \in Secret \ given
  /\ step \in (now - 1)..(now + 1)
  /\ operator' = [operator EXCEPT !.secret = secret, !.lastStep = step]
  /\ given' = given \cup {secret}
  /\ Becomes(r, Over)
  /\ UNCHANGED <<now, unused, sessions, states, chosen, opened, keepers, crossed>>

RegenerateRecoveryCodes(r, codes) ==
  /\ Sensitive(r)
  /\ codes \subseteq RecoveryCode \ given
  /\ unused' = codes
  /\ given' = given \cup codes
  /\ Becomes(r, Over)
  /\ UNCHANGED <<now, operator, sessions, states, chosen, opened, keepers, crossed>>

Tick ==
  /\ now < MaxTime
  /\ now' = now + 1
  /\ UNCHANGED <<rows, states, request, history>>

\* The process is killed: what it was handling gets no answer.  In the middle of
\* rotateTotp(), the new secret may be stored without the step.
Kill ==
  /\ Open # {}
  /\ request' = [r \in Request |-> IF r \in Open THEN Over ELSE request[r]]
  /\ \/ UNCHANGED <<operator, given>>
     \/ \E r \in Request, secret \in Secret \ given :
          /\ Sensitive(r)
          /\ operator' = [operator EXCEPT !.secret = secret, !.lastStep = Never]
          /\ given' = given \cup {secret}
  /\ UNCHANGED <<now, unused, sessions, states, chosen, opened, keepers, crossed>>

Codes == [secret : Secret, step : (now - 1)..(now + 1)] \cup RecoveryCode

Next ==
  \/ Tick \/ Kill \/ MaintainSessions
  \/ \E r \in Request :
       \/ \E s \in Session : Arrive(r, s) \/ TotpAccepted(r, s) \/ RecoveryAccepted(r, s)
       \/ \E p \in Password : Login(r, p) \/ ConfirmBegun(r, p) \/ ChangeBegun(r, p)
       \/ \E c \in states, code \in Codes, s \in Session \cup {NoLoginRow} : Verify(r, c, code, s)
       \/ \E secret \in Secret, step \in (now - 1)..(now + 1) : RotateTotp(r, secret, step)
       \/ \E codes \in SUBSET RecoveryCode : RegenerateRecoveryCodes(r, codes)
       \/ PasswordChecked(r) \/ Rehashed(r) \/ TotpRefused(r) \/ RecoveryRefused(r)
       \/ Logout(r) \/ ConfirmAccepted(r) \/ ConfirmRefused(r) \/ ChangeDone(r)

Spec == Init /\ [][Next]_vars

-----------------------------------------------------------------------------

\* ID-11: a recovery code opens one session, however many requests carry it at
\* the same time.
RecoveryOnce ==
  \A s, t \in Session :
    opened[s] # NoLoginRow /\ opened[t] # NoLoginRow /\ opened[s].code = opened[t].code
      /\ opened[s].code \in RecoveryCode => s = t

\* ID-10: "MUST reject a code whose step is <= the last accepted step": no code
\* of the authenticator opens two sessions either, however verifySecondFactor()
\* of two requests is ordered.
SecondFactorOnce ==
  \A s, t \in Session :
    opened[s] # NoLoginRow /\ opened[t] # NoLoginRow /\ opened[s].code = opened[t].code => s = t

\* ID-15, routes-account.ts: "Password changed.": the password is the one that
\* changePassword() stored last, whatever logins were under way.
PasswordStays == operator.password = chosen

\* 10-operations.md: "change password (invalidates all sessions)": but for the
\* session that changed it, each was opened with the password of now.
OldPasswordOut ==
  \A s \in Session : Live(s) => opened[s].password = chosen \/ s \in keepers

\* All three hold of logins that cross neither one another nor a change of the
\* password: no sequence of requests, killed or not, breaks them.  What crosses
\* them breaks them (README, "Where the code and its documents differ").
AloneSound ==
  /\ "code" \notin crossed => SecondFactorOnce
  /\ "change" \notin crossed => PasswordStays /\ OldPasswordOut

\* The rows are well formed; codes and passwords open what they should.
LoginsSound == TypeOK /\ RecoveryOnce /\ AloneSound

\* ID-17, ID-15: a session that was ended, by a logout, a new login, a change of
\* the password or its expiry, is never back, whatever a request of its own that
\* was under way writes afterwards.
SignedOutStays ==
  [][\A s \in Session : opened[s] # NoLoginRow /\ sessions[s] = NoLoginRow => sessions'[s] = NoLoginRow]_vars
=============================================================================

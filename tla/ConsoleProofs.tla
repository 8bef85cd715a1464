----------------------------- MODULE ConsoleProofs -----------------------------
(***************************************************************************)
(* Theorems about what the operator does in the console, for every set of  *)
(* tokens, requests, sessions, accounts and every bound: the setup and the *)
(* logins with the tables they share, the schedule of the syncs, and the   *)
(* stored connection over the switches and restarts; the forms a target is *)
(* created and edited in, for every set of pages and items; and what a     *)
(* reader of the audit trail is given.                                     *)
(*                                                                         *)
(* Each component has an invariant of its own below, and its steps; the    *)
(* console runs them side by side, so a step of one leaves the others be.  *)
(***************************************************************************)
EXTENDS MCConsole, TargetForms, FiniteSetTheorems, TLAPS

-----------------------------------------------------------------------------
(* The setup.                                                              *)

\* A form that created an operator is over, and its token is spent for as long
\* as the row is there.
SetupAgrees ==
  /\ \A f \in Created : forms[f] = SetupOver
  /\ \A f \in Created :
       LET t == operators[f].token IN tokens[t] # NoSetupRow => tokens[t].consumed

\* Until there is an operator the logged token has its row, expiring when the
\* link does.
LinkHasRow ==
  process = "up" /\ link # NoToken /\ ~HasOperator /\ setupClock < link.until =>
    /\ tokens[link.token] # NoSetupRow
    /\ tokens[link.token].expiresAt = link.until
    /\ ~tokens[link.token].consumed

SetupInv == SetupTypeOK /\ OneOperatorPerToken /\ ConsumedByCreation /\ SetupAgrees /\ LinkHasRow

\* The setup starts with empty tables.
LEMMA SetupBegins == SetupInit => SetupInv
  BY SetupAssumption DEF SetupInit, SetupInv, SetupTypeOK, OneOperatorPerToken, ConsumedByCreation,
     SetupAgrees, LinkHasRow, Created, HasOperator

\* Retiring expired tokens keeps the others as they are.
LEMMA ExpiredKeeps ==
  ASSUME SetupTypeOK
  PROVE  /\ Expired(tokens) \in [Token -> TokenRow \cup {NoSetupRow}]
         /\ \A t \in Token : Expired(tokens)[t] # NoSetupRow =>
              tokens[t] # NoSetupRow /\ Expired(tokens)[t] = tokens[t] /\ tokens[t].expiresAt > setupClock
         /\ \A t \in Token : tokens[t] # NoSetupRow /\ tokens[t].expiresAt > setupClock =>
              Expired(tokens)[t] = tokens[t]
  BY DEF SetupTypeOK, Expired, TokenRow

\* Every step that only retires tokens keeps the invariant.
LEMMA SetupRetires ==
  ASSUME SetupInv, tokens' = Expired(tokens), UNCHANGED <<setupClock, operators, forms, drawn>>,
         process' \in {"up", "dead"},
         \/ link' = link /\ process' = process
         \/ link' = NoToken
  PROVE  SetupInv'
<1>1. SetupTypeOK' BY ExpiredKeeps DEF SetupInv, SetupTypeOK
<1>2. OneOperatorPerToken' BY DEF SetupInv, OneOperatorPerToken, Created
<1>3. ConsumedByCreation' BY ExpiredKeeps DEF SetupInv, ConsumedByCreation, Created
<1>4. SetupAgrees'
  BY ExpiredKeeps DEF SetupInv, SetupTypeOK, SetupAgrees, Created, Setup
<1>5. LinkHasRow'
  BY ExpiredKeeps DEF SetupInv, SetupTypeOK, LinkHasRow, HasOperator, Created, TokenRow
<1> QED BY <1>1, <1>2, <1>3, <1>4, <1>5 DEF SetupInv

\* A start that logs a token has no operator, so nothing but that token changes.
LEMMA SetupTokenDrawn ==
  ASSUME SetupInv, NEW t \in Token, EnsureToken(t), UNCHANGED <<setupClock, operators, forms>>
  PROVE  SetupInv'
<1> DEFINE entry == [expiresAt |-> setupClock + TTL, consumed |-> FALSE]
<1>0. SetupTypeOK BY DEF SetupInv
<1>1. drawn' \subseteq Random BY <1>0 DEF EnsureToken, SetupTypeOK
<1>2. Created = {} /\ Created' = {} BY DEF EnsureToken, HasOperator, Created
<1>3. entry \in TokenRow /\ entry.expiresAt = setupClock + TTL /\ ~entry.consumed /\ entry # NoSetupRow
  <2>1. setupClock \in Nat /\ TTL \in Nat BY <1>0, SetupAssumption DEF SetupTypeOK
  <2>2. entry \in TokenRow BY <2>1 DEF TokenRow
  <2>3. NoSetupRow \notin TokenRow BY NullAssumption
  <2> QED BY <2>2, <2>3
<1>4. CASE Expired(tokens)[t] = NoSetupRow
  <2>1. tokens' = [Expired(tokens) EXCEPT ![t] = entry] /\ process' = "up"
        /\ link' = [token |-> t, until |-> setupClock + TTL]
    BY <1>4 DEF EnsureToken
  <2>2. tokens' \in [Token -> TokenRow \cup {NoSetupRow}] /\ tokens'[t] = entry
        /\ \A u \in Token : u # t => tokens'[u] = Expired(tokens)[u]
    BY <2>1, <1>3, ExpiredKeeps, <1>0
  <2>3. link'.token = t /\ link'.until = setupClock + TTL /\ link' \in [token : Token, until : Nat]
    BY <2>1, <1>0, SetupAssumption DEF SetupTypeOK
  <2>4. SetupTypeOK' BY <1>0, <1>1, <2>1, <2>2, <2>3 DEF SetupTypeOK
  <2>5. ConsumedByCreation'
    <3>1. \A u \in Token : ~(tokens[u] # NoSetupRow /\ tokens[u].consumed)
      BY <1>2 DEF SetupInv, ConsumedByCreation
    <3>2. \A u \in Token : ~(tokens'[u] # NoSetupRow /\ tokens'[u].consumed)
      BY <3>1, <2>2, <1>3, ExpiredKeeps, <1>0
    <3> QED BY <3>2 DEF ConsumedByCreation
  <2>6. LinkHasRow' BY <2>2, <2>3, <1>3 DEF LinkHasRow
  <2> QED BY <2>4, <2>5, <2>6, <1>2 DEF SetupInv, OneOperatorPerToken, SetupAgrees
<1>5. CASE Expired(tokens)[t] # NoSetupRow
  <2>1. tokens' = Expired(tokens) /\ process' = "dead" /\ link' = NoToken
    BY <1>5 DEF EnsureToken
  <2>2. SetupTypeOK' BY <1>0, <1>1, <2>1, ExpiredKeeps DEF SetupTypeOK
  <2>3. ConsumedByCreation' BY <2>1, ExpiredKeeps, <1>0, <1>2 DEF SetupInv, ConsumedByCreation
  <2>4. LinkHasRow' BY <2>1 DEF LinkHasRow
  <2> QED BY <2>2, <2>3, <2>4, <1>2 DEF SetupInv, OneOperatorPerToken, SetupAgrees
<1> QED BY <1>4, <1>5

\* The transaction of a form whose token can be used.
LEMMA SetupCompletes ==
  ASSUME SetupInv, NEW f \in SetupForm, Complete(f)
  PROVE  SetupInv'
<1> DEFINE t == forms[f].token
<1>0. SetupTypeOK BY DEF SetupInv
<1>1. forms[f] \in Setup /\ t \in Token BY <1>0 DEF SetupTypeOK, Complete, Setup
<1>2. /\ forms' = [forms EXCEPT ![f] = SetupOver]
      /\ UNCHANGED <<setupClock, process, link, drawn>>
  BY DEF Complete
<1>3. f \notin Created
  BY NullAssumption, <1>1 DEF SetupInv, SetupAgrees
<1>4. CASE UNCHANGED <<tokens, operators>>
  <2>1. SetupTypeOK' BY <1>4, <1>2, <1>0 DEF SetupTypeOK
  <2> QED BY <1>4, <1>2, <1>3, <1>0, <2>1
          DEF SetupInv, OneOperatorPerToken, ConsumedByCreation, SetupAgrees, LinkHasRow, HasOperator,
              Created, SetupTypeOK
<1>5. CASE /\ Usable(t)
           /\ tokens' = [tokens EXCEPT ![t].consumed = TRUE]
           /\ operators' = [operators EXCEPT ![f] = forms[f]]
  <2>1. tokens[t] \in TokenRow /\ ~tokens[t].consumed BY <1>5, <1>0, <1>1 DEF Usable, SetupTypeOK
  <2>2. /\ tokens'[t] \in TokenRow /\ tokens'[t].consumed
        /\ \A u \in Token : u # t => tokens'[u] = tokens[u]
        /\ tokens' \in [Token -> TokenRow \cup {NoSetupRow}]
    BY <1>5, <1>0, <1>1, <2>1 DEF SetupTypeOK, TokenRow
  <2>3. /\ operators'[f] = forms[f] /\ forms[f] # NoSetupRow
        /\ \A g \in SetupForm : g # f => operators'[g] = operators[g]
        /\ operators' \in [SetupForm -> Setup \cup {NoSetupRow}]
    BY <1>5, <1>0, <1>1, NullAssumption DEF SetupTypeOK
  <2>4. Created' = Created \cup {f} BY <2>3 DEF Created
  <2>5. \A g \in Created : operators[g].token # t
    BY <2>1, NullAssumption DEF SetupInv, SetupAgrees
  <2>6. SetupTypeOK' BY <2>2, <2>3, <1>0, <1>2, <1>1 DEF SetupTypeOK
  <2>7. OneOperatorPerToken'
    BY <2>3, <2>4, <2>5, <1>3 DEF SetupInv, OneOperatorPerToken, Created
  <2>8. ConsumedByCreation'
    <3> SUFFICES ASSUME NEW u \in Token, tokens'[u] # NoSetupRow, tokens'[u].consumed
                 PROVE  \E g \in Created' : operators'[g].token = u
      BY DEF ConsumedByCreation
    <3>1. CASE u = t BY <3>1, <2>3, <2>4
    <3>2. CASE u # t
      <4>1. PICK g \in Created : operators[g].token = u
        BY <3>2, <2>2 DEF SetupInv, ConsumedByCreation
      <4> QED BY <4>1, <2>3, <2>4, <1>3 DEF Created
    <3> QED BY <3>1, <3>2
  <2>9. SetupAgrees'
    <3>1. \A g \in Created' : forms'[g] = SetupOver
      BY <2>4, <1>2, <1>0 DEF SetupInv, SetupAgrees, SetupTypeOK, Created
    <3>2. ASSUME NEW g \in Created' PROVE tokens'[operators'[g].token] # NoSetupRow =>
                                            tokens'[operators'[g].token].consumed
      <4>1. CASE g = f BY <4>1, <2>3, <2>2
      <4>2. CASE g # f
        <5>1. g \in Created /\ operators'[g] = operators[g] BY <4>2, <2>3, <2>4 DEF Created
        <5>2. operators[g].token \in Token /\ operators[g].token # t
          BY <5>1, <2>5, <1>0 DEF Created, SetupTypeOK, Setup
        <5> QED BY <5>1, <5>2, <2>2 DEF SetupInv, SetupAgrees
      <4> QED BY <4>1, <4>2
    <3> QED BY <3>1, <3>2 DEF SetupAgrees
  <2>10. LinkHasRow' BY <2>4 DEF LinkHasRow, HasOperator
  <2> QED BY <2>6, <2>7, <2>8, <2>9, <2>10 DEF SetupInv
<1> QED BY <1>4, <1>5 DEF Complete, CreateOperator

\* The other steps change the clock, the process or a form.
LEMMA SetupRests ==
  ASSUME SetupInv, Stop \/ SetupTick \/ UNCHANGED setupVars
                   \/ \E f \in SetupForm, t \in Token, e \in Email : SubmitSetup(f, t, e)
  PROVE  SetupInv'
<1>0. SetupTypeOK BY DEF SetupInv
<1>1. UNCHANGED <<tokens, operators, link>>
  BY DEF Stop, SetupTick, SubmitSetup, setupVars
<1>2. SetupTypeOK'
  BY <1>0, <1>1 DEF SetupTypeOK, Stop, SetupTick, SubmitSetup, setupVars, Setup
<1>3. \A f \in Created : forms'[f] = SetupOver
  BY <1>0, NullAssumption DEF SetupInv, SetupAgrees, SetupTypeOK, Stop, SetupTick, SubmitSetup, setupVars,
     Created, HasOperator
<1>4. /\ process' = "up" => process = "up"
      /\ setupClock \in Nat /\ setupClock' \in Nat /\ setupClock' >= setupClock
  BY <1>0 DEF SetupTypeOK, Stop, SetupTick, SubmitSetup, setupVars
<1>5. LinkHasRow'
  BY <1>0, <1>1, <1>4 DEF SetupInv, LinkHasRow, HasOperator, Created, SetupTypeOK
<1> QED BY <1>1, <1>2, <1>3, <1>5
        DEF SetupInv, OneOperatorPerToken, ConsumedByCreation, SetupAgrees, Created

\* Every step of the setup keeps its invariant.
LEMMA SetupStep == ASSUME SetupInv, [SetupNext]_setupVars PROVE SetupInv'
<1>1. CASE SetupBoot
  <2>1. CASE EnsureNothing BY <1>1, <2>1, SetupRetires DEF EnsureNothing, SetupBoot
  <2>2. CASE \E t \in Token : EnsureToken(t) BY <1>1, <2>2, SetupTokenDrawn DEF SetupBoot
  <2> QED BY <1>1, <2>1, <2>2 DEF SetupBoot
<1>2. CASE Maintain BY <1>2, SetupRetires DEF Maintain
<1>3. CASE \E f \in SetupForm : Complete(f) BY <1>3, SetupCompletes
<1>4. CASE Stop \/ SetupTick \/ UNCHANGED setupVars
           \/ \E f \in SetupForm, t \in Token, e \in Email : SubmitSetup(f, t, e)
  BY <1>4, SetupRests
<1> QED BY <1>1, <1>2, <1>3, <1>4 DEF SetupNext

\* What the run checks of the setup follows: the row the link has is usable, for
\* it expires when the link does.
LEMMA SetupImplies == SetupInv => SetupSound
  BY DEF SetupInv, SetupSound, SetupConsistent, LinkWorks, LinkHasRow, Usable, SetupTypeOK

\* ID-1, ID-3: a token makes at most one operator and is consumed exactly then,
\* and the logged link works until there is an operator, over every restart of
\* the process and however the forms overlap.
THEOREM SetupIsSound == SetupSpec => []SetupSound
<1>1. SetupInv /\ [SetupNext]_setupVars => SetupInv' BY SetupStep
<1> QED BY SetupBegins, <1>1, SetupImplies, PTL DEF SetupSpec
-----------------------------------------------------------------------------
(* Logging in: the types, request by request.                              *)

\* A request that read the operator's row, and one that holds a password.
Reading == {"password", "rehash", "second", "confirm"}
Typing == Reading \cup {"change"}

RequestRow == [stage : Stage, session : Session \cup {NoLoginRow}, isConfirmed : BOOLEAN,
               read : OperatorRow \cup {NoLoginRow}, typed : Password \cup {NoLoginRow},
               code : Totp \cup RecoveryCode \cup {NoCode}]

\* What a request has by the time it is at its stage.
Filled(q) ==
  /\ q \in RequestRow
  /\ q.stage \in Reading => q.read \in OperatorRow
  /\ q.stage \in Typing => q.typed \in Password
  /\ q.stage \in {"form", "confirm", "change"} => q.session \in Session
  /\ q.stage = "second" => q.code \in Totp \cup RecoveryCode

LoginTyped ==
  /\ TypeOK
  /\ request \in [Request -> RequestRow]
  /\ \A r \in Request : Filled(request[r])

\* The rows, the cookies and the history, without the requests.
TablesOK ==
  /\ now \in Time
  /\ operator \in OperatorRow
  /\ unused \subseteq RecoveryCode
  /\ sessions \in [Session -> SessionRow \cup {NoLoginRow}]
  /\ states \subseteq [until : Nat, password : Password]
  /\ chosen \in Password
  /\ opened \in [Session -> Opening \cup {NoLoginRow}]

LEMMA LoginTypedParts ==
  LoginTyped <=> TablesOK /\ request \in [Request -> RequestRow] /\ \A r \in Request : Filled(request[r])
  BY DEF LoginTyped, TypeOK, TablesOK, RequestRow

\* A fresh request, and one that is over.
LEMMA BlankFilled == Filled(Blank) /\ Filled(Over) /\ Over.stage = "over" /\ Blank.stage = "new"
  BY DEF Filled, RequestRow, Blank, Over, Stage, Reading, Typing

\* A request that becomes another one that is filled.
LEMMA RequestsStay ==
  ASSUME LoginTyped, TablesOK', NEW r \in Request, NEW rec, Filled(rec), Becomes(r, rec)
  PROVE  LoginTyped'
<1>1. request' \in [Request -> RequestRow] BY DEF LoginTyped, Becomes, Filled
<1>2. \A q \in Request : Filled(request'[q]) BY DEF LoginTyped, Becomes
<1> QED BY <1>1, <1>2 DEF LoginTyped, TypeOK, TablesOK, RequestRow

\* The bounds as facts.
LEMMA LoginNumbers ==
  /\ IdleTTL \in Nat \ {0} /\ AbsoluteTTL \in Nat \ {0} /\ ThrottleWindow \in Nat \ {0}
  /\ StateTTL \in Nat \ {0} /\ MaxTime \in Nat \ {0} /\ MaxOpen \in Nat \ {0}
  BY LoginBounds

\* The rows of sessions after a cookie was looked up.
LEMMA TouchedRows ==
  ASSUME TablesOK, NEW s \in Session
  PROVE  /\ Touched(s) \in [Session -> SessionRow \cup {NoLoginRow}]
         /\ Ended(s) \in [Session -> SessionRow \cup {NoLoginRow}]
         /\ \A t \in Session : Touched(s)[t] # NoLoginRow => sessions[t] # NoLoginRow
         /\ \A t \in Session : Ended(s)[t] # NoLoginRow => sessions[t] # NoLoginRow
<1>1. Ended(s) \in [Session -> SessionRow \cup {NoLoginRow}]
      /\ \A t \in Session : Ended(s)[t] # NoLoginRow => sessions[t] # NoLoginRow
  BY DEF TablesOK, Ended
<1>2. CASE Live(s)
  <2>1. sessions[s] \in SessionRow BY <1>2 DEF Live, TablesOK
  <2>2. NextExpiry(sessions[s].createdAt) \in Nat
    BY <2>1, LoginNumbers DEF TablesOK, SessionRow, NextExpiry, Minimum, Time
  <2>3. Touched(s) = [sessions EXCEPT ![s].expiresAt = NextExpiry(sessions[s].createdAt)]
    BY <1>2 DEF Touched
  <2> HIDE DEF Touched
  <2>4. [sessions[s] EXCEPT !.expiresAt = NextExpiry(sessions[s].createdAt)] \in SessionRow
    BY <2>1, <2>2 DEF SessionRow
  <2>5. Touched(s) = [sessions EXCEPT ![s] = [sessions[s] EXCEPT !.expiresAt = NextExpiry(sessions[s].createdAt)]]
    BY <2>3
  <2>6. Touched(s) \in [Session -> SessionRow \cup {NoLoginRow}]
    BY <2>4, <2>5 DEF TablesOK
  <2>7. \A t \in Session : t # s => Touched(s)[t] = sessions[t] BY <2>5 DEF TablesOK
  <2> QED BY <1>1, <2>6, <2>7, <1>2 DEF Live
<1>3. CASE ~Live(s) BY <1>3, <1>1 DEF Touched, Ended
<1> QED BY <1>2, <1>3

\* A new session's row, beside those that were there.
LEMMA StartedRows ==
  ASSUME LoginTyped, NEW r \in Request, NEW s \in Session, request[r].stage = "second", StartSession(r, s)
  PROVE  /\ sessions' \in [Session -> SessionRow \cup {NoLoginRow}]
         /\ opened' \in [Session -> Opening \cup {NoLoginRow}]
         /\ opened[s] = NoLoginRow
         /\ opened'[s] # NoLoginRow
         /\ opened'[s].code = request[r].code
         /\ opened'[s].password = request[r].typed
         /\ \A t \in Session : t # s => opened'[t] = opened[t]
         /\ \A t \in Session : t # s /\ sessions'[t] # NoLoginRow => sessions[t] # NoLoginRow
<1> DEFINE entry == [createdAt |-> now, expiresAt |-> NextExpiry(now), confirmedAt |-> Never]
           opening == [code |-> request[r].code, password |-> request[r].typed]
<1>1. entry \in SessionRow
  BY LoginNumbers DEF LoginTyped, TypeOK, SessionRow, NextExpiry, Minimum, Time
<1>2. opening \in Opening
  BY DEF LoginTyped, Filled, Typing, Reading, Opening
<1>3. opening # NoLoginRow BY <1>2, LoginAssumption
<1>4. opened \in [Session -> Opening \cup {NoLoginRow}] /\ opened' = [opened EXCEPT ![s] = opening]
      /\ opened[s] = NoLoginRow
  BY DEF LoginTyped, TypeOK, StartSession
<1>5. opened' \in [Session -> Opening \cup {NoLoginRow}] /\ opened'[s] = opening
      /\ \A t \in Session : t # s => opened'[t] = opened[t]
  BY <1>4, <1>2
<1>6. opening.code = request[r].code /\ opening.password = request[r].typed OBVIOUS
<1>7. sessions' = [t \in Session |-> IF t = s THEN entry
                     ELSE IF t = request[r].session THEN NoLoginRow ELSE sessions[t]]
  BY DEF StartSession
<1> HIDE DEF entry, opening
<1>8. sessions' \in [Session -> SessionRow \cup {NoLoginRow}]
      /\ \A t \in Session : t # s /\ sessions'[t] # NoLoginRow => sessions[t] # NoLoginRow
  BY <1>7, <1>1 DEF LoginTyped, TypeOK
<1> QED BY <1>3, <1>4, <1>5, <1>6, <1>8

\* The requests that go from stage to stage keep the types.
LEMMA StagesTyped ==
  ASSUME LoginTyped, NEW r \in Request,
         \/ \E p \in Password : Login(r, p) \/ ConfirmBegun(r, p) \/ ChangeBegun(r, p)
         \/ PasswordChecked(r) \/ Rehashed(r)
  PROVE  LoginTyped'
<1> DEFINE q == request[r]
<1>0. TablesOK /\ Filled(q) /\ q \in RequestRow /\ operator \in OperatorRow
  BY LoginTypedParts DEF TablesOK, Filled
<1>1. ASSUME NEW p \in Password, Login(r, p) PROVE LoginTyped'
  <2>1. Filled([Blank EXCEPT !.stage = "password", !.typed = p, !.read = operator])
    BY <1>0 DEF Filled, RequestRow, Blank, Stage, Reading, Typing
  <2>2. TablesOK' BY <1>1, <1>0 DEF Login, TablesOK, rows, history
  <2> QED BY <1>1, <2>1, <2>2, RequestsStay DEF Login
<1>2. ASSUME NEW p \in Password, ConfirmBegun(r, p) PROVE LoginTyped'
  <2>1. Filled([q EXCEPT !.stage = "confirm", !.typed = p, !.read = operator])
    BY <1>0, <1>2 DEF Filled, RequestRow, Stage, Reading, Typing, ConfirmBegun
  <2>2. TablesOK' BY <1>2, <1>0 DEF ConfirmBegun, TablesOK, rows, history
  <2> QED BY <1>2, <2>1, <2>2, RequestsStay DEF ConfirmBegun
<1>3. ASSUME NEW p \in Password, ChangeBegun(r, p) PROVE LoginTyped'
  <2>1. Filled([q EXCEPT !.stage = "change", !.typed = p])
    BY <1>0, <1>3 DEF Filled, RequestRow, Stage, Reading, Typing, ChangeBegun, Sensitive
  <2>2. TablesOK' BY <1>3, <1>0 DEF ChangeBegun, TablesOK, rows, history
  <2> QED BY <1>3, <2>1, <2>2, RequestsStay DEF ChangeBegun
<1>4. CASE PasswordChecked(r) \/ Rehashed(r)
  <2>1. q.stage \in {"password", "rehash"} BY <1>4 DEF PasswordChecked, Rehashed
  <2>2. q.typed \in Password /\ q.read \in OperatorRow BY <2>1, <1>0 DEF Filled, Reading, Typing
  <2>3. VerifiedState(q.typed) \in [until : Nat, password : Password]
    BY <2>2, <1>0, LoginNumbers DEF VerifiedState, TablesOK, Time
  <2>4. [operator EXCEPT !.password = q.typed, !.weak = FALSE] \in OperatorRow
    BY <2>2, <1>0 DEF OperatorRow
  <2>5. TablesOK'
    BY <1>4, <1>0, <2>3, <2>4 DEF TablesOK, PasswordChecked, Rehashed, rows, history
  <2>6. Filled([q EXCEPT !.stage = "rehash"])
    BY <1>0, <2>2 DEF Filled, RequestRow, Stage, Reading, Typing
  <2>7. Becomes(r, Over) \/ Becomes(r, [q EXCEPT !.stage = "rehash"])
    BY <1>4 DEF PasswordChecked, Rehashed
  <2> QED BY <2>5, <2>6, <2>7, RequestsStay, BlankFilled
<1> QED BY <1>1, <1>2, <1>3, <1>4
\* The requests that carry a session's cookie, and the logins' second steps.
LEMMA SessionsTyped ==
  ASSUME LoginTyped, NEW r \in Request,
         (\E s \in Session : Arrive(r, s)) \/ Logout(r) \/ ConfirmAccepted(r) \/ ConfirmRefused(r)
           \/ TotpRefused(r) \/ RecoveryRefused(r)
  PROVE  LoginTyped'
<1> DEFINE q == request[r]
<1>0. TablesOK /\ Filled(q) /\ q \in RequestRow
  BY LoginTypedParts DEF Filled
<1>1. ASSUME NEW s \in Session, Arrive(r, s) PROVE LoginTyped'
  <2>1. Confirmed(s) \in BOOLEAN BY DEF Confirmed
  <2>2. Filled([Blank EXCEPT !.stage = "form", !.session = s, !.isConfirmed = Confirmed(s)])
    BY <2>1 DEF Filled, RequestRow, Blank, Stage, Reading, Typing
  <2>3. TablesOK'
    <3>1. sessions' \in [Session -> SessionRow \cup {NoLoginRow}]
          /\ UNCHANGED <<now, operator, unused, states, history>>
      BY <1>1, <1>0, TouchedRows DEF Arrive
    <3> QED BY <3>1, <1>0 DEF TablesOK, history
  <2> QED BY <1>1, <2>2, <2>3, RequestsStay, BlankFilled DEF Arrive
<1>2. CASE Logout(r)
  <2>1. q.session \in Session BY <1>0, <1>2 DEF Filled, Logout
  <2>2. sessions' \in [Session -> SessionRow \cup {NoLoginRow}]
        /\ UNCHANGED <<now, operator, unused, states, history>>
    BY <1>2, <1>0, <2>1, TouchedRows DEF Logout
  <2>3. TablesOK' BY <2>2, <1>0 DEF TablesOK, history
  <2> QED BY <1>2, <2>3, RequestsStay, BlankFilled DEF Logout
<1>3. CASE ConfirmAccepted(r)
  <2>1. q.session \in Session BY <1>0, <1>3 DEF Filled, ConfirmAccepted
  <2>2. sessions[q.session] # NoLoginRow => sessions[q.session] \in SessionRow
    BY <2>1, <1>0 DEF TablesOK
  <2>3. ASSUME sessions[q.session] # NoLoginRow
        PROVE  [sessions[q.session] EXCEPT !.confirmedAt = now] \in SessionRow
    BY <2>2, <2>3, <1>0 DEF SessionRow, TablesOK
  <2>4. sessions' \in [Session -> SessionRow \cup {NoLoginRow}]
    BY <1>3, <1>0, <2>1, <2>3 DEF ConfirmAccepted, TablesOK
  <2>5. TablesOK' BY <1>3, <2>4, <1>0 DEF ConfirmAccepted, TablesOK, history
  <2> QED BY <1>3, <2>5, RequestsStay, BlankFilled DEF ConfirmAccepted
<1>4. CASE ConfirmRefused(r) \/ TotpRefused(r) \/ RecoveryRefused(r)
  <2>1. LoginRefused(r) BY <1>4 DEF ConfirmRefused, TotpRefused, RecoveryRefused
  <2>2. TablesOK' BY <2>1, <1>0 DEF LoginRefused, TablesOK, rows, history
  <2> QED BY <2>1, <2>2, RequestsStay, BlankFilled DEF LoginRefused
<1> QED BY <1>1, <1>2, <1>3, <1>4

\* The codes a browser can send.
LEMMA CodesTyped == ASSUME TablesOK PROVE Codes \subseteq Totp \cup RecoveryCode
  BY LoginNumbers DEF Codes, Totp, TablesOK, Time

LEMMA SecondTyped ==
  ASSUME LoginTyped, NEW r \in Request,
         \/ \E c \in states, code \in Codes, s \in Session \cup {NoLoginRow} : Verify(r, c, code, s)
         \/ \E s \in Session : TotpAccepted(r, s) \/ RecoveryAccepted(r, s)
  PROVE  LoginTyped'
<1>0. TablesOK BY LoginTypedParts
<1>1. ASSUME NEW c \in states, NEW code \in Codes, NEW s \in Session \cup {NoLoginRow}, Verify(r, c, code, s)
      PROVE  LoginTyped'
  <2> DEFINE kept == IF s # NoLoginRow /\ Live(s) THEN s ELSE NoLoginRow
             q == [Blank EXCEPT !.stage = "second", !.typed = c.password, !.code = code, !.read = operator,
                                !.session = kept]
  <2>1. code \in Totp \cup RecoveryCode /\ c.password \in Password /\ operator \in OperatorRow
    BY <1>0, CodesTyped DEF TablesOK
  <2>2. kept \in Session \cup {NoLoginRow} OBVIOUS
  <2> HIDE DEF kept
  <2>3. Filled(q) BY <2>1, <2>2 DEF Filled, RequestRow, Blank, Stage, Reading, Typing
  <2>4. Becomes(r, q) BY <1>1 DEF Verify, kept
  <2>5. sessions' \in [Session -> SessionRow \cup {NoLoginRow}]
    <3>1. CASE s = NoLoginRow BY <3>1, <1>1, <1>0 DEF Verify, TablesOK
    <3>2. CASE s # NoLoginRow
      <4>1. s \in Session /\ sessions' = Touched(s) BY <3>2, <1>1 DEF Verify
      <4> QED BY <4>1, <1>0, TouchedRows
    <3> QED BY <3>1, <3>2
  <2>6. TablesOK' BY <1>0, <1>1, <2>5 DEF Verify, TablesOK
  <2> QED BY <2>3, <2>4, <2>6, RequestsStay
<1>2. ASSUME NEW s \in Session, TotpAccepted(r, s)
      PROVE  LoginTyped'
  <2>1. request[r].stage = "second" /\ request[r].code \in Totp /\ StartSession(r, s) /\ Becomes(r, Over)
        /\ operator' = [operator EXCEPT !.lastStep = request[r].code.step] /\ UNCHANGED <<now, unused, states>>
    BY <1>2 DEF TotpAccepted
  <2>2. request[r].code.step \in -1..(MaxTime + 1) BY <2>1 DEF Totp
  <2>3. operator' \in OperatorRow BY <2>1, <2>2, <1>0 DEF OperatorRow, TablesOK
  <2>4. UNCHANGED chosen BY <2>1 DEF StartSession
  <2>5. TablesOK' BY <2>1, <2>3, <2>4, <1>0, StartedRows DEF TablesOK
  <2> QED BY <2>1, <2>5, RequestsStay, BlankFilled
<1>3. ASSUME NEW s \in Session, RecoveryAccepted(r, s)
      PROVE  LoginTyped'
  <2>1. request[r].stage = "second" /\ StartSession(r, s) /\ Becomes(r, Over)
        /\ unused' = unused \ {request[r].code} /\ UNCHANGED <<now, operator, states>>
    BY <1>3 DEF RecoveryAccepted
  <2>2. UNCHANGED chosen BY <2>1 DEF StartSession
  <2>3. TablesOK' BY <2>1, <2>2, <1>0, StartedRows DEF TablesOK
  <2> QED BY <2>1, <2>3, RequestsStay, BlankFilled
<1> QED BY <1>1, <1>2, <1>3

\* The changes behind a confirmed password, the clock and the end of a process.
LEMMA ChangesTyped ==
  ASSUME LoginTyped, NEW r \in Request,
         \/ ChangeDone(r)
         \/ \E secret \in Secret, tick \in (now - 1)..(now + 1) : RotateTotp(r, secret, tick)
         \/ \E codes \in SUBSET RecoveryCode : RegenerateRecoveryCodes(r, codes)
  PROVE  LoginTyped'
<1> DEFINE q == request[r]
<1>0. TablesOK /\ Filled(q) BY LoginTypedParts
<1>1. CASE ChangeDone(r)
  <2>1. q.typed \in Password BY <1>0, <1>1 DEF Filled, ChangeDone, Typing
  <2>2. [operator EXCEPT !.password = q.typed, !.weak = FALSE] \in OperatorRow
    BY <2>1, <1>0 DEF OperatorRow, TablesOK
  <2>3. TablesOK' BY <1>1, <1>0, <2>1, <2>2 DEF ChangeDone, TablesOK
  <2> QED BY <1>1, <2>3, RequestsStay, BlankFilled DEF ChangeDone
<1>2. ASSUME NEW secret \in Secret, NEW tick \in (now - 1)..(now + 1), RotateTotp(r, secret, tick)
      PROVE  LoginTyped'
  <2>1. tick \in -1..(MaxTime + 1) BY <1>0, LoginNumbers DEF TablesOK, Time
  <2>2. [operator EXCEPT !.secret = secret, !.lastStep = tick] \in OperatorRow
    BY <2>1, <1>0 DEF OperatorRow, TablesOK
  <2>3. TablesOK' BY <1>2, <1>0, <2>2 DEF RotateTotp, TablesOK
  <2> QED BY <1>2, <2>3, RequestsStay, BlankFilled DEF RotateTotp
<1>3. ASSUME NEW codes \in SUBSET RecoveryCode, RegenerateRecoveryCodes(r, codes)
      PROVE  LoginTyped'
  <2>1. TablesOK' BY <1>3, <1>0 DEF RegenerateRecoveryCodes, TablesOK
  <2> QED BY <1>3, <2>1, RequestsStay, BlankFilled DEF RegenerateRecoveryCodes
<1> QED BY <1>1, <1>2, <1>3

LEMMA OthersTyped == ASSUME LoginTyped, Tick \/ Kill \/ MaintainSessions \/ UNCHANGED vars PROVE LoginTyped'
<1>0. TablesOK BY LoginTypedParts
<1>1. CASE Tick
  <2>1. TablesOK' BY <1>1, <1>0, LoginNumbers DEF Tick, TablesOK, Time, rows, history
  <2>2. request' = request BY <1>1 DEF Tick
  <2> QED BY <2>1, <2>2 DEF LoginTyped, TypeOK, TablesOK
<1>2. CASE Kill
  <2>1. operator' \in OperatorRow
    <3>1. CASE UNCHANGED <<operator, given>> BY <3>1, <1>0 DEF TablesOK
    <3>2. ASSUME NEW secret \in Secret, operator' = [operator EXCEPT !.secret = secret, !.lastStep = Never]
          PROVE  operator' \in OperatorRow
      <4>1. Never \in -1..(MaxTime + 1) BY LoginNumbers DEF Never
      <4> QED BY <3>2, <4>1, <1>0 DEF TablesOK, OperatorRow
    <3> QED BY <1>2, <3>1, <3>2 DEF Kill
  <2>2. TablesOK' BY <1>2, <1>0, <2>1 DEF Kill, TablesOK
  <2>3. request' = [r \in Request |-> IF r \in Open THEN Over ELSE request[r]] BY <1>2 DEF Kill
  <2>4. request' \in [Request -> RequestRow] /\ \A r \in Request : Filled(request'[r])
    BY <2>3, BlankFilled DEF LoginTyped, Filled
  <2> QED BY <2>2, <2>4 DEF LoginTyped, TypeOK, TablesOK, RequestRow
<1>3. CASE UNCHANGED vars BY <1>3 DEF LoginTyped, TypeOK, vars, rows, history
<1>4. CASE MaintainSessions
  <2>1. TablesOK' BY <1>4, <1>0 DEF MaintainSessions, TablesOK, history
  <2>2. request' = request BY <1>4 DEF MaintainSessions
  <2> QED BY <2>1, <2>2 DEF LoginTyped, TypeOK, TablesOK
<1> QED BY <1>1, <1>2, <1>3, <1>4

\* What a step of a request is.
LEMMA LoginSteps ==
  ASSUME [Next]_vars
  PROVE  \/ Tick \/ Kill \/ MaintainSessions \/ UNCHANGED vars
         \/ \E r \in Request :
              \/ \E p \in Password : Login(r, p) \/ ConfirmBegun(r, p) \/ ChangeBegun(r, p)
              \/ PasswordChecked(r) \/ Rehashed(r)
              \/ \E s \in Session : Arrive(r, s)
              \/ Logout(r) \/ ConfirmAccepted(r) \/ ConfirmRefused(r) \/ TotpRefused(r) \/ RecoveryRefused(r)
              \/ \E c \in states, code \in Codes, s \in Session \cup {NoLoginRow} : Verify(r, c, code, s)
              \/ \E s \in Session : TotpAccepted(r, s) \/ RecoveryAccepted(r, s)
              \/ ChangeDone(r)
              \/ \E secret \in Secret, tick \in (now - 1)..(now + 1) : RotateTotp(r, secret, tick)
              \/ \E codes \in SUBSET RecoveryCode : RegenerateRecoveryCodes(r, codes)
  BY Zenon DEF Next
\* Every step keeps the types.
LEMMA LoginTypesStay == ASSUME LoginTyped, [Next]_vars PROVE LoginTyped'
  BY LoginSteps, StagesTyped, SessionsTyped, SecondTyped, ChangesTyped, OthersTyped

-----------------------------------------------------------------------------
(* Logging in: what is not there again.                                    *)

\* ID-17, ID-15: a session that was ended is never back: a row is written only
\* where there is one, or for a session that was never opened.
LEMMA SessionsStayOut ==
  ASSUME sessions \in [Session -> SessionRow \cup {NoLoginRow}], [Next]_vars, NEW s \in Session,
         opened[s] # NoLoginRow, sessions[s] = NoLoginRow
  PROVE  sessions'[s] = NoLoginRow
<1>1. ASSUME NEW t \in Session PROVE Touched(t)[s] = NoLoginRow /\ Ended(t)[s] = NoLoginRow
  BY DEF Touched, Ended, Live
<1>2. ASSUME NEW r \in Request, NEW t \in Session, StartSession(r, t) PROVE sessions'[s] = NoLoginRow
  BY <1>2 DEF StartSession
<1>3. ASSUME NEW r \in Request, Logout(r) PROVE sessions'[s] = NoLoginRow
  BY <1>3 DEF Logout, Ended
<1>4. ASSUME NEW r \in Request, NEW c \in states, NEW code \in Codes, NEW t \in Session \cup {NoLoginRow},
             Verify(r, c, code, t) PROVE sessions'[s] = NoLoginRow
  BY <1>4, <1>1 DEF Verify
<1>5. ASSUME NEW r \in Request, NEW t \in Session, Arrive(r, t) PROVE sessions'[s] = NoLoginRow
  BY <1>5, <1>1 DEF Arrive
<1>6. ASSUME NEW r \in Request, NEW t \in Session, TotpAccepted(r, t) \/ RecoveryAccepted(r, t)
      PROVE sessions'[s] = NoLoginRow
  BY <1>6, <1>2 DEF TotpAccepted, RecoveryAccepted
<1>7. ASSUME NEW r \in Request, ConfirmAccepted(r) PROVE sessions'[s] = NoLoginRow
  BY <1>7 DEF ConfirmAccepted
<1>8. ASSUME NEW r \in Request, ChangeDone(r) PROVE sessions'[s] = NoLoginRow
  BY <1>8 DEF ChangeDone
<1>9. CASE MaintainSessions BY <1>9 DEF MaintainSessions
<1>10. CASE UNCHANGED sessions BY <1>10
<1>11. ASSUME NEW r \in Request,
              \/ \E p \in Password : Login(r, p) \/ ConfirmBegun(r, p) \/ ChangeBegun(r, p)
              \/ PasswordChecked(r) \/ Rehashed(r) \/ ConfirmRefused(r) \/ TotpRefused(r) \/ RecoveryRefused(r)
              \/ \E secret \in Secret, tick \in (now - 1)..(now + 1) : RotateTotp(r, secret, tick)
              \/ \E codes \in SUBSET RecoveryCode : RegenerateRecoveryCodes(r, codes)
       PROVE  UNCHANGED sessions
  BY <1>11 DEF Login, ConfirmBegun, ChangeBegun, PasswordChecked, Rehashed, ConfirmRefused, TotpRefused,
     RecoveryRefused, LoginRefused, RotateTotp, RegenerateRecoveryCodes, rows
<1>12. CASE Tick \/ Kill \/ UNCHANGED vars
  BY <1>12, <1>10 DEF Tick, Kill, vars, rows
<1> QED BY LoginSteps, <1>3, <1>4, <1>5, <1>6, <1>7, <1>8, <1>9, <1>10, <1>11, <1>12
-----------------------------------------------------------------------------
(* Logging in: the codes.                                                  *)

\* The sessions that were opened, and with what.
Opened == {s \in Session : opened[s] # NoLoginRow}
OpenedTotp == {s \in Opened : opened[s].code \in Totp}
OpenedCode == {s \in Opened : opened[s].code \in RecoveryCode}

RowsAreOpened == \A s \in Session : sessions[s] # NoLoginRow => s \in Opened

\* Whatever is used, or can be, was drawn before; and a recovery code that opened
\* a session is not among the unused ones.
Drawn ==
  /\ unused \subseteq given
  /\ operator.secret \in given
  /\ \A r \in SecondSteps : request[r].read.secret \in given
  /\ \A s \in OpenedCode : opened[s].code \in given \ unused
  /\ \A s \in OpenedTotp : opened[s].code.secret \in given

\* No step of the authenticator that opened a session is later than the one the
\* row has, nor than the one a second step under way has read; and while such a
\* step has read another secret than the row's, the row's has opened nothing.
StepsBehind ==
  /\ \A s \in OpenedTotp :
       opened[s].code.secret = operator.secret => opened[s].code.step <= operator.lastStep
  /\ \A r \in SecondSteps, s \in OpenedTotp :
       /\ opened[s].code.secret = request[r].read.secret =>
            opened[s].code.step <= request[r].read.lastStep
       /\ opened[s].code.secret = operator.secret => operator.secret = request[r].read.secret

OneAtATime == \A r, q \in SecondSteps : r = q

\* Second steps that never crossed one another.
CodesAlone == "code" \notin crossed => OneAtATime /\ StepsBehind /\ SecondFactorOnce

CodesInv == RowsAreOpened /\ Drawn /\ RecoveryOnce /\ CodesAlone

\* A step that opens no session, and has no second step begin.
Quiet ==
  /\ UNCHANGED <<opened, given, unused>>
  /\ operator'.secret = operator.secret /\ operator'.lastStep = operator.lastStep
  /\ crossed \subseteq crossed'
  /\ \A s \in Session : sessions'[s] # NoLoginRow => sessions[s] # NoLoginRow
  /\ \A r \in Request : request'[r].stage = "second" => request'[r] = request[r]

LEMMA QuietKeeps == ASSUME CodesInv, Quiet PROVE CodesInv'
<1>1. SecondSteps' \subseteq SecondSteps BY DEF Quiet, SecondSteps
<1>2. \A r \in SecondSteps' : request'[r] = request[r] BY DEF Quiet, SecondSteps
<1>3. Opened' = Opened /\ OpenedTotp' = OpenedTotp /\ OpenedCode' = OpenedCode
  BY DEF Quiet, Opened, OpenedTotp, OpenedCode
<1>4. RowsAreOpened' BY <1>3 DEF CodesInv, RowsAreOpened, Quiet
<1>5. Drawn' BY <1>1, <1>2, <1>3 DEF CodesInv, Drawn, Quiet
<1>6. RecoveryOnce' BY DEF CodesInv, RecoveryOnce, Quiet
<1>7. ASSUME "code" \notin crossed' PROVE OneAtATime' /\ StepsBehind' /\ SecondFactorOnce'
  <2>1. OneAtATime /\ StepsBehind /\ SecondFactorOnce BY <1>7 DEF CodesInv, CodesAlone, Quiet
  <2>2. OneAtATime' BY <2>1, <1>1 DEF OneAtATime
  <2>3. StepsBehind' BY <2>1, <1>1, <1>2, <1>3 DEF StepsBehind, Quiet
  <2>4. SecondFactorOnce' BY <2>1 DEF SecondFactorOnce, Quiet
  <2> QED BY <2>2, <2>3, <2>4
<1> QED BY <1>4, <1>5, <1>6, <1>7 DEF CodesInv, CodesAlone

\* A request that becomes one at another stage than the second.
LEMMA SecondsRest ==
  ASSUME LoginTyped, NEW r \in Request, NEW rec, Becomes(r, rec), rec.stage # "second"
  PROVE  \A q \in Request : request'[q].stage = "second" => request'[q] = request[q]
  BY DEF LoginTyped, Becomes

\* Most steps are of that kind.
LEMMA QuietSteps ==
  ASSUME LoginTyped, NEW r \in Request,
         \/ \E p \in Password : Login(r, p) \/ ConfirmBegun(r, p) \/ ChangeBegun(r, p)
         \/ PasswordChecked(r) \/ Rehashed(r)
         \/ \E s \in Session : Arrive(r, s)
         \/ Logout(r) \/ ConfirmAccepted(r) \/ ConfirmRefused(r) \/ TotpRefused(r) \/ RecoveryRefused(r)
         \/ ChangeDone(r)
  PROVE  Quiet
<1> DEFINE q == request[r]
<1>0. Filled(q) /\ TablesOK /\ operator \in OperatorRow BY LoginTypedParts DEF TablesOK
<1>1. ASSUME NEW p \in Password, Login(r, p) PROVE Quiet
  <2>1. [Blank EXCEPT !.stage = "password", !.typed = p, !.read = operator].stage # "second" BY DEF Blank
  <2> QED BY <1>1, <2>1, SecondsRest DEF Login, Quiet, rows, history
<1>2. ASSUME NEW p \in Password, ConfirmBegun(r, p) PROVE Quiet
  <2>1. [q EXCEPT !.stage = "confirm", !.typed = p, !.read = operator].stage # "second"
    BY <1>0 DEF Filled, RequestRow
  <2> QED BY <1>2, <2>1, SecondsRest DEF ConfirmBegun, Quiet, rows, history
<1>3. ASSUME NEW p \in Password, ChangeBegun(r, p) PROVE Quiet
  <2>1. [q EXCEPT !.stage = "change", !.typed = p].stage # "second" BY <1>0 DEF Filled, RequestRow
  <2> QED BY <1>3, <2>1, SecondsRest DEF ChangeBegun, Quiet, rows, history
<1>4. CASE PasswordChecked(r) \/ Rehashed(r)
  <2>1. [q EXCEPT !.stage = "rehash"].stage # "second" BY <1>0 DEF Filled, RequestRow
  <2>2. Becomes(r, Over) \/ Becomes(r, [q EXCEPT !.stage = "rehash"])
    BY <1>4 DEF PasswordChecked, Rehashed
  <2>3. \A x \in Request : request'[x].stage = "second" => request'[x] = request[x]
    BY <2>1, <2>2, BlankFilled, SecondsRest
  <2>4. operator'.secret = operator.secret /\ operator'.lastStep = operator.lastStep
    BY <1>4, <1>0 DEF PasswordChecked, Rehashed, rows, OperatorRow
  <2>5. UNCHANGED <<unused, sessions, history>> BY <1>4 DEF PasswordChecked, Rehashed, rows
  <2> QED BY <2>3, <2>4, <2>5 DEF Quiet, history
<1>5. ASSUME NEW s \in Session, Arrive(r, s) PROVE Quiet
  <2>1. [Blank EXCEPT !.stage = "form", !.session = s, !.isConfirmed = Confirmed(s)].stage # "second" BY DEF Blank
  <2>2. \A x \in Request : request'[x].stage = "second" => request'[x] = request[x]
    BY <1>5, <2>1, BlankFilled, SecondsRest DEF Arrive
  <2>3. \A t \in Session : sessions'[t] # NoLoginRow => sessions[t] # NoLoginRow
    BY <1>5, <1>0, TouchedRows DEF Arrive
  <2> QED BY <1>5, <2>2, <2>3 DEF Arrive, Quiet, history
<1>6. CASE Logout(r)
  <2>1. q.session \in Session BY <1>0, <1>6 DEF Filled, Logout
  <2>2. \A t \in Session : sessions'[t] # NoLoginRow => sessions[t] # NoLoginRow
    BY <1>6, <1>0, <2>1, TouchedRows DEF Logout
  <2> QED BY <1>6, <2>2, SecondsRest, BlankFilled DEF Logout, Quiet, history
<1>7. CASE ConfirmAccepted(r)
  <2>1. \A t \in Session : sessions'[t] # NoLoginRow => sessions[t] # NoLoginRow
    BY <1>7, <1>0 DEF ConfirmAccepted, TablesOK
  <2> QED BY <1>7, <2>1, SecondsRest, BlankFilled DEF ConfirmAccepted, Quiet, history
<1>8. CASE ConfirmRefused(r) \/ TotpRefused(r) \/ RecoveryRefused(r)
  <2>1. LoginRefused(r) BY <1>8 DEF ConfirmRefused, TotpRefused, RecoveryRefused
  <2> QED BY <2>1, SecondsRest, BlankFilled DEF LoginRefused, Quiet, rows, history
<1>9. CASE ChangeDone(r)
  <2>1. operator'.secret = operator.secret /\ operator'.lastStep = operator.lastStep
    BY <1>9, <1>0 DEF ChangeDone, OperatorRow
  <2>2. \A t \in Session : sessions'[t] # NoLoginRow => sessions[t] # NoLoginRow
    BY <1>9 DEF ChangeDone
  <2>3. crossed \subseteq crossed' BY <1>9 DEF ChangeDone
  <2>4. UNCHANGED <<opened, given, unused>> /\ Becomes(r, Over) BY <1>9 DEF ChangeDone
  <2> QED BY <2>1, <2>2, <2>3, <2>4, SecondsRest, BlankFilled DEF Quiet
<1> QED BY <1>1, <1>2, <1>3, <1>4, <1>5, <1>6, <1>7, <1>8, <1>9

LEMMA QuietClock ==
  ASSUME LoginTyped, Tick \/ MaintainSessions \/ UNCHANGED vars
  PROVE  Quiet
  BY DEF Tick, MaintainSessions, vars, rows, history, Quiet
\* A second step begins: it has read the row as it is.
LEMMA VerifyCodes ==
  ASSUME LoginTyped, CodesInv, NEW r \in Request, NEW c \in states, NEW code \in Codes,
         NEW s \in Session \cup {NoLoginRow}, Verify(r, c, code, s)
  PROVE  CodesInv'
<1>0. TablesOK /\ operator \in OperatorRow BY LoginTypedParts DEF TablesOK
<1>1. /\ UNCHANGED <<opened, given, unused, operator>>
      /\ crossed' = IF SecondSteps = {} THEN crossed ELSE crossed \cup {"code"}
  BY DEF Verify
<1>2. request'[r].read = operator /\ \A q \in Request : q # r => request'[q] = request[q]
  BY DEF Verify, Becomes, LoginTyped, Blank
<1>3. SecondSteps' \subseteq SecondSteps \cup {r} BY <1>2 DEF SecondSteps
<1>4. Opened' = Opened /\ OpenedTotp' = OpenedTotp /\ OpenedCode' = OpenedCode
  BY <1>1 DEF Opened, OpenedTotp, OpenedCode
<1>5. \A t \in Session : sessions'[t] # NoLoginRow => sessions[t] # NoLoginRow
  <2>1. CASE s = NoLoginRow BY <2>1 DEF Verify
  <2>2. CASE s # NoLoginRow
    <3>1. s \in Session /\ sessions' = Touched(s) BY <2>2 DEF Verify
    <3> QED BY <3>1, <1>0, TouchedRows
  <2> QED BY <2>1, <2>2
<1>6. RowsAreOpened' BY <1>4, <1>5 DEF CodesInv, RowsAreOpened
<1>7. Drawn'
  <2>1. \A q \in SecondSteps' : request'[q].read.secret \in given'
    BY <1>1, <1>2, <1>3 DEF CodesInv, Drawn, SecondSteps
  <2> QED BY <2>1, <1>1, <1>4 DEF CodesInv, Drawn
<1>8. RecoveryOnce' BY <1>1 DEF CodesInv, RecoveryOnce
<1>9. ASSUME "code" \notin crossed' PROVE OneAtATime' /\ StepsBehind' /\ SecondFactorOnce'
  <2>1. SecondSteps = {} /\ "code" \notin crossed BY <1>9, <1>1
  <2>2. StepsBehind /\ SecondFactorOnce BY <2>1 DEF CodesInv, CodesAlone
  <2>3. SecondSteps' \subseteq {r} BY <2>1, <1>3
  <2>4. OneAtATime' BY <2>3 DEF OneAtATime
  <2>5. StepsBehind' BY <2>2, <2>3, <1>1, <1>2, <1>4 DEF StepsBehind
  <2>6. SecondFactorOnce' BY <2>2, <1>1 DEF SecondFactorOnce
  <2> QED BY <2>4, <2>5, <2>6
<1> QED BY <1>6, <1>7, <1>8, <1>9 DEF CodesInv, CodesAlone

\* A second step that ends: no other one begins.
LEMMA SecondsEnd ==
  ASSUME LoginTyped, NEW r \in Request, Becomes(r, Over)
  PROVE  /\ r \notin SecondSteps' /\ SecondSteps' \subseteq SecondSteps
         /\ \A q \in SecondSteps' : request'[q] = request[q]
  BY BlankFilled DEF LoginTyped, Becomes, SecondSteps

\* A code of the authenticator is accepted: its step is later than any of its
\* secret's that opened a session.
LEMMA TotpCodes ==
  ASSUME LoginTyped, CodesInv, NEW r \in Request, NEW s \in Session, TotpAccepted(r, s)
  PROVE  CodesInv'
<1> DEFINE q == request[r]
<1>0. TablesOK /\ operator \in OperatorRow /\ Filled(q) BY LoginTypedParts DEF TablesOK
<1>1. q.stage = "second" /\ q.code \in Totp /\ InWindow(q.code, q.read.secret, q.read.lastStep)
      /\ StartSession(r, s) /\ Becomes(r, Over) /\ UNCHANGED unused
      /\ operator' = [operator EXCEPT !.lastStep = q.code.step]
  BY DEF TotpAccepted
<1>2. r \in SecondSteps BY <1>1 DEF SecondSteps
<1>3. /\ opened[s] = NoLoginRow /\ opened'[s] # NoLoginRow
      /\ opened'[s].code = q.code
      /\ \A t \in Session : t # s => opened'[t] = opened[t]
      /\ \A t \in Session : t # s /\ sessions'[t] # NoLoginRow => sessions[t] # NoLoginRow
  BY <1>1, StartedRows
<1>4. UNCHANGED <<given, crossed>> BY <1>1 DEF StartSession
<1>5. q.code \notin RecoveryCode BY <1>1, LoginAssumption
<1>6. s \notin Opened /\ Opened' = Opened \cup {s} /\ OpenedCode' = OpenedCode
      /\ OpenedTotp' = OpenedTotp \cup {s}
  BY <1>1, <1>3, <1>5 DEF Opened, OpenedCode, OpenedTotp
<1>7. operator'.secret = operator.secret /\ operator'.lastStep = q.code.step
  BY <1>1, <1>0 DEF OperatorRow
<1>8. r \notin SecondSteps' /\ SecondSteps' \subseteq SecondSteps /\ \A x \in SecondSteps' : request'[x] = request[x]
  BY <1>1, SecondsEnd
<1>9. q.code.secret = q.read.secret /\ q.code.step > q.read.lastStep BY <1>1 DEF InWindow
<1>10. RowsAreOpened' BY <1>3, <1>6 DEF CodesInv, RowsAreOpened
<1>11. Drawn'
  <2>1. operator'.secret \in given' /\ unused' \subseteq given'
    BY <1>1, <1>4, <1>7 DEF CodesInv, Drawn
  <2>2. \A x \in SecondSteps' : request'[x].read.secret \in given'
    BY <1>4, <1>8 DEF CodesInv, Drawn
  <2>3. \A t \in OpenedCode' : opened'[t].code \in given' \ unused'
    BY <1>1, <1>3, <1>4, <1>6 DEF CodesInv, Drawn, OpenedCode, Opened
  <2>4. \A t \in OpenedTotp' : opened'[t].code.secret \in given'
    BY <1>2, <1>3, <1>4, <1>6, <1>9 DEF CodesInv, Drawn, OpenedTotp, Opened
  <2> QED BY <2>1, <2>2, <2>3, <2>4 DEF Drawn
<1>12. RecoveryOnce' BY <1>3, <1>5 DEF CodesInv, RecoveryOnce
<1>13. ASSUME "code" \notin crossed' PROVE OneAtATime' /\ StepsBehind' /\ SecondFactorOnce'
  <2>1. OneAtATime /\ StepsBehind /\ SecondFactorOnce BY <1>13, <1>4 DEF CodesInv, CodesAlone
  <2>2. SecondSteps' = {} BY <2>1, <1>2, <1>8 DEF OneAtATime
  <2>3. \A t \in OpenedTotp : opened[t].code.secret = q.read.secret => opened[t].code.step <= q.read.lastStep
    BY <2>1, <1>2 DEF StepsBehind
  <2>4. \A t \in OpenedTotp : opened[t].code.secret = operator.secret => operator.secret = q.read.secret
    BY <2>1, <1>2 DEF StepsBehind
  <2>5. \A t \in OpenedTotp : opened[t].code.step \in Int
    BY LoginNumbers DEF OpenedTotp, Totp
  <2>6. q.code.step \in Int /\ q.read.lastStep \in Int
    BY <1>0, <1>1, LoginNumbers DEF Totp, Filled, Reading, OperatorRow
  <2>7. \A t \in OpenedTotp : opened[t].code # q.code
    BY <2>3, <2>5, <2>6, <1>9
  <2>8. \A t \in OpenedTotp' : opened'[t].code.secret = operator'.secret => opened'[t].code.step <= operator'.lastStep
    <3> SUFFICES ASSUME NEW t \in OpenedTotp', opened'[t].code.secret = operator.secret
                 PROVE  opened'[t].code.step <= q.code.step
      BY <1>7
    <3>1. CASE t = s BY <3>1, <1>3, <2>6
    <3>2. CASE t # s
      <4>1. t \in OpenedTotp /\ opened'[t] = opened[t] BY <3>2, <1>3, <1>6 DEF OpenedTotp, Opened
      <4>2. opened[t].code.step <= q.read.lastStep BY <4>1, <2>3, <2>4
      <4> QED BY <4>1, <4>2, <2>5, <2>6, <1>9
    <3> QED BY <3>1, <3>2
  <2>9. SecondFactorOnce'
    <3> SUFFICES ASSUME NEW t \in Session, NEW u \in Session,
                        opened'[t] # NoLoginRow, opened'[u] # NoLoginRow, opened'[t].code = opened'[u].code
                 PROVE  t = u
      BY DEF SecondFactorOnce
    <3>1. ASSUME NEW x \in Session, x # s, opened'[x] # NoLoginRow PROVE opened'[x].code # q.code
      BY <3>1, <1>1, <1>3, <2>7 DEF OpenedTotp, Opened
    <3>2. CASE t = s \/ u = s BY <3>1, <3>2, <1>3
    <3>3. CASE t # s /\ u # s BY <3>3, <1>3, <2>1 DEF SecondFactorOnce
    <3> QED BY <3>2, <3>3
  <2>10. StepsBehind' BY <2>2, <2>8 DEF StepsBehind
  <2>11. OneAtATime' BY <2>2 DEF OneAtATime
  <2> QED BY <2>9, <2>10, <2>11
<1> QED BY <1>10, <1>11, <1>12, <1>13 DEF CodesInv, CodesAlone

\* A recovery code is accepted: it was unused, so it opened no session before.
LEMMA RecoveryCodes ==
  ASSUME LoginTyped, CodesInv, NEW r \in Request, NEW s \in Session, RecoveryAccepted(r, s)
  PROVE  CodesInv'
<1> DEFINE q == request[r]
<1>0. TablesOK /\ Filled(q) BY LoginTypedParts
<1>1. q.stage = "second" /\ q.code \in unused /\ unused' = unused \ {q.code}
      /\ StartSession(r, s) /\ Becomes(r, Over) /\ UNCHANGED operator
  BY DEF RecoveryAccepted
<1>2. q.code \in RecoveryCode /\ q.code \notin Totp BY <1>1, <1>0, LoginAssumption DEF TablesOK
<1>3. /\ opened[s] = NoLoginRow /\ opened'[s] # NoLoginRow
      /\ opened'[s].code = q.code
      /\ \A t \in Session : t # s => opened'[t] = opened[t]
      /\ \A t \in Session : t # s /\ sessions'[t] # NoLoginRow => sessions[t] # NoLoginRow
  BY <1>1, StartedRows
<1>4. UNCHANGED <<given, crossed>> BY <1>1 DEF StartSession
<1>5. s \notin Opened /\ Opened' = Opened \cup {s} /\ OpenedTotp' = OpenedTotp
      /\ OpenedCode' = OpenedCode \cup {s}
  BY <1>2, <1>3 DEF Opened, OpenedCode, OpenedTotp
<1>6. SecondSteps' \subseteq SecondSteps /\ \A x \in SecondSteps' : request'[x] = request[x]
  BY <1>1, SecondsEnd
<1>7. \A t \in Opened : opened'[t] = opened[t] BY <1>3, <1>5 DEF Opened
<1>8. \A t \in Opened : opened[t].code # q.code
  BY <1>1, <1>2 DEF CodesInv, Drawn, OpenedCode
<1>9. RowsAreOpened' BY <1>3, <1>5 DEF CodesInv, RowsAreOpened
<1>10. Drawn'
  <2>1. operator'.secret \in given' /\ unused' \subseteq given'
    BY <1>1, <1>4 DEF CodesInv, Drawn
  <2>2. \A x \in SecondSteps' : request'[x].read.secret \in given'
    BY <1>4, <1>6 DEF CodesInv, Drawn
  <2>3. \A t \in OpenedCode' : opened'[t].code \in given' \ unused'
    BY <1>1, <1>3, <1>4, <1>5 DEF CodesInv, Drawn, OpenedCode, Opened
  <2>4. \A t \in OpenedTotp' : opened'[t].code.secret \in given'
    BY <1>4, <1>5, <1>7 DEF CodesInv, Drawn, OpenedTotp
  <2> QED BY <2>1, <2>2, <2>3, <2>4 DEF Drawn
<1>11. ASSUME NEW t \in Session, NEW u \in Session, opened'[t] # NoLoginRow, opened'[u] # NoLoginRow,
              opened'[t].code = opened'[u].code, t = s \/ u = s
       PROVE  t = u
  BY <1>11, <1>3, <1>8 DEF Opened
<1>12. RecoveryOnce' BY <1>3, <1>11 DEF CodesInv, RecoveryOnce
<1>13. ASSUME "code" \notin crossed' PROVE OneAtATime' /\ StepsBehind' /\ SecondFactorOnce'
  <2>1. OneAtATime /\ StepsBehind /\ SecondFactorOnce BY <1>13, <1>4 DEF CodesInv, CodesAlone
  <2>2. OneAtATime' BY <2>1, <1>6 DEF OneAtATime
  <2>3. StepsBehind' BY <2>1, <1>1, <1>5, <1>6, <1>7 DEF StepsBehind, OpenedTotp
  <2>4. SecondFactorOnce' BY <2>1, <1>3, <1>11 DEF SecondFactorOnce
  <2> QED BY <2>2, <2>3, <2>4
<1> QED BY <1>9, <1>10, <1>12, <1>13 DEF CodesInv, CodesAlone

\* What was drawn only now opened nothing.
LEMMA DrawnAnew ==
  ASSUME LoginTyped, CodesInv, NEW r \in Request,
         \/ \E secret \in Secret, tick \in (now - 1)..(now + 1) : RotateTotp(r, secret, tick)
         \/ \E codes \in SUBSET RecoveryCode : RegenerateRecoveryCodes(r, codes)
  PROVE  CodesInv'
<1>0. TablesOK /\ operator \in OperatorRow BY LoginTypedParts DEF TablesOK
<1>1. UNCHANGED <<opened, sessions, crossed>> /\ Becomes(r, Over)
  BY DEF RotateTotp, RegenerateRecoveryCodes
<1>2. Opened' = Opened /\ OpenedTotp' = OpenedTotp /\ OpenedCode' = OpenedCode
  BY <1>1 DEF Opened, OpenedTotp, OpenedCode
<1>3. SecondSteps' \subseteq SecondSteps /\ \A x \in SecondSteps' : request'[x] = request[x]
  BY <1>1, SecondsEnd
<1>4. RowsAreOpened' /\ RecoveryOnce' BY <1>1, <1>2 DEF CodesInv, RowsAreOpened, RecoveryOnce
<1>5. given \subseteq given' BY DEF RotateTotp, RegenerateRecoveryCodes
<1>6. CASE \E secret \in Secret, tick \in (now - 1)..(now + 1) : RotateTotp(r, secret, tick)
  <2>1. PICK secret \in Secret \ given, tick \in (now - 1)..(now + 1) : RotateTotp(r, secret, tick)
    BY <1>6 DEF RotateTotp
  <2>2. operator'.secret = secret /\ given' = given \cup {secret} /\ unused' = unused
    BY <2>1, <1>0 DEF RotateTotp, OperatorRow
  <2>3. Drawn'
    <3>1. \A t \in OpenedCode : opened[t].code \in given' \ unused'
      BY <1>5, <2>2 DEF CodesInv, Drawn
    <3>2. \A t \in OpenedTotp : opened[t].code.secret \in given' BY <1>5 DEF CodesInv, Drawn
    <3>3. \A x \in SecondSteps' : request'[x].read.secret \in given' BY <1>3, <1>5 DEF CodesInv, Drawn
    <3>4. operator'.secret \in given' /\ unused' \subseteq given' BY <2>2 DEF CodesInv, Drawn
    <3> QED BY <3>1, <3>2, <3>3, <3>4, <1>1, <1>2 DEF Drawn
  <2>4. \A t \in OpenedTotp : opened[t].code.secret # secret BY <2>1 DEF CodesInv, Drawn
  <2>5. ASSUME "code" \notin crossed' PROVE OneAtATime' /\ StepsBehind' /\ SecondFactorOnce'
    <3>1. OneAtATime /\ StepsBehind /\ SecondFactorOnce BY <2>5, <1>1 DEF CodesInv, CodesAlone
    <3>2. OneAtATime' BY <3>1, <1>3 DEF OneAtATime
    <3>3. StepsBehind' BY <3>1, <1>1, <1>2, <1>3, <2>2, <2>4 DEF StepsBehind
    <3>4. SecondFactorOnce' BY <3>1, <1>1 DEF SecondFactorOnce
    <3> QED BY <3>2, <3>3, <3>4
  <2> QED BY <1>4, <2>3, <2>5 DEF CodesInv, CodesAlone
<1>7. CASE \E codes \in SUBSET RecoveryCode : RegenerateRecoveryCodes(r, codes)
  <2>1. PICK codes \in SUBSET RecoveryCode : RegenerateRecoveryCodes(r, codes) BY <1>7
  <2>2. codes \cap given = {} /\ unused' = codes /\ given' = given \cup codes /\ UNCHANGED operator
    BY <2>1 DEF RegenerateRecoveryCodes
  <2>3. Drawn'
    <3>1. \A t \in OpenedCode : opened[t].code \in given' \ unused'
      BY <2>2 DEF CodesInv, Drawn
    <3>2. \A t \in OpenedTotp : opened[t].code.secret \in given' BY <1>5 DEF CodesInv, Drawn
    <3>3. \A x \in SecondSteps' : request'[x].read.secret \in given' BY <1>3, <1>5 DEF CodesInv, Drawn
    <3>4. operator'.secret \in given' /\ unused' \subseteq given' BY <2>2 DEF CodesInv, Drawn
    <3> QED BY <3>1, <3>2, <3>3, <3>4, <1>1, <1>2 DEF Drawn
  <2>4. ASSUME "code" \notin crossed' PROVE OneAtATime' /\ StepsBehind' /\ SecondFactorOnce'
    <3>1. OneAtATime /\ StepsBehind /\ SecondFactorOnce BY <2>4, <1>1 DEF CodesInv, CodesAlone
    <3>2. OneAtATime' BY <3>1, <1>3 DEF OneAtATime
    <3>3. StepsBehind' BY <3>1, <1>1, <1>2, <1>3, <2>2 DEF StepsBehind
    <3>4. SecondFactorOnce' BY <3>1, <1>1 DEF SecondFactorOnce
    <3> QED BY <3>2, <3>3, <3>4
  <2> QED BY <1>4, <2>3, <2>4 DEF CodesInv, CodesAlone
<1> QED BY <1>6, <1>7

\* The process is killed: nothing is under way, and a secret may be new.
LEMMA KillCodes == ASSUME LoginTyped, CodesInv, Kill PROVE CodesInv'
<1>0. TablesOK /\ operator \in OperatorRow BY LoginTypedParts DEF TablesOK
<1>1. UNCHANGED <<opened, sessions, crossed, unused>> BY DEF Kill
<1>2. Opened' = Opened /\ OpenedTotp' = OpenedTotp /\ OpenedCode' = OpenedCode
  BY <1>1 DEF Opened, OpenedTotp, OpenedCode
<1>3. SecondSteps' = {}
  BY BlankFilled DEF Kill, SecondSteps, Open
<1>4. RowsAreOpened' /\ RecoveryOnce' BY <1>1, <1>2 DEF CodesInv, RowsAreOpened, RecoveryOnce
<1>5. \/ UNCHANGED <<operator, given>>
      \/ \E secret \in Secret \ given :
           /\ operator'.secret = secret
           /\ given' = given \cup {secret}
  BY <1>0 DEF Kill, OperatorRow
<1>6. Drawn'
  <2>1. \A t \in OpenedCode : opened[t].code \in given' \ unused' BY <1>1, <1>5 DEF CodesInv, Drawn
  <2>2. \A t \in OpenedTotp : opened[t].code.secret \in given' BY <1>5 DEF CodesInv, Drawn
  <2>3. operator'.secret \in given' /\ unused' \subseteq given' BY <1>1, <1>5 DEF CodesInv, Drawn
  <2> QED BY <2>1, <2>2, <2>3, <1>1, <1>2, <1>3 DEF Drawn
<1>7. ASSUME "code" \notin crossed' PROVE OneAtATime' /\ StepsBehind' /\ SecondFactorOnce'
  <2>1. StepsBehind /\ SecondFactorOnce BY <1>7, <1>1 DEF CodesInv, CodesAlone
  <2>2. \/ UNCHANGED operator
        \/ \A t \in OpenedTotp : opened[t].code.secret # operator'.secret
    BY <1>5 DEF CodesInv, Drawn
  <2>3. StepsBehind' BY <2>1, <2>2, <1>1, <1>2, <1>3 DEF StepsBehind
  <2> QED BY <2>1, <2>3, <1>1, <1>3 DEF OneAtATime, SecondFactorOnce
<1> QED BY <1>4, <1>6, <1>7 DEF CodesInv, CodesAlone

\* Every step keeps what is said of the codes.
LEMMA CodesStay == ASSUME LoginTyped, CodesInv, [Next]_vars PROVE CodesInv'
  BY LoginSteps, QuietKeeps, QuietSteps, QuietClock, VerifyCodes, TotpCodes, RecoveryCodes, DrawnAnew, KillCodes
-----------------------------------------------------------------------------
(* Logging in: the passwords.                                              *)

\* The password set last is in the row, in every cookie that is good for a second
\* step, in every login under way, and has opened every session but the keepers.
PasswordHolds ==
  /\ PasswordStays
  /\ \A c \in states : c.until > now => c.password = chosen
  /\ \A r \in Request :
       /\ request[r].stage \in {"password", "rehash"} => request[r].read.password = chosen
       /\ request[r].stage \in {"rehash", "second"} => request[r].typed = chosen
  /\ \A s \in Session : sessions[s] # NoLoginRow => opened[s].password = chosen \/ s \in keepers

\* Logins that never crossed a change of the password.
PasswordsInv == "change" \notin crossed => PasswordHolds

LoggingIn == {"password", "rehash", "second"}

\* A step that neither sets a password nor goes on with a login.
Passing ==
  /\ UNCHANGED <<opened, chosen, keepers, states>>
  /\ operator'.password = operator.password
  /\ now' >= now
  /\ crossed \subseteq crossed'
  /\ \A s \in Session : sessions'[s] # NoLoginRow => sessions[s] # NoLoginRow
  /\ \A r \in Request : request'[r].stage \in LoggingIn => request'[r] = request[r]

LEMMA PassingKeeps == ASSUME LoginTyped, now' \in Time, PasswordsInv, Passing PROVE PasswordsInv'
<1> SUFFICES ASSUME "change" \notin crossed' PROVE PasswordHolds' BY DEF PasswordsInv
<1>1. PasswordHolds BY DEF PasswordsInv, Passing
<1>2. now \in Int /\ now' \in Int /\ \A c \in states : c.until \in Int
  BY DEF LoginTyped, TypeOK, Time
<1>3. \A c \in states' : c.until > now' => c.password = chosen'
  BY <1>1, <1>2 DEF PasswordHolds, Passing
<1>4. PasswordStays' BY <1>1 DEF PasswordHolds, PasswordStays, Passing
<1>5. \A r \in Request :
        /\ request'[r].stage \in {"password", "rehash"} => request'[r].read.password = chosen'
        /\ request'[r].stage \in {"rehash", "second"} => request'[r].typed = chosen'
  BY <1>1 DEF PasswordHolds, Passing, LoggingIn
<1>6. \A s \in Session : sessions'[s] # NoLoginRow => opened'[s].password = chosen' \/ s \in keepers'
  BY <1>1 DEF PasswordHolds, Passing
<1> QED BY <1>3, <1>4, <1>5, <1>6 DEF PasswordHolds

\* A request that leaves the stages of a login, or never was at one.
LEMMA LoginsRest ==
  ASSUME LoginTyped, NEW r \in Request, NEW rec, Becomes(r, rec), rec.stage \notin LoggingIn
  PROVE  \A q \in Request : request'[q].stage \in LoggingIn => request'[q] = request[q]
  BY DEF LoginTyped, Becomes

LEMMA PassingSteps ==
  ASSUME LoginTyped, NEW r \in Request,
         \/ \E p \in Password : ConfirmBegun(r, p) \/ ChangeBegun(r, p)
         \/ \E s \in Session : Arrive(r, s)
         \/ Logout(r) \/ ConfirmAccepted(r) \/ ConfirmRefused(r) \/ TotpRefused(r) \/ RecoveryRefused(r)
         \/ \E secret \in Secret, tick \in (now - 1)..(now + 1) : RotateTotp(r, secret, tick)
         \/ \E codes \in SUBSET RecoveryCode : RegenerateRecoveryCodes(r, codes)
  PROVE  Passing
<1> DEFINE q == request[r]
<1>0. Filled(q) /\ TablesOK /\ operator \in OperatorRow /\ now \in Int BY LoginTypedParts DEF TablesOK, Time
<1>a. Over.stage \notin LoggingIn BY BlankFilled DEF LoggingIn
<1>2. ASSUME NEW p \in Password, ConfirmBegun(r, p) PROVE Passing
  <2>1. [q EXCEPT !.stage = "confirm", !.typed = p, !.read = operator].stage \notin LoggingIn
    BY <1>0 DEF Filled, RequestRow, LoggingIn
  <2>2. \A x \in Request : request'[x].stage \in LoggingIn => request'[x] = request[x]
    BY <1>2, <2>1, LoginsRest DEF ConfirmBegun
  <2>3. UNCHANGED <<now, operator, sessions, states, opened, chosen, keepers, crossed>>
    BY <1>2 DEF ConfirmBegun, rows, history
  <2> QED BY <2>2, <2>3, <1>0 DEF Passing
<1>3. ASSUME NEW p \in Password, ChangeBegun(r, p) PROVE Passing
  <2>1. [q EXCEPT !.stage = "change", !.typed = p].stage \notin LoggingIn
    BY <1>0 DEF Filled, RequestRow, LoggingIn
  <2>2. \A x \in Request : request'[x].stage \in LoggingIn => request'[x] = request[x]
    BY <1>3, <2>1, LoginsRest DEF ChangeBegun
  <2>3. UNCHANGED <<now, operator, sessions, states, opened, chosen, keepers, crossed>>
    BY <1>3 DEF ChangeBegun, rows, history
  <2> QED BY <2>2, <2>3, <1>0 DEF Passing
<1>5. ASSUME NEW s \in Session, Arrive(r, s) PROVE Passing
  <2>1. [Blank EXCEPT !.stage = "form", !.session = s, !.isConfirmed = Confirmed(s)].stage \notin LoggingIn
    BY DEF Blank, LoggingIn
  <2>2. \A x \in Request : request'[x].stage \in LoggingIn => request'[x] = request[x]
    BY <1>5, <2>1, <1>a, LoginsRest DEF Arrive
  <2>3. \A t \in Session : sessions'[t] # NoLoginRow => sessions[t] # NoLoginRow
    BY <1>5, <1>0, TouchedRows DEF Arrive
  <2>4. UNCHANGED <<now, operator, states, opened, chosen, keepers, crossed>> BY <1>5 DEF Arrive, history
  <2> QED BY <2>2, <2>3, <2>4, <1>0 DEF Passing
<1>6. CASE Logout(r)
  <2>1. q.session \in Session BY <1>0, <1>6 DEF Filled, Logout
  <2>2. \A t \in Session : sessions'[t] # NoLoginRow => sessions[t] # NoLoginRow
    BY <1>6, <1>0, <2>1, TouchedRows DEF Logout
  <2> QED BY <1>6, <2>2, LoginsRest, <1>a, <1>0 DEF Logout, Passing, history
<1>7. CASE ConfirmAccepted(r)
  <2>1. \A t \in Session : sessions'[t] # NoLoginRow => sessions[t] # NoLoginRow
    BY <1>7, <1>0 DEF ConfirmAccepted, TablesOK
  <2> QED BY <1>7, <2>1, LoginsRest, <1>a, <1>0 DEF ConfirmAccepted, Passing, history
<1>8. CASE ConfirmRefused(r) \/ TotpRefused(r) \/ RecoveryRefused(r)
  <2>1. LoginRefused(r) BY <1>8 DEF ConfirmRefused, TotpRefused, RecoveryRefused
  <2> QED BY <2>1, LoginsRest, <1>a, <1>0 DEF LoginRefused, Passing, rows, history
<1>9. ASSUME NEW secret \in Secret, NEW tick \in (now - 1)..(now + 1), RotateTotp(r, secret, tick) PROVE Passing
  <2>1. operator'.password = operator.password BY <1>9, <1>0 DEF RotateTotp, OperatorRow
  <2>2. \A x \in Request : request'[x].stage \in LoggingIn => request'[x] = request[x]
    BY <1>9, <1>a, LoginsRest DEF RotateTotp
  <2>3. UNCHANGED <<now, sessions, states, opened, chosen, keepers, crossed>> BY <1>9 DEF RotateTotp
  <2> QED BY <2>1, <2>2, <2>3, <1>0 DEF Passing
<1>10. ASSUME NEW codes \in SUBSET RecoveryCode, RegenerateRecoveryCodes(r, codes) PROVE Passing
  BY <1>10, LoginsRest, <1>a, <1>0 DEF RegenerateRecoveryCodes, Passing
<1> QED BY <1>2, <1>3, <1>5, <1>6, <1>7, <1>8, <1>9, <1>10

LEMMA PassingClock ==
  ASSUME LoginTyped, Tick \/ Kill \/ MaintainSessions \/ UNCHANGED vars
  PROVE  Passing
<1>0. now \in Int /\ operator \in OperatorRow BY DEF LoginTyped, TypeOK, Time
<1>1. CASE Kill
  <2>1. \A x \in Request : request'[x].stage \in LoggingIn => request'[x] = request[x]
    BY <1>1, BlankFilled DEF Kill, LoggingIn
  <2>2. operator'.password = operator.password BY <1>1, <1>0 DEF Kill, OperatorRow
  <2>3. UNCHANGED <<now, sessions, states, opened, chosen, keepers, crossed>> BY <1>1 DEF Kill
  <2> QED BY <1>0, <2>1, <2>2, <2>3 DEF Passing
<1>2. CASE Tick \/ MaintainSessions \/ UNCHANGED vars
  BY <1>2, <1>0 DEF Tick, MaintainSessions, vars, rows, history, Passing
<1> QED BY <1>1, <1>2

\* A login goes on with what it read: the row's password, once it was verified.
LEMMA LoginPasswords ==
  ASSUME LoginTyped, PasswordsInv, NEW r \in Request,
         (\E p \in Password : Login(r, p)) \/ PasswordChecked(r) \/ Rehashed(r)
  PROVE  PasswordsInv'
<1> SUFFICES ASSUME "change" \notin crossed' PROVE PasswordHolds' BY DEF PasswordsInv
<1> DEFINE q == request[r]
<1>1. UNCHANGED <<now, sessions, history>> BY DEF Login, PasswordChecked, Rehashed, rows
<1>2. PasswordHolds BY <1>1 DEF PasswordsInv, history
<1>3. operator \in OperatorRow /\ operator.password = chosen /\ Filled(q) /\ q \in RequestRow
  BY <1>2 DEF LoginTyped, TypeOK, PasswordHolds, PasswordStays, Filled
<1>4. \A s \in Session : sessions'[s] # NoLoginRow => opened'[s].password = chosen' \/ s \in keepers'
  BY <1>1, <1>2 DEF PasswordHolds, history
<1>5. ASSUME NEW rec, Becomes(r, rec),
             rec.stage \in {"password", "rehash"} => rec.read.password = chosen,
             rec.stage \in {"rehash", "second"} => rec.typed = chosen
      PROVE  \A x \in Request :
               /\ request'[x].stage \in {"password", "rehash"} => request'[x].read.password = chosen'
               /\ request'[x].stage \in {"rehash", "second"} => request'[x].typed = chosen'
  BY <1>5, <1>1, <1>2 DEF PasswordHolds, Becomes, LoginTyped, history
<1>6. ASSUME NEW p \in Password, Login(r, p) PROVE PasswordHolds'
  <2> DEFINE rec == [Blank EXCEPT !.stage = "password", !.typed = p, !.read = operator]
  <2>1. rec.stage = "password" /\ rec.read = operator BY DEF Blank
  <2>2. Becomes(r, rec) /\ UNCHANGED <<operator, states>> BY <1>6 DEF Login, rows
  <2> HIDE DEF rec
  <2>3. \A x \in Request :
               /\ request'[x].stage \in {"password", "rehash"} => request'[x].read.password = chosen'
               /\ request'[x].stage \in {"rehash", "second"} => request'[x].typed = chosen'
    BY <2>1, <2>2, <1>3, <1>5
  <2> QED BY <2>2, <2>3, <1>1, <1>2, <1>4 DEF PasswordHolds, PasswordStays, history
<1>7. CASE PasswordChecked(r)
  <2>1. q.read.password = chosen /\ UNCHANGED operator
    BY <1>7, <1>2 DEF PasswordChecked, PasswordHolds, rows
  <2>2. Over.stage = "over" BY BlankFilled
  <2>3. CASE Becomes(r, Over) /\ UNCHANGED states
    <3>1. \A x \in Request :
               /\ request'[x].stage \in {"password", "rehash"} => request'[x].read.password = chosen'
               /\ request'[x].stage \in {"rehash", "second"} => request'[x].typed = chosen'
      BY <2>2, <2>3, <1>5
    <3> QED BY <2>1, <2>3, <3>1, <1>1, <1>2, <1>4 DEF PasswordHolds, PasswordStays, history
  <2>4. CASE q.typed = chosen /\ Becomes(r, [q EXCEPT !.stage = "rehash"]) /\ UNCHANGED states
    <3> DEFINE rec == [q EXCEPT !.stage = "rehash"]
    <3>1. rec.stage = "rehash" /\ rec.typed = chosen /\ rec.read = q.read BY <1>3, <2>4 DEF RequestRow
    <3>2. Becomes(r, rec) BY <2>4
    <3> HIDE DEF rec
    <3>3. \A x \in Request :
               /\ request'[x].stage \in {"password", "rehash"} => request'[x].read.password = chosen'
               /\ request'[x].stage \in {"rehash", "second"} => request'[x].typed = chosen'
      BY <2>1, <3>1, <3>2, <1>5
    <3> QED BY <2>1, <2>4, <3>3, <1>1, <1>2, <1>4 DEF PasswordHolds, PasswordStays, history
  <2>5. CASE q.typed = chosen /\ Becomes(r, Over) /\ states' = states \cup {VerifiedState(q.typed)}
    <3>1. \A x \in Request :
               /\ request'[x].stage \in {"password", "rehash"} => request'[x].read.password = chosen'
               /\ request'[x].stage \in {"rehash", "second"} => request'[x].typed = chosen'
      BY <2>2, <2>5, <1>5
    <3>2. VerifiedState(q.typed).password = chosen BY <2>5 DEF VerifiedState
    <3> QED BY <2>1, <2>5, <3>1, <3>2, <1>1, <1>2, <1>4 DEF PasswordHolds, PasswordStays, history
  <2> QED BY <1>7, <2>1, <2>3, <2>4, <2>5 DEF PasswordChecked
<1>8. CASE Rehashed(r)
  <2>1. q.typed = chosen BY <1>8, <1>2 DEF Rehashed, PasswordHolds
  <2>2. operator'.password = chosen BY <1>8, <1>3, <2>1 DEF Rehashed, OperatorRow
  <2>3. \A x \in Request :
               /\ request'[x].stage \in {"password", "rehash"} => request'[x].read.password = chosen'
               /\ request'[x].stage \in {"rehash", "second"} => request'[x].typed = chosen'
    BY <1>5, <1>8, BlankFilled DEF Rehashed
  <2>4. VerifiedState(q.typed).password = chosen BY <2>1 DEF VerifiedState
  <2>5. states' = states \cup {VerifiedState(q.typed)} BY <1>8 DEF Rehashed
  <2> QED BY <2>2, <2>3, <2>4, <2>5, <1>1, <1>2, <1>4 DEF PasswordHolds, PasswordStays, history
<1> QED BY <1>6, <1>7, <1>8

\* The second step takes the password of the cookie, and opens with it.
LEMMA SecondPasswords ==
  ASSUME LoginTyped, PasswordsInv, NEW r \in Request,
         \/ \E c \in states, code \in Codes, s \in Session \cup {NoLoginRow} : Verify(r, c, code, s)
         \/ \E s \in Session : TotpAccepted(r, s) \/ RecoveryAccepted(r, s)
  PROVE  PasswordsInv'
<1> SUFFICES ASSUME "change" \notin crossed' PROVE PasswordHolds' BY DEF PasswordsInv
<1>0. TablesOK /\ operator \in OperatorRow BY LoginTypedParts DEF TablesOK
<1>1. ASSUME NEW c \in states, NEW code \in Codes, NEW s \in Session \cup {NoLoginRow}, Verify(r, c, code, s)
      PROVE  PasswordHolds'
  <2>1. UNCHANGED <<now, operator, unused, states, chosen, opened, keepers, given>> /\ crossed \subseteq crossed'
        /\ c.until > now
    BY <1>1 DEF Verify
  <2>2. PasswordHolds BY <2>1 DEF PasswordsInv
  <2>3. /\ request'[r].stage = "second" /\ request'[r].typed = c.password
        /\ \A q \in Request : q # r => request'[q] = request[q]
    BY <1>1 DEF Verify, Becomes, LoginTyped, Blank
  <2>4. c.password = chosen BY <2>1, <2>2 DEF PasswordHolds
  <2>5. \A t \in Session : sessions'[t] # NoLoginRow => sessions[t] # NoLoginRow
    <3>1. CASE s = NoLoginRow BY <3>1, <1>1 DEF Verify
    <3>2. CASE s # NoLoginRow
      <4>1. s \in Session /\ sessions' = Touched(s) BY <3>2, <1>1 DEF Verify
      <4> QED BY <4>1, <1>0, TouchedRows
    <3> QED BY <3>1, <3>2
  <2>6. \A x \in Request :
               /\ request'[x].stage \in {"password", "rehash"} => request'[x].read.password = chosen'
               /\ request'[x].stage \in {"rehash", "second"} => request'[x].typed = chosen'
    BY <2>1, <2>2, <2>3, <2>4 DEF PasswordHolds
  <2>7. \A t \in Session : sessions'[t] # NoLoginRow => opened'[t].password = chosen' \/ t \in keepers'
    BY <2>1, <2>2, <2>5 DEF PasswordHolds
  <2> QED BY <2>1, <2>2, <2>6, <2>7 DEF PasswordHolds, PasswordStays
<1>2. ASSUME NEW s \in Session, TotpAccepted(r, s) \/ RecoveryAccepted(r, s)
      PROVE  PasswordHolds'
  <2>1. /\ request[r].stage = "second" /\ StartSession(r, s) /\ Becomes(r, Over) /\ UNCHANGED <<now, states>>
        /\ operator'.password = operator.password
    BY <1>2, <1>0 DEF TotpAccepted, RecoveryAccepted, OperatorRow
  <2>2. UNCHANGED <<chosen, keepers, crossed>> BY <2>1 DEF StartSession
  <2>3. PasswordHolds BY <2>2 DEF PasswordsInv
  <2>4. request[r].typed = chosen BY <2>1, <2>3 DEF PasswordHolds
  <2>5. \A x \in Request :
               /\ request'[x].stage \in {"password", "rehash"} => request'[x].read.password = chosen'
               /\ request'[x].stage \in {"rehash", "second"} => request'[x].typed = chosen'
    BY <2>1, <2>2, <2>3, BlankFilled DEF PasswordHolds, Becomes, LoginTyped
  <2>6. \A t \in Session : sessions'[t] # NoLoginRow => opened'[t].password = chosen' \/ t \in keepers'
    BY <2>1, <2>2, <2>3, <2>4, StartedRows DEF PasswordHolds
  <2> QED BY <2>1, <2>2, <2>3, <2>5, <2>6 DEF PasswordHolds, PasswordStays
<1> QED BY <1>1, <1>2

\* The password is changed while no login is under way: no cookie is good, and
\* every session but the one that changed it ends.
LEMMA ChangePasswords ==
  ASSUME LoginTyped, PasswordsInv, NEW r \in Request, ChangeDone(r)
  PROVE  PasswordsInv'
<1> SUFFICES ASSUME "change" \notin crossed' PROVE PasswordHolds' BY DEF PasswordsInv
<1>0. operator \in OperatorRow BY LoginTypedParts DEF TablesOK
<1>1. ~LoginsUnderWay BY DEF ChangeDone
<1>2. PasswordStays' BY <1>0 DEF ChangeDone, PasswordStays, OperatorRow
<1>3. \A c \in states' : ~(c.until > now') BY <1>1 DEF ChangeDone, LoginsUnderWay
<1>4. \A x \in Request : request'[x].stage \notin LoggingIn
  BY <1>1, BlankFilled DEF ChangeDone, LoginsUnderWay, Becomes, LoginTyped, LoggingIn
<1>5. \A s \in Session : sessions'[s] # NoLoginRow => s \in keepers' BY DEF ChangeDone
<1> QED BY <1>2, <1>3, <1>4, <1>5 DEF PasswordHolds, LoggingIn

\* Every step keeps what is said of the passwords.
LEMMA PasswordsStay ==
  ASSUME LoginTyped, LoginTyped', PasswordsInv, [Next]_vars
  PROVE  PasswordsInv'
<1>1. now' \in Time BY DEF LoginTyped, TypeOK
<1> QED BY <1>1, LoginSteps, PassingKeeps, PassingSteps, PassingClock, LoginPasswords, SecondPasswords, ChangePasswords

-----------------------------------------------------------------------------
(* Logging in.                                                             *)

LoginInv == LoginTyped /\ CodesInv /\ PasswordsInv

LEMMA LoginBegins == Init => LoginInv
<1> SUFFICES ASSUME Init PROVE LoginInv OBVIOUS
<1>1. PICK p \in Password, s \in Secret, w \in BOOLEAN, c \in RecoveryCode :
        /\ operator = [password |-> p, weak |-> w, secret |-> s, lastStep |-> Never]
        /\ unused = {c} /\ chosen = p /\ given = {c, s}
  BY DEF Init
<1>2. operator \in OperatorRow /\ operator.password = p /\ operator.secret = s
  <2>1. Never \in -1..(MaxTime + 1) BY LoginNumbers DEF Never
  <2> QED BY <1>1, <2>1 DEF OperatorRow
<1>3. /\ request \in [Request -> RequestRow]
      /\ \A r \in Request : Filled(request[r]) /\ request[r].stage = "new"
  BY BlankFilled DEF Init, Filled
<1>4. LoginTyped
  <2>1. TablesOK BY <1>1, <1>2, LoginNumbers DEF Init, TablesOK, Time
  <2> QED BY <2>1, <1>3 DEF LoginTyped, TypeOK, TablesOK, RequestRow
<1>5. Opened = {} /\ OpenedTotp = {} /\ OpenedCode = {} /\ SecondSteps = {}
  BY <1>3 DEF Init, Opened, OpenedTotp, OpenedCode, SecondSteps
<1>6. CodesInv
  BY <1>1, <1>2, <1>5 DEF Init, CodesInv, RowsAreOpened, Drawn, RecoveryOnce, CodesAlone, OneAtATime, StepsBehind,
     SecondFactorOnce, Opened
<1>7. PasswordsInv BY <1>1, <1>2, <1>3 DEF Init, PasswordsInv, PasswordHolds, PasswordStays
<1> QED BY <1>4, <1>6, <1>7 DEF LoginInv

LEMMA LoginStep == ASSUME LoginInv, [Next]_vars PROVE LoginInv'
  BY LoginTypesStay, CodesStay, PasswordsStay DEF LoginInv

LEMMA LoginImplies == LoginInv => LoginsSound
  BY DEF LoginInv, LoginTyped, LoginsSound, CodesInv, CodesAlone, AloneSound, PasswordsInv, PasswordHolds,
     OldPasswordOut, Live

\* ID-10, ID-11, ID-15: a recovery code opens one session, whatever crosses it;
\* and logins that cross neither each other nor a change of the password open one
\* session a code, keep the password that was set last and leave no session of an
\* older one - for every number of requests, sessions, codes and kills.
THEOREM LoginsAreSound == Spec => []LoginsSound
<1>1. LoginInv /\ [Next]_vars => LoginInv' BY LoginStep
<1> QED BY LoginBegins, <1>1, LoginImplies, PTL DEF Spec

\* ID-17, ID-15: a session that was ended is never back, whatever a request of
\* its own that was under way writes afterwards.
THEOREM SignedOutStaysOut == Spec => SignedOutStays
<1>1. LoginInv /\ [Next]_vars => LoginInv' BY LoginStep
<1>2. LoginInv /\ [Next]_vars =>
        [\A s \in Session : opened[s] # NoLoginRow /\ sessions[s] = NoLoginRow => sessions'[s] = NoLoginRow]_vars
  BY SessionsStayOut DEF LoginInv, LoginTyped, TypeOK
<1> QED BY LoginBegins, <1>1, <1>2, PTL DEF Spec, SignedOutStays
-----------------------------------------------------------------------------
(* Syncing.                                                                *)

\* At most one timer is pending, the one that would be cancelled, and none while
\* an interval's callback awaits its sync; there is one of the two as long as the
\* schedule is on.
Schedules ==
  /\ timers \subseteq {cancels}
  /\ chained \in {0, 1}
  /\ chained = 1 => timers = {} /\ IsRunning
  /\ isScheduling => timers # {} \/ chained = 1
  /\ ~isScheduling => timers = {}

\* What the stage of the loop says of the child and of the schedule.
Stages ==
  /\ serve \in {NoChild, spawned}
  /\ stage = "none" => serve = NoChild
  /\ stage # "serving" => ~isScheduling /\ ~isReady
  /\ stage \in {"starting", "initial", "started"} => chained = 0
  /\ stage \in {"starting", "started"} => ~IsRunning

\* The sync in flight is of the child it was asked of; one that pauses has it
\* attached still, unless it was detached for good.
Flights ==
  /\ inFlight.at = "first" => inFlight.child = first
  /\ inFlight.at = "pause" => stage # "none" /\ ~isHalted /\ serve \in {first, NoChild}
  /\ RetryStays
  /\ InitialIsOwn

SyncInv == SyncTypeOK /\ Schedules /\ Stages /\ Flights

\* The bounds as facts.
LEMMA SyncNumbers == MaxChildren \in Nat \ {0} /\ MaxTimers \in Nat \ {0} /\ MaxCallers \in Nat \ {0}
  BY SyncBounds

LEMMA SyncBegins == SyncInit => SyncInv
<1> SUFFICES ASSUME SyncInit PROVE SyncInv OBVIOUS
<1>1. SyncTypeOK
  <2>1. 0 \in 0..MaxChildren /\ 0 \in 0..MaxTimers /\ 0 \in 0..MaxCallers BY SyncNumbers
  <2>2. SyncIdle \in [at : {"none", "first", "pause", "second"}, child : 0..MaxChildren]
    BY <2>1 DEF SyncIdle, NoChild
  <2> QED BY <2>1, <2>2 DEF SyncInit, SyncTypeOK, NoChild
<1>2. Schedules /\ Stages BY DEF SyncInit, Schedules, Stages, SyncIdle, IsRunning
<1>3. Flights BY DEF SyncInit, Flights, RetryStays, InitialIsOwn, SyncIdle
<1> QED BY <1>1, <1>2, <1>3 DEF SyncInv

\* A timer is set when none is pending.
LEMMA ScheduleSets ==
  ASSUME SyncTypeOK, timers = {}, Schedule
  PROVE  timers' = {cancels'} /\ cancels' \in Timers /\ timers' \subseteq Timers /\ timers' # {}
  BY DEF Schedule

\* Ending the schedule cancels the one timer there may be.
LEMMA ScheduleEnds ==
  ASSUME SyncTypeOK, Schedules, EndSchedule
  PROVE  timers' = {} /\ cancels' = NoChild /\ ~isScheduling' /\ cancels' \in 0..MaxTimers /\ timers' \subseteq Timers
  BY SyncNumbers DEF SyncTypeOK, Schedules, EndSchedule, NoChild

\* Giving up a pause leaves nothing running; any other sync goes on.
LEMMA AbandonEnds ==
  ASSUME SyncTypeOK, Schedules, Abandon
  PROVE  /\ inFlight' \in [at : {"none", "first", "pause", "second"}, child : 0..MaxChildren]
         /\ inFlight'.at # "pause" /\ first' \in 0..MaxChildren /\ lastFailed' \in BOOLEAN
         /\ chained' \in {0, 1} /\ callers' \in 0..MaxCallers
         /\ chained' = 1 => IsRunning' /\ chained = 1
         /\ \/ inFlight.at = "pause" /\ inFlight' = SyncIdle /\ chained' = 0
            \/ inFlight.at # "pause" /\ UNCHANGED <<syncVars, waiterVars>>
<1>1. CASE inFlight.at = "pause"
  <2>1. inFlight' = SyncIdle /\ first' = NoChild /\ lastFailed' = TRUE /\ chained' = 0 /\ callers' = 0
    BY <1>1 DEF Abandon
  <2> QED BY <1>1, <2>1, SyncNumbers DEF SyncIdle, NoChild
<1>2. CASE inFlight.at # "pause"
  <2>1. UNCHANGED <<inFlight, first, lastFailed, chained, callers>> BY <1>2 DEF Abandon, syncVars, waiterVars
  <2> QED BY <1>2, <2>1 DEF SyncTypeOK, Schedules, IsRunning, syncVars, waiterVars
<1> QED BY <1>1, <1>2

\* A sync ends: everyone who awaits it goes on.
LEMMA SyncSettles == ASSUME SyncInv, CallEnds PROVE SyncInv'
<1>1. PICK ok \in BOOLEAN : Settle(ok) BY DEF CallEnds
<1>2. /\ inFlight' = SyncIdle /\ first' = NoChild /\ lastFailed' = ~ok /\ chained' = 0 /\ callers' = 0
      /\ stage' = IF stage = "initial" THEN "started" ELSE stage
      /\ UNCHANGED <<supervisorVars, isScheduling>>
  BY <1>1 DEF Settle, CallEnds
<1>3. /\ timers' \subseteq {cancels'} /\ timers' \subseteq Timers /\ cancels' \in 0..MaxTimers
      /\ isScheduling => timers' # {}
      /\ ~isScheduling => timers' = {}
  <2>1. CASE chained > 0 /\ isScheduling
    <3>1. timers = {} /\ Schedule BY <2>1, <1>1 DEF SyncInv, Schedules, Settle
    <3> QED BY <3>1, <2>1, ScheduleSets, SyncNumbers DEF SyncInv, Timers
  <2>2. CASE ~(chained > 0 /\ isScheduling)
    <3>1. UNCHANGED <<timers, cancels>> BY <2>2, <1>1 DEF Settle
    <3> QED BY <3>1, <2>2 DEF SyncInv, Schedules, SyncTypeOK
  <2> QED BY <2>1, <2>2
<1>4. SyncTypeOK' BY <1>2, <1>3, SyncNumbers DEF SyncInv, SyncTypeOK, SyncIdle, NoChild, supervisorVars
<1>5. Schedules' BY <1>2, <1>3 DEF Schedules
<1>6. inFlight'.at = "none" BY <1>2 DEF SyncIdle
<1>7. Stages' BY <1>2, <1>6 DEF SyncInv, Stages, supervisorVars, IsRunning
<1>8. Flights' BY <1>2, <1>6 DEF Flights, RetryStays, InitialIsOwn
<1> QED BY <1>4, <1>5, <1>7, <1>8 DEF SyncInv

\* Joining a sync, or asking the attached child for one.
LEMMA SyncJoins ==
  ASSUME SyncInv, Sync
  PROVE  /\ inFlight' \in [at : {"none", "first", "pause", "second"}, child : 0..MaxChildren]
         /\ first' \in 0..MaxChildren /\ lastFailed' \in BOOLEAN
         /\ inFlight'.at # "none"
         /\ \/ IsRunning /\ UNCHANGED syncVars
            \/ ~IsRunning /\ inFlight'.at = "first" /\ inFlight'.child = serve /\ first' = serve
  BY SyncNumbers DEF SyncInv, SyncTypeOK, Sync, IsRunning, syncVars

LEMMA SyncAsked ==
  ASSUME SyncInv, SyncNow \/ (\E t \in Timers : TimerFires(t)) \/ Unlocked
  PROVE  SyncInv'
<1>1. Sync /\ UNCHANGED <<supervisorVars, isScheduling, cancels>>
  BY DEF SyncNow, TimerFires, Unlocked, scheduleVars
<1>2. SyncTypeOK BY DEF SyncInv
<1>3. /\ timers' \subseteq timers
      /\ stage' \in {stage, "initial"} /\ (stage' = stage \/ Unlocked)
      /\ callers' \in 0..MaxCallers
  BY SyncNumbers DEF SyncInv, SyncTypeOK, SyncNow, TimerFires, Unlocked, scheduleVars, waiterVars
<1>4. /\ chained' \in {0, 1}
      /\ chained' = 1 => timers' = {}
      /\ isScheduling => timers' # {} \/ chained' = 1
      /\ stage \in {"starting", "initial", "started"} => chained' = 0
  <2>1. ASSUME NEW t \in Timers, TimerFires(t)
        PROVE  /\ chained' \in {0, 1}
               /\ chained' = 1 => timers' = {}
               /\ isScheduling => timers' # {} \/ chained' = 1
               /\ stage \in {"starting", "initial", "started"} => chained' = 0
    BY <2>1 DEF TimerFires, SyncInv, Schedules, Stages
  <2>2. CASE SyncNow \/ Unlocked
    BY <2>2 DEF SyncNow, Unlocked, SyncInv, Schedules, Stages, scheduleVars, waiterVars
  <2> QED BY <2>1, <2>2
<1>5. IsRunning' BY <1>1, SyncJoins DEF IsRunning
<1>6. SyncTypeOK'
  BY <1>1, <1>2, <1>3, <1>4, SyncJoins, SyncNumbers DEF SyncTypeOK, supervisorVars
<1>7. Schedules' BY <1>1, <1>3, <1>4, <1>5 DEF SyncInv, Schedules
<1>8. stage' \notin {"starting", "started"}
  BY <1>3 DEF SyncNow, TimerFires, Unlocked, SyncInv, Stages, Schedules
<1>9. Stages'
  BY <1>1, <1>3, <1>4, <1>8 DEF SyncInv, Stages, supervisorVars, Unlocked, SyncNow, TimerFires
<1>10. Flights'
  <2>1. CASE Unlocked
    <3>1. ~IsRunning /\ serve = spawned /\ stage' = "initial"
      BY <2>1 DEF Unlocked, SyncInv, Stages, SyncAnswers
    <3> QED BY <3>1, <1>1, <1>5, SyncJoins DEF Flights, RetryStays, InitialIsOwn, supervisorVars
  <2>2. CASE SyncNow \/ (\E t \in Timers : TimerFires(t))
    <3>1. stage' = stage BY <2>2 DEF SyncNow, TimerFires
    <3>2. CASE IsRunning /\ UNCHANGED syncVars
      BY <3>1, <3>2, <1>1 DEF SyncInv, Flights, RetryStays, InitialIsOwn, IsRunning, syncVars, supervisorVars
    <3>3. CASE ~IsRunning /\ inFlight'.at = "first" /\ inFlight'.child = serve /\ first' = serve
      BY <3>1, <3>3, <1>1 DEF SyncInv, Flights, RetryStays, InitialIsOwn, supervisorVars
    <3> QED BY <3>2, <3>3, <1>1, SyncJoins
  <2> QED BY <2>1, <2>2
<1> QED BY <1>6, <1>7, <1>9, <1>10 DEF SyncInv

\* The answer is malformed, and the retry is made.
LEMMA SyncRetries == ASSUME SyncInv, Malformed \/ Retry PROVE SyncInv'
<1>1. UNCHANGED <<supervisorVars, stage, scheduleVars, waiterVars, first, lastFailed>>
  BY DEF Malformed, Retry
<1>2. IsRunning /\ IsRunning' /\ inFlight' \in [at : {"none", "first", "pause", "second"}, child : 0..MaxChildren]
  BY DEF Malformed, Retry, SyncInv, SyncTypeOK, IsRunning
<1>3. SyncTypeOK' BY <1>1, <1>2 DEF SyncInv, SyncTypeOK, supervisorVars, scheduleVars, waiterVars
<1>4. Schedules' BY <1>1, <1>2 DEF SyncInv, Schedules, supervisorVars, scheduleVars, waiterVars
<1>5. Stages' BY <1>1, <1>2 DEF SyncInv, Stages, supervisorVars, scheduleVars, waiterVars
<1>6. CASE Malformed
  <2>1. inFlight.at = "first" /\ inFlight'.at = "pause" BY <1>6 DEF Malformed, SyncInv, SyncTypeOK
  <2>2. serve # NoChild /\ ~isHalted /\ serve = first
    BY <1>6, <2>1 DEF Malformed, SyncInv, Stages, Flights, SyncAnswers, IsChildAlive
  <2> QED BY <2>1, <2>2, <1>1, <1>2, <1>3, <1>4, <1>5
          DEF SyncInv, Flights, RetryStays, InitialIsOwn, Stages, supervisorVars
<1>7. CASE Retry
  <2>1. inFlight'.at = "second" /\ inFlight'.child = serve /\ serve \in {first, NoChild}
    BY <1>7 DEF Retry, SyncInv, Flights
  <2> QED BY <2>1, <1>1, <1>2, <1>3, <1>4, <1>5 DEF SyncInv, Flights, RetryStays, InitialIsOwn, supervisorVars
<1> QED BY <1>6, <1>7

\* A child comes, and the loop serves it.
LEMMA SyncServes == ASSUME SyncInv, ChildUp \/ LoopServes PROVE SyncInv'
<1>1. CASE ChildUp
  <2>1. ~IsRunning BY <1>1 DEF ChildUp, SyncInv, SyncTypeOK, Flights, IsRunning
  <2>2. serve' = spawned' /\ spawned' \in 0..MaxChildren BY <1>1, SyncNumbers DEF ChildUp, SyncInv, SyncTypeOK
  <2>3. SyncTypeOK' BY <1>1, <2>2 DEF ChildUp, SyncInv, SyncTypeOK, scheduleVars, waiterVars, syncVars
  <2>4. Schedules' BY <1>1, <2>1 DEF ChildUp, SyncInv, Schedules, scheduleVars, waiterVars, syncVars, IsRunning
  <2>5. Stages'
    BY <1>1, <2>1, <2>2 DEF ChildUp, SyncInv, Stages, Schedules, scheduleVars, waiterVars, syncVars, IsRunning
  <2>6. Flights'
    BY <1>1, <2>1 DEF ChildUp, Flights, RetryStays, InitialIsOwn, syncVars, IsRunning
  <2> QED BY <2>3, <2>4, <2>5, <2>6 DEF SyncInv
<1>2. CASE LoopServes
  <2>1. timers = {} /\ chained = 0 /\ ~IsRunning /\ SyncTypeOK
    BY <1>2 DEF LoopServes, SyncInv, Stages, Schedules
  <2>2. timers' = {cancels'} /\ cancels' \in Timers /\ timers' # {}
    BY <1>2, <2>1, ScheduleSets DEF LoopServes
  <2>3. cancels' \in 0..MaxTimers BY <2>2, SyncNumbers DEF Timers
  <2>4. SyncTypeOK' BY <1>2, <2>1, <2>2, <2>3 DEF LoopServes, SyncTypeOK, waiterVars, syncVars
  <2>5. Schedules' BY <1>2, <2>1, <2>2 DEF LoopServes, Schedules, waiterVars, syncVars
  <2>6. Stages' BY <1>2 DEF LoopServes, SyncInv, Stages, waiterVars, syncVars
  <2>7. Flights' BY <1>2, <2>1 DEF LoopServes, Flights, RetryStays, InitialIsOwn, syncVars, IsRunning
  <2> QED BY <2>4, <2>5, <2>6, <2>7 DEF SyncInv
<1> QED BY <1>1, <1>2

\* What is served ends, by a halt or by an exit: so does the schedule.
LEMMA SyncStops == ASSUME SyncInv, BeginHalt \/ ExitSeen PROVE SyncInv'
<1>1. SyncTypeOK /\ Schedules /\ Stages /\ Flights BY DEF SyncInv
<1>2. EndSchedule /\ Abandon /\ ~isReady' /\ UNCHANGED <<spawned, hasExited>>
  BY DEF BeginHalt, ExitSeen
<1>3. timers' = {} /\ cancels' = NoChild /\ ~isScheduling' /\ cancels' \in 0..MaxTimers /\ timers' \subseteq Timers
  BY <1>1, <1>2, ScheduleEnds
<1>4. isHalted' \in BOOLEAN /\ isReady' \in BOOLEAN /\ isScheduling' \in BOOLEAN
      /\ serve' \in 0..MaxChildren
  <2>1. isHalted' = TRUE \/ isHalted' = isHalted BY Zenon DEF BeginHalt, ExitSeen
  <2>2. isHalted \in BOOLEAN BY <1>1 DEF SyncTypeOK
  <2>3. isHalted' \in BOOLEAN BY <2>1, <2>2, Zenon
  <2>4. isReady' = FALSE /\ isScheduling' = FALSE BY Zenon DEF BeginHalt, ExitSeen, EndSchedule
  <2>5. serve' = serve \/ serve' = 0 BY DEF BeginHalt, ExitSeen, NoChild
  <2>6. serve' \in 0..MaxChildren BY <2>5, <1>1, SyncNumbers DEF SyncTypeOK
  <2> QED BY <2>3, <2>4, <2>6
<1>5. stage' \in {"none", "starting", "initial", "started", "serving"}
  BY <1>1 DEF BeginHalt, ExitSeen, SyncTypeOK
<1>6. inFlight' \in [at : {"none", "first", "pause", "second"}, child : 0..MaxChildren]
      /\ first' \in 0..MaxChildren /\ lastFailed' \in BOOLEAN
      /\ chained' \in {0, 1} /\ callers' \in 0..MaxCallers
      /\ inFlight'.at # "pause"
      /\ (chained' = 1 => IsRunning' /\ chained = 1)
  BY <1>1, <1>2, AbandonEnds
<1>7. SyncTypeOK'
  BY <1>1, <1>2, <1>3, <1>4, <1>5, <1>6, SyncNumbers DEF SyncTypeOK
<1>8. Schedules' BY <1>3, <1>6 DEF Schedules
<1>9. \/ inFlight.at = "pause" /\ inFlight' = SyncIdle /\ chained' = 0
      \/ inFlight.at # "pause" /\ UNCHANGED <<syncVars, waiterVars>>
  BY <1>1, <1>2, AbandonEnds
<1>10. Stages'
  <2>1. CASE BeginHalt
    BY <2>1, <1>1, <1>2, <1>3, <1>9 DEF BeginHalt, Stages, SyncIdle, IsRunning, syncVars, waiterVars, Flights
  <2>2. CASE ExitSeen
    BY <2>2, <1>1, <1>2, <1>3 DEF ExitSeen, Stages
  <2> QED BY <2>1, <2>2
<1>11. Flights'
  BY <1>1, <1>2, <1>6, <1>9 DEF BeginHalt, ExitSeen, Flights, RetryStays, InitialIsOwn, IsRunning, SyncIdle, syncVars
<1> QED BY <1>7, <1>8, <1>10, <1>11 DEF SyncInv

\* The child goes without the loop's seeing it yet, or a start has failed.
LEMMA SyncDetaches ==
  ASSUME SyncInv, Detach \/ ChildExits \/ StartEnds \/ UNCHANGED runnerVars
  PROVE  SyncInv'
<1>1. UNCHANGED <<spawned, isHalted, isReady, scheduleVars, waiterVars, syncVars>>
  BY DEF Detach, ChildExits, StartEnds, runnerVars, supervisorVars
<1>2. serve' \in {serve, NoChild} /\ stage' \in {stage, "none"} /\ hasExited' \in BOOLEAN
  BY DEF Detach, ChildExits, StartEnds, runnerVars, supervisorVars, SyncInv, SyncTypeOK
<1>3. stage' # stage => stage # "serving" /\ ~IsRunning /\ serve' = NoChild
  BY DEF Detach, ChildExits, StartEnds, runnerVars, supervisorVars, SyncInv, Stages
<1>4. SyncTypeOK'
  BY <1>1, <1>2, SyncNumbers DEF SyncInv, SyncTypeOK, NoChild, scheduleVars, waiterVars, syncVars
<1>5. Schedules' BY <1>1 DEF SyncInv, Schedules, scheduleVars, waiterVars, syncVars, IsRunning
<1>6. Stages'
  BY <1>1, <1>2, <1>3 DEF SyncInv, Stages, scheduleVars, waiterVars, syncVars, IsRunning, StartEnds
<1>7. Flights'
  BY <1>1, <1>2, <1>3 DEF SyncInv, Flights, RetryStays, InitialIsOwn, syncVars, IsRunning
<1> QED BY <1>4, <1>5, <1>6, <1>7 DEF SyncInv

LEMMA SyncStep == ASSUME SyncInv, [SyncNext]_runnerVars PROVE SyncInv'
  BY SyncSettles, SyncAsked, SyncRetries, SyncServes, SyncStops, SyncDetaches DEF SyncNext

LEMMA SyncImplies == SyncInv => SyncOwned /\ OneSchedule
<1> SUFFICES ASSUME SyncInv PROVE SyncOwned /\ OneSchedule OBVIOUS
<1>1. timers = {} \/ timers = {cancels} BY DEF SyncInv, Schedules
<1>2. timers = {} => Cardinality(timers) = 0 BY FS_EmptySet
<1>3. timers = {cancels} => Cardinality(timers) = 1 BY FS_Singleton
<1> QED BY <1>1, <1>2, <1>3 DEF SyncInv, Schedules, Flights, SyncOwned, OneSchedule

\* VAULT-9, VAULT-17: while the vault is served there is one schedule, and none
\* otherwise; an initial sync is its own child's and a retry goes to no other
\* child - for every number of children, timers and callers.
THEOREM SyncIsOwned == SyncSpec => [](SyncOwned /\ OneSchedule)
<1>1. SyncInv /\ [SyncNext]_runnerVars => SyncInv' BY SyncStep
<1> QED BY SyncBegins, <1>1, SyncImplies, PTL DEF SyncSpec
-----------------------------------------------------------------------------
(* The vault's connection.                                                 *)

\* The connection that stands: while a switch has not succeeded, the one that
\* was stored before it.
Standing ==
  IF step \in {"halting", "starting"} THEN IF replaced # NoAccount THEN replaced ELSE seed
                                      ELSE Resolved

StandingRuns ==
  isUp => IF Standing = NoAccount THEN inForce = 0 ELSE inForce # 0 /\ names[inForce] = Standing

\* What the step of configure() says of the generations.
Switching ==
  /\ ~isUp => step = "idle" /\ inForce = 0 /\ created = 0
  /\ inForce <= created
  /\ step # "starting" => trying = 0
  /\ step = "starting" => trying = created /\ trying # 0 /\ inForce < created /\ names[trying] = wanted
  /\ step # "cleaning" => leftover = 0
  /\ step = "halting" => created < MaxGenerations
  /\ step # "idle" => row = wanted /\ wanted # NoAccount

\* A directory in use is logged in to its own account or to none; and the first
\* one, which the next process takes again, to the connection that stands at most.
Directories ==
  /\ OldSessionUnused
  /\ trying # 0 => session[trying] \in {NoAccount, names[trying]}
  /\ created = 0 => session[1] \in {NoAccount, Standing}
  /\ created # 0 /\ 1 \notin {inForce, trying, leftover} => session[1] = NoAccount

ConnectionInv == ConnectionTypeOK /\ StandingRuns /\ Switching /\ Directories

LEMMA ConnectionNumbers ==
  /\ MaxGenerations \in Nat \ {0} /\ 1 \in Generations /\ 0 \in 0..MaxGenerations /\ 1 \in 0..MaxGenerations
  /\ 0 \notin Generations /\ Generations \subseteq 0..MaxGenerations
  /\ \A g \in 0..MaxGenerations : g # 0 => g \in Generations
  BY ConnectionAssumption DEF Generations

LEMMA ConnectionBegins == ConnectionInit => ConnectionInv
<1> SUFFICES ASSUME ConnectionInit PROVE ConnectionInv OBVIOUS
<1>1. ConnectionTypeOK BY ConnectionNumbers DEF ConnectionInit, ConnectionTypeOK, Connection
<1>2. StandingRuns /\ Switching BY DEF ConnectionInit, StandingRuns, Switching
<1>3. Directories BY ConnectionNumbers DEF ConnectionInit, Directories, OldSessionUnused
<1> QED BY <1>1, <1>2, <1>3 DEF ConnectionInv

\* A directory emptied, and one logged in.
LEMMA DirectoriesTyped ==
  ASSUME ConnectionTypeOK, NEW d \in Generations
  PROVE  /\ Removed(d) \in [Generations -> Connection] /\ Removed(d)[d] = NoAccount
         /\ \A g \in Generations : g # d => Removed(d)[g] = session[g]
         /\ LoggedIn(d) \in [Generations -> Connection]
         /\ LoggedIn(d)[d] = IF session[d] = NoAccount THEN names[d] ELSE session[d]
         /\ \A g \in Generations : g # d => LoggedIn(d)[g] = session[g]
  BY DEF ConnectionTypeOK, Removed, LoggedIn, Connection

\* A process starts, and takes the first directory.
LEMMA BootKeeps == ASSUME ConnectionInv, Boot PROVE ConnectionInv'
<1>1. ConnectionTypeOK /\ StandingRuns /\ Switching /\ Directories BY DEF ConnectionInv
<1>2. /\ ~isUp /\ isUp' = TRUE
      /\ inForce' = IF Resolved = NoAccount THEN 0 ELSE 1
      /\ created' = inForce'
      /\ names' = [g \in Generations |-> IF g = inForce' THEN Resolved ELSE NoAccount]
      /\ UNCHANGED <<row, seed, session, step, wanted, replaced, leftover, trying, retired, serving>>
  BY DEF Boot, BootWith
<1>3. step = "idle" /\ trying = 0 /\ leftover = 0 /\ Standing = Resolved /\ Standing' = Resolved /\ created = 0
  BY <1>1, <1>2 DEF Switching, Standing, Resolved
<1>4. Resolved \in Connection BY <1>1 DEF ConnectionTypeOK, Resolved
<1>5. inForce' \in 0..MaxGenerations BY <1>2, ConnectionNumbers
<1>6. names' \in [Generations -> Connection] BY <1>2, <1>4 DEF Connection
<1>7. ConnectionTypeOK' BY <1>1, <1>2, <1>5, <1>6 DEF ConnectionTypeOK
<1>8. inForce' # 0 => inForce' = 1 /\ names'[1] = Resolved BY <1>2, ConnectionNumbers
<1>9. StandingRuns' BY <1>2, <1>3, <1>8 DEF StandingRuns
<1>10. Switching' BY <1>2, <1>3, <1>5 DEF Switching
<1>11. session[1] \in {NoAccount, Resolved} BY <1>1, <1>3 DEF Directories
<1>12. Directories' BY <1>2, <1>3, <1>8, <1>11 DEF Directories, OldSessionUnused
<1> QED BY <1>7, <1>9, <1>10, <1>12 DEF ConnectionInv

\* The generation in force comes up, or goes down.
LEMMA ServingKeeps == ASSUME ConnectionInv, Serve \/ Fall \/ UNCHANGED connectionVars PROVE ConnectionInv'
<1>1. ConnectionTypeOK /\ StandingRuns /\ Switching /\ Directories BY DEF ConnectionInv
<1>2. UNCHANGED <<row, seed, processVars, inForce, trying, retired>> /\ serving' \in BOOLEAN
  BY <1>1 DEF Serve, Fall, Backend!Up, Backend!Down, connectionVars, backendVars, ConnectionTypeOK
<1>3. Standing' = Standing BY <1>2 DEF Standing, Resolved, processVars
<1>4. StandingRuns' /\ Switching' BY <1>1, <1>2, <1>3 DEF StandingRuns, Switching, processVars
<1>5. CASE UNCHANGED session
  <2>1. ConnectionTypeOK' BY <1>1, <1>2, <1>5 DEF ConnectionTypeOK, processVars
  <2>2. Directories' BY <1>1, <1>2, <1>3, <1>5 DEF Directories, OldSessionUnused, processVars
  <2> QED BY <1>4, <2>1, <2>2 DEF ConnectionInv
<1>6. CASE Serve
  <2>1. inForce # 0 /\ step = "idle" /\ session' = LoggedIn(inForce)
    BY <1>6 DEF Serve, Backend!Up, IsConfiguring
  <2>2. inForce \in Generations /\ created # 0 /\ trying = 0
    BY <1>1, <2>1, ConnectionNumbers DEF ConnectionTypeOK, Switching
  <2>3. ConnectionTypeOK' BY <1>1, <1>2, <2>1, <2>2, DirectoriesTyped DEF ConnectionTypeOK, processVars
  <2>4. OldSessionUnused' BY <1>1, <1>2, <2>1, <2>2, DirectoriesTyped DEF Directories, OldSessionUnused, processVars
  <2>5. Directories'
    BY <1>1, <1>2, <2>1, <2>2, <2>4, DirectoriesTyped, ConnectionNumbers DEF Directories, processVars
  <2> QED BY <1>4, <2>3, <2>5 DEF ConnectionInv
<1> QED BY <1>5, <1>6 DEF Serve, Fall, connectionVars

\* A switch begins: what stood still stands.
LEMMA ConfigureKeeps == ASSUME ConnectionInv, NEW a \in Accounts, Configure(a) PROVE ConnectionInv'
<1>1. ConnectionTypeOK /\ StandingRuns /\ Switching /\ Directories BY DEF ConnectionInv
<1>2. /\ isUp /\ step = "idle" /\ created < MaxGenerations
      /\ row' = a /\ replaced' = row /\ wanted' = a /\ step' = "halting"
      /\ UNCHANGED <<seed, session, isUp, names, created, leftover, inForce, trying, retired>> /\ serving' = FALSE
  BY DEF Configure, Backend!Down, IsConfiguring
<1>3. Standing' = Standing BY <1>2 DEF Standing, Resolved
<1>4. a \in Connection /\ a # NoAccount BY ConnectionAssumption DEF Connection
<1>5. ConnectionTypeOK' BY <1>1, <1>2, <1>4 DEF ConnectionTypeOK
<1>6. StandingRuns' BY <1>1, <1>2, <1>3 DEF StandingRuns
<1>7. Switching' BY <1>1, <1>2, <1>4 DEF Switching
<1>8. Directories' BY <1>1, <1>2, <1>3 DEF Directories, OldSessionUnused
<1> QED BY <1>5, <1>6, <1>7, <1>8 DEF ConnectionInv

\* The next generation, in a directory emptied first.
LEMMA TryKeeps == ASSUME ConnectionInv, Try PROVE ConnectionInv'
<1>1. ConnectionTypeOK /\ StandingRuns /\ Switching /\ Directories BY DEF ConnectionInv
<1>2. /\ step = "halting" /\ step' = "starting" /\ created' = created + 1 /\ trying' = created'
      /\ names' = [names EXCEPT ![created'] = wanted] /\ session' = Removed(created')
      /\ UNCHANGED <<row, seed, isUp, wanted, replaced, leftover, inForce, retired, serving>>
  BY DEF Try, Backend!Try
<1>3. created \in Nat /\ created' \in Generations /\ created' \in 0..MaxGenerations /\ created' # 0
      /\ inForce < created' /\ inForce \in 0..MaxGenerations
  BY <1>1, <1>2, ConnectionNumbers DEF ConnectionTypeOK, Switching, Generations
<1>4. Standing' = Standing BY <1>2 DEF Standing
<1>5. names' \in [Generations -> Connection] /\ names'[created'] = wanted
      /\ \A g \in Generations : g # created' => names'[g] = names[g]
  BY <1>1, <1>2, <1>3 DEF ConnectionTypeOK
<1>6. session' \in [Generations -> Connection] /\ session'[created'] = NoAccount
      /\ \A g \in Generations : g # created' => session'[g] = session[g]
  BY <1>1, <1>2, <1>3, DirectoriesTyped
<1>7. inForce # 0 => inForce \in Generations /\ inForce # created' BY <1>3, ConnectionNumbers
<1>8. ConnectionTypeOK' BY <1>1, <1>2, <1>3, <1>5, <1>6 DEF ConnectionTypeOK
<1>9. StandingRuns' BY <1>1, <1>2, <1>4, <1>5, <1>7 DEF StandingRuns
<1>10. Switching' BY <1>1, <1>2, <1>3, <1>5 DEF Switching, ConnectionTypeOK
<1>11. Directories'
  <2>1. OldSessionUnused' BY <1>1, <1>2, <1>5, <1>6, <1>7 DEF Directories, OldSessionUnused
  <2>2. trying = 0 /\ leftover = 0 BY <1>1, <1>2 DEF Switching
  <2>3. 1 \notin {inForce', trying', leftover'} => session'[1] = NoAccount
    <3> SUFFICES ASSUME 1 \notin {inForce', trying', leftover'} PROVE session'[1] = NoAccount OBVIOUS
    <3>1. created # 0 BY <1>2, <1>3
    <3>2. session[1] = NoAccount BY <3>1, <1>1, <1>2, <2>2 DEF Directories
    <3> QED BY <3>2, <1>2, <1>6, ConnectionNumbers
  <2> QED BY <2>1, <2>3, <1>2, <1>3, <1>6 DEF Directories
<1> QED BY <1>8, <1>9, <1>10, <1>11 DEF ConnectionInv

\* The new generation logs in, and is adopted.
LEMMA StartingKeeps == ASSUME ConnectionInv, LogIn \/ Adopt PROVE ConnectionInv'
<1>1. ConnectionTypeOK /\ StandingRuns /\ Switching /\ Directories BY DEF ConnectionInv
<1>2. step = "starting" BY DEF LogIn, Adopt
<1>3. trying = created /\ trying \in Generations /\ inForce < created /\ names[trying] = wanted /\ leftover = 0
      /\ row = wanted /\ wanted # NoAccount /\ inForce \in 0..MaxGenerations /\ created \in Nat
  BY <1>1, <1>2, ConnectionNumbers DEF Switching, ConnectionTypeOK
<1>4. CASE LogIn
  <2>1. session' = LoggedIn(trying) /\ UNCHANGED <<row, seed, processVars, backendVars>> BY <1>4 DEF LogIn
  <2>2. Standing' = Standing BY <2>1 DEF Standing, Resolved, processVars
  <2>3. session' \in [Generations -> Connection] /\ session'[trying] \in {NoAccount, names[trying]}
        /\ \A g \in Generations : g # trying => session'[g] = session[g]
    BY <1>1, <1>3, <2>1, DirectoriesTyped DEF Directories, Switching
  <2>4. ConnectionTypeOK' /\ StandingRuns' /\ Switching'
    BY <1>1, <2>1, <2>2, <2>3 DEF ConnectionTypeOK, StandingRuns, Switching, processVars, backendVars
  <2>5. Directories'
    <3>1. inForce # 0 => inForce \in Generations /\ inForce # trying BY <1>3, ConnectionNumbers
    <3>2. created # 0 BY <1>3, ConnectionNumbers
    <3> QED BY <1>1, <1>3, <2>1, <2>2, <2>3, <3>1, <3>2, ConnectionNumbers
            DEF Directories, OldSessionUnused, processVars, backendVars
  <2> QED BY <2>4, <2>5 DEF ConnectionInv
<1>5. CASE Adopt
  <2>1. /\ step' = "cleaning" /\ leftover' = inForce /\ inForce' = trying /\ trying' = 0 /\ serving' = FALSE
        /\ retired' = retired \cup ({inForce} \ {0})
        /\ UNCHANGED <<row, seed, session, isUp, names, created, wanted, replaced>>
    BY <1>5 DEF Adopt, Backend!Adopt
  <2>2. Standing' = row BY <1>3, <2>1 DEF Standing, Resolved
  <2>3. retired' \subseteq Generations BY <1>1, <1>3, <2>1, ConnectionNumbers DEF ConnectionTypeOK
  <2>4. ConnectionTypeOK' BY <1>1, <1>3, <2>1, <2>3, ConnectionNumbers DEF ConnectionTypeOK
  <2>5. StandingRuns' BY <1>3, <2>1, <2>2, ConnectionNumbers DEF StandingRuns
  <2>6. Switching' BY <1>1, <1>2, <1>3, <2>1, ConnectionNumbers DEF Switching
  <2>7. Directories' BY <1>1, <1>3, <2>1, ConnectionNumbers DEF Directories, OldSessionUnused
  <2> QED BY <2>4, <2>5, <2>6, <2>7 DEF ConnectionInv
<1> QED BY <1>4, <1>5

\* The switch ends, with the old directory gone or with the new one.
LEMMA SwitchEndKeeps == ASSUME ConnectionInv, Clean \/ GiveUp PROVE ConnectionInv'
<1>1. ConnectionTypeOK /\ StandingRuns /\ Switching /\ Directories BY DEF ConnectionInv
<1>2. step' = "idle" /\ wanted' = NoAccount /\ replaced' = NoAccount /\ UNCHANGED <<seed, isUp, names, created>>
  BY DEF Clean, GiveUp
<1>3. CASE Clean
  <2>1. /\ step = "cleaning" /\ session' = (IF leftover = 0 THEN session ELSE Removed(leftover)) /\ leftover' = 0
        /\ UNCHANGED <<row, inForce, trying, retired, serving>>
    BY <1>3 DEF Clean, backendVars
  <2>2. Standing = Resolved /\ Standing' = Resolved BY <1>2, <2>1 DEF Standing, Resolved
  <2>3. leftover # 0 => leftover \in Generations BY <1>1, ConnectionNumbers DEF ConnectionTypeOK
  <2>4. session' \in [Generations -> Connection]
        /\ \A g \in Generations : session'[g] = IF g = leftover THEN NoAccount ELSE session[g]
    BY <1>1, <2>1, <2>3, DirectoriesTyped, ConnectionNumbers DEF ConnectionTypeOK
  <2>5. ConnectionTypeOK' BY <1>1, <1>2, <2>1, <2>4, ConnectionNumbers DEF ConnectionTypeOK, Connection
  <2>6. StandingRuns' /\ Switching' BY <1>1, <1>2, <2>1, <2>2 DEF StandingRuns, Switching
  <2>7. inForce # 0 => inForce \in Generations BY <1>1, ConnectionNumbers DEF ConnectionTypeOK
  <2>8. Directories'
    BY <1>1, <1>2, <2>1, <2>2, <2>4, <2>7, ConnectionNumbers DEF Directories, OldSessionUnused, Switching
  <2> QED BY <2>5, <2>6, <2>8 DEF ConnectionInv
<1>4. CASE GiveUp
  <2>1. /\ step = "starting" /\ session' = Removed(trying) /\ row' = replaced /\ trying' = 0
        /\ retired' = retired \cup {trying} /\ UNCHANGED <<inForce, serving, leftover>>
    BY <1>4 DEF GiveUp, Backend!GiveUp
  <2>2. trying \in Generations /\ trying = created /\ inForce < created /\ leftover = 0 /\ created # 0
        /\ inForce \in 0..MaxGenerations /\ created \in Nat
    BY <1>1, <2>1, ConnectionNumbers DEF Switching, ConnectionTypeOK
  <2>3. Standing' = Standing BY <1>2, <2>1 DEF Standing, Resolved
  <2>4. session' \in [Generations -> Connection] /\ session'[trying] = NoAccount
        /\ \A g \in Generations : g # trying => session'[g] = session[g]
    BY <1>1, <2>1, <2>2, DirectoriesTyped
  <2>5. ConnectionTypeOK' BY <1>1, <1>2, <2>1, <2>2, <2>4, ConnectionNumbers DEF ConnectionTypeOK, Connection
  <2>6. StandingRuns' /\ Switching' BY <1>1, <1>2, <2>1, <2>2, <2>3 DEF StandingRuns, Switching
  <2>7. inForce # 0 => inForce \in Generations /\ inForce # trying BY <2>2, ConnectionNumbers
  <2>8. Directories'
    BY <1>1, <1>2, <2>1, <2>2, <2>4, <2>7, ConnectionNumbers DEF Directories, OldSessionUnused
  <2> QED BY <2>5, <2>6, <2>8 DEF ConnectionInv
<1> QED BY <1>3, <1>4

\* The process ends between two switches.
LEMMA EndKeeps == ASSUME ConnectionInv, ~DiesSwitching, End PROVE ConnectionInv'
<1>1. ConnectionTypeOK /\ StandingRuns /\ Switching /\ Directories BY DEF ConnectionInv
<1>2. /\ isUp /\ step = "idle" /\ isUp' = FALSE
      /\ names' = [g \in Generations |-> NoAccount] /\ created' = 0 /\ step' = "idle"
      /\ wanted' = NoAccount /\ replaced' = NoAccount /\ leftover' = 0
      /\ inForce' = 0 /\ trying' = 0 /\ retired' = {} /\ serving' = FALSE
      /\ UNCHANGED <<row, seed, session>>
  BY DEF End, IsConfiguring
<1>3. Standing = Resolved /\ Standing' = Resolved BY <1>2 DEF Standing, Resolved
<1>4. ConnectionTypeOK' BY <1>1, <1>2, ConnectionNumbers DEF ConnectionTypeOK, Connection
<1>5. StandingRuns' /\ Switching' BY <1>2, ConnectionNumbers DEF StandingRuns, Switching
<1>6. session[1] \in {NoAccount, Resolved}
  <2>1. trying = 0 /\ leftover = 0 BY <1>1, <1>2 DEF Switching
  <2>2. CASE inForce = 1 BY <2>2, <1>1, <1>2, <1>3 DEF Directories, OldSessionUnused, StandingRuns
  <2>3. CASE inForce # 1 BY <2>1, <2>3, <1>1, <1>3 DEF Directories
  <2> QED BY <2>2, <2>3
<1>7. Directories' BY <1>2, <1>3, <1>6 DEF Directories, OldSessionUnused
<1> QED BY <1>4, <1>5, <1>7 DEF ConnectionInv

LEMMA ConnectionStep ==
  ASSUME ConnectionInv, ~DiesSwitching, [ConnectionNext]_connectionVars PROVE ConnectionInv'
  BY BootKeeps, ServingKeeps, ConfigureKeeps, TryKeeps, StartingKeeps, SwitchEndKeeps, EndKeeps DEF ConnectionNext

LEMMA ConnectionImplies == ConnectionInv => ConnectionKept /\ OldSessionUnused
  BY DEF ConnectionInv, ConnectionKept, StoredRuns, StandingRuns, Standing, Directories, IsConfiguring

\* connection.ts:4, VAULT-8: outside a switch what is stored is what runs, in a
\* directory that is logged in to no other account, over every number of switches
\* and restarts - if no process dies in the middle of a switch.
THEOREM StoredConnectionRuns ==
  ASSUME ~DiesSwitching
  PROVE  ConnectionSpec => [](ConnectionKept /\ OldSessionUnused)
<1>1. ConnectionInv /\ [ConnectionNext]_connectionVars => ConnectionInv' BY ConnectionStep
<1> QED BY ConnectionBegins, <1>1, ConnectionImplies, PTL DEF ConnectionSpec

-----------------------------------------------------------------------------
(* The console.                                                            *)

\* A step of the console is one of a component, and the other components rest.
LEMMA ConsoleSteps ==
  ASSUME [ConsoleNext]_consoleVars
  PROVE  /\ [SetupNext]_setupVars
         /\ [Next]_vars
         /\ [SyncNext]_runnerVars
         /\ [ConnectionNext]_connectionVars
  BY DEF ConsoleNext, consoleVars

\* What the console shows of the vault: one schedule while it is served, syncs
\* of the child they were asked of, and the stored connection running in its own
\* session - beside whatever else the operator does.
THEOREM VaultIsSound ==
  ASSUME ~DiesSwitching
  PROVE  ConsoleSpec => []VaultSound
<1> DEFINE Inv == SyncInv /\ ConnectionInv
<1>1. ConsoleInit => Inv BY SyncBegins, ConnectionBegins DEF ConsoleInit
<1>2. Inv /\ [ConsoleNext]_consoleVars => Inv' BY ConsoleSteps, SyncStep, ConnectionStep
<1>3. Inv => VaultSound BY SyncImplies, ConnectionImplies DEF VaultSound
<1> QED BY <1>1, <1>2, <1>3, PTL DEF ConsoleSpec

-----------------------------------------------------------------------------
(* The forms a target is created and edited in.                            *)
(*                                                                         *)
(* A descriptor says what a control may hold and what a document may hold  *)
(* for it; what is read of the one can be stored, and what is written of   *)
(* the other is read back as it was.  The invariant then carries both over *)
(* every page, submission and row.                                         *)

\* The connectors with a form, and the sorts of their fields.
Kinds == {"ssh", "winrm", "http", "code", "sql"}
IsString(d) == d.kind \in {"text", "select", "number"}
IsList(d) == d.kind \in {"lines", "set"}

\* The texts, the lists, and the texts a form shows as they were sent.
IsText(w) == w \in FormTexts
IsTexts(ws) == ws \in FormLists
Stable(w) == IsText(w) /\ w # "" /\ Trim(w) = w

\* A proper descriptor: what its control offers at first can be stored as it is.
Proper(d) ==
  /\ d.kind \in {"text", "select", "number", "boolean", "lines", "set"} /\ d.picker \in {"no", "fallback", "none"}
  /\ d.picker # "no" => d.kind = "text"
  /\ d.verbatim \in BOOLEAN /\ (d.verbatim => d.kind = "text" /\ d.picker = "no")
  /\ d.kind = "boolean" => d.fallback \in BOOLEAN
  /\ IsList(d) => IsTexts(d.fallback)
  /\ d.kind \in {"select", "number"} \/ d.picker # "no" => Stable(d.fallback) /\ d.fallback \notin {"none", "null"}

\* A field in use with one choice only depends on a select that is always in use.
Depends(k, d) ==
  d.when # <<>> =>
    /\ d.when[1] \in Fields(k) \ {"any", "port", "host", "repository"}
    /\ Stable(d.when[2])
    /\ LET on == Form(k)[d.when[1]] IN on.kind = "select" /\ on.when = <<>> /\ on.picker = "no" /\ ~on.verbatim

\* What the rules expect of the fields they name.
Named(k, f, d) ==
  /\ f \in {"any", "commands", "port", "host", "repository"} => d.when = <<>> /\ d.picker = "no" /\ ~d.verbatim
  /\ f \in {"host", "repository"} => d.kind = "text"
  /\ f = "any" => d.kind = "boolean" /\ d.fallback = FALSE /\ k \in {"ssh", "winrm"}
  /\ f = "commands" => d.kind = "lines" /\ d.fallback = {}
  /\ f = "port" => d.kind = "number"
  /\ f = "token" => d.picker = "none"
  /\ f \in {"content", "operations"} <=> d.kind = "set"
  /\ f \in {"auth", "mode", "tls"} <=> d.kind = "select"
  /\ d.kind = "select" => d.when = <<>>
  /\ f = "prefix" => d.kind = "text" /\ d.picker = "no"
  /\ <<k, f>> # <<"sql", "port">> \/ d.kind = "number"

\* A descriptor by its parts.
Is(d, kind, fallback, when, picker, verbatim) ==
  d.kind = kind /\ d.fallback = fallback /\ d.when = when /\ d.picker = picker /\ d.verbatim = verbatim

\* What the constructors of a descriptor set.
LEMMA Descriptors ==
  /\ Is(Text, "text", "", <<>>, "no", FALSE)
  /\ Is(Verbatim(Text), "text", "", <<>>, "no", TRUE)
  /\ Is(When(Text, "tls", "verify"), "text", "", <<"tls", "verify">>, "no", FALSE)
  /\ Is(When(Verbatim(Text), "mode", "header"), "text", "", <<"mode", "header">>, "no", TRUE)
  /\ \A x : /\ Is(Select(x), "select", x, <<>>, "no", FALSE)
            /\ Is(Number(x), "number", x, <<>>, "no", FALSE)
            /\ Is(Box(x), "boolean", x, <<>>, "no", FALSE)
            /\ Is(Lines(x), "lines", x, <<>>, "no", FALSE)
            /\ Is(Boxes(x), "set", x, <<>>, "no", FALSE)
  /\ \A x, how : Is(Picker(how, x), "text", x, <<>>, how, FALSE)
  /\ \A x, v : Is(When(Picker("fallback", x), "auth", v), "text", x, <<"auth", v>>, "fallback", FALSE)
  <1>1. Is(Text, "text", "", <<>>, "no", FALSE) BY DEF Is, Text, Plain
  <1>2. Is(Verbatim(Text), "text", "", <<>>, "no", TRUE) BY DEF Is, Text, Plain, Verbatim
  <1>3. Is(When(Text, "tls", "verify"), "text", "", <<"tls", "verify">>, "no", FALSE) BY DEF Is, Text, Plain, When
  <1>4. Is(When(Verbatim(Text), "mode", "header"), "text", "", <<"mode", "header">>, "no", TRUE)
    BY DEF Is, Text, Plain, When, Verbatim
  <1>5. \A x : Is(Select(x), "select", x, <<>>, "no", FALSE) BY DEF Is, Plain, Select
  <1>6. \A x : Is(Number(x), "number", x, <<>>, "no", FALSE) BY DEF Is, Plain, Number
  <1>7. \A x : Is(Box(x), "boolean", x, <<>>, "no", FALSE) BY DEF Is, Plain, Box
  <1>8. \A x : Is(Lines(x), "lines", x, <<>>, "no", FALSE) BY DEF Is, Plain, Lines
  <1>9. \A x : Is(Boxes(x), "set", x, <<>>, "no", FALSE) BY DEF Is, Plain, Boxes
  <1>10. \A x, how : Is(Picker(how, x), "text", x, <<>>, how, FALSE) BY DEF Is, Plain, Picker
  <1>11. \A x, v : Is(When(Picker("fallback", x), "auth", v), "text", x, <<"auth", v>>, "fallback", FALSE)
    BY DEF Is, Plain, Picker, When
  <1> QED BY <1>1, <1>2, <1>3, <1>4, <1>5, <1>6, <1>7, <1>8, <1>9, <1>10, <1>11

\* The forms, field by field.
LEMMA SshIs ==
  /\ Fields("ssh") = {"host", "port", "auth", "key", "password", "commands", "any"}
  /\ Is(Form("ssh")["host"], "text", "", <<>>, "no", FALSE)
  /\ Is(Form("ssh")["port"], "number", "22", <<>>, "no", FALSE)
  /\ Is(Form("ssh")["auth"], "select", "key", <<>>, "no", FALSE)
  /\ Is(Form("ssh")["key"], "text", "sshKey", <<"auth", "key">>, "fallback", FALSE)
  /\ Is(Form("ssh")["password"], "text", "password", <<"auth", "password">>, "fallback", FALSE)
  /\ Is(Form("ssh")["commands"], "lines", {}, <<>>, "no", FALSE)
  /\ Is(Form("ssh")["any"], "boolean", FALSE, <<>>, "no", FALSE)
  BY Descriptors DEF Form, SshForm, Fields

LEMMA WinrmIs ==
  /\ Fields("winrm") = {"host", "auth", "pin", "password", "commands", "any"}
  /\ Is(Form("winrm")["host"], "text", "", <<>>, "no", FALSE)
  /\ Is(Form("winrm")["auth"], "select", "negotiate", <<>>, "no", FALSE)
  /\ Is(Form("winrm")["pin"], "text", "", <<>>, "no", FALSE)
  /\ Is(Form("winrm")["password"], "text", "password", <<>>, "fallback", FALSE)
  /\ Is(Form("winrm")["commands"], "lines", {}, <<>>, "no", FALSE)
  /\ Is(Form("winrm")["any"], "boolean", FALSE, <<>>, "no", FALSE)
  BY Descriptors DEF Form, WinrmForm, Fields

LEMMA HttpIs ==
  /\ Fields("http") = {"mode", "field", "prefix", "host", "headers", "follow"}
  /\ Is(Form("http")["mode"], "select", "bearer", <<>>, "no", FALSE)
  /\ Is(Form("http")["field"], "text", "password", <<>>, "fallback", FALSE)
  /\ Is(Form("http")["prefix"], "text", "", <<"mode", "header">>, "no", TRUE)
  /\ Is(Form("http")["host"], "text", "", <<>>, "no", FALSE)
  /\ Is(Form("http")["headers"], "lines", {"accept"}, <<>>, "no", FALSE)
  /\ Is(Form("http")["follow"], "boolean", FALSE, <<>>, "no", FALSE)
  BY Descriptors DEF Form, HttpForm, HttpMapping, Together, Fields

LEMMA CodeIs ==
  /\ Fields("code") = {"repository", "ref", "token", "content", "read"}
  /\ Is(Form("code")["repository"], "text", "", <<>>, "no", FALSE)
  /\ Is(Form("code")["ref"], "text", "", <<>>, "no", FALSE)
  /\ Is(Form("code")["token"], "text", "password", <<>>, "none", FALSE)
  /\ Is(Form("code")["content"], "set", {"code", "docs"}, <<>>, "no", FALSE)
  /\ Is(Form("code")["read"], "boolean", TRUE, <<>>, "no", FALSE)
  BY Descriptors DEF Form, CodeForm, Fields

LEMMA SqlIs ==
  /\ Fields("sql") = {"host", "port", "tls", "ca", "operations"}
  /\ Is(Form("sql")["host"], "text", "", <<>>, "no", FALSE)
  /\ Is(Form("sql")["port"], "number", "5432", <<>>, "no", FALSE)
  /\ Is(Form("sql")["tls"], "select", "require", <<>>, "no", FALSE)
  /\ Is(Form("sql")["ca"], "text", "", <<"tls", "verify">>, "no", FALSE)
  /\ Is(Form("sql")["operations"], "set", {"read"}, <<>>, "no", FALSE)
  BY Descriptors DEF Form, SqlForm, Fields

-----------------------------------------------------------------------------
\* What the conversions do, by the kind of the field.
LEMMA TrimIs ==
  ASSUME NEW t
  PROVE  (t = "_" => Trim(t) = "") /\ (t = "Token_" => Trim(t) = "Token") /\ (t # "_" /\ t # "Token_" => Trim(t) = t)
  BY DEF Trim

\* The texts, as a list the provers can use.
LEMMA Texts ==
  \A w : IsText(w) <=>
    w \in {"", "_", "Token_", "Token", "key", "sshKey", "password", "none", "null", "negotiate", "basic", "bearer", "header",
          "require", "verify", "22", "5432", "1", "9", "code", "docs", "read", "write", "accept", "list", "word",
          "acme", "Acme", "other", "db", "lan", "db:1", "db2"}
  BY DEF IsText, FormTexts

\* No value at all is none of the values.
LEMMA AbsentIsNone == ~IsText(Absent) /\ ~IsTexts(Absent) /\ Absent \notin BOOLEAN
  BY FormsAssumption, Zenon DEF IsText, IsTexts

\* A trimmed text is a text, trimmed once and for all.
LEMMA Trimmed ==
  ASSUME NEW t, IsText(t)
  PROVE  IsText(Trim(t)) /\ Trim(Trim(t)) = Trim(t)
  <1>1. Trim("") = "" /\ Trim("Token") = "Token" BY TrimIs, Zenon
  <1> QED BY <1>1, TrimIs, Texts

\* An empty control and what is read of one, by the sort of the field.
LEMMA EmptyIs ==
  ASSUME NEW d
  PROVE  /\ IsList(d) => Empty(d) = {}
         /\ d.kind = "boolean" => Empty(d) = FALSE
         /\ ~IsList(d) /\ d.kind # "boolean" => Empty(d) = ""
  BY DEF Empty, IsList

LEMMA ReadIs ==
  ASSUME NEW d, NEW raw
  PROVE  /\ d.kind = "boolean" => ReadField(d, raw) = raw
         /\ IsList(d) => ReadField(d, raw) = IF raw = {} THEN Absent ELSE raw
         /\ ~IsList(d) /\ d.kind # "boolean" =>
              /\ d.picker = "none" /\ raw = "none" => ReadField(d, raw) = "null"
              /\ ~(d.picker = "none" /\ raw = "none") =>
                   /\ Trim(raw) = "" => ReadField(d, raw) = Absent
                   /\ Trim(raw) # "" => ReadField(d, raw) = IF d.verbatim THEN raw ELSE Trim(raw)
  BY DEF ReadField, IsList

-----------------------------------------------------------------------------
\* Every field of every form fits.
LEMMA StableWords ==
  \A w \in {"sshKey", "password", "key", "22", "negotiate", "bearer", "header", "5432", "require", "verify"} :
    Stable(w) /\ w \notin {"none", "null"}
  BY TrimIs, Texts, Zenon DEF Stable

\* The lists and sets of the forms.
LEMMA TextSets ==
  \A ws : ws \subseteq {"accept", "list", "code", "docs", "read", "write"} => IsTexts(ws)
  BY Zenon DEF IsTexts, FormLists

Fits(k, f) == Proper(Form(k)[f]) /\ Depends(k, Form(k)[f]) /\ Named(k, f, Form(k)[f])

\* When a descriptor is a proper one.
LEMMA IsProper ==
  ASSUME NEW d, NEW kind, NEW fallback, NEW when, NEW picker, NEW verbatim, Is(d, kind, fallback, when, picker, verbatim),
         \/ kind = "text" /\ picker = "no" /\ verbatim \in BOOLEAN
         \/ kind = "text" /\ picker \in {"fallback", "none"} /\ verbatim = FALSE /\ Stable(fallback) /\ fallback \notin {"none", "null"}
         \/ kind \in {"select", "number"} /\ picker = "no" /\ verbatim = FALSE /\ Stable(fallback) /\ fallback \notin {"none", "null"}
         \/ kind = "boolean" /\ fallback \in BOOLEAN /\ picker = "no" /\ verbatim = FALSE
         \/ kind \in {"lines", "set"} /\ IsTexts(fallback) /\ picker = "no" /\ verbatim = FALSE
  PROVE  Proper(d)
  BY DEF Is, Proper, IsList

\* A field in use with one choice of a select depends on that select.
LEMMA DependsOn ==
  ASSUME NEW k, NEW f, NEW w \in Fields(k) \ {"any", "port", "host", "repository"}, NEW v, Stable(v),
         NEW x, NEW y, NEW how, NEW verbatim,
         Is(Form(k)[f], "text", x, <<w, v>>, how, verbatim), Is(Form(k)[w], "select", y, <<>>, "no", FALSE)
  PROVE  Depends(k, Form(k)[f])
  BY DEF Depends, Is

\* The fields of each form, one form after another.
LEMMA SshFits == \A f \in Fields("ssh") : Fits("ssh", f)
  <1> SUFFICES ASSUME NEW f \in Fields("ssh") PROVE Fits("ssh", f) OBVIOUS
  <1>1. Proper(Form("ssh")[f])
    <2>1. CASE f = "host" BY <2>1, SshIs, IsProper
    <2>2. CASE f \in {"port", "auth", "key", "password"} BY <2>2, SshIs, IsProper, StableWords
    <2>3. CASE f = "commands" BY <2>3, SshIs, IsProper, TextSets
    <2>4. CASE f = "any" BY <2>4, SshIs, IsProper
    <2> QED BY <2>1, <2>2, <2>3, <2>4, SshIs
  <1>2. Stable("key") /\ Stable("password") BY StableWords
  <1>3. "auth" \in Fields("ssh") \ {"any", "port", "host", "repository"} BY SshIs
  <1>4. Depends("ssh", Form("ssh")["key"]) BY <1>2, <1>3, SshIs, DependsOn
  <1>5. Depends("ssh", Form("ssh")["password"]) BY <1>2, <1>3, SshIs, DependsOn
  <1>6. Depends("ssh", Form("ssh")[f])
    <2>1. CASE f \in {"key", "password"} BY <2>1, <1>4, <1>5
    <2>2. CASE f \in {"host", "port", "auth", "commands", "any"}
      <3>1. Form("ssh")[f].when = <<>> BY <2>2, SshIs DEF Is
      <3> QED BY <3>1 DEF Depends
    <2> QED BY <2>1, <2>2, SshIs
  <1>7. Named("ssh", f, Form("ssh")[f])
    <2>1. CASE f = "host" BY <2>1, SshIs DEF Is, Named
    <2>2. CASE f = "port" BY <2>2, SshIs DEF Is, Named
    <2>3. CASE f = "auth" BY <2>3, SshIs DEF Is, Named
    <2>4. CASE f = "key" BY <2>4, SshIs DEF Is, Named
    <2>5. CASE f = "password" BY <2>5, SshIs DEF Is, Named
    <2>6. CASE f = "commands" BY <2>6, SshIs DEF Is, Named
    <2>7. CASE f = "any" BY <2>7, SshIs DEF Is, Named
    <2> QED BY <2>1, <2>2, <2>3, <2>4, <2>5, <2>6, <2>7, SshIs
  <1> QED BY <1>1, <1>6, <1>7 DEF Fits

LEMMA WinrmFits == \A f \in Fields("winrm") : Fits("winrm", f)
  <1> SUFFICES ASSUME NEW f \in Fields("winrm") PROVE Fits("winrm", f) OBVIOUS
  <1>1. Proper(Form("winrm")[f])
    <2>1. CASE f \in {"host", "pin"} BY <2>1, WinrmIs, IsProper
    <2>2. CASE f \in {"auth", "password"} BY <2>2, WinrmIs, IsProper, StableWords
    <2>3. CASE f = "commands" BY <2>3, WinrmIs, IsProper, TextSets
    <2>4. CASE f = "any" BY <2>4, WinrmIs, IsProper
    <2> QED BY <2>1, <2>2, <2>3, <2>4, WinrmIs
  <1>2. Depends("winrm", Form("winrm")[f]) BY WinrmIs DEF Is, Depends
  <1>3. Named("winrm", f, Form("winrm")[f])
    <2>1. CASE f = "host" BY <2>1, WinrmIs DEF Is, Named
    <2>2. CASE f = "auth" BY <2>2, WinrmIs DEF Is, Named
    <2>3. CASE f = "pin" BY <2>3, WinrmIs DEF Is, Named
    <2>4. CASE f = "password" BY <2>4, WinrmIs DEF Is, Named
    <2>5. CASE f = "commands" BY <2>5, WinrmIs DEF Is, Named
    <2>6. CASE f = "any" BY <2>6, WinrmIs DEF Is, Named
    <2> QED BY <2>1, <2>2, <2>3, <2>4, <2>5, <2>6, WinrmIs
  <1> QED BY <1>1, <1>2, <1>3 DEF Fits

LEMMA HttpFits == \A f \in Fields("http") : Fits("http", f)
  <1> SUFFICES ASSUME NEW f \in Fields("http") PROVE Fits("http", f) OBVIOUS
  <1>1. Proper(Form("http")[f])
    <2>1. CASE f \in {"host", "prefix"} BY <2>1, HttpIs, IsProper
    <2>2. CASE f \in {"mode", "field"} BY <2>2, HttpIs, IsProper, StableWords
    <2>3. CASE f = "headers" BY <2>3, HttpIs, IsProper, TextSets
    <2>4. CASE f = "follow" BY <2>4, HttpIs, IsProper
    <2> QED BY <2>1, <2>2, <2>3, <2>4, HttpIs
  <1>2. Stable("header") BY StableWords
  <1>3. "mode" \in Fields("http") \ {"any", "port", "host", "repository"} BY HttpIs
  <1>4. Depends("http", Form("http")["prefix"]) BY <1>2, <1>3, HttpIs, DependsOn
  <1>5. Depends("http", Form("http")[f])
    <2>1. CASE f \in {"prefix"} BY <2>1, <1>4
    <2>2. CASE f \in {"mode", "field", "host", "headers", "follow"}
      <3>1. Form("http")[f].when = <<>> BY <2>2, HttpIs DEF Is
      <3> QED BY <3>1 DEF Depends
    <2> QED BY <2>1, <2>2, HttpIs
  <1>6. Named("http", f, Form("http")[f])
    <2>1. CASE f = "mode" BY <2>1, HttpIs DEF Is, Named
    <2>2. CASE f = "field" BY <2>2, HttpIs DEF Is, Named
    <2>3. CASE f = "prefix" BY <2>3, HttpIs DEF Is, Named
    <2>4. CASE f = "host" BY <2>4, HttpIs DEF Is, Named
    <2>5. CASE f = "headers" BY <2>5, HttpIs DEF Is, Named
    <2>6. CASE f = "follow" BY <2>6, HttpIs DEF Is, Named
    <2> QED BY <2>1, <2>2, <2>3, <2>4, <2>5, <2>6, HttpIs
  <1> QED BY <1>1, <1>5, <1>6 DEF Fits

LEMMA CodeFits == \A f \in Fields("code") : Fits("code", f)
  <1> SUFFICES ASSUME NEW f \in Fields("code") PROVE Fits("code", f) OBVIOUS
  <1>1. Proper(Form("code")[f])
    <2>1. CASE f \in {"repository", "ref"} BY <2>1, CodeIs, IsProper
    <2>2. CASE f = "token" BY <2>2, CodeIs, IsProper, StableWords
    <2>3. CASE f = "content" BY <2>3, CodeIs, IsProper, TextSets
    <2>4. CASE f = "read" BY <2>4, CodeIs, IsProper
    <2> QED BY <2>1, <2>2, <2>3, <2>4, CodeIs
  <1>2. Depends("code", Form("code")[f]) BY CodeIs DEF Is, Depends
  <1>3. Named("code", f, Form("code")[f])
    <2>1. CASE f = "repository" BY <2>1, CodeIs DEF Is, Named
    <2>2. CASE f = "ref" BY <2>2, CodeIs DEF Is, Named
    <2>3. CASE f = "token" BY <2>3, CodeIs DEF Is, Named
    <2>4. CASE f = "content" BY <2>4, CodeIs DEF Is, Named
    <2>5. CASE f = "read" BY <2>5, CodeIs DEF Is, Named
    <2> QED BY <2>1, <2>2, <2>3, <2>4, <2>5, CodeIs
  <1> QED BY <1>1, <1>2, <1>3 DEF Fits

LEMMA SqlFits == \A f \in Fields("sql") : Fits("sql", f)
  <1> SUFFICES ASSUME NEW f \in Fields("sql") PROVE Fits("sql", f) OBVIOUS
  <1>1. Proper(Form("sql")[f])
    <2>1. CASE f \in {"host", "ca"} BY <2>1, SqlIs, IsProper
    <2>2. CASE f \in {"port", "tls"} BY <2>2, SqlIs, IsProper, StableWords
    <2>3. CASE f = "operations" BY <2>3, SqlIs, IsProper, TextSets
    <2> QED BY <2>1, <2>2, <2>3, SqlIs
  <1>2. Stable("verify") BY StableWords
  <1>3. "tls" \in Fields("sql") \ {"any", "port", "host", "repository"} BY SqlIs
  <1>4. Depends("sql", Form("sql")["ca"]) BY <1>2, <1>3, SqlIs, DependsOn
  <1>5. Depends("sql", Form("sql")[f])
    <2>1. CASE f \in {"ca"} BY <2>1, <1>4
    <2>2. CASE f \in {"host", "port", "tls", "operations"}
      <3>1. Form("sql")[f].when = <<>> BY <2>2, SqlIs DEF Is
      <3> QED BY <3>1 DEF Depends
    <2> QED BY <2>1, <2>2, SqlIs
  <1>6. Named("sql", f, Form("sql")[f])
    <2>1. CASE f = "host" BY <2>1, SqlIs DEF Is, Named
    <2>2. CASE f = "port" BY <2>2, SqlIs DEF Is, Named
    <2>3. CASE f = "tls" BY <2>3, SqlIs DEF Is, Named
    <2>4. CASE f = "ca" BY <2>4, SqlIs DEF Is, Named
    <2>5. CASE f = "operations" BY <2>5, SqlIs DEF Is, Named
    <2> QED BY <2>1, <2>2, <2>3, <2>4, <2>5, SqlIs
  <1> QED BY <1>1, <1>5, <1>6 DEF Fits

\* Every field of every form has a proper descriptor and, when it depends on another,
\* depends on a select that is always in use.
LEMMA FormsFit == \A k \in Kinds : \A f \in Fields(k) : Fits(k, f)
  BY SshFits, WinrmFits, HttpFits, CodeFits, SqlFits DEF Kinds

\* The fields that the rules name.
LEMMA FieldsThere ==
  ASSUME NEW k \in Kinds
  PROVE  /\ Supplied(k) \in Fields(k) /\ Supplied(k) \in {"host", "repository"}
         /\ k \in {"ssh", "winrm"} => {"any", "commands"} \subseteq Fields(k)
         /\ k = "code" <=> Supplied(k) = "repository"
         /\ "token" \in Fields("code")
  BY SshIs, WinrmIs, HttpIs, CodeIs, SqlIs DEF Kinds, Supplied

-----------------------------------------------------------------------------
\* What a control may hold, what a document may hold for it, and that the two conversions between them agree.
RawFor(d, v) ==
  /\ d.kind = "boolean" => v \in BOOLEAN
  /\ IsList(d) => IsTexts(v)
  /\ IsString(d) => IsText(v) /\ (d.picker = "none" => v # "null")
KeptFor(d, v) ==
  v # Absent =>
    /\ d.kind = "boolean" => v \in BOOLEAN
    /\ IsList(d) => IsTexts(v) /\ v # {}
    /\ IsString(d) => IsText(v) /\ Trim(v) # "" /\ (d.verbatim \/ Trim(v) = v) /\ (d.picker = "none" => v # "none")
Sorts(d) == (IsString(d) /\ ~IsList(d) /\ d.kind # "boolean") \/ (IsList(d) /\ ~IsString(d) /\ d.kind # "boolean")
            \/ (d.kind = "boolean" /\ ~IsList(d) /\ ~IsString(d))

\* A proper descriptor is of one sort: a text, a list or a box.
LEMMA Sorted ==
  ASSUME NEW d, Proper(d)
  PROVE  Sorts(d)
  BY DEF Proper, Sorts, IsList, IsString

\* What is read of a control can be stored.
LEMMA ReadKeeps ==
  ASSUME NEW d, Proper(d), NEW v, RawFor(d, v)
  PROVE  KeptFor(d, ReadField(d, v))
  <1>1. Sorts(d) BY Sorted
  <1>2. CASE d.kind = "boolean" BY <1>1, <1>2, ReadIs DEF Sorts, RawFor, KeptFor
  <1>3. CASE IsList(d) BY <1>1, <1>3, ReadIs DEF Sorts, RawFor, KeptFor
  <1>4. CASE IsString(d)
    <2>1. IsText(v) BY <1>4 DEF RawFor
    <2>2. CASE d.picker = "none" /\ v = "none"
      <3>1. ReadField(d, v) = "null" BY <1>1, <1>4, <2>2, ReadIs DEF Sorts
      <3>2. Trim("null") = "null" BY TrimIs, Zenon
      <3> QED BY <1>1, <1>4, <3>1, <3>2, Texts DEF KeptFor, Sorts
    <2>3. CASE ~(d.picker = "none" /\ v = "none") /\ Trim(v) = ""
      BY <1>1, <1>4, <2>3, ReadIs DEF KeptFor, Sorts
    <2>4. CASE ~(d.picker = "none" /\ v = "none") /\ Trim(v) # ""
      <3>1. ReadField(d, v) = IF d.verbatim THEN v ELSE Trim(v) BY <1>1, <1>4, <2>4, ReadIs DEF Sorts
      <3>2. IsText(Trim(v)) /\ Trim(Trim(v)) = Trim(v) BY <2>1, Trimmed
      <3>3. d.picker = "none" => v # "none" /\ Trim(v) # "none" BY <2>4, TrimIs
      <3> QED BY <1>1, <1>4, <2>1, <2>4, <3>1, <3>2, <3>3 DEF KeptFor, Sorts
    <2> QED BY <2>2, <2>3, <2>4
  <1> QED BY <1>1, <1>2, <1>3, <1>4 DEF Sorts

\* What the schema puts for a field left out.
LEMMA DefaultIs ==
  ASSUME NEW k \in Kinds, NEW f \in Fields(k)
  PROVE  LET d == Form(k)[f] IN
         /\ SchemaDefault(k, f) \in {Absent, d.fallback}
         /\ SchemaDefault(k, f) = Absent /\ d.fallback # Absent => d.kind = "number" \/ (d.kind = "text" /\ d.picker = "no")
         /\ d.kind = "text" /\ d.picker = "no" => SchemaDefault(k, f) = Absent
  <1>1. Named(k, f, Form(k)[f]) BY FormsFit DEF Fits
  <1> QED BY <1>1 DEF SchemaDefault, Default, Named

Chosen(k, f, v) == IF v = Absent THEN SchemaDefault(k, f) ELSE v
OnPage(d, v) == Preselected(d, WriteField(d, v))

\* What a form shows of a stored value is read back as that value.
LEMMA RoundTrip ==
  ASSUME NEW k \in Kinds, NEW f \in Fields(k), NEW v, KeptFor(Form(k)[f], v)
  PROVE  LET d == Form(k)[f]
             c == Chosen(k, f, v)
         IN /\ RawFor(d, OnPage(d, c))
            /\ Chosen(k, f, ReadField(d, OnPage(d, c))) = c
            /\ d.kind = "select" => OnPage(d, c) = c /\ Stable(c)
            /\ d.kind = "boolean" => OnPage(d, c) = c
  <1> DEFINE d == Form(k)[f]
             c == Chosen(k, f, v)
             s == OnPage(d, c)
  <1>1. Proper(d) BY FormsFit DEF Fits
  <1>2. Sorts(d) BY <1>1, Sorted
  <1>3. SchemaDefault(k, f) \in {Absent, d.fallback}
        /\ (SchemaDefault(k, f) = Absent /\ d.fallback # Absent => d.kind = "number" \/ (d.kind = "text" /\ d.picker = "no"))
    BY DefaultIs
  <1>4. CASE d.kind = "boolean"
    <2>1. d.fallback \in BOOLEAN BY <1>1, <1>4 DEF Proper
    <2>2. c \in BOOLEAN /\ c # Absent BY <1>3, <1>4, <2>1, AbsentIsNone DEF Chosen, KeptFor
    <2>3. d.picker = "no" BY <1>1, <1>4 DEF Proper
    <2>4. s = c BY <1>4, <2>2, <2>3 DEF OnPage, WriteField, Preselected
    <2>5. ReadField(d, s) = c BY <1>4, <2>4, ReadIs
    <2> QED BY <1>2, <1>4, <2>2, <2>4, <2>5 DEF RawFor, Sorts, Chosen
  <1>5. CASE IsList(d)
    <2>1. IsTexts(d.fallback) BY <1>1, <1>5 DEF Proper
    <2>2. IsTexts(c) /\ c # Absent /\ (c = {} => SchemaDefault(k, f) = c)
      BY <1>3, <1>5, <2>1, AbsentIsNone DEF Chosen, KeptFor, IsList
    <2>3. d.picker = "no" /\ d.kind # "select" BY <1>1, <1>5 DEF Proper, IsList
    <2>4. s = c BY <2>2, <2>3 DEF OnPage, WriteField, Preselected
    <2>5. ReadField(d, s) = IF c = {} THEN Absent ELSE c BY <1>5, <2>4, ReadIs
    <2> QED BY <1>2, <1>5, <2>2, <2>3, <2>4, <2>5 DEF RawFor, Sorts, Chosen
  <1>6. CASE IsString(d)
    <2>1. CASE c = Absent
      <3>1. v = Absent /\ SchemaDefault(k, f) = Absent BY <2>1 DEF Chosen
      <3>2. d.kind \in {"select", "number"} \/ d.picker # "no" => d.fallback # Absent
        BY <1>1, AbsentIsNone DEF Proper, Stable
      <3>3. d.kind = "number" \/ (d.kind = "text" /\ d.picker = "no") BY <1>3, <1>6, <3>1, <3>2 DEF IsString
      <3>4. Empty(d) = "" /\ Trim("") = "" BY <3>3, EmptyIs, TrimIs DEF IsList
      <3>5. s = "" BY <1>1, <2>1, <3>3, <3>4 DEF OnPage, WriteField, Preselected, Proper
      <3>6. ReadField(d, s) = Absent BY <1>1, <1>2, <1>6, <3>4, <3>5, ReadIs DEF Sorts
      <3> QED BY <1>2, <1>6, <2>1, <3>1, <3>3, <3>5, <3>6, Texts DEF RawFor, Sorts, Chosen
    <2>2. CASE c # Absent
      <3>1. IsText(c) /\ c # "" /\ Trim(c) # "" /\ (d.verbatim \/ Trim(c) = c) /\ (d.picker = "none" => c # "none")
        <4>1. Trim("") = "" BY TrimIs, Zenon
        <4>2. CASE v # Absent BY <1>2, <1>6, <4>1, <4>2 DEF Chosen, KeptFor, Sorts
        <4>3. CASE v = Absent
          <5>1. c = d.fallback /\ ~(d.kind = "text" /\ d.picker = "no") BY <2>2, <4>3, DefaultIs DEF Chosen
          <5>2. Stable(c) /\ c # "none" BY <1>1, <1>6, <5>1 DEF Proper, IsString
          <5> QED BY <5>2 DEF Stable
        <4> QED BY <4>2, <4>3
      <3>2. CASE d.picker = "none" /\ c = "null"
        <4>1. s = "none" BY <2>2, <3>2 DEF OnPage, WriteField, Preselected
        <4>2. ReadField(d, s) = c BY <1>2, <1>6, <3>2, <4>1, ReadIs DEF Sorts
        <4>3. d.kind = "text" BY <1>1, <3>2 DEF Proper
        <4> QED BY <1>2, <1>6, <2>2, <4>1, <4>2, <4>3, Texts DEF RawFor, Sorts, Chosen
      <3>3. CASE ~(d.picker = "none" /\ c = "null")
        <4>1. s = c BY <2>2, <3>1, <3>3 DEF OnPage, WriteField, Preselected
        <4>2. ReadField(d, s) = c BY <1>2, <1>6, <3>1, <4>1, ReadIs DEF Sorts
        <4>3. d.kind = "select" => ~d.verbatim BY <1>1 DEF Proper
        <4> QED BY <1>2, <1>6, <2>2, <3>1, <3>3, <4>1, <4>2, <4>3 DEF RawFor, Sorts, Chosen, Stable
      <3> QED BY <3>2, <3>3
    <2> QED BY <2>1, <2>2
  <1> QED BY <1>2, <1>4, <1>5, <1>6 DEF Sorts

\* A control that is not in use shows nothing, or what it offers first.
LEMMA UnusedShows ==
  ASSUME NEW d, Proper(d)
  PROVE  RawFor(d, OnPage(d, Absent))
  <1>1. Sorts(d) BY Sorted
  <1>2. CASE d.kind = "boolean" \/ IsList(d)
    <2>1. WriteField(d, Absent) = Empty(d) BY DEF WriteField
    <2>2. d.picker = "no" /\ d.kind # "select" BY <1>2 DEF Proper, IsList
    <2>3. OnPage(d, Absent) = Empty(d) BY <2>1, <2>2 DEF OnPage, Preselected
    <2>4. IsTexts({}) BY TextSets
    <2> QED BY <1>1, <1>2, <2>3, <2>4, EmptyIs DEF RawFor, Sorts
  <1>3. CASE IsString(d)
    <2>1. WriteField(d, Absent) = "" BY <1>1, <1>3, EmptyIs DEF WriteField, Sorts
    <2>2. OnPage(d, Absent) = "" \/ (OnPage(d, Absent) = d.fallback /\ (d.kind = "select" \/ d.picker # "no"))
      BY <2>1 DEF OnPage, Preselected
    <2>3. d.kind = "select" \/ d.picker # "no" => IsText(d.fallback) /\ d.fallback # "null" BY DEF Proper, Stable
    <2> QED BY <1>1, <1>3, <2>2, <2>3, Texts DEF RawFor, Sorts
  <1> QED BY <1>1, <1>2, <1>3 DEF Sorts

\* What the next form shows of what was sent.
LEMMA ShowsSent ==
  ASSUME NEW k \in Kinds, NEW f \in Fields(k), NEW a, RawFor(Form(k)[f], a)
  PROVE  LET d == Form(k)[f]
             later == OnPage(d, Chosen(k, f, ReadField(d, a)))
         IN \/ later = a
            \/ ~IsList(d) /\ d.kind # "boolean" /\ ~d.verbatim /\ later = Trim(a)
            \/ IsList(d) /\ a = {} /\ later = d.fallback
            \/ ~IsList(d) /\ d.kind # "boolean" /\ Trim(a) = "" /\ later \in {"", d.fallback}
  <1> DEFINE d == Form(k)[f]
             r == ReadField(d, a)
             c == Chosen(k, f, r)
             later == OnPage(d, c)
  <1>1. Proper(d) BY FormsFit DEF Fits
  <1>2. Sorts(d) BY <1>1, Sorted
  <1>3. KeptFor(d, r) BY <1>1, ReadKeeps
  <1>4. CASE d.kind = "boolean"
    <2>1. r = a /\ a \in BOOLEAN BY <1>2, <1>4, ReadIs DEF RawFor, Sorts
    <2>2. c = a BY <2>1, AbsentIsNone DEF Chosen
    <2> QED BY <1>3, <1>4, <2>2, RoundTrip
  <1>5. CASE IsList(d)
    <2>1. IsTexts(a) /\ r = IF a = {} THEN Absent ELSE a BY <1>2, <1>5, ReadIs DEF RawFor, Sorts
    <2>2. d.picker = "no" /\ d.kind # "select" BY <1>1, <1>5 DEF Proper, IsList
    <2>3. CASE a # {}
      <3>1. c = a /\ c # Absent BY <2>1, <2>3, AbsentIsNone DEF Chosen
      <3> QED BY <2>2, <3>1 DEF OnPage, WriteField, Preselected
    <2>4. CASE a = {}
      <3>1. c = SchemaDefault(k, f) /\ IsTexts(d.fallback) BY <1>1, <1>5, <2>1, <2>4 DEF Chosen, Proper
      <3>2. c = d.fallback /\ c # Absent BY <1>5, <3>1, DefaultIs, AbsentIsNone DEF IsList
      <3> QED BY <1>5, <2>2, <2>4, <3>2 DEF OnPage, WriteField, Preselected
    <2> QED BY <2>3, <2>4
  <1>6. CASE IsString(d)
    <2>1. IsText(a) /\ (d.picker = "none" => a # "null") BY <1>6 DEF RawFor
    <2>2. Trim("") = "" BY TrimIs, Zenon
    <2>3. CASE d.picker = "none" /\ a = "none"
      <3>1. r = "null" BY <1>2, <1>6, <2>3, ReadIs DEF Sorts
      <3>2. c = "null" /\ c # Absent BY <3>1, Texts, AbsentIsNone DEF Chosen
      <3>3. later = "none" BY <2>3, <3>2 DEF OnPage, WriteField, Preselected
      <3> QED BY <2>3, <3>3
    <2>4. CASE ~(d.picker = "none" /\ a = "none") /\ Trim(a) = ""
      <3>1. r = Absent BY <1>2, <1>6, <2>4, ReadIs DEF Sorts
      <3>2. c = SchemaDefault(k, f) BY <3>1 DEF Chosen
      <3>3. CASE c = Absent
        <4>1. WriteField(d, c) = "" BY <1>2, <1>6, <3>3, EmptyIs DEF WriteField, Sorts
        <4>2. later \in {"", d.fallback} BY <4>1 DEF OnPage, Preselected
        <4> QED BY <1>2, <1>6, <2>4, <4>2 DEF Sorts
      <3>4. CASE c # Absent
        <4>1. c = d.fallback /\ ~(d.kind = "text" /\ d.picker = "no") BY <3>2, <3>4, DefaultIs
        <4>2. Stable(c) /\ c # "null" BY <1>1, <1>6, <4>1 DEF Proper, IsString
        <4>3. later = d.fallback BY <3>4, <4>1, <4>2 DEF OnPage, WriteField, Preselected, Stable
        <4> QED BY <1>2, <1>6, <2>4, <4>3 DEF Sorts
      <3> QED BY <3>3, <3>4
    <2>5. CASE ~(d.picker = "none" /\ a = "none") /\ Trim(a) # ""
      <3>1. r = IF d.verbatim THEN a ELSE Trim(a) BY <1>2, <1>6, <2>5, ReadIs DEF Sorts
      <3>2. IsText(r) /\ r # "" BY <2>1, <2>2, <2>5, <3>1, Trimmed
      <3>3. c = r /\ c # Absent BY <3>2, AbsentIsNone DEF Chosen
      <3>4. d.picker = "none" => c # "null" BY <1>1, <2>1, <3>1, <3>3, TrimIs
      <3>5. later = c BY <3>2, <3>3, <3>4 DEF OnPage, WriteField, Preselected
      <3> QED BY <1>2, <1>6, <3>1, <3>3, <3>5 DEF Sorts
    <2> QED BY <2>3, <2>4, <2>5
  <1> QED BY <1>2, <1>4, <1>5, <1>6 DEF Sorts

-----------------------------------------------------------------------------
\* Whole forms and documents.
GoodValues(k, values) == \A f \in Fields(k) : RawFor(Form(k)[f], values[f])
GoodDocs(k, docs) == \A f \in Fields(k) : KeptFor(Form(k)[f], docs[f])
ChosenOf(k, docs) == [f \in Fields(k) |-> Chosen(k, f, docs[f])]

\* The documents as the schemas give them back.
LEMMA ValidatedIs ==
  ASSUME NEW k, NEW docs
  PROVE  Validated(k, docs) =
           [f \in Fields(k) |-> IF IsActive(Form(k)[f], ChosenOf(k, docs)) THEN ChosenOf(k, docs)[f] ELSE Absent]
  BY DEF Validated, ChosenOf, Chosen

\* What an edit form shows of a field: its value, while the field is in use.
LEMMA ValuesShown ==
  ASSUME NEW k \in Kinds, NEW docs, GoodDocs(k, docs), NEW f \in Fields(k)
  PROVE  /\ TargetValues(k, docs)[f] = OnPage(Form(k)[f], Validated(k, docs)[f])
         /\ IsActive(Form(k)[f], ChosenOf(k, docs)) => TargetValues(k, docs)[f] = OnPage(Form(k)[f], Chosen(k, f, docs[f]))
         /\ RawFor(Form(k)[f], TargetValues(k, docs)[f])
  <1>1. TargetValues(k, docs)[f] = OnPage(Form(k)[f], Validated(k, docs)[f]) BY DEF TargetValues, OnPage
  <1>2. KeptFor(Form(k)[f], docs[f]) /\ Proper(Form(k)[f]) BY FormsFit DEF GoodDocs, Fits
  <1>3. CASE IsActive(Form(k)[f], ChosenOf(k, docs))
    <2>1. Validated(k, docs)[f] = Chosen(k, f, docs[f]) BY <1>3, ValidatedIs DEF ChosenOf
    <2> QED BY <1>1, <1>2, <2>1, RoundTrip
  <1>4. CASE ~IsActive(Form(k)[f], ChosenOf(k, docs))
    <2>1. Validated(k, docs)[f] = Absent BY <1>4, ValidatedIs
    <2> QED BY <1>1, <1>2, <1>4, <2>1, UnusedShows
  <1> QED BY <1>3, <1>4

\* Which fields are in use is decided by selects, which show what is stored.
LEMMA UseShown ==
  ASSUME NEW k \in Kinds, NEW docs, GoodDocs(k, docs), NEW f \in Fields(k)
  PROVE  IsActive(Form(k)[f], TargetValues(k, docs)) = IsActive(Form(k)[f], ChosenOf(k, docs))
  <1> DEFINE d == Form(k)[f]
  <1>1. CASE d.when = <<>> BY <1>1 DEF IsActive
  <1>2. CASE d.when # <<>>
    <2> DEFINE w == d.when[1]
    <2>1. w \in Fields(k) /\ Form(k)[w].kind = "select" /\ Form(k)[w].when = <<>> BY <1>2, FormsFit DEF Fits, Depends
    <2>2. IsActive(Form(k)[w], ChosenOf(k, docs)) BY <2>1 DEF IsActive
    <2>3. TargetValues(k, docs)[w] = OnPage(Form(k)[w], Chosen(k, w, docs[w])) BY <2>1, <2>2, ValuesShown
    <2>4. KeptFor(Form(k)[w], docs[w]) BY <2>1 DEF GoodDocs
    <2>5. TargetValues(k, docs)[w] = ChosenOf(k, docs)[w] BY <2>1, <2>3, <2>4, RoundTrip DEF ChosenOf
    <2> HIDE DEF w
    <2> QED BY <2>5 DEF IsActive, w
  <1> QED BY <1>1, <1>2

\* An edit form nobody touched: every field that is drawn comes back as it was.
LEMMA ComesBack ==
  ASSUME NEW k \in Kinds, NEW docs, GoodDocs(k, docs), NEW f \in Fields(k),
         f \in DrawnFields(k) \/ docs[f] \in {Absent, FALSE}, IsActive(Form(k)[f], ChosenOf(k, docs))
  PROVE  Chosen(k, f, DocumentsFromForm(k, TargetValues(k, docs))[f]) = Chosen(k, f, docs[f])
  <1> DEFINE d == Form(k)[f]
             values == TargetValues(k, docs)
  <1>1. KeptFor(d, docs[f]) BY DEF GoodDocs
  <1>2. IsActive(d, values) BY UseShown
  <1>3. CASE f \in DrawnFields(k)
    <2>1. DocumentsFromForm(k, values)[f] = ReadField(d, values[f]) BY <1>2, <1>3 DEF DocumentsFromForm
    <2>2. values[f] = OnPage(d, Chosen(k, f, docs[f])) BY ValuesShown
    <2> QED BY <1>1, <2>1, <2>2, RoundTrip
  <1>4. CASE f \notin DrawnFields(k)
    <2>1. DocumentsFromForm(k, values)[f] = Absent BY <1>4 DEF DocumentsFromForm
    <2>2. f = "any" BY <1>4 DEF DrawnFields
    <2>3. d.kind = "boolean" /\ d.fallback = FALSE BY <2>2, FormsFit DEF Fits, Named
    <2>4. FALSE # Absent BY AbsentIsNone
    <2>5. SchemaDefault(k, f) = FALSE BY <2>3, <2>4, DefaultIs
    <2> QED BY <1>4, <2>1, <2>4, <2>5 DEF Chosen
  <1> QED BY <1>3, <1>4

\* An edit form that nobody touched, with every field drawn that says something, is
\* read back as documents that mean the same.
LEMMA NothingLost ==
  ASSUME NEW k \in Kinds, NEW docs, GoodDocs(k, docs), \A f \in Fields(k) : f \in DrawnFields(k) \/ docs[f] \in {Absent, FALSE}
  PROVE  Validated(k, DocumentsFromForm(k, TargetValues(k, docs))) = Validated(k, docs)
  <1> DEFINE again == DocumentsFromForm(k, TargetValues(k, docs))
  <1>1. ASSUME NEW f \in Fields(k), IsActive(Form(k)[f], ChosenOf(k, docs)) PROVE ChosenOf(k, again)[f] = ChosenOf(k, docs)[f]
    BY <1>1, ComesBack DEF ChosenOf
  <1>2. ASSUME NEW f \in Fields(k)
        PROVE  IsActive(Form(k)[f], ChosenOf(k, again)) = IsActive(Form(k)[f], ChosenOf(k, docs))
    <2> DEFINE d == Form(k)[f]
    <2>1. CASE d.when = <<>> BY <2>1 DEF IsActive
    <2>2. CASE d.when # <<>>
      <3> DEFINE w == d.when[1]
      <3>1. w \in Fields(k) /\ Form(k)[w].when = <<>> BY <2>2, FormsFit DEF Fits, Depends
      <3>2. IsActive(Form(k)[w], ChosenOf(k, docs)) BY <3>1 DEF IsActive
      <3>3. ChosenOf(k, again)[w] = ChosenOf(k, docs)[w] BY <1>1, <3>1, <3>2
      <3> HIDE DEF w
      <3> QED BY <3>3 DEF IsActive, w
    <2> QED BY <2>1, <2>2
  <1> HIDE DEF again
  <1> QED BY <1>1, <1>2, ValidatedIs DEF again

-----------------------------------------------------------------------------
\* The words that are typed, and what is copied in.
Takes(d, v) == RawFor(d, v) /\ (d.kind = "select" => Stable(v))
Offers(k) == IF k = "code" THEN {"", "Acme"} ELSE {"", "db:1", "db2"}
Held(k, values) == Fields(k) \subseteq DOMAIN values /\ \A f \in Fields(k) : Takes(Form(k)[f], values[f])

\* The words that can be typed in a control.
LEMMA WordsAre ==
  ASSUME NEW d, NEW f, d.kind \notin {"boolean", "lines"} \/ d.picker = "no"
  PROVE  /\ d.kind = "boolean" => Words(d, f) = BOOLEAN
         /\ d.kind = "lines" => Words(d, f) = {{}, {"list"}}
         /\ d.picker = "none" => Words(d, f) = {"password", "none", "sshKey"}
         /\ d.picker = "fallback" => Words(d, f) = {"password", "sshKey"}
         /\ d.kind \notin {"boolean", "lines"} /\ d.picker = "no" => Words(d, f) = FieldWords[f]
  <1>1. d.kind = "boolean" => Words(d, f) = BOOLEAN BY DEF Words
  <1>2. d.kind = "lines" => Words(d, f) = {{}, {"list"}} BY DEF Words
  <1>3. d.picker = "none" => Words(d, f) = {"password", "none", "sshKey"} BY DEF Words
  <1>4. d.picker = "fallback" => Words(d, f) = {"password", "sshKey"} BY DEF Words
  <1>5. d.kind \notin {"boolean", "lines"} /\ d.picker = "no" => Words(d, f) = FieldWords[f] BY DEF Words
  <1> QED BY <1>1, <1>2, <1>3, <1>4, <1>5

LEMMA FieldWordsAre ==
  /\ FieldWords["auth"] \subseteq {"key", "password", "negotiate", "basic"}
  /\ FieldWords["mode"] = {"bearer", "header"} /\ FieldWords["tls"] = {"require", "verify"}
  /\ FieldWords["content"] = SUBSET {"code", "docs"} /\ FieldWords["operations"] = SUBSET {"read", "write"}
  /\ FieldWords["port"] = {"", "9"} /\ FieldWords["prefix"] = {"Token_", "_"}
  /\ FieldWords["repository"] = {"", "acme", "other"} /\ FieldWords["host"] = {"", "db", "lan"}
  /\ FieldWords["pin"] = {"", "word"} /\ FieldWords["ref"] = {"", "word"} /\ FieldWords["ca"] = {"", "word"}
  BY DEF FieldWords

\* A control takes every word that can be typed in it.
LEMMA WordsTaken ==
  ASSUME connector \in Kinds, NEW f \in Fields(connector), NEW w \in Words(Form(connector)[f], f)
  PROVE  Takes(Form(connector)[f], w)
  <1> DEFINE d == Form(connector)[f]
  <1>1. Proper(d) /\ Named(connector, f, d) BY FormsFit DEF Fits
  <1>2. d.kind \notin {"boolean", "lines"} \/ d.picker = "no" BY <1>1 DEF Proper
  <1>3. Sorts(d) BY <1>1, Sorted
  <1>4. CASE d.kind = "boolean" BY <1>2, <1>3, <1>4, WordsAre DEF Takes, RawFor, Sorts
  <1>5. CASE d.kind = "lines"
    <2>1. w \in {{}, {"list"}} BY <1>2, <1>5, WordsAre
    <2>2. IsTexts(w) BY <2>1, TextSets
    <2> QED BY <1>3, <1>5, <2>2 DEF Takes, RawFor, Sorts, IsList
  <1>6. CASE d.picker = "none" \/ d.picker = "fallback"
    <2>1. w \in {"password", "none", "sshKey"} BY <1>2, <1>6, WordsAre
    <2>2. IsText(w) /\ w # "null" BY <2>1, Texts
    <2>3. d.kind = "text" BY <1>1, <1>6 DEF Proper
    <2> QED BY <1>3, <2>2, <2>3 DEF Takes, RawFor, Sorts, IsString
  <1>7. CASE d.kind \notin {"boolean", "lines"} /\ d.picker = "no"
    <2>1. w \in FieldWords[f] BY <1>2, <1>7, WordsAre
    <2>2. f \in {"auth", "mode", "tls", "content", "operations", "port", "prefix", "repository", "host", "pin", "ref", "ca"}
      <3>1. CASE connector = "ssh" BY <1>7, <3>1, SshIs DEF Is
      <3>2. CASE connector = "winrm" BY <1>7, <3>2, WinrmIs DEF Is
      <3>3. CASE connector = "http" BY <1>7, <3>3, HttpIs DEF Is
      <3>4. CASE connector = "code" BY <1>7, <3>4, CodeIs DEF Is
      <3>5. CASE connector = "sql" BY <1>7, <3>5, SqlIs DEF Is
      <3> QED BY <3>1, <3>2, <3>3, <3>4, <3>5 DEF Kinds
    <2>3. CASE f \in {"auth", "mode", "tls"}
      <3>1. w \in {"key", "password", "negotiate", "basic", "bearer", "header", "require", "verify"}
        <4>1. CASE f = "auth" BY <2>1, <4>1, FieldWordsAre
        <4>2. CASE f = "mode" BY <2>1, <4>2, FieldWordsAre
        <4>3. CASE f = "tls" BY <2>1, <4>3, FieldWordsAre
        <4> QED BY <2>3, <4>1, <4>2, <4>3
      <3>2. IsText(w) /\ w # "" /\ Trim(w) = w BY <3>1, Texts, TrimIs
      <3>3. d.kind = "select" BY <1>1, <2>3 DEF Named
      <3> QED BY <1>3, <1>7, <3>2, <3>3 DEF Takes, RawFor, Sorts, IsString, Stable
    <2>4. CASE f \in {"content", "operations"}
      <3>1. w \in SUBSET {"code", "docs"} \/ w \in SUBSET {"read", "write"} BY <2>1, <2>4, FieldWordsAre, Zenon
      <3>2. w \subseteq {"accept", "list", "code", "docs", "read", "write"} BY <3>1
      <3>3. IsTexts(w) BY <3>2, TextSets
      <3>4. d.kind = "set" BY <1>1, <2>4 DEF Named
      <3> QED BY <1>3, <3>3, <3>4 DEF Takes, RawFor, Sorts, IsList
    <2>5. CASE f \in {"port", "prefix", "repository", "host", "pin", "ref", "ca"}
      <3>1. w \in {"", "9", "Token_", "_", "acme", "other", "db", "lan", "word"} BY <2>1, <2>5, FieldWordsAre
      <3>2. IsText(w) BY <3>1, Texts
      <3>3. d.kind \notin {"select", "set", "lines", "boolean"} BY <1>1, <1>7, <2>5 DEF Named
      <3> QED BY <1>7, <3>2, <3>3 DEF Takes, RawFor, IsList
    <2> QED BY <2>2, <2>3, <2>4, <2>5
  <1> QED BY <1>1, <1>4, <1>5, <1>6, <1>7 DEF Proper

\* What is copied in is a text without spaces around it.
LEMMA OfferTaken ==
  ASSUME NEW k \in Kinds, NEW from \in Offers(k) \ {""}
  PROVE  Stable(HostOf(k, from))
  <1>1. HostOf(k, from) \in {"Acme", "db:1", "db2", "db"} BY DEF HostOf, Offers
  <1> QED BY <1>1, Texts, TrimIs DEF Stable

LEMMA OneTaken == Stable("1")
  BY Texts, TrimIs DEF Stable

CopiedFields(k, from) ==
  IF from = "" THEN {} ELSE {Supplied(k)} \cup (IF HasPort(k, from) THEN {"port"} ELSE {})

\* The other fields, the port and the address when a choice is copied in.
LEMMA NotCopied ==
  ASSUME NEW k, NEW values, NEW from, NEW f \in Fields(k) \ CopiedFields(k, from)
  PROVE  ApplyChoices(k, values, from)[f] = values[f]
  <1>1. CASE from = "" \/ Conflict(k, values, from) BY <1>1 DEF ApplyChoices
  <1>2. CASE ~(from = "" \/ Conflict(k, values, from))
    <2>1. f # Supplied(k) /\ ~(f = "port" /\ HasPort(k, from)) BY <1>2 DEF CopiedFields
    <2>2. ApplyChoices(k, values, from) =
            [g \in Fields(k) |->
               CASE g = Supplied(k) -> HostOf(k, from)
                 [] g = "port" /\ HasPort(k, from) -> "1"
                 [] OTHER -> values[g]]
      BY <1>2 DEF ApplyChoices
    <2>3. ApplyChoices(k, values, from)[f] =
            CASE f = Supplied(k) -> HostOf(k, from)
              [] f = "port" /\ HasPort(k, from) -> "1"
              [] OTHER -> values[f]
      BY <2>2, Zenon
    <2> QED BY <2>1, <2>3
  <1> QED BY <1>1, <1>2

LEMMA PortCopied ==
  ASSUME NEW k \in Kinds, NEW values, NEW from, ~(from = "" \/ Conflict(k, values, from)), HasPort(k, from),
         "port" \in Fields(k)
  PROVE  ApplyChoices(k, values, from)["port"] = "1"
  <1>1. Supplied(k) # "port" BY FieldsThere
  <1>2. ApplyChoices(k, values, from) =
          [g \in Fields(k) |->
             CASE g = Supplied(k) -> HostOf(k, from)
               [] g = "port" /\ HasPort(k, from) -> "1"
               [] OTHER -> values[g]]
    BY DEF ApplyChoices
  <1>3. ApplyChoices(k, values, from)["port"] =
          CASE "port" = Supplied(k) -> HostOf(k, from)
            [] "port" = "port" /\ HasPort(k, from) -> "1"
            [] OTHER -> values["port"]
    BY <1>2, Zenon
  <1> QED BY <1>1, <1>3

LEMMA AddressCopied ==
  ASSUME NEW k \in Kinds, NEW values, NEW from, ~(from = "" \/ Conflict(k, values, from))
  PROVE  ApplyChoices(k, values, from)[Supplied(k)] = HostOf(k, from)
  <1>1. Supplied(k) \in Fields(k) /\ Supplied(k) # "port" BY FieldsThere
  <1>2. ApplyChoices(k, values, from) =
          [g \in Fields(k) |->
             CASE g = Supplied(k) -> HostOf(k, from)
               [] g = "port" /\ HasPort(k, from) -> "1"
               [] OTHER -> values[g]]
    BY DEF ApplyChoices
  <1>3. ApplyChoices(k, values, from)[Supplied(k)] =
          CASE Supplied(k) = Supplied(k) -> HostOf(k, from)
            [] Supplied(k) = "port" /\ HasPort(k, from) -> "1"
            [] OTHER -> values[Supplied(k)]
    BY <1>1, <1>2, Zenon
  <1> QED BY <1>1, <1>3

\* The controls hold what is copied in.
LEMMA CopiedIn ==
  ASSUME NEW k \in Kinds, NEW values, Held(k, values), NEW from \in Offers(k)
  PROVE  Held(k, ApplyChoices(k, values, from))
  <1>1. CASE from = "" \/ Conflict(k, values, from) BY <1>1 DEF ApplyChoices
  <1>2. CASE ~(from = "" \/ Conflict(k, values, from))
    <2> DEFINE applied == ApplyChoices(k, values, from)
    <2>1. Fields(k) \subseteq DOMAIN applied BY <1>2 DEF ApplyChoices
    <2>2. ASSUME NEW f \in Fields(k) PROVE Takes(Form(k)[f], applied[f])
      <3>1. Named(k, f, Form(k)[f]) BY FormsFit DEF Fits
      <3>2. CASE f = Supplied(k)
        <4>1. applied[f] = HostOf(k, from) BY <1>2, <3>2, AddressCopied
        <4>2. Form(k)[f].kind = "text" /\ Form(k)[f].picker = "no" BY <3>1, <3>2, FieldsThere DEF Named
        <4>3. Stable(HostOf(k, from)) BY <1>2, OfferTaken
        <4> QED BY <4>1, <4>2, <4>3 DEF Takes, RawFor, Stable, IsList
      <3>3. CASE f # Supplied(k) /\ f = "port" /\ HasPort(k, from)
        <4>1. applied[f] = "1" BY <1>2, <3>3, PortCopied
        <4>2. Form(k)[f].kind = "number" /\ Form(k)[f].picker = "no" BY <3>1, <3>3 DEF Named
        <4> QED BY <4>1, <4>2, OneTaken DEF Takes, RawFor, Stable, IsList
      <3>4. CASE f # Supplied(k) /\ ~(f = "port" /\ HasPort(k, from))
        <4>1. f \notin CopiedFields(k, from) BY <3>4 DEF CopiedFields
        <4>2. applied[f] = values[f] BY <4>1, NotCopied
        <4> QED BY <4>2 DEF Held
      <3> QED BY <3>2, <3>3, <3>4
    <2> HIDE DEF applied
    <2>3. Held(k, applied) BY <2>1, <2>2 DEF Held
    <2> QED BY <2>3 DEF applied
  <1> QED BY <1>1, <1>2

\* The values an edit form opens with, and those of a new one.
LEMMA ShownHeld ==
  ASSUME NEW k \in Kinds, NEW docs, GoodDocs(k, docs)
  PROVE  Held(k, TargetValues(k, docs))
  <1>1. Fields(k) \subseteq DOMAIN TargetValues(k, docs) BY DEF TargetValues
  <1>2. ASSUME NEW f \in Fields(k) PROVE Takes(Form(k)[f], TargetValues(k, docs)[f])
    <2>1. RawFor(Form(k)[f], TargetValues(k, docs)[f]) BY ValuesShown
    <2>2. ASSUME Form(k)[f].kind = "select" PROVE Stable(TargetValues(k, docs)[f])
      <3>1. Form(k)[f].when = <<>> BY <2>2, FormsFit DEF Fits, Named
      <3>2. IsActive(Form(k)[f], ChosenOf(k, docs)) BY <3>1 DEF IsActive
      <3>3. TargetValues(k, docs)[f] = OnPage(Form(k)[f], Chosen(k, f, docs[f])) BY <3>2, ValuesShown
      <3>4. KeptFor(Form(k)[f], docs[f]) BY DEF GoodDocs
      <3> QED BY <2>2, <3>3, <3>4, RoundTrip
    <2> QED BY <2>1, <2>2 DEF Takes
  <1> QED BY <1>1, <1>2 DEF Held

LEMMA OfferedHeld ==
  ASSUME NEW k \in Kinds
  PROVE  Held(k, CreateValues(k))
  <1>1. Fields(k) \subseteq DOMAIN CreateValues(k) BY DEF CreateValues
  <1>2. ASSUME NEW f \in Fields(k) PROVE Takes(Form(k)[f], CreateValues(k)[f])
    <2> DEFINE d == Form(k)[f]
               v == CreateValues(k)[f]
    <2>1. Proper(d) BY FormsFit DEF Fits
    <2>2. Sorts(d) BY <2>1, Sorted
    <2>3. v = Preselected(d, IF d.kind = "text" THEN "" ELSE d.fallback) BY DEF CreateValues, Default
    <2>4. CASE d.kind = "text"
      <3>1. v \in {"", d.fallback} /\ (d.picker = "no" => v = "") BY <2>1, <2>3, <2>4 DEF Preselected, Proper
      <3>2. IsText("") /\ "" # "null" BY Texts
      <3>3. d.picker # "no" => IsText(d.fallback) /\ d.fallback # "null" BY <2>1 DEF Proper, Stable
      <3> QED BY <2>2, <2>4, <3>1, <3>2, <3>3 DEF Takes, RawFor, Sorts, IsString
    <2>5. CASE d.kind # "text"
      <3>1. v = d.fallback BY <2>3, <2>5 DEF Preselected
      <3>2. d.kind \in {"select", "number"} => Stable(d.fallback) /\ d.fallback # "null" BY <2>1 DEF Proper
      <3> QED BY <2>1, <2>2, <2>5, <3>1, <3>2 DEF Takes, RawFor, Sorts, IsString, IsList, Proper, Stable
    <2> QED BY <2>4, <2>5
  <1> QED BY <1>1, <1>2 DEF Held

\* What is submitted can be stored.
LEMMA SentKept ==
  ASSUME NEW k \in Kinds, NEW values, Held(k, values)
  PROVE  GoodDocs(k, DocumentsFromForm(k, values))
  <1> SUFFICES ASSUME NEW f \in Fields(k) PROVE KeptFor(Form(k)[f], DocumentsFromForm(k, values)[f]) BY DEF GoodDocs
  <1>1. Proper(Form(k)[f]) /\ RawFor(Form(k)[f], values[f]) BY FormsFit DEF Fits, Held, Takes
  <1>2. KeptFor(Form(k)[f], ReadField(Form(k)[f], values[f])) BY <1>1, ReadKeeps
  <1>3. KeptFor(Form(k)[f], Absent) BY DEF KeptFor
  <1>4. DocumentsFromForm(k, values)[f] \in {Absent, ReadField(Form(k)[f], values[f])} BY DEF DocumentsFromForm
  <1> QED BY <1>2, <1>3, <1>4


-----------------------------------------------------------------------------
\* The rows and the pages there can be.
DocsFor(k, any, values) ==
  [f \in Fields(k) |-> IF (f = "any" => any) /\ IsActive(Form(k)[f], values) THEN ReadField(Form(k)[f], values[f]) ELSE Absent]

\* What the schemas ask of the documents, whatever the switch is.
RowFits(k, docs, internal) ==
  /\ \A f \in Required(k) : docs[f] # Absent
  /\ k \in {"ssh", "winrm"} => ~(docs.any = TRUE <=> docs.commands # Absent)
  /\ ~(k = "sql" /\ Validated(k, docs).tls = "verify" /\ docs.ca = Absent)
  /\ ~(k = "sql" /\ "write" \in Validated(k, docs).operations /\ "read" \notin Validated(k, docs).operations)
  /\ ~(k = "code" /\ internal)

RowWell(k, stored) ==
  /\ stored.revision \in 0..SavesMax
  /\ stored # NoRow => GoodDocs(k, stored.docs) /\ RowFits(k, stored.docs, stored.internal)

FormWell(k, x) ==
  /\ x.at = "form"
  /\ {"at", "new", "values", "from", "item", "internal", "typed", "listed"} \subseteq DOMAIN x
  /\ Held(k, x.values) /\ x.from \in Offers(k)

SentWell(k, any, x) ==
  /\ Held(k, x.sent) /\ x.from \in Offers(k) /\ ~Conflict(k, x.sent, x.from)
  /\ x.submission.docs = DocsFor(k, any, ApplyChoices(k, x.sent, x.from))
  /\ FormWell(k, x.form)

PageWell(k, any, x) ==
  \/ x.at = "closed"
  \/ FormWell(k, x)
  \/ x.at = "checking" /\ SentWell(k, any, x)

FormsInv ==
  /\ connector \in FormKind /\ anyAllowed \in BOOLEAN /\ unlocked \in BOOLEAN
  /\ lost \subseteq VaultItem
  /\ RowWell(connector, savedRow)
  /\ DOMAIN page = FormPage
  /\ \A p \in FormPage : PageWell(connector, anyAllowed, page[p])

\* The documents of a submission under the switch as it is.
LEMMA DocsAre ==
  ASSUME NEW k, NEW values
  PROVE  DocumentsFromForm(k, values) = DocsFor(k, anyAllowed, values)
  BY DEF DocumentsFromForm, DrawnFields, DocsFor

\* The connectors of the instance are among those that have a form.
LEMMA KindsAre ==
  FormKind \subseteq Kinds
  BY FormsAssumption DEF Kinds

\* What the rules ask of a row stays true of it whatever the switch becomes.
LEMMA RowOfRules ==
  ASSUME NEW k, NEW docs, NEW internal, ~Rules(k, docs, internal)
  PROVE  RowFits(k, docs, internal)
  <1>1. \A f \in Required(k) : docs[f] # Absent BY DEF Rules
  <1>2. k \in {"ssh", "winrm"} => ~(docs.any = TRUE <=> docs.commands # Absent) BY DEF Rules, CommandProblems
  <1>3. ~(k = "sql" /\ Validated(k, docs).tls = "verify" /\ docs.ca = Absent) BY DEF Rules
  <1>4. ~(k = "sql" /\ "write" \in Validated(k, docs).operations /\ "read" \notin Validated(k, docs).operations) BY DEF Rules
  <1>5. ~(k = "code" /\ internal) BY DEF Rules
  <1> QED BY <1>1, <1>2, <1>3, <1>4, <1>5 DEF RowFits

\* Under the other switch only the unrestricted shell is a problem of such a row.
LEMMA RulesOfRow ==
  ASSUME NEW k, NEW docs, NEW internal, RowFits(k, docs, internal)
  PROVE  ~Rules(k, docs, internal) \/ (k \in {"ssh", "winrm"} /\ docs.any = TRUE /\ ~anyAllowed)
  BY DEF Rules, CommandProblems, RowFits

\* A page that was closed.
LEMMA NoPageWell ==
  ASSUME NEW k, NEW any
  PROVE  PageWell(k, any, NoPage) /\ NoPage.at = "closed"
  BY DEF PageWell, NoPage

\* A step that changes one page keeps the rest.
LEMMA OnePage ==
  ASSUME FormsInv, NEW p \in FormPage, DOMAIN page' = FormPage,
         PageWell(connector, anyAllowed, page'[p]), \A q \in FormPage \ {p} : page'[q] = page[q],
         UNCHANGED <<connector, anyAllowed, lost, unlocked>>, RowWell(connector, savedRow')
  PROVE  FormsInv'
  <1>1. \A q \in FormPage : PageWell(connector, anyAllowed, page'[q]) BY DEF FormsInv
  <1> QED BY <1>1 DEF FormsInv

LEMMA PageSet ==
  ASSUME FormsInv, NEW p \in FormPage, NEW x, PageWell(connector, anyAllowed, x), page' = [page EXCEPT ![p] = x],
         UNCHANGED <<connector, anyAllowed, lost, unlocked>>, RowWell(connector, savedRow')
  PROVE  FormsInv'
  <1>1. DOMAIN page' = FormPage /\ page'[p] = x /\ \A q \in FormPage \ {p} : page'[q] = page[q] BY DEF FormsInv
  <1> QED BY <1>1, OnePage

\* What is known of a page that shows a form.
LEMMA FormShown ==
  ASSUME FormsInv, NEW p \in FormPage, FormOpen(p)
  PROVE  FormWell(connector, page[p])
  <1>1. PageWell(connector, anyAllowed, page[p]) BY DEF FormsInv
  <1> QED BY <1>1 DEF FormOpen, PageWell

\* A form that opens, and one that is shown again.
LEMMA OpenedWell ==
  ASSUME NEW k, NEW new, NEW values, NEW from \in Offers(k), NEW item, NEW internal, Held(k, values), NEW any
  PROVE  PageWell(k, any, OpenedForm(new, values, from, item, internal))
  BY DEF PageWell, FormWell, OpenedForm

LEMMA AgainWell ==
  ASSUME NEW k, NEW x, FormWell(k, x), NEW values, Held(k, values), NEW isListed
  PROVE  FormWell(k, [x EXCEPT !.values = values, !.listed = isListed])
  <1> DEFINE y == [x EXCEPT !.values = values, !.listed = isListed]
  <1>1. DOMAIN y = DOMAIN x /\ y.at = x.at /\ y.values = values /\ y.from = x.from BY DEF FormWell
  <1> HIDE DEF y
  <1>2. FormWell(k, y) BY <1>1 DEF FormWell
  <1> QED BY <1>2 DEF y


-----------------------------------------------------------------------------
\* Every action keeps the rows and the pages well.
LEMMA RowStays ==
  ASSUME FormsInv, UNCHANGED <<connector, savedRow>>
  PROVE  RowWell(connector, savedRow')
  BY DEF FormsInv

\* An empty form opens.
LEMMA CreateShown ==
  ASSUME FormsInv, NEW p \in FormPage, NEW item \in VaultItem, ShowCreate(p, item)
  PROVE  FormsInv'
  <1> DEFINE from == IF connector = "code" THEN "" ELSE AddressOf(item)
  <1>1. from \in Offers(connector) BY DEF Offers, AddressOf
  <1>2. connector \in Kinds BY KindsAre DEF FormsInv
  <1> HIDE DEF from
  <1>3. PageWell(connector, anyAllowed, OpenedForm(TRUE, CreateValues(connector), from, item, FALSE))
    BY <1>1, <1>2, OfferedHeld, OpenedWell
  <1>4. page' = [page EXCEPT ![p] = OpenedForm(TRUE, CreateValues(connector), from, item, FALSE)] BY DEF ShowCreate, Shown, from
  <1>5. UNCHANGED <<connector, savedRow, anyAllowed, lost, unlocked>> BY DEF ShowCreate
  <1> QED BY <1>3, <1>4, <1>5, RowStays, PageSet

\* The stored row is shown in a form.
LEMMA EditShown ==
  ASSUME FormsInv, NEW p \in FormPage, NEW item \in VaultItem, ShowEdit(p, item)
  PROVE  FormsInv'
  <1>1. connector \in Kinds BY KindsAre DEF FormsInv
  <1>2. GoodDocs(connector, savedRow.docs) BY DEF FormsInv, RowWell, ShowEdit, HasSavedRow
  <1>3. "" \in Offers(connector) BY DEF Offers
  <1>4. PageWell(connector, anyAllowed, OpenedForm(FALSE, TargetValues(connector, savedRow.docs), "", item, savedRow.internal))
    BY <1>1, <1>2, <1>3, ShownHeld, OpenedWell
  <1>5. page' = [page EXCEPT ![p] = OpenedForm(FALSE, TargetValues(connector, savedRow.docs), "", item, savedRow.internal)]
    BY DEF ShowEdit, Shown
  <1>6. UNCHANGED <<connector, savedRow, anyAllowed, lost, unlocked>> BY DEF ShowEdit
  <1> QED BY <1>4, <1>5, <1>6, RowStays, PageSet

\* A word is typed in one control.
LEMMA TypeKeeps ==
  ASSUME FormsInv, NEW p \in FormPage, NEW f \in Fields(connector), Type(p, f)
  PROVE  FormsInv'
  <1>1. connector \in Kinds BY KindsAre DEF FormsInv
  <1>2. FormWell(connector, page[p]) BY FormShown DEF Type
  <1>3. PICK w \in Words(Form(connector)[f], f) : page' = [page EXCEPT ![p].values[f] = w, ![p].typed = @ + 1] BY DEF Type
  <1>4. Takes(Form(connector)[f], w) BY <1>1, <1>3, WordsTaken
  <1>5. UNCHANGED <<connector, savedRow, anyAllowed, lost, unlocked>> BY DEF Type
  <1>6. DOMAIN page' = FormPage /\ \A q \in FormPage \ {p} : page'[q] = page[q] BY <1>3 DEF FormsInv
  <1> DEFINE old == page[p]
             new == page'[p]
  <1>7. new = [old EXCEPT !.values[f] = w, !.typed = @ + 1] BY <1>3 DEF FormsInv
  <1>8. FormWell(connector, old) BY <1>2
  <1> HIDE DEF old, new
  <1>9. DOMAIN new = DOMAIN old /\ new.at = old.at /\ new.from = old.from /\ new.values = [old.values EXCEPT ![f] = w]
    BY <1>7, <1>8 DEF FormWell
  <1>10. Held(connector, [old.values EXCEPT ![f] = w]) BY <1>4, <1>8 DEF FormWell, Held
  <1>11. FormWell(connector, new) BY <1>8, <1>9, <1>10 DEF FormWell
  <1>12. PageWell(connector, anyAllowed, page'[p]) BY <1>11 DEF PageWell, new
  <1> QED BY <1>5, <1>6, <1>12, RowStays, OnePage

\* A choice is made beside a field.
LEMMA ChooseKeeps ==
  ASSUME FormsInv, NEW p \in FormPage, Choose(p)
  PROVE  FormsInv'
  <1>1. FormWell(connector, page[p]) BY FormShown DEF Choose
  <1>2. UNCHANGED <<connector, savedRow, anyAllowed, lost, unlocked>> BY DEF Choose
  <1>3. \/ \E from \in Offers(connector) : page' = [page EXCEPT ![p].from = from, ![p].typed = @ + 1]
        \/ page' = [page EXCEPT ![p].internal = ~@, ![p].typed = @ + 1]
    BY DEF Choose, Offers, AddressOf
  <1> DEFINE old == page[p]
             new == page'[p]
  <1>4. FormWell(connector, old) BY <1>1
  <1>5. DOMAIN page' = FormPage /\ (\A q \in FormPage \ {p} : page'[q] = page[q])
        /\ ((\E from \in Offers(connector) : new = [old EXCEPT !.from = from, !.typed = @ + 1])
            \/ new = [old EXCEPT !.internal = ~@, !.typed = @ + 1])
    BY <1>3 DEF FormsInv
  <1> HIDE DEF old, new
  <1>6. DOMAIN new = DOMAIN old /\ new.at = old.at /\ new.values = old.values /\ new.from \in Offers(connector) BY <1>4, <1>5 DEF FormWell
  <1>7. FormWell(connector, new) BY <1>4, <1>6 DEF FormWell
  <1>8. PageWell(connector, anyAllowed, page'[p]) BY <1>7 DEF PageWell, new
  <1> QED BY <1>2, <1>5, <1>8, RowStays, OnePage

\* The form again, with the choice copied in.
LEMMA AppliedWell ==
  ASSUME FormsInv, NEW p \in FormPage, FormOpen(p), NEW isListed
  PROVE  FormWell(connector, Again(p, Applied(p), isListed))
  <1>1. connector \in Kinds BY KindsAre DEF FormsInv
  <1>2. FormWell(connector, page[p]) BY FormShown
  <1>3. Held(connector, Applied(p)) BY <1>1, <1>2, CopiedIn DEF Applied, FormWell
  <1> QED BY <1>2, <1>3, AgainWell DEF Again

\* A check without a save.
LEMMA CheckKeeps ==
  ASSUME FormsInv, NEW p \in FormPage, CheckForm(p)
  PROVE  FormsInv'
  <1> DEFINE x == Again(p, Applied(p), connector = "code" /\ Listed(p))
  <1>1. FormWell(connector, x) BY AppliedWell DEF CheckForm
  <1>2. page' = [page EXCEPT ![p] = x] /\ UNCHANGED <<connector, savedRow, anyAllowed, lost, unlocked>> BY DEF CheckForm, Shown
  <1> HIDE DEF x
  <1>3. PageWell(connector, anyAllowed, x) BY <1>1 DEF PageWell
  <1> QED BY <1>2, <1>3, RowStays, PageSet

\* A submission is refused at once, or its checks begin.
LEMMA SubmitKeeps ==
  ASSUME FormsInv, NEW p \in FormPage, Submit(p)
  PROVE  FormsInv'
  <1> DEFINE again == Again(p, Applied(p), FALSE)
             sending == [at |-> "checking", new |-> page[p].new, sent |-> page[p].values, from |-> page[p].from,
                         submission |-> Submission(p), before |-> savedRow, form |-> again]
  <1>1. UNCHANGED <<connector, savedRow, anyAllowed, lost, unlocked>> BY DEF Submit
  <1>2. FormWell(connector, page[p]) BY FormShown DEF Submit
  <1>3. FormWell(connector, again) BY AppliedWell DEF Submit
  <1>4. CASE Refused(p)
    <2>1. page' = [page EXCEPT ![p] = again] BY <1>4 DEF Submit, Shown
    <2> HIDE DEF again
    <2>2. PageWell(connector, anyAllowed, again) BY <1>3 DEF PageWell
    <2> QED BY <1>1, <2>1, <2>2, RowStays, PageSet
  <1>5. CASE ~Refused(p)
    <2>1. page' = [page EXCEPT ![p] = sending] BY <1>5 DEF Submit, Shown
    <2>2. ~Conflict(connector, page[p].values, page[p].from) BY <1>5 DEF Refused
    <2>3. Submission(p).docs = DocsFor(connector, anyAllowed, ApplyChoices(connector, page[p].values, page[p].from))
      BY DocsAre DEF Submission, Applied
    <2> HIDE DEF again
    <2>4. SentWell(connector, anyAllowed, sending) BY <1>2, <1>3, <2>2, <2>3 DEF SentWell, FormWell
    <2>5. sending.at = "checking" OBVIOUS
    <2> HIDE DEF sending
    <2>6. PageWell(connector, anyAllowed, sending) BY <2>4, <2>5 DEF PageWell
    <2> QED BY <1>1, <2>1, <2>6, RowStays, PageSet
  <1> QED BY <1>4, <1>5

\* What is known of a request that is being checked.
LEMMA SentIs ==
  ASSUME FormsInv, NEW p \in FormPage, page[p].at = "checking"
  PROVE  SentWell(connector, anyAllowed, page[p]) /\ page[p] # NoPage
  <1>1. PageWell(connector, anyAllowed, page[p]) BY DEF FormsInv
  <1>2. page[p] # NoPage BY NoPageWell
  <1> QED BY <1>1, <1>2 DEF PageWell, FormWell

\* The checks end, with problems, with nothing to write or with a new row.
LEMMA SavedKeeps ==
  ASSUME FormsInv, NEW p \in FormPage, SaveChecked(p)
  PROVE  FormsInv'
  <1> DEFINE new == page[p].submission
             written == [revision |-> savedRow.revision + 1, docs |-> new.docs, item |-> new.item, internal |-> new.internal]
  <1>1. UNCHANGED <<connector, anyAllowed, lost, unlocked>> BY DEF SaveChecked
  <1>2. SentWell(connector, anyAllowed, page[p]) BY SentIs DEF SaveChecked
  <1>3. CASE Problems(connector, new) /\ page' = Shown(p, page[p].form) /\ UNCHANGED savedRow
    <2>1. PageWell(connector, anyAllowed, page[p].form) BY <1>2 DEF SentWell, PageWell
    <2> QED BY <1>1, <1>3, <2>1, RowStays, PageSet DEF Shown
  <1>4. CASE ~Problems(connector, new) /\ page' = Close(p) /\ UNCHANGED savedRow
    BY <1>1, <1>4, NoPageWell, RowStays, PageSet DEF Shown, Close
  <1>5. CASE ~Problems(connector, new) /\ page' = Close(p) /\ savedRow.revision < SavesMax /\ savedRow' = written
    <2>1. connector \in Kinds BY KindsAre DEF FormsInv
    <2>2. Held(connector, ApplyChoices(connector, page[p].sent, page[p].from)) BY <1>2, <2>1, CopiedIn DEF SentWell
    <2>3. new.docs = DocumentsFromForm(connector, ApplyChoices(connector, page[p].sent, page[p].from))
      BY <1>2, DocsAre DEF SentWell
    <2>4. GoodDocs(connector, new.docs) BY <2>1, <2>2, <2>3, SentKept
    <2>5. RowFits(connector, new.docs, new.internal) BY <1>5, RowOfRules DEF Problems
    <2>6. savedRow.revision + 1 \in 0..SavesMax BY <1>5, FormsAssumption DEF FormsInv, RowWell
    <2>7. written.revision = savedRow.revision + 1 /\ written.docs = new.docs /\ written.internal = new.internal OBVIOUS
    <2> HIDE DEF written, new
    <2>8. RowWell(connector, savedRow') BY <1>5, <2>4, <2>5, <2>6, <2>7 DEF RowWell
    <2> QED BY <1>1, <1>5, <2>8, NoPageWell, PageSet DEF Shown, Close
  <1> QED BY <1>3, <1>4, <1>5 DEF SaveChecked

\* A page is closed.
LEMMA LeaveKeeps ==
  ASSUME FormsInv, NEW p \in FormPage, Leave(p)
  PROVE  FormsInv'
  <1>1. page' = [page EXCEPT ![p] = NoPage] BY DEF Leave, Shown, Close
  <1>2. UNCHANGED <<connector, savedRow, anyAllowed, lost, unlocked>> BY DEF Leave
  <1> QED BY <1>1, <1>2, NoPageWell, RowStays, PageSet

\* A restart drops the requests and may change the switch under the forms that are left.
LEMMA RestartKeeps ==
  ASSUME FormsInv, RestartWith
  PROVE  FormsInv'
  <1>1. UNCHANGED <<connector, savedRow, lost, unlocked>> /\ anyAllowed' \in BOOLEAN /\ DOMAIN page' = FormPage BY DEF RestartWith
  <1>2. ASSUME NEW p \in FormPage PROVE PageWell(connector, anyAllowed', page'[p])
    <2>1. page'[p] = IF page[p].at = "checking" THEN NoPage ELSE page[p] BY DEF RestartWith
    <2>2. PageWell(connector, anyAllowed, page[p]) BY DEF FormsInv
    <2>3. PageWell(connector, anyAllowed', NoPage) BY NoPageWell
    <2>4. page[p].at # "checking" => PageWell(connector, anyAllowed', page[p]) BY <2>2 DEF PageWell
    <2> QED BY <2>1, <2>3, <2>4
  <1> QED BY <1>1, <1>2 DEF FormsInv

\* The other steps touch neither rows nor pages.
LEMMA OthersKeep ==
  ASSUME FormsInv, Window \/ (\E i \in VaultItem : ItemChanges(i)) \/ UNCHANGED formVars
  PROVE  FormsInv'
  <1>1. UNCHANGED <<connector, savedRow, anyAllowed, page>> /\ unlocked' \in BOOLEAN /\ lost' \subseteq VaultItem
    BY DEF FormsInv, Window, ItemChanges, formVars
  <1> QED BY <1>1 DEF FormsInv

\* No row and no page to begin with.
LEMMA FormsStart ==
  FormsInit => FormsInv
  <1> SUFFICES ASSUME FormsInit PROVE FormsInv OBVIOUS
  <1>1. DOMAIN page = FormPage /\ \A p \in FormPage : page[p] = NoPage BY DEF FormsInit
  <1>2. \A p \in FormPage : PageWell(connector, anyAllowed, page[p]) BY <1>1, NoPageWell
  <1>3. RowWell(connector, savedRow) BY FormsAssumption DEF FormsInit, NoRow, RowWell
  <1> QED BY <1>1, <1>2, <1>3 DEF FormsInit, FormsInv

\* Every step keeps the invariant.
LEMMA FormsKeep ==
  FormsInv /\ [FormsNext]_formVars => FormsInv'
  <1> SUFFICES ASSUME FormsInv, [FormsNext]_formVars PROVE FormsInv' OBVIOUS
  <1>1. ASSUME NEW p \in FormPage, NEW i \in VaultItem, ShowCreate(p, i) \/ ShowEdit(p, i) PROVE FormsInv'
    BY <1>1, CreateShown, EditShown
  <1>2. ASSUME NEW p \in FormPage, NEW f \in Fields(connector), Type(p, f) PROVE FormsInv' BY <1>2, TypeKeeps
  <1>3. ASSUME NEW p \in FormPage, Choose(p) \/ CheckForm(p) \/ Submit(p) \/ SaveChecked(p) \/ Leave(p) PROVE FormsInv'
    BY <1>3, ChooseKeeps, CheckKeeps, SubmitKeeps, SavedKeeps, LeaveKeeps
  <1>4. CASE RestartWith BY <1>4, RestartKeeps
  <1>5. CASE Window \/ (\E i \in VaultItem : ItemChanges(i)) \/ UNCHANGED formVars BY <1>5, OthersKeep
  <1> QED BY <1>1, <1>2, <1>3, <1>4, <1>5 DEF FormsNext

\* The invariant of the forms.
LEMMA FormsHold == FormsSpec => []FormsInv
  BY FormsStart, FormsKeep, PTL DEF FormsSpec

-----------------------------------------------------------------------------
\* The stored row is valid, and a form nobody touched loses nothing of it.
LEMMA UntouchedHolds ==
  ASSUME FormsInv
  PROVE  Untouched
  <1> SUFFICES ASSUME HasSavedRow
               PROVE  LET docs == DocumentsFromForm(connector, TargetValues(connector, savedRow.docs))
                      IN Rules(connector, docs, savedRow.internal)
                         \/ Validated(connector, docs) = Validated(connector, savedRow.docs)
    BY DEF Untouched
  <1> DEFINE k == connector
             docs == savedRow.docs
             again == DocumentsFromForm(k, TargetValues(k, docs))
  <1>1. k \in Kinds BY KindsAre DEF FormsInv
  <1>2. GoodDocs(k, docs) /\ RowFits(k, docs, savedRow.internal) BY DEF FormsInv, RowWell, HasSavedRow
  <1>3. CASE \A f \in Fields(k) : f \in DrawnFields(k) \/ docs[f] \in {Absent, FALSE} BY <1>1, <1>2, <1>3, NothingLost
  <1>4. CASE \E f \in Fields(k) : f \notin DrawnFields(k) /\ docs[f] \notin {Absent, FALSE}
    <2>1. "any" \in Fields(k) /\ "any" \notin DrawnFields(k) /\ docs["any"] \notin {Absent, FALSE} BY <1>4 DEF DrawnFields
    <2>2. Named(k, "any", Form(k)["any"]) /\ KeptFor(Form(k)["any"], docs["any"]) BY <1>1, <1>2, <2>1, FormsFit DEF Fits, GoodDocs
    <2>3. k \in {"ssh", "winrm"} /\ docs["any"] = TRUE BY <2>1, <2>2 DEF Named, KeptFor
    <2>4. docs["commands"] = Absent BY <1>2, <2>3 DEF RowFits
    <2>5. "commands" \in Fields(k) BY <1>1, <2>3, FieldsThere
    <2> DEFINE d == Form(k)["commands"]
    <2>6. d.kind = "lines" /\ d.fallback = {} /\ d.when = <<>> /\ d.picker = "no" BY <1>1, <2>5, FormsFit DEF Fits, Named
    <2>7. {} # Absent BY AbsentIsNone, TextSets
    <2>8. SchemaDefault(k, "commands") = {} BY <1>1, <2>5, <2>6, <2>7, DefaultIs
    <2>9. IsActive(d, ChosenOf(k, docs)) /\ IsActive(d, TargetValues(k, docs)) BY <2>6 DEF IsActive
    <2>10. TargetValues(k, docs)["commands"] = OnPage(d, Chosen(k, "commands", docs["commands"]))
      BY <1>1, <1>2, <2>5, <2>9, ValuesShown
    <2>11. TargetValues(k, docs)["commands"] = {}
      BY <2>4, <2>6, <2>7, <2>8, <2>10 DEF Chosen, OnPage, WriteField, Preselected
    <2>12. ReadField(d, {}) = Absent BY <2>6, ReadIs DEF IsList
    <2>13. again["commands"] \in {Absent, ReadField(d, TargetValues(k, docs)["commands"])} BY <2>5 DEF DocumentsFromForm
    <2>14. again["commands"] = Absent BY <2>11, <2>12, <2>13
    <2>15. again["any"] = Absent BY <2>1 DEF DocumentsFromForm
    <2>16. Absent # TRUE BY AbsentIsNone
    <2> HIDE DEF again
    <2>17. CommandProblems(k, again) BY <2>3, <2>14, <2>15, <2>16 DEF CommandProblems
    <2>18. Rules(k, again, savedRow.internal) BY <2>17 DEF Rules
    <2> QED BY <2>18 DEF again
  <1> QED BY <1>3, <1>4

\* A stored row is one its schemas accept, whatever was typed, copied in, restarted and
\* changed on other pages before, and an edit form nobody touched stores what it found or
\* is refused.
THEOREM FormsAreSafe == FormsSpec => []FormsSafe
  <1>1. FormsInv => FormsTypeOK
    <2> SUFFICES ASSUME FormsInv PROVE FormsTypeOK OBVIOUS
    <2>1. \A p \in FormPage : page[p].at \in {"closed", "form", "checking"} BY DEF FormsInv, PageWell, FormWell
    <2> QED BY <2>1 DEF FormsInv, FormsTypeOK, RowWell
  <1>2. FormsInv => StoredValid
    <2> SUFFICES ASSUME FormsInv, HasSavedRow PROVE ~Rules(connector, savedRow.docs, savedRow.internal)
                   \/ (connector \in {"ssh", "winrm"} /\ savedRow.docs.any = TRUE /\ ~anyAllowed)
      BY DEF StoredValid
    <2>1. RowFits(connector, savedRow.docs, savedRow.internal) BY DEF FormsInv, RowWell, HasSavedRow
    <2> QED BY <2>1, RulesOfRow
  <1>3. FormsInv => FormsSafe BY <1>1, <1>2, UntouchedHolds DEF FormsSafe
  <1> QED BY <1>3, FormsHold, PTL


-----------------------------------------------------------------------------
\* What was sent is what the next form shows.
Shows(k, sent, from, docs, later, f) ==
  LET d == Form(k)[f] IN
  IF f \in DrawnFields(k) /\ IsActive(d, sent)
    THEN \/ later[f] = sent[f]
         \/ d.kind \notin {"lines", "set", "boolean"} /\ ~d.verbatim /\ later[f] = Trim(sent[f])
         \/ IF d.kind \in {"lines", "set"} THEN sent[f] = {} /\ later[f] = d.fallback
            ELSE d.kind # "boolean" /\ Trim(sent[f]) = "" /\ later[f] \in {"", d.fallback}
         \/ f = Supplied(k) /\ from # "" /\ Trim(sent[f]) = "" /\ later[f] = HostOf(k, from)
         \/ f = "repository" /\ from # "" /\ Fold(later[f]) = Fold(sent[f])
         \/ f = "port" /\ HasPort(k, from) /\ later[f] = "1"
    ELSE docs[f] = Absent

\* The selects that decide which fields are in use are never copied over.
LEMMA UseSent ==
  ASSUME NEW k \in Kinds, NEW sent, Held(k, sent), NEW from, ~Conflict(k, sent, from), NEW f \in Fields(k)
  PROVE  /\ IsActive(Form(k)[f], ApplyChoices(k, sent, from)) = IsActive(Form(k)[f], sent)
         /\ LET docs == DocumentsFromForm(k, ApplyChoices(k, sent, from)) IN
            IsActive(Form(k)[f], ChosenOf(k, docs)) = IsActive(Form(k)[f], sent)
  <1> DEFINE d == Form(k)[f]
             applied == ApplyChoices(k, sent, from)
             docs == DocumentsFromForm(k, applied)
  <1>1. CASE d.when = <<>> BY <1>1 DEF IsActive
  <1>2. CASE d.when # <<>>
    <2> DEFINE w == d.when[1]
    <2>1. w \in Fields(k) \ {"any", "port", "host", "repository"} BY <1>2, FormsFit DEF Fits, Depends
    <2>2. Form(k)[w].kind = "select" /\ Form(k)[w].when = <<>> /\ Form(k)[w].picker = "no" /\ ~Form(k)[w].verbatim
      BY <1>2, FormsFit DEF Fits, Depends
    <2>3. Stable(sent[w]) BY <2>1, <2>2 DEF Held, Takes
    <2>4. applied[w] = sent[w]
      <3>1. w \in Fields(k) \ CopiedFields(k, from) BY <2>1, FieldsThere DEF CopiedFields
      <3> HIDE DEF w
      <3> QED BY <3>1, NotCopied
    <2>5. w \in DrawnFields(k) /\ IsActive(Form(k)[w], applied) BY <2>1, <2>2 DEF DrawnFields, IsActive
    <2>6. docs[w] = ReadField(Form(k)[w], applied[w]) BY <2>1, <2>5 DEF DocumentsFromForm
    <2> HIDE DEF applied, docs, w
    <2>7. ReadField(Form(k)[w], applied[w]) = sent[w]
      <3>1. ~IsList(Form(k)[w]) /\ Form(k)[w].kind # "boolean" /\ Form(k)[w].picker # "none" BY <2>2 DEF IsList
      <3>2. Trim(applied[w]) = applied[w] /\ applied[w] # "" BY <2>3, <2>4 DEF Stable
      <3> QED BY <2>2, <2>4, <3>1, <3>2, ReadIs
    <2>8. Chosen(k, w, docs[w]) = sent[w] BY <2>3, <2>6, <2>7, AbsentIsNone DEF Chosen, Stable
    <2>9. ChosenOf(k, docs)[w] = sent[w] BY <2>1, <2>8 DEF ChosenOf
    <2>10. IsActive(d, applied) = IsActive(d, sent) BY <2>4 DEF IsActive, w
    <2>11. IsActive(d, ChosenOf(k, docs)) = IsActive(d, sent) BY <2>9 DEF IsActive, w
    <2> QED BY <2>10, <2>11 DEF applied, docs
  <1> QED BY <1>1, <1>2

\* The choice that is copied in is shown, and says what was typed.
LEMMA CopyShows ==
  ASSUME NEW k \in Kinds, NEW sent, Held(k, sent), NEW from \in Offers(k) \ {""}, ~Conflict(k, sent, from)
  PROVE  \/ HostOf(k, from) = Trim(sent[Supplied(k)])
         \/ Trim(sent[Supplied(k)]) = ""
         \/ Supplied(k) = "repository" /\ Fold(HostOf(k, from)) = Fold(sent[Supplied(k)])
  <1> DEFINE typed == Trim(sent[Supplied(k)])
  <1>1. typed = "" \/ Agrees(k, typed, from) BY DEF Conflict
  <1>2. CASE k # "code" BY <1>1, <1>2 DEF Agrees
  <1>3. CASE k = "code" /\ typed # ""
    <2>1. Supplied(k) = "repository" BY <1>3, FieldsThere
    <2>2. Fold(typed) = Fold(from) BY <1>1, <1>3 DEF Agrees
    <2>3. HostOf(k, from) = from BY <1>3 DEF HostOf, Offers
    <2>4. from = "Acme" BY <1>3 DEF Offers
    <2>5. typed # "Token" BY <2>2, <2>4 DEF Fold
    <2>6. typed = sent[Supplied(k)] BY <1>3, <2>5, TrimIs
    <2> QED BY <2>1, <2>2, <2>3, <2>6
  <1> QED BY <1>2, <1>3

\* One field of what was sent, on the form that comes next.
LEMMA SentShows ==
  ASSUME NEW k \in Kinds, NEW sent, Held(k, sent), NEW from \in Offers(k), ~Conflict(k, sent, from), NEW f \in Fields(k),
         NEW applied, applied = ApplyChoices(k, sent, from), NEW docs, docs = DocumentsFromForm(k, applied),
         NEW later, later = TargetValues(k, docs)
  PROVE  Shows(k, sent, from, docs, later, f)
  <1> DEFINE d == Form(k)[f]
  <1>1. IsActive(d, applied) = IsActive(d, sent) /\ IsActive(d, ChosenOf(k, docs)) = IsActive(d, sent) BY UseSent
  <1>2. Held(k, applied) BY CopiedIn
  <1>3. GoodDocs(k, docs) BY <1>2, SentKept
  <1>4. CASE ~(f \in DrawnFields(k) /\ IsActive(d, sent))
    <2>1. docs[f] = Absent BY <1>1, <1>4 DEF DocumentsFromForm
    <2> QED BY <1>4, <2>1 DEF Shows
  <1>5. CASE f \in DrawnFields(k) /\ IsActive(d, sent)
    <2>1. docs[f] = ReadField(d, applied[f]) BY <1>1, <1>5 DEF DocumentsFromForm
    <2>2. later[f] = OnPage(d, Chosen(k, f, docs[f])) BY <1>1, <1>3, <1>5, ValuesShown
    <2>3. Proper(d) BY FormsFit DEF Fits
    <2>4. RawFor(d, applied[f]) BY <1>2 DEF Held, Takes
    <2>5. \/ later[f] = applied[f]
          \/ ~IsList(d) /\ d.kind # "boolean" /\ ~d.verbatim /\ later[f] = Trim(applied[f])
          \/ IsList(d) /\ applied[f] = {} /\ later[f] = d.fallback
          \/ ~IsList(d) /\ d.kind # "boolean" /\ Trim(applied[f]) = "" /\ later[f] \in {"", d.fallback}
      <3>1. PICK a : a = applied[f] OBVIOUS
      <3>2. RawFor(d, a) /\ later[f] = OnPage(d, Chosen(k, f, ReadField(d, a))) BY <2>1, <2>2, <2>4, <3>1
      <3>3. \/ later[f] = a
            \/ ~IsList(d) /\ d.kind # "boolean" /\ ~d.verbatim /\ later[f] = Trim(a)
            \/ IsList(d) /\ a = {} /\ later[f] = d.fallback
            \/ ~IsList(d) /\ d.kind # "boolean" /\ Trim(a) = "" /\ later[f] \in {"", d.fallback}
        BY <3>2, ShowsSent
      <3> QED BY <3>1, <3>3
    <2>6. CASE applied[f] = sent[f]
      <3>1. d.kind \in {"lines", "set"} <=> IsList(d) BY DEF IsList
      <3>2. \/ later[f] = sent[f]
            \/ d.kind \notin {"lines", "set", "boolean"} /\ ~d.verbatim /\ later[f] = Trim(sent[f])
            \/ d.kind \in {"lines", "set"} /\ sent[f] = {} /\ later[f] = d.fallback
            \/ d.kind \notin {"lines", "set", "boolean"} /\ Trim(sent[f]) = "" /\ later[f] \in {"", d.fallback}
        BY <2>5, <2>6, <3>1
      <3> QED BY <1>5, <3>2 DEF Shows
    <2>7. CASE f = Supplied(k) /\ from # ""
      <3>1. applied[f] = HostOf(k, from) BY <2>7, AddressCopied
      <3>2. Stable(HostOf(k, from)) BY <2>7, OfferTaken
      <3>3. d.kind = "text" /\ ~d.verbatim /\ d.picker = "no"
        <4>1. f \in {"host", "repository"} BY <2>7, FieldsThere
        <4> QED BY <4>1, FormsFit DEF Fits, Named
      <3>4. later[f] = HostOf(k, from) BY <2>5, <3>1, <3>2, <3>3 DEF Stable, IsList
      <3> DEFINE g == Supplied(k)
      <3>5. \/ HostOf(k, from) = Trim(sent[g])
            \/ Trim(sent[g]) = ""
            \/ g = "repository" /\ Fold(HostOf(k, from)) = Fold(sent[g])
        BY <2>7, CopyShows
      <3>6. f = g BY <2>7
      <3> HIDE DEF g
      <3>7. \/ later[f] = Trim(sent[f])
            \/ Trim(sent[f]) = "" /\ later[f] = HostOf(k, from)
            \/ f = "repository" /\ Fold(later[f]) = Fold(sent[f])
        BY <3>4, <3>5, <3>6
      <3> QED BY <1>5, <2>7, <3>3, <3>7 DEF Shows
    <2>8. CASE f # Supplied(k) /\ f = "port" /\ HasPort(k, from) /\ from # ""
      <3>1. applied[f] = "1" BY <2>8, PortCopied
      <3>2. Form(k)[f].kind = "number" BY <2>8, FormsFit DEF Fits, Named
      <3>3. later[f] = "1"
        <4>1. d.kind = "number" BY <3>2
        <4> QED BY <2>5, <3>1, <4>1, OneTaken DEF Stable, IsList
      <3> QED BY <1>5, <2>8, <3>3 DEF Shows
    <2>9. CASE f \notin CopiedFields(k, from)
      <3>1. applied[f] = sent[f] BY <2>9, NotCopied
      <3> QED BY <2>6, <3>1
    <2> QED BY <2>7, <2>8, <2>9 DEF CopiedFields
  <1> QED BY <1>4, <1>5

\* The row that is written is the submission that was checked.
LEMMA Written ==
  ASSUME FormsInv, NEW p \in FormPage, page[p].at = "checking", [FormsNext]_formVars, savedRow' # savedRow, page'[p] = NoPage
  PROVE  savedRow'.docs = page[p].submission.docs
  <1>1. \E q \in FormPage : SaveChecked(q)
    BY DEF FormsNext, formVars, ShowCreate, ShowEdit, Type, Choose, CheckForm, Submit, Leave, RestartWith, ItemChanges, Window
  <1>2. PICK q \in FormPage : SaveChecked(q) BY <1>1
  <1>3. page' = [page EXCEPT ![q] = NoPage] BY <1>2 DEF SaveChecked, Close, Shown
  <1>4. page[p] # NoPage BY SentIs
  <1>5. q = p BY <1>3, <1>4 DEF FormsInv
  <1> QED BY <1>2, <1>5 DEF SaveChecked

\* A save shows what it was sent.
LEMMA SavedShows ==
  ASSUME FormsInv, [FormsNext]_formVars, NEW p \in FormPage
  PROVE  SentShown(p)
  <1> SUFFICES ASSUME page[p].at = "checking", savedRow' # savedRow, page'[p] = NoPage
               PROVE  \A f \in Fields(connector) :
                        Shows(connector, page[p].sent, page[p].from, savedRow'.docs, TargetValues(connector, savedRow'.docs), f)
    BY Zenon DEF SentShown, Shows
  <1>1. connector \in Kinds BY KindsAre DEF FormsInv
  <1>2. SentWell(connector, anyAllowed, page[p]) BY SentIs
  <1>3. savedRow'.docs = DocumentsFromForm(connector, ApplyChoices(connector, page[p].sent, page[p].from))
    BY <1>2, Written, DocsAre DEF SentWell
  <1> QED BY <1>1, <1>2, <1>3, SentShows DEF SentWell

\* The next edit form shows what was submitted, for every form and every page.
THEOREM FormShownAgain == FormsSpec => ShownAgain
  <1>1. FormsInv /\ [FormsNext]_formVars => [\A p \in FormPage : SentShown(p)]_formVars BY SavedShows
  <1> QED BY <1>1, FormsHold, PTL DEF FormsSpec, ShownAgain
-----------------------------------------------------------------------------
(* The audit trail and its readers.                                        *)

TrailRow == [at : Instants, id : RowId, operation : {"read", "write", "unknown"}, keys : SUBSET DetailKeys]

\* A row the reader asked for.
Wanted(r, entry) == entry.at >= r.from /\ entry.at < r.to /\ Matches(entry, r.filter)

\* The reader is where its cursor says, behind the last row it was given.
AtCursor(r) ==
  /\ r.cursor = NoCursor => r.at = "over" \/ r.given = <<>>
  /\ r.cursor # NoCursor => r.at = "reading" /\ r.given # <<>> /\ r.cursor = CursorOf(r.given[Len(r.given)])

\* Of the rows that stayed it was given every one it asked for that is not
\* behind the cursor.
UpToCursor(r) ==
  \A entry \in r.stayed :
    Wanted(r, entry) /\ (r.at = "over" \/ ~PastCursor(entry, r.cursor)) => \E i \in 1..Len(r.given) : r.given[i] = entry

\* What it was given is in order, and as asked.
NewestFirst(r) ==
  /\ \A i, j \in 1..Len(r.given) : i < j => Newer(r.given[i], r.given[j])
  /\ \A i \in 1..Len(r.given) : Wanted(r, r.given[i])

ReadSoFar(r) ==
  /\ DOMAIN r = {"at", "from", "to", "filter", "cursor", "given", "stayed"}
  /\ r.at \in {"reading", "over"} /\ r.from \in Nat /\ r.to \in Nat
  /\ r.given \in Seq(TrailRow) /\ r.stayed \subseteq TrailRow
  /\ NewestFirst(r) /\ AtCursor(r) /\ UpToCursor(r)

TrailInv ==
  /\ appended \subseteq RowId
  /\ trail \subseteq TrailRow /\ NoCredentialFiled
  /\ \A entry \in trail : entry.id \in appended
  /\ \A a, b \in trail : a.id = b.id => a = b
  /\ reader = IdleReader \/ ReadSoFar(reader)
  /\ reader.at = "reading" => reader.stayed \subseteq trail

\* The trail starts empty, with no reader.
LEMMA TrailBegins == TrailInit => TrailInv
  BY DEF TrailInit, TrailInv, NoCredentialFiled, IdleReader

\* What the invariant is for.
LEMMA TrailMeans == TrailInv => TrailReadWhole
  <1> SUFFICES ASSUME TrailInv PROVE TrailReadWhole OBVIOUS
  <1>1. TrailTypeOK
    BY DEF TrailInv, TrailTypeOK, TrailRow, IdleReader, ReadSoFar
  <1>2. GivenInOrder
    BY DEF TrailInv, GivenInOrder, ReadSoFar, NewestFirst, Wanted
  <1>3. NothingSkipped
    BY DEF TrailInv, NothingSkipped, IdleReader, ReadSoFar, UpToCursor, Wanted
  <1> QED BY <1>1, <1>2, <1>3 DEF TrailReadWhole, TrailInv

\* Newer orders rows strictly, and any two that are not one.
LEMMA NewerOrders ==
  ASSUME NEW a, NEW b, NEW c, a.at \in Nat, a.id \in Nat, b.at \in Nat, b.id \in Nat, c.at \in Nat, c.id \in Nat
  PROVE  /\ ~(Newer(a, b) /\ Newer(b, a)) /\ ~Newer(a, a)
         /\ Newer(a, b) /\ Newer(b, c) => Newer(a, c)
  BY DEF Newer

\* A row's instant and id are numbers.
LEMMA RowIs ==
  ASSUME NEW entry \in TrailRow
  PROVE  entry.at \in Nat /\ entry.id \in Nat /\ entry.at \in Instants /\ entry.id \in RowId
  BY TrailAssumption DEF TrailRow

\* A row that is filed names no credential.
LEMMA FiledIs ==
  ASSUME NEW at \in Instants, NEW id \in RowId, NEW operation \in {"read", "write", "unknown"}
  PROVE  /\ Filed(at, id, operation, DetailKeys) \in TrailRow
         /\ "credential" \notin Filed(at, id, operation, DetailKeys).keys
         /\ Filed(at, id, operation, DetailKeys).id = id
  BY DEF Filed, TrailRow, SecretFree, DetailKeys

\* An insert keeps what is known of the trail.
LEMMA InsertKeeps ==
  ASSUME TrailInv, NEW at \in Instants, NEW id \in RowId \ appended, NEW operation \in {"read", "write", "unknown"},
         InsertRow(at, id, operation)
  PROVE  /\ appended' \subseteq RowId
         /\ trail' \subseteq TrailRow /\ NoCredentialFiled'
         /\ \A entry \in trail' : entry.id \in appended'
         /\ \A a, b \in trail' : a.id = b.id => a = b
         /\ trail \subseteq trail'
  <1> DEFINE new == Filed(at, id, operation, DetailKeys)
  <1>1. new \in TrailRow /\ "credential" \notin new.keys /\ new.id = id BY FiledIs
  <1>2. trail' \in {trail, trail \cup {new}} /\ appended' = appended \cup {id} BY DEF InsertRow
  <1> HIDE DEF new
  <1> QED BY <1>1, <1>2 DEF TrailInv, NoCredentialFiled

\* Rows are recorded under a reader.
LEMMA TrailRecords == ASSUME TrailInv, RecordEvent PROVE TrailInv'
  <1>1. PICK at \in Instants, id \in RowId \ appended, operation \in {"read", "write", "unknown"} : InsertRow(at, id, operation)
    BY DEF RecordEvent
  <1>2. reader' = reader BY DEF RecordEvent
  <1> QED BY <1>1, <1>2, InsertKeeps DEF TrailInv

\* Rows are retired under a reader, which is owed those that stay.
LEMMA TrailRetires == ASSUME TrailInv, RunMaintenance PROVE TrailInv'
  <1>1. PICK today \in Instants :
          /\ trail' = {entry \in trail : ~Retired(entry, today)}
          /\ reader' = IF reader.at = "reading" THEN [reader EXCEPT !.stayed = @ \cap trail'] ELSE reader
    BY DEF RunMaintenance
  <1>2. trail' \subseteq trail /\ appended' = appended BY <1>1 DEF RunMaintenance
  <1>3. CASE reader.at # "reading" BY <1>1, <1>2, <1>3 DEF TrailInv, NoCredentialFiled
  <1>4. CASE reader.at = "reading"
    <2>1. ReadSoFar(reader) BY <1>4 DEF TrailInv, IdleReader
    <2> DEFINE r == [reader EXCEPT !.stayed = @ \cap trail']
    <2>2. /\ r.at = reader.at /\ r.from = reader.from /\ r.to = reader.to /\ r.filter = reader.filter
          /\ r.given = reader.given /\ r.cursor = reader.cursor /\ r.stayed = reader.stayed \cap trail'
          /\ DOMAIN r = DOMAIN reader
      BY <2>1 DEF ReadSoFar
    <2>3. reader' = r BY <1>1, <1>4
    <2> HIDE DEF r
    <2>4. ReadSoFar(r)
      BY <2>1, <2>2 DEF ReadSoFar, NewestFirst, AtCursor, UpToCursor, Wanted
    <2> QED BY <1>2, <2>2, <2>3, <2>4 DEF TrailInv, NoCredentialFiled
  <1> QED BY <1>3, <1>4

\* A reader that opens was given nothing and has no cursor.
LEMMA OpensSo ==
  ASSUME NEW from \in Nat, NEW to \in Nat, NEW filter, trail' \subseteq TrailRow
  PROVE  ReadSoFar(NewReader(from, to, filter)) /\ NewReader(from, to, filter).stayed = trail'
  <1> DEFINE r == NewReader(from, to, filter)
  <1>1. r.at = "reading" /\ r.from = from /\ r.to = to /\ r.cursor = NoCursor /\ r.given = <<>> /\ r.stayed = trail'
        /\ DOMAIN r = {"at", "from", "to", "filter", "cursor", "given", "stayed"}
    BY DEF NewReader
  <1> HIDE DEF r
  <1>2. ReadSoFar(r)
    BY <1>1 DEF ReadSoFar, NewestFirst, AtCursor, UpToCursor, PastCursor
  <1> QED BY <1>1, <1>2 DEF r

\* An export records itself and opens.
LEMMA TrailExports == ASSUME TrailInv, OpenExport PROVE TrailInv'
  <1>1. PICK at \in Instants, id \in RowId \ appended, from \in Instants, to \in {i + 1 : i \in Instants} :
          InsertRow(at, id, "unknown") /\ reader' = NewReader(from, to, "all")
    BY DEF OpenExport
  <1>2. from \in Nat /\ to \in Nat BY TrailAssumption
  <1>3. /\ appended' \subseteq RowId
        /\ trail' \subseteq TrailRow /\ NoCredentialFiled'
        /\ \A entry \in trail' : entry.id \in appended'
        /\ \A a, b \in trail' : a.id = b.id => a = b
    BY <1>1, InsertKeeps
  <1>4. ReadSoFar(reader') /\ reader'.stayed = trail' BY <1>1, <1>2, <1>3, OpensSo
  <1> QED BY <1>3, <1>4 DEF TrailInv

\* A call page opens.
LEMMA TrailCalls == ASSUME TrailInv, OpenCalls PROVE TrailInv'
  <1>1. PICK to \in {i + 1 : i \in Instants}, filter \in {"all", "writes"} : reader' = NewReader(0, to, filter)
    BY DEF OpenCalls
  <1>2. to \in Nat /\ trail' = trail /\ appended' = appended BY TrailAssumption DEF OpenCalls
  <1>3. ReadSoFar(reader') /\ reader'.stayed = trail' BY <1>1, <1>2, OpensSo DEF TrailInv
  <1> QED BY <1>2, <1>3 DEF TrailInv, NoCredentialFiled

\* What the statement answers: rows that were selected, in order, and no
\* selected row is left out but for those behind the extra one.
LEMMA FetchedIs ==
  ASSUME NEW r, NEW got \in Fetched(r)
  PROVE  /\ got \in Seq(Selected(r)) /\ Len(got) \in 0..PageSize + 1
         /\ \A i, j \in 1..Len(got) : i < j => Newer(got[i], got[j])
         /\ \A entry \in Selected(r) :
              \/ \E i \in 1..Len(got) : got[i] = entry
              \/ Len(got) > PageSize /\ Newer(got[PageSize + 1], entry)
  <1>1. PICK n \in 0..PageSize + 1 : got \in [1..n -> Selected(r)] BY DEF Fetched
  <1>2. n \in Nat BY TrailAssumption
  <1>3. got \in Seq(Selected(r)) /\ Len(got) = n /\ DOMAIN got = 1..n BY <1>1, <1>2
  <1> QED BY <1>3 DEF Fetched

\* The page given is what was fetched, without the extra row.
LEMMA GivenIs ==
  ASSUME NEW S, NEW got \in Seq(S), Len(got) \in 0..PageSize + 1
  PROVE  /\ Given(got) \in Seq(S)
         /\ Len(Given(got)) = IF Len(got) > PageSize THEN PageSize ELSE Len(got)
         /\ \A i \in 1..Len(Given(got)) : i \in 1..Len(got) /\ Given(got)[i] = got[i]
  <1>0. PageSize \in Nat BY TrailAssumption
  <1>1. CASE Len(got) > PageSize
    <2> DEFINE g == [i \in 1..PageSize |-> got[i]]
    <2>1. Given(got) = g BY <1>1 DEF Given
    <2>2. g \in [1..PageSize -> S] BY <1>0, <1>1
    <2>3. g \in Seq(S) /\ Len(g) = PageSize BY <2>2, <1>0
    <2> QED BY <2>1, <2>3, <1>0, <1>1
  <1>2. CASE ~(Len(got) > PageSize) BY <1>0, <1>2 DEF Given
  <1> QED BY <1>1, <1>2

\* A concatenation, element by element.
LEMMA Joined ==
  ASSUME NEW S, NEW s \in Seq(S), NEW t \in Seq(S)
  PROVE  /\ s \o t \in Seq(S) /\ Len(s \o t) = Len(s) + Len(t)
         /\ \A i \in 1..Len(s) : i \in 1..Len(s \o t) /\ (s \o t)[i] = s[i]
         /\ \A i \in 1..Len(t) : i + Len(s) \in 1..Len(s \o t) /\ (s \o t)[i + Len(s)] = t[i]
         /\ \A i \in 1..Len(s \o t) : i \in 1..Len(s) \/ (i > Len(s) /\ i - Len(s) \in 1..Len(t) /\ (s \o t)[i] = t[i - Len(s)])
  OBVIOUS

\* What the reader has once a page is added to what it was given.
LEMMA PageAdded ==
  ASSUME TrailInv, reader.at = "reading", NEW got \in Fetched(reader)
  PROVE  ReadSoFar(After(reader, got))
  <1> DEFINE r == reader
             S == Selected(r)
             y == After(r, got)
             g == Given(got)
             n == Len(r.given)
  <1>1. ReadSoFar(r) BY DEF TrailInv, IdleReader
  <1>2. /\ y.at = IF NextCursor(got) = NoCursor THEN "over" ELSE "reading"
        /\ y.from = r.from /\ y.to = r.to /\ y.filter = r.filter /\ y.stayed = r.stayed
        /\ y.cursor = NextCursor(got) /\ y.given = r.given \o g
    BY <1>1 DEF ReadSoFar, After
  <1>3. /\ DOMAIN y = {"at", "from", "to", "filter", "cursor", "given", "stayed"} BY <1>1 DEF ReadSoFar, After
  <1>4. /\ got \in Seq(S) /\ Len(got) \in 0..PageSize + 1
        /\ \A i, j \in 1..Len(got) : i < j => Newer(got[i], got[j])
        /\ \A entry \in S :
             \/ \E i \in 1..Len(got) : got[i] = entry
             \/ Len(got) > PageSize /\ Newer(got[PageSize + 1], entry)
    BY FetchedIs
  <1>5. /\ g \in Seq(S) /\ Len(g) = IF Len(got) > PageSize THEN PageSize ELSE Len(got)
        /\ \A i \in 1..Len(g) : i \in 1..Len(got) /\ g[i] = got[i]
    BY <1>4, GivenIs
  <1>6. \A entry \in S : entry \in TrailRow /\ Wanted(r, entry) /\ PastCursor(entry, r.cursor) BY DEF TrailInv, Selected, Wanted
  <1>7. r.given \in Seq(TrailRow) /\ g \in Seq(TrailRow)
    <2>1. S \subseteq TrailRow BY <1>6
    <2> QED BY <1>1, <1>5, <2>1 DEF ReadSoFar
  <1>8. PageSize \in Nat \ {0} /\ n \in Nat BY <1>7, TrailAssumption
  <1> HIDE DEF y, g, S, r
  <1>9. /\ y.given \in Seq(TrailRow) /\ Len(y.given) = n + Len(g)
        /\ \A i \in 1..n : i \in 1..Len(y.given) /\ y.given[i] = r.given[i]
        /\ \A i \in 1..Len(g) : i + n \in 1..Len(y.given) /\ y.given[i + n] = g[i]
        /\ \A i \in 1..Len(y.given) : i \in 1..n \/ (i > n /\ i - n \in 1..Len(g) /\ y.given[i] = g[i - n])
    BY <1>2, <1>7, Joined DEF n
  <1>10. \A i \in 1..n : r.given[i] \in TrailRow BY <1>7 DEF n
  <1>11. \A i \in 1..Len(g) : g[i] \in S /\ g[i] \in TrailRow BY <1>5, <1>6
  <1>12. NewestFirst(y)
    <2>1. \A i \in 1..Len(y.given) : Wanted(y, y.given[i])
      <3>1. \A entry : Wanted(y, entry) <=> Wanted(r, entry) BY <1>2 DEF Wanted
      <3>2. \A i \in 1..n : Wanted(r, r.given[i]) BY <1>1 DEF ReadSoFar, NewestFirst, n
      <3> QED BY <3>1, <3>2, <1>9, <1>11, <1>6
    <2>2. ASSUME NEW i \in 1..Len(y.given), NEW j \in 1..Len(y.given), i < j
          PROVE  Newer(y.given[i], y.given[j])
      <3>1. CASE j \in 1..n
        <4>1. i \in 1..n BY <3>1, <2>2, <1>8
        <4>2. Newer(r.given[i], r.given[j]) BY <1>1, <4>1, <3>1, <2>2 DEF ReadSoFar, NewestFirst, n
        <4> QED BY <4>1, <4>2, <3>1, <1>9
      <3>2. CASE i \notin 1..n
        <4>1. j \notin 1..n BY <3>2, <2>2, <1>8
        <4>2. i - n \in 1..Len(got) /\ j - n \in 1..Len(got) /\ y.given[i] = got[i - n] /\ y.given[j] = got[j - n]
          BY <3>2, <4>1, <1>9, <1>5
        <4> QED BY <4>2, <2>2, <1>4, <1>8
      <3>3. CASE i \in 1..n /\ j \notin 1..n
        <4>1. y.given[j] \in S /\ y.given[i] = r.given[i] BY <3>3, <1>9, <1>11
        <4>2. n # 0 /\ r.at = "reading" BY <3>3, <1>8 DEF r
        <4>3. r.cursor # NoCursor /\ r.cursor = CursorOf(r.given[n])
          BY <1>1, <4>2, <1>7 DEF ReadSoFar, AtCursor, n
        <4>4. Newer(r.cursor, y.given[j]) BY <4>1, <4>3, <1>6 DEF PastCursor
        <4>5. Newer(r.given[n], y.given[j]) BY <4>3, <4>4 DEF CursorOf, Newer
        <4>6. i = n \/ Newer(r.given[i], r.given[n])
          BY <1>1, <3>3, <1>8 DEF ReadSoFar, NewestFirst, n
        <4>7. r.given[i] \in TrailRow /\ r.given[n] \in TrailRow /\ y.given[j] \in TrailRow
          BY <1>10, <3>3, <1>8, <4>1, <1>6
        <4> QED BY <4>1, <4>5, <4>6, <4>7, RowIs, NewerOrders
      <3> QED BY <3>1, <3>2, <3>3
    <2> QED BY <2>1, <2>2 DEF NewestFirst
  <1>13. AtCursor(y)
    <2>1. CASE Len(got) > PageSize
      <3>1. Len(g) = PageSize /\ g[PageSize] = got[PageSize] BY <2>1, <1>5, <1>8
      <3>2. got[PageSize] \in TrailRow BY <3>1, <1>11, <1>8
      <3>3. y.cursor = CursorOf(got[PageSize]) BY <2>1, <1>2 DEF NextCursor
      <3>4. y.cursor # NoCursor BY <3>2, <3>3, RowIs DEF CursorOf, NoCursor
      <3>5. Len(y.given) = PageSize + n /\ y.given[Len(y.given)] = g[PageSize] BY <3>1, <1>9, <1>8
      <3>6. y.given # <<>> BY <3>5, <1>8
      <3> QED BY <3>1, <3>3, <3>4, <3>5, <3>6, <1>2 DEF AtCursor
    <2>2. CASE ~(Len(got) > PageSize) BY <2>2, <1>2 DEF NextCursor, AtCursor
    <2> QED BY <2>1, <2>2
  <1>14. UpToCursor(y)
    <2> SUFFICES ASSUME NEW entry \in r.stayed, Wanted(r, entry), y.at = "over" \/ ~PastCursor(entry, y.cursor)
                 PROVE  \E i \in 1..Len(y.given) : y.given[i] = entry
      BY <1>2 DEF UpToCursor, Wanted
    <2>1. entry \in TrailRow /\ entry \in trail BY <1>1 DEF ReadSoFar, TrailInv, r
    <2>2. CASE ~PastCursor(entry, r.cursor)
      <3>1. \E i \in 1..n : r.given[i] = entry BY <1>1, <2>2 DEF ReadSoFar, UpToCursor, n
      <3> QED BY <3>1, <1>9
    <2>3. CASE PastCursor(entry, r.cursor)
      <3>1. entry \in S BY <2>1, <2>3 DEF S, Selected, Wanted
      <3>2. ~Newer(got[PageSize + 1], entry) \/ ~(Len(got) > PageSize)
        <4> SUFFICES ASSUME Len(got) > PageSize, Newer(got[PageSize + 1], entry) PROVE FALSE OBVIOUS
        <4>1. got[PageSize] \in TrailRow /\ got[PageSize + 1] \in TrailRow BY <1>4, <1>6, <1>8
        <4>2. Newer(got[PageSize], got[PageSize + 1]) BY <1>4, <1>8
        <4>3. Newer(got[PageSize], entry) BY <4>1, <4>2, <2>1, RowIs, NewerOrders
        <4>4. y.cursor = CursorOf(got[PageSize]) /\ y.cursor # NoCursor
          BY <1>2, <4>1, RowIs DEF NextCursor, CursorOf, NoCursor
        <4>5. PastCursor(entry, y.cursor) BY <4>3, <4>4 DEF PastCursor, CursorOf, Newer
        <4> QED BY <4>4, <4>5, <1>2
      <3>3. PICK i \in 1..Len(got) : got[i] = entry BY <3>1, <3>2, <1>4
      <3>4. i \in 1..Len(g)
        <4> SUFFICES ASSUME i \notin 1..Len(g) PROVE FALSE OBVIOUS
        <4>1. Len(got) > PageSize /\ i = PageSize + 1 BY <1>4, <1>5, <1>8
        <4>2. got[PageSize] \in TrailRow BY <1>4, <1>6, <1>8, <4>1
        <4>3. Newer(got[PageSize], entry) BY <1>4, <1>8, <3>3, <4>1
        <4>4. y.cursor = CursorOf(got[PageSize]) /\ y.cursor # NoCursor
          BY <1>2, <4>1, <4>2, RowIs DEF NextCursor, CursorOf, NoCursor
        <4>5. PastCursor(entry, y.cursor) BY <4>3, <4>4 DEF PastCursor, CursorOf, Newer
        <4> QED BY <4>4, <4>5, <1>2
      <3> QED BY <3>3, <3>4, <1>5, <1>9, <1>8
    <2> QED BY <2>2, <2>3
  <1>15. y.at \in {"reading", "over"} BY <1>2
  <1>16. y.from \in Nat /\ y.to \in Nat /\ y.stayed \subseteq TrailRow BY <1>1, <1>2 DEF ReadSoFar
  <1>17. ReadSoFar(y) BY <1>3, <1>9, <1>12, <1>13, <1>14, <1>15, <1>16 DEF ReadSoFar
  <1> QED BY <1>17 DEF y, r

\* A page is read.
LEMMA TrailPages == ASSUME TrailInv, ReadPage PROVE TrailInv'
  <1>1. PICK got \in Fetched(reader) : reader' = After(reader, got) BY DEF ReadPage
  <1>2. reader.at = "reading" /\ trail' = trail /\ appended' = appended BY DEF ReadPage
  <1>3. ReadSoFar(reader') BY <1>1, <1>2, PageAdded
  <1>4. reader'.stayed = reader.stayed BY <1>1, <1>2 DEF After
  <1> QED BY <1>2, <1>3, <1>4 DEF TrailInv, NoCredentialFiled

\* Every step of the trail keeps the invariant.
LEMMA TrailGoesOn == TrailInv /\ [TrailNext]_trailVars => TrailInv'
  <1>1. ASSUME TrailInv, LeaveReader PROVE TrailInv'
    BY <1>1 DEF LeaveReader, TrailInv, NoCredentialFiled, IdleReader
  <1>2. ASSUME TrailInv, UNCHANGED trailVars PROVE TrailInv'
    BY <1>2 DEF trailVars, TrailInv, NoCredentialFiled
  <1> QED BY <1>1, <1>2, TrailRecords, TrailRetires, TrailExports, TrailCalls, TrailPages DEF TrailNext

\* OPS-5, MCP-15: a reader of the trail is given each row that stayed exactly
\* once and in order, whatever is recorded and retired between its pages and
\* whichever rows share an instant, for every page size, every set of ids and
\* any retention; and no row that was filed names a credential.
THEOREM TrailIsReadWhole == TrailSpec => []TrailReadWhole
  <1> QED BY TrailBegins, TrailGoesOn, TrailMeans, PTL DEF TrailSpec
=============================================================================

------------------------------ MODULE Bootstrap ------------------------------
(***************************************************************************)
(* The first run of a deployment (src/identity/bootstrap.ts and            *)
(* routes-setup.ts): every start of the process stores a token as long as  *)
(* there is no operator, and a form that carries a usable one creates the  *)
(* operator.  A form is hashed for as long as scrypt takes, so other forms *)
(* run between its checks and its transaction.  The tables outlive the     *)
(* process; the forms do not.                                              *)
(***************************************************************************)
EXTENDS Integers, FiniteSets

CONSTANTS
  Token,      \* the tokens a start may store
  Preset,     \* the values VAULTGATE_BOOTSTRAP_TOKEN may have at a start, if it has one
  NoToken,
  Email,      \* the addresses the forms submit
  SetupForm,       \* the forms submitted
  Random,     \* the tokens that are drawn
  TTL,        \* BOOTSTRAP_TOKEN_TTL_MS
  SetupTimeMax,    \* bound: the clock stops here
  NoSetupRow, NoText, SetupOver  \* no row; a form before and after its request

ASSUME SetupAssumption ==
  /\ {TTL, SetupTimeMax} \subseteq Nat \ {0}
  /\ Random \subseteq Token
  /\ NoToken \notin Token
  /\ Preset \subseteq Token

TokenRow == [expiresAt : Nat, consumed : BOOLEAN]

VARIABLES
  setupClock,        \* Date.now()
  process,    \* "down", "up", or "dead": start-up threw
  tokens,     \* table bootstrap_tokens
  operators,  \* table operators, by the form that created each
  forms,      \* where each form stands
  link,       \* what this process logged: a token, and until when it is good
  drawn       \* history: the tokens that were drawn

setupVars == <<setupClock, process, tokens, operators, forms, link, drawn>>

Setup == [email : Email, token : Token]

ASSUME NullAssumption == NoSetupRow \notin TokenRow \cup Setup /\ {NoText, SetupOver} \cap Setup = {}

\* The variables hold rows and forms.
SetupTypeOK ==
  /\ setupClock \in Nat
  /\ process \in {"down", "up", "dead"}
  /\ tokens \in [Token -> TokenRow \cup {NoSetupRow}]
  /\ operators \in [SetupForm -> Setup \cup {NoSetupRow}]
  /\ forms \in [SetupForm -> Setup \cup {NoText, SetupOver}]
  /\ link \in [token : Token, until : Nat] \cup {NoToken}
  /\ drawn \subseteq Random

SetupInit ==
  /\ setupClock = 0
  /\ process = "down"
  /\ tokens = [t \in Token |-> NoSetupRow]
  /\ operators = [f \in SetupForm |-> NoSetupRow]
  /\ forms = [f \in SetupForm |-> NoText]
  /\ link = NoToken
  /\ drawn = {}

Created == {f \in SetupForm : operators[f] # NoSetupRow}
HasOperator == Created # {}

\* isUsable() and the WHERE of consume().
Usable(t) == tokens[t] # NoSetupRow /\ tokens[t].expiresAt > setupClock /\ ~tokens[t].consumed

-----------------------------------------------------------------------------
(* Starting.                                                               *)

\* Mutant: the rows of the last instant before the expiry go as well.
ExpiredEarly(ts) == [t \in Token |-> IF ts[t] # NoSetupRow /\ ts[t].expiresAt <= setupClock + 1 THEN NoSetupRow ELSE ts[t]]

\* The maintenance rule of bootstrap_tokens, which also runs at every start.
Expired(ts) == [t \in Token |-> IF ts[t] # NoSetupRow /\ ts[t].expiresAt <= setupClock THEN NoSetupRow ELSE ts[t]]

\* ensureToken(): nothing when there is an operator.
EnsureNothing ==
  /\ HasOperator
  /\ tokens' = Expired(tokens)
  /\ process' = "up"
  /\ link' = NoToken
  /\ UNCHANGED drawn

\* ensureToken(): the preset token, or one that was never drawn before.  Its hash
\* is the primary key of the table: inserting one that is there already throws,
\* and nothing catches it.
EnsureToken(t) ==
  /\ ~HasOperator
  /\ t \in Preset \cup (Random \ drawn)
  /\ drawn' = drawn \cup ({t} \cap Random)
  /\ IF Expired(tokens)[t] = NoSetupRow
       THEN /\ tokens' = [Expired(tokens) EXCEPT ![t] = [expiresAt |-> setupClock + TTL, consumed |-> FALSE]]
            /\ process' = "up"
            /\ link' = [token |-> t, until |-> setupClock + TTL]
       ELSE /\ tokens' = Expired(tokens)
            /\ process' = "dead"
            /\ link' = NoToken

SetupBoot ==
  /\ process \in {"down", "dead"}
  /\ EnsureNothing \/ \E t \in Token : EnsureToken(t)
  /\ UNCHANGED <<setupClock, operators, forms>>

\* The process ends, by a signal or by a fault: its forms get no answer.
Stop ==
  /\ process = "up"
  /\ process' = "down"
  /\ forms' = [f \in SetupForm |-> IF forms[f] = NoText THEN NoText ELSE SetupOver]
  /\ UNCHANGED <<setupClock, tokens, operators, link, drawn>>

Maintain ==
  /\ process = "up"
  /\ tokens' = Expired(tokens)
  /\ UNCHANGED <<setupClock, process, operators, forms, link, drawn>>

-----------------------------------------------------------------------------
(* POST /setup.                                                            *)

\* A form that passes every check of its own; whether its token can be used is
\* not looked at yet.
SubmitSetup(f, t, e) ==
  /\ process = "up"
  /\ forms[f] = NoText
  /\ ~HasOperator
  /\ forms' = [forms EXCEPT ![f] = [email |-> e, token |-> t]]
  /\ UNCHANGED <<setupClock, process, tokens, operators, link, drawn>>

\* Mutant: the token stays usable after the operator was created.
CreateOnly(f) ==
  /\ UNCHANGED tokens
  /\ operators' = IF Usable(forms[f].token) /\ ~\E g \in Created : operators[g].email = forms[f].email
                    THEN [operators EXCEPT ![f] = forms[f]] ELSE operators

\* createOperator(): one transaction.  An address that is taken violates the
\* unique index and rolls the consumption back.
CreateOperator(f) ==
  LET t == forms[f].token
      isTaken == \E g \in Created : operators[g].email = forms[f].email
  IN IF Usable(t) /\ ~isTaken
       THEN /\ tokens' = [tokens EXCEPT ![t].consumed = TRUE]
            /\ operators' = [operators EXCEPT ![f] = forms[f]]
       ELSE UNCHANGED <<tokens, operators>>

\* The password is hashed.
Complete(f) ==
  /\ process = "up"
  /\ forms[f] \notin {NoText, SetupOver}
  /\ CreateOperator(f)
  /\ forms' = [forms EXCEPT ![f] = SetupOver]
  /\ UNCHANGED <<setupClock, process, link, drawn>>

SetupTick ==
  /\ setupClock < SetupTimeMax
  /\ setupClock' = setupClock + 1
  /\ UNCHANGED <<process, tokens, operators, forms, link, drawn>>

SetupNext ==
  \/ SetupBoot \/ Stop \/ Maintain \/ SetupTick
  \/ \E f \in SetupForm : Complete(f) \/ \E t \in Token, e \in Email : SubmitSetup(f, t, e)

SetupSpec == SetupInit /\ [][SetupNext]_setupVars

-----------------------------------------------------------------------------

\* ID-3: no two operators come from one token, however their forms overlap.
OneOperatorPerToken ==
  \A f, g \in Created : operators[f].token = operators[g].token => f = g

\* ID-3: a token is consumed exactly when its operator was created: a form that
\* is refused after the consumption leaves the token usable.
ConsumedByCreation ==
  \A t \in Token : tokens[t] # NoSetupRow /\ tokens[t].consumed => \E f \in Created : operators[f].token = t

\* ID-3: the tables of tokens and operators are well formed and agree.
SetupConsistent == SetupTypeOK /\ OneOperatorPerToken /\ ConsumedByCreation

\* ID-1: until there is an operator, the link this process logged works for its
\* half hour.
LinkWorks ==
  process = "up" /\ link # NoToken /\ ~HasOperator /\ setupClock < link.until => Usable(link.token)

\* The three together: what a start, its link and the setup form leave behind.
SetupSound == SetupConsistent /\ LinkWorks

\* 01-overview.md: "In v1 there is exactly one operator account per deployment."
OneOperator == Cardinality(Created) <= 1

\* ID-2: a preset token does not keep a deployment from starting.
Starts == process # "dead"
=============================================================================

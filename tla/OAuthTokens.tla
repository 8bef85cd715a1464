----------------------------- MODULE OAuthTokens -----------------------------
(***************************************************************************)
(* The rows of the authorization server (src/oauth): consents, single-use  *)
(* authorization codes, and the families of access and refresh tokens that *)
(* grow from a code.  Every handler runs its database work in one turn of  *)
(* the event loop, so a handler is one action.  A statement outside a      *)
(* transaction is committed on its own, so a process that is killed, or a  *)
(* statement that throws, can leave a prefix of a handler behind: the      *)
(* actions whose name ends in Interrupted.                                 *)
(*                                                                         *)
(* An identifier is drawn once and never again; a pair is the access and   *)
(* the refresh token issued together.  The redirect URI, the resource and  *)
(* the PKCE verifier of a request are one bit: they match or they do not.  *)
(***************************************************************************)
EXTENDS Integers, FiniteSets

CONSTANTS
  Client, Scope,   \* registered clients; the scopes the deployment enables
  Consent, Code, Pair,  \* the identifiers rows may be given
  NoRow, Never,    \* no row under this id; a revoked_at or replaced_by of NULL
  CodeTTL, AccessTTL, RefreshTTL,  \* CODE_TTL_MS, accessTokenTtlMs, refreshTokenTtlMs
  Grace,           \* TOKEN_GRACE_DAYS
  MaxTime          \* bound: the clock stops here

ASSUME TimesAssumption ==
  /\ {CodeTTL, AccessTTL, RefreshTTL, Grace, MaxTime} \subseteq Nat \ {0}
  /\ AccessTTL <= Grace
VARIABLES
  now,         \* Date.now()
  consents,    \* table consents
  codes,       \* table authorization_codes
  access,      \* table tokens, kind = 'access'
  refresh,     \* table tokens, kind = 'refresh'
  issued,      \* history: every code as it was issued, with the scopes ticked for it
  minted,      \* history: the pairs drawn so far
  born,        \* history: when each family got its first pair
  spent        \* history: the refresh tokens that were exchanged for a pair

tables == <<consents, codes, access, refresh>>
history == <<issued, minted, born, spent>>
vars == <<now, tables, history>>

Granted == (SUBSET Scope) \ {{}}
ConsentRow == [client : Client, scopes : Granted, revoked : BOOLEAN]
CodeRow == [client : Client, consent : Consent, scopes : Granted,
            expiresAt : Nat, used : BOOLEAN]
TokenRow == [family : Code, client : Client, consent : Consent, scopes : Granted,
             expiresAt : Nat, revokedAt : Nat \cup {Never}, replacedBy : Pair \cup {Never}]

ASSUME NullAssumption ==
  /\ Never \notin Nat \cup Pair
  /\ NoRow \notin ConsentRow \cup CodeRow \cup TokenRow

\* Every row has its columns, and no row grants nothing: approve() takes a form
\* with no scope ticked for a denial.
TypeOK ==
  /\ now \in Nat
  /\ consents \in [Consent -> ConsentRow \cup {NoRow}]
  /\ codes \in [Code -> CodeRow \cup {NoRow}]
  /\ access \in [Pair -> TokenRow \cup {NoRow}]
  /\ refresh \in [Pair -> TokenRow \cup {NoRow}]
  /\ issued \in [Code -> CodeRow \cup {NoRow}]
  /\ minted \subseteq Pair
  /\ born \in [Code -> Nat \cup {Never}]
  /\ spent \in SUBSET (Pair \X Code)

Init ==
  /\ now = 0
  /\ consents = [n \in Consent |-> NoRow]
  /\ codes = [k \in Code |-> NoRow]
  /\ access = [p \in Pair |-> NoRow]
  /\ refresh = [p \in Pair |-> NoRow]
  /\ issued = [k \in Code |-> NoRow]
  /\ minted = {}
  /\ born = [k \in Code |-> Never]
  /\ spent = {}

-----------------------------------------------------------------------------
(* Reading the tables.                                                     *)

Expired(row) == row.expiresAt <= now
IsRevoked(row) == row.revokedAt # Never

\* Mutant: any live consent of the same client will do.
ConsentActiveOfClient(n) ==
  /\ consents[n] # NoRow
  /\ \E m \in Consent :
       consents[m] # NoRow /\ ~consents[m].revoked /\ consents[m].client = consents[n].client

\* isConsentActive()
ConsentActive(n) == consents[n] # NoRow /\ ~consents[n].revoked

\* ConsentsRepo.findActive(): the consents of a client that are not revoked.
ActiveConsents(c) == {n \in Consent : ConsentActive(n) /\ consents[n].client = c}

\* Where a new code of the client goes: its active consent, or a new row.
ConsentsFor(c) ==
  IF ActiveConsents(c) = {} THEN {n \in Consent : consents[n] = NoRow} ELSE ActiveConsents(c)

\* StoreTokenVerifier.verify() accepts the access token of this pair.
Accepted(p) ==
  /\ access[p] # NoRow
  /\ ~IsRevoked(access[p])
  /\ ~Expired(access[p])
  /\ ConsentActive(access[p].consent)

\* A refresh token liveRefreshToken() still takes from its client.
Refreshable(p) ==
  /\ refresh[p] # NoRow
  /\ ~IsRevoked(refresh[p])
  /\ refresh[p].replacedBy = Never
  /\ ~Expired(refresh[p])
  /\ ConsentActive(refresh[p].consent)

\* Identifiers are random: one that was drawn is not drawn again.
FreshCodes == {k \in Code : issued[k] = NoRow}
FreshPairs == Pair \ minted

-----------------------------------------------------------------------------
(* Writing the tables.                                                     *)

\* TokensRepo.revokeFamily() and revokeByConsent(): only rows not yet revoked.
Stamped(row) == IF IsRevoked(row) THEN row ELSE [row EXCEPT !.revokedAt = now]
FamilyRevoked(table, k) ==
  [p \in Pair |-> IF table[p] # NoRow /\ table[p].family = k THEN Stamped(table[p]) ELSE table[p]]
ConsentRevoked(table, n) ==
  [p \in Pair |-> IF table[p] # NoRow /\ table[p].consent = n THEN Stamped(table[p]) ELSE table[p]]
RevokeFamily(k) ==
  /\ access' = FamilyRevoked(access, k)
  /\ refresh' = FamilyRevoked(refresh, k)

NewToken(k, from, scopes, expiresAt) ==
  [family |-> k, client |-> from.client, consent |-> from.consent, scopes |-> scopes,
   expiresAt |-> expiresAt, revokedAt |-> Never, replacedBy |-> Never]

\* issueTokenPair(), access row first.
InsertAccess(p, k, from, scopes) ==
  /\ minted' = minted \cup {p}
  /\ access' = [access EXCEPT ![p] = NewToken(k, from, scopes, now + AccessTTL)]

-----------------------------------------------------------------------------
(* Consent and codes.                                                      *)

\* Mutant: a form with nothing ticked is an approval.
ApproveUnticked(c, scopes) ==
  /\ \E k \in FreshCodes :
       \E n \in ConsentsFor(c) \ ActiveConsents(c) :
         /\ consents' = [consents EXCEPT ![n] = [client |-> c, scopes |-> scopes, revoked |-> FALSE]]
         /\ LET code == [client |-> c, consent |-> n, scopes |-> scopes,
                        expiresAt |-> now + CodeTTL, used |-> FALSE] IN
            /\ codes' = [codes EXCEPT ![k] = code]
            /\ issued' = [issued EXCEPT ![k] = code]
  /\ UNCHANGED <<now, access, refresh, minted, born, spent>>

\* approve() and issueCode(): one transaction.  The active consent of the
\* client grows by what was ticked; without one, a consent is inserted.
Approve(c, scopes) ==
  /\ scopes # {}
  /\ \E k \in FreshCodes :
       \E n \in ConsentsFor(c) :
         /\ consents' = [consents EXCEPT ![n] =
              IF consents[n] = NoRow
                THEN [client |-> c, scopes |-> scopes, revoked |-> FALSE]
                ELSE [consents[n] EXCEPT !.scopes = @ \cup scopes]]
         /\ LET code == [client |-> c, consent |-> n, scopes |-> scopes,
                        expiresAt |-> now + CodeTTL, used |-> FALSE] IN
            /\ codes' = [codes EXCEPT ![k] = code]
            /\ issued' = [issued EXCEPT ![k] = code]
  /\ UNCHANGED <<now, access, refresh, minted, born, spent>>

\* Claiming a code, which spends it whatever redeemCode() finds afterwards.
Claim(k) ==
  /\ codes[k] # NoRow
  /\ ~codes[k].used
  /\ codes' = [codes EXCEPT ![k].used = TRUE]

\* The checks redeemCode() makes of a code it has claimed.
IsBound(k, c, matches) ==
  /\ ~Expired(codes[k])
  /\ codes[k].client = c
  /\ matches
  /\ ConsentActive(codes[k].consent)

\* Mutant: the tokens get what the consent lists, not what the code was given.
RedeemWithConsent(k, c, matches) ==
  /\ Claim(k)
  /\ IsBound(k, c, matches)
  /\ \E p \in FreshPairs :
       LET scopes == consents[codes[k].consent].scopes IN
       /\ InsertAccess(p, k, codes[k], scopes)
       /\ refresh' = [refresh EXCEPT ![p] = NewToken(k, codes[k], scopes, now + RefreshTTL)]
  /\ born' = [born EXCEPT ![k] = now]
  /\ UNCHANGED <<now, consents, issued, spent>>

\* A code row is presented for the first time and redeemed.
Redeem(k, c, matches) ==
  /\ Claim(k)
  /\ IsBound(k, c, matches)
  /\ \E p \in FreshPairs :
       /\ InsertAccess(p, k, codes[k], codes[k].scopes)
       /\ refresh' = [refresh EXCEPT ![p] =
            NewToken(k, codes[k], codes[k].scopes, now + RefreshTTL)]
  /\ born' = [born EXCEPT ![k] = now]
  /\ UNCHANGED <<now, consents, issued, spent>>

\* The claimed code does not match the request: it is spent and yields nothing.
RedeemRefused(k, c, matches) ==
  /\ Claim(k)
  /\ ~IsBound(k, c, matches)
  /\ UNCHANGED <<now, consents, access, refresh, history>>

\* redeemCode() opens no transaction of its own: it may end after the claim,
\* or with the access row in the table and no refresh row beside it.
RedeemInterrupted(k, c) ==
  /\ Claim(k)
  /\ IsBound(k, c, TRUE)
  /\ \/ UNCHANGED <<access, minted>>
     \/ \E p \in FreshPairs : InsertAccess(p, k, codes[k], codes[k].scopes)
  /\ born' = [born EXCEPT ![k] = now]
  /\ UNCHANGED <<now, consents, refresh, issued, spent>>

\* claimCode() of a used code revokes the family of the code.
ReuseCode(k) ==
  /\ codes[k] # NoRow
  /\ codes[k].used
  /\ RevokeFamily(k)
  /\ UNCHANGED <<now, consents, codes, history>>

-----------------------------------------------------------------------------
(* Refresh and revocation.                                                 *)

\* Mutant: a rotation, given the end of the new refresh token and the mark it leaves.
RefreshVariant(q, c, scopes, end, mark(_)) ==
  /\ Refreshable(q)
  /\ refresh[q].client = c
  /\ scopes # {} /\ scopes \subseteq refresh[q].scopes
  /\ \E p \in FreshPairs :
       LET row == refresh[q] IN
       /\ InsertAccess(p, row.family, row, scopes)
       /\ refresh' = [refresh EXCEPT
            ![q].replacedBy = mark(p),
            ![p] = NewToken(row.family, row, scopes, end)]
  /\ spent' = spent \cup {<<q, refresh[q].family>>}
  /\ UNCHANGED <<now, consents, codes, issued, born>>
RefreshSliding(q, c, scopes) == RefreshVariant(q, c, scopes, now + RefreshTTL, LAMBDA p : p)
RefreshUnmarked(q, c, scopes) ==
  /\ refresh[q] # NoRow
  /\ RefreshVariant(q, c, scopes, refresh[q].expiresAt, LAMBDA p : Never)

\* refresh(): the pair and the mark on its parent are one transaction.  The
\* fallback for a mark that changes no row needs a second writer between the
\* read and the mark, and there is one connection and no await between them.
Refresh(q, c, scopes) ==
  /\ Refreshable(q)
  /\ refresh[q].client = c
  /\ scopes # {}
  /\ scopes \subseteq refresh[q].scopes
  /\ \E p \in FreshPairs :
       LET row == refresh[q] IN
       /\ InsertAccess(p, row.family, row, scopes)
       /\ refresh' = [refresh EXCEPT
            ![q].replacedBy = p,
            ![p] = NewToken(row.family, row, scopes, row.expiresAt)]
  /\ spent' = spent \cup {<<q, refresh[q].family>>}
  /\ UNCHANGED <<now, consents, codes, issued, born>>

\* A refresh token that is recognised as used.
Spent(q) ==
  /\ refresh[q] # NoRow
  /\ ~IsRevoked(refresh[q])
  /\ refresh[q].replacedBy # Never

\* replayed(): checked before the client, the expiry and the consent.
Replay(q) ==
  /\ Spent(q)
  /\ RevokeFamily(refresh[q].family)
  /\ UNCHANGED <<now, consents, codes, history>>

\* revokeToken(): an access token takes itself, a refresh token its family.
RevokeAccess(p) ==
  /\ access[p] # NoRow
  /\ access' = [access EXCEPT ![p] = Stamped(access[p])]
  /\ UNCHANGED <<now, consents, codes, refresh, history>>

\* Mutant: the refresh token takes only itself.
RevokeRefreshAlone(p) ==
  /\ refresh[p] # NoRow
  /\ refresh' = [refresh EXCEPT ![p] = Stamped(refresh[p])]
  /\ UNCHANGED <<now, consents, codes, access, history>>

RevokeRefresh(p) ==
  /\ refresh[p] # NoRow
  /\ RevokeFamily(refresh[p].family)
  /\ UNCHANGED <<now, consents, codes, history>>

\* ConsentsRepo.revoke(), the first statement of revokeConsent().
RevokeRow(n) ==
  /\ ConsentActive(n)
  /\ consents' = [consents EXCEPT ![n].revoked = TRUE]

RevokeTokens(n) ==
  /\ access' = ConsentRevoked(access, n)
  /\ refresh' = ConsentRevoked(refresh, n)

\* revokeConsent(): the consent, then its tokens.  What it does to the grants of
\* the client is in ActionTargets.
Disconnect(n) ==
  /\ RevokeRow(n)
  /\ RevokeTokens(n)
  /\ UNCHANGED <<now, codes, history>>

\* Its statements are not one transaction.
DisconnectInterrupted(n) ==
  /\ RevokeRow(n)
  /\ RevokeTokens(n) \/ UNCHANGED <<access, refresh>>
  /\ UNCHANGED <<now, codes, history>>

-----------------------------------------------------------------------------
(* The clock and maintenance.                                              *)

Tick ==
  /\ now < MaxTime
  /\ now' = now + 1
  /\ UNCHANGED <<tables, history>>

\* Mutant: an expired row goes at once.
RetiredAtOnce(row) ==
  /\ row # NoRow
  /\ \/ Expired(row)
     \/ IsRevoked(row) /\ row.revokedAt + Grace <= now

\* A token row is kept for Grace after it was revoked or expired.
Retired(row) ==
  /\ row # NoRow
  /\ \/ row.expiresAt + Grace <= now
     \/ IsRevoked(row) /\ row.revokedAt + Grace <= now

\* runMaintenance(): one transaction.
Maintain ==
  /\ codes' = [k \in Code |-> IF codes[k] # NoRow /\ Expired(codes[k]) THEN NoRow ELSE codes[k]]
  /\ access' = [p \in Pair |-> IF Retired(access[p]) THEN NoRow ELSE access[p]]
  /\ refresh' = [p \in Pair |-> IF Retired(refresh[p]) THEN NoRow ELSE refresh[p]]
  /\ UNCHANGED <<now, consents, history>>

Next ==
  \/ \E c \in Client, scopes \in SUBSET Scope : Approve(c, scopes)
  \/ \E k \in Code, c \in Client, matches \in BOOLEAN :
       Redeem(k, c, matches) \/ RedeemRefused(k, c, matches)
  \/ \E k \in Code, c \in Client : RedeemInterrupted(k, c)
  \/ \E k \in Code : ReuseCode(k)
  \/ \E q \in Pair, c \in Client, scopes \in SUBSET Scope : Refresh(q, c, scopes)
  \/ \E p \in Pair : Replay(p) \/ RevokeAccess(p) \/ RevokeRefresh(p)
  \/ \E n \in Consent : Disconnect(n) \/ DisconnectInterrupted(n)
  \/ Tick
  \/ Maintain

Spec == Init /\ [][Next]_vars

-----------------------------------------------------------------------------
(* What the rows promise.                                                  *)

LiveRefresh(p, k) ==
  /\ refresh[p] # NoRow
  /\ refresh[p].family = k
  /\ ~IsRevoked(refresh[p])
  /\ refresh[p].replacedBy = Never

\* However codes, refreshes, replays and interruptions follow one another, a
\* family never holds two refresh tokens that are neither replaced nor revoked
\* (refresh() replaces exactly the token it was given).
OneLiveRefresh ==
  \A k \in Code, p, q \in Pair : LiveRefresh(p, k) /\ LiveRefresh(q, k) => p = q

\* Once one refresh token of a family is revoked, by a replay, a reused code,
\* the client or the operator, every token of that family is revoked and stays
\* so: nothing rotates or is issued into a family that fell (revokeFamily()).
FamilyFallsTogether ==
  \A p, q \in Pair :
    refresh[p] # NoRow /\ IsRevoked(refresh[p]) =>
      /\ refresh[q] # NoRow /\ refresh[q].family = refresh[p].family => IsRevoked(refresh[q])
      /\ access[q] # NoRow /\ access[q].family = refresh[p].family => IsRevoked(access[q])

\* No token, however often it was rotated, has a scope the operator did not tick
\* for the code its family grew from, or one the client's consent does not list.
ScopesTicked ==
  \A p \in Pair : \A row \in {access[p], refresh[p]} \ {NoRow} :
    row.scopes \subseteq issued[row.family].scopes \cap consents[row.consent].scopes

\* verify() accepts a token only under the one consent its client has now: a
\* disconnected client that connects again revives none of its old tokens.
AcceptedIsCurrent ==
  \A p \in Pair : Accepted(p) =>
    {n \in Consent : /\ consents[n] # NoRow
                     /\ consents[n].client = access[p].client
                     /\ ~consents[n].revoked} = {access[p].consent}

\* As long as a family can still be used, a refresh token it has spent is still
\* in the table to be recognised, so that replayed() revokes the family:
\* maintenance never forgets one too early.
ReplaySeen ==
  \A s \in spent :
    (\E p \in Pair : \/ Refreshable(p) /\ refresh[p].family = s[2]
                     \/ Accepted(p) /\ access[p].family = s[2])
      => Spent(s[1])

\* The refresh lifetime is absolute: rotating never moves the end of a family,
\* and no access token outlives it by more than its own lifetime.
FamilyEnds ==
  \A p \in Pair :
    /\ refresh[p] # NoRow => refresh[p].expiresAt = born[refresh[p].family] + RefreshTTL
    /\ access[p] # NoRow => access[p].expiresAt < born[access[p].family] + RefreshTTL + AccessTTL

\* What holds of a family of tokens from its code to its end: one token to
\* rotate, one fate and one end.
FamiliesSound == TypeOK /\ OneLiveRefresh /\ FamilyFallsTogether /\ FamilyEnds

\* What holds of a token that verify() accepts: its consent is the client's
\* own and its scopes are among those ticked.
AccessSound == AcceptedIsCurrent /\ ScopesTicked

\* OAUTH-22: a code that produced a usable token is recognised when it is
\* presented again.
CodeReplaySeen ==
  \A p \in Pair : Accepted(p) => codes[access[p].family] # NoRow

\* issueTokenPair(): "Both rows are written by the caller's transaction."
WholePairs ==
  \A p \in Pair : Accepted(p) /\ access[p].expiresAt = now + AccessTTL => refresh[p] # NoRow
=============================================================================

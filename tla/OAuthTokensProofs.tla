-------------------------- MODULE OAuthTokensProofs --------------------------
(***************************************************************************)
(* For any number of clients, consents, codes, pairs and scopes, and any   *)
(* lifetimes with AccessTTL <= Grace, the rows of OAuthTokens keep what    *)
(* they promise.  The inductive invariant says of every row that the code  *)
(* it grew from was issued with the same client and consent and at least   *)
(* its scopes, and of every spent refresh token that it is still known or  *)
(* that its family can no longer be used.                                  *)
(***************************************************************************)
EXTENDS OAuthTokens, TLAPS

\* The code a token row grew from.
RowBacked(row) ==
  /\ issued[row.family] # NoRow
  /\ issued[row.family].consent = row.consent
  /\ issued[row.family].client = row.client
  /\ row.scopes \subseteq issued[row.family].scopes
  /\ born[row.family] # Never
  /\ codes[row.family] # NoRow => codes[row.family].used

\* The consent a code was issued under.
CodeBacked(k) ==
  issued[k] # NoRow =>
    /\ consents[issued[k].consent] # NoRow
    /\ consents[issued[k].consent].client = issued[k].client
    /\ issued[k].scopes \subseteq consents[issued[k].consent].scopes

CodeKnown(k) ==
  codes[k] # NoRow =>
    /\ issued[k] # NoRow
    /\ codes[k].client = issued[k].client
    /\ codes[k].consent = issued[k].consent
    /\ codes[k].scopes = issued[k].scopes

RefreshKnown(p) ==
  refresh[p] # NoRow =>
    /\ p \in minted
    /\ RowBacked(refresh[p])
    /\ refresh[p].expiresAt = born[refresh[p].family] + RefreshTTL

AccessKnown(p) ==
  access[p] # NoRow =>
    /\ p \in minted
    /\ RowBacked(access[p])
    /\ access[p].expiresAt < born[access[p].family] + RefreshTTL + AccessTTL

\* A family nobody can use any more, and that nothing joins.
Dead(k) ==
  /\ born[k] # Never
  /\ issued[k] # NoRow
  /\ codes[k] # NoRow => codes[k].used
  /\ \A p \in Pair :
       /\ refresh[p] # NoRow /\ refresh[p].family = k => IsRevoked(refresh[p]) \/ Expired(refresh[p])
       /\ access[p] # NoRow /\ access[p].family = k => IsRevoked(access[p]) \/ Expired(access[p])

SpentKnown(q, k) ==
  /\ q \in minted
  /\ \/ Spent(q) /\ refresh[q].family = k
     \/ Dead(k)

OneActive ==
  \A n, m \in Consent :
    ConsentActive(n) /\ ConsentActive(m) /\ consents[n].client = consents[m].client => n = m

Known ==
  /\ \A k \in Code : CodeBacked(k)
  /\ \A k \in Code : CodeKnown(k)
  /\ \A p \in Pair : RefreshKnown(p)
  /\ \A p \in Pair : AccessKnown(p)

IInv ==
  /\ TypeOK
  /\ Known
  /\ OneActive
  /\ OneLiveRefresh
  /\ FamilyFallsTogether
  /\ \A q \in Pair, k \in Code : <<q, k>> \in spent => SpentKnown(q, k)

-----------------------------------------------------------------------------
(* Rows have their columns.                                                *)

LEMMA TokenFields ==
  ASSUME NEW row \in TokenRow
  PROVE  /\ row # NoRow
         /\ row.family \in Code /\ row.client \in Client /\ row.consent \in Consent
         /\ row.scopes \in Granted /\ row.expiresAt \in Nat
         /\ row.revokedAt \in Nat \cup {Never} /\ row.replacedBy \in Pair \cup {Never}
  BY NullAssumption DEF TokenRow

LEMMA CodeFields ==
  ASSUME NEW row \in CodeRow
  PROVE  /\ row # NoRow
         /\ row.client \in Client /\ row.consent \in Consent /\ row.scopes \in Granted
         /\ row.expiresAt \in Nat /\ row.used \in BOOLEAN
  BY NullAssumption DEF CodeRow

LEMMA ConsentFields ==
  ASSUME NEW row \in ConsentRow
  PROVE  /\ row # NoRow
         /\ row.client \in Client /\ row.scopes \in Granted /\ row.revoked \in BOOLEAN
  BY NullAssumption DEF ConsentRow

LEMMA Rows ==
  ASSUME TypeOK
  PROVE  /\ \A p \in Pair : refresh[p] # NoRow => refresh[p] \in TokenRow
         /\ \A p \in Pair : access[p] # NoRow => access[p] \in TokenRow
         /\ \A k \in Code : codes[k] # NoRow => codes[k] \in CodeRow
         /\ \A k \in Code : issued[k] # NoRow => issued[k] \in CodeRow
         /\ \A n \in Consent : consents[n] # NoRow => consents[n] \in ConsentRow
         /\ \A k \in Code : born[k] # Never => born[k] \in Nat
  BY DEF TypeOK

LEMMA NewTokenRow ==
  ASSUME NEW k \in Code, NEW from, from.client \in Client, from.consent \in Consent,
         NEW scopes \in Granted, NEW end \in Nat
  PROVE  /\ NewToken(k, from, scopes, end) \in TokenRow
         /\ NewToken(k, from, scopes, end).family = k
         /\ NewToken(k, from, scopes, end).client = from.client
         /\ NewToken(k, from, scopes, end).consent = from.consent
         /\ NewToken(k, from, scopes, end).scopes = scopes
         /\ NewToken(k, from, scopes, end).expiresAt = end
         /\ NewToken(k, from, scopes, end).revokedAt = Never
         /\ NewToken(k, from, scopes, end).replacedBy = Never
  BY DEF NewToken, TokenRow

\* A stamped row is revoked and otherwise the row it was.
LEMMA StampedRow ==
  ASSUME NEW row \in TokenRow, now \in Nat
  PROVE  /\ Stamped(row) \in TokenRow
         /\ IsRevoked(Stamped(row))
         /\ Stamped(row).family = row.family
         /\ Stamped(row).client = row.client
         /\ Stamped(row).consent = row.consent
         /\ Stamped(row).scopes = row.scopes
         /\ Stamped(row).expiresAt = row.expiresAt
         /\ Stamped(row).replacedBy = row.replacedBy
  BY NullAssumption DEF Stamped, TokenRow, IsRevoked

LEMMA Initially == Init => IInv
  BY DEF Init, IInv, TypeOK, Known, CodeBacked, CodeKnown, RefreshKnown, AccessKnown,
         OneActive, ConsentActive, OneLiveRefresh, LiveRefresh, FamilyFallsTogether

-----------------------------------------------------------------------------
(* Steps that issue nothing: a row that is still there is the row it was,  *)
(* or that row revoked or marked as replaced.                              *)

RowKept(new, old) ==
  new # NoRow =>
    /\ old # NoRow
    /\ new.family = old.family /\ new.client = old.client /\ new.consent = old.consent
    /\ new.scopes = old.scopes /\ new.expiresAt = old.expiresAt
    /\ IsRevoked(old) => IsRevoked(new)
    /\ old.replacedBy # Never => new.replacedBy # Never

\* Nothing is said of a code that was issued and not yet claimed: no row grew
\* from it.
CodeKept(k) ==
  /\ issued[k] # NoRow => issued'[k] = issued[k]
  /\ issued[k] # NoRow /\ (codes[k] # NoRow => codes[k].used) =>
       /\ born'[k] = born[k]
       /\ codes'[k] # NoRow => codes'[k].used

LEMMA SameRow == ASSUME NEW row PROVE RowKept(row, row)
  BY DEF RowKept

LEMMA StampedKept == ASSUME NEW row \in TokenRow, now \in Nat PROVE RowKept(Stamped(row), row)
  <1>1. row # NoRow
    BY TokenFields
  <1> QED
    BY <1>1, StampedRow DEF RowKept

LEMMA BackedKept ==
  ASSUME NEW new, NEW old, old.family \in Code, RowKept(new, old), new # NoRow,
         RowBacked(old), CodeKept(old.family)
  PROVE  RowBacked(new)' /\ born'[new.family] = born[old.family] /\ born[old.family] # Never
  BY DEF RowKept, RowBacked, CodeKept

LEMMA RefreshStaysKnown ==
  ASSUME IInv, \A k \in Code : CodeKept(k), minted \subseteq minted',
         NEW p \in Pair, RowKept(refresh'[p], refresh[p])
  PROVE  RefreshKnown(p)'
  <1> SUFFICES ASSUME refresh'[p] # NoRow
               PROVE  /\ p \in minted'
                      /\ RowBacked(refresh[p])'
                      /\ refresh'[p].expiresAt = born'[refresh'[p].family] + RefreshTTL
    BY DEF RefreshKnown
  <1>1. refresh[p] # NoRow
    BY DEF RowKept
  <1>2. refresh[p].family \in Code
    BY <1>1, Rows, TokenFields DEF IInv
  <1>3. RefreshKnown(p)
    BY DEF IInv, Known
  <1>4. /\ p \in minted /\ RowBacked(refresh[p])
        /\ refresh[p].expiresAt = born[refresh[p].family] + RefreshTTL
    BY <1>1, <1>3 DEF RefreshKnown
  <1>5. CodeKept(refresh[p].family)
    BY <1>2
  <1>6. RowBacked(refresh[p])' /\ born'[refresh'[p].family] = born[refresh[p].family]
    BY <1>2, <1>4, <1>5, BackedKept DEF RowKept, RowBacked, CodeKept
  <1>7. refresh'[p].expiresAt = refresh[p].expiresAt
    BY DEF RowKept
  <1> QED
    BY <1>4, <1>6, <1>7

LEMMA AccessStaysKnown ==
  ASSUME IInv, \A k \in Code : CodeKept(k), minted \subseteq minted',
         NEW p \in Pair, RowKept(access'[p], access[p])
  PROVE  AccessKnown(p)'
  <1> SUFFICES ASSUME access'[p] # NoRow
               PROVE  /\ p \in minted'
                      /\ RowBacked(access[p])'
                      /\ access'[p].expiresAt < born'[access'[p].family] + RefreshTTL + AccessTTL
    BY DEF AccessKnown
  <1>1. access[p] # NoRow
    BY DEF RowKept
  <1>2. access[p].family \in Code
    BY <1>1, Rows, TokenFields DEF IInv
  <1>3. AccessKnown(p)
    BY DEF IInv, Known
  <1>4. /\ p \in minted /\ RowBacked(access[p])
        /\ access[p].expiresAt < born[access[p].family] + RefreshTTL + AccessTTL
    BY <1>1, <1>3 DEF AccessKnown
  <1>5. CodeKept(access[p].family)
    BY <1>2
  <1>6. RowBacked(access[p])' /\ born'[access'[p].family] = born[access[p].family]
    BY <1>2, <1>4, <1>5, BackedKept DEF RowKept, RowBacked, CodeKept
  <1>7. access'[p].expiresAt = access[p].expiresAt
    BY DEF RowKept
  <1> QED
    BY <1>4, <1>6, <1>7

LEMMA LiveStaysLive ==
  ASSUME NEW p \in Pair, NEW k \in Code, RowKept(refresh'[p], refresh[p]), LiveRefresh(p, k)'
  PROVE  LiveRefresh(p, k)
  BY DEF RowKept, LiveRefresh, IsRevoked

LEMMA DeadStaysDead ==
  ASSUME IInv, NEW k \in Code, CodeKept(k), now' \in Nat, now <= now', Dead(k),
         \A p \in Pair : RowKept(refresh'[p], refresh[p]) /\ RowKept(access'[p], access[p])
  PROVE  Dead(k)'
  <1>1. born'[k] # Never /\ issued'[k] # NoRow /\ (codes'[k] # NoRow => codes'[k].used)
    BY DEF CodeKept, Dead
  <1>2. now \in Nat
    BY DEF IInv, TypeOK
  <1>3. ASSUME NEW p \in Pair, refresh'[p] # NoRow, refresh'[p].family = k
        PROVE  IsRevoked(refresh'[p]) \/ Expired(refresh[p])'
    <2>1. refresh[p] # NoRow /\ refresh[p].family = k /\ refresh'[p].expiresAt = refresh[p].expiresAt
      BY <1>3 DEF RowKept
    <2>2. IsRevoked(refresh[p]) \/ Expired(refresh[p])
      BY <2>1 DEF Dead
    <2>3. refresh[p].expiresAt \in Nat
      BY <2>1, Rows, TokenFields DEF IInv
    <2>4. IsRevoked(refresh[p]) => IsRevoked(refresh'[p])
      BY <1>3 DEF RowKept
    <2>5. Expired(refresh[p]) => Expired(refresh[p])'
      BY <1>2, <2>1, <2>3 DEF Expired
    <2> QED
      BY <2>2, <2>4, <2>5
  <1>4. ASSUME NEW p \in Pair, access'[p] # NoRow, access'[p].family = k
        PROVE  IsRevoked(access'[p]) \/ Expired(access[p])'
    <2>1. access[p] # NoRow /\ access[p].family = k /\ access'[p].expiresAt = access[p].expiresAt
      BY <1>4 DEF RowKept
    <2>2. IsRevoked(access[p]) \/ Expired(access[p])
      BY <2>1 DEF Dead
    <2>3. access[p].expiresAt \in Nat
      BY <2>1, Rows, TokenFields DEF IInv
    <2>4. IsRevoked(access[p]) => IsRevoked(access'[p])
      BY <1>4 DEF RowKept
    <2>5. Expired(access[p]) => Expired(access[p])'
      BY <1>2, <2>1, <2>3 DEF Expired
    <2> QED
      BY <2>2, <2>4, <2>5
  <1> QED
    BY <1>1, <1>3, <1>4 DEF Dead, IsRevoked

-----------------------------------------------------------------------------
(* Revocations: whole families, with or without the consent they are under. *)

\* What revokeConsent() and the other handlers do to a consent row.
ConsentKept(n) ==
  consents[n] # NoRow =>
    /\ consents'[n] # NoRow
    /\ consents'[n].client = consents[n].client
    /\ consents[n].scopes \subseteq consents'[n].scopes

LEMMA ConsentsKept ==
  ASSUME IInv, \A n \in Consent : ConsentKept(n), issued' = issued, codes' = codes,
         \A n \in Consent : consents'[n] # NoRow /\ ~consents'[n].revoked => consents'[n] = consents[n]
  PROVE  /\ \A k \in Code : CodeBacked(k)'
         /\ \A k \in Code : CodeKnown(k)'
         /\ OneActive'
  <1>1. ASSUME NEW k \in Code PROVE CodeBacked(k)'
    <2>1. CodeBacked(k)
      BY DEF IInv, Known
    <2>2. issued[k] # NoRow => issued[k].consent \in Consent
      BY Rows, CodeFields DEF IInv
    <2> QED
      BY <2>1, <2>2 DEF CodeBacked, ConsentKept
  <1>2. ASSUME NEW k \in Code PROVE CodeKnown(k)'
    BY DEF IInv, Known, CodeKnown
  <1>3. OneActive'
    BY DEF IInv, OneActive, ConsentActive
  <1> QED
    BY <1>1, <1>2, <1>3

LEMMA RevokeRowKeeps ==
  ASSUME TypeOK, NEW n \in Consent, RevokeRow(n)
  PROVE  /\ consents' \in [Consent -> ConsentRow \cup {NoRow}]
         /\ \A m \in Consent : ConsentKept(m)
         /\ \A m \in Consent : consents'[m] # NoRow /\ ~consents'[m].revoked => consents'[m] = consents[m]
  <1>1. consents \in [Consent -> ConsentRow \cup {NoRow}] /\ consents[n] \in ConsentRow
    BY Rows DEF TypeOK, RevokeRow, ConsentActive
  <1>2. [consents[n] EXCEPT !.revoked = TRUE] \in ConsentRow
    BY <1>1 DEF ConsentRow
  <1>3. /\ [consents[n] EXCEPT !.revoked = TRUE].client = consents[n].client
        /\ [consents[n] EXCEPT !.revoked = TRUE].scopes = consents[n].scopes
        /\ [consents[n] EXCEPT !.revoked = TRUE].revoked = TRUE
    BY <1>1 DEF ConsentRow
  <1>4. consents' = [consents EXCEPT ![n] = [consents[n] EXCEPT !.revoked = TRUE]]
    BY DEF RevokeRow
  <1>5. consents'[n] # NoRow
    BY <1>1, <1>2, <1>4, ConsentFields
  <1> QED
    BY <1>1, <1>2, <1>3, <1>4, <1>5 DEF ConsentKept

\* The tables with every token of the families in S revoked.
FamiliesRevoked(table, S) ==
  [p \in Pair |-> IF table[p] # NoRow /\ table[p].family \in S THEN Stamped(table[p]) ELSE table[p]]

LEMMA FamilyIsFamilies ==
  ASSUME NEW table, NEW k PROVE FamilyRevoked(table, k) = FamiliesRevoked(table, {k})
  BY DEF FamilyRevoked, FamiliesRevoked

\* All rows of a family are under the consent its code was issued under.
UnderConsent(n) == {k \in Code : issued[k] # NoRow /\ issued[k].consent = n}

LEMMA ConsentIsFamilies ==
  ASSUME IInv, NEW n \in Consent
  PROVE  /\ ConsentRevoked(access, n) = FamiliesRevoked(access, UnderConsent(n))
         /\ ConsentRevoked(refresh, n) = FamiliesRevoked(refresh, UnderConsent(n))
  <1>1. ASSUME NEW p \in Pair, access[p] # NoRow
        PROVE  access[p].consent = n <=> access[p].family \in UnderConsent(n)
    BY <1>1, Rows, TokenFields DEF IInv, Known, AccessKnown, RowBacked, UnderConsent
  <1>2. ASSUME NEW p \in Pair, refresh[p] # NoRow
        PROVE  refresh[p].consent = n <=> refresh[p].family \in UnderConsent(n)
    BY <1>2, Rows, TokenFields DEF IInv, Known, RefreshKnown, RowBacked, UnderConsent
  <1> QED
    BY <1>1, <1>2 DEF ConsentRevoked, FamiliesRevoked

LEMMA FamiliesRevokedRows ==
  ASSUME NEW table \in [Pair -> TokenRow \cup {NoRow}], NEW S, now \in Nat, NEW p \in Pair
  PROVE  /\ FamiliesRevoked(table, S) \in [Pair -> TokenRow \cup {NoRow}]
         /\ RowKept(FamiliesRevoked(table, S)[p], table[p])
         /\ table[p] # NoRow /\ table[p].family \in S => IsRevoked(FamiliesRevoked(table, S)[p])
         /\ table[p] # NoRow /\ table[p].family \notin S => FamiliesRevoked(table, S)[p] = table[p]
  <1>1. \A q \in Pair : table[q] # NoRow => table[q] \in TokenRow
    OBVIOUS
  <1>2. \A q \in Pair : table[q] # NoRow => Stamped(table[q]) \in TokenRow
    BY <1>1, StampedRow
  <1>3. FamiliesRevoked(table, S) \in [Pair -> TokenRow \cup {NoRow}]
    BY <1>2 DEF FamiliesRevoked
  <1>4. FamiliesRevoked(table, S)[p] =
          IF table[p] # NoRow /\ table[p].family \in S THEN Stamped(table[p]) ELSE table[p]
    BY DEF FamiliesRevoked
  <1>5. table[p] # NoRow => RowKept(Stamped(table[p]), table[p]) /\ IsRevoked(Stamped(table[p]))
    BY <1>1, StampedKept, StampedRow
  <1> QED
    BY <1>3, <1>4, <1>5, SameRow

\* Families fall whole, so what held of them still does.
LEMMA FamiliesFall ==
  ASSUME IInv, NEW S \in SUBSET Code,
         access' = FamiliesRevoked(access, S), refresh' = FamiliesRevoked(refresh, S),
         UNCHANGED <<now, codes, issued, minted, born, spent>>,
         consents' \in [Consent -> ConsentRow \cup {NoRow}],
         \A n \in Consent : ConsentKept(n),
         \A n \in Consent : consents'[n] # NoRow /\ ~consents'[n].revoked => consents'[n] = consents[n]
  PROVE  IInv'
  <1>1. /\ access \in [Pair -> TokenRow \cup {NoRow}]
        /\ refresh \in [Pair -> TokenRow \cup {NoRow}] /\ now \in Nat
    BY DEF IInv, TypeOK
  <1>2. ASSUME NEW p \in Pair
        PROVE  /\ RowKept(refresh'[p], refresh[p]) /\ RowKept(access'[p], access[p])
               /\ refresh[p] # NoRow /\ refresh[p].family \in S => IsRevoked(refresh'[p])
               /\ access[p] # NoRow /\ access[p].family \in S => IsRevoked(access'[p])
               /\ refresh[p] # NoRow /\ refresh[p].family \notin S => refresh'[p] = refresh[p]
               /\ access[p] # NoRow /\ access[p].family \notin S => access'[p] = access[p]
    BY <1>1, FamiliesRevokedRows
  <1>3. access' \in [Pair -> TokenRow \cup {NoRow}] /\ refresh' \in [Pair -> TokenRow \cup {NoRow}]
    <2>1. CASE Pair = {}
      BY <1>1, <2>1 DEF FamiliesRevoked
    <2>2. CASE Pair # {}
      <3>1. PICK p \in Pair : TRUE
        BY <2>2
      <3> QED
        BY <1>1, <3>1, FamiliesRevokedRows
    <2> QED
      BY <2>1, <2>2
  <1>4. TypeOK'
    BY <1>3 DEF IInv, TypeOK
  <1>5. \A k \in Code : CodeKept(k)
    BY DEF CodeKept
  <1>6. Known'
    BY <1>2, <1>5, RefreshStaysKnown, AccessStaysKnown, ConsentsKept DEF Known
  <1>7. OneActive'
    BY ConsentsKept
  <1>8. OneLiveRefresh'
    BY <1>2, LiveStaysLive DEF IInv, OneLiveRefresh
  <1>9. FamilyFallsTogether'
    <2> SUFFICES ASSUME NEW p \in Pair, NEW q \in Pair, refresh'[p] # NoRow, IsRevoked(refresh'[p])
                 PROVE  /\ refresh'[q] # NoRow /\ refresh'[q].family = refresh'[p].family => IsRevoked(refresh'[q])
                        /\ access'[q] # NoRow /\ access'[q].family = refresh'[p].family => IsRevoked(access'[q])
      BY DEF FamilyFallsTogether, IsRevoked
    <2>1. refresh[p] # NoRow /\ refresh'[p].family = refresh[p].family
      BY <1>2 DEF RowKept
    <2>2. /\ refresh'[q] # NoRow => refresh[q] # NoRow /\ refresh'[q].family = refresh[q].family
          /\ access'[q] # NoRow => access[q] # NoRow /\ access'[q].family = access[q].family
      BY <1>2 DEF RowKept
    <2>3. CASE refresh[p].family \in S
      BY <1>2, <2>1, <2>2, <2>3
    <2>4. CASE refresh[p].family \notin S
      <3>1. refresh'[p] = refresh[p]
        BY <1>2, <2>1, <2>4
      <3>2. /\ refresh[q] # NoRow /\ refresh[q].family = refresh[p].family => IsRevoked(refresh[q])
            /\ access[q] # NoRow /\ access[q].family = refresh[p].family => IsRevoked(access[q])
        BY <2>1, <3>1 DEF IInv, FamilyFallsTogether
      <3> QED
        BY <1>2, <2>1, <2>2, <2>4, <3>2
    <2> QED
      BY <2>3, <2>4
  <1>10. ASSUME NEW q \in Pair, NEW k \in Code, <<q, k>> \in spent' PROVE SpentKnown(q, k)'
    <2>1. SpentKnown(q, k)
      BY <1>10 DEF IInv
    <2>2. CASE Dead(k)
      BY <1>1, <1>2, <1>5, <2>1, <2>2, DeadStaysDead DEF SpentKnown
    <2>3. CASE Spent(q) /\ refresh[q].family = k /\ k \notin S
      <3>1. refresh'[q] = refresh[q]
        BY <1>2, <2>3 DEF Spent
      <3> QED
        BY <2>1, <2>3, <3>1 DEF SpentKnown, Spent, IsRevoked
    <2>4. CASE Spent(q) /\ refresh[q].family = k /\ k \in S
      <3>1. RowBacked(refresh[q])
        BY <2>4 DEF IInv, Known, RefreshKnown, Spent
      <3>2. born'[k] # Never /\ issued'[k] # NoRow /\ (codes'[k] # NoRow => codes'[k].used)
        BY <2>4, <3>1 DEF RowBacked
      <3>3. \A p \in Pair :
              /\ refresh'[p] # NoRow /\ refresh'[p].family = k => IsRevoked(refresh'[p])
              /\ access'[p] # NoRow /\ access'[p].family = k => IsRevoked(access'[p])
        BY <1>2, <2>4 DEF RowKept
      <3>4. Dead(k)'
        BY <3>2, <3>3 DEF Dead, IsRevoked
      <3> QED
        BY <2>1, <3>4 DEF SpentKnown
    <2> QED
      BY <2>1, <2>2, <2>3, <2>4 DEF SpentKnown
  <1> QED
    BY <1>4, <1>6, <1>7, <1>8, <1>9, <1>10 DEF IInv

LEMMA FamilyFalls ==
  ASSUME IInv, NEW k \in Code, RevokeFamily(k),
         UNCHANGED <<now, consents, codes, issued, minted, born, spent>>
  PROVE  IInv'
  <1>1. /\ access' = FamiliesRevoked(access, {k})
        /\ refresh' = FamiliesRevoked(refresh, {k})
    BY FamilyIsFamilies DEF RevokeFamily
  <1>2. \A n \in Consent : ConsentKept(n)
    BY DEF ConsentKept
  <1>3. consents' \in [Consent -> ConsentRow \cup {NoRow}]
    BY DEF IInv, TypeOK
  <1> QED
    BY <1>1, <1>2, <1>3, FamiliesFall

LEMMA ReuseCodeKeeps == ASSUME IInv, NEW k \in Code, ReuseCode(k) PROVE IInv'
  BY FamilyFalls DEF ReuseCode, history

LEMMA ReplayKeeps == ASSUME IInv, NEW q \in Pair, Replay(q) PROVE IInv'
  <1>1. refresh[q].family \in Code
    BY Rows, TokenFields DEF IInv, Replay, Spent
  <1> QED
    BY <1>1, FamilyFalls DEF Replay, history

LEMMA RevokeRefreshKeeps == ASSUME IInv, NEW p \in Pair, RevokeRefresh(p) PROVE IInv'
  <1>1. refresh[p].family \in Code
    BY Rows, TokenFields DEF IInv, RevokeRefresh
  <1> QED
    BY <1>1, FamilyFalls DEF RevokeRefresh, history

LEMMA NoFamilyRevoked ==
  ASSUME NEW table \in [Pair -> TokenRow \cup {NoRow}]
  PROVE  FamiliesRevoked(table, {}) = table
  BY DEF FamiliesRevoked

LEMMA DisconnectKeeps ==
  ASSUME IInv, NEW n \in Consent, Disconnect(n) \/ DisconnectInterrupted(n)
  PROVE  IInv'
  <1>1. /\ RevokeRow(n) /\ UNCHANGED <<now, codes, issued, minted, born, spent>>
        /\ RevokeTokens(n) \/ UNCHANGED <<access, refresh>>
    BY DEF Disconnect, DisconnectInterrupted, history
  <1>2. TypeOK
    BY DEF IInv
  <1>3. /\ consents' \in [Consent -> ConsentRow \cup {NoRow}]
        /\ \A m \in Consent : ConsentKept(m)
        /\ \A m \in Consent : consents'[m] # NoRow /\ ~consents'[m].revoked => consents'[m] = consents[m]
    BY <1>1, <1>2, RevokeRowKeeps
  <1>4. CASE RevokeTokens(n)
    <2>1. /\ access' = FamiliesRevoked(access, UnderConsent(n))
          /\ refresh' = FamiliesRevoked(refresh, UnderConsent(n))
      BY <1>4, ConsentIsFamilies DEF RevokeTokens
    <2>2. UnderConsent(n) \in SUBSET Code
      BY DEF UnderConsent
    <2> QED
      BY <1>1, <1>3, <2>1, <2>2, FamiliesFall
  <1>5. CASE UNCHANGED <<access, refresh>>
    <2>1. access' = FamiliesRevoked(access, {}) /\ refresh' = FamiliesRevoked(refresh, {})
      BY <1>2, <1>5, NoFamilyRevoked DEF TypeOK
    <2>2. {} \in SUBSET Code
      OBVIOUS
    <2> QED
      BY <1>1, <1>3, <2>1, <2>2, FamiliesFall
  <1> QED
    BY <1>1, <1>4, <1>5

-----------------------------------------------------------------------------
(* Steps that leave the refresh tokens alone.                              *)

LEMMA RefreshUntouched ==
  ASSUME IInv, TypeOK', refresh' = refresh, minted' = minted, spent' = spent, now <= now',
         \A k \in Code : CodeKept(k), \A p \in Pair : RowKept(access'[p], access[p]),
         \A k \in Code : CodeBacked(k)', \A k \in Code : CodeKnown(k)', OneActive'
  PROVE  IInv'
  <1>1. now' \in Nat
    BY DEF TypeOK
  <1>2. ASSUME NEW p \in Pair PROVE RowKept(refresh'[p], refresh[p]) /\ RowKept(access'[p], access[p])
    BY SameRow
  <1>3. Known'
    BY <1>2, RefreshStaysKnown, AccessStaysKnown DEF Known
  <1>4. OneLiveRefresh'
    BY <1>2, LiveStaysLive DEF IInv, OneLiveRefresh
  <1>5. FamilyFallsTogether'
    BY <1>2 DEF IInv, FamilyFallsTogether, RowKept, IsRevoked
  <1>6. ASSUME NEW q \in Pair, NEW k \in Code, <<q, k>> \in spent' PROVE SpentKnown(q, k)'
    <2>1. SpentKnown(q, k)
      BY <1>6 DEF IInv
    <2>2. CASE Dead(k)
      <3>1. Dead(k)'
        BY <1>1, <1>2, <2>2, DeadStaysDead
      <3> QED
        BY <2>1, <3>1 DEF SpentKnown
    <2>3. CASE Spent(q) /\ refresh[q].family = k
      BY <2>1, <2>3 DEF SpentKnown, Spent, IsRevoked
    <2> QED
      BY <2>1, <2>2, <2>3 DEF SpentKnown
  <1> QED
    BY <1>3, <1>4, <1>5, <1>6 DEF IInv

LEMMA ConsentsUntouched ==
  ASSUME IInv, UNCHANGED <<consents, issued>>
  PROVE  (\A k \in Code : CodeBacked(k)') /\ OneActive'
  BY DEF IInv, Known, CodeBacked, OneActive, ConsentActive

LEMMA RevokeAccessKeeps == ASSUME IInv, NEW p \in Pair, RevokeAccess(p) PROVE IInv'
  <1>1. /\ access' = [access EXCEPT ![p] = Stamped(access[p])]
        /\ UNCHANGED <<now, consents, codes, refresh, issued, minted, born, spent>>
    BY DEF RevokeAccess, history
  <1>2. now \in Nat /\ access \in [Pair -> TokenRow \cup {NoRow}] /\ access[p] \in TokenRow
    BY Rows DEF IInv, TypeOK, RevokeAccess
  <1>3. Stamped(access[p]) \in TokenRow /\ RowKept(Stamped(access[p]), access[p])
    BY <1>2, StampedRow, StampedKept
  <1>4. TypeOK'
    BY <1>1, <1>2, <1>3 DEF IInv, TypeOK
  <1>5. \A q \in Pair : RowKept(access'[q], access[q])
    BY <1>1, <1>2, <1>3, SameRow
  <1>6. \A k \in Code : CodeKept(k)
    BY <1>1 DEF CodeKept
  <1>7. \A k \in Code : CodeKnown(k)'
    BY <1>1 DEF IInv, Known, CodeKnown
  <1> QED
    BY <1>1, <1>2, <1>4, <1>5, <1>6, <1>7, ConsentsUntouched, RefreshUntouched

LEMMA TickKeeps == ASSUME IInv, Tick PROVE IInv'
  <1>1. now' = now + 1 /\ UNCHANGED <<consents, codes, access, refresh, issued, minted, born, spent>>
    BY DEF Tick, tables, history
  <1>2. now \in Nat /\ now' \in Nat /\ now <= now'
    BY <1>1 DEF IInv, TypeOK
  <1>3. TypeOK'
    BY <1>1, <1>2 DEF IInv, TypeOK
  <1>4. \A q \in Pair : RowKept(access'[q], access[q])
    BY <1>1, SameRow
  <1>5. \A k \in Code : CodeKept(k)
    BY <1>1 DEF CodeKept
  <1>6. \A k \in Code : CodeKnown(k)'
    BY <1>1 DEF IInv, Known, CodeKnown
  <1> QED
    BY <1>1, <1>2, <1>3, <1>4, <1>5, <1>6, ConsentsUntouched, RefreshUntouched

\* Claiming a code changes one column of one row.
LEMMA ClaimedCode ==
  ASSUME IInv, NEW k \in Code, Claim(k), issued' = issued
  PROVE  /\ codes' \in [Code -> CodeRow \cup {NoRow}]
         /\ codes[k] \in CodeRow /\ ~codes[k].used /\ issued[k] # NoRow
         /\ codes'[k] # NoRow /\ codes'[k].used
         /\ \A m \in Code : m # k => codes'[m] = codes[m]
         /\ \A m \in Code : CodeKnown(m)'
  <1>1. /\ codes' = [codes EXCEPT ![k] = [codes[k] EXCEPT !.used = TRUE]]
        /\ codes[k] # NoRow /\ ~codes[k].used
    BY DEF Claim
  <1>2. codes \in [Code -> CodeRow \cup {NoRow}] /\ codes[k] \in CodeRow
    BY <1>1, Rows DEF IInv, TypeOK
  <1>3. /\ [codes[k] EXCEPT !.used = TRUE] \in CodeRow
        /\ [codes[k] EXCEPT !.used = TRUE].used
        /\ [codes[k] EXCEPT !.used = TRUE].client = codes[k].client
        /\ [codes[k] EXCEPT !.used = TRUE].consent = codes[k].consent
        /\ [codes[k] EXCEPT !.used = TRUE].scopes = codes[k].scopes
    BY <1>2 DEF CodeRow
  <1>4. codes'[k] = [codes[k] EXCEPT !.used = TRUE] /\ \A m \in Code : m # k => codes'[m] = codes[m]
    BY <1>1, <1>2
  <1>5. codes'[k] # NoRow
    BY <1>3, <1>4, CodeFields
  <1>6. codes' \in [Code -> CodeRow \cup {NoRow}]
    BY <1>1, <1>2, <1>3
  <1>7. CodeKnown(k)
    BY DEF IInv, Known
  <1>8. CodeKnown(k)'
    BY <1>1, <1>3, <1>4, <1>7 DEF CodeKnown
  <1>9. \A m \in Code : m # k => CodeKnown(m)'
    BY <1>4 DEF IInv, Known, CodeKnown
  <1> QED
    BY <1>1, <1>2, <1>3, <1>4, <1>5, <1>6, <1>7, <1>8, <1>9 DEF CodeKnown

LEMMA RedeemRefusedKeeps ==
  ASSUME IInv, NEW k \in Code, NEW c \in Client, NEW matches \in BOOLEAN, RedeemRefused(k, c, matches)
  PROVE  IInv'
  <1>1. Claim(k) /\ UNCHANGED <<now, consents, access, refresh, issued, minted, born, spent>>
    BY DEF RedeemRefused, history
  <1>2. now \in Nat
    BY DEF IInv, TypeOK
  <1>3. TypeOK'
    BY <1>1, ClaimedCode DEF IInv, TypeOK
  <1>4. \A q \in Pair : RowKept(access'[q], access[q])
    BY <1>1, SameRow
  <1>5. \A m \in Code : CodeKept(m)
    BY <1>1, ClaimedCode DEF CodeKept
  <1>6. \A m \in Code : CodeKnown(m)'
    BY <1>1, ClaimedCode
  <1> QED
    BY <1>1, <1>2, <1>3, <1>4, <1>5, <1>6, ConsentsUntouched, RefreshUntouched

LEMMA ConsentForClient ==
  ASSUME NEW c \in Client, NEW n \in ConsentsFor(c)
  PROVE  /\ n \in Consent
         /\ \/ consents[n] = NoRow /\ ActiveConsents(c) = {}
            \/ ConsentActive(n) /\ consents[n].client = c
  <1>1. CASE ActiveConsents(c) = {}
    <2>1. n \in {m \in Consent : consents[m] = NoRow}
      BY <1>1 DEF ConsentsFor
    <2> QED
      BY <1>1, <2>1
  <1>2. CASE ActiveConsents(c) # {}
    <2>1. n \in ActiveConsents(c)
      BY <1>2 DEF ConsentsFor
    <2> QED
      BY <2>1 DEF ActiveConsents
  <1> QED
    BY <1>1, <1>2

LEMMA ApproveKeeps ==
  ASSUME IInv, NEW c \in Client, NEW scopes \in SUBSET Scope, Approve(c, scopes)
  PROVE  IInv'
  <1>1. scopes \in Granted /\ UNCHANGED <<now, access, refresh, minted, born, spent>>
    <2>1. scopes # {} /\ UNCHANGED <<now, access, refresh, minted, born, spent>>
      BY DEF Approve
    <2> QED
      BY <2>1 DEF Granted
  <1>2. PICK k \in FreshCodes,
             n \in ConsentsFor(c) :
          /\ consents' = [consents EXCEPT ![n] =
               IF consents[n] = NoRow
                 THEN [client |-> c, scopes |-> scopes, revoked |-> FALSE]
                 ELSE [consents[n] EXCEPT !.scopes = @ \cup scopes]]
          /\ codes' = [codes EXCEPT ![k] =
               [client |-> c, consent |-> n, scopes |-> scopes,
                expiresAt |-> now + CodeTTL, used |-> FALSE]]
          /\ issued' = [issued EXCEPT ![k] =
               [client |-> c, consent |-> n, scopes |-> scopes,
                expiresAt |-> now + CodeTTL, used |-> FALSE]]
    BY DEF Approve
  <1>3. k \in Code /\ issued[k] = NoRow /\ n \in Consent
    BY <1>2, ConsentForClient DEF FreshCodes
  <1>4. \/ consents[n] = NoRow /\ ActiveConsents(c) = {}
        \/ ConsentActive(n) /\ consents[n].client = c
    BY <1>2, ConsentForClient
  <1>5. now \in Nat /\ now + CodeTTL \in Nat
    BY TimesAssumption DEF IInv, TypeOK
  <1> DEFINE code == [client |-> c, consent |-> n, scopes |-> scopes,
                      expiresAt |-> now + CodeTTL, used |-> FALSE]
             consent == IF consents[n] = NoRow
                          THEN [client |-> c, scopes |-> scopes, revoked |-> FALSE]
                          ELSE [consents[n] EXCEPT !.scopes = @ \cup scopes]
  <1>6. code \in CodeRow /\ code.client = c /\ code.consent = n /\ code.scopes = scopes
    BY <1>1, <1>3, <1>5 DEF CodeRow
  <1>7. /\ consent \in ConsentRow /\ consent.client = c /\ ~consent.revoked
        /\ scopes \subseteq consent.scopes
        /\ consents[n] # NoRow => consents[n].scopes \subseteq consent.scopes
    <2>1. CASE consents[n] = NoRow
      BY <1>1, <2>1 DEF ConsentRow
    <2>2. CASE consents[n] # NoRow
      <3>1. consents[n] \in ConsentRow
        BY <1>3, <2>2, Rows DEF IInv
      <3>2. consents[n].scopes \cup scopes \in Granted
        BY <1>1, <3>1 DEF ConsentRow, Granted
      <3>3. ~consents[n].revoked /\ consents[n].client = c
        BY <1>4, <2>2 DEF ConsentActive
      <3> QED
        BY <2>2, <3>1, <3>2, <3>3 DEF ConsentRow
    <2> QED
      BY <2>1, <2>2
  <1>8. /\ codes \in [Code -> CodeRow \cup {NoRow}] /\ issued \in [Code -> CodeRow \cup {NoRow}]
        /\ consents \in [Consent -> ConsentRow \cup {NoRow}]
    BY DEF IInv, TypeOK
  <1> HIDE DEF code, consent
  <1>9. /\ codes' \in [Code -> CodeRow \cup {NoRow}] /\ issued' \in [Code -> CodeRow \cup {NoRow}]
        /\ codes'[k] = code /\ issued'[k] = code
        /\ \A m \in Code : m # k => codes'[m] = codes[m] /\ issued'[m] = issued[m]
    <2>1. codes' = [codes EXCEPT ![k] = code] /\ issued' = [issued EXCEPT ![k] = code]
      BY <1>2 DEF code
    <2> QED
      BY <1>3, <1>6, <1>8, <2>1
  <1>10. /\ consents' \in [Consent -> ConsentRow \cup {NoRow}] /\ consents'[n] = consent
         /\ \A m \in Consent : m # n => consents'[m] = consents[m]
    <2>1. consents' = [consents EXCEPT ![n] = consent]
      BY <1>2 DEF consent
    <2> QED
      BY <1>3, <1>7, <1>8, <2>1
  <1>11. consent # NoRow /\ code # NoRow
    BY <1>6, <1>7, CodeFields, ConsentFields
  <1>12. TypeOK'
    BY <1>1, <1>9, <1>10 DEF IInv, TypeOK
  <1>13. ASSUME NEW m \in Code PROVE CodeKept(m)
    BY <1>1, <1>3, <1>9 DEF CodeKept
  <1>14. ASSUME NEW m \in Code PROVE CodeBacked(m)'
    <2>1. CASE m = k
      BY <1>6, <1>7, <1>9, <1>10, <1>11, <2>1 DEF CodeBacked
    <2>2. CASE m # k
      <3>1. CodeBacked(m) /\ issued'[m] = issued[m]
        BY <1>9, <2>2 DEF IInv, Known
      <3>2. issued[m] # NoRow => issued[m].consent \in Consent
        BY Rows, CodeFields DEF IInv
      <3>3. consents[n] # NoRow => consents[n].client = c
        BY <1>4
      <3> QED
        BY <1>7, <1>10, <1>11, <3>1, <3>2, <3>3 DEF CodeBacked
    <2> QED
      BY <2>1, <2>2
  <1>15. ASSUME NEW m \in Code PROVE CodeKnown(m)'
    <2>1. CodeKnown(m)
      BY DEF IInv, Known
    <2> QED
      BY <1>9, <1>11, <2>1 DEF CodeKnown
  <1>16. OneActive'
    <2> SUFFICES ASSUME NEW x \in Consent, NEW y \in Consent, ConsentActive(x)', ConsentActive(y)',
                        consents'[x].client = consents'[y].client
                 PROVE  x = y
      BY DEF OneActive
    <2>1. \A m \in Consent : m # n /\ ConsentActive(m)' => ConsentActive(m) /\ consents'[m] = consents[m]
      BY <1>10 DEF ConsentActive
    <2>2. \A m \in Consent : m # n /\ ConsentActive(m) => consents[m].client # c
      BY <1>3, <1>4 DEF IInv, OneActive, ActiveConsents
    <2> QED
      BY <1>7, <1>10, <2>1, <2>2 DEF IInv, OneActive
  <1>17. \A p \in Pair : RowKept(access'[p], access[p])
    BY <1>1, SameRow
  <1> QED
    BY <1>1, <1>5, <1>12, <1>13, <1>14, <1>15, <1>16, <1>17, RefreshUntouched

-----------------------------------------------------------------------------
(* Maintenance forgets nothing that is still needed.                       *)

LEMMA Sums ==
  ASSUME NEW b \in Nat, NEW e \in Nat, e < b + RefreshTTL + AccessTTL, now \in Nat,
         b + RefreshTTL + Grace <= now
  PROVE  e <= now /\ b + RefreshTTL <= now
  BY TimesAssumption

LEMMA MaintainKeeps == ASSUME IInv, Maintain PROVE IInv'
  <1>1. /\ codes' = [k \in Code |-> IF codes[k] # NoRow /\ Expired(codes[k]) THEN NoRow ELSE codes[k]]
        /\ access' = [p \in Pair |-> IF Retired(access[p]) THEN NoRow ELSE access[p]]
        /\ refresh' = [p \in Pair |-> IF Retired(refresh[p]) THEN NoRow ELSE refresh[p]]
        /\ UNCHANGED <<now, consents, issued, minted, born, spent>>
    BY DEF Maintain, history
  <1>2. /\ now \in Nat /\ codes \in [Code -> CodeRow \cup {NoRow}]
        /\ access \in [Pair -> TokenRow \cup {NoRow}] /\ refresh \in [Pair -> TokenRow \cup {NoRow}]
    BY DEF IInv, TypeOK
  <1>3. TypeOK'
    <2>1. codes' \in [Code -> CodeRow \cup {NoRow}]
      BY <1>1, <1>2
    <2>2. access' \in [Pair -> TokenRow \cup {NoRow}] /\ refresh' \in [Pair -> TokenRow \cup {NoRow}]
      BY <1>1, <1>2
    <2> QED
      BY <1>1, <2>1, <2>2 DEF IInv, TypeOK
  <1>4. ASSUME NEW k \in Code PROVE CodeKept(k) /\ CodeKnown(k)'
    <2>1. codes'[k] # NoRow => codes'[k] = codes[k]
      BY <1>1
    <2>2. CodeKnown(k)
      BY DEF IInv, Known
    <2> QED
      BY <1>1, <2>1, <2>2 DEF CodeKept, CodeKnown
  <1>5. ASSUME NEW p \in Pair
        PROVE  /\ refresh'[p] # NoRow => refresh'[p] = refresh[p]
               /\ access'[p] # NoRow => access'[p] = access[p]
               /\ RowKept(refresh'[p], refresh[p]) /\ RowKept(access'[p], access[p])
               /\ refresh'[p] = refresh[p] \/ Retired(refresh[p])
    BY <1>1 DEF RowKept
  <1>6. Known' /\ OneActive'
    BY <1>1, <1>4, <1>5, ConsentsUntouched, RefreshStaysKnown, AccessStaysKnown DEF Known
  <1>7. OneLiveRefresh'
    BY <1>5, LiveStaysLive DEF IInv, OneLiveRefresh
  <1>8. FamilyFallsTogether'
    BY <1>5 DEF IInv, FamilyFallsTogether, IsRevoked
  <1>9. ASSUME NEW q \in Pair, NEW k \in Code, <<q, k>> \in spent' PROVE SpentKnown(q, k)'
    <2>1. SpentKnown(q, k) /\ q \in minted'
      BY <1>1, <1>9 DEF IInv, SpentKnown
    <2>2. CASE Dead(k)
      BY <1>1, <1>2, <1>4, <1>5, <2>1, <2>2, DeadStaysDead DEF SpentKnown
    <2>3. CASE Spent(q) /\ refresh[q].family = k /\ refresh'[q] = refresh[q]
      BY <2>1, <2>3 DEF SpentKnown, Spent, IsRevoked
    <2>4. CASE Spent(q) /\ refresh[q].family = k /\ Retired(refresh[q])
      <3>1. refresh[q] # NoRow /\ ~IsRevoked(refresh[q])
        BY <2>4 DEF Spent
      <3>2. refresh[q].expiresAt + Grace <= now
        BY <2>4, <3>1 DEF Retired
      <3>3. RefreshKnown(q)
        BY DEF IInv, Known
      <3>4. /\ born[k] # Never /\ issued[k] # NoRow /\ (codes[k] # NoRow => codes[k].used)
            /\ refresh[q].expiresAt = born[k] + RefreshTTL
        BY <2>4, <3>1, <3>3 DEF RefreshKnown, RowBacked
      <3>5. born[k] \in Nat
        BY <3>4, Rows DEF IInv
      <3>6. ASSUME NEW p \in Pair, refresh[p] # NoRow, refresh[p].family = k PROVE Expired(refresh[p])
        <4>1. RefreshKnown(p)
          BY DEF IInv, Known
        <4>2. refresh[p].expiresAt = refresh[q].expiresAt
          BY <3>4, <3>6, <4>1 DEF RefreshKnown
        <4>3. refresh[q].expiresAt \in Nat
          BY <3>1, Rows, TokenFields DEF IInv
        <4>4. refresh[q].expiresAt <= now
          BY <1>2, <3>2, <4>3, TimesAssumption
        <4> QED
          BY <4>2, <4>4 DEF Expired
      <3>7. ASSUME NEW p \in Pair, access[p] # NoRow, access[p].family = k PROVE Expired(access[p])
        <4>1. AccessKnown(p)
          BY DEF IInv, Known
        <4>2. access[p].expiresAt < born[k] + RefreshTTL + AccessTTL
          BY <3>7, <4>1 DEF AccessKnown
        <4>3. access[p].expiresAt \in Nat
          BY <3>7, Rows, TokenFields DEF IInv
        <4>4. born[k] + RefreshTTL + Grace <= now
          BY <3>2, <3>4
        <4>5. access[p].expiresAt <= now
          BY <1>2, <3>5, <4>2, <4>3, <4>4, Sums
        <4> QED
          BY <4>5 DEF Expired
      <3>8. Dead(k)
        BY <3>4, <3>6, <3>7 DEF Dead
      <3> QED
        BY <2>2, <3>8
    <2> QED
      BY <1>5, <2>1, <2>2, <2>3, <2>4 DEF SpentKnown
  <1> QED
    BY <1>3, <1>6, <1>7, <1>8, <1>9 DEF IInv

-----------------------------------------------------------------------------
(* Redemption starts a family.                                             *)

LEMMA NothingGrewYet ==
  ASSUME IInv, NEW k \in Code, Claim(k)
  PROVE  /\ \A p \in Pair : /\ refresh[p] # NoRow => refresh[p].family # k
                            /\ access[p] # NoRow => access[p].family # k
         /\ \A q \in Pair : <<q, k>> \notin spent
         /\ ~Dead(k)
  <1>1. codes[k] # NoRow /\ ~codes[k].used
    BY DEF Claim
  <1>2. \A p \in Pair : /\ refresh[p] # NoRow => refresh[p].family # k
                        /\ access[p] # NoRow => access[p].family # k
    BY <1>1 DEF IInv, Known, RefreshKnown, AccessKnown, RowBacked
  <1>3. ~Dead(k)
    BY <1>1 DEF Dead
  <1>4. \A q \in Pair : <<q, k>> \notin spent
    BY <1>2, <1>3 DEF IInv, SpentKnown, Spent
  <1> QED
    BY <1>2, <1>3, <1>4

\* Both ways a redemption issues something: with the refresh row, or cut short.
LEMMA FamilyStarts ==
  ASSUME IInv, NEW k \in Code, Claim(k), NEW p \in FreshPairs,
         InsertAccess(p, k, codes[k], codes[k].scopes),
         \/ refresh' = [refresh EXCEPT ![p] = NewToken(k, codes[k], codes[k].scopes, now + RefreshTTL)]
         \/ refresh' = refresh,
         born' = [born EXCEPT ![k] = now], UNCHANGED <<now, consents, issued, spent>>
  PROVE  IInv'
  <1> DEFINE a == NewToken(k, codes[k], codes[k].scopes, now + AccessTTL)
             r == NewToken(k, codes[k], codes[k].scopes, now + RefreshTTL)
  <1>1. p \in Pair /\ p \notin minted /\ minted' = minted \cup {p} /\ access' = [access EXCEPT ![p] = a]
    BY DEF FreshPairs, InsertAccess
  <1>2. /\ now \in Nat /\ now + AccessTTL \in Nat /\ now + RefreshTTL \in Nat
        /\ access \in [Pair -> TokenRow \cup {NoRow}] /\ refresh \in [Pair -> TokenRow \cup {NoRow}]
        /\ born \in [Code -> Nat \cup {Never}]
    BY TimesAssumption DEF IInv, TypeOK
  <1>3. /\ codes' \in [Code -> CodeRow \cup {NoRow}] /\ codes[k] \in CodeRow /\ codes'[k].used
        /\ issued[k] # NoRow /\ \A m \in Code : m # k => codes'[m] = codes[m]
        /\ \A m \in Code : CodeKnown(m)'
    BY ClaimedCode
  <1>4. /\ issued[k].client = codes[k].client /\ issued[k].consent = codes[k].consent
        /\ issued[k].scopes = codes[k].scopes
    BY <1>3, CodeFields DEF IInv, Known, CodeKnown
  <1>5. codes[k].client \in Client /\ codes[k].consent \in Consent /\ codes[k].scopes \in Granted
    BY <1>3, CodeFields
  <1>6. /\ a \in TokenRow /\ a.family = k /\ a.client = codes[k].client /\ a.consent = codes[k].consent
        /\ a.scopes = codes[k].scopes /\ a.expiresAt = now + AccessTTL /\ a.revokedAt = Never
        /\ r \in TokenRow /\ r.family = k /\ r.client = codes[k].client /\ r.consent = codes[k].consent
        /\ r.scopes = codes[k].scopes /\ r.expiresAt = now + RefreshTTL /\ r.revokedAt = Never
    BY <1>2, <1>5, NewTokenRow
  <1>7. refresh' = [refresh EXCEPT ![p] = r] \/ refresh' = refresh
    OBVIOUS
  <1> HIDE DEF a, r
  <1>8. /\ access'[p] = a /\ \A x \in Pair : x # p => access'[x] = access[x]
        /\ refresh'[p] = r \/ refresh'[p] = refresh[p]
        /\ \A x \in Pair : x # p => refresh'[x] = refresh[x]
        /\ access' \in [Pair -> TokenRow \cup {NoRow}] /\ refresh' \in [Pair -> TokenRow \cup {NoRow}]
    BY <1>1, <1>2, <1>6, <1>7
  <1>9. refresh[p] = NoRow /\ access[p] = NoRow
    BY <1>1 DEF IInv, Known, RefreshKnown, AccessKnown
  <1>10. born'[k] = now /\ born' \in [Code -> Nat \cup {Never}] /\ \A m \in Code : m # k => born'[m] = born[m]
    BY <1>2
  <1>11. now # Never
    BY <1>2, NullAssumption
  <1>12. TypeOK'
    BY <1>1, <1>3, <1>8, <1>10 DEF IInv, TypeOK
  <1>13. ASSUME NEW m \in Code PROVE CodeKept(m)
    BY <1>3, <1>10 DEF CodeKept, Claim
  <1>14. ASSUME NEW x \in Pair, x # p
         PROVE  RowKept(refresh'[x], refresh[x]) /\ RowKept(access'[x], access[x])
    BY <1>8, <1>14, SameRow
  <1>15. RowBacked(access[p])' /\ (refresh'[p] # NoRow => RowBacked(refresh[p])')
    <2>1. issued' = issued /\ codes[k].scopes \subseteq issued[k].scopes
      BY <1>4
    <2>2. RowBacked(access[p])'
      BY <1>3, <1>4, <1>6, <1>8, <1>10, <1>11, <2>1 DEF RowBacked
    <2>3. CASE refresh'[p] = r
      BY <1>3, <1>4, <1>6, <1>10, <1>11, <2>1, <2>2, <2>3 DEF RowBacked
    <2> QED
      BY <1>8, <1>9, <2>2, <2>3
  <1>16. a.expiresAt < now + RefreshTTL + AccessTTL
    BY <1>2, <1>6, TimesAssumption
  <1>17. AccessKnown(p)' /\ RefreshKnown(p)'
    <2>1. AccessKnown(p)'
      BY <1>1, <1>6, <1>8, <1>10, <1>15, <1>16 DEF AccessKnown
    <2>2. RefreshKnown(p)'
      BY <1>1, <1>6, <1>8, <1>9, <1>10, <1>15 DEF RefreshKnown
    <2> QED
      BY <2>1, <2>2
  <1>18. Known' /\ OneActive'
    <2>1. \A x \in Pair : RefreshKnown(x)' /\ AccessKnown(x)'
      BY <1>1, <1>13, <1>14, <1>17, RefreshStaysKnown, AccessStaysKnown
    <2> QED
      BY <1>3, <2>1, ConsentsUntouched DEF Known
  <1>19. \A x \in Pair : x # p => /\ refresh'[x] # NoRow => refresh'[x].family # k
                                  /\ access'[x] # NoRow => access'[x].family # k
    BY <1>8, NothingGrewYet
  <1>20. refresh'[p] # NoRow => refresh'[p].family = k /\ refresh'[p].revokedAt = Never
    BY <1>6, <1>8, <1>9
  <1>21. OneLiveRefresh'
    BY <1>8, <1>19, <1>20 DEF IInv, OneLiveRefresh, LiveRefresh, IsRevoked
  <1>22. FamilyFallsTogether'
    BY <1>6, <1>8, <1>19, <1>20 DEF IInv, FamilyFallsTogether, IsRevoked
  <1>23. ASSUME NEW q \in Pair, NEW m \in Code, <<q, m>> \in spent' PROVE SpentKnown(q, m)'
    <2>1. SpentKnown(q, m) /\ m # k
      BY <1>23, NothingGrewYet DEF IInv
    <2>2. q # p /\ q \in minted'
      BY <1>1, <2>1 DEF SpentKnown
    <2>3. CASE Spent(q) /\ refresh[q].family = m
      BY <1>8, <2>2, <2>3 DEF SpentKnown, Spent, IsRevoked
    <2>4. CASE Dead(m)
      <3>1. born'[m] # Never /\ issued'[m] # NoRow /\ (codes'[m] # NoRow => codes'[m].used)
        BY <1>3, <1>10, <2>1, <2>4 DEF Dead
      <3>2. ASSUME NEW x \in Pair
            PROVE  /\ refresh'[x] # NoRow /\ refresh'[x].family = m =>
                        IsRevoked(refresh'[x]) \/ Expired(refresh[x])'
                   /\ access'[x] # NoRow /\ access'[x].family = m =>
                        IsRevoked(access'[x]) \/ Expired(access[x])'
        <4>1. CASE x = p
          BY <1>6, <1>8, <1>20, <2>1, <4>1
        <4>2. CASE x # p
          BY <1>8, <2>4, <4>2 DEF Dead, Expired
        <4> QED
          BY <4>1, <4>2
      <3>3. Dead(m)'
        BY <3>1, <3>2 DEF Dead, IsRevoked
      <3> QED
        BY <2>2, <3>3 DEF SpentKnown
    <2> QED
      BY <2>1, <2>3, <2>4 DEF SpentKnown
  <1> QED
    BY <1>12, <1>18, <1>21, <1>22, <1>23 DEF IInv

LEMMA RedeemKeeps ==
  ASSUME IInv, NEW k \in Code, NEW c \in Client, NEW matches \in BOOLEAN, Redeem(k, c, matches)
  PROVE  IInv'
  BY FamilyStarts DEF Redeem

LEMMA RedeemInterruptedKeeps ==
  ASSUME IInv, NEW k \in Code, NEW c \in Client, RedeemInterrupted(k, c)
  PROVE  IInv'
  <1>1. /\ Claim(k) /\ born' = [born EXCEPT ![k] = now] /\ UNCHANGED <<now, consents, refresh, issued, spent>>
        /\ \/ UNCHANGED <<access, minted>>
           \/ \E p \in FreshPairs : InsertAccess(p, k, codes[k], codes[k].scopes)
    BY DEF RedeemInterrupted
  <1>2. CASE \E p \in FreshPairs : InsertAccess(p, k, codes[k], codes[k].scopes)
    BY <1>1, <1>2, FamilyStarts
  <1>3. CASE UNCHANGED <<access, minted>>
    <2>1. now \in Nat /\ born' \in [Code -> Nat \cup {Never}] /\ \A m \in Code : m # k => born'[m] = born[m]
      BY <1>1 DEF IInv, TypeOK
    <2>2. TypeOK'
      BY <1>1, <1>3, <2>1, ClaimedCode DEF IInv, TypeOK
    <2>3. \A q \in Pair : RowKept(access'[q], access[q])
      BY <1>3, SameRow
    <2>4. \A m \in Code : CodeKept(m)
      BY <1>1, <2>1, ClaimedCode DEF CodeKept, Claim
    <2>5. \A m \in Code : CodeKnown(m)'
      BY <1>1, ClaimedCode
    <2> QED
      BY <1>1, <1>3, <2>1, <2>2, <2>3, <2>4, <2>5, ConsentsUntouched, RefreshUntouched
  <1> QED
    BY <1>1, <1>2, <1>3

-----------------------------------------------------------------------------
(* Rotation continues a family.                                            *)

LEMMA RefreshKeeps ==
  ASSUME IInv, NEW q \in Pair, NEW c \in Client, NEW scopes \in SUBSET Scope, Refresh(q, c, scopes)
  PROVE  IInv'
  <1> DEFINE row == refresh[q]
             k == refresh[q].family
  <1>1. /\ row # NoRow /\ ~IsRevoked(row) /\ row.replacedBy = Never /\ ~Expired(row)
        /\ scopes # {} /\ scopes \subseteq row.scopes
    BY DEF Refresh, Refreshable
  <1>2. /\ spent' = spent \cup {<<q, k>>}
        /\ UNCHANGED <<now, consents, codes, issued, born>>
    BY DEF Refresh
  <1>3. PICK p \in FreshPairs :
          /\ InsertAccess(p, k, row, scopes)
          /\ refresh' = [refresh EXCEPT ![q].replacedBy = p, ![p] = NewToken(k, row, scopes, row.expiresAt)]
    BY DEF Refresh
  <1> DEFINE a == NewToken(k, row, scopes, now + AccessTTL)
             r == NewToken(k, row, scopes, row.expiresAt)
             marked == [row EXCEPT !.replacedBy = p]
  <1>4. p \in Pair /\ p \notin minted /\ minted' = minted \cup {p} /\ access' = [access EXCEPT ![p] = a]
    BY <1>3 DEF FreshPairs, InsertAccess
  <1>5. /\ now \in Nat /\ now + AccessTTL \in Nat
        /\ access \in [Pair -> TokenRow \cup {NoRow}] /\ refresh \in [Pair -> TokenRow \cup {NoRow}]
    BY TimesAssumption DEF IInv, TypeOK
  <1>6. /\ row \in TokenRow /\ k \in Code /\ row.client \in Client /\ row.consent \in Consent
        /\ row.expiresAt \in Nat
    BY <1>1, Rows, TokenFields DEF IInv
  <1>7. RefreshKnown(q)
    BY DEF IInv, Known
  <1>8. /\ q \in minted /\ RowBacked(row) /\ row.expiresAt = born[k] + RefreshTTL
    BY <1>1, <1>7 DEF RefreshKnown
  <1>9. p # q
    BY <1>4, <1>8
  <1>10. scopes \in Granted
    BY <1>1 DEF Granted
  <1>11. /\ a \in TokenRow /\ a.family = k /\ a.client = row.client /\ a.consent = row.consent
         /\ a.scopes = scopes /\ a.expiresAt = now + AccessTTL /\ a.revokedAt = Never
         /\ r \in TokenRow /\ r.family = k /\ r.client = row.client /\ r.consent = row.consent
         /\ r.scopes = scopes /\ r.expiresAt = row.expiresAt /\ r.revokedAt = Never
    BY <1>5, <1>6, <1>10, NewTokenRow
  <1>12. /\ marked \in TokenRow /\ marked.family = k /\ marked.client = row.client
         /\ marked.consent = row.consent /\ marked.scopes = row.scopes
         /\ marked.expiresAt = row.expiresAt /\ marked.revokedAt = row.revokedAt
         /\ marked.replacedBy = p
    BY <1>4, <1>6 DEF TokenRow
  <1>13. refresh' = [refresh EXCEPT ![q] = marked, ![p] = r]
    BY <1>3
  <1>14. refresh[p] = NoRow /\ access[p] = NoRow
    BY <1>4 DEF IInv, Known, RefreshKnown, AccessKnown
  <1> HIDE DEF a, r, marked
  <1>15. /\ access'[p] = a /\ \A x \in Pair : x # p => access'[x] = access[x]
         /\ refresh'[p] = r /\ refresh'[q] = marked
         /\ \A x \in Pair : x # p /\ x # q => refresh'[x] = refresh[x]
         /\ access' \in [Pair -> TokenRow \cup {NoRow}] /\ refresh' \in [Pair -> TokenRow \cup {NoRow}]
    BY <1>4, <1>5, <1>9, <1>11, <1>12, <1>13
  <1>16. TypeOK'
    <2>1. minted' \subseteq Pair /\ spent' \in SUBSET (Pair \X Code)
      BY <1>2, <1>4, <1>6 DEF IInv, TypeOK
    <2> QED
      BY <1>2, <1>15, <2>1 DEF IInv, TypeOK
  <1>17. \A m \in Code : CodeKept(m) /\ CodeKnown(m)'
    BY <1>2 DEF CodeKept, IInv, Known, CodeKnown
  <1>18. p # Never /\ marked # NoRow
    BY <1>4, <1>12, NullAssumption, TokenFields
  <1>19. ASSUME NEW x \in Pair, x # p
         PROVE  RowKept(refresh'[x], refresh[x]) /\ RowKept(access'[x], access[x])
    <2>1. RowKept(access'[x], access[x])
      BY <1>15, <1>19, SameRow
    <2>2. CASE x = q
      BY <1>1, <1>12, <1>15, <2>1, <2>2 DEF RowKept, IsRevoked
    <2>3. CASE x # q
      BY <1>15, <1>19, <2>1, <2>3, SameRow
    <2> QED
      BY <2>2, <2>3
  <1>20. /\ issued[k] # NoRow /\ issued[k].consent = row.consent /\ issued[k].client = row.client
         /\ row.scopes \subseteq issued[k].scopes /\ born[k] # Never /\ (codes[k] # NoRow => codes[k].used)
    BY <1>8 DEF RowBacked
  <1>21. RefreshKnown(p)'
    <2>1. RowBacked(refresh[p])'
      BY <1>1, <1>2, <1>11, <1>15, <1>20 DEF RowBacked
    <2> QED
      BY <1>2, <1>4, <1>8, <1>11, <1>15, <2>1 DEF RefreshKnown
  <1>22. AccessKnown(p)'
    <2>1. RowBacked(access[p])'
      BY <1>1, <1>2, <1>11, <1>15, <1>20 DEF RowBacked
    <2>2. now < row.expiresAt
      BY <1>1, <1>5, <1>6 DEF Expired
    <2>3. born[k] \in Nat
      BY <1>6, <1>20, Rows DEF IInv
    <2>4. a.expiresAt < born[k] + RefreshTTL + AccessTTL
      BY <1>5, <1>8, <1>11, <2>2, <2>3, TimesAssumption
    <2> QED
      BY <1>2, <1>4, <1>11, <1>15, <2>1, <2>4 DEF AccessKnown
  <1>23. Known' /\ OneActive'
    <2>1. \A x \in Pair : RefreshKnown(x)' /\ AccessKnown(x)'
      BY <1>4, <1>17, <1>19, <1>21, <1>22, RefreshStaysKnown, AccessStaysKnown
    <2> QED
      BY <1>2, <1>17, <2>1, ConsentsUntouched DEF Known
  <1>24. OneLiveRefresh'
    <2> SUFFICES ASSUME NEW m \in Code, NEW x \in Pair, NEW y \in Pair, LiveRefresh(x, m)', LiveRefresh(y, m)'
                 PROVE  x = y
      BY DEF OneLiveRefresh
    <2>1. \A z \in Pair : LiveRefresh(z, m)' => z # q
      BY <1>12, <1>15, <1>18 DEF LiveRefresh
    <2>2. \A z \in Pair : z # p /\ LiveRefresh(z, m)' => LiveRefresh(z, m)
      BY <1>19, LiveStaysLive
    <2>3. LiveRefresh(q, k)
      BY <1>1 DEF LiveRefresh
    <2>4. \A z \in Pair : z # q => ~LiveRefresh(z, k)
      BY <1>6, <2>3 DEF IInv, OneLiveRefresh
    <2>5. LiveRefresh(p, m)' => m = k
      BY <1>11, <1>15 DEF LiveRefresh
    <2> QED
      BY <2>1, <2>2, <2>4, <2>5 DEF IInv, OneLiveRefresh
  <1>25. FamilyFallsTogether'
    <2> SUFFICES ASSUME NEW x \in Pair, NEW y \in Pair, refresh'[x] # NoRow, IsRevoked(refresh'[x])
                 PROVE  /\ refresh'[y] # NoRow /\ refresh'[y].family = refresh'[x].family => IsRevoked(refresh'[y])
                        /\ access'[y] # NoRow /\ access'[y].family = refresh'[x].family => IsRevoked(access'[y])
      BY DEF FamilyFallsTogether, IsRevoked
    <2>1. x # p /\ x # q
      BY <1>1, <1>11, <1>12, <1>15 DEF IsRevoked
    <2>2. refresh'[x] = refresh[x] /\ refresh[x].family # k
      BY <1>1, <1>15, <2>1 DEF IInv, FamilyFallsTogether
    <2>3. CASE y = p
      BY <1>11, <1>15, <2>2, <2>3
    <2>4. CASE y = q
      BY <1>9, <1>12, <1>15, <2>2, <2>4 DEF IInv, FamilyFallsTogether
    <2>5. CASE y # p /\ y # q
      BY <1>15, <2>2, <2>5 DEF IInv, FamilyFallsTogether
    <2> QED
      BY <2>3, <2>4, <2>5
  <1>26. ASSUME NEW x \in Pair, NEW m \in Code, <<x, m>> \in spent' PROVE SpentKnown(x, m)'
    <2>1. CASE x = q /\ m = k
      BY <1>1, <1>4, <1>8, <1>12, <1>15, <1>18, <2>1 DEF SpentKnown, Spent, IsRevoked
    <2>2. CASE ~(x = q /\ m = k)
      <3>1. SpentKnown(x, m) /\ x \in minted' /\ x # p
        BY <1>2, <1>4, <1>26, <2>2 DEF IInv, SpentKnown
      <3>2. CASE Spent(x) /\ refresh[x].family = m
        <4>1. x # q
          BY <1>1, <3>2 DEF Spent
        <4> QED
          BY <1>15, <3>1, <3>2, <4>1 DEF SpentKnown, Spent, IsRevoked
      <3>3. CASE Dead(m)
        <4>1. m # k
          BY <1>1, <3>3 DEF Dead
        <4>2. ASSUME NEW y \in Pair
              PROVE  /\ refresh'[y] # NoRow /\ refresh'[y].family = m =>
                          IsRevoked(refresh'[y]) \/ Expired(refresh[y])'
                     /\ access'[y] # NoRow /\ access'[y].family = m =>
                          IsRevoked(access'[y]) \/ Expired(access[y])'
          <5>1. CASE y = p
            BY <1>11, <1>15, <4>1, <5>1
          <5>2. CASE y = q
            BY <1>2, <1>9, <1>12, <1>15, <3>3, <4>1, <5>2 DEF Dead, Expired
          <5>3. CASE y # p /\ y # q
            BY <1>2, <1>15, <3>3, <5>3 DEF Dead, Expired
          <5> QED
            BY <5>1, <5>2, <5>3
        <4>3. born'[m] # Never /\ issued'[m] # NoRow /\ (codes'[m] # NoRow => codes'[m].used)
          BY <1>2, <3>3 DEF Dead
        <4>4. Dead(m)'
          BY <4>2, <4>3 DEF Dead, IsRevoked
        <4> QED
          BY <3>1, <4>4 DEF SpentKnown
      <3> QED
        BY <3>1, <3>2, <3>3 DEF SpentKnown
    <2> QED
      BY <2>1, <2>2
  <1> QED
    BY <1>16, <1>23, <1>24, <1>25, <1>26 DEF IInv

-----------------------------------------------------------------------------
(* The invariant, and what it says.                                        *)

LEMMA NextKeeps == IInv /\ [Next]_vars => IInv'
  <1> SUFFICES ASSUME IInv, [Next]_vars PROVE IInv'
    OBVIOUS
  <1>1. ASSUME NEW c \in Client, NEW scopes \in SUBSET Scope, Approve(c, scopes) PROVE IInv'
    BY <1>1, ApproveKeeps
  <1>2. ASSUME NEW k \in Code, NEW c \in Client, NEW matches \in BOOLEAN,
               Redeem(k, c, matches) \/ RedeemRefused(k, c, matches)
        PROVE  IInv'
    BY <1>2, RedeemKeeps, RedeemRefusedKeeps
  <1>3. ASSUME NEW k \in Code, NEW c \in Client, RedeemInterrupted(k, c) PROVE IInv'
    BY <1>3, RedeemInterruptedKeeps
  <1>4. ASSUME NEW k \in Code, ReuseCode(k) PROVE IInv'
    BY <1>4, ReuseCodeKeeps
  <1>5. ASSUME NEW q \in Pair, NEW c \in Client, NEW scopes \in SUBSET Scope, Refresh(q, c, scopes)
        PROVE  IInv'
    BY <1>5, RefreshKeeps
  <1>6. ASSUME NEW p \in Pair, Replay(p) \/ RevokeAccess(p) \/ RevokeRefresh(p) PROVE IInv'
    BY <1>6, ReplayKeeps, RevokeAccessKeeps, RevokeRefreshKeeps
  <1>7. ASSUME NEW n \in Consent, Disconnect(n) \/ DisconnectInterrupted(n) PROVE IInv'
    BY <1>7, DisconnectKeeps
  <1>8. CASE Tick
    BY <1>8, TickKeeps
  <1>9. CASE Maintain
    BY <1>9, MaintainKeeps
  <1>10. CASE UNCHANGED vars
    BY <1>10 DEF IInv, TypeOK, Known, CodeBacked, CodeKnown, RefreshKnown, AccessKnown, RowBacked,
                 OneActive, ConsentActive, OneLiveRefresh, LiveRefresh, FamilyFallsTogether,
                 SpentKnown, Spent, Dead, IsRevoked, Expired, vars, tables, history
  <1> QED
    BY <1>1, <1>2, <1>3, <1>4, <1>5, <1>6, <1>7, <1>8, <1>9, <1>10 DEF Next

LEMMA Invariance == Spec => []IInv
  BY Initially, NextKeeps, PTL DEF Spec

\* Every row of every table has its columns, whatever handlers ran.
THEOREM TypeCorrect == Spec => []TypeOK
  <1>1. IInv => TypeOK
    BY DEF IInv
  <1> QED
    BY <1>1, Invariance, PTL

\* A family never has two refresh tokens that can both be rotated.
THEOREM FamilyLinear == Spec => []OneLiveRefresh
  <1>1. IInv => OneLiveRefresh
    BY DEF IInv
  <1> QED
    BY <1>1, Invariance, PTL

\* A family in which one refresh token was revoked is revoked as a whole.
THEOREM FamilyFate == Spec => []FamilyFallsTogether
  <1>1. IInv => FamilyFallsTogether
    BY DEF IInv
  <1> QED
    BY <1>1, Invariance, PTL

\* Rotation never widens a scope beyond what was ticked for the code.
THEOREM ScopesBounded == Spec => []ScopesTicked
  <1>1. IInv => ScopesTicked
    <2> SUFFICES ASSUME IInv, NEW p \in Pair, NEW row \in {access[p], refresh[p]} \ {NoRow}
                 PROVE  row.scopes \subseteq issued[row.family].scopes \cap consents[row.consent].scopes
      BY DEF ScopesTicked
    <2>1. row \in TokenRow /\ RowBacked(row)
      BY Rows DEF IInv, Known, RefreshKnown, AccessKnown
    <2>2. row.family \in Code
      BY <2>1, TokenFields
    <2>3. CodeBacked(row.family)
      BY <2>2 DEF IInv, Known
    <2> QED
      BY <2>1, <2>3 DEF CodeBacked, RowBacked
  <1> QED
    BY <1>1, Invariance, PTL

\* An accepted token stands under the one active consent of its client.
THEOREM AcceptedCurrent == Spec => []AcceptedIsCurrent
  <1>1. IInv => AcceptedIsCurrent
    <2> SUFFICES ASSUME IInv, NEW p \in Pair, Accepted(p)
                 PROVE  {n \in Consent : /\ consents[n] # NoRow
                                         /\ consents[n].client = access[p].client
                                         /\ ~consents[n].revoked} = {access[p].consent}
      BY DEF AcceptedIsCurrent
    <2>1. access[p] \in TokenRow /\ RowBacked(access[p])
      BY Rows DEF IInv, Known, AccessKnown, Accepted
    <2>2. access[p].family \in Code /\ access[p].consent \in Consent
      BY <2>1, TokenFields
    <2>3. CodeBacked(access[p].family)
      BY <2>2 DEF IInv, Known
    <2>4. ConsentActive(access[p].consent) /\ consents[access[p].consent].client = access[p].client
      BY <2>1, <2>3 DEF CodeBacked, RowBacked, Accepted
    <2> QED
      BY <2>2, <2>4 DEF IInv, OneActive, ConsentActive
  <1> QED
    BY <1>1, Invariance, PTL

\* While a family can be used, every refresh token it has spent is recognised.
THEOREM ReplayRecognised == Spec => []ReplaySeen
  <1>1. IInv => ReplaySeen
    <2> SUFFICES ASSUME IInv, NEW s \in spent, NEW p \in Pair,
                        \/ Refreshable(p) /\ refresh[p].family = s[2]
                        \/ Accepted(p) /\ access[p].family = s[2]
                 PROVE  Spent(s[1])
      BY DEF ReplaySeen
    <2>1. s \in Pair \X Code
      BY DEF IInv, TypeOK
    <2>2. s[1] \in Pair /\ s[2] \in Code /\ s = <<s[1], s[2]>>
      BY <2>1
    <2>3. SpentKnown(s[1], s[2])
      BY <2>2 DEF IInv
    <2>4. ~Dead(s[2])
      BY DEF Dead, Refreshable, Accepted
    <2> QED
      BY <2>3, <2>4 DEF SpentKnown
  <1> QED
    BY <1>1, Invariance, PTL

\* However often it is rotated, a family ends when its first pair said.
THEOREM FamilyLifetime == Spec => []FamilyEnds
  <1>1. IInv => FamilyEnds
    BY DEF IInv, Known, RefreshKnown, AccessKnown, FamilyEnds
  <1> QED
    BY <1>1, Invariance, PTL

\* Families of tokens keep one token to rotate, one fate and one end
\* (token-refresh.ts, repositories).
THEOREM FamiliesAreSound == Spec => []FamiliesSound
  <1>1. TypeOK /\ OneLiveRefresh /\ FamilyFallsTogether /\ FamilyEnds => FamiliesSound
    BY DEF FamiliesSound
  <1> QED
    BY <1>1, TypeCorrect, FamilyLinear, FamilyFate, FamilyLifetime, PTL

\* A token is accepted only under its client's one consent, with scopes the
\* operator ticked (verify).
THEOREM AccessIsSound == Spec => []AccessSound
  <1>1. AcceptedIsCurrent /\ ScopesTicked => AccessSound
    BY DEF AccessSound
  <1> QED
    BY <1>1, AcceptedCurrent, ScopesBounded, PTL

=============================================================================

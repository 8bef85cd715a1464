---------------------------- MODULE MCOAuthTokens ----------------------------
(* Identifiers and scopes are interchangeable: they are only compared.     *)
EXTENDS OAuthTokens, TLC

Symmetry ==
  Permutations(Client) \cup Permutations(Scope) \cup Permutations(Consent) \cup Permutations(Code) \cup Permutations(Pair)
==============================================================================

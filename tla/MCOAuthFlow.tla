---------------------------- MODULE MCOAuthFlow ----------------------------
(* Instances of the OAuth flow for TLC. *)
EXTENDS OAuthFlowProps, TLC

Symmetry == Permutations(AccountIds) \cup Permutations(Calls) \cup Permutations(Scopes)
=============================================================================

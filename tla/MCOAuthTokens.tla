--------------------------- MODULE MCOAuthTokens ---------------------------
(* Small instances of OAuthTokens for TLC. *)
EXTENDS OAuthTokens, TLC

\* Requests are interchangeable (safety runs only).
RequestSymmetry == Permutations(Request)
=============================================================================

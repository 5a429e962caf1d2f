---------------------------- MODULE MCUserTokens ----------------------------
(* Small instances of UserTokens for TLC. *)
EXTENDS UserTokens, TLC

\* Requests are interchangeable.
RequestSymmetry == Permutations(Request)
=============================================================================

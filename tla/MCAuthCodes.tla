---------------------------- MODULE MCAuthCodes ----------------------------
(* Small instances of AuthCodes and Sessions for TLC. *)
EXTENDS Sessions, TLC

\* Exchanges are interchangeable.
RequestSymmetry == Permutations(Request)
=============================================================================

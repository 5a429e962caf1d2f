-------------------------- MODULE MCSeedLifecycle --------------------------
(* Small instances of SeedLifecycle for TLC: an Account and a Contact in   *)
(* the seed, and a Contact that is in the scenario overlay only.           *)
EXTENDS SeedLifecycle, TLC

CONSTANTS account, contact, extra

TypeOfRecord == [i \in Id |-> IF i = account THEN 1 ELSE 2]

\* Resets are interchangeable.
RequestSymmetry == Permutations(Request)
=============================================================================

---------------------------- MODULE MCGeneration ----------------------------
(* A small instance of Generation for TLC. *)
EXTENDS Generation

\* Bound: a table of five or more cases is checked, but nothing follows it.
FewCases == Len(cases) <= 4
=============================================================================

---------------------------- MODULE MCLoginSteps -----------------------------
(* Two wizards and two requests at a time, in one browser page.              *)
EXTENDS LoginSteps, TLC

Symmetry == Permutations(Wizards) \cup Permutations(Requests) \cup Permutations(Tokens)
=============================================================================

------------------------------- MODULE MCLogin -------------------------------
(* One address, two requests at a time.                                    *)
EXTENDS Login, TLC

Symmetry == Permutations(Requests)
=============================================================================

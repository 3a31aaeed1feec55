---------------------------- MODULE MCMediaCache ----------------------------
(***************************************************************************)
(* A small cache for TLC: room for two units, files of one, two and three  *)
(* units, so that one file may be too large, one may need two victims, and *)
(* a replacement may be larger or smaller than what it replaces.           *)
(***************************************************************************)
EXTENDS MediaCache

CONSTANTS k1, k2, c1, c2, free

MCKeys == {k1, k2}
MCCallers == {c1, c2}
MCSizes == {1, 2, 3}
AllFaults == FaultKinds
CrashOnly == {"crash"}
=============================================================================

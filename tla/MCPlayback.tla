----------------------------- MODULE MCPlayback ------------------------------
(* One page and two recordings, of which one is played as it is and the other *)
(* has to be prepared, with a preparer or without.                            *)
EXTENDS Playback, TLC

CONSTANTS t1, t2

MCSetups == [mode : {t1 :> "cold" @@ t2 :> "passthrough"}, preparer : BOOLEAN]
=============================================================================

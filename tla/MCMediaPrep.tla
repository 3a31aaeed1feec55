---------------------------- MODULE MCMediaPrep ------------------------------
(***************************************************************************)
(* Two tokens, in the pairs of modes where something can happen: two       *)
(* transcodes competing for one slot, and a remux beside a row that cannot *)
(* be prepared or one that need not be.  Two workers are enough, since a   *)
(* third would be a second one on some token.                              *)
(***************************************************************************)
EXTENDS MediaPrep, TLC

CONSTANTS t1, t2, w1, w2, h1, nobody

MCTokens == {t1, t2}
MCWorkers == {w1, w2}
MCHandlers == {h1}
MCModes == {t1 :> "transcode" @@ t2 :> "transcode",
            t1 :> "remux" @@ t2 :> "unknown",
            t1 :> "remux" @@ t2 :> "passthrough"}
OneRemux == {t1 :> "remux" @@ t2 :> "passthrough"}
=============================================================================

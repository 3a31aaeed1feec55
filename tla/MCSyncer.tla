------------------------------ MODULE MCSyncer ------------------------------
(***************************************************************************)
(* Overlapping runs, or one at a time, over two channels, the first of     *)
(* which, in the order of the labels, may fail for ever.                   *)
(***************************************************************************)
EXTENDS Syncer

CONSTANTS c1, c2, r1, r2

MCChannels == {c1, c2}
MCPosts == {c1}
MCRuns == {r1, r2}
OneRun == {r1}
MCHealthy == {c1}
MCLabel == [c \in Channels |-> IF c = c1 THEN 2 ELSE 1]
=============================================================================

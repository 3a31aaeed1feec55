------------------------------ MODULE MCWatching -----------------------------
(* One page and one recording that has to be prepared.                        *)
EXTENDS Watching, TLC

CONSTANT t1

MCSetups == {[mode |-> t1 :> "cold", preparer |-> TRUE]}
=============================================================================

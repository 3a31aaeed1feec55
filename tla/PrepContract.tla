---------------------------- MODULE PrepContract -----------------------------
(***************************************************************************)
(* What the preparation of recordings promises, without saying how: each   *)
(* token has at most one attempt at a time; only an attempt changes the    *)
(* status of its token; and a token becomes ready only through an attempt  *)
(* that has announced itself and after its file was published.             *)
(***************************************************************************)
CONSTANT Tokens

VARIABLES
    attempts,   \* tokens being prepared
    status,     \* what the catalog says of each token
    published   \* tokens whose file has been published at some time

vars == <<attempts, status, published>>

Init ==
    /\ attempts = {}
    /\ status = [t \in Tokens |-> "none"]
    /\ published = {}

Begin(t) ==
    /\ t \notin attempts
    /\ attempts' = attempts \cup {t}
    /\ UNCHANGED <<status, published>>

Announce(t) ==
    /\ t \in attempts
    /\ status' = [status EXCEPT ![t] = "preparing"]
    /\ UNCHANGED <<attempts, published>>

Publish(t) ==
    /\ t \in attempts
    /\ status[t] = "preparing"
    /\ published' = published \cup {t}
    /\ UNCHANGED <<attempts, status>>

Deliver(t) ==
    /\ t \in attempts
    /\ status[t] = "preparing"
    /\ t \in published
    /\ status' = [status EXCEPT ![t] = "ready"]
    /\ UNCHANGED <<attempts, published>>

Fail(t) ==
    /\ t \in attempts
    /\ status' = [status EXCEPT ![t] = "failed"]
    /\ UNCHANGED <<attempts, published>>

End(t) ==
    /\ t \in attempts
    /\ attempts' = attempts \ {t}
    /\ UNCHANGED <<status, published>>

\* The process stops: every attempt ends and nothing is recorded.
Interrupt ==
    /\ attempts' = {}
    /\ UNCHANGED <<status, published>>

Next ==
    \/ \E t \in Tokens :
          \/ Begin(t)
          \/ Announce(t)
          \/ Publish(t)
          \/ Deliver(t)
          \/ Fail(t)
          \/ End(t)
    \/ Interrupt

Spec == Init /\ [][Next]_vars
=============================================================================

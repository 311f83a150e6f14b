------------------------------ MODULE MCListener ------------------------------
(* Listener for TLC. *)
EXTENDS Listener

\* One stream may be freed too early, once.
CONSTANT s1
MCMaxStale == [s \in Stream |-> IF s = s1 THEN 1 ELSE 0]
=============================================================================

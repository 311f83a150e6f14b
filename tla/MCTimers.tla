------------------------------- MODULE MCTimers -------------------------------
(* Timers for TLC: streams are interchangeable. *)
EXTENDS Timers, TLC

Symmetry == Permutations(Stream)
=============================================================================

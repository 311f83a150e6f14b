----------------------------- MODULE MCEpollRb -----------------------------
(* EpollRb for TLC.  The .cfg file gives the bounds. *)
EXTENDS EpollRb, TLC
=============================================================================

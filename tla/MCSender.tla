------------------------------ MODULE MCSender ------------------------------
(* Two streams of one peer: streams with data have peers that are known. *)
EXTENDS Sender, TLC
CONSTANTS s1, s2, a1
OnePeer == s1 :> a1 @@ s2 :> a1
MCBytes == s1 :> 2 @@ s2 :> 1
=============================================================================

---------------------------- MODULE MCRecvBuffer ----------------------------
(* RecvBuffer for TLC.  No guard and no other variable reads data, so the run
   whose properties do not speak of it leaves it out of the fingerprints. *)
EXTENDS RecvBuffer

WithoutData == <<ring, rcv_nxt, rcv_wnd, seg, dropping, err>>
=============================================================================

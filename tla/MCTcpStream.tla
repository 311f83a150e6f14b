---------------------------- MODULE MCTcpStream ----------------------------
(* Instances of TcpStream for model checking; the .cfg files give the bounds. *)
EXTENDS TcpStream, TLC
=============================================================================

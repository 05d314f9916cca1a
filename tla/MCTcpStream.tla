------------------------------ MODULE MCTcpStream ------------------------------
(* Model checking of TcpStream on small instances.                          *)
EXTENDS TcpStream
=============================================================================

----------------------------- MODULE MCUdpChannel -----------------------------
(* Model checking of UdpChannel on small instances.                         *)
EXTENDS UdpChannel

CONSTANTS a, b
=============================================================================

------------------------------- MODULE MCSession -------------------------------
(* Model checking of Session on small instances.                            *)
EXTENDS Session
=============================================================================

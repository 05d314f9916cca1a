------------------------------ MODULE MCGameLoop ------------------------------
(* Model checking of GameLoop on small instances.                           *)
EXTENDS GameLoop
=============================================================================

-------------------------------- MODULE MCGroup --------------------------------
(* Model checking of Group on small instances.                              *)
EXTENDS Group, TLC

CONSTANTS c1, c2, c3

\* Nothing distinguishes one connection from another.
Symmetry == Permutations(Clients)
=============================================================================

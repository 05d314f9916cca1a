------------------------------ MODULE MCDispatch ------------------------------
(* Model checking of Dispatch on small instances.                           *)
EXTENDS Dispatch, TLC

CONSTANTS join, leave

Symmetry == Permutations({join, leave})
=============================================================================
